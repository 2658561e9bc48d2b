------------------------- MODULE ChannelAgentProofs -------------------------
(* The agent of a channel, for every set of nodes, every width of the
   transaction and operation ids, every queue size and retry budget, and
   every workload: what it holds is consistent between any two steps, and
   only the response to an attempt ends it early.  The task that drives
   the channel, for every list of nodes, every mailbox and ledger capacity
   and every workload of operations: it never loses itself, its audit
   covers its ledger, and maintenance is entered over a quiet channel. *)
EXTENDS ChannelWorker, ChannelAgent, FiniteSetTheorems, SequenceTheorems, WellFoundedInduction,
        TLAPS
------------------------
(* The invariant. *)

(* The work items of a behaviour that submits at most count of them. *)
Targets == Addresses \cup {CommissioningAddress}
Messages == AllKinds \cup Phases
Items(count) ==
    [kind : AllKinds, node : Targets, op : 0 .. OperationSpace, phase : Phases,
     attempts : Nat, held : BOOLEAN, sent : BOOLEAN, n : 1 .. count]
Places(count) == Items(count) \cup {NoWork}

(* A pull has used no more attempts than its slot has, and can be sent only
   while one is left; nothing else counts attempts. *)
Budgeted(a) ==
    /\ a.attempts \in 0 .. AttemptsPerSlot
    /\ a.kind # "Measurement" => a.attempts = 0
WithinSlot(a) == Budgeted(a) /\ (Sendable(a) => a.attempts < AttemptsPerSlot)

(* Operation ids are told apart, 0 being none. *)
OpsApart(p, o) ==
    /\ \A i, k \in DOMAIN p : i # k /\ p[i].op = p[k].op => p[i].op = 0
    /\ \A i \in DOMAIN p : p[i].op = o.op => o.op = 0

(* Each submitted work is in one place of the queue p, the active place o
   and the hand-off c, or has ended once. *)
Somewhere(n, p, o, c) == (\E i \in DOMAIN p : p[i].n = n) \/ o.n = n \/ c.n = n
Placed(p, o, c, g, e) ==
    /\ \A i, k \in DOMAIN p : p[i].n = p[k].n => i = k
    /\ \A i \in DOMAIN p : p[i].n # o.n /\ p[i].n # c.n
    /\ o.n = c.n => o.n = 0
    /\ \A i \in DOMAIN p : p[i].n <= g
    /\ o.n <= g /\ c.n <= g
    /\ \A n \in DOMAIN e : e[n] = IF n <= g /\ ~Somewhere(n, p, o, c) THEN 1 ELSE 0

Occupied(a) == IF a = NoWork THEN 0 ELSE 1

WorkInv(count, p, o, c, g, e) ==
    /\ p \in Seq(Items(count)) /\ o \in Places(count) /\ c \in Places(count)
    /\ g \in 0 .. count /\ e \in [1 .. count -> 0 .. 1]
    /\ Len(p) + Occupied(o) + Occupied(c) <= MaxPending
    /\ \A i \in DOMAIN p : WithinSlot(p[i])
    /\ WithinSlot(o) /\ Budgeted(c)
    /\ OpsApart(p, o)
    /\ Placed(p, o, c, g, e)

(* The id of the response that is age attempts old when next is the id of
   the next attempt. *)
IdOf(next, age) == IF age < next THEN next - 1 - age ELSE next - 1 - age + IdSpace

Attempts ==
    [state : {"Awaiting", "Quarantine"}, id : 0 .. (IdSpace - 1), node : Targets,
     message : Messages]
Responses ==
    [id : 0 .. (IdSpace - 1), node : Targets, message : Messages, status : Statuses,
     age : 0 .. (IdSpace - 1)]

(* A response under way tells its age by its id, the attempt awaited is the
   last one, and an idle core is past its window. *)
BusInv ==
    /\ tx = Idle \/ tx \in Attempts
    /\ next_id \in 0 .. (IdSpace - 1)
    /\ turn \in {"poll", "receive"}
    /\ window \in {"closed", "open", "late", "elapsed"}
    /\ wire \subseteq Responses
    /\ \A m \in wire : m.id = IdOf(next_id, m.age)
    /\ tx.state = "Awaiting" => tx.id = IdOf(next_id, 0)
    /\ tx = Idle => window \in {"closed", "elapsed"}

AgentInv ==
    /\ load \in Workloads
    /\ next_op \in 1 .. OperationSpace
    /\ WorkInv(load.count, pending, owner, completed, given, ended)
    /\ AttemptOwned
    /\ BusInv
------------------------
(* Arithmetic of the counters. *)

(* A number below the modulus, and one not yet twice as large. *)
LEMMA Remainder ==
  ASSUME NEW n \in Nat \ {0}, NEW r \in 0 .. (n - 1)
  PROVE  r % n = r /\ (r + n) % n = r
  BY SMTT(30)

(* transaction.rs wrapping_add(1). *)
LEMMA NextId ==
  ASSUME next_id \in 0 .. (IdSpace - 1)
  PROVE  (next_id + 1) % IdSpace = IF next_id = IdSpace - 1 THEN 0 ELSE next_id + 1
<1>1. IdSpace \in Nat \ {0} /\ IdSpace - 1 >= 1 BY ChannelAssumption
<1>2. CASE next_id = IdSpace - 1
  <2>1. (0 + IdSpace) % IdSpace = 0 BY <1>1, Remainder
  <2> QED BY <1>1, <1>2, <2>1
<1>3. CASE next_id # IdSpace - 1
  <2>1. next_id + 1 \in 0 .. (IdSpace - 1) BY <1>1, <1>3
  <2> QED BY <1>1, <1>3, <2>1, Remainder
<1> QED BY <1>2, <1>3

(* One attempt later every response is one attempt older. *)
LEMMA IdAges ==
  ASSUME next_id \in 0 .. (IdSpace - 1), NEW age \in 0 .. (IdSpace - 1)
  PROVE  /\ age + 1 < IdSpace =>
              IdOf((next_id + 1) % IdSpace, age + 1) = IdOf(next_id, age)
         /\ IdOf((next_id + 1) % IdSpace, 0) = next_id
         /\ IdOf(next_id, age) = IdOf(next_id, 0) => age = 0
<1>1. IdSpace \in Nat \ {0} /\ IdSpace - 1 >= 1 BY ChannelAssumption
<1>2. (next_id + 1) % IdSpace = IF next_id = IdSpace - 1 THEN 0 ELSE next_id + 1
  BY NextId
<1> QED BY <1>1, <1>2 DEF IdOf

(* A set of numbers that is not empty has its minimum. *)
LEMMA MinExists ==
  ASSUME NEW S \in SUBSET Nat, S # {}
  PROVE  Min(S) \in S
<1>1. PICK x \in S : \A y \in S : ~ (<<y, x>> \in OpToRel(<, Nat))
  BY NatLessThanWellFounded, WFMin
<1>2. ASSUME NEW y \in S PROVE ~(y < x)
  <2>1. <<y, x>> \in Nat \X Nat OBVIOUS
  <2>2. y < x => <<y, x>> \in OpToRel(<, Nat) BY <2>1, Zenon DEF OpToRel
  <2> QED BY <1>1, <2>2, Zenon
<1>3. \A y \in S : x <= y BY <1>2
<1> QED BY <1>3 DEF Min
------------------------
(* allocate_operation_id. *)

(* Among MaxPending + 1 ids in a row one is free while the queue has room,
   and the id allocated is one that no work inside the agent has. *)
LEMMA AllocatedIsFree ==
  ASSUME next_op \in 1 .. OperationSpace, pending \in Seq(Items(load.count)),
         Len(pending) < MaxPending
  PROVE  /\ allocate_operation_id \in 1 .. OperationSpace
         /\ ~operation_id_in_use(allocate_operation_id)
<1> DEFINE at(d) == ((next_op - 1 + d) % OperationSpace) + 1
           wrapped(d) == IF next_op - 1 + d < OperationSpace THEN next_op + d
                         ELSE next_op + d - OperationSpace
<1>1. /\ OperationSpace \in Nat \ {0} /\ MaxPending \in Nat \ {0}
      /\ OperationSpace > MaxPending
  BY ChannelAssumption
<1>2. ASSUME NEW d \in 0 .. MaxPending PROVE at(d) = wrapped(d)
  <2>1. CASE next_op - 1 + d < OperationSpace
    <3>1. next_op - 1 + d \in 0 .. (OperationSpace - 1) BY <1>1, <2>1
    <3>2. (next_op - 1 + d) % OperationSpace = next_op - 1 + d BY <1>1, <3>1, Remainder
    <3> QED BY <1>1, <2>1, <3>2
  <2>2. CASE ~(next_op - 1 + d < OperationSpace)
    <3>1. PICK r \in Int : r = next_op - 1 + d - OperationSpace BY <1>1
    <3>2. r \in 0 .. (OperationSpace - 1) BY <1>1, <2>2, <3>1
    <3>3. (r + OperationSpace) % OperationSpace = r BY <1>1, <3>2, Remainder
    <3>4. r + OperationSpace = next_op - 1 + d BY <1>1, <3>1
    <3> QED BY <1>1, <2>2, <3>1, <3>3, <3>4
  <2> QED BY <2>1, <2>2
<1>3. \A d, k \in 0 .. MaxPending : at(d) = at(k) => d = k BY <1>1, <1>2
<1>4. \A d \in 0 .. MaxPending : at(d) \in 1 .. OperationSpace BY <1>1, <1>2
<1>5. FreeOps = {d \in 0 .. MaxPending : ~operation_id_in_use(at(d))} BY DEF FreeOps
<1> HIDE DEF at, wrapped
<1>6. FreeOps # {}
  <2> SUFFICES ASSUME FreeOps = {} PROVE FALSE OBVIOUS
  <2> DEFINE holder == [d \in 0 .. MaxPending |->
                          IF owner.op = at(d) THEN 0
                          ELSE CHOOSE i \in DOMAIN pending : pending[i].op = at(d)]
  <2>1. ASSUME NEW d \in 0 .. MaxPending
        PROVE  /\ holder[d] \in 0 .. Len(pending)
               /\ holder[d] = 0 => owner.op = at(d)
               /\ holder[d] # 0 => pending[holder[d]].op = at(d)
    <3>1. operation_id_in_use(at(d)) BY <1>5
    <3>2. CASE owner.op = at(d) BY <3>2
    <3>3. CASE owner.op # at(d)
      <4>1. \E i \in DOMAIN pending : pending[i].op = at(d)
        BY <3>1, <3>3 DEF operation_id_in_use
      <4>2. DOMAIN pending = 1 .. Len(pending) /\ Len(pending) \in Nat OBVIOUS
      <4>3. /\ holder[d] \in DOMAIN pending
            /\ pending[holder[d]].op = at(d)
        BY <3>3, <4>1
      <4> QED BY <4>2, <4>3
    <3> QED BY <3>2, <3>3
  <2> HIDE DEF holder
  <2>2. holder \in [0 .. MaxPending -> 0 .. Len(pending)]
    <3>1. holder = [d \in 0 .. MaxPending |-> holder[d]] BY DEF holder
    <3> QED BY <2>1, <3>1
  <2>3. /\ IsFiniteSet(0 .. MaxPending) /\ Cardinality(0 .. MaxPending) = MaxPending + 1
        /\ IsFiniteSet(0 .. Len(pending)) /\ Cardinality(0 .. Len(pending)) = Len(pending) + 1
    BY <1>1, FS_Interval
  <2>4. Cardinality(0 .. Len(pending)) < Cardinality(0 .. MaxPending) BY <1>1, <2>3
  <2>5. PICK d, k \in 0 .. MaxPending : d # k /\ holder[d] = holder[k]
    BY <2>2, <2>3, <2>4, FS_PigeonHole
  <2>6. at(d) = at(k) BY <2>1, <2>5
  <2> QED BY <1>3, <2>5, <2>6
<1>7. Min(FreeOps) \in FreeOps
  <2>1. FreeOps \in SUBSET Nat BY <1>5
  <2> QED BY <1>6, <2>1, MinExists
<1>8. allocate_operation_id = at(Min(FreeOps)) BY DEF allocate_operation_id, at
<1> QED BY <1>4, <1>5, <1>7, <1>8
------------------------
(* The places of the works. *)

(* The kinds of a place, and what an empty one is. *)
LEMMA PlaceFacts ==
  ASSUME NEW count \in Nat, NEW a \in Places(count)
  PROVE  /\ a = NoWork <=> a.n = 0
         /\ a.n \in 0 .. count
         /\ a # NoWork => a \in Items(count) /\ a.n \in 1 .. count
         /\ WithinSlot(NoWork) /\ Budgeted(NoWork)
         /\ NoWork \in Places(count) /\ NoWork.n = 0 /\ NoWork.op = 0
  BY ChannelAssumption DEF Places, Items, NoWork, WithinSlot, Budgeted, Sendable

(* What is queued is work. *)
LEMMA QueueFacts ==
  ASSUME NEW count \in Nat, NEW p \in Seq(Items(count)), NEW i \in DOMAIN p
  PROVE  p[i] \in Items(count) /\ p[i].n \in 1 .. count /\ p[i].n # 0
<1>1. p[i] \in Items(count) OBVIOUS
<1> QED BY <1>1 DEF Items

(* The work o, brought to the state a: the same request, under its number. *)
SameWork(a, o) == a.kind = o.kind /\ a.node = o.node /\ a.op = o.op /\ a.n = o.n

(* The active work takes a step and stays active. *)
LEMMA WorkKept ==
  ASSUME NEW count \in Nat, NEW p, NEW o, NEW c, NEW g, NEW e,
         WorkInv(count, p, o, c, g, e), o # NoWork,
         NEW a \in Items(count), SameWork(a, o), WithinSlot(a)
  PROVE  WorkInv(count, p, a, c, g, e)
<1>1. a # NoWork /\ a \in Places(count) BY DEF Items, NoWork, Places
<1>2. a.n = o.n /\ a.op = o.op BY DEF SameWork
<1>3. OpsApart(p, a) BY <1>2 DEF WorkInv, OpsApart
<1>4. Placed(p, a, c, g, e) BY <1>2 DEF WorkInv, Placed, Somewhere
<1>5. Occupied(a) = Occupied(o) BY <1>1 DEF Occupied
<1> QED BY <1>1, <1>3, <1>4, <1>5 DEF WorkInv

(* The active work goes to the hand-off. *)
LEMMA WorkHandedOff ==
  ASSUME NEW count \in Nat, NEW p, NEW o, NEW g, NEW e,
         WorkInv(count, p, o, NoWork, g, e), o # NoWork,
         NEW a \in Items(count), SameWork(a, o), Budgeted(a)
  PROVE  WorkInv(count, p, NoWork, a, g, e)
<1>1. a # NoWork /\ a \in Places(count) BY DEF Items, NoWork, Places
<1>2. a.n = o.n /\ NoWork.n = 0 /\ NoWork.op = 0 /\ a.n \in 1 .. count
  BY DEF SameWork, NoWork, Items
<1>3. OpsApart(p, NoWork) BY <1>2 DEF WorkInv, OpsApart
<1>4. \A n : n # 0 => (Somewhere(n, p, NoWork, a) <=> Somewhere(n, p, o, NoWork))
  BY <1>2 DEF Somewhere
<1>5. Placed(p, NoWork, a, g, e)
  <2>1. \A n \in DOMAIN e : n # 0 BY DEF WorkInv
  <2>2. p \in Seq(Items(count)) /\ g \in Nat BY DEF WorkInv
  <2>4. \A i \in DOMAIN p : p[i].n # 0 BY <2>2, QueueFacts
  <2>5. a.n # 0 BY <1>2
  <2>6. Placed(p, o, NoWork, g, e) BY DEF WorkInv
  <2>7. NoWork.n <= g /\ a.n <= g BY <1>2, <2>2, <2>6 DEF Placed
  <2> QED BY <1>2, <1>4, <2>1, <2>4, <2>5, <2>6, <2>7 DEF Placed
<1>6. Occupied(a) = 1 /\ Occupied(o) = 1 /\ Occupied(NoWork) = 0 BY <1>1 DEF Occupied
<1>7. Len(p) + Occupied(NoWork) + Occupied(a) <= MaxPending
  BY <1>6, LenProperties DEF WorkInv
<1> QED BY <1>1, <1>3, <1>5, <1>7, PlaceFacts DEF WorkInv

(* The active work, or the one that waits for hand-off, ends. *)
LEMMA WorkEnded ==
  ASSUME NEW count \in Nat, NEW p, NEW o, NEW c, NEW g, NEW e,
         WorkInv(count, p, o, c, g, e),
         NEW o2 \in {o, NoWork}, NEW c2 \in {c, NoWork}, NEW n \in Nat,
         \/ n = o.n /\ o # NoWork /\ o2 = NoWork /\ c2 = c
         \/ n = c.n /\ c # NoWork /\ o2 = o /\ c2 = NoWork
  PROVE  /\ e[n] = 0
         /\ WorkInv(count, p, o2, c2, g, [e EXCEPT ![n] = @ + 1])
<1>1. /\ p \in Seq(Items(count)) /\ o \in Places(count) /\ c \in Places(count)
      /\ g \in 0 .. count /\ e \in [1 .. count -> 0 .. 1]
      /\ Placed(p, o, c, g, e)
  BY DEF WorkInv
<1>2. n \in 1 .. count BY <1>1, PlaceFacts
<1>3. Somewhere(n, p, o, c) BY DEF Somewhere
<1>4. e[n] = 0 BY <1>1, <1>2, <1>3 DEF Placed
<1>5. \A i \in DOMAIN p : p[i].n # n BY <1>1 DEF Placed
<1>6. \A k : k # 0 => (Somewhere(k, p, o2, c2) <=> (Somewhere(k, p, o, c) /\ k # n))
  <2>1. NoWork.n = 0 BY DEF NoWork
  <2>2. (o.n = c.n => o.n = 0) /\ n # 0 BY <1>1, <1>2 DEF Placed
  <2> QED BY <1>5, <2>1, <2>2 DEF Somewhere
<1> DEFINE f == [e EXCEPT ![n] = @ + 1]
<1>7. f \in [1 .. count -> 0 .. 1] BY <1>1, <1>2, <1>4
<1>8. Placed(p, o2, c2, g, f)
  <2>1. \A k \in DOMAIN f : f[k] = IF k <= g /\ ~Somewhere(k, p, o2, c2) THEN 1 ELSE 0
    <3> SUFFICES ASSUME NEW k \in 1 .. count
                 PROVE  f[k] = IF k <= g /\ ~Somewhere(k, p, o2, c2) THEN 1 ELSE 0
      BY <1>7
    <3>1. CASE k = n
      <4>1. f[k] = 1 BY <1>1, <1>2, <1>4, <3>1
      <4>2. ~Somewhere(k, p, o2, c2) BY <1>6, <3>1, <1>2
      <4>3. k <= g BY <1>1, <3>1 DEF Placed
      <4> QED BY <4>1, <4>2, <4>3
    <3>2. CASE k # n
      <4>1. f[k] = e[k] BY <1>1, <3>2
      <4>2. Somewhere(k, p, o2, c2) <=> Somewhere(k, p, o, c) BY <1>6, <3>2
      <4> QED BY <1>1, <4>1, <4>2 DEF Placed
    <3> QED BY <3>1, <3>2
  <2>2. NoWork.n = 0 /\ 0 <= g BY <1>1 DEF NoWork
  <2>3. \A i \in DOMAIN p : p[i].n # 0 BY <1>1, QueueFacts
  <2> HIDE DEF f
  <2> QED BY <1>1, <2>1, <2>2, <2>3 DEF Placed
<1>9. OpsApart(p, o2) BY DEF WorkInv, OpsApart, NoWork
<1>10. Len(p) + Occupied(o2) + Occupied(c2) <= MaxPending
  <2>1. Occupied(o2) <= Occupied(o) /\ Occupied(c2) <= Occupied(c)
        /\ {Occupied(o2), Occupied(c2), Occupied(o), Occupied(c)} \subseteq {0, 1}
    BY DEF Occupied
  <2>2. Len(p) \in Nat /\ MaxPending \in Nat BY <1>1, LenProperties, ChannelAssumption
  <2>3. Len(p) + Occupied(o) + Occupied(c) <= MaxPending BY DEF WorkInv
  <2> HIDE DEF Occupied
  <2> QED BY <2>1, <2>2, <2>3
<1>11. WithinSlot(o2) /\ Budgeted(c2) /\ o2 \in Places(count) /\ c2 \in Places(count)
  BY <1>1, PlaceFacts DEF WorkInv
<1> QED BY <1>1, <1>4, <1>7, <1>8, <1>9, <1>10, <1>11 DEF WorkInv

(* The work the agent would act on: the head of the queue becomes active
   when nothing else is. *)
LEMMA WorkStarted ==
  ASSUME NEW count \in Nat, NEW c, NEW g, NEW e,
         WorkInv(count, pending, owner, c, g, e)
  PROVE  WorkInv(count, Waiting, Started, c, g, e)
<1>1. CASE ~(owner = NoWork /\ pending # <<>>) BY <1>1 DEF Started, Waiting
<1>2. CASE owner = NoWork /\ pending # <<>>
  <2> DEFINE p == pending
             h == Head(pending)
             q == Tail(pending)
  <2>1. /\ p \in Seq(Items(count)) /\ c \in Places(count)
        /\ g \in 0 .. count /\ e \in [1 .. count -> 0 .. 1]
        /\ Placed(p, NoWork, c, g, e) /\ OpsApart(p, NoWork)
    BY <1>2 DEF WorkInv
  <2>2. /\ h = p[1] /\ 1 \in DOMAIN p /\ h \in Items(count)
        /\ q \in Seq(Items(count)) /\ Len(q) = Len(p) - 1
        /\ DOMAIN q = 1 .. (Len(p) - 1) /\ DOMAIN p = 1 .. Len(p) /\ Len(p) \in Nat
        /\ \A i \in DOMAIN q : i + 1 \in DOMAIN p /\ q[i] = p[i + 1]
    BY <1>2, <2>1
  <2>3. \A i \in DOMAIN p : i = 1 \/ (i - 1 \in DOMAIN q /\ p[i] = q[i - 1]) BY <2>2
  <2>4. h.n # 0 /\ h.n \in 1 .. count /\ h # NoWork /\ h \in Places(count)
    BY <2>1, <2>2, QueueFacts DEF Places, NoWork
  <2> HIDE DEF p, h, q
  <2>5. OpsApart(q, h)
    <3>1. \A i, k \in DOMAIN q : i # k /\ q[i].op = q[k].op => q[i].op = 0
      BY SMTT(30), <2>1, <2>2 DEF OpsApart
    <3>2. \A i \in DOMAIN q : q[i].op = h.op => h.op = 0 BY <2>1, <2>2 DEF OpsApart
    <3> QED BY <3>1, <3>2 DEF OpsApart
  <2>6. \A n : n # 0 => (Somewhere(n, q, h, c) <=> Somewhere(n, p, NoWork, c))
    <3>1. NoWork.n = 0 BY DEF NoWork
    <3>2. ASSUME NEW n, n # 0, Somewhere(n, q, h, c) PROVE Somewhere(n, p, NoWork, c)
      BY <2>2, <3>2 DEF Somewhere
    <3>3. ASSUME NEW n, n # 0, Somewhere(n, p, NoWork, c) PROVE Somewhere(n, q, h, c)
      BY <2>2, <2>3, <3>1, <3>3 DEF Somewhere
    <3> QED BY <3>2, <3>3
  <2>7. Placed(q, h, c, g, e)
    <3>1. \A i, k \in DOMAIN q : q[i].n = q[k].n => i = k BY <2>1, <2>2 DEF Placed
    <3>2. \A i \in DOMAIN q : q[i].n # h.n /\ q[i].n # c.n
      BY SMTT(30), <2>1, <2>2 DEF Placed
    <3>3. h.n # c.n /\ h.n <= g /\ c.n <= g BY <2>1, <2>2 DEF Placed
    <3>4. \A i \in DOMAIN q : q[i].n <= g BY <2>1, <2>2 DEF Placed
    <3>5. \A n \in DOMAIN e : e[n] = IF n <= g /\ ~Somewhere(n, q, h, c) THEN 1 ELSE 0
      <4>1. \A n \in DOMAIN e : n # 0 BY <2>1
      <4> QED BY <2>1, <2>6, <4>1 DEF Placed
    <3> QED BY <3>1, <3>2, <3>3, <3>4, <3>5 DEF Placed
  <2>8. (\A i \in DOMAIN q : WithinSlot(q[i])) /\ WithinSlot(h) /\ Budgeted(c)
    BY <2>2 DEF WorkInv, p
  <2>9. Len(q) + Occupied(h) + Occupied(c) <= MaxPending
    <3>1. Occupied(NoWork) = 0 /\ Occupied(h) = 1 /\ Occupied(c) \in {0, 1}
      BY <2>4 DEF Occupied
    <3>2. Len(p) + Occupied(NoWork) + Occupied(c) <= MaxPending BY <1>2 DEF WorkInv, p
    <3> QED BY <2>2, <3>1, <3>2, ChannelAssumption
  <2>10. WorkInv(count, q, h, c, g, e)
    BY <2>1, <2>2, <2>4, <2>5, <2>7, <2>8, <2>9 DEF WorkInv
  <2>11. Started = h /\ Waiting = q BY <1>2 DEF Started, Waiting, h, q
  <2> QED BY <2>10, <2>11
<1> QED BY <1>1, <1>2

(* submit. *)
LEMMA WorkSubmitted ==
  ASSUME NEW count \in Nat, NEW p, NEW o, NEW c, NEW g, NEW e,
         WorkInv(count, p, o, c, g, e), g < count,
         Len(p) + Occupied(o) + Occupied(c) < MaxPending,
         NEW a \in Items(count), WithinSlot(a), a.n = g + 1,
         a.op # 0 => (a.op # o.op /\ \A i \in DOMAIN p : p[i].op # a.op)
  PROVE  WorkInv(count, Append(p, a), o, c, g + 1, e)
<1> DEFINE q == Append(p, a)
<1>1. /\ p \in Seq(Items(count)) /\ o \in Places(count) /\ c \in Places(count)
      /\ g \in 0 .. count /\ e \in [1 .. count -> 0 .. 1] /\ count \in Nat
      /\ Placed(p, o, c, g, e) /\ OpsApart(p, o)
  BY DEF WorkInv
<1>2. /\ q \in Seq(Items(count)) /\ Len(q) = Len(p) + 1 /\ Len(p) \in Nat
      /\ DOMAIN p = 1 .. Len(p) /\ DOMAIN q = 1 .. (Len(p) + 1)
      /\ q[Len(p) + 1] = a
      /\ \A i \in DOMAIN p : i \in DOMAIN q /\ q[i] = p[i]
      /\ \A i \in DOMAIN q : i = Len(p) + 1 \/ (i \in DOMAIN p /\ q[i] = p[i])
  BY <1>1
<1>3. /\ \A i \in DOMAIN p : p[i].n \in 1 .. g
      /\ o.n \in 0 .. g /\ c.n \in 0 .. g
  <2>1. \A i \in DOMAIN p : p[i].n \in 1 .. count /\ p[i].n <= g
    BY <1>1, QueueFacts DEF Placed
  <2>2. o.n \in 0 .. count /\ c.n \in 0 .. count /\ o.n <= g /\ c.n <= g
    BY <1>1, PlaceFacts DEF Placed
  <2> QED BY <1>1, <2>1, <2>2
<1> HIDE DEF q
<1>4. OpsApart(q, o)
  <2>1. ASSUME NEW i \in DOMAIN q, NEW k \in DOMAIN q, i # k, q[i].op = q[k].op
        PROVE  q[i].op = 0
    BY <1>1, <1>2, <2>1 DEF OpsApart
  <2>2. ASSUME NEW i \in DOMAIN q, q[i].op = o.op
        PROVE  o.op = 0
    BY <1>1, <1>2, <2>2 DEF OpsApart
  <2> QED BY <2>1, <2>2 DEF OpsApart
<1>5. \A n : Somewhere(n, q, o, c) <=> (Somewhere(n, p, o, c) \/ n = g + 1)
  BY <1>2 DEF Somewhere
<1>6. ~Somewhere(g + 1, p, o, c) BY <1>1, <1>3 DEF Somewhere
<1>7. Placed(q, o, c, g + 1, e)
  <2>1. \A i, k \in DOMAIN q : q[i].n = q[k].n => i = k
    <3>1. \A i \in DOMAIN p : p[i].n # a.n BY <1>1, <1>3
    <3>2. \A i, k \in DOMAIN p : p[i].n = p[k].n => i = k BY <1>1 DEF Placed
    <3> QED BY <1>2, <3>1, <3>2
  <2>2. \A i \in DOMAIN q : q[i].n # o.n /\ q[i].n # c.n
    <3>1. a.n # o.n /\ a.n # c.n BY <1>1, <1>3
    <3>2. \A i \in DOMAIN p : p[i].n # o.n /\ p[i].n # c.n BY <1>1 DEF Placed
    <3> QED BY <1>2, <3>1, <3>2
  <2>3. o.n = c.n => o.n = 0 BY <1>1 DEF Placed
  <2>4. (\A i \in DOMAIN q : q[i].n <= g + 1) /\ o.n <= g + 1 /\ c.n <= g + 1
    <3>1. a.n <= g + 1 BY <1>1
    <3>2. \A i \in DOMAIN p : p[i].n <= g + 1 BY <1>1, <1>3
    <3>3. o.n <= g + 1 /\ c.n <= g + 1 BY <1>1, <1>3
    <3> QED BY <1>2, <3>1, <3>2, <3>3
  <2>5. ASSUME NEW n \in DOMAIN e
        PROVE  e[n] = IF n <= g + 1 /\ ~Somewhere(n, q, o, c) THEN 1 ELSE 0
    <3>1. n \in 1 .. count /\ e[n] = IF n <= g /\ ~Somewhere(n, p, o, c) THEN 1 ELSE 0
      BY <1>1 DEF Placed
    <3>2. CASE n = g + 1 BY <1>1, <1>5, <3>1, <3>2
    <3>3. CASE n # g + 1
      <4>1. n <= g + 1 <=> n <= g BY <1>1, <3>1, <3>3
      <4> QED BY <1>5, <3>1, <3>3, <4>1
    <3> QED BY <3>2, <3>3
  <2> QED BY <2>1, <2>2, <2>3, <2>4, <2>5 DEF Placed
<1>8. /\ \A i \in DOMAIN q : WithinSlot(q[i])
      /\ WithinSlot(o) /\ Budgeted(c)
  BY <1>2 DEF WorkInv
<1>9. Len(q) + Occupied(o) + Occupied(c) <= MaxPending
  <2>1. Occupied(o) \in {0, 1} /\ Occupied(c) \in {0, 1} /\ MaxPending \in Nat
    BY ChannelAssumption DEF Occupied
  <2> QED BY <1>2, <2>1
<1>10. g + 1 \in 0 .. count BY <1>1
<1>11. WorkInv(count, q, o, c, g + 1, e)
  BY <1>1, <1>2, <1>4, <1>7, <1>8, <1>9, <1>10 DEF WorkInv
<1> QED BY <1>11 DEF q

(* What RemoveAt leaves. *)
LEMMA Removed ==
  ASSUME NEW S, NEW s \in Seq(S), NEW x \in 1 .. Len(s)
  PROVE  /\ RemoveAt(s, x) \in Seq(S) /\ Len(RemoveAt(s, x)) = Len(s) - 1
         /\ DOMAIN RemoveAt(s, x) = 1 .. (Len(s) - 1)
         /\ \A i \in 1 .. (Len(s) - 1) :
              RemoveAt(s, x)[i] = IF i < x THEN s[i] ELSE s[i + 1]
<1> DEFINE low == SubSeq(s, 1, x - 1)
           high == SubSeq(s, x + 1, Len(s))
<1>1. Len(s) \in Nat /\ x \in Nat /\ x >= 1 /\ x <= Len(s) OBVIOUS
<1>2. \A i \in 1 .. Len(s) : s[i] \in S OBVIOUS
<1>3. /\ low \in Seq(S) /\ Len(low) = x - 1
      /\ \A i \in 1 .. (x - 1) : low[i] = s[i]
  <2>1. \A i \in 1 .. (x - 1) : s[i] \in S BY <1>1, <1>2
  <2>2. PICK k \in Int : k = x - 1 BY <1>1
  <2>3. /\ SubSeq(s, 1, k) \in Seq(S)
        /\ Len(SubSeq(s, 1, k)) = IF 1 <= k THEN k - 1 + 1 ELSE 0
        /\ \A i \in 1 .. (k - 1 + 1) : SubSeq(s, 1, k)[i] = s[1 + i - 1]
    BY <2>1, <2>2, SubSeqProperties
  <2> QED BY <1>1, <2>2, <2>3
<1>4. /\ high \in Seq(S) /\ Len(high) = Len(s) - x
      /\ \A i \in 1 .. (Len(s) - x) : high[i] = s[x + i]
  <2>2. PICK k, l \in Int : k = x + 1 /\ l = Len(s) BY <1>1
  <2>1. \A i \in k .. l : s[i] \in S BY <1>1, <1>2, <2>2
  <2>3. /\ SubSeq(s, k, l) \in Seq(S)
        /\ Len(SubSeq(s, k, l)) = IF k <= l THEN l - k + 1 ELSE 0
        /\ \A i \in 1 .. (l - k + 1) : SubSeq(s, k, l)[i] = s[k + i - 1]
    BY <2>1, SubSeqProperties
  <2>4. \A i \in 1 .. (Len(s) - x) : i \in 1 .. (l - k + 1) /\ k + i - 1 = x + i
    BY <1>1, <2>2
  <2>5. high = SubSeq(s, k, l) BY <2>2
  <2> HIDE DEF high
  <2>6. Len(high) = Len(s) - x BY <1>1, <2>2, <2>3, <2>5
  <2>7. ASSUME NEW i \in 1 .. (Len(s) - x) PROVE high[i] = s[x + i]
    <3>1. i \in 1 .. (l - k + 1) BY <2>4
    <3>2. high[i] = s[k + i - 1] BY <2>3, <2>5, <3>1
    <3> QED BY <2>4, <3>2
  <2> QED BY <2>3, <2>5, <2>6, <2>7
<1> HIDE DEF low, high
<1>5. /\ low \o high \in Seq(S) /\ Len(low \o high) = Len(s) - 1
      /\ \A i \in 1 .. (Len(s) - 1) :
           (low \o high)[i] = IF i <= x - 1 THEN low[i] ELSE high[i - (x - 1)]
  <2>1. /\ low \o high \in Seq(S) /\ Len(low \o high) = Len(low) + Len(high)
        /\ \A i \in 1 .. (Len(low) + Len(high)) :
             (low \o high)[i] = IF i <= Len(low) THEN low[i] ELSE high[i - Len(low)]
    BY <1>3, <1>4, ConcatProperties
  <2>2. Len(low) = x - 1 /\ Len(low) + Len(high) = Len(s) - 1 BY <1>1, <1>3, <1>4
  <2> QED BY <2>1, <2>2
<1>6. ASSUME NEW i \in 1 .. (Len(s) - 1)
      PROVE  (low \o high)[i] = IF i < x THEN s[i] ELSE s[i + 1]
  <2>1. CASE i < x BY <1>1, <1>3, <1>5, <2>1
  <2>2. CASE ~(i < x)
    <3>1. PICK k \in Int : k = i - (x - 1) BY <1>1
    <3>2. k \in 1 .. (Len(s) - x) /\ x + k = i + 1 /\ ~(i <= x - 1) BY <1>1, <2>2, <3>1
    <3> QED BY <1>4, <1>5, <2>2, <3>1, <3>2
  <2> QED BY <2>1, <2>2
<1>7. RemoveAt(s, x) = low \o high BY DEF RemoveAt, low, high
<1> QED BY <1>5, <1>6, <1>7

(* A queued work is taken out and ends. *)
LEMMA WorkTakenOut ==
  ASSUME NEW count \in Nat, NEW p, NEW o, NEW c, NEW g, NEW e,
         WorkInv(count, p, o, c, g, e), NEW x \in DOMAIN p
  PROVE  WorkInv(count, RemoveAt(p, x), o, c, g, [e EXCEPT ![p[x].n] = @ + 1])
<1> DEFINE q == RemoveAt(p, x)
           n == p[x].n
           f == [e EXCEPT ![n] = @ + 1]
<1>1. /\ p \in Seq(Items(count)) /\ o \in Places(count) /\ c \in Places(count)
      /\ g \in 0 .. count /\ e \in [1 .. count -> 0 .. 1]
      /\ Placed(p, o, c, g, e) /\ OpsApart(p, o)
  BY DEF WorkInv
<1>2. /\ Len(p) \in Nat /\ DOMAIN p = 1 .. Len(p) /\ x \in 1 .. Len(p)
      /\ n \in 1 .. count
  BY <1>1, QueueFacts
<1>4. /\ q \in Seq(Items(count)) /\ Len(q) = Len(p) - 1
      /\ DOMAIN q = 1 .. (Len(p) - 1)
      /\ \A i \in 1 .. (Len(p) - 1) : q[i] = IF i < x THEN p[i] ELSE p[i + 1]
  BY <1>1, <1>2, Removed
<1> HIDE DEF q, f
<1> DEFINE from(i) == IF i < x THEN i ELSE i + 1
<1>5. /\ \A i \in DOMAIN q : from(i) \in DOMAIN p /\ from(i) # x /\ q[i] = p[from(i)]
      /\ \A i, k \in DOMAIN q : from(i) = from(k) => i = k
      /\ \A i \in DOMAIN p : i # x => \E k \in DOMAIN q : q[k] = p[i]
  <2>1. \A i \in DOMAIN q : from(i) \in DOMAIN p /\ from(i) # x /\ q[i] = p[from(i)]
    BY <1>2, <1>4
  <2>2. \A i, k \in DOMAIN q : from(i) = from(k) => i = k BY <1>2, <1>4
  <2>3. ASSUME NEW i \in DOMAIN p, i # x PROVE \E k \in DOMAIN q : q[k] = p[i]
    <3>1. CASE i < x
      <4>1. i \in DOMAIN q /\ q[i] = p[i] BY <1>2, <1>4, <3>1
      <4> QED BY <4>1
    <3>2. CASE ~(i < x)
      <4>1. PICK k \in Int : k = i - 1 BY <1>2
      <4>2. k \in DOMAIN q /\ k + 1 = i /\ ~(k < x) BY <1>2, <1>4, <2>3, <3>2, <4>1
      <4>3. q[k] = p[i] BY <1>4, <4>2
      <4> QED BY <4>2, <4>3
    <3> QED BY <3>1, <3>2
  <2> QED BY <2>1, <2>2, <2>3
<1> HIDE DEF from
<1>6. OpsApart(q, o) BY <1>1, <1>5 DEF OpsApart
<1>7. /\ o.n # n /\ c.n # n /\ n <= g
      /\ \A i \in DOMAIN p : i # x => p[i].n # n
  BY <1>1 DEF Placed
<1>8. \A k : Somewhere(k, q, o, c) <=> (Somewhere(k, p, o, c) /\ k # n)
  <2>1. ASSUME NEW k, Somewhere(k, q, o, c) PROVE Somewhere(k, p, o, c) /\ k # n
    BY <1>5, <1>7, <2>1 DEF Somewhere
  <2>2. ASSUME NEW k, Somewhere(k, p, o, c), k # n PROVE Somewhere(k, q, o, c)
    BY <1>5, <2>2 DEF Somewhere
  <2> QED BY <2>1, <2>2
<1>9. Somewhere(n, p, o, c) BY DEF Somewhere
<1>10. e[n] = 0 BY <1>1, <1>2, <1>9 DEF Placed
<1>11. f \in [1 .. count -> 0 .. 1] BY <1>1, <1>2, <1>10 DEF f
<1>12. Placed(q, o, c, g, f)
  <2>1. ASSUME NEW k \in 1 .. count
        PROVE  f[k] = IF k <= g /\ ~Somewhere(k, q, o, c) THEN 1 ELSE 0
    <3>1. CASE k = n
      <4>1. f[k] = 1 BY <1>1, <1>2, <1>10, <3>1 DEF f
      <4> QED BY <1>7, <1>8, <3>1, <4>1
    <3>2. CASE k # n
      <4>1. f[k] = e[k] BY <1>1, <3>2 DEF f
      <4>2. Somewhere(k, q, o, c) <=> Somewhere(k, p, o, c) BY <1>8, <3>2
      <4> QED BY <1>1, <4>1, <4>2 DEF Placed
    <3> QED BY <3>1, <3>2
  <2>2. \A k \in DOMAIN f : f[k] = IF k <= g /\ ~Somewhere(k, q, o, c) THEN 1 ELSE 0
    BY <1>11, <2>1
  <2>3. \A i, k \in DOMAIN q : q[i].n = q[k].n => i = k BY <1>1, <1>5 DEF Placed
  <2>4. \A i \in DOMAIN q : q[i].n # o.n /\ q[i].n # c.n /\ q[i].n <= g
    BY <1>1, <1>5 DEF Placed
  <2> QED BY <1>1, <2>2, <2>3, <2>4 DEF Placed
<1>13. /\ \A i \in DOMAIN q : WithinSlot(q[i])
       /\ WithinSlot(o) /\ Budgeted(c)
  BY <1>5 DEF WorkInv
<1>14. Len(q) + Occupied(o) + Occupied(c) <= MaxPending
  <2>1. Occupied(o) \in {0, 1} /\ Occupied(c) \in {0, 1} /\ MaxPending \in Nat
    BY ChannelAssumption DEF Occupied
  <2>2. Len(p) + Occupied(o) + Occupied(c) <= MaxPending BY DEF WorkInv
  <2> QED BY <1>2, <1>4, <2>1, <2>2
<1>15. WorkInv(count, q, o, c, g, f)
  BY <1>1, <1>4, <1>6, <1>11, <1>12, <1>13, <1>14 DEF WorkInv
<1> QED BY <1>15 DEF q, f
------------------------
(* What an attempt makes of its work. *)

(* A step of a work that spends no attempt: only a pull may have none left. *)
LEMMA SameBudget ==
  ASSUME NEW count, NEW a \in Items(count), NEW b \in Items(count), Budgeted(a),
         SameWork(b, a), b.attempts = a.attempts
  PROVE  /\ Budgeted(b)
         /\ b.kind # "Measurement" => WithinSlot(b)
         /\ b.attempts < AttemptsPerSlot => WithinSlot(b)
  BY ChannelAssumption DEF Budgeted, WithinSlot, SameWork

(* The phases and the retry delay a step may set. *)
LEMMA Adjusted ==
  ASSUME NEW count, NEW a \in Items(count), NEW phase \in Phases,
         NEW b, \/ b = [a EXCEPT !.held = TRUE, !.phase = phase]
                \/ b = [a EXCEPT !.phase = phase, !.held = FALSE]
                \/ b = [a EXCEPT !.phase = phase]
                \/ b = [a EXCEPT !.held = TRUE]
                \/ b = [a EXCEPT !.held = FALSE]
  PROVE  b \in Items(count) /\ SameWork(b, a) /\ b.attempts = a.attempts
<1>1. CASE b = [a EXCEPT !.held = TRUE, !.phase = phase] BY <1>1 DEF Items, SameWork
<1>2. CASE b = [a EXCEPT !.phase = phase, !.held = FALSE] BY <1>2 DEF Items, SameWork
<1>3. CASE b = [a EXCEPT !.phase = phase] BY <1>3 DEF Items, SameWork
<1>4. CASE b = [a EXCEPT !.held = TRUE] BY <1>4 DEF Items, SameWork
<1>5. CASE b = [a EXCEPT !.held = FALSE] BY <1>5 DEF Items, SameWork
<1> QED BY <1>1, <1>2, <1>3, <1>4, <1>5

(* mark_attempt_uncertain and its kin leave a work that may be repeated
   unless its slot is used up. *)
LEMMA UncertainWork ==
  ASSUME NEW count, NEW a \in Items(count), Budgeted(a)
  PROVE  LET b == AfterUncertain(a)
         IN  /\ b \in Items(count) /\ SameWork(b, a) /\ Budgeted(b)
             /\ ~Exhausted(b) => WithinSlot(b)
<1> DEFINE b == AfterUncertain(a)
<1>1. a.phase \in Phases BY DEF Items
<1>2. PICK phase \in Phases : b = [a EXCEPT !.held = TRUE, !.phase = phase]
  BY <1>1 DEF AfterUncertain, Phases
<1> HIDE DEF b
<1>3. b \in Items(count) /\ SameWork(b, a) /\ b.attempts = a.attempts
  BY <1>2 DEF Items, SameWork
<1>4. Budgeted(b) /\ (b.kind # "Measurement" => WithinSlot(b))
                 /\ (b.attempts < AttemptsPerSlot => WithinSlot(b))
  BY <1>3, SameBudget
<1>5. ~Exhausted(b) => WithinSlot(b) BY <1>4, ChannelAssumption DEF Exhausted, Budgeted
<1> QED BY <1>3, <1>4, <1>5 DEF b

(* begin_attempt spends one. *)
LEMMA BegunWork ==
  ASSUME NEW count, NEW a \in Items(count), WithinSlot(a), Sendable(a)
  PROVE  LET b == Begun(a)
         IN  /\ b \in Items(count) /\ SameWork(b, a) /\ WithinSlot(b)
             /\ b.sent /\ (Marked(b.kind) => b.phase = "AwaitingResponse")
             /\ MessageOf(b) = MessageOf(a)
<1>1. a.attempts \in Nat /\ a.phase \in Phases /\ a.attempts < AttemptsPerSlot
  BY DEF Items, WithinSlot
<1>2. /\ Begun(a) \in Items(count) /\ SameWork(Begun(a), a)
      /\ Begun(a).sent /\ (Marked(a.kind) => Begun(a).phase = "AwaitingResponse")
      /\ ~Marked(a.kind) => Begun(a).phase = a.phase
      /\ Begun(a).attempts = IF a.kind = "Measurement" THEN a.attempts + 1 ELSE a.attempts
  <2>1. PICK phase \in Phases : phase = IF Marked(a.kind) THEN "AwaitingResponse" ELSE a.phase
    BY <1>1 DEF Phases
  <2>2. PICK attempts \in Nat :
          attempts = IF a.kind = "Measurement" THEN a.attempts + 1 ELSE a.attempts
    BY <1>1
  <2>3. Begun(a) = [a EXCEPT !.sent = TRUE, !.phase = phase, !.attempts = attempts]
    BY <2>1, <2>2 DEF Begun
  <2>4. /\ Begun(a) \in Items(count) /\ SameWork(Begun(a), a)
        /\ Begun(a).sent /\ Begun(a).phase = phase /\ Begun(a).attempts = attempts
    BY <2>3 DEF Items, SameWork
  <2> QED BY <2>1, <2>2, <2>4
<1>3. MessageOf(Begun(a)) = MessageOf(a)
  BY <1>2 DEF MessageOf, SameWork, Marked, Operations
<1>4. Begun(a).kind = a.kind BY <1>2 DEF SameWork
<1>5. WithinSlot(Begun(a))
  <2>1. CASE a.kind = "Measurement"
    <3>1. ~Sendable(Begun(a)) BY <1>2, <2>1 DEF Sendable, Marked
    <3> QED BY <1>1, <1>2, <1>4, <2>1, <3>1, ChannelAssumption DEF WithinSlot, Budgeted
  <2>2. CASE a.kind # "Measurement"
    BY <1>1, <1>2, <1>4, <2>2, ChannelAssumption DEF WithinSlot, Budgeted
  <2> QED BY <2>1, <2>2
<1> QED BY <1>2, <1>3, <1>4, <1>5

(* The active work stays, is handed off or ends. *)
LEMMA Moved ==
  ASSUME load.count \in Nat, NEW p, NEW o,
         WorkInv(load.count, p, o, completed, given, ended),
         o # NoWork, completed = NoWork,
         NEW a \in Items(load.count), SameWork(a, o), Budgeted(a),
         \/ Keep(a) /\ WithinSlot(a)
         \/ handoff_active_measurement(a)
         \/ Drop(a)
  PROVE  WorkInv(load.count, p, owner', completed', given, ended')
<1>1. CASE Keep(a) /\ WithinSlot(a)
  <2>1. WorkInv(load.count, p, a, completed, given, ended) BY <1>1, WorkKept
  <2> QED BY <1>1, <2>1 DEF Keep
<1>2. CASE handoff_active_measurement(a)
  <2>1. WorkInv(load.count, p, o, NoWork, given, ended) OBVIOUS
  <2>2. WorkInv(load.count, p, NoWork, a, given, ended) BY <2>1, WorkHandedOff
  <2> QED BY <1>2, <2>2 DEF handoff_active_measurement
<1>3. CASE Drop(a)
  <2>1. a.n = o.n /\ o.n \in Nat BY DEF SameWork, Items
  <2>2. WorkInv(load.count, p, NoWork, completed, given, [ended EXCEPT ![o.n] = @ + 1])
    BY <2>1, WorkEnded
  <2> QED BY <1>3, <2>1, <2>2 DEF Drop, End
<1> QED BY <1>1, <1>2, <1>3

(* The common end of a failed attempt. *)
LEMMA Retried ==
  ASSUME load.count \in Nat, NEW p, NEW o,
         WorkInv(load.count, p, o, completed, given, ended),
         o # NoWork, completed = NoWork,
         NEW a \in Items(load.count), SameWork(a, o), Budgeted(a),
         ~Exhausted(a) => WithinSlot(a), Retry(a)
  PROVE  WorkInv(load.count, p, owner', completed', given, ended')
<1>1. \/ Keep(a) /\ WithinSlot(a)
      \/ handoff_active_measurement(a)
      \/ Drop(a)
  BY DEF Retry
<1> QED BY <1>1, Moved

(* accept_response, for every kind of work and answer. *)
LEMMA AnswerMoves ==
  ASSUME load.count \in Nat, WorkInv(load.count, pending, owner, completed, given, ended),
         owner # NoWork, completed = NoWork, NEW s,
         \/ AcceptHandshake(owner, s) \/ AcceptStreamState(owner, s)
         \/ AcceptOperation(owner, s) \/ AcceptMeasurement(owner, s)
         \/ AcceptReading(owner, s)
  PROVE  WorkInv(load.count, pending, owner', completed', given, ended')
<1>1. owner \in Items(load.count) /\ WithinSlot(owner) /\ Budgeted(owner)
  BY DEF WorkInv, Places, WithinSlot
<1>2. SameWork(owner, owner) BY DEF SameWork
<1>3. ASSUME NEW a \in Items(load.count), SameWork(a, owner), a.attempts = owner.attempts,
             owner.kind # "Measurement", Keep(a)
      PROVE  WorkInv(load.count, pending, owner', completed', given, ended')
  <2>1. a.kind # "Measurement" BY <1>3 DEF SameWork
  <2>2. Budgeted(a) /\ WithinSlot(a) BY <1>1, <1>3, <2>1, SameBudget
  <2> QED BY <1>3, <2>2, Moved
<1>4. ASSUME Drop(owner) \/ Keep(owner) \/ handoff_active_measurement(owner)
      PROVE  WorkInv(load.count, pending, owner', completed', given, ended')
  BY <1>1, <1>2, <1>4, Moved
<1>5. CASE AcceptHandshake(owner, s)
  <2>1. CASE Keep([owner EXCEPT !.phase = "NeedCapabilities", !.held = FALSE])
    <3>1. "NeedCapabilities" \in Phases /\ FALSE \in BOOLEAN BY DEF Phases
    <3> DEFINE a == [owner EXCEPT !.phase = "NeedCapabilities", !.held = FALSE]
    <3>0. a = [owner EXCEPT !.phase = "NeedCapabilities", !.held = FALSE] OBVIOUS
    <3> HIDE DEF a
    <3>2. a \in Items(load.count) /\ SameWork(a, owner) /\ a.attempts = owner.attempts
      BY <1>1, <3>1, <3>0 DEF Items, SameWork
    <3> QED BY <1>3, <1>5, <2>1, <3>2 DEF AcceptHandshake, a
  <2> QED BY <1>4, <1>5, <2>1 DEF AcceptHandshake
<1>6. CASE AcceptStreamState(owner, s)
  <2>1. CASE Keep([owner EXCEPT !.held = TRUE])
    <3> DEFINE a == [owner EXCEPT !.held = TRUE]
    <3>1. "Ready" \in Phases BY DEF Phases
    <3>0. a = [owner EXCEPT !.held = TRUE] OBVIOUS
    <3> HIDE DEF a
    <3>2. a \in Items(load.count) /\ SameWork(a, owner) /\ a.attempts = owner.attempts
      BY <1>1, <3>1, <3>0, Adjusted
    <3> QED BY <1>3, <1>6, <2>1, <3>2 DEF AcceptStreamState, a
  <2> QED BY <1>4, <1>6, <2>1 DEF AcceptStreamState
<1>7. CASE AcceptOperation(owner, s)
  <2>1. owner.kind # "Measurement" BY <1>7 DEF AcceptOperation, Operations
  <2>2. CASE \E phase \in Phases : Keep([owner EXCEPT !.held = TRUE, !.phase = phase])
    <3>1. PICK phase \in Phases : Keep([owner EXCEPT !.held = TRUE, !.phase = phase])
      BY <2>2
    <3> DEFINE a == [owner EXCEPT !.held = TRUE, !.phase = phase]
    <3>0. a = [owner EXCEPT !.held = TRUE, !.phase = phase] OBVIOUS
    <3> HIDE DEF a
    <3>2. a \in Items(load.count) /\ SameWork(a, owner) /\ a.attempts = owner.attempts
      BY <1>1, <3>0 DEF Items, SameWork
    <3>4. Keep(a) BY <3>1 DEF a
    <3> QED BY <1>3, <2>1, <3>2, <3>4
  <2>3. CASE Keep([owner EXCEPT !.phase = "Failed"])
    <3>1. "Failed" \in Phases /\ TRUE \in BOOLEAN BY DEF Phases
    <3> DEFINE a == [owner EXCEPT !.phase = "Failed"]
    <3>0. a = [owner EXCEPT !.phase = "Failed"] OBVIOUS
    <3> HIDE DEF a
    <3>2. a \in Items(load.count) /\ SameWork(a, owner) /\ a.attempts = owner.attempts
      BY <1>1, <3>1, <3>0, Adjusted
    <3>4. Keep(a) BY <2>3 DEF a
    <3> QED BY <1>3, <2>1, <3>2, <3>4
  <2>4. (IF s = "Busy" /\ owner.kind \in {"Lifecycle", "ConfigurationRead"}
           THEN "Ready" ELSE "ReconcileRequired") \in Phases
    BY DEF Phases
  <2> QED BY <1>4, <1>7, <2>2, <2>3, <2>4 DEF AcceptOperation
<1>8. CASE AcceptMeasurement(owner, s)
  <2>1. CASE Retry([owner EXCEPT !.held = TRUE, !.phase = "Ready"])
    <3>1. "Ready" \in Phases BY DEF Phases
    <3> DEFINE a == [owner EXCEPT !.held = TRUE, !.phase = "Ready"]
    <3>0. a = [owner EXCEPT !.held = TRUE, !.phase = "Ready"] OBVIOUS
    <3> HIDE DEF a
    <3>2. a \in Items(load.count) /\ SameWork(a, owner) /\ a.attempts = owner.attempts
      BY <1>1, <3>1, <3>0 DEF Items, SameWork
    <3>3. Budgeted(a) /\ (a.kind # "Measurement" => WithinSlot(a))
                     /\ (a.attempts < AttemptsPerSlot => WithinSlot(a))
      BY <1>1, <3>2, SameBudget
    <3>4. ~Exhausted(a) => WithinSlot(a)
      BY <3>3, ChannelAssumption DEF Exhausted, Budgeted
    <3>5. Retry(a) BY <2>1 DEF a
    <3> QED BY <3>2, <3>3, <3>4, <3>5, Retried
  <2>2. CASE Keep([owner EXCEPT !.phase = "Failed"])
    <3>1. "Failed" \in Phases /\ TRUE \in BOOLEAN BY DEF Phases
    <3> DEFINE a == [owner EXCEPT !.phase = "Failed"]
    <3>0. a = [owner EXCEPT !.phase = "Failed"] OBVIOUS
    <3> HIDE DEF a
    <3>2. a \in Items(load.count) /\ SameWork(a, owner) /\ a.attempts = owner.attempts
      BY <1>1, <3>1, <3>0, Adjusted
    <3>6. a.phase = "Failed" BY <1>1, <3>0 DEF Items
    <3>3. Budgeted(a) BY <1>1, <3>2, SameBudget
    <3>4. WithinSlot(a) BY <3>6, <3>3 DEF WithinSlot, Sendable
    <3>5. Keep(a) BY <2>2 DEF a
    <3> QED BY <3>2, <3>3, <3>4, <3>5, Moved
  <2> QED BY <1>4, <1>8, <2>1, <2>2 DEF AcceptMeasurement
<1>9. CASE AcceptReading(owner, s) BY <1>4, <1>9 DEF AcceptReading
<1> QED BY <1>5, <1>6, <1>7, <1>8, <1>9
------------------------
(* The responses under way. *)

(* Every attempt ages the responses of the earlier ones and adds at most
   its own, of age zero. *)
LEMMA WireAged ==
  ASSUME BusInv, NEW count, NEW a \in Items(count), NEW answers \in Answers(a)
  PROVE  /\ InFlight(answers) \subseteq Responses
         /\ \A m \in InFlight(answers) : m.id = IdOf((next_id + 1) % IdSpace, m.age)
<1>1. next_id \in 0 .. (IdSpace - 1) /\ wire \subseteq Responses BY DEF BusInv
<1>2. IdSpace \in Nat \ {0, 1} BY ChannelAssumption
<1>3. a.node \in Targets /\ MessageOf(a) \in Messages BY DEF Items, MessageOf, Messages
<1>4. StatusesOf(a.kind) \subseteq Statuses
  BY DEF Items, AllKinds, ControlKinds, Operations, StatusesOf, Statuses
<1>5. ASSUME NEW m \in answers
      PROVE  m \in Responses /\ m.id = IdOf((next_id + 1) % IdSpace, m.age)
  <2>1. PICK s \in StatusesOf(a.kind) :
          m = [id |-> next_id, node |-> a.node, message |-> MessageOf(a), status |-> s, age |-> 0]
    BY DEF Answers
  <2>2. 0 \in 0 .. (IdSpace - 1) BY <1>2
  <2>3. m \in Responses BY <1>1, <1>3, <1>4, <2>1, <2>2 DEF Responses
  <2>4. m.id = next_id /\ m.age = 0 BY <2>1
  <2> QED BY <1>1, <2>2, <2>3, <2>4, IdAges
<1>6. ASSUME NEW o \in wire, o.age + 1 < IdSpace
      PROVE  LET m == [o EXCEPT !.age = @ + 1]
             IN  m \in Responses /\ m.id = IdOf((next_id + 1) % IdSpace, m.age)
  <2> DEFINE m == [o EXCEPT !.age = @ + 1]
  <2>1. o \in Responses /\ o.id = IdOf(next_id, o.age) /\ o.age \in 0 .. (IdSpace - 1)
    BY <1>1 DEF BusInv, Responses
  <2>2. o.age + 1 \in 0 .. (IdSpace - 1) BY <1>2, <1>6, <2>1
  <2>3. m \in Responses /\ m.id = o.id /\ m.age = o.age + 1 BY <2>1, <2>2 DEF Responses
  <2> HIDE DEF m
  <2>4. IdOf((next_id + 1) % IdSpace, o.age + 1) = IdOf(next_id, o.age)
    BY <1>1, <1>6, <2>1, IdAges
  <2>5. m \in Responses /\ m.id = IdOf((next_id + 1) % IdSpace, m.age)
    BY <2>1, <2>3, <2>4
  <2> QED BY <2>5 DEF m
<1>7. ASSUME NEW m \in InFlight(answers)
      PROVE  m \in Responses /\ m.id = IdOf((next_id + 1) % IdSpace, m.age)
  <2>1. CASE m \in answers BY <1>5, <2>1
  <2>2. CASE m \notin answers
    <3>1. PICK o \in wire : o.age + 1 < IdSpace /\ m = [o EXCEPT !.age = @ + 1]
      BY <2>2 DEF InFlight
    <3> QED BY <1>6, <3>1
  <2> QED BY <2>1, <2>2
<1> QED BY <1>7

(* A response that matches the awaited attempt is of that attempt. *)
LEMMA MatchIsFresh ==
  ASSUME BusInv, tx.state = "Awaiting", NEW m \in wire, matches(m)
  PROVE  m.age = 0
<1>1. next_id \in 0 .. (IdSpace - 1) /\ m.age \in 0 .. (IdSpace - 1)
  BY DEF BusInv, Responses
<1>2. m.id = IdOf(next_id, m.age) /\ tx.id = IdOf(next_id, 0) /\ m.id = tx.id
  BY DEF BusInv, matches
<1> QED BY <1>1, <1>2, IdAges

(* enter_quarantine keeps the bus in order. *)
LEMMA Quarantined ==
  ASSUME BusInv, tx.state = "Awaiting", enter_quarantine
  PROVE  tx' \in Attempts /\ tx'.state = "Quarantine" /\ tx' # Idle
<1>1. tx \in Attempts BY DEF BusInv, Idle
<1>2. tx' = [tx EXCEPT !.state = "Quarantine"] BY DEF enter_quarantine
<1> QED BY <1>1, <1>2 DEF Attempts, Idle

(* A step that leaves the ids and the responses alone, or takes some away. *)
LEMMA BusKept ==
  ASSUME BusInv, next_id' = next_id, wire' \subseteq wire,
         turn' \in {"poll", "receive"}, window' \in {"closed", "open", "late", "elapsed"},
         \/ tx' = tx
         \/ tx' = Idle
         \/ tx' \in Attempts /\ tx'.state = "Quarantine",
         tx' = Idle => window' \in {"closed", "elapsed"}
  PROVE  BusInv'
<1>1. next_id' \in 0 .. (IdSpace - 1) /\ (tx' = Idle \/ tx' \in Attempts) BY DEF BusInv
<1>2. wire' \subseteq Responses /\ \A m \in wire' : m.id = IdOf(next_id', m.age)
  BY DEF BusInv
<1>3. tx'.state = "Awaiting" => tx'.id = IdOf(next_id', 0)
  <2>1. CASE tx' = tx BY <2>1 DEF BusInv
  <2>2. CASE tx' = Idle BY <2>2 DEF Idle
  <2>3. CASE tx'.state = "Quarantine" BY <2>3
  <2> QED BY <2>1, <2>2, <2>3
<1> QED BY <1>1, <1>2, <1>3 DEF BusInv
------------------------
(* The inductive invariant. *)

(* The agent begins with nothing. *)
LEMMA AgentInvInit == AgentInit => AgentInv
<1> SUFFICES ASSUME AgentInit PROVE AgentInv OBVIOUS
<1>1. load \in Workloads /\ load.count \in Nat BY ChannelAssumption DEF AgentInit
<1>2. next_op \in 1 .. OperationSpace BY ChannelAssumption DEF AgentInit
<1>3. WorkInv(load.count, pending, owner, completed, given, ended)
  <2>1. /\ pending = <<>> /\ owner = NoWork /\ completed = NoWork /\ given = 0
        /\ ended = [n \in 1 .. load.count |-> 0]
    BY DEF AgentInit
  <2>2. NoWork.n = 0 /\ NoWork.op = 0 /\ WithinSlot(NoWork) /\ Budgeted(NoWork)
    BY ChannelAssumption DEF NoWork, WithinSlot, Budgeted, Sendable
  <2>3. pending \in Seq(Items(load.count)) /\ Len(pending) = 0 /\ DOMAIN pending = {}
    BY <2>1
  <2>4. OpsApart(pending, owner) BY <2>3 DEF OpsApart
  <2>5. Placed(pending, owner, completed, given, ended)
    <3>1. ASSUME NEW n \in 1 .. load.count
          PROVE  ended[n] = IF n <= given /\ ~Somewhere(n, pending, owner, completed) THEN 1 ELSE 0
      BY <1>1, <2>1
    <3>2. DOMAIN ended = 1 .. load.count BY <2>1
    <3> QED BY <2>1, <2>2, <2>3, <3>1, <3>2 DEF Placed
  <2>6. given \in 0 .. load.count /\ ended \in [1 .. load.count -> 0 .. 1] BY <1>1, <2>1
  <2>7. Len(pending) + Occupied(owner) + Occupied(completed) <= MaxPending
    BY <2>1, <2>3, ChannelAssumption DEF Occupied
  <2>8. owner \in Places(load.count) /\ completed \in Places(load.count)
    BY <2>1 DEF Places
  <2>9. (\A i \in DOMAIN pending : WithinSlot(pending[i])) /\ WithinSlot(owner) /\ Budgeted(completed)
    BY <2>1, <2>2, <2>3
  <2> QED BY <2>3, <2>4, <2>5, <2>6, <2>7, <2>8, <2>9 DEF WorkInv
<1>4. AttemptOwned BY DEF AgentInit, AttemptOwned, Idle
<1>5. BusInv BY ChannelAssumption DEF AgentInit, BusInv, Idle
<1> QED BY <1>1, <1>2, <1>3, <1>4, <1>5 DEF AgentInv

(* What the invariant says, as the steps use it. *)
LEMMA InvFacts ==
  ASSUME AgentInv
  PROVE  /\ load \in Workloads /\ load.count \in Nat /\ next_op \in 1 .. OperationSpace
         /\ WorkInv(load.count, pending, owner, completed, given, ended)
         /\ owner \in Places(load.count) /\ completed \in Places(load.count)
         /\ AttemptOwned /\ BusInv
  BY ChannelAssumption DEF AgentInv, WorkInv

(* The part of the invariant that no step but the named ones changes. *)
LEMMA InvAfter ==
  ASSUME AgentInv, load' = load, next_op' = next_op,
         WorkInv(load.count, pending', owner', completed', given', ended'),
         AttemptOwned', BusInv'
  PROVE  AgentInv'
  BY DEF AgentInv

(* The attempt, or its quarantine, comes to its end. *)
LEMMA TimeoutKeeps == AgentInv /\ (StepTimedOut \/ StepQuarantineEnded) => AgentInv'
<1> SUFFICES ASSUME AgentInv, StepTimedOut \/ StepQuarantineEnded PROVE AgentInv'
  OBVIOUS
<1>1. CASE StepTimedOut
  <2>1. /\ completed = NoWork /\ tx.state = "Awaiting" /\ enter_quarantine
        /\ next_id' = next_id /\ next_op' = next_op /\ pending' = pending /\ turn' = turn
        /\ window' = window /\ wire' = wire /\ load' = load /\ given' = given
    BY <1>1 DEF StepTimedOut, Polling, TimedOut
  <2>2. owner # NoWork BY <2>1, InvFacts DEF AttemptOwned
  <2>3. /\ load.count \in Nat /\ WorkInv(load.count, pending, owner, completed, given, ended)
        /\ owner \in Items(load.count) /\ Budgeted(owner) /\ SameWork(owner, owner)
    BY <2>2, InvFacts DEF Places, WorkInv, WithinSlot, SameWork
  <2>4. WorkInv(load.count, pending, owner', completed', given, ended')
    <3>1. CASE Drop(owner) BY <2>1, <2>2, <2>3, <3>1, Moved
    <3>2. CASE Retry(AfterUncertain(owner))
      <4> DEFINE a == AfterUncertain(owner)
      <4>1. /\ a \in Items(load.count) /\ SameWork(a, owner) /\ Budgeted(a)
            /\ ~Exhausted(a) => WithinSlot(a)
        BY <2>3, UncertainWork
      <4>2. Retry(a) BY <3>2
      <4> HIDE DEF a
      <4> QED BY <2>1, <2>2, <2>3, <4>1, <4>2, Retried
    <3> QED BY <1>1, <3>1, <3>2 DEF StepTimedOut
  <2>5. tx' \in Attempts /\ tx'.state = "Quarantine" /\ tx' # Idle
    BY <2>1, InvFacts, Quarantined
  <2>6. turn' \in {"poll", "receive"} /\ window' \in {"closed", "open", "late", "elapsed"}
    BY <2>1, InvFacts DEF BusInv
  <2>7. BusInv' BY <2>1, <2>5, <2>6, InvFacts, BusKept
  <2>8. AttemptOwned' BY <2>5 DEF AttemptOwned
  <2> QED BY <2>1, <2>4, <2>7, <2>8, InvAfter
<1>2. CASE StepQuarantineEnded
  <2>1. /\ tx' = Idle /\ window = "elapsed" /\ window' = window
        /\ next_id' = next_id /\ next_op' = next_op /\ pending' = pending /\ turn' = turn
        /\ wire' = wire /\ load' = load /\ given' = given
        /\ owner' = owner /\ completed' = completed /\ ended' = ended
    BY <1>2 DEF StepQuarantineEnded, GuardOver
  <2>2. turn' \in {"poll", "receive"} /\ window' \in {"closed", "elapsed"}
    BY <2>1, InvFacts DEF BusInv
  <2>3. BusInv' BY <2>1, <2>2, InvFacts, BusKept
  <2>4. AttemptOwned' BY <2>1 DEF AttemptOwned, Idle
  <2> QED BY <2>1, <2>3, <2>4, InvFacts, InvAfter
<1> QED BY <1>1, <1>2

(* A request is put on the wire, or the port fails while writing it. *)
LEMMA TransmitKeeps == AgentInv /\ (StepTransmit \/ StepTransmitFailed) => AgentInv'
<1> SUFFICES ASSUME AgentInv, StepTransmit \/ StepTransmitFailed PROVE AgentInv' OBVIOUS
<1>1. /\ completed = NoWork /\ Started # NoWork /\ tx = Idle /\ Sendable(Started)
      /\ pending' = Waiting /\ next_op' = next_op /\ turn' = turn /\ load' = load
      /\ given' = given /\ next_id' = (next_id + 1) % IdSpace
      /\ \E answers \in Answers(Started) : wire' = InFlight(answers)
  BY DEF StepTransmit, StepTransmitFailed, NoTimer, Polling, ToSend, begin
<1>2. WorkInv(load.count, Waiting, Started, completed, given, ended)
  BY InvFacts, WorkStarted
<1>3. Started \in Items(load.count) /\ WithinSlot(Started) /\ load.count \in Nat
  BY <1>1, <1>2, InvFacts DEF WorkInv, Places
<1> DEFINE b == Begun(Started)
<1>4. /\ b \in Items(load.count) /\ SameWork(b, Started) /\ WithinSlot(b) /\ b.sent
      /\ Marked(b.kind) => b.phase = "AwaitingResponse"
      /\ MessageOf(b) = MessageOf(Started)
  BY <1>1, <1>3, BegunWork
<1> HIDE DEF b
<1>5. BusInv /\ next_id \in 0 .. (IdSpace - 1) BY InvFacts DEF BusInv
<1>6. wire' \subseteq Responses /\ \A m \in wire' : m.id = IdOf(next_id', m.age)
  BY <1>1, <1>3, <1>5, WireAged
<1>7. next_id' \in 0 .. (IdSpace - 1) BY <1>1, <1>5, NextId, ChannelAssumption
<1>8. CASE StepTransmit
  <2>1. /\ tx' = [state |-> "Awaiting", id |-> next_id, node |-> Started.node,
                  message |-> MessageOf(Started)]
        /\ window' = "open" /\ Keep(b)
    BY <1>8 DEF StepTransmit, begin, b
  <2>2. WorkInv(load.count, Waiting, owner', completed', given, ended')
    BY <1>1, <1>2, <1>3, <1>4, <2>1, Moved DEF WithinSlot
  <2>3. Started.node \in Targets /\ MessageOf(Started) \in Messages
    BY <1>3 DEF Items, MessageOf, Messages
  <2>4. tx' \in Attempts /\ tx' # Idle /\ tx'.id = next_id
    BY <1>5, <2>1, <2>3 DEF Attempts, Idle
  <2>5. 0 \in 0 .. (IdSpace - 1) BY ChannelAssumption
  <2>6. tx'.id = IdOf(next_id', 0) BY <1>1, <1>5, <2>4, <2>5, IdAges
  <2>7. turn' \in {"poll", "receive"} BY <1>1, <1>5 DEF BusInv
  <2>8. BusInv' BY <1>6, <1>7, <2>1, <2>4, <2>6, <2>7 DEF BusInv
  <2>9. owner' = b /\ completed' = NoWork /\ b # NoWork
    BY <1>1, <1>4, <2>1 DEF Keep, Items, NoWork
  <2>10. tx'.node = b.node /\ tx'.message = MessageOf(b) BY <1>4, <2>1 DEF SameWork
  <2>11. AttemptOwned' BY <1>4, <2>9, <2>10 DEF AttemptOwned, MessageOf
  <2> QED BY <1>1, <2>2, <2>8, <2>11, InvAfter
<1>9. CASE StepTransmitFailed
  <2>1. tx' = Idle /\ window' = "closed" /\ Retry(AfterUncertain(b))
    BY <1>9 DEF StepTransmitFailed, b
  <2> DEFINE a == AfterUncertain(b)
  <2>2. /\ a \in Items(load.count) /\ SameWork(a, b) /\ Budgeted(a)
        /\ ~Exhausted(a) => WithinSlot(a)
    BY <1>4, UncertainWork DEF WithinSlot
  <2>3. Retry(a) BY <2>1
  <2> HIDE DEF a
  <2>4. SameWork(a, Started) BY <1>4, <2>2 DEF SameWork
  <2>5. WorkInv(load.count, Waiting, owner', completed', given, ended')
    BY <1>1, <1>2, <1>3, <2>2, <2>3, <2>4, Retried
  <2>6. turn' \in {"poll", "receive"} BY <1>1, <1>5 DEF BusInv
  <2>7. BusInv' BY <1>6, <1>7, <2>1, <2>6 DEF BusInv, Idle
  <2>8. AttemptOwned' BY <2>1 DEF AttemptOwned, Idle
  <2> QED BY <1>1, <2>5, <2>7, <2>8, InvAfter
<1> QED BY <1>8, <1>9

(* The agent has nothing to send and listens, or nothing arrived. *)
LEMMA ListenKeeps == AgentInv /\ (StepListen \/ NoData \/ StepFails) => AgentInv'
<1> SUFFICES ASSUME AgentInv, StepListen \/ NoData \/ StepFails PROVE AgentInv' OBVIOUS
<1>1. CASE StepListen
  <2>1. /\ tx' = tx /\ next_id' = next_id /\ next_op' = next_op /\ completed' = completed
        /\ window' = window /\ wire' = wire /\ load' = load /\ given' = given /\ ended' = ended
        /\ turn' = "receive" /\ owner' = Started /\ pending' = Waiting
    BY <1>1 DEF StepListen
  <2>2. WorkInv(load.count, pending', owner', completed', given', ended')
    BY <2>1, InvFacts, WorkStarted
  <2>3. window' \in {"closed", "open", "late", "elapsed"} /\ (tx' = Idle => window' \in {"closed", "elapsed"})
    BY <2>1, InvFacts DEF BusInv
  <2>4. BusInv' BY <2>1, <2>3, InvFacts, BusKept
  <2>5. AttemptOwned'
    <3>1. tx.state = "Awaiting" => owner # NoWork /\ owner' = owner
      BY <2>1, InvFacts DEF AttemptOwned, Started
    <3> QED BY <2>1, <3>1, InvFacts DEF AttemptOwned, MessageOf
  <2> QED BY <2>1, <2>2, <2>4, <2>5, InvAfter
<1>2. CASE NoData
  <2>1. /\ tx' = tx /\ next_id' = next_id /\ next_op' = next_op /\ completed' = completed
        /\ window' = window /\ wire' = wire /\ load' = load /\ given' = given /\ ended' = ended
        /\ turn' = "poll" /\ owner' = owner /\ pending' = pending
    BY <1>2 DEF NoData
  <2>2. window' \in {"closed", "open", "late", "elapsed"} /\ (tx' = Idle => window' \in {"closed", "elapsed"})
    BY <2>1, InvFacts DEF BusInv
  <2>3. BusInv' BY <2>1, <2>2, InvFacts, BusKept
  <2>4. AttemptOwned' BY <2>1, InvFacts DEF AttemptOwned, MessageOf
  <2> QED BY <2>1, <2>3, <2>4, InvFacts, InvAfter
<1>3. CASE StepFails
  BY <1>3 DEF StepFails, agentVars, AgentInv, AttemptOwned, MessageOf, BusInv
<1> QED BY <1>1, <1>2, <1>3

(* A response is accepted for the attempt it answers, or changes no work. *)
LEMMA ReceiveKeeps == AgentInv /\ (\E m \in wire : receive(m)) => AgentInv'
<1> SUFFICES ASSUME AgentInv, NEW m \in wire, receive(m) PROVE AgentInv' OBVIOUS
<1>1. /\ wire' \subseteq wire /\ turn' = "poll" /\ next_id' = next_id /\ next_op' = next_op
      /\ pending' = pending /\ load' = load /\ given' = given
  BY DEF receive
<1>2. CASE Accepted(m)
  <2>1. AcceptAnswer(m) /\ tx.state = "Awaiting" BY <1>2 DEF receive, Accepted
  <2>2. owner # NoWork /\ completed = NoWork BY <2>1, InvFacts DEF AttemptOwned
  <2>3. tx' = Idle /\ window' = "closed" BY <2>1 DEF AcceptAnswer
  <2>4. /\ load.count \in Nat
        /\ WorkInv(load.count, pending, owner, completed, given, ended)
    BY InvFacts
  <2>5. \/ AcceptHandshake(owner, m.status) \/ AcceptStreamState(owner, m.status)
        \/ AcceptOperation(owner, m.status) \/ AcceptMeasurement(owner, m.status)
        \/ AcceptReading(owner, m.status)
    BY <2>1 DEF AcceptAnswer
  <2>6. WorkInv(load.count, pending, owner', completed', given, ended')
    BY <2>2, <2>4, <2>5, AnswerMoves
  <2>7. BusInv' BY <1>1, <2>3, InvFacts, BusKept
  <2>8. AttemptOwned' BY <2>3 DEF AttemptOwned, Idle
  <2> QED BY <1>1, <2>6, <2>7, <2>8, InvAfter
<1>3. CASE ~Accepted(m)
  <2>1. Discard BY <1>3 DEF receive
  <2>2. owner' = owner /\ completed' = completed /\ window' = window /\ ended' = ended
    BY <2>1 DEF Discard
  <2>3. WorkInv(load.count, pending', owner', completed', given', ended')
    BY <1>1, <2>2, InvFacts
  <2>4. window' \in {"closed", "open", "late", "elapsed"} /\ turn' \in {"poll", "receive"}
    BY <1>1, <2>2, InvFacts DEF BusInv
  <2>5. CASE TimedOut
    <3>1. tx' \in Attempts /\ tx'.state = "Quarantine" /\ tx' # Idle
      BY <2>1, <2>5, InvFacts, Quarantined DEF Discard, TimedOut
    <3>2. BusInv' BY <1>1, <2>4, <3>1, InvFacts, BusKept
    <3>3. AttemptOwned' BY <3>1 DEF AttemptOwned
    <3> QED BY <1>1, <2>3, <3>2, <3>3, InvAfter
  <2>6. CASE ~TimedOut
    <3>1. tx' = tx BY <2>1, <2>6 DEF Discard
    <3>2. tx' = Idle => window' \in {"closed", "elapsed"}
      BY <2>2, <3>1, InvFacts DEF BusInv
    <3>3. BusInv' BY <1>1, <2>4, <3>1, <3>2, InvFacts, BusKept
    <3>4. AttemptOwned' BY <2>2, <3>1, InvFacts DEF AttemptOwned, MessageOf
    <3> QED BY <1>1, <2>3, <3>3, <3>4, InvAfter
  <2> QED BY <2>5, <2>6
<1> QED BY <1>2, <1>3

(* A step of the caller or of time leaves the bus as it is. *)
LEMMA BusUntouched ==
  ASSUME BusInv, UNCHANGED <<tx, next_id, turn, window, wire>>
  PROVE  BusInv'
  BY DEF BusInv

(* An operation is submitted, under an id that no other one has. *)
LEMMA SubmitKeeps ==
  ASSUME AgentInv, NEW kind \in load.kinds, NEW node \in Addresses, submit(kind, node)
  PROVE  AgentInv'
<1> DEFINE op == IF kind \in Identified THEN allocate_operation_id ELSE 0
           a == NewWork(kind, AddressOf(kind, node), op)
<1>1. /\ given < load.count /\ Queued < MaxPending
      /\ pending' = Append(pending, a)
      /\ next_op' = IF op = 0 THEN next_op ELSE NextOp(op)
      /\ given' = given + 1
      /\ UNCHANGED <<tx, next_id, owner, completed, turn, window, wire, load, ended>>
  BY DEF submit
<1>2. /\ load \in Workloads /\ load.count \in Nat /\ next_op \in 1 .. OperationSpace
      /\ WorkInv(load.count, pending, owner, completed, given, ended)
      /\ pending \in Seq(Items(load.count)) /\ given \in 0 .. load.count
  BY InvFacts DEF WorkInv
<1>3. kind \in AllKinds BY <1>2, ChannelAssumption
<1>4. Len(pending) + Occupied(owner) + Occupied(completed) < MaxPending
  BY <1>1 DEF Queued, Occupied
<1>5. Len(pending) < MaxPending
  <2>1. Len(pending) \in Nat /\ Occupied(owner) \in {0, 1} /\ Occupied(completed) \in {0, 1}
    BY <1>2, LenProperties DEF Occupied
  <2> QED BY <1>4, <2>1, ChannelAssumption
<1>6. /\ op \in 0 .. OperationSpace
      /\ op # 0 => ~operation_id_in_use(op)
  BY <1>2, <1>5, AllocatedIsFree, ChannelAssumption
<1> HIDE DEF op
<1>7. /\ a \in Items(load.count) /\ WithinSlot(a) /\ a.n = given + 1 /\ a.op = op
  <2>1. AddressOf(kind, node) \in Targets /\ FirstPhase(kind) \in Phases
    BY DEF AddressOf, Targets, FirstPhase, Phases
  <2>2. given + 1 \in 1 .. load.count BY <1>1, <1>2
  <2>3. a = [kind |-> kind, node |-> AddressOf(kind, node), op |-> op,
             phase |-> FirstPhase(kind), attempts |-> 0, held |-> FALSE, sent |-> FALSE,
             n |-> given + 1]
    BY DEF NewWork
  <2> HIDE DEF a
  <2>4. /\ a \in Items(load.count) /\ a.n = given + 1 /\ a.op = op /\ a.attempts = 0
    BY <1>3, <1>6, <2>1, <2>2, <2>3 DEF Items
  <2>5. WithinSlot(a) BY <2>4, ChannelAssumption DEF WithinSlot, Budgeted
  <2> QED BY <2>4, <2>5
<1> HIDE DEF a
<1>8. a.op # 0 => (a.op # owner.op /\ \A i \in DOMAIN pending : pending[i].op # a.op)
  BY <1>6, <1>7 DEF operation_id_in_use
<1>9. WorkInv(load.count, Append(pending, a), owner, completed, given + 1, ended)
  BY <1>1, <1>2, <1>4, <1>7, <1>8, WorkSubmitted
<1>10. next_op' \in 1 .. OperationSpace
  BY <1>1, <1>2, <1>6, ChannelAssumption DEF NextOp
<1>11. BusInv' BY <1>1, InvFacts, BusUntouched
<1>12. AttemptOwned' BY <1>1, InvFacts DEF AttemptOwned, MessageOf
<1> QED BY <1>1, <1>2, <1>9, <1>10, <1>11, <1>12 DEF AgentInv

(* Work is abandoned, or a finished transfer is taken away. *)
LEMMA EndKeeps ==
  ASSUME AgentInv,
         \/ abandon_active
         \/ \E i \in DOMAIN pending : abandon_queued(i)
         \/ take_completed_measurement
  PROVE  AgentInv'
<1>1. /\ load.count \in Nat
      /\ WorkInv(load.count, pending, owner, completed, given, ended)
      /\ owner \in Places(load.count) /\ completed \in Places(load.count)
      /\ BusInv /\ AttemptOwned
  BY InvFacts
<1>2. UNCHANGED <<tx, next_id, turn, window, wire, load, given, next_op>>
  BY DEF abandon_active, abandon_queued, take_completed_measurement
<1>3. BusInv' BY <1>1, <1>2, BusUntouched
<1>4. CASE abandon_active
  <2>1. /\ owner # NoWork /\ tx = Idle /\ pending' = pending /\ owner' = NoWork
        /\ completed' = completed /\ ended' = [ended EXCEPT ![owner.n] = @ + 1]
    BY <1>4 DEF abandon_active, Drop, End
  <2>2. owner.n \in Nat BY <1>1, PlaceFacts
  <2>3. WorkInv(load.count, pending, NoWork, completed, given, [ended EXCEPT ![owner.n] = @ + 1])
    BY <1>1, <2>1, <2>2, WorkEnded
  <2>4. AttemptOwned' BY <1>2, <2>1 DEF AttemptOwned, Idle
  <2> QED BY <1>2, <1>3, <2>1, <2>3, <2>4, InvAfter
<1>5. CASE \E i \in DOMAIN pending : abandon_queued(i)
  <2>1. PICK i \in DOMAIN pending : abandon_queued(i) BY <1>5
  <2>2. /\ pending' = RemoveAt(pending, i) /\ owner' = owner /\ completed' = completed
        /\ ended' = [ended EXCEPT ![pending[i].n] = @ + 1]
    BY <2>1 DEF abandon_queued, End
  <2>3. WorkInv(load.count, RemoveAt(pending, i), owner, completed, given,
                [ended EXCEPT ![pending[i].n] = @ + 1])
    BY <1>1, WorkTakenOut
  <2>4. AttemptOwned' BY <1>1, <1>2, <2>2 DEF AttemptOwned, MessageOf
  <2> QED BY <1>2, <1>3, <2>2, <2>3, <2>4, InvAfter
<1>6. CASE take_completed_measurement
  <2>1. /\ completed # NoWork /\ completed' = NoWork /\ pending' = pending /\ owner' = owner
        /\ ended' = [ended EXCEPT ![completed.n] = @ + 1]
    BY <1>6 DEF take_completed_measurement, End
  <2>2. completed.n \in Nat BY <1>1, PlaceFacts
  <2>3. WorkInv(load.count, pending, owner, NoWork, given, [ended EXCEPT ![completed.n] = @ + 1])
    BY <1>1, <2>1, <2>2, WorkEnded
  <2>4. AttemptOwned' BY <1>1, <1>2, <2>1 DEF AttemptOwned, MessageOf
  <2> QED BY <1>2, <1>3, <2>1, <2>3, <2>4, InvAfter
<1> QED BY <1>4, <1>5, <1>6

(* Time passes: a deadline, a guard time, or a retry delay. *)
LEMMA TimeKeeps == AgentInv /\ Time => AgentInv'
<1> SUFFICES ASSUME AgentInv, Time PROVE AgentInv' OBVIOUS
<1>1. /\ load.count \in Nat
      /\ WorkInv(load.count, pending, owner, completed, given, ended)
      /\ owner \in Places(load.count) /\ BusInv /\ AttemptOwned
  BY InvFacts
<1>2. CASE ResponseDeadlinePasses \/ GuardTimePasses
  <2>1. /\ window \in {"open", "late"} /\ window' \in {"late", "elapsed"}
        /\ UNCHANGED <<tx, next_id, next_op, pending, owner, completed, turn, wire, load,
                       given, ended>>
    BY <1>2 DEF ResponseDeadlinePasses, GuardTimePasses
  <2>2. tx # Idle /\ turn \in {"poll", "receive"} BY <1>1, <2>1 DEF BusInv
  <2>3. BusInv' BY <1>1, <2>1, <2>2, BusKept
  <2>4. AttemptOwned' BY <1>1, <2>1 DEF AttemptOwned, MessageOf
  <2> QED BY <1>1, <2>1, <2>3, <2>4, InvAfter
<1>3. CASE RetryDelayPasses
  <2> DEFINE a == [owner EXCEPT !.held = FALSE]
  <2>1. /\ owner # NoWork /\ owner' = a
        /\ UNCHANGED <<tx, next_id, next_op, pending, completed, turn, window, wire, load,
                       given, ended>>
    BY <1>3 DEF RetryDelayPasses
  <2>2. owner \in Items(load.count) /\ WithinSlot(owner)
    BY <1>1, <2>1 DEF Places, WorkInv
  <2>3. /\ a \in Items(load.count) /\ SameWork(a, owner) /\ a.attempts = owner.attempts
        /\ a.phase = owner.phase /\ a.kind = owner.kind /\ a.node = owner.node
        /\ a.sent = owner.sent
    BY <2>2 DEF Items, SameWork
  <2> HIDE DEF a
  <2>4. WithinSlot(a) /\ a # NoWork
    BY <2>2, <2>3 DEF WithinSlot, Budgeted, Sendable, Items, NoWork
  <2>5. WorkInv(load.count, pending, a, completed, given, ended)
    BY <1>1, <2>1, <2>3, <2>4, WorkKept
  <2>6. BusInv' BY <1>1, <2>1, BusUntouched
  <2>7. AttemptOwned' BY <1>1, <2>1, <2>3, <2>4 DEF AttemptOwned, MessageOf
  <2> QED BY <2>1, <2>5, <2>6, <2>7, InvAfter
<1> QED BY <1>2, <1>3 DEF Time

(* Every step of the agent keeps the invariant. *)
LEMMA AgentInvNext == AgentInv /\ [AgentNext]_agentVars => AgentInv'
<1> SUFFICES ASSUME AgentInv, [AgentNext]_agentVars PROVE AgentInv' OBVIOUS
<1>1. CASE PollAgent BY <1>1, TimeoutKeeps, TransmitKeeps, ListenKeeps DEF PollAgent
<1>2. CASE Receive BY <1>2, ReceiveKeeps, ListenKeeps DEF Receive
<1>3. CASE Caller BY <1>3, SubmitKeeps, EndKeeps DEF Caller
<1>4. CASE Time BY <1>4, TimeKeeps
<1>5. CASE UNCHANGED agentVars
  BY <1>5 DEF agentVars, AgentInv, AttemptOwned, MessageOf, BusInv
<1> QED BY <1>1, <1>2, <1>3, <1>4, <1>5 DEF AgentNext
------------------------
(* What the invariant implies. *)

(* No place is over its budget. *)
LEMMA InvSlotBudget == AgentInv => SlotBudget
<1> SUFFICES ASSUME AgentInv PROVE SlotBudget OBVIOUS
<1>1. Budgeted(owner) /\ Budgeted(completed) BY InvFacts DEF WorkInv, WithinSlot
<1> QED BY <1>1, ChannelAssumption DEF Budgeted, SlotBudget

(* The ids in the queue and of the active work are apart. *)
LEMMA InvOperationIds == AgentInv => OperationIdsDistinct
<1> SUFFICES ASSUME AgentInv PROVE OperationIdsDistinct OBVIOUS
<1> DEFINE held == Append(pending, owner)
<1>1. OpsApart(pending, owner) /\ pending \in Seq(Items(load.count))
  BY InvFacts DEF WorkInv
<1>2. /\ Len(pending) \in Nat /\ DOMAIN pending = 1 .. Len(pending)
      /\ DOMAIN held = 1 .. (Len(pending) + 1) /\ held[Len(pending) + 1] = owner
      /\ \A i \in DOMAIN pending : held[i] = pending[i]
      /\ \A i \in DOMAIN held : i = Len(pending) + 1 \/ i \in DOMAIN pending
  <2>1. \A i \in DOMAIN pending : pending[i] \in Items(load.count) BY <1>1
  <2>2. pending \in Seq(Places(load.count)) /\ owner \in Places(load.count)
    BY <1>1, <2>1, InvFacts DEF Places
  <2>3. Len(pending) \in Nat /\ DOMAIN pending = 1 .. Len(pending) BY <2>2
  <2>4. /\ Len(held) = Len(pending) + 1 /\ held \in Seq(Places(load.count))
        /\ \A i \in 1 .. Len(pending) : held[i] = pending[i]
        /\ held[Len(pending) + 1] = owner
    BY <2>2, AppendProperties
  <2>5. DOMAIN held = 1 .. Len(held) BY <2>4
  <2> HIDE DEF held
  <2> QED BY <2>3, <2>4, <2>5
<1> HIDE DEF held
<1>3. ASSUME NEW i \in DOMAIN held, NEW k \in DOMAIN held, i # k, held[i].op = held[k].op
      PROVE  held[i].op = 0
  <2>1. CASE i \in DOMAIN pending /\ k \in DOMAIN pending
    BY <1>1, <1>2, <1>3, <2>1 DEF OpsApart
  <2>2. CASE i \notin DOMAIN pending BY <1>1, <1>2, <1>3, <2>2 DEF OpsApart
  <2>3. CASE k \notin DOMAIN pending BY <1>1, <1>2, <1>3, <2>3 DEF OpsApart
  <2> QED BY <2>1, <2>2, <2>3
<1> QED BY <1>3 DEF OperationIdsDistinct, held

(* Every submitted work is counted once. *)
LEMMA InvWorkConserved == AgentInv => WorkConserved
<1> SUFFICES ASSUME AgentInv, NEW n \in DOMAIN ended
             PROVE  Held(n) + ended[n] = IF n <= given THEN 1 ELSE 0
  BY DEF WorkConserved
<1> DEFINE Q == {i \in DOMAIN pending : pending[i].n = n}
<1>1. /\ Placed(pending, owner, completed, given, ended)
      /\ ended \in [1 .. load.count -> 0 .. 1] /\ given \in 0 .. load.count
      /\ load.count \in Nat
  BY InvFacts DEF WorkInv
<1>2. n \in 1 .. load.count /\ n # 0 BY <1>1
<1>3. ended[n] = IF n <= given /\ ~Somewhere(n, pending, owner, completed) THEN 1 ELSE 0
  BY <1>1 DEF Placed
<1>4. Somewhere(n, pending, owner, completed) => n <= given
  BY <1>1 DEF Placed, Somewhere
<1>5. CASE Q = {}
  <2>1. Cardinality(Q) = 0 BY <1>5, FS_EmptySet
  <2>2. ~(owner.n = n /\ completed.n = n) BY <1>1, <1>2 DEF Placed
  <2>3. Somewhere(n, pending, owner, completed) <=> (owner.n = n \/ completed.n = n)
    BY <1>5 DEF Somewhere
  <2>4. Held(n) = IF Somewhere(n, pending, owner, completed) THEN 1 ELSE 0
    BY <2>1, <2>2, <2>3 DEF Held
  <2> QED BY <1>3, <1>4, <2>4
<1>6. CASE Q # {}
  <2>1. PICK i \in DOMAIN pending : pending[i].n = n BY <1>6
  <2>2. Q = {i} BY <1>1, <2>1 DEF Placed
  <2>3. Cardinality(Q) = 1 BY <2>2, FS_Singleton
  <2>4. owner.n # n /\ completed.n # n BY <1>1, <2>1 DEF Placed
  <2>5. Somewhere(n, pending, owner, completed) BY <2>1 DEF Somewhere
  <2>6. Held(n) = 1 BY <2>3, <2>4 DEF Held
  <2> QED BY <1>3, <1>4, <2>5, <2>6
<1> QED BY <1>5, <1>6

(* Every variable has its type. *)
LEMMA InvTypeOK == AgentInv => AgentTypeOK
<1> SUFFICES ASSUME AgentInv PROVE AgentTypeOK OBVIOUS
<1>1. /\ load \in Workloads /\ load.count \in Nat /\ next_op \in 1 .. OperationSpace
      /\ pending \in Seq(Items(load.count)) /\ owner \in Places(load.count)
      /\ completed \in Places(load.count) /\ given \in 0 .. load.count
      /\ Len(pending) + Occupied(owner) + Occupied(completed) <= MaxPending /\ BusInv
  BY InvFacts DEF WorkInv
<1>2. Items(load.count) = WorkItems BY DEF Items, WorkItems, Targets
<1>3. /\ owner = NoWork \/ owner \in WorkItems
      /\ completed = NoWork \/ completed \in WorkItems
      /\ \A i \in DOMAIN pending : pending[i] \in WorkItems
  BY <1>1, <1>2 DEF Places
<1>4. \A m \in wire : m.status \in Statuses /\ m.age \in 0 .. (IdSpace - 1)
  BY <1>1 DEF BusInv, Responses
<1>5. Queued <= MaxPending BY <1>1 DEF Queued, Occupied
<1>6. /\ tx = Idle \/ tx \in [state : {"Awaiting", "Quarantine"}, id : 0 .. (IdSpace - 1),
                              node : Addresses \cup {CommissioningAddress},
                              message : AllKinds \cup Phases]
      /\ next_id \in 0 .. (IdSpace - 1) /\ turn \in {"poll", "receive"}
      /\ window \in {"closed", "open", "late", "elapsed"}
  BY <1>1 DEF BusInv, Attempts, Targets, Messages
<1> QED BY <1>1, <1>3, <1>4, <1>5, <1>6 DEF AgentTypeOK

(* What drives the agent adds no step of its own to it: it is stepped, or the
   execution returns before it. *)
LEMMA ThreadSteps ==
  /\ ThreadInit => AgentInit
  /\ [ThreadNext]_threadVars => [AgentNext]_agentVars
<1>1. ThreadNext => AgentNext \/ UNCHANGED agentVars
  BY DEF ThreadNext, Stepped, DeadlineStrands, AgentNext
<1>2. UNCHANGED threadVars => UNCHANGED agentVars BY DEF threadVars
<1>3. ThreadInit => AgentInit BY DEF ThreadInit
<1> QED BY <1>1, <1>2, <1>3

(* Between two steps the agent is consistent (channel_agent.rs, with
   transaction.rs): it keeps to its queue, the attempt on the wire belongs
   to the active work in the phase its answer or its expiry needs, every
   submitted work is in one place and ends once, no bus slot costs more
   than its budget of attempts, and no operation id is in use twice, for
   any workload and any width of the ids. *)
THEOREM AgentStaysConsistent == AgentSpec => []AgentConsistent
<1>1. AgentInv => AgentConsistent
  BY InvTypeOK, InvSlotBudget, InvOperationIds, InvWorkConserved
     DEF AgentConsistent, AgentInv
<1> QED BY <1>1, ThreadSteps, AgentInvInit, AgentInvNext, PTL DEF AgentSpec

(* One step: an awaited attempt ends early by a response of its own age,
   and a request leaves only on a bus that is given back. *)
LEMMA StepAnswersOwn ==
  ASSUME AgentInv, [AgentNext]_agentVars
  PROVE  /\ (tx.state = "Awaiting" /\ tx' = Idle) => \E m \in wire \ wire' : m.age = 0
         /\ next_id' # next_id => window \in {"closed", "elapsed"}
<1>1. CASE StepTransmit \/ StepTransmitFailed
  <2>1. tx = Idle BY <1>1 DEF StepTransmit, StepTransmitFailed, ToSend
  <2> QED BY <2>1, InvFacts DEF BusInv, Idle
<1>2. CASE \E m \in wire : receive(m)
  <2>1. PICK m \in wire : receive(m) BY <1>2
  <2>2. next_id' = next_id /\ wire' = wire \ {m} BY <2>1 DEF receive
  <2>3. CASE Accepted(m)
    <3>1. tx.state = "Awaiting" => m.age = 0
      BY <2>3, InvFacts, MatchIsFresh DEF Accepted
    <3> QED BY <2>2, <3>1
  <2>4. CASE ~Accepted(m)
    <3>1. Discard BY <2>1, <2>4 DEF receive
    <3>2. tx.state = "Awaiting" => tx' # Idle
      BY <3>1, InvFacts, Quarantined DEF Discard, TimedOut, Idle
    <3> QED BY <2>2, <3>2
  <2> QED BY <2>3, <2>4
<1>3. CASE StepTimedOut
  <2>1. tx' # Idle /\ next_id' = next_id
    BY <1>3, InvFacts, Quarantined DEF StepTimedOut, TimedOut
  <2> QED BY <2>1
<1>4. CASE StepQuarantineEnded
  <2>1. tx.state # "Awaiting" /\ next_id' = next_id
    BY <1>4 DEF StepQuarantineEnded, GuardOver
  <2> QED BY <2>1
<1>5. CASE Caller \/ Time \/ StepFails \/ StepListen \/ NoData \/ UNCHANGED agentVars
  <2>1. tx' = tx /\ next_id' = next_id
    BY <1>5 DEF Caller, submit, abandon_active, abandon_queued, take_completed_measurement,
                Time, ResponseDeadlinePasses, GuardTimePasses, RetryDelayPasses,
                StepFails, StepListen, NoData, agentVars
  <2> QED BY <2>1 DEF Idle
<1> QED BY <1>1, <1>2, <1>3, <1>4, <1>5 DEF AgentNext, PollAgent, Receive

(* Only the response to the awaited attempt ends it early, whatever is
   late, overtakes or carries a reused id within the assumption on the
   wire, and the half-duplex bus carries the next request only when the
   last is answered or its deadline and guard time are over
   (transaction.rs matches, receive, prepare, on_timer). *)
THEOREM AnswersBelong == AgentSpec => AnswerBelongs
<1>1. AgentInv /\ [AgentNext]_agentVars =>
        [/\ (tx.state = "Awaiting" /\ tx' = Idle) => \E m \in wire \ wire' : m.age = 0
         /\ next_id' # next_id => window \in {"closed", "elapsed"}]_agentVars
  BY StepAnswersOwn
<1> QED BY <1>1, ThreadSteps, AgentInvInit, AgentInvNext, PTL DEF AgentSpec, AnswerBelongs

------------------------
(* The task of the channel, for every list of nodes, every mailbox and
   ledger capacity, every workload of operations, and every loss. *)

(* Operations. *)
Requested == [id : Ids, kind : Kinds]
OpPhases == {"Accepted", "Running"} \cup Terminal
LedgerRecords == [id : Ids, kind : Kinds, phase : OpPhases]
OpsTypes ==
  /\ inbox \in Seq(Requested)
  /\ ledger \in Seq(LedgerRecords) /\ Len(ledger) <= LedgerCapacity
  /\ active \in Requested \cup {NoRequest}
  /\ audit \in [Ids -> Seq(OpPhases)]

(* No id is in the ledger twice, and the last audited phase is the ledger's. *)
OneRecord(l) == \A i, k \in DOMAIN l : l[i].id = l[k].id => i = k
LastAudited(l, a, i) == a[l[i].id] # <<>> /\ Last(a[l[i].id]) = l[i].phase
LedgerTold(l, a) == OneRecord(l) /\ \A i \in DOMAIN l : LastAudited(l, a, i)
ActiveRuns(l, r) ==
  r # NoRequest => \E i \in DOMAIN l : l[i].id = r.id /\ l[i].phase = "Running"
OpsInv ==
  /\ OpsTypes
  /\ task = "running" => LedgerTold(ledger, audit) /\ ActiveRuns(ledger, active)

(* The worker. *)
DispatchType == [kind : Works \cup {"recovery"}, node : NodeSet] \cup {NoDispatch}
WorkType == [kind : Works, node : NodeSet] \cup [kind : {"control"}, node : NodeSet \cup {None}]
CoordType ==
  [quiescing : BOOLEAN, drain : (SUBSET DOMAIN Nodes) \cup {NoDrain}, dispatch : DispatchType,
   pending : BOOLEAN, writes : SUBSET NodeSet]
WorldType == [state : {"Recording", "Idle", "Maintenance"}, boot : Nat, tail : Nat]
Stages ==
  {"Quiescing", "ConvergingToIdle", "Reconciling", "Draining", "ConvergingToMaintenance",
   "CompleteMaintenance", "FallingBackToIdle", "CompleteIdle",
   "VerifyingNodes", "ReconcilingStreams", "CheckingAdmission", "ActivatingNodes",
   "ResumingScheduling", "Complete", "Faulted", "Offline",
   "Scan", "Assigning", "Verifying", "wait", "settling", "verify", "rollover", "activate", "finish"}
ControlExecs == {"configuration", "commissioning", "restart"}
ExecKinds == ControlExecs \cup {"maintenance", "resume", "recovery"}
ExecType ==
  [kind : ExecKinds, stage : Stages, i : Nat \ {0}, node : NodeSet \cup {None},
   finish : BOOLEAN, due : BOOLEAN, err : BOOLEAN, moved : BOOLEAN, boots : [NodeSet -> Nat]]
ExecSound ==
  \/ exec = NoExec
  \/ /\ exec \in ExecType
     /\ exec.kind \in {"restart", "recovery"} => exec.node \in NodeSet

LoopTypes ==
  /\ coord \in CoordType /\ agent \in Seq(WorkType)
  /\ flight \in BOOLEAN /\ done \in {None, "data", "nodata", "recovery", "exhausted"}
  /\ recovering \subseteq NodeSet
  /\ world \in [NodeSet -> WorldType]
BootTypes == sboot \in [NodeSet -> Nat] /\ wboot \in [NodeSet -> Nat]
WorkerTypes ==
  /\ LoopTypes /\ BootTypes
  /\ ExecSound
  /\ pc \in {"poll", "start", "drive"} /\ mode \in Modes

(* What the coordinator dispatched, the agent works on or has done. *)
Dispatched(c, a, d) ==
  /\ \A i \in DOMAIN a : a[i].kind # "control" =>
       /\ a[i] = c.dispatch /\ ~c.pending
       /\ a[i].kind = "measurement" => d = None
       /\ \A k \in DOMAIN a : a[k].kind # "control" => i = k
  /\ d # None => c.dispatch.kind = "measurement" /\ ~c.pending
  /\ c.pending => c.dispatch.kind = "measurement"
  /\ c.drain # NoDrain /\ c.dispatch # NoDispatch =>
       /\ c.dispatch.kind = "measurement"
       /\ c.drain # {} /\ c.dispatch.node = Nodes[Oldest(c.drain)]

Recovers(c, x) == x.kind = "recovery" => c.dispatch = [kind |-> "recovery", node |-> x.node]

OneControl(a) ==
  \A i, k \in DOMAIN a : a[i].kind = "control" /\ a[k].kind = "control" => i = k
NoControl(a) == \A i \in DOMAIN a : a[i].kind # "control"
Controlled(a, x) ==
  /\ OneControl(a)
  /\ x.kind \notin ControlExecs \/ x.stage = "settling" => NoControl(a)

WorksSound ==
  /\ Dispatched(coord, agent, done) /\ Recovers(coord, exec)
  /\ task = "running" => Controlled(agent, exec)

ModeSound ==
  task = "running" =>
    /\ mode = "EnteringMaintenance" <=> exec.kind = "maintenance"
    /\ mode = "ResumingRecording" <=> exec.kind = "resume"
    /\ exec.kind \in ExecKinds \ {"recovery"} => active # NoRequest
    /\ exec.kind = "recovery" => active = NoRequest
    /\ active # NoRequest /\ exec = NoExec /\ pc # "start" =>
         workflow \in {"Entering", "ReadyToResume"}
    /\ exec.kind = "maintenance" /\ ~exec.finish => workflow = "Entering"
    /\ pc = "start" => exec = NoExec /\ active # NoRequest
    /\ mode = "Recording" => ~coord.quiescing
    /\ Draining => At("maintenance", "Draining")

Stopped(w, n) == w[n].state # "Recording"
AllStopped(w) == \A n \in NodeSet : Stopped(w, n)
(* Drained but for the nodes at the positions d. *)
DrainedBut(w, r, d) ==
  \A i \in DOMAIN Nodes : Nodes[i] \in r \/ i \in d \/ w[Nodes[i]].tail = 0

EntryTold ==
  exec.kind = "maintenance" =>
    /\ exec.stage \notin {"Quiescing", "Draining"} => Quiescent
    /\ exec.stage = "Draining" /\ ~Draining => Quiescent
    /\ exec.stage = "ConvergingToIdle" =>
         \A k \in DOMAIN Nodes : k < exec.i => Stopped(world, Nodes[k])
    /\ exec.stage \in {"Reconciling", "Draining", "ConvergingToMaintenance", "CompleteMaintenance"} =>
         AllStopped(world)
    /\ exec.stage = "Draining" /\ Draining => DrainedBut(world, recovering, coord.drain)
    /\ exec.stage \in {"ConvergingToMaintenance", "CompleteMaintenance"} =>
         DrainedBut(world, recovering, {})

ResumeTold ==
  exec.kind = "resume" =>
    /\ exec.stage = "ReconcilingStreams" /\ exec.i > 1 => ResumeReady
    /\ exec.stage \in {"CheckingAdmission", "ActivatingNodes", "ResumingScheduling"} => ResumeReady
    /\ exec.stage = "Complete" => ~coord.quiescing

DownType ==
  [stage : {None, "barrier", "stop", "drain", "finalize", "done"},
   kind : {None, "quiesced", "controlled"}, ok : BOOLEAN, i : Nat \ {0}, due : BOOLEAN]

DownTold ==
  /\ down \in DownType
  /\ task = "running" => down.stage = None
  /\ down.ok /\ down.kind = "controlled" =>
       /\ down.stage = "stop" =>
            /\ Quiescent
            /\ \A k \in DOMAIN Nodes : k < down.i => Stopped(world, Nodes[k])
       /\ down.stage \in {"drain", "finalize", "done"} => AllStopped(world)
       /\ down.stage = "drain" => Draining /\ DrainedBut(world, recovering, coord.drain)
       /\ down.stage \in {"finalize", "done"} => ~coord.pending /\ DrainedBut(world, recovering, {})
       /\ down.stage = "done" => coord.writes = {}

WorkerInv ==
  /\ OpsInv /\ WorkerTypes /\ WorksSound /\ ModeSound
  /\ task = "running" => EntryTold /\ ResumeTold
  /\ DownTold /\ NoInternalError
------------------------
(* The ledger and the audit. *)

(* A set of places that is not empty has its oldest. *)
LEMMA OldestExists ==
  ASSUME NEW S \in SUBSET Nat, S # {}
  PROVE  Oldest(S) \in S
  BY MinExists DEF Oldest, Min

(* What is left of a ledger when one record is forgotten. *)
LEMMA Forgotten ==
  ASSUME NEW l \in Seq(LedgerRecords), OneRecord(l), NEW x \in DOMAIN l
  PROVE  LET m == RemoveAt(l, x)
         IN  /\ m \in Seq(LedgerRecords) /\ OneRecord(m) /\ Len(m) = Len(l) - 1
             /\ \A i \in DOMAIN m : \E k \in DOMAIN l : m[i] = l[k]
             /\ \A k \in DOMAIN l : k # x => \E i \in DOMAIN m : m[i] = l[k]
<1> DEFINE m == RemoveAt(l, x)
           from(i) == IF i < x THEN i ELSE i + 1
<1>1. Len(l) \in Nat /\ DOMAIN l = 1 .. Len(l) /\ x \in 1 .. Len(l) OBVIOUS
<1>2. /\ m \in Seq(LedgerRecords) /\ Len(m) = Len(l) - 1 /\ DOMAIN m = 1 .. (Len(l) - 1)
      /\ \A i \in 1 .. (Len(l) - 1) : m[i] = IF i < x THEN l[i] ELSE l[i + 1]
  BY <1>1, Removed
<1> HIDE DEF m
<1>3. /\ \A i \in DOMAIN m : from(i) \in DOMAIN l /\ m[i] = l[from(i)]
      /\ \A i, k \in DOMAIN m : from(i) = from(k) => i = k
  BY <1>1, <1>2
<1>4. ASSUME NEW k \in DOMAIN l, k # x PROVE \E i \in DOMAIN m : m[i] = l[k]
  <2>1. CASE k < x
    <3>1. k \in DOMAIN m /\ m[k] = l[k] BY <1>1, <1>2, <2>1
    <3> QED BY <3>1
  <2>2. CASE ~(k < x)
    <3>1. PICK i \in Int : i = k - 1 BY <1>1
    <3>2. i \in DOMAIN m /\ i + 1 = k /\ ~(i < x) BY <1>1, <1>2, <1>4, <2>2, <3>1
    <3> QED BY <1>2, <3>2
  <2> QED BY <2>1, <2>2
<1> HIDE DEF from
<1>5. OneRecord(m) BY <1>3 DEF OneRecord
<1>6. \A i \in DOMAIN m : \E k \in DOMAIN l : m[i] = l[k] BY <1>3
<1> QED BY <1>2, <1>4, <1>5, <1>6 DEF m

(* OperationLedger::register: a new record, and of the others at most a
   finished one is forgotten. *)
LEMMA Registered ==
  ASSUME ledger \in Seq(LedgerRecords), OneRecord(ledger), Len(ledger) <= LedgerCapacity,
         ~LedgerFull, NEW r \in Requested, ~Known(r.id)
  PROVE  LET l == Register(r)
         IN  /\ l \in Seq(LedgerRecords) /\ OneRecord(l) /\ Len(l) <= LedgerCapacity
             /\ \E i \in DOMAIN l : l[i].id = r.id /\ l[i].phase = "Accepted"
             /\ \A i \in DOMAIN l : l[i].id # r.id => \E k \in DOMAIN ledger : l[i] = ledger[k]
             /\ \A k \in DOMAIN ledger :
                  ledger[k].phase = "Running" => \E i \in DOMAIN l : l[i] = ledger[k]
<1> DEFINE kept == IF Len(ledger) < LedgerCapacity THEN ledger
                   ELSE RemoveAt(ledger, Oldest(Evictable))
           new == [id |-> r.id, kind |-> r.kind, phase |-> "Accepted"]
           l == Append(kept, new)
<1>1. Len(ledger) \in Nat /\ DOMAIN ledger = 1 .. Len(ledger) /\ LedgerCapacity \in Nat
  BY OperationsAssumption
<1>2. /\ kept \in Seq(LedgerRecords) /\ OneRecord(kept) /\ Len(kept) < LedgerCapacity
      /\ \A i \in DOMAIN kept : \E k \in DOMAIN ledger : kept[i] = ledger[k]
      /\ \A k \in DOMAIN ledger :
           ledger[k].phase = "Running" => \E i \in DOMAIN kept : kept[i] = ledger[k]
  <2>1. CASE Len(ledger) < LedgerCapacity
    <3>1. kept = ledger BY <2>1
    <3> QED BY <2>1, <3>1
  <2>2. CASE ~(Len(ledger) < LedgerCapacity)
    <3> DEFINE x == Oldest(Evictable)
    <3>1. Evictable # {} /\ Evictable \in SUBSET Nat
      <4>4. Len(ledger) \in Nat /\ LedgerCapacity \in Nat /\ Len(ledger) <= LedgerCapacity
        BY <1>1, Zenon
      <4>1. Len(ledger) = LedgerCapacity BY <2>2, <4>4
      <4>2. Evictable \subseteq 1 .. Len(ledger) BY <1>1, Zenon DEF Evictable
      <4>3. Evictable # {} BY <4>1, Zenon DEF LedgerFull
      <4> QED BY <1>1, <4>2, <4>3
    <3>2. x \in Evictable BY <3>1, OldestExists
    <3>3. x \in DOMAIN ledger /\ ledger[x].phase # "Running"
      BY <3>2 DEF Evictable, Terminal
    <3>4. kept = RemoveAt(ledger, x) BY <2>2
    <3> HIDE DEF x, kept
    <3>5. /\ kept \in Seq(LedgerRecords) /\ OneRecord(kept) /\ Len(kept) = Len(ledger) - 1
          /\ \A i \in DOMAIN kept : \E k \in DOMAIN ledger : kept[i] = ledger[k]
          /\ \A k \in DOMAIN ledger : k # x => \E i \in DOMAIN kept : kept[i] = ledger[k]
      BY <3>3, <3>4, Forgotten
    <3>6. Len(kept) < LedgerCapacity BY <1>1, <2>2, <3>5
    <3> QED BY <3>3, <3>5, <3>6
  <2> QED BY <2>1, <2>2
<1>3. new \in LedgerRecords /\ new.id = r.id /\ new.phase = "Accepted"
  BY DEF Requested, LedgerRecords, OpPhases
<1> HIDE DEF kept, new
<1>4. Len(kept) \in Nat /\ DOMAIN kept = 1 .. Len(kept) BY <1>2
<1>5. /\ l \in Seq(LedgerRecords) /\ Len(l) = Len(kept) + 1 /\ DOMAIN l = 1 .. (Len(kept) + 1)
      /\ l[Len(kept) + 1] = new /\ \A i \in DOMAIN kept : i \in DOMAIN l /\ l[i] = kept[i]
      /\ \A i \in DOMAIN l : i = Len(kept) + 1 \/ i \in DOMAIN kept
  <2>1. /\ l \in Seq(LedgerRecords) /\ Len(l) = Len(kept) + 1
        /\ \A i \in 1 .. Len(kept) : l[i] = kept[i]
        /\ l[Len(kept) + 1] = new
    BY <1>2, <1>3, AppendProperties
  <2>2. DOMAIN l = 1 .. Len(l) BY <2>1
  <2> HIDE DEF l
  <2> QED BY <1>4, <2>1, <2>2
<1> HIDE DEF l
<1>6. \A i \in DOMAIN kept : kept[i].id # r.id BY <1>2 DEF Known
<1>7. OneRecord(l) BY <1>2, <1>3, <1>5, <1>6 DEF OneRecord
<1>8. Len(l) <= LedgerCapacity BY <1>1, <1>2, <1>4, <1>5
<1>9. \E i \in DOMAIN l : l[i].id = r.id /\ l[i].phase = "Accepted" BY <1>3, <1>4, <1>5
<1>10. \A i \in DOMAIN l : l[i].id # r.id => \E k \in DOMAIN ledger : l[i] = ledger[k]
  BY <1>2, <1>3, <1>5
<1>11. \A k \in DOMAIN ledger :
         ledger[k].phase = "Running" => \E i \in DOMAIN l : l[i] = ledger[k]
  BY <1>2, <1>5
<1>12. l = Register(r) BY DEF l, kept, new, Register
<1> QED BY <1>5, <1>7, <1>8, <1>9, <1>10, <1>11, <1>12

(* OperationLedger::set_phase changes the record of the id alone. *)
LEMMA PhaseSet ==
  ASSUME NEW l \in Seq(LedgerRecords), OneRecord(l), NEW id, NEW phase \in OpPhases
  PROVE  LET m == SetPhase(l, id, phase)
         IN  /\ m \in Seq(LedgerRecords) /\ OneRecord(m) /\ Len(m) = Len(l) /\ DOMAIN m = DOMAIN l
             /\ \A i \in DOMAIN l : m[i].id = l[i].id
             /\ \A i \in DOMAIN l : m[i].phase = IF l[i].id = id THEN phase ELSE l[i].phase
<1> DEFINE m == SetPhase(l, id, phase)
<1>1. Len(l) \in Nat /\ DOMAIN l = 1 .. Len(l) OBVIOUS
<1>2. ASSUME NEW i \in DOMAIN l
      PROVE  /\ m[i] \in LedgerRecords /\ m[i].id = l[i].id
             /\ m[i].phase = IF l[i].id = id THEN phase ELSE l[i].phase
  <2>1. l[i] \in LedgerRecords OBVIOUS
  <2>2. m[i] = IF l[i].id = id THEN [l[i] EXCEPT !.phase = phase] ELSE l[i]
    BY DEF SetPhase
  <2> QED BY <2>1, <2>2 DEF LedgerRecords
<1>3. DOMAIN m = DOMAIN l BY DEF SetPhase
<1>4. m = [i \in 1 .. Len(l) |-> m[i]] BY <1>1 DEF SetPhase
<1> HIDE DEF m
<1>5. m \in Seq(LedgerRecords) /\ Len(m) = Len(l) BY <1>1, <1>2, <1>4
<1>6. OneRecord(m) BY <1>2, <1>3 DEF OneRecord
<1> QED BY <1>2, <1>3, <1>5, <1>6 DEF m

(* The record of an id that a ledger knows. *)
LEMMA RecordFound ==
  ASSUME NEW l, OneRecord(l), NEW i \in DOMAIN l
  PROVE  RecordOf(l, l[i].id) = l[i]
<1> DEFINE k == CHOOSE k \in DOMAIN l : l[k].id = l[i].id
<1>1. k \in DOMAIN l /\ l[k].id = l[i].id OBVIOUS
<1>2. k = i BY <1>1 DEF OneRecord
<1> QED BY <1>2, Zenon DEF RecordOf

(* The last of what was appended is the last. *)
LEMMA LastAppended ==
  ASSUME NEW S, NEW s \in Seq(S), NEW b \in Seq(S), NEW t \in Seq(S), t # <<>>
  PROVE  /\ s \o b \o t \in Seq(S) /\ s \o b \o t # <<>>
         /\ Last(s \o b \o t) = Last(t)
<1>1. PICK u : u = s \o b OBVIOUS
<1>2. u \in Seq(S) BY <1>1, ConcatProperties
<1>3. PICK m, n \in Nat : m = Len(u) /\ n = Len(t) /\ n >= 1 BY <1>2, EmptySeq
<1>4. /\ u \o t \in Seq(S) /\ Len(u \o t) = m + n
      /\ \A i \in 1 .. (m + n) : (u \o t)[i] = IF i <= m THEN u[i] ELSE t[i - m]
  BY <1>2, <1>3, ConcatProperties
<1>5. PICK k \in Int : k = m + n BY <1>3
<1>6. k \in 1 .. (m + n) /\ ~(k <= m) /\ k - m = n BY <1>3, <1>5
<1>7. (u \o t)[k] = t[n] BY <1>4, <1>6
<1>8. u \o t # <<>> BY <1>3, <1>4, <1>5, <1>6
<1> QED BY <1>1, <1>3, <1>4, <1>5, <1>7, <1>8 DEF Last

(* A step that audits phases of one operation leaves a ledger whose every
   phase is the last one audited, if that held of the other operations. *)
LEMMA AuditKeeps ==
  ASSUME task = "running", audit \in [Ids -> Seq(OpPhases)],
         NEW l \in Seq(LedgerRecords), OneRecord(l), NEW id \in Ids,
         \A i \in DOMAIN l : l[i].id # id => LastAudited(l, audit, i),
         NEW before \in Seq(OpPhases), NEW phases \in Seq(OpPhases), phases # <<>>,
         MayMove(l, id, phases), Audited(l, id, before, phases)
  PROVE  /\ ledger' \in Seq(LedgerRecords) /\ Len(ledger') = Len(l)
         /\ audit' \in [Ids -> Seq(OpPhases)]
         /\ task' \in {"running", "AuditUnavailable"}
         /\ task' = "running" =>
              /\ ledger' = SetPhase(l, id, Last(phases))
              /\ LedgerTold(ledger', audit')
<1>1. /\ Len(phases) \in Nat /\ Len(phases) >= 1 /\ \A k \in 1 .. Len(phases) : phases[k] \in OpPhases
      /\ Last(phases) \in OpPhases
  BY EmptySeq DEF Last
<1>2. audit[id] \in Seq(OpPhases) OBVIOUS
<1>3. CASE /\ ledger' = SetPhase(l, id, Last(phases))
           /\ audit' = [audit EXCEPT ![id] = @ \o before \o phases]
           /\ task' = task
  <2>1. PICK phase \in OpPhases : phase = Last(phases) BY <1>1
  <2>2. /\ ledger' \in Seq(LedgerRecords) /\ OneRecord(ledger') /\ Len(ledger') = Len(l)
        /\ DOMAIN ledger' = DOMAIN l
        /\ \A i \in DOMAIN l : ledger'[i].id = l[i].id
        /\ \A i \in DOMAIN l : ledger'[i].phase = IF l[i].id = id THEN phase ELSE l[i].phase
    BY <1>3, <2>1, PhaseSet
  <2>3. PICK told : told = audit[id] \o before \o phases OBVIOUS
  <2>4. told \in Seq(OpPhases) /\ told # <<>> /\ Last(told) = phase
    BY <1>2, <2>1, <2>3, LastAppended
  <2>5. audit' = [audit EXCEPT ![id] = told] BY <1>3, <2>3
  <2>6. audit' \in [Ids -> Seq(OpPhases)] BY <2>4, <2>5
  <2>7. ASSUME NEW i \in DOMAIN ledger' PROVE LastAudited(ledger', audit', i)
    <3>1. l[i] \in LedgerRecords BY <2>2
    <3>2. l[i].id \in Ids BY <3>1 DEF LedgerRecords
    <3>3. CASE l[i].id = id BY <2>2, <2>4, <2>5, <3>2, <3>3 DEF LastAudited
    <3>4. CASE l[i].id # id
      <4>1. audit'[l[i].id] = audit[l[i].id] BY <2>5, <3>2, <3>4
      <4>2. LastAudited(l, audit, i) BY <2>2, <3>4
      <4> QED BY <2>2, <3>4, <4>1, <4>2 DEF LastAudited
    <3> QED BY <3>3, <3>4
  <2> QED BY <1>3, <2>2, <2>6, <2>7 DEF LedgerTold
<1>4. CASE ledger' = l /\ audit' = audit /\ task' = "AuditUnavailable" BY <1>4
<1>5. CASE /\ \E k \in 1 .. Len(phases) :
                /\ ledger' = SetPhase(l, id, phases[k])
                /\ audit' = [audit EXCEPT ![id] = @ \o before \o SubSeq(phases, 1, k - 1)]
           /\ task' = "AuditUnavailable"
  <2>1. PICK k \in 1 .. Len(phases) :
                /\ ledger' = SetPhase(l, id, phases[k])
                /\ audit' = [audit EXCEPT ![id] = @ \o before \o SubSeq(phases, 1, k - 1)]
    BY <1>5
  <2>2. PICK high \in Int : high = k - 1 BY <1>1
  <2>3. \A i \in 1 .. high : phases[i] \in OpPhases BY <1>1, <2>2
  <2>4. SubSeq(phases, 1, high) \in Seq(OpPhases) BY <2>3, SubSeqProperties
  <2>5. PICK told : told = audit[id] \o before \o SubSeq(phases, 1, high) OBVIOUS
  <2>6. told \in Seq(OpPhases) BY <1>2, <2>4, <2>5, ConcatProperties
  <2>7. audit' = [audit EXCEPT ![id] = told] BY <2>1, <2>2, <2>5
  <2>8. phases[k] \in OpPhases BY <1>1
  <2>9. ledger' \in Seq(LedgerRecords) /\ Len(ledger') = Len(l) BY <2>1, <2>8, PhaseSet
  <2> QED BY <1>5, <2>6, <2>7, <2>9
<1> QED BY <1>3, <1>4, <1>5 DEF Audited

(* The active operation ends: its record is found running, and no other
   record changes. *)
LEMMA EndActiveKeeps ==
  ASSUME OpsInv, task = "running", active # NoRequest,
         NEW phase \in {"Succeeded", "Failed"}, EndActive(phase)
  PROVE  OpsInv' /\ active' = NoRequest /\ task' \in {"running", "AuditUnavailable"}
<1>1. /\ inbox \in Seq(Requested) /\ ledger \in Seq(LedgerRecords)
      /\ Len(ledger) <= LedgerCapacity /\ audit \in [Ids -> Seq(OpPhases)]
      /\ active \in Requested /\ OneRecord(ledger)
      /\ \A i \in DOMAIN ledger : LastAudited(ledger, audit, i)
  BY DEF OpsInv, OpsTypes, LedgerTold
<1>2. PICK i \in DOMAIN ledger : ledger[i].id = active.id /\ ledger[i].phase = "Running"
  BY DEF OpsInv, ActiveRuns
<1>3. active.id \in Ids /\ phase \in OpPhases BY <1>1 DEF Requested, OpPhases, Terminal
<1>4. RecordOf(ledger, active.id) = ledger[i] BY <1>1, <1>2, RecordFound
<1> DEFINE phases == <<phase>>
<1>5. phases \in Seq(OpPhases) /\ phases # <<>> /\ Len(phases) = 1 /\ phases[1] = phase
  BY <1>3
<1>6. <<>> \in Seq(OpPhases) OBVIOUS
<1>7. /\ Audited(ledger, active.id, <<>>, phases) /\ active' = NoRequest
      /\ UNCHANGED <<inbox, submitted>>
  BY DEF EndActive
<1> HIDE DEF phases
<1>8. MayMove(ledger, active.id, phases)
  <2>1. ValidPhaseTransition("Running", phase) BY DEF ValidPhaseTransition
  <2> QED BY <1>2, <1>4, <1>5, <2>1 DEF MayMove
<1>9. /\ ledger' \in Seq(LedgerRecords) /\ Len(ledger') = Len(ledger)
      /\ audit' \in [Ids -> Seq(OpPhases)]
      /\ task' \in {"running", "AuditUnavailable"}
      /\ task' = "running" => LedgerTold(ledger', audit')
  BY <1>1, <1>3, <1>5, <1>6, <1>7, <1>8, AuditKeeps
<1> QED BY <1>1, <1>7, <1>9 DEF OpsInv, OpsTypes, ActiveRuns

(* A polled request that is registered and moved: what it leaves. *)
LEMMA RegisteredKeeps ==
  ASSUME OpsInv, task = "running", NEW r \in Requested, ~Known(r.id), ~LedgerFull,
         NEW phases \in {<<"Rejected">>, <<"Running">>, <<"Running", "Succeeded">>},
         Audited(Register(r), r.id, <<"Accepted">>, phases)
  PROVE  /\ ledger' \in Seq(LedgerRecords) /\ Len(ledger') <= LedgerCapacity
         /\ audit' \in [Ids -> Seq(OpPhases)]
         /\ task' \in {"running", "AuditUnavailable"}
         /\ task' = "running" =>
              /\ LedgerTold(ledger', audit')
              /\ ActiveRuns(ledger', active)
              /\ phases = <<"Running">> => ActiveRuns(ledger', r)
<1>1. /\ ledger \in Seq(LedgerRecords) /\ OneRecord(ledger)
      /\ Len(ledger) <= LedgerCapacity /\ audit \in [Ids -> Seq(OpPhases)]
      /\ active \in Requested \cup {NoRequest} /\ ActiveRuns(ledger, active)
      /\ \A i \in DOMAIN ledger : LastAudited(ledger, audit, i)
  BY DEF OpsInv, OpsTypes, LedgerTold
<1>2. PICK l : l = Register(r) OBVIOUS
<1>3. /\ l \in Seq(LedgerRecords) /\ OneRecord(l) /\ Len(l) <= LedgerCapacity
      /\ \E i \in DOMAIN l : l[i].id = r.id /\ l[i].phase = "Accepted"
      /\ \A i \in DOMAIN l : l[i].id # r.id => \E k \in DOMAIN ledger : l[i] = ledger[k]
      /\ \A k \in DOMAIN ledger :
           ledger[k].phase = "Running" => \E i \in DOMAIN l : l[i] = ledger[k]
  BY <1>1, <1>2, Registered
<1>4. PICK i \in DOMAIN l : l[i].id = r.id /\ l[i].phase = "Accepted" BY <1>3
<1>5. RecordOf(l, r.id) = l[i] /\ r.id \in Ids BY <1>3, <1>4, RecordFound DEF Requested
<1>6. \A k \in DOMAIN l : l[k].id # r.id => LastAudited(l, audit, k)
  BY <1>1, <1>3 DEF LastAudited
<1>7. /\ phases \in Seq(OpPhases) /\ phases # <<>> /\ <<"Accepted">> \in Seq(OpPhases)
      /\ Last(phases) \in OpPhases
  BY DEF OpPhases, Terminal, Last
<1>8. MayMove(l, r.id, phases)
  <2>1. ValidPhaseTransition("Accepted", phases[1]) BY DEF ValidPhaseTransition
  <2>2. \A k \in 2 .. Len(phases) : ValidPhaseTransition(phases[k - 1], phases[k])
    BY DEF ValidPhaseTransition
  <2> QED BY <1>4, <1>5, <2>1, <2>2 DEF MayMove
<1>9. /\ ledger' \in Seq(LedgerRecords) /\ Len(ledger') = Len(l)
      /\ audit' \in [Ids -> Seq(OpPhases)]
      /\ task' \in {"running", "AuditUnavailable"}
      /\ task' = "running" =>
           /\ ledger' = SetPhase(l, r.id, Last(phases))
           /\ LedgerTold(ledger', audit')
  BY <1>1, <1>2, <1>3, <1>5, <1>6, <1>7, <1>8, AuditKeeps
<1>10. ASSUME task' = "running"
       PROVE  ActiveRuns(ledger', active) /\ (phases = <<"Running">> => ActiveRuns(ledger', r))
  <2>1. PICK phase \in OpPhases : phase = Last(phases) BY <1>7
  <2>2. /\ DOMAIN ledger' = DOMAIN l
        /\ \A k \in DOMAIN l : ledger'[k].id = l[k].id
        /\ \A k \in DOMAIN l : ledger'[k].phase = IF l[k].id = r.id THEN phase ELSE l[k].phase
    BY <1>3, <1>9, <1>10, <2>1, PhaseSet
  <2>3. ActiveRuns(ledger', active)
    <3> SUFFICES ASSUME active # NoRequest
                 PROVE  \E k \in DOMAIN ledger' : ledger'[k].id = active.id /\ ledger'[k].phase = "Running"
      BY DEF ActiveRuns
    <3>1. PICK k \in DOMAIN ledger : ledger[k].id = active.id /\ ledger[k].phase = "Running"
      BY <1>1 DEF ActiveRuns
    <3>2. active.id # r.id BY <3>1 DEF Known
    <3>3. PICK m \in DOMAIN l : l[m] = ledger[k] BY <1>3, <3>1
    <3> QED BY <2>2, <3>1, <3>2, <3>3
  <2>4. ASSUME phases = <<"Running">> PROVE ActiveRuns(ledger', r)
    <3>1. phase = "Running" BY <2>1, <2>4 DEF Last
    <3> QED BY <1>4, <2>2, <3>1 DEF ActiveRuns
  <2> QED BY <2>3, <2>4
<1>11. Len(ledger') <= LedgerCapacity BY <1>3, <1>9
<1> QED BY <1>9, <1>10, <1>11

(* The mailbox and the ledger after the poll took its command. *)
LEMMA PollOps ==
  ASSUME OpsInv, task = "running", inbox # <<>>, PollCommand
  PROVE  /\ OpsInv'
         /\ task' \in {"running", "AuditUnavailable", "OperationIdConflict", "LedgerFull"}
         /\ active # NoRequest => active' = active
<1>1. /\ inbox \in Seq(Requested) /\ OpsTypes /\ LedgerTold(ledger, audit)
      /\ ActiveRuns(ledger, active)
  BY DEF OpsInv, OpsTypes
<1> DEFINE r == Head(inbox)
<1>2. /\ inbox' = Tail(inbox)
      /\ PollExisting(r) \/ PollError(r) \/ PollRejected(r) \/ PollStarted(r)
  BY DEF PollCommand, PollNothing
<1>3. r \in Requested /\ inbox' \in Seq(Requested) BY <1>1, <1>2, HeadTailProperties
<1> HIDE DEF r
<1>4. CASE PollExisting(r) BY <1>1, <1>3, <1>4 DEF PollExisting, OpsInv, OpsTypes
<1>5. CASE PollError(r) BY <1>1, <1>3, <1>5 DEF PollError, OpsInv, OpsTypes
<1>6. CASE PollRejected(r)
  <2>1. /\ ledger' \in Seq(LedgerRecords) /\ Len(ledger') <= LedgerCapacity
        /\ audit' \in [Ids -> Seq(OpPhases)]
        /\ task' \in {"running", "AuditUnavailable"}
        /\ task' = "running" => LedgerTold(ledger', audit') /\ ActiveRuns(ledger', active)
    BY <1>3, <1>6, RegisteredKeeps DEF PollRejected
  <2>2. active' = active BY <1>6 DEF PollRejected
  <2> QED BY <1>1, <1>3, <2>1, <2>2 DEF OpsInv, OpsTypes
<1>7. CASE PollStarted(r)
  <2> DEFINE phases == IF r.kind = "ReadStatus" THEN <<"Running", "Succeeded">> ELSE <<"Running">>
  <2>1. /\ Audited(Register(r), r.id, <<"Accepted">>, phases)
        /\ ~Known(r.id) /\ ~LedgerFull /\ active = NoRequest
        /\ active' = IF r.kind # "ReadStatus" /\ task' = task THEN r ELSE active
    BY <1>7 DEF PollStarted
  <2>2. /\ phases \in {<<"Rejected">>, <<"Running">>, <<"Running", "Succeeded">>}
        /\ r.kind # "ReadStatus" => phases = <<"Running">>
    OBVIOUS
  <2> HIDE DEF phases
  <2>3. /\ ledger' \in Seq(LedgerRecords) /\ Len(ledger') <= LedgerCapacity
        /\ audit' \in [Ids -> Seq(OpPhases)]
        /\ task' \in {"running", "AuditUnavailable"}
        /\ task' = "running" =>
             /\ LedgerTold(ledger', audit') /\ ActiveRuns(ledger', active)
             /\ phases = <<"Running">> => ActiveRuns(ledger', r)
    BY <1>3, <2>1, <2>2, RegisteredKeeps
  <2> QED BY <1>1, <1>3, <2>1, <2>2, <2>3 DEF OpsInv, OpsTypes
<1> QED BY <1>2, <1>4, <1>5, <1>6, <1>7
------------------------
(* The works of the agent. *)

(* The nodes of the channel, by position and by name. *)
LEMMA NodeFacts ==
  /\ Len(Nodes) \in Nat /\ DOMAIN Nodes = 1 .. Len(Nodes)
  /\ \A i \in DOMAIN Nodes : Nodes[i] \in NodeSet
  /\ \A n \in NodeSet : \E i \in DOMAIN Nodes : Nodes[i] = n
  /\ NodeSet # {}
<1>1. Nodes \in Seq(STRING) /\ Nodes # <<>> BY WorkerAssumption
<1>2. Len(Nodes) \in Nat /\ DOMAIN Nodes = 1 .. Len(Nodes) BY <1>1
<1>3. NodeSet = {Nodes[i] : i \in DOMAIN Nodes} BY DEF NodeSet, Range
<1>4. 1 \in DOMAIN Nodes BY <1>1, EmptySeq
<1> QED BY <1>2, <1>3, <1>4

(* What tells the works and the dispatches apart. *)
LEMMA WorkFacts ==
  /\ None \notin Works /\ "recovery" \notin Works /\ "control" \notin Works
  /\ NoDispatch.kind = None /\ NoDispatch \in DispatchType
  /\ \A x \in DispatchType : x = NoDispatch <=> x.kind = None
  /\ \A x \in WorkType : x.kind # "control" => x \in DispatchType /\ x.kind \in Works /\ x.node \in NodeSet
  /\ \A n \in NodeSet \cup {None} : Control(n) \in WorkType /\ Control(n).kind = "control"
  /\ NoDrain \notin SUBSET DOMAIN Nodes
<1>1. /\ None \notin Works /\ "recovery" \notin Works /\ "control" \notin Works
  BY WorkerAssumption DEF None
<1>2. /\ NoDispatch.kind = None /\ NoDispatch \in DispatchType
      /\ \A x \in DispatchType : x = NoDispatch <=> x.kind = None
  BY <1>1 DEF NoDispatch, DispatchType, None
<1>3. \A x \in WorkType : x.kind # "control" => x \in DispatchType /\ x.kind \in Works /\ x.node \in NodeSet
  BY DEF WorkType, DispatchType
<1>4. \A n \in NodeSet \cup {None} : Control(n) \in WorkType /\ Control(n).kind = "control"
  BY DEF WorkType, Control
<1>5. NoDrain \notin SUBSET DOMAIN Nodes
  <2>1. 0 \notin DOMAIN Nodes BY NodeFacts
  <2> QED BY <2>1 DEF NoDrain
<1> QED BY <1>1, <1>2, <1>3, <1>4, <1>5

(* The works b are some of the works a, each once. *)
Part(b, a) ==
  \E f \in [DOMAIN b -> DOMAIN a] :
    /\ \A i \in DOMAIN b : b[i] = a[f[i]]
    /\ \A i, k \in DOMAIN b : f[i] = f[k] => i = k

(* An agent that holds less still holds what is dispatched. *)
LEMMA PartKeeps ==
  ASSUME NEW a, NEW b, Part(b, a)
  PROVE  /\ \A c, d : Dispatched(c, a, d) => Dispatched(c, b, d)
         /\ OneControl(a) => OneControl(b)
         /\ NoControl(a) => NoControl(b)
<1>1. PICK f \in [DOMAIN b -> DOMAIN a] :
        /\ \A i \in DOMAIN b : b[i] = a[f[i]]
        /\ \A i, k \in DOMAIN b : f[i] = f[k] => i = k
  BY DEF Part
<1>2. \A i \in DOMAIN b : f[i] \in DOMAIN a BY <1>1
<1>3. ASSUME NEW c, NEW d, Dispatched(c, a, d) PROVE Dispatched(c, b, d)
  <2>1. ASSUME NEW i \in DOMAIN b, b[i].kind # "control"
        PROVE  /\ b[i] = c.dispatch /\ ~c.pending
               /\ b[i].kind = "measurement" => d = None
               /\ \A k \in DOMAIN b : b[k].kind # "control" => i = k
    <3>1. f[i] \in DOMAIN a /\ b[i] = a[f[i]] BY <1>1, <1>2
    <3>2. /\ a[f[i]] = c.dispatch /\ ~c.pending
          /\ a[f[i]].kind = "measurement" => d = None
          /\ \A k \in DOMAIN a : a[k].kind # "control" => f[i] = k
      BY <1>3, <2>1, <3>1 DEF Dispatched
    <3>3. ASSUME NEW k \in DOMAIN b, b[k].kind # "control" PROVE i = k
      BY <1>1, <1>2, <3>2, <3>3
    <3> QED BY <3>1, <3>2, <3>3
  <2> QED BY <1>3, <2>1 DEF Dispatched
<1>4. OneControl(a) => OneControl(b) BY <1>1, <1>2 DEF OneControl
<1>5. NoControl(a) => NoControl(b) BY <1>1, <1>2 DEF NoControl
<1> QED BY <1>3, <1>4, <1>5

(* The head of the works ends. *)
LEMMA HeadEnds ==
  ASSUME NEW a \in Seq(WorkType), a # <<>>
  PROVE  /\ Tail(a) \in Seq(WorkType) /\ Part(Tail(a), a)
         /\ Head(a) \in WorkType /\ 1 \in DOMAIN a /\ Head(a) = a[1]
         /\ OneControl(a) /\ Head(a).kind = "control" => NoControl(Tail(a))
         /\ \A c, d, e : /\ Dispatched(c, a, d) /\ Head(a).kind = "measurement"
                         /\ c.dispatch = Head(a) /\ ~c.pending
                         => Dispatched(c, Tail(a), e)
<1> DEFINE b == Tail(a)
           f == [i \in DOMAIN b |-> i + 1]
<1>1. Len(a) \in Nat /\ Len(a) >= 1 /\ DOMAIN a = 1 .. Len(a) BY EmptySeq
<1>2. /\ Head(a) \in WorkType /\ Head(a) = a[1] /\ b \in Seq(WorkType)
      /\ Len(b) = Len(a) - 1 /\ \A i \in 1 .. Len(b) : b[i] = a[i + 1]
  BY HeadTailProperties
<1>3. DOMAIN b = 1 .. (Len(a) - 1) BY <1>2
<1> HIDE DEF b
<1>4. /\ \A i \in DOMAIN b : i + 1 \in DOMAIN a /\ b[i] = a[i + 1] /\ i + 1 # 1
      /\ \A i, k \in DOMAIN b : i + 1 = k + 1 => i = k
  BY <1>1, <1>2, <1>3
<1>5. /\ f \in [DOMAIN b -> DOMAIN a]
      /\ \A i \in DOMAIN b : b[i] = a[f[i]]
      /\ \A i, k \in DOMAIN b : f[i] = f[k] => i = k
  BY <1>4
<1>6. Part(b, a) BY <1>5, Zenon DEF Part
<1>7. ASSUME OneControl(a), Head(a).kind = "control" PROVE NoControl(b)
  BY <1>1, <1>2, <1>4, <1>7 DEF OneControl, NoControl
<1>8. ASSUME NEW c, NEW d, NEW e, Dispatched(c, a, d), Head(a).kind = "measurement",
             c.dispatch = Head(a), ~c.pending
      PROVE  Dispatched(c, b, e)
  <2>1. \A i \in DOMAIN b : b[i].kind = "control"
    BY <1>1, <1>2, <1>4, <1>8 DEF Dispatched
  <2> QED BY <1>8, <2>1 DEF Dispatched
<1> QED BY <1>1, <1>2, <1>6, <1>7, <1>8 DEF b

(* A work is submitted. *)
LEMMA WorkAppended ==
  ASSUME NEW a \in Seq(WorkType), NEW w \in WorkType
  PROVE  LET b == Append(a, w)
         IN  /\ b \in Seq(WorkType) /\ DOMAIN b = DOMAIN a \cup {Len(a) + 1}
             /\ Len(a) + 1 \notin DOMAIN a /\ b[Len(a) + 1] = w
             /\ \A i \in DOMAIN a : b[i] = a[i]
<1> DEFINE b == Append(a, w)
<1>1. Len(a) \in Nat /\ DOMAIN a = 1 .. Len(a) OBVIOUS
<1>2. /\ b \in Seq(WorkType) /\ Len(b) = Len(a) + 1
      /\ \A i \in 1 .. Len(a) : b[i] = a[i]
      /\ b[Len(a) + 1] = w
  BY AppendProperties
<1>3. DOMAIN b = 1 .. (Len(a) + 1) BY <1>2
<1> HIDE DEF b
<1> QED BY <1>1, <1>2, <1>3 DEF b

(* A control work queues behind whatever the agent holds. *)
LEMMA ControlSubmitted ==
  ASSUME NEW a \in Seq(WorkType), NEW n \in NodeSet \cup {None}
  PROVE  LET b == Append(a, Control(n))
         IN  /\ b \in Seq(WorkType)
             /\ \A c, d : Dispatched(c, a, d) => Dispatched(c, b, d)
             /\ NoControl(a) => OneControl(b)
<1> DEFINE b == Append(a, Control(n))
<1>1. Control(n) \in WorkType /\ Control(n).kind = "control" BY WorkFacts
<1>2. /\ b \in Seq(WorkType) /\ DOMAIN b = DOMAIN a \cup {Len(a) + 1}
      /\ Len(a) + 1 \notin DOMAIN a /\ b[Len(a) + 1] = Control(n)
      /\ \A i \in DOMAIN a : b[i] = a[i]
  BY <1>1, WorkAppended
<1> HIDE DEF b
<1>3. \A i \in DOMAIN b : b[i].kind # "control" => i \in DOMAIN a /\ b[i] = a[i]
  BY <1>1, <1>2
<1>4. ASSUME NEW c, NEW d, Dispatched(c, a, d) PROVE Dispatched(c, b, d)
  BY <1>3, <1>4 DEF Dispatched
<1>5. ASSUME NoControl(a) PROVE OneControl(b) BY <1>2, <1>5 DEF NoControl, OneControl
<1> QED BY <1>2, <1>4, <1>5 DEF b

(* abandon_control_work. *)
LEMMA Abandoned ==
  ASSUME LoopTypes, Abandon
  PROVE  /\ agent' \in Seq(WorkType)
         /\ UNCHANGED <<coord, recovering, flight, done, world>>
         /\ \A c, d : Dispatched(c, agent, d) => Dispatched(c, agent', d)
         /\ OneControl(agent) => OneControl(agent') /\ NoControl(agent')
<1> DEFINE Controls == {i \in DOMAIN agent : agent[i].kind = "control"}
<1>1. agent \in Seq(WorkType) /\ Len(agent) \in Nat /\ DOMAIN agent = 1 .. Len(agent)
  BY DEF LoopTypes
<1>2. /\ agent' = IF Controls = {} THEN agent ELSE RemoveAt(agent, Oldest(Controls))
      /\ UNCHANGED <<coord, recovering, flight, done, world>>
  BY DEF Abandon
<1>3. CASE Controls = {}
  <2>1. agent' = agent BY <1>2, <1>3
  <2>2. NoControl(agent) BY <1>3 DEF NoControl
  <2> QED BY <1>1, <1>2, <2>1, <2>2
<1>4. CASE Controls # {}
  <2> DEFINE x == Oldest(Controls)
  <2>1. x \in Controls
    <3>1. Controls \in SUBSET Nat BY <1>1
    <3> QED BY <1>4, <3>1, OldestExists
  <2>2. x \in 1 .. Len(agent) /\ agent[x].kind = "control" BY <1>1, <2>1
  <2>3. agent' = RemoveAt(agent, x) BY <1>2, <1>4
  <2> HIDE DEF x, Controls
  <2>4. /\ agent' \in Seq(WorkType) /\ DOMAIN agent' = 1 .. (Len(agent) - 1)
        /\ \A i \in 1 .. (Len(agent) - 1) : agent'[i] = IF i < x THEN agent[i] ELSE agent[i + 1]
    BY <1>1, <2>2, <2>3, Removed
  <2> DEFINE f == [i \in DOMAIN agent' |-> IF i < x THEN i ELSE i + 1]
  <2>5. /\ f \in [DOMAIN agent' -> DOMAIN agent]
        /\ \A i \in DOMAIN agent' : agent'[i] = agent[f[i]] /\ f[i] # x
        /\ \A i, k \in DOMAIN agent' : f[i] = f[k] => i = k
    BY <1>1, <2>2, <2>4
  <2> HIDE DEF f
  <2>6. Part(agent', agent) BY <2>5, Zenon DEF Part
  <2>7. OneControl(agent) => NoControl(agent')
    <3>1. \A i \in DOMAIN agent' : f[i] \in DOMAIN agent BY <2>5
    <3> QED BY <1>1, <2>2, <2>5, <3>1 DEF OneControl, NoControl
  <2> QED BY <1>2, <2>4, <2>6, <2>7, PartKeeps
<1> QED BY <1>3, <1>4
------------------------
(* The recording loop. *)

OnlyControl(a) == \A i \in DOMAIN a : a[i].kind = "control"
(* A node that stops stays stopped, and one that is drained stays drained. *)
Settled(w, v) ==
  \A n \in NodeSet : v[n].state = w[n].state /\ (w[n].tail = 0 => v[n].tail = 0)

(* The dispatch of a drain is the measurement of the first node left. *)
DrainDispatch(c) ==
  c.drain # NoDrain /\ c.dispatch # NoDispatch =>
    /\ c.dispatch.kind = "measurement"
    /\ c.drain # {} /\ c.dispatch.node = Nodes[Oldest(c.drain)]

(* An agent that holds no scheduled work has none dispatched. *)
LEMMA NothingDispatched ==
  ASSUME NEW c, NEW a, OnlyControl(a), c.pending => c.dispatch.kind = "measurement", DrainDispatch(c)
  PROVE  Dispatched(c, a, None)
  BY DEF OnlyControl, Dispatched, DrainDispatch

(* The tail of a node gets shorter. *)
LEMMA SampleTaken ==
  ASSUME world \in [NodeSet -> WorldType], NEW n \in NodeSet, world[n].tail > 0
  PROVE  LET v == [world EXCEPT ![n].tail = @ - 1]
         IN  v \in [NodeSet -> WorldType] /\ Settled(world, v)
<1> DEFINE v == [world EXCEPT ![n].tail = @ - 1]
<1>1. \A m \in NodeSet : world[m] \in WorldType OBVIOUS
<1>2. v \in [NodeSet -> WorldType] BY <1>1 DEF WorldType
<1>3. ASSUME NEW m \in NodeSet
      PROVE  v[m].state = world[m].state /\ (world[m].tail = 0 => v[m].tail = 0)
  BY <1>1 DEF WorldType
<1> QED BY <1>2, <1>3 DEF Settled

(* A measurement ends: it was the one dispatched. *)
LEMMA MeasurementEnds ==
  ASSUME LoopTypes, Dispatched(coord, agent, done), NEW ev, EndsMeasurement(ev)
  PROVE  /\ agent' \in Seq(WorkType) /\ flight' = FALSE /\ Part(agent', agent)
         /\ world' \in [NodeSet -> WorldType] /\ Settled(world, world')
         /\ done = None /\ ev \in {"data", "nodata", "recovery", "exhausted"}
         /\ coord.dispatch.kind = "measurement" /\ coord.dispatch.node \in NodeSet
         /\ ~coord.pending /\ OnlyControl(agent')
         /\ \A e : Dispatched(coord, agent', e)
         /\ ev = "nodata" => world[coord.dispatch.node].tail = 0
         /\ ev # "data" => world' = world
<1>1. /\ done = None /\ agent # <<>> /\ agent' = Tail(agent) /\ flight' = FALSE
      /\ Head(agent).kind = "measurement"
      /\ ev \in {"data", "nodata", "recovery", "exhausted"}
      /\ ev \in {"data", "nodata"} => ((ev = "data") <=> (world[Head(agent).node].tail > 0))
      /\ world' = IF ev = "data" THEN [world EXCEPT ![Head(agent).node].tail = @ - 1] ELSE world
  BY DEF EndsMeasurement
<1>2. agent \in Seq(WorkType) /\ world \in [NodeSet -> WorldType] BY DEF LoopTypes
<1>3. /\ agent' \in Seq(WorkType) /\ Part(agent', agent)
      /\ Head(agent) \in WorkType /\ 1 \in DOMAIN agent /\ Head(agent) = agent[1]
      /\ \A c, d, e : /\ Dispatched(c, agent, d) /\ Head(agent).kind = "measurement"
                      /\ c.dispatch = Head(agent) /\ ~c.pending
                      => Dispatched(c, agent', e)
  BY <1>1, <1>2, HeadEnds
<1>4. coord.dispatch = Head(agent) /\ ~coord.pending BY <1>1, <1>3 DEF Dispatched
<1>5. Head(agent).node \in NodeSet BY <1>1, <1>3, WorkFacts
<1>6. \A e : Dispatched(coord, agent', e) BY <1>1, <1>3, <1>4
<1>7. OnlyControl(agent')
  <2>1. Dispatched(coord, agent', "data") BY <1>6
  <2>2. "data" # None BY DEF None
  <2> QED BY <1>1, <1>4, <2>1, <2>2 DEF Dispatched, OnlyControl
<1>8. ev = "nodata" => world[Head(agent).node].tail = 0
  <2>1. world[Head(agent).node] \in WorldType BY <1>2, <1>5
  <2> QED BY <1>1, <2>1 DEF WorldType
<1>9. world' \in [NodeSet -> WorldType] /\ Settled(world, world')
  <2>1. CASE ev = "data" BY <1>1, <1>2, <1>5, <2>1, SampleTaken
  <2>2. CASE ev # "data" BY <1>1, <1>2, <2>2 DEF Settled
  <2> QED BY <2>1, <2>2
<1> QED BY <1>1, <1>3, <1>4, <1>5, <1>6, <1>7, <1>8, <1>9

(* What ChannelEndpoint::step leaves, whatever its event. *)
LEMMA EndpointKeeps ==
  ASSUME LoopTypes, Dispatched(coord, agent, done), NEW ev, Endpoint(ev)
  PROVE  /\ agent' \in Seq(WorkType) /\ flight' \in BOOLEAN
         /\ done' \in {None, "data", "nodata", "recovery", "exhausted"}
         /\ world' \in [NodeSet -> WorldType] /\ Settled(world, world')
         /\ Dispatched(coord, agent', done')
         /\ OneControl(agent) => OneControl(agent')
         /\ NoControl(agent) => NoControl(agent')
         /\ ev = "reply" /\ OneControl(agent) => NoControl(agent')
         /\ ev \in {"time", "telemetry"} =>
              /\ OnlyControl(agent') /\ done' = None /\ ~coord.pending
<1> DEFINE Stays ==
         /\ UNCHANGED <<agent, done, world>> /\ flight' \in BOOLEAN
         /\ ev \notin {"reply", "time", "telemetry"}
       OtherEnds ==
         /\ done = None /\ agent # <<>> /\ flight
         /\ flight' = FALSE /\ agent' = Tail(agent)
         /\ Head(agent).kind # "measurement"
         /\ ev = IF Head(agent).kind = "control" THEN "reply" ELSE Head(agent).kind
         /\ UNCHANGED <<done, world>>
<1>1. /\ agent \in Seq(WorkType) /\ flight \in BOOLEAN /\ world \in [NodeSet -> WorldType]
      /\ done \in {None, "data", "nodata", "recovery", "exhausted"} /\ Settled(world, world)
  BY DEF LoopTypes, Settled
<1>2. CASE Stays BY <1>1, <1>2
<1>3. CASE EndsMeasurement(ev) /\ done' = ev
  <2>1. /\ agent' \in Seq(WorkType) /\ flight' = FALSE /\ Part(agent', agent)
        /\ world' \in [NodeSet -> WorldType] /\ Settled(world, world')
        /\ ev \in {"data", "nodata", "recovery", "exhausted"}
        /\ Dispatched(coord, agent', done')
    BY <1>3, MeasurementEnds
  <2>2. /\ OneControl(agent) => OneControl(agent')
        /\ NoControl(agent) => NoControl(agent')
    BY <2>1, PartKeeps
  <2> QED BY <1>3, <2>1, <2>2
<1>4. CASE OtherEnds
  <2>1. /\ agent' \in Seq(WorkType) /\ Part(agent', agent)
        /\ Head(agent) \in WorkType /\ 1 \in DOMAIN agent /\ Head(agent) = agent[1]
        /\ OneControl(agent) /\ Head(agent).kind = "control" => NoControl(agent')
    BY <1>1, <1>4, HeadEnds
  <2>2. /\ Dispatched(coord, agent', done')
        /\ OneControl(agent) => OneControl(agent')
        /\ NoControl(agent) => NoControl(agent')
    BY <1>4, <2>1, PartKeeps
  <2>3. ev = "reply" /\ OneControl(agent) => NoControl(agent')
    <3>1. Head(agent).kind # "control" => Head(agent).kind \in {"measurement", "time", "telemetry"}
      BY <2>1, WorkFacts, WorkerAssumption
    <3> QED BY <1>4, <2>1, <3>1
  <2>4. ASSUME ev \in {"time", "telemetry"}
        PROVE  OnlyControl(agent') /\ done' = None /\ ~coord.pending
    <3>1. Head(agent).kind # "control" /\ Head(agent).kind = ev BY <1>4, <2>4
    <3>2. /\ coord.dispatch = agent[1] /\ ~coord.pending
          /\ \A k \in DOMAIN agent : agent[k].kind # "control" => 1 = k
      BY <2>1, <3>1 DEF Dispatched
    <3>3. OnlyControl(agent')
      <4>1. Len(agent) \in Nat /\ DOMAIN agent = 1 .. Len(agent) BY <1>1
      <4>2. Len(agent') = Len(agent) - 1 /\ \A i \in 1 .. Len(agent') : agent'[i] = agent[i + 1]
        BY <1>1, <1>4, HeadTailProperties
      <4>3. DOMAIN agent' = 1 .. (Len(agent) - 1) BY <2>1, <4>2
      <4>4. \A i \in DOMAIN agent' : i + 1 \in DOMAIN agent /\ i + 1 # 1 BY <4>1, <4>3
      <4> QED BY <3>2, <4>2, <4>3, <4>4 DEF OnlyControl
    <3> QED BY <1>4, <3>2, <3>3
  <2> QED BY <1>1, <1>4, <2>1, <2>2, <2>3, <2>4
<1>5. Stays \/ (EndsMeasurement(ev) /\ done' = ev) \/ OtherEnds
  BY <1>1 DEF Endpoint, Ends
<1> HIDE DEF Stays, OtherEnds
<1> QED BY <1>2, <1>3, <1>4, <1>5

(* What one call of the recording loop keeps, when it returns e. *)
LoopKept(e) ==
  /\ LoopTypes' /\ Dispatched(coord', agent', done')
  /\ coord'.quiescing = coord.quiescing /\ (Draining' <=> Draining)
  /\ OneControl(agent) => OneControl(agent')
  /\ NoControl(agent) => NoControl(agent')
  /\ e \in {"ok", "recovery", "port", "storage", "UnexpectedSessionPhase"}
  /\ e = "recovery" =>
       /\ ~coord.quiescing /\ ~Draining
       /\ coord'.dispatch.node \in NodeSet
       /\ coord'.dispatch = [kind |-> "recovery", node |-> coord'.dispatch.node]
  /\ coord.dispatch.kind = "recovery" => coord'.dispatch = coord.dispatch
  /\ \A n \in NodeSet : world'[n].state = world[n].state
  /\ Draining /\ DrainedBut(world, recovering, coord.drain) =>
       DrainedBut(world', recovering', coord'.drain)

(* What is drained stays drained, whoever else needs recovery. *)
LEMMA DrainedStays ==
  ASSUME NEW v, NEW w, NEW r, NEW s, NEW d, Settled(w, v), r \subseteq s, DrainedBut(w, r, d)
  PROVE  DrainedBut(v, s, d)
  BY NodeFacts DEF Settled, DrainedBut

(* A commit of the storage completes. *)
LEMMA CompletionKeeps ==
  ASSUME LoopTypes, Dispatched(coord, agent, done), NEW e, Completion(e)
  PROVE  LoopKept(e)
<1>1. UNCHANGED <<recovering, agent, flight, done, world>> /\ e \in {"ok", "storage"}
  BY DEF Completion
<1>2. /\ coord' \in CoordType /\ coord'.quiescing = coord.quiescing
      /\ coord'.drain = coord.drain /\ coord'.dispatch = coord.dispatch
      /\ coord'.pending = coord.pending
  <2>1. coord \in CoordType BY DEF LoopTypes
  <2>2. CASE UNCHANGED coord BY <2>1, <2>2
  <2>3. CASE \E n \in coord.writes : coord' = [coord EXCEPT !.writes = @ \ {n}]
    BY <2>1, <2>3 DEF CoordType
  <2> QED BY <2>2, <2>3 DEF Completion
<1>3. LoopTypes' BY <1>1, <1>2 DEF LoopTypes
<1>4. Dispatched(coord', agent', done') BY <1>1, <1>2 DEF Dispatched
<1> QED BY <1>1, <1>2, <1>3, <1>4 DEF LoopKept, Draining

(* handoff_completed, of the measurement that was dispatched. *)
LEMMA HandoffKeeps ==
  ASSUME coord \in CoordType, coord.dispatch.kind = "measurement", DrainDispatch(coord),
         NEW c \in Handoff(coord), NEW a, OnlyControl(a)
  PROVE  /\ c \in CoordType /\ Dispatched(c, a, None)
         /\ c.quiescing = coord.quiescing /\ c.drain = coord.drain
<1>1. coord.dispatch \in DispatchType /\ coord.dispatch.node \in NodeSet
  BY DEF CoordType, DispatchType, NoDispatch, None
<1>2. CASE c = [coord EXCEPT !.dispatch = NoDispatch, !.pending = FALSE,
                             !.writes = @ \cup {coord.dispatch.node}]
  <2>1. /\ c \in CoordType /\ c.quiescing = coord.quiescing /\ c.drain = coord.drain
        /\ c.dispatch = NoDispatch /\ c.pending = FALSE
    BY <1>1, <1>2, WorkFacts DEF CoordType
  <2>2. DrainDispatch(c) BY <2>1 DEF DrainDispatch
  <2> QED BY <2>1, <2>2, NothingDispatched
<1>3. CASE c = [coord EXCEPT !.pending = TRUE]
  <2>1. /\ c \in CoordType /\ c.quiescing = coord.quiescing /\ c.drain = coord.drain
        /\ c.dispatch = coord.dispatch /\ c.pending = TRUE
    BY <1>3 DEF CoordType
  <2>2. DrainDispatch(c) BY <2>1 DEF DrainDispatch
  <2> QED BY <2>1, <2>2, NothingDispatched
<1> QED BY <1>2, <1>3 DEF Handoff

(* A refused hand-off to the storage is tried again. *)
LEMMA RetryKeeps ==
  ASSUME LoopTypes, Dispatched(coord, agent, done), NEW e, RetryHandoff(e)
  PROVE  LoopKept(e)
<1>1. /\ coord.pending /\ e = "ok" /\ coord' \in Handoff(coord)
      /\ UNCHANGED <<recovering, agent, flight, done, world>>
  BY DEF RetryHandoff
<1>2. /\ coord.dispatch.kind = "measurement" /\ DrainDispatch(coord)
      /\ OnlyControl(agent) /\ done = None
  BY <1>1 DEF Dispatched, DrainDispatch, OnlyControl
<1>3. /\ coord' \in CoordType /\ Dispatched(coord', agent, None)
      /\ coord'.quiescing = coord.quiescing /\ coord'.drain = coord.drain
  BY <1>1, <1>2, HandoffKeeps DEF LoopTypes
<1>4. LoopTypes' BY <1>1, <1>3 DEF LoopTypes
<1> QED BY <1>1, <1>2, <1>3, <1>4 DEF LoopKept, Draining

(* A node is picked and its work dispatched. *)
LEMMA DispatchKeeps ==
  ASSUME LoopTypes, Dispatched(coord, agent, done), NEW e, Dispatch(e)
  PROVE  LoopKept(e)
<1>1. PICK n \in NodeSet \ coord.writes, kind \in Works \cup {"recovery"} :
        /\ IF Draining
           THEN coord.drain # {} /\ n = Nodes[Oldest(coord.drain)]
                /\ kind = "measurement" /\ n \notin recovering
           ELSE ~coord.quiescing /\ ((kind = "recovery") <=> (n \in recovering))
        /\ coord' = [coord EXCEPT !.dispatch = [kind |-> kind, node |-> n]]
        /\ e = IF kind = "recovery" THEN "recovery" ELSE "ok"
        /\ IF kind = "recovery" THEN UNCHANGED <<agent, flight>>
           ELSE /\ agent' = Append(agent, [kind |-> kind, node |-> n])
                /\ flight' = TRUE
  BY DEF Dispatch
<1>2. coord.dispatch = NoDispatch /\ ~coord.pending /\ UNCHANGED <<recovering, done, world>>
  BY DEF Dispatch
<1>3. coord \in CoordType /\ agent \in Seq(WorkType) BY DEF LoopTypes
<1> DEFINE w == [kind |-> kind, node |-> n]
<1>4. w \in DispatchType /\ w # NoDispatch /\ w.kind = kind /\ w.node = n
  <2>1. kind # None BY WorkFacts DEF None
  <2> QED BY <2>1 DEF DispatchType, NoDispatch
<1>5. coord' = [coord EXCEPT !.dispatch = w] BY <1>1
<1>12. kind # "recovery" => w \in WorkType /\ w.kind # "control" /\ w.kind \in Works
  BY WorkFacts DEF WorkType
<1>13. kind # "recovery" => agent' = Append(agent, w) BY <1>1
<1> HIDE DEF w
<1>6. /\ coord' \in CoordType /\ coord'.quiescing = coord.quiescing /\ coord'.drain = coord.drain
      /\ coord'.dispatch = w /\ coord'.pending = FALSE
  BY <1>2, <1>3, <1>4, <1>5 DEF CoordType
<1>7. OnlyControl(agent) /\ done = None
  <2>1. \A i \in DOMAIN agent : agent[i] \in WorkType BY <1>3
  <2>2. coord.dispatch.kind = None /\ "measurement" # None BY <1>2, WorkFacts DEF None
  <2> QED BY <1>2, <2>1, <2>2, WorkFacts DEF Dispatched, OnlyControl
<1>8. DrainDispatch(coord') BY <1>1, <1>4, <1>6 DEF DrainDispatch, Draining
<1>9. /\ agent' \in Seq(WorkType) /\ flight' \in BOOLEAN
      /\ Dispatched(coord', agent', done')
      /\ OneControl(agent) => OneControl(agent')
      /\ NoControl(agent) => NoControl(agent')
  <2>1. CASE kind = "recovery"
    <3>1. UNCHANGED <<agent, flight>> /\ flight \in BOOLEAN BY <1>1, <2>1 DEF LoopTypes
    <3> QED BY <1>2, <1>3, <1>6, <1>7, <1>8, <3>1, NothingDispatched
  <2>2. CASE kind # "recovery"
    <3>1. /\ agent' \in Seq(WorkType) /\ DOMAIN agent' = DOMAIN agent \cup {Len(agent) + 1}
          /\ Len(agent) + 1 \notin DOMAIN agent /\ agent'[Len(agent) + 1] = w
          /\ \A i \in DOMAIN agent : agent'[i] = agent[i]
      BY <1>3, <1>12, <1>13, <2>2, WorkAppended
    <3>2. flight' = TRUE BY <1>1, <2>2
    <3>3. \A i \in DOMAIN agent' : agent'[i].kind # "control" => i = Len(agent) + 1
      BY <1>7, <3>1 DEF OnlyControl
    <3>4. Dispatched(coord', agent', done')
      <4>1. \A i \in DOMAIN agent' : agent'[i].kind # "control" =>
              /\ agent'[i] = coord'.dispatch /\ ~coord'.pending
              /\ done' = None
              /\ \A k \in DOMAIN agent' : agent'[k].kind # "control" => i = k
        BY <1>2, <1>6, <1>7, <3>1, <3>3
      <4> QED BY <1>2, <1>6, <1>7, <1>8, <4>1 DEF Dispatched, DrainDispatch
    <3>5. OneControl(agent) => OneControl(agent') BY <1>12, <2>2, <3>1 DEF OneControl
    <3>6. NoControl(agent) => NoControl(agent') BY <1>12, <2>2, <3>1 DEF NoControl
    <3> QED BY <3>1, <3>2, <3>4, <3>5, <3>6
  <2> QED BY <2>1, <2>2
<1>10. LoopTypes' BY <1>2, <1>6, <1>9 DEF LoopTypes
<1>11. e = "recovery" =>
         /\ ~coord.quiescing /\ ~Draining
         /\ coord'.dispatch.node \in NodeSet
         /\ coord'.dispatch = [kind |-> "recovery", node |-> coord'.dispatch.node]
  BY <1>1, <1>4, <1>6 DEF w
<1>14. coord.dispatch.kind # "recovery" BY <1>2, WorkFacts DEF None
<1> QED BY <1>1, <1>2, <1>6, <1>9, <1>10, <1>11, <1>14 DEF LoopKept, Draining

(* The endpoint steps, of time, telemetry or nothing. *)
LEMMA EventKeeps ==
  ASSUME LoopTypes, Dispatched(coord, agent, done), NEW e, RecordingEvent(e)
  PROVE  LoopKept(e)
<1>1. PICK ev \in {"waiting", "sent", "timeout", "error", "time", "telemetry", "reply"} :
        /\ Endpoint(ev)
        /\ e = IF ev = "error" THEN "port" ELSE "ok"
        /\ coord' = IF ev \in {"time", "telemetry"} /\ coord.dispatch.kind = ev
                    THEN [coord EXCEPT !.dispatch = NoDispatch] ELSE coord
  BY DEF RecordingEvent
<1>2. ~coord.pending /\ UNCHANGED recovering BY DEF RecordingEvent
<1>3. /\ agent' \in Seq(WorkType) /\ flight' \in BOOLEAN
      /\ done' \in {None, "data", "nodata", "recovery", "exhausted"}
      /\ world' \in [NodeSet -> WorldType] /\ Settled(world, world')
      /\ Dispatched(coord, agent', done')
      /\ OneControl(agent) => OneControl(agent')
      /\ NoControl(agent) => NoControl(agent')
      /\ ev \in {"time", "telemetry"} => OnlyControl(agent') /\ done' = None
  BY <1>1, EndpointKeeps
<1>4. coord \in CoordType /\ recovering \subseteq NodeSet BY DEF LoopTypes
<1>5. /\ coord' \in CoordType /\ coord'.quiescing = coord.quiescing
      /\ coord'.drain = coord.drain /\ Dispatched(coord', agent', done')
      /\ coord.dispatch.kind = "recovery" => coord'.dispatch = coord.dispatch
  <2>1. CASE coord' = coord BY <1>3, <1>4, <2>1
  <2>2. CASE /\ ev \in {"time", "telemetry"} /\ coord.dispatch.kind = ev
             /\ coord' = [coord EXCEPT !.dispatch = NoDispatch]
    <3>1. /\ coord' \in CoordType /\ coord'.quiescing = coord.quiescing
          /\ coord'.drain = coord.drain /\ coord'.dispatch = NoDispatch
          /\ coord'.pending = coord.pending
      BY <1>4, <2>2, WorkFacts DEF CoordType
    <3>2. DrainDispatch(coord') BY <3>1 DEF DrainDispatch
    <3>3. Dispatched(coord', agent', None)
      BY <1>2, <1>3, <2>2, <3>1, <3>2, NothingDispatched
    <3> QED BY <1>3, <2>2, <3>1, <3>3
  <2> QED BY <1>1, <2>1, <2>2
<1>6. LoopTypes' BY <1>2, <1>3, <1>4, <1>5 DEF LoopTypes
<1>7. Draining /\ DrainedBut(world, recovering, coord.drain) =>
        DrainedBut(world', recovering', coord'.drain)
  BY <1>2, <1>3, <1>5, DrainedStays
<1>8. \A n \in NodeSet : world'[n].state = world[n].state BY <1>3 DEF Settled
<1> QED BY <1>1, <1>3, <1>5, <1>6, <1>7, <1>8 DEF LoopKept, Draining

(* settle_completed, of a measurement that brought no record. *)
LEMMA SettleKeeps ==
  ASSUME coord \in CoordType, DrainDispatch(coord), coord.dispatch.kind = "measurement",
         ~coord.pending, NEW outcome
  PROVE  LET c == Settle(coord, outcome)
         IN  /\ c \in CoordType /\ c.quiescing = coord.quiescing
             /\ c.dispatch = NoDispatch /\ c.pending = FALSE
             /\ (c.drain = NoDrain) <=> (coord.drain = NoDrain)
             /\ c.drain # coord.drain =>
                  /\ outcome = "nodata" /\ coord.drain # NoDrain
                  /\ coord.dispatch.node = Nodes[Oldest(coord.drain)]
                  /\ c.drain = coord.drain \ {Oldest(coord.drain)}
<1> DEFINE c == Settle(coord, outcome)
           d == IF outcome = "nodata" /\ coord.drain # NoDrain
                THEN coord.drain \ {Oldest(coord.drain)} ELSE coord.drain
<1>1. c = [coord EXCEPT !.dispatch = NoDispatch, !.drain = d] BY DEF Settle, CoordType
<1>2. d \in (SUBSET DOMAIN Nodes) \cup {NoDrain} BY DEF CoordType
<1>3. (d = NoDrain) <=> (coord.drain = NoDrain)
  <2>1. coord.drain \in (SUBSET DOMAIN Nodes) \cup {NoDrain} BY DEF CoordType
  <2>2. ASSUME coord.drain # NoDrain PROVE d \in SUBSET DOMAIN Nodes
    <3>1. coord.drain \subseteq DOMAIN Nodes BY <2>1, <2>2, Zenon
    <3>2. coord.drain \ {Oldest(coord.drain)} \subseteq DOMAIN Nodes BY <3>1, Zenon
    <3> QED BY <3>1, <3>2
  <2>3. coord.drain = NoDrain => d = NoDrain OBVIOUS
  <2> HIDE DEF d
  <2> QED BY <2>2, <2>3, WorkFacts
<1>4. d # coord.drain =>
        /\ outcome = "nodata" /\ coord.drain # NoDrain
        /\ coord.dispatch.node = Nodes[Oldest(coord.drain)]
        /\ d = coord.drain \ {Oldest(coord.drain)}
  <2>1. coord.dispatch # NoDispatch BY DEF NoDispatch, None
  <2> QED BY <2>1 DEF DrainDispatch
<1> HIDE DEF d, c
<1>5. /\ c \in CoordType /\ c.quiescing = coord.quiescing
      /\ c.dispatch = NoDispatch /\ c.pending = FALSE /\ c.drain = d
  BY <1>1, <1>2, WorkFacts DEF CoordType
<1> QED BY <1>3, <1>4, <1>5 DEF c

(* A measurement is taken from the agent and settled. *)
LEMMA TakeKeeps ==
  ASSUME LoopTypes, Dispatched(coord, agent, done), NEW e, TakeMeasurement(e)
  PROVE  LoopKept(e)
<1>1. PICK ev \in {"handoff", "data", "nodata", "recovery", "exhausted"} :
        /\ \/ ev = "handoff" /\ done # None /\ UNCHANGED <<agent, flight, world>>
           \/ ev # "handoff" /\ EndsMeasurement(ev)
        /\ done' = None
        /\ LET outcome == IF ev = "handoff" THEN done ELSE ev IN
           CASE coord.dispatch = NoDispatch ->
                  e = "NoActiveDispatch" /\ UNCHANGED <<coord, recovering>>
             [] coord.dispatch # NoDispatch /\ outcome = "data" ->
                  e = "ok" /\ coord' \in Handoff(coord) /\ UNCHANGED recovering
             [] coord.dispatch # NoDispatch /\ outcome # "data" /\ ev = "handoff" ->
                  e = "UnexpectedSessionPhase" /\ UNCHANGED <<coord, recovering>>
             [] OTHER ->
                  /\ e = "ok" /\ coord' = Settle(coord, outcome)
                  /\ recovering' = IF outcome = "recovery"
                                   THEN recovering \cup {coord.dispatch.node}
                                   ELSE recovering
  BY DEF TakeMeasurement
<1> DEFINE outcome == IF ev = "handoff" THEN done ELSE ev
<1>2. /\ coord \in CoordType /\ recovering \subseteq NodeSet /\ agent \in Seq(WorkType)
      /\ flight \in BOOLEAN /\ world \in [NodeSet -> WorldType]
  BY DEF LoopTypes
<1>3. /\ agent' \in Seq(WorkType) /\ flight' \in BOOLEAN
      /\ world' \in [NodeSet -> WorldType] /\ Settled(world, world')
      /\ coord.dispatch.kind = "measurement" /\ ~coord.pending
      /\ OnlyControl(agent') /\ Dispatched(coord, agent', None)
      /\ OneControl(agent) => OneControl(agent')
      /\ NoControl(agent) => NoControl(agent')
      /\ ev = "nodata" => world' = world /\ world[coord.dispatch.node].tail = 0
  <2>1. CASE ev = "handoff" /\ done # None /\ UNCHANGED <<agent, flight, world>>
    <3>1. coord.dispatch.kind = "measurement" /\ ~coord.pending BY <2>1 DEF Dispatched
    <3>2. OnlyControl(agent) BY <2>1, <3>1 DEF Dispatched, OnlyControl
    <3>3. Dispatched(coord, agent, None)
      BY <3>1, <3>2, NothingDispatched DEF Dispatched, DrainDispatch
    <3>4. Settled(world, world) BY DEF Settled
    <3> QED BY <1>2, <2>1, <3>1, <3>2, <3>3, <3>4
  <2>2. CASE ev # "handoff" /\ EndsMeasurement(ev)
    <3>1. /\ agent' \in Seq(WorkType) /\ flight' = FALSE /\ Part(agent', agent)
          /\ world' \in [NodeSet -> WorldType] /\ Settled(world, world')
          /\ coord.dispatch.kind = "measurement"
          /\ ~coord.pending /\ OnlyControl(agent')
          /\ Dispatched(coord, agent', None)
          /\ ev = "nodata" => world[coord.dispatch.node].tail = 0
          /\ ev # "data" => world' = world
      BY <2>2, MeasurementEnds
    <3>2. /\ OneControl(agent) => OneControl(agent')
          /\ NoControl(agent) => NoControl(agent')
      BY <3>1, PartKeeps
    <3> QED BY <3>1, <3>2
  <2> QED BY <1>1, <2>1, <2>2
<1>4. /\ coord.dispatch # NoDispatch /\ DrainDispatch(coord)
      /\ coord.dispatch.node \in NodeSet
      /\ Draining /\ DrainedBut(world, recovering, coord.drain) =>
           \A s : recovering \subseteq s => DrainedBut(world', s, coord.drain)
  <2>1. coord.dispatch # NoDispatch BY <1>3 DEF NoDispatch, None
  <2>2. DrainDispatch(coord) BY DEF Dispatched, DrainDispatch
  <2>3. coord.dispatch.node \in NodeSet BY <1>2, <2>1 DEF CoordType, DispatchType
  <2>4. Draining /\ DrainedBut(world, recovering, coord.drain) =>
           \A s : recovering \subseteq s => DrainedBut(world', s, coord.drain)
    BY <1>3, DrainedStays
  <2> QED BY <2>1, <2>2, <2>3, <2>4
<1>5. CASE e = "ok" /\ coord' \in Handoff(coord) /\ UNCHANGED recovering
  <2>1. /\ coord' \in CoordType /\ Dispatched(coord', agent', None)
        /\ coord'.quiescing = coord.quiescing /\ coord'.drain = coord.drain
    BY <1>2, <1>3, <1>4, <1>5, HandoffKeeps
  <2>2. LoopTypes' /\ Dispatched(coord', agent', done')
    BY <1>1, <1>2, <1>3, <1>5, <2>1 DEF LoopTypes
  <2>3. \A n \in NodeSet : world'[n].state = world[n].state BY <1>3 DEF Settled
  <2>4. Draining' <=> Draining BY <2>1 DEF Draining
  <2>5. Draining /\ DrainedBut(world, recovering, coord.drain) =>
          DrainedBut(world', recovering', coord'.drain)
    BY <1>4, <1>5, <2>1
  <2> QED BY <1>3, <1>5, <2>1, <2>2, <2>3, <2>4, <2>5 DEF LoopKept
<1>6. CASE e = "UnexpectedSessionPhase" /\ UNCHANGED <<coord, recovering>>
  <2>1. LoopTypes' /\ Dispatched(coord', agent', done')
    BY <1>1, <1>2, <1>3, <1>6 DEF LoopTypes
  <2>2. \A n \in NodeSet : world'[n].state = world[n].state BY <1>3 DEF Settled
  <2>3. Draining /\ DrainedBut(world, recovering, coord.drain) =>
          DrainedBut(world', recovering', coord'.drain)
    BY <1>4, <1>6
  <2>4. Draining' <=> Draining BY <1>6 DEF Draining
  <2> QED BY <1>3, <1>6, <2>1, <2>2, <2>3, <2>4 DEF LoopKept
<1>7. CASE /\ e = "ok" /\ coord' = Settle(coord, outcome) /\ ev # "handoff"
           /\ recovering' = IF outcome = "recovery"
                            THEN recovering \cup {coord.dispatch.node}
                            ELSE recovering
  <2>1. /\ coord' \in CoordType /\ coord'.quiescing = coord.quiescing
        /\ coord'.dispatch = NoDispatch /\ coord'.pending = FALSE
        /\ (coord'.drain = NoDrain) <=> (coord.drain = NoDrain)
        /\ coord'.drain # coord.drain =>
             /\ outcome = "nodata" /\ coord.drain # NoDrain
             /\ coord.dispatch.node = Nodes[Oldest(coord.drain)]
             /\ coord'.drain = coord.drain \ {Oldest(coord.drain)}
    BY <1>2, <1>3, <1>4, <1>7, SettleKeeps
  <2>2. recovering \subseteq recovering' /\ recovering' \subseteq NodeSet
    BY <1>2, <1>4, <1>7
  <2>3. LoopTypes' BY <1>1, <1>2, <1>3, <2>1, <2>2 DEF LoopTypes
  <2>4. DrainDispatch(coord') BY <2>1 DEF DrainDispatch
  <2>5. Dispatched(coord', agent', done') BY <1>1, <1>3, <2>1, <2>4, NothingDispatched
  <2>6. \A n \in NodeSet : world'[n].state = world[n].state BY <1>3 DEF Settled
  <2>7. ASSUME Draining, DrainedBut(world, recovering, coord.drain)
        PROVE  DrainedBut(world', recovering', coord'.drain)
    <3>1. DrainedBut(world', recovering', coord.drain) BY <1>4, <2>2, <2>7
    <3>2. CASE coord'.drain = coord.drain BY <3>1, <3>2
    <3>3. CASE coord'.drain # coord.drain
      <4>1. /\ ev = "nodata" /\ world' = world /\ world[coord.dispatch.node].tail = 0
            /\ coord.dispatch.node = Nodes[Oldest(coord.drain)]
            /\ coord'.drain = coord.drain \ {Oldest(coord.drain)}
        BY <1>3, <1>7, <2>1, <3>3
      <4> QED BY <3>1, <4>1 DEF DrainedBut
    <3> QED BY <3>2, <3>3
  <2>8. Draining' <=> Draining BY <2>1 DEF Draining
  <2>9. coord.dispatch.kind # "recovery" BY <1>3
  <2> QED BY <1>3, <1>7, <2>1, <2>3, <2>5, <2>6, <2>7, <2>8, <2>9 DEF LoopKept
<1>8. \/ e = "ok" /\ coord' \in Handoff(coord) /\ UNCHANGED recovering
      \/ e = "UnexpectedSessionPhase" /\ UNCHANGED <<coord, recovering>>
      \/ /\ e = "ok" /\ coord' = Settle(coord, outcome) /\ ev # "handoff"
         /\ recovering' = IF outcome = "recovery"
                          THEN recovering \cup {coord.dispatch.node}
                          ELSE recovering
  <2>1. CASE outcome = "data" BY <1>1, <1>4, <2>1
  <2>2. CASE outcome # "data" /\ ev = "handoff" BY <1>1, <1>4, <2>2
  <2>3. CASE outcome # "data" /\ ev # "handoff" BY <1>1, <1>4, <2>3
  <2> QED BY <2>1, <2>2, <2>3
<1> QED BY <1>5, <1>6, <1>7, <1>8

(* Every step of the recording loop. *)
LEMMA RecordingKeeps ==
  ASSUME LoopTypes, Dispatched(coord, agent, done), NEW e, RecordingStep(e)
  PROVE  LoopKept(e)
  BY CompletionKeeps, RetryKeeps, DispatchKeeps, EventKeeps, TakeKeeps DEF RecordingStep
------------------------
(* What a step of the task leaves. *)

(* An execution, and how a plan moves it. *)
LEMMA ExecFacts ==
  ASSUME ExecSound
  PROVE  /\ exec = NoExec <=> exec.kind = None
         /\ NoExec.kind = None /\ NoExec.i = 1 /\ NoExec.kind \notin ExecKinds
         /\ exec # NoExec =>
              /\ exec \in ExecType /\ exec.kind \in ExecKinds
              /\ exec.i \in Nat \ {0} /\ exec.boots \in [NodeSet -> Nat]
              /\ exec.kind \in {"restart", "recovery"} => exec.node \in NodeSet
<1>1. NoExec.kind = None /\ NoExec.i = 1 BY DEF NoExec
<1>2. None \notin ExecKinds BY DEF None, ExecKinds, ControlExecs
<1> QED BY <1>1, <1>2 DEF ExecSound, ExecType

(* An execution of the same kind for the same node stays sound. *)
LEMMA ExecMoved ==
  ASSUME ExecSound, exec # NoExec, exec' \in ExecType, exec'.kind = exec.kind,
         exec'.node = exec.node
  PROVE  ExecSound' /\ exec' # NoExec
<1>1. exec'.kind \in ExecKinds /\ NoExec.kind \notin ExecKinds BY ExecFacts
<1> QED BY <1>1, ExecFacts DEF ExecSound

(* A plan accepts its next stage. *)
LEMMA StageAccepted ==
  ASSUME ExecSound, exec # NoExec, NEW s \in Stages, Accept(s)
  PROVE  /\ ExecSound' /\ exec' # NoExec
         /\ exec'.kind = exec.kind /\ exec'.stage = s /\ exec'.i = 1
         /\ exec'.node = exec.node /\ exec'.finish = exec.finish
<1>1. exec \in ExecType BY ExecFacts
<1>2. PICK x : x = [exec EXCEPT !.stage = s] OBVIOUS
<1>3. x \in ExecType /\ x.kind = exec.kind /\ x.stage = s /\ x.node = exec.node /\ x.finish = exec.finish
  BY <1>1, <1>2 DEF ExecType
<1>4. PICK y : y = [x EXCEPT !.i = 1] OBVIOUS
<1>5. /\ y \in ExecType /\ y.kind = exec.kind /\ y.stage = s /\ y.i = 1
      /\ y.node = exec.node /\ y.finish = exec.finish
  BY <1>3, <1>4 DEF ExecType
<1>6. exec' = [y EXCEPT !.due = FALSE] BY <1>2, <1>4 DEF Accept
<1>7. /\ exec' \in ExecType /\ exec'.kind = exec.kind /\ exec'.stage = s /\ exec'.i = 1
      /\ exec'.node = exec.node /\ exec'.finish = exec.finish
  BY <1>5, <1>6 DEF ExecType
<1> QED BY <1>7, ExecMoved

(* A new execution. *)
LEMMA ExecBegun ==
  ASSUME NEW kind \in ExecKinds, NEW stage \in Stages, NEW finish \in BOOLEAN,
         NEW node \in NodeSet \cup {None},
         kind \in {"restart", "recovery"} => node \in NodeSet,
         exec' = [kind |-> kind, stage |-> stage, i |-> 1, node |-> node,
                  finish |-> finish, due |-> FALSE, err |-> FALSE, moved |-> FALSE,
                  boots |-> [n \in NodeSet |-> 0]]
  PROVE  /\ ExecSound' /\ exec' # NoExec
         /\ exec'.kind = kind /\ exec'.stage = stage /\ exec'.finish = finish
         /\ exec'.node = node
<1>1. PICK boots \in [NodeSet -> Nat] : boots = [n \in NodeSet |-> 0] OBVIOUS
<1>2. exec' = [kind |-> kind, stage |-> stage, i |-> 1, node |-> node, finish |-> finish,
               due |-> FALSE, err |-> FALSE, moved |-> FALSE, boots |-> boots]
  BY <1>1
<1>3. /\ exec' \in ExecType /\ exec'.kind = kind /\ exec'.stage = stage
      /\ exec'.finish = finish /\ exec'.node = node
  BY <1>2 DEF ExecType
<1>4. kind # None BY DEF None, ExecKinds, ControlExecs
<1>5. exec' # NoExec BY <1>3, <1>4 DEF NoExec
<1> QED BY <1>3, <1>5 DEF ExecSound

(* While the task runs there is no shutdown. *)
LEMMA DownStays ==
  ASSUME DownTold, task = "running", down' = down
  PROVE  DownTold'
<1>1. down \in DownType /\ down.stage = None BY DEF DownTold
<1>2. down.stage \notin {"stop", "drain", "finalize", "done"} BY <1>1 DEF None
<1> QED BY <1>1, <1>2 DEF DownTold

InternalErrors ==
  {"LedgerError", "NoActiveOperation", "ShutdownDrainNotReady", "ResumeNotReady",
   "NoActiveDispatch", "exclusive"}

(* The task ends with an error that no inconsistency produced. *)
LEMMA TaskEnds ==
  ASSUME WorkerInv, task = "running", task' \notin InternalErrors \cup {"running"}, OpsTypes',
         LoopTypes', BootTypes', ExecSound', pc' \in {"poll", "start", "drive"}, mode' \in Modes,
         Dispatched(coord', agent', done'), Recovers(coord', exec'), down' = down
  PROVE  WorkerInv'
<1>1. DownTold' BY DownStays DEF WorkerInv
<1>2. NoInternalError' BY DEF NoInternalError, InternalErrors
<1>3. task' # "running" OBVIOUS
<1>4. OpsInv' /\ WorkerTypes' /\ WorksSound' /\ ModeSound'
  BY <1>3 DEF OpsInv, WorkerTypes, WorksSound, ModeSound
<1> QED BY <1>1, <1>2, <1>3, <1>4 DEF WorkerInv

(* The task goes on. *)
LEMMA TaskGoesOn ==
  ASSUME WorkerInv, task = "running", task' = "running", down' = down,
         OpsInv', LoopTypes', BootTypes', ExecSound',
         pc' \in {"poll", "start", "drive"}, mode' \in Modes,
         Dispatched(coord', agent', done'), Recovers(coord', exec'), Controlled(agent', exec'),
         ModeSound', EntryTold', ResumeTold'
  PROVE  WorkerInv'
<1>1. DownTold' BY DownStays DEF WorkerInv
<1>2. NoInternalError' BY DEF NoInternalError
<1>3. WorkerTypes' /\ WorksSound' BY DEF WorkerTypes, WorksSound
<1> QED BY <1>1, <1>2, <1>3 DEF WorkerInv

(* The task ends with an error of the loop, the port or the storage. *)
LEMMA RaisesKeeps ==
  ASSUME WorkerInv, task = "running", NEW e, e \notin InternalErrors \cup {"running"}, Raises(e),
         LoopTypes', BootTypes', ExecSound', pc' \in {"poll", "start", "drive"},
         Dispatched(coord', agent', done'), Recovers(coord', exec'), down' = down
  PROVE  WorkerInv'
<1>1. task' = e /\ UNCHANGED <<mode, inbox, ledger, active, audit, submitted>>
  BY DEF Raises
<1>2. OpsTypes' /\ mode' \in Modes BY <1>1 DEF WorkerInv, OpsInv, OpsTypes, WorkerTypes
<1> QED BY <1>1, <1>2, TaskEnds

(* The active operation ends, and its execution with it. *)
LEMMA EndsInKeeps ==
  ASSUME WorkerInv, task = "running", active # NoRequest,
         NEW m \in Modes \ {"EnteringMaintenance", "ResumingRecording"},
         NEW phase \in {"Succeeded", "Failed"}, EndsIn(m, phase),
         LoopTypes', BootTypes', pc' \in {"poll", "drive"}, down' = down,
         Dispatched(coord', agent', done'), NoControl(agent'), coord'.drain = NoDrain,
         m = "Recording" => ~coord'.quiescing
  PROVE  WorkerInv'
<1>1. mode' = m /\ EndActive(phase) /\ exec' = NoExec BY DEF EndsIn
<1>2. OpsInv' /\ active' = NoRequest /\ task' \in {"running", "AuditUnavailable"}
  BY <1>1, EndActiveKeeps DEF WorkerInv
<1>3. exec'.kind = None /\ exec'.kind \notin ExecKinds /\ ExecSound' /\ Recovers(coord', exec')
  <2>1. exec'.kind = None BY <1>1 DEF NoExec
  <2>2. exec'.kind \notin ExecKinds BY <2>1 DEF None, ExecKinds, ControlExecs
  <2>3. Recovers(coord', exec') BY <2>2 DEF Recovers, ExecKinds
  <2> QED BY <1>1, <2>1, <2>2, <2>3 DEF ExecSound
<1>4. exec'.kind \notin {"maintenance", "resume", "recovery", "configuration", "commissioning", "restart"}
  BY <1>3 DEF ExecKinds, ControlExecs
<1>5. CASE task' = "running"
  <2>1. ModeSound'
    <3>1. ~Draining' BY DEF Draining
    <3> QED BY <1>1, <1>2, <1>3, <1>4, <3>1 DEF ModeSound
  <2>2. EntryTold' /\ ResumeTold' BY <1>4 DEF EntryTold, ResumeTold
  <2>3. Controlled(agent', exec') BY DEF Controlled, NoControl, OneControl
  <2> QED BY <1>1, <1>2, <1>3, <1>5, <2>1, <2>2, <2>3, TaskGoesOn
<1>6. CASE task' = "AuditUnavailable"
  <2>1. task' \notin InternalErrors \cup {"running"} BY <1>6 DEF InternalErrors
  <2> QED BY <1>1, <1>2, <1>3, <2>1, TaskEnds DEF OpsInv
<1> QED BY <1>2, <1>5, <1>6

(* The execution goes on, of whatever it is. *)
LEMMA GoesKeeps ==
  ASSUME WorkerInv, task = "running", Goes, exec # NoExec, UNCHANGED <<workflow, down>>,
         exec'.kind = exec.kind, exec'.finish = exec.finish, exec' # NoExec,
         LoopTypes', BootTypes', ExecSound', pc' = "poll",
         Dispatched(coord', agent', done'), Recovers(coord', exec'), Controlled(agent', exec'),
         mode = "Recording" => ~coord'.quiescing,
         Draining' => At("maintenance", "Draining")',
         EntryTold', ResumeTold'
  PROVE  WorkerInv'
<1>1. UNCHANGED <<mode, inbox, ledger, active, audit, task, submitted>>
  BY DEF Goes, opsVars
<1>2. OpsInv' /\ mode' \in Modes BY <1>1 DEF WorkerInv, OpsInv, OpsTypes, WorkerTypes
<1>3. ModeSound'
  <2>1. ModeSound BY DEF WorkerInv
  <2> QED BY <1>1, <2>1 DEF ModeSound
<1> QED BY <1>1, <1>2, <1>3, TaskGoesOn

(* The execution is over, and the operation, if any, waits for the
   automatic configuration. *)
LEMMA RestsKeeps ==
  ASSUME WorkerInv, task = "running", Goes, exec' = NoExec, down' = down, pc' = "poll",
         exec.kind \notin {"maintenance", "resume"},
         active # NoRequest => workflow' \in {"Entering", "ReadyToResume"},
         LoopTypes', BootTypes', Dispatched(coord', agent', done'), NoControl(agent'),
         mode = "Recording" => ~coord'.quiescing, ~Draining'
  PROVE  WorkerInv'
<1>1. UNCHANGED <<mode, inbox, ledger, active, audit, task, submitted>>
  BY DEF Goes, opsVars
<1>2. OpsInv' /\ mode' \in Modes /\ ModeSound
  BY <1>1 DEF WorkerInv, OpsInv, OpsTypes, WorkerTypes
<1>3. /\ exec'.kind = None /\ ExecSound'
      /\ exec'.kind \notin {"maintenance", "resume", "recovery", "configuration", "commissioning", "restart"}
  <2>1. exec'.kind = None BY DEF NoExec
  <2> QED BY <2>1 DEF None, ExecSound
<1>4. ModeSound' BY <1>1, <1>2, <1>3 DEF ModeSound, ExecKinds, ControlExecs
<1>5. EntryTold' /\ ResumeTold' /\ Recovers(coord', exec') /\ Controlled(agent', exec')
  BY <1>3 DEF EntryTold, ResumeTold, Recovers, Controlled, NoControl, OneControl
<1> QED BY <1>1, <1>2, <1>3, <1>4, <1>5, TaskGoesOn

(* What the invariant says of the task while it runs. *)
LEMMA RunningFacts ==
  ASSUME WorkerInv, task = "running"
  PROVE  /\ OpsInv /\ LoopTypes /\ BootTypes /\ ExecSound /\ mode \in Modes
         /\ pc \in {"poll", "start", "drive"}
         /\ Dispatched(coord, agent, done) /\ Recovers(coord, exec) /\ Controlled(agent, exec)
         /\ ModeSound /\ EntryTold /\ ResumeTold
         /\ OneControl(agent) /\ (exec.kind \notin ControlExecs => NoControl(agent))
         /\ ~At("maintenance", "Draining") => ~Draining /\ coord.drain = NoDrain
         /\ mode = "Recording" => ~coord.quiescing
  BY DEF WorkerInv, WorkerTypes, WorksSound, Controlled, ModeSound, Draining
------------------------
(* Entering maintenance. *)

(* An execution drives the port, in a call of step that is not a poll. *)
Drives == task = "running" /\ pc' = "poll" /\ down' = down

(* Nothing moves on the wire. *)
LEMMA WireKept ==
  ASSUME LoopTypes, Dispatched(coord, agent, done), NoWire
  PROVE  /\ LoopTypes' /\ Dispatched(coord', agent', done')
         /\ UNCHANGED <<coord, recovering, agent, flight, done, world>>
         /\ (Draining' <=> Draining) /\ (Quiescent' <=> Quiescent) /\ (ResumeReady' <=> ResumeReady)
<1>1. UNCHANGED <<coord, recovering, agent, flight, done, world>> BY DEF NoWire
<1> QED BY <1>1 DEF LoopTypes, Draining, Quiescent, Busy, ResumeReady

(* An agent without control work holds nothing but what was dispatched. *)
LEMMA AgentIdle ==
  ASSUME LoopTypes, Dispatched(coord, agent, done), NoControl(agent), coord.dispatch.kind \notin Works
  PROVE  agent = <<>>
<1>1. agent \in Seq(WorkType) BY DEF LoopTypes
<1>2. \A i \in DOMAIN agent : FALSE
  <2>1. \A i \in DOMAIN agent : agent[i] \in WorkType BY <1>1
  <2> QED BY <2>1, WorkFacts DEF NoControl, Dispatched
<1>3. Len(agent) \in Nat /\ DOMAIN agent = 1 .. Len(agent) BY <1>1
<1>4. Len(agent) = 0 BY <1>2, <1>3
<1> QED BY <1>1, <1>4, EmptySeq

(* A quiescent channel has nothing dispatched and nothing pending. *)
LEMMA QuiescentAgent ==
  ASSUME LoopTypes, Dispatched(coord, agent, done), NoControl(agent), Quiescent
  PROVE  agent = <<>>
<1>1. coord.dispatch.kind \notin Works BY WorkFacts DEF Quiescent, Busy
<1> QED BY <1>1, AgentIdle

(* One node of a safe-state group: where it is brought, and what it keeps. *)
LEMMA GroupKeeps ==
  ASSUME LoopTypes, Dispatched(coord, agent, done), NEW n \in NodeSet,
         NEW target \in {"Recording", "Idle", "Maintenance"}, NEW out,
         agent = <<>>, GroupNode(n, target, out)
  PROVE  /\ LoopTypes' /\ Dispatched(coord', agent', done')
         /\ UNCHANGED <<coord, recovering, agent, flight, done, sboot, wboot>>
         /\ (Draining' <=> Draining) /\ (Quiescent' <=> Quiescent) /\ (ResumeReady' <=> ResumeReady)
         /\ out \in {"reached", "restarted", "failed", "offline", "port"}
         /\ out \in {"failed", "offline"} => world' = world
         /\ out \in {"reached", "restarted"} =>
              \A m \in NodeSet : /\ world'[m].state = IF m = n THEN target ELSE world[m].state
                                 /\ world[m].tail = 0 => world'[m].tail = 0
<1>1. /\ UNCHANGED <<coord, recovering, agent, flight, done, sboot, wboot>>
      /\ \/ out = "reached" /\ world' = [world EXCEPT ![n].state = target]
         \/ out = "restarted" /\ world' = [Rebooted(world, n) EXCEPT ![n].state = target]
         \/ out \in {"failed", "offline", "port"} /\ world' = world
  BY DEF GroupNode
<1>2. world \in [NodeSet -> WorldType] /\ \A m \in NodeSet : world[m] \in WorldType
  BY DEF LoopTypes
<1>3. /\ world' \in [NodeSet -> WorldType]
      /\ out \in {"reached", "restarted"} =>
           \A m \in NodeSet : /\ world'[m].state = IF m = n THEN target ELSE world[m].state
                              /\ world[m].tail = 0 => world'[m].tail = 0
  <2>1. CASE out = "reached" /\ world' = [world EXCEPT ![n].state = target]
    <3>1. \A m \in NodeSet : world'[m] = IF m = n THEN [world[n] EXCEPT !.state = target] ELSE world[m]
      BY <1>2, <2>1
    <3>2. [world[n] EXCEPT !.state = target] \in WorldType BY <1>2 DEF WorldType
    <3>3. world' \in [NodeSet -> WorldType] BY <1>2, <2>1, <3>2
    <3>4. ASSUME NEW m \in NodeSet
          PROVE  /\ world'[m].state = IF m = n THEN target ELSE world[m].state
                 /\ world[m].tail = 0 => world'[m].tail = 0
      BY <1>2, <3>1 DEF WorldType
    <3> QED BY <3>3, <3>4
  <2>2. CASE out = "restarted" /\ world' = [Rebooted(world, n) EXCEPT ![n].state = target]
    <3>1. PICK r : r = [state |-> "Idle", boot |-> world[n].boot + 1, tail |-> 0]
      OBVIOUS
    <3>2. r \in WorldType /\ r.tail = 0 BY <1>2, <3>1 DEF WorldType
    <3>3. PICK v : v = [world EXCEPT ![n] = r] OBVIOUS
    <3>4. v \in [NodeSet -> WorldType] /\ \A m \in NodeSet : v[m] = IF m = n THEN r ELSE world[m]
      BY <1>2, <3>2, <3>3
    <3>5. world' = [v EXCEPT ![n].state = target] BY <2>2, <3>1, <3>3 DEF Rebooted
    <3>6. [r EXCEPT !.state = target] \in WorldType /\ [r EXCEPT !.state = target].tail = 0
          /\ [r EXCEPT !.state = target].state = target
      BY <3>2 DEF WorldType
    <3>7. \A m \in NodeSet : world'[m] = IF m = n THEN [r EXCEPT !.state = target] ELSE world[m]
      BY <3>4, <3>5
    <3>8. world' \in [NodeSet -> WorldType] BY <3>4, <3>5, <3>6
    <3>9. ASSUME NEW m \in NodeSet
          PROVE  /\ world'[m].state = IF m = n THEN target ELSE world[m].state
                 /\ world[m].tail = 0 => world'[m].tail = 0
      BY <3>6, <3>7
    <3> QED BY <3>8, <3>9
  <2>3. CASE out \in {"failed", "offline", "port"} /\ world' = world BY <1>2, <2>3
  <2> QED BY <1>1, <2>1, <2>2, <2>3
<1>4. LoopTypes' BY <1>1, <1>3 DEF LoopTypes
<1> QED BY <1>1, <1>3, <1>4 DEF Draining, Quiescent, Busy, ResumeReady

(* While maintenance is being entered. *)
LEMMA EntryFacts ==
  ASSUME WorkerInv, task = "running", exec.kind = "maintenance"
  PROVE  /\ exec # NoExec /\ mode = "EnteringMaintenance" /\ active # NoRequest
         /\ NoControl(agent)
         /\ ~exec.finish => workflow = "Entering"
<1>1. ModeSound /\ ExecSound /\ (exec.kind \notin ControlExecs => NoControl(agent))
  BY RunningFacts
<1>2. exec # NoExec BY <1>1, ExecFacts DEF None
<1> QED BY <1>1, <1>2 DEF ModeSound, ControlExecs, ExecKinds

(* The recording is quiesced. *)
LEMMA EntryQuiescedKeeps ==
  ASSUME WorkerInv, Drives, EntryQuiesced
  PROVE  WorkerInv'
<1>1. /\ exec.kind = "maintenance" /\ exec.stage = "Quiescing" /\ Quiescent
      /\ Accept("ConvergingToIdle") /\ NoWire /\ Goes /\ UNCHANGED <<sboot, wboot, workflow>>
  BY DEF EntryQuiesced, At
<1>2. task = "running" /\ pc' = "poll" /\ down' = down BY DEF Drives
<1>3. /\ LoopTypes /\ BootTypes /\ ExecSound /\ Dispatched(coord, agent, done)
      /\ NoControl(agent) /\ ~Draining
  BY <1>1, <1>2, RunningFacts DEF At, ControlExecs
<1>4. mode = "EnteringMaintenance" /\ exec # NoExec BY <1>1, <1>2, EntryFacts
<1>5. /\ ExecSound' /\ exec' # NoExec
      /\ exec'.kind = exec.kind /\ exec'.stage = "ConvergingToIdle" /\ exec'.i = 1
      /\ exec'.finish = exec.finish
  BY <1>1, <1>3, <1>4, StageAccepted DEF Stages
<1>6. /\ LoopTypes' /\ Dispatched(coord', agent', done') /\ agent' = agent
      /\ ~Draining' /\ Quiescent'
  BY <1>1, <1>3, WireKept
<1>7. EntryTold' /\ ResumeTold' /\ Recovers(coord', exec') /\ Controlled(agent', exec') /\ BootTypes'
  <2>1. \A k \in DOMAIN Nodes : ~(k < 1) BY NodeFacts
  <2>2. EntryTold' BY <1>1, <1>5, <1>6, <2>1 DEF EntryTold
  <2> QED BY <1>1, <1>3, <1>5, <1>6, <2>2
       DEF ResumeTold, Recovers, Controlled, NoControl, OneControl, ControlExecs, BootTypes
<1> QED BY <1>1, <1>2, <1>4, <1>5, <1>6, <1>7, GoesKeeps

(* Entering maintenance waits for the storage barrier. *)
LEMMA EntryBarrierKeeps ==
  ASSUME WorkerInv, Drives, EntryBarrier
  PROVE  WorkerInv'
<1>1. exec.kind = "maintenance" /\ exec.stage = "Quiescing" /\ UNCHANGED <<sboot, wboot, workflow>>
  BY DEF EntryBarrier, At
<1>2. task = "running" /\ pc' = "poll" /\ down' = down BY DEF Drives
<1>3. /\ LoopTypes /\ BootTypes /\ ExecSound /\ Dispatched(coord, agent, done) /\ pc' \in {"poll", "drive"}
      /\ NoControl(agent) /\ ~Draining /\ coord.drain = NoDrain
  BY <1>1, <1>2, RunningFacts DEF At, ControlExecs
<1>4. mode = "EnteringMaintenance" /\ exec # NoExec /\ active # NoRequest
  BY <1>1, <1>2, EntryFacts
<1>5. BootTypes' BY <1>1, <1>3 DEF BootTypes
<1>6. CASE EndsIn("Faulted", "Failed") /\ NoWire
  <2>1. LoopTypes' /\ Dispatched(coord', agent', done') /\ agent' = agent /\ coord' = coord
    BY <1>3, <1>6, WireKept
  <2> QED BY <1>2, <1>3, <1>4, <1>5, <1>6, <2>1, EndsInKeeps DEF Modes
<1>7. CASE StepRecording /\ exec' = exec
  <2>1. PICK e \in Outcomes : RecordingStep(e) /\ IF e = "ok" THEN Goes ELSE Raises(e)
    BY <1>7 DEF StepRecording
  <2>2. LoopKept(e) BY <1>3, <2>1, RecordingKeeps
  <2>3. /\ LoopTypes' /\ Dispatched(coord', agent', done') /\ ~Draining' /\ NoControl(agent')
        /\ e \in {"ok", "recovery", "port", "storage", "UnexpectedSessionPhase"}
    BY <1>3, <2>2 DEF LoopKept
  <2>4. ExecSound' /\ Recovers(coord', exec')
    BY <1>1, <1>3, <1>7 DEF ExecSound, Recovers
  <2>5. CASE e = "ok"
    <3>1. EntryTold' /\ ResumeTold' /\ Controlled(agent', exec')
      BY <1>1, <1>7, <2>3 DEF EntryTold, ResumeTold, Controlled, NoControl, OneControl, ControlExecs
    <3> QED BY <1>1, <1>2, <1>4, <1>5, <1>7, <2>1, <2>3, <2>4, <2>5, <3>1, GoesKeeps
  <2>6. CASE e # "ok"
    <3>1. e \notin InternalErrors \cup {"running"} BY <2>3 DEF InternalErrors
    <3> QED BY <1>2, <1>5, <2>1, <2>3, <2>4, <2>6, <3>1, RaisesKeeps
  <2> QED BY <2>5, <2>6
<1> QED BY <1>6, <1>7 DEF EntryBarrier

(* A node is converged to Idle or to Maintenance. *)
LEMMA EntryConvergeKeeps ==
  ASSUME WorkerInv, Drives, EntryConverge
  PROVE  WorkerInv'
<1>1. PICK stage \in {"ConvergingToIdle", "ConvergingToMaintenance", "FallingBackToIdle"} :
        /\ At("maintenance", stage) /\ UNCHANGED workflow
        /\ IF exec.i > Len(Nodes)
           THEN Accept(ConvergedStage(stage)) /\ NoWire /\ Goes
                /\ UNCHANGED <<sboot, wboot, reboots>>
           ELSE \E out \in {"reached", "restarted", "failed", "offline", "port", "exclusive"} :
                /\ GroupNode(Nodes[exec.i], ConvergeTarget(stage), out)
                /\ CASE out \in {"reached", "restarted"} ->
                          /\ exec' = [exec EXCEPT !.i = @ + 1,
                                                  !.moved = @ \/ out = "restarted"]
                          /\ Goes
                     [] out = "failed" /\ stage = "ConvergingToMaintenance" ->
                          exec' = [exec EXCEPT !.stage = "FallingBackToIdle"] /\ Goes
                     [] out = "failed" /\ stage # "ConvergingToMaintenance" ->
                          EndsIn("Faulted", "Failed")
                     [] out = "offline" -> EndsIn("Offline", "Failed")
                     [] out \in {"port", "exclusive"} -> Raises(out) /\ exec' = NoExec
  BY DEF EntryConverge
<1>2. exec.kind = "maintenance" /\ exec.stage = stage /\ UNCHANGED workflow
  BY <1>1 DEF At
<1>3. task = "running" /\ pc' = "poll" /\ down' = down BY DEF Drives
<1>4. /\ LoopTypes /\ BootTypes /\ ExecSound /\ Dispatched(coord, agent, done)
      /\ NoControl(agent) /\ ~Draining /\ coord.drain = NoDrain /\ EntryTold
  BY <1>2, <1>3, RunningFacts DEF At, ControlExecs
<1>5. mode = "EnteringMaintenance" /\ exec # NoExec /\ active # NoRequest
  BY <1>2, <1>3, EntryFacts
<1>6. /\ Quiescent
      /\ stage = "ConvergingToIdle" => \A k \in DOMAIN Nodes : k < exec.i => Stopped(world, Nodes[k])
      /\ stage = "ConvergingToMaintenance" => AllStopped(world) /\ DrainedBut(world, recovering, {})
  BY <1>2, <1>4 DEF EntryTold
<1>7. exec \in ExecType /\ exec.i \in Nat \ {0} BY <1>4, <1>5, ExecFacts
<1>8. CASE exec.i > Len(Nodes)
  <2>1. Accept(ConvergedStage(stage)) /\ NoWire /\ Goes /\ UNCHANGED <<sboot, wboot>>
    BY <1>1, <1>8
  <2>2. /\ ConvergedStage(stage) = IF stage = "ConvergingToIdle" THEN "Reconciling"
                                   ELSE IF stage = "ConvergingToMaintenance" THEN "CompleteMaintenance"
                                   ELSE "CompleteIdle"
    BY DEF ConvergedStage
  <2>3. PICK next \in {"Reconciling", "CompleteMaintenance", "CompleteIdle"} :
          /\ next = ConvergedStage(stage)
          /\ next = "Reconciling" => stage = "ConvergingToIdle"
          /\ next = "CompleteMaintenance" => stage = "ConvergingToMaintenance"
    BY <2>2
  <2>4. /\ ExecSound' /\ exec' # NoExec /\ exec'.kind = exec.kind /\ exec'.stage = next
        /\ exec'.finish = exec.finish
    BY <1>4, <1>5, <2>1, <2>3, StageAccepted DEF Stages
  <2>5. /\ LoopTypes' /\ Dispatched(coord', agent', done') /\ agent' = agent
        /\ world' = world /\ recovering' = recovering
        /\ ~Draining' /\ Quiescent'
    BY <1>4, <1>6, <2>1, WireKept
  <2>6. next = "Reconciling" => AllStopped(world)
    <3>1. ASSUME stage = "ConvergingToIdle" PROVE AllStopped(world)
      <4>1. \A k \in DOMAIN Nodes : k < exec.i BY <1>7, <1>8, NodeFacts
      <4>2. \A k \in DOMAIN Nodes : Stopped(world, Nodes[k]) BY <1>6, <3>1, <4>1
      <4> QED BY <4>2, NodeFacts DEF AllStopped
    <3> QED BY <2>3, <3>1
  <2>7. EntryTold' BY <1>2, <1>6, <2>3, <2>4, <2>5, <2>6 DEF EntryTold
  <2>8. ResumeTold' /\ Recovers(coord', exec') /\ Controlled(agent', exec') /\ BootTypes'
    BY <1>2, <1>4, <2>1, <2>4, <2>5
       DEF ResumeTold, Recovers, Controlled, NoControl, OneControl, ControlExecs, BootTypes
  <2> QED BY <1>2, <1>3, <1>5, <2>1, <2>4, <2>5, <2>7, <2>8, GoesKeeps
<1>9. CASE ~(exec.i > Len(Nodes))
  <2>1. exec.i \in DOMAIN Nodes BY <1>7, <1>9, NodeFacts
  <2>2. PICK n \in NodeSet : n = Nodes[exec.i] BY <2>1, NodeFacts
  <2>3. PICK target \in {"Idle", "Maintenance"} :
          /\ target = ConvergeTarget(stage)
          /\ target \in {"Recording", "Idle", "Maintenance"} /\ target # "Recording"
    BY DEF ConvergeTarget
  <2>4. PICK out \in {"reached", "restarted", "failed", "offline", "port", "exclusive"} :
                /\ GroupNode(n, target, out)
                /\ CASE out \in {"reached", "restarted"} ->
                          /\ exec' = [exec EXCEPT !.i = @ + 1,
                                                  !.moved = @ \/ out = "restarted"]
                          /\ Goes
                     [] out = "failed" /\ stage = "ConvergingToMaintenance" ->
                          exec' = [exec EXCEPT !.stage = "FallingBackToIdle"] /\ Goes
                     [] out = "failed" /\ stage # "ConvergingToMaintenance" ->
                          EndsIn("Faulted", "Failed")
                     [] out = "offline" -> EndsIn("Offline", "Failed")
                     [] out \in {"port", "exclusive"} -> Raises(out) /\ exec' = NoExec
    BY <1>1, <1>9, <2>2, <2>3
  <2>5. agent = <<>> BY <1>4, <1>6, QuiescentAgent
  <2>6. /\ LoopTypes' /\ Dispatched(coord', agent', done')
        /\ UNCHANGED <<coord, recovering, agent, flight, done, sboot, wboot>>
        /\ (Draining' <=> Draining) /\ (Quiescent' <=> Quiescent)
        /\ out \in {"reached", "restarted", "failed", "offline", "port"}
        /\ out \in {"failed", "offline"} => world' = world
        /\ out \in {"reached", "restarted"} =>
              \A m \in NodeSet : /\ world'[m].state = IF m = n THEN target ELSE world[m].state
                                 /\ world[m].tail = 0 => world'[m].tail = 0
    BY <1>4, <2>3, <2>4, <2>5, GroupKeeps
  <2>7. BootTypes' /\ NoControl(agent') /\ coord'.drain = NoDrain
    BY <1>4, <2>6 DEF BootTypes
  <2>8. CASE out \in {"reached", "restarted"}
    <3>1. Goes /\ exec' = [exec EXCEPT !.i = @ + 1, !.moved = @ \/ out = "restarted"]
      BY <2>4, <2>8
    <3>2. /\ exec' \in ExecType /\ exec'.kind = exec.kind /\ exec'.stage = exec.stage
          /\ exec'.i = exec.i + 1 /\ exec'.node = exec.node /\ exec'.finish = exec.finish
      <4>1. PICK x : x = [exec EXCEPT !.i = @ + 1] OBVIOUS
      <4>2. /\ x \in ExecType /\ x.kind = exec.kind /\ x.stage = exec.stage /\ x.moved \in BOOLEAN
            /\ x.i = exec.i + 1 /\ x.node = exec.node /\ x.finish = exec.finish
        BY <1>7, <4>1 DEF ExecType
      <4>3. PICK moved \in BOOLEAN : exec' = [x EXCEPT !.moved = moved]
        <5>1. (x.moved \/ out = "restarted") \in BOOLEAN BY <4>2
        <5>2. x.moved = exec.moved BY <4>1
        <5>3. exec' = [x EXCEPT !.moved = x.moved \/ out = "restarted"]
          BY <3>1, <4>1, <5>2
        <5> QED BY <5>1, <5>3
      <4> QED BY <4>2, <4>3 DEF ExecType
    <3>3. ExecSound' /\ exec' # NoExec BY <1>4, <1>5, <3>2, ExecMoved
    <3>4. EntryTold'
      <4>1. ASSUME stage = "ConvergingToIdle", NEW k \in DOMAIN Nodes, k < exec'.i
            PROVE  Stopped(world', Nodes[k])
        <5>1. Nodes[k] \in NodeSet BY NodeFacts
        <5>2. CASE k = exec.i BY <2>2, <2>3, <2>6, <2>8, <5>1, <5>2 DEF Stopped
        <5>3. CASE k # exec.i
          <6>1. k < exec.i BY <1>7, <3>2, <4>1, <5>3, NodeFacts
          <6>2. Stopped(world, Nodes[k]) BY <1>6, <4>1, <6>1
          <6> QED BY <2>3, <2>6, <2>8, <5>1, <6>2 DEF Stopped
        <5> QED BY <5>2, <5>3
      <4>2. ASSUME stage = "ConvergingToMaintenance"
            PROVE  AllStopped(world') /\ DrainedBut(world', recovering', {})
        <5>1. AllStopped(world') BY <1>6, <2>3, <2>6, <2>8, <4>2 DEF AllStopped, Stopped
        <5>2. DrainedBut(world', recovering', {})
          BY <1>6, <2>6, <2>8, <4>2, NodeFacts DEF DrainedBut
        <5> QED BY <5>1, <5>2
      <4> QED BY <1>2, <1>6, <2>6, <3>2, <4>1, <4>2 DEF EntryTold
    <3>5. ResumeTold' /\ Recovers(coord', exec') /\ Controlled(agent', exec')
      BY <1>2, <2>7, <3>2 DEF ResumeTold, Recovers, Controlled, NoControl, OneControl, ControlExecs
    <3> QED BY <1>2, <1>3, <1>4, <1>5, <2>6, <2>7, <3>1, <3>2, <3>3, <3>4, <3>5, GoesKeeps
  <2>9. CASE out = "failed" /\ stage = "ConvergingToMaintenance"
    <3>1. Goes /\ exec' = [exec EXCEPT !.stage = "FallingBackToIdle"] BY <2>4, <2>9
    <3>2. /\ exec' \in ExecType /\ exec'.kind = exec.kind /\ exec'.stage = "FallingBackToIdle"
          /\ exec'.node = exec.node /\ exec'.finish = exec.finish
      <4>1. "FallingBackToIdle" \in Stages BY DEF Stages
      <4> QED BY <1>7, <3>1, <4>1 DEF ExecType
    <3>3. ExecSound' /\ exec' # NoExec BY <1>4, <1>5, <3>2, ExecMoved
    <3>4. EntryTold' BY <1>6, <2>6, <3>2 DEF EntryTold
    <3>5. ResumeTold' /\ Recovers(coord', exec') /\ Controlled(agent', exec')
      BY <1>2, <2>7, <3>2 DEF ResumeTold, Recovers, Controlled, NoControl, OneControl, ControlExecs
    <3> QED BY <1>2, <1>3, <1>4, <1>5, <2>6, <2>7, <3>1, <3>2, <3>3, <3>4, <3>5, GoesKeeps
  <2>10. CASE \/ out = "failed" /\ stage # "ConvergingToMaintenance"
              \/ out = "offline"
    <3>1. EndsIn("Faulted", "Failed") \/ EndsIn("Offline", "Failed") BY <2>4, <2>10
    <3> QED BY <1>3, <1>5, <2>6, <2>7, <3>1, EndsInKeeps DEF Modes
  <2>11. CASE out = "port"
    <3>1. Raises(out) /\ exec' = NoExec BY <2>4, <2>11
    <3>2. ExecSound' /\ Recovers(coord', exec')
      BY <3>1 DEF ExecSound, Recovers, NoExec, None
    <3>3. out \notin InternalErrors \cup {"running"} BY <2>11 DEF InternalErrors
    <3> QED BY <1>3, <2>6, <2>7, <3>1, <3>2, <3>3, RaisesKeeps
  <2> QED BY <2>6, <2>8, <2>9, <2>10, <2>11
<1> QED BY <1>8, <1>9

(* A stopped stream is reconciled, and its tail bounded. *)
LEMMA EntryReconcileKeeps ==
  ASSUME WorkerInv, Drives, EntryReconcile
  PROVE  WorkerInv'
<1>1. /\ exec.kind = "maintenance" /\ exec.stage = "Reconciling" /\ NoWire
      /\ UNCHANGED <<sboot, wboot, workflow>>
      /\ IF exec.moved THEN EndsIn("Faulted", "Failed") ELSE Accept("Draining") /\ Goes
  BY DEF EntryReconcile, At
<1>2. task = "running" /\ pc' = "poll" /\ down' = down BY DEF Drives
<1>3. /\ LoopTypes /\ BootTypes /\ ExecSound /\ Dispatched(coord, agent, done)
      /\ NoControl(agent) /\ ~Draining /\ coord.drain = NoDrain /\ EntryTold
  BY <1>1, <1>2, RunningFacts DEF At, ControlExecs
<1>4. mode = "EnteringMaintenance" /\ exec # NoExec /\ active # NoRequest
  BY <1>1, <1>2, EntryFacts
<1>5. /\ LoopTypes' /\ Dispatched(coord', agent', done') /\ agent' = agent /\ coord' = coord
      /\ world' = world /\ ~Draining' /\ (Quiescent' <=> Quiescent)
  BY <1>1, <1>3, WireKept
<1>6. BootTypes' /\ Quiescent /\ AllStopped(world)
  BY <1>1, <1>3 DEF BootTypes, EntryTold
<1>7. CASE EndsIn("Faulted", "Failed")
  BY <1>2, <1>3, <1>4, <1>5, <1>6, <1>7, EndsInKeeps DEF Modes
<1>8. CASE Accept("Draining") /\ Goes
  <2>1. /\ ExecSound' /\ exec' # NoExec
        /\ exec'.kind = exec.kind /\ exec'.stage = "Draining" /\ exec'.finish = exec.finish
    BY <1>3, <1>4, <1>8, StageAccepted DEF Stages
  <2>2. EntryTold' BY <1>5, <1>6, <2>1 DEF EntryTold
  <2>3. ResumeTold' /\ Recovers(coord', exec') /\ Controlled(agent', exec')
    BY <1>1, <1>3, <1>5, <2>1 DEF ResumeTold, Recovers, Controlled, NoControl, OneControl, ControlExecs
  <2> QED BY <1>1, <1>2, <1>4, <1>5, <1>6, <1>8, <2>1, <2>2, <2>3, GoesKeeps
<1> QED BY <1>1, <1>7, <1>8

(* begin_shutdown_drain of a quiescent coordinator. *)
LEMMA DrainBegins ==
  ASSUME LoopTypes, Dispatched(coord, agent, done), Quiescent,
         coord' = [coord EXCEPT !.drain = Drainable, !.quiescing = FALSE],
         UNCHANGED <<recovering, agent, flight, done, world>>
  PROVE  /\ LoopTypes' /\ Dispatched(coord', agent', done') /\ Draining' /\ ~coord'.quiescing
         /\ DrainedBut(world', recovering', coord'.drain)
<1>1. Drainable \in SUBSET DOMAIN Nodes BY DEF Drainable
<1>2. coord \in CoordType BY DEF LoopTypes
<1>3. /\ coord' \in CoordType /\ coord'.quiescing = FALSE /\ coord'.drain = Drainable
      /\ coord'.dispatch = coord.dispatch /\ coord'.pending = coord.pending
  BY <1>1, <1>2 DEF CoordType
<1>4. Draining' BY <1>1, <1>3, WorkFacts DEF Draining
<1>5. coord.dispatch = NoDispatch BY DEF Quiescent, Busy
<1>6. Dispatched(coord', agent', done') BY <1>3, <1>5 DEF Dispatched
<1>7. DrainedBut(world', recovering', coord'.drain) BY <1>3 DEF DrainedBut, Drainable
<1> QED BY <1>3, <1>4, <1>6, <1>7 DEF LoopTypes

(* finish_shutdown_drain and abort_shutdown_drain. *)
LEMMA DrainEnds ==
  ASSUME LoopTypes, Dispatched(coord, agent, done),
         coord' = [coord EXCEPT !.drain = NoDrain, !.quiescing = TRUE],
         UNCHANGED <<recovering, agent, flight, done, world>>
  PROVE  /\ LoopTypes' /\ Dispatched(coord', agent', done') /\ ~Draining'
         /\ coord'.drain = NoDrain /\ coord'.quiescing /\ (~Busy => Quiescent')
         /\ coord'.pending = coord.pending /\ coord'.dispatch = coord.dispatch
         /\ coord'.writes = coord.writes
<1>1. coord \in CoordType BY DEF LoopTypes
<1>2. /\ coord' \in CoordType /\ coord'.quiescing = TRUE /\ coord'.drain = NoDrain
      /\ coord'.dispatch = coord.dispatch /\ coord'.pending = coord.pending
      /\ coord'.writes = coord.writes
  BY <1>1 DEF CoordType
<1>3. Dispatched(coord', agent', done') BY <1>2 DEF Dispatched
<1> QED BY <1>2, <1>3 DEF LoopTypes, Draining, Quiescent, Busy

(* The tails of the stopped streams are drained. *)
LEMMA EntryDrainKeeps ==
  ASSUME WorkerInv, Drives, EntryDrain
  PROVE  WorkerInv'
<1>1. exec.kind = "maintenance" /\ exec.stage = "Draining" /\ UNCHANGED <<sboot, wboot, workflow>>
  BY DEF EntryDrain, At
<1>2. task = "running" /\ pc' = "poll" /\ down' = down BY DEF Drives
<1>3. /\ LoopTypes /\ BootTypes /\ ExecSound /\ Dispatched(coord, agent, done)
      /\ NoControl(agent) /\ EntryTold
  BY <1>1, <1>2, RunningFacts DEF ControlExecs
<1>4. mode = "EnteringMaintenance" /\ exec # NoExec /\ active # NoRequest
  BY <1>1, <1>2, EntryFacts
<1>5. /\ BootTypes' /\ AllStopped(world) /\ (~Draining => Quiescent)
      /\ Draining => DrainedBut(world, recovering, coord.drain)
  BY <1>1, <1>3 DEF BootTypes, EntryTold
<1>6. CASE /\ ~Draining /\ exec' = exec /\ Goes
           /\ coord' = [coord EXCEPT !.drain = Drainable, !.quiescing = FALSE]
           /\ UNCHANGED <<recovering, agent, flight, done, world>>
  <2>1. /\ LoopTypes' /\ Dispatched(coord', agent', done') /\ Draining'
        /\ DrainedBut(world', recovering', coord'.drain)
    BY <1>3, <1>5, <1>6, DrainBegins
  <2>2. ExecSound' /\ exec' # NoExec /\ exec'.kind = exec.kind /\ exec'.finish = exec.finish
    BY <1>3, <1>4, <1>6 DEF ExecSound
  <2>3. EntryTold' /\ At("maintenance", "Draining")'
    BY <1>1, <1>5, <1>6, <2>1 DEF EntryTold, At
  <2>4. ResumeTold' /\ Recovers(coord', exec') /\ Controlled(agent', exec')
    BY <1>1, <1>3, <1>6 DEF ResumeTold, Recovers, Controlled, NoControl, OneControl, ControlExecs
  <2> QED BY <1>1, <1>2, <1>4, <1>5, <1>6, <2>1, <2>2, <2>3, <2>4, GoesKeeps
<1>7. CASE /\ DrainComplete /\ coord' = [coord EXCEPT !.drain = NoDrain, !.quiescing = TRUE]
           /\ Accept("ConvergingToMaintenance") /\ Goes
           /\ UNCHANGED <<recovering, agent, flight, done, world>>
  <2>1. /\ LoopTypes' /\ Dispatched(coord', agent', done') /\ ~Draining'
        /\ (~Busy => Quiescent')
    BY <1>3, <1>7, DrainEnds
  <2>2. coord.drain = {} /\ ~Busy /\ Draining
    BY <1>7 DEF DrainComplete, Draining, NoDrain
  <2>3. Quiescent' /\ DrainedBut(world', recovering', {}) BY <1>5, <1>7, <2>1, <2>2
  <2>4. /\ ExecSound' /\ exec' # NoExec /\ exec'.kind = exec.kind
        /\ exec'.stage = "ConvergingToMaintenance" /\ exec'.finish = exec.finish
    BY <1>3, <1>4, <1>7, StageAccepted DEF Stages
  <2>5. EntryTold' BY <1>5, <1>7, <2>3, <2>4 DEF EntryTold
  <2>6. ResumeTold' /\ Recovers(coord', exec') /\ Controlled(agent', exec')
    BY <1>1, <1>3, <1>7, <2>4 DEF ResumeTold, Recovers, Controlled, NoControl, OneControl, ControlExecs
  <2> QED BY <1>1, <1>2, <1>4, <1>5, <1>7, <2>1, <2>4, <2>5, <2>6, GoesKeeps
<1>8. CASE /\ coord' = [coord EXCEPT !.drain = NoDrain, !.quiescing = TRUE]
           /\ EndsIn("Faulted", "Failed")
           /\ UNCHANGED <<recovering, agent, flight, done, world>>
  <2>1. LoopTypes' /\ Dispatched(coord', agent', done') /\ coord'.drain = NoDrain
    BY <1>3, <1>8, DrainEnds
  <2>2. NoControl(agent') BY <1>3, <1>8
  <2> QED BY <1>2, <1>4, <1>5, <1>8, <2>1, <2>2, EndsInKeeps DEF Modes
<1>9. CASE Draining /\ StepRecording /\ exec' = exec
  <2>1. PICK e \in Outcomes : RecordingStep(e) /\ IF e = "ok" THEN Goes ELSE Raises(e)
    BY <1>9 DEF StepRecording
  <2>2. LoopKept(e) BY <1>3, <2>1, RecordingKeeps
  <2>3. /\ LoopTypes' /\ Dispatched(coord', agent', done') /\ Draining' /\ NoControl(agent')
        /\ e \in {"ok", "recovery", "port", "storage", "UnexpectedSessionPhase"}
        /\ \A n \in NodeSet : world'[n].state = world[n].state
        /\ DrainedBut(world', recovering', coord'.drain)
    BY <1>3, <1>5, <1>9, <2>2 DEF LoopKept
  <2>4. ExecSound' /\ Recovers(coord', exec')
    BY <1>1, <1>3, <1>9 DEF ExecSound, Recovers
  <2>5. CASE e = "ok"
    <3>1. AllStopped(world') BY <1>5, <2>3 DEF AllStopped, Stopped
    <3>2. EntryTold' /\ At("maintenance", "Draining")'
      BY <1>1, <1>9, <2>3, <3>1 DEF EntryTold, At
    <3>3. ResumeTold' /\ Controlled(agent', exec')
      BY <1>1, <1>9, <2>3 DEF ResumeTold, Controlled, NoControl, OneControl, ControlExecs
    <3> QED BY <1>1, <1>2, <1>4, <1>5, <1>9, <2>1, <2>3, <2>4, <2>5, <3>2, <3>3, GoesKeeps
  <2>6. CASE e # "ok"
    <3>1. e \notin InternalErrors \cup {"running"} BY <2>3 DEF InternalErrors
    <3> QED BY <1>2, <1>3, <1>5, <2>1, <2>3, <2>4, <2>6, <3>1, RaisesKeeps, RunningFacts
  <2> QED BY <2>5, <2>6
<1> QED BY <1>5, <1>6, <1>7, <1>8, <1>9 DEF EntryDrain

(* Maintenance is entered, or fallen back from. *)
LEMMA EntryCompleteKeeps ==
  ASSUME WorkerInv, Drives, EntryComplete
  PROVE  WorkerInv'
<1>1. /\ exec.kind = "maintenance" /\ exec.stage \in {"CompleteMaintenance", "CompleteIdle"}
      /\ NoWire /\ UNCHANGED <<sboot, wboot, workflow>>
      /\ \/ EndsIn("Maintenance", "Succeeded")
         \/ EndsIn("Faulted", "Failed")
         \/ /\ ~exec.finish /\ mode' = "Maintenance" /\ exec' = NoExec
            /\ UNCHANGED <<inbox, ledger, active, audit, task, submitted>>
  BY DEF EntryComplete, At
<1>2. task = "running" /\ pc' = "poll" /\ down' = down BY DEF Drives
<1>3. /\ LoopTypes /\ BootTypes /\ ExecSound /\ Dispatched(coord, agent, done)
      /\ NoControl(agent) /\ ~Draining /\ coord.drain = NoDrain /\ OpsInv
  BY <1>1, <1>2, RunningFacts DEF At, ControlExecs
<1>4. mode = "EnteringMaintenance" /\ exec # NoExec /\ active # NoRequest
      /\ (~exec.finish => workflow = "Entering")
  BY <1>1, <1>2, EntryFacts
<1>5. /\ LoopTypes' /\ Dispatched(coord', agent', done') /\ agent' = agent /\ coord' = coord
      /\ ~Draining'
  BY <1>1, <1>3, WireKept
<1>6. BootTypes' BY <1>1, <1>3 DEF BootTypes
<1>7. CASE EndsIn("Maintenance", "Succeeded")
  BY <1>2, <1>3, <1>4, <1>5, <1>6, <1>7, EndsInKeeps DEF Modes
<1>8. CASE EndsIn("Faulted", "Failed")
  BY <1>2, <1>3, <1>4, <1>5, <1>6, <1>8, EndsInKeeps DEF Modes
<1>9. CASE /\ ~exec.finish /\ mode' = "Maintenance" /\ exec' = NoExec
           /\ UNCHANGED <<inbox, ledger, active, audit, task, submitted>>
  <2>1. OpsInv' /\ mode' \in Modes /\ task' = "running"
    BY <1>2, <1>3, <1>9 DEF OpsInv, OpsTypes, Modes
  <2>2. exec'.kind \notin ExecKinds /\ ExecSound' BY <1>3, <1>9, ExecFacts DEF ExecSound
  <2>3. ModeSound'
    BY <1>1, <1>2, <1>4, <1>5, <1>9, <2>2 DEF ModeSound, ExecKinds, ControlExecs
  <2>4. EntryTold' /\ ResumeTold' /\ Recovers(coord', exec') /\ Controlled(agent', exec')
    BY <1>3, <1>5, <2>2
       DEF EntryTold, ResumeTold, Recovers, Controlled, NoControl, OneControl, ExecKinds, ControlExecs
  <2> QED BY <1>2, <1>5, <1>6, <2>1, <2>2, <2>3, <2>4, TaskGoesOn
<1> QED BY <1>1, <1>7, <1>8, <1>9
------------------------
(* Resuming recording. *)

(* What the task is while it resumes. *)
LEMMA ResumeFacts ==
  ASSUME WorkerInv, Drives, exec.kind = "resume"
  PROVE  /\ task = "running" /\ pc' = "poll" /\ down' = down
         /\ exec # NoExec /\ mode = "ResumingRecording" /\ active # NoRequest
         /\ LoopTypes /\ BootTypes /\ ExecSound /\ exec \in ExecType /\ exec.i \in Nat \ {0}
         /\ Dispatched(coord, agent, done) /\ ResumeTold
         /\ NoControl(agent) /\ ~Draining /\ coord.drain = NoDrain
<1>1. task = "running" /\ pc' = "poll" /\ down' = down BY DEF Drives
<1>2. /\ ModeSound /\ ExecSound /\ (exec.kind \notin ControlExecs => NoControl(agent))
      /\ LoopTypes /\ BootTypes /\ Dispatched(coord, agent, done) /\ ResumeTold
      /\ ~At("maintenance", "Draining") => ~Draining /\ coord.drain = NoDrain
  BY <1>1, RunningFacts
<1>3. exec # NoExec /\ exec \in ExecType /\ exec.i \in Nat \ {0}
  BY <1>2, ExecFacts DEF None
<1> QED BY <1>1, <1>2, <1>3 DEF ModeSound, ControlExecs, ExecKinds, At

(* The resume goes on. *)
LEMMA ResumeGoes ==
  ASSUME WorkerInv, Drives, exec.kind = "resume", Goes, workflow' = workflow,
         ExecSound', exec' # NoExec, exec'.kind = exec.kind, exec'.finish = exec.finish,
         LoopTypes', BootTypes', Dispatched(coord', agent', done'), agent' = agent, ~Draining', ResumeTold'
  PROVE  WorkerInv'
<1>1. /\ task = "running" /\ pc' = "poll" /\ down' = down
      /\ exec # NoExec /\ mode = "ResumingRecording" /\ NoControl(agent)
  BY ResumeFacts
<1>2. EntryTold' /\ Recovers(coord', exec') /\ Controlled(agent', exec')
  BY <1>1 DEF EntryTold, Recovers, Controlled, NoControl, OneControl, ControlExecs
<1> QED BY <1>1, <1>2, GoesKeeps

(* The resume ends without recording. *)
LEMMA ResumeEnds ==
  ASSUME WorkerInv, Drives, exec.kind = "resume", NoWire, UNCHANGED <<sboot, wboot>>,
         NEW m \in {"Maintenance", "Faulted", "Offline"}, EndsIn(m, "Failed")
  PROVE  WorkerInv'
<1>1. /\ task = "running" /\ pc' \in {"poll", "drive"} /\ down' = down /\ active # NoRequest
      /\ LoopTypes /\ BootTypes /\ Dispatched(coord, agent, done)
      /\ NoControl(agent) /\ coord.drain = NoDrain
  BY ResumeFacts
<1>2. LoopTypes' /\ Dispatched(coord', agent', done') /\ agent' = agent /\ coord' = coord
  BY <1>1, WireKept
<1> QED BY <1>1, <1>2, EndsInKeeps DEF Modes, BootTypes

(* The plan of the resume goes on to a stage it may be in. *)
LEMMA ResumeAccepted ==
  ASSUME WorkerInv, Drives, exec.kind = "resume", NoWire, UNCHANGED <<sboot, wboot, workflow>>, Goes,
         NEW s \in {"Faulted", "Offline", "ReconcilingStreams", "CheckingAdmission",
                    "ActivatingNodes", "ResumingScheduling"},
         Accept(s),
         s \in {"CheckingAdmission", "ActivatingNodes", "ResumingScheduling"} => ResumeReady
  PROVE  WorkerInv'
<1>1. /\ LoopTypes /\ BootTypes /\ ExecSound /\ exec # NoExec
      /\ Dispatched(coord, agent, done) /\ ~Draining
  BY ResumeFacts
<1>2. /\ LoopTypes' /\ Dispatched(coord', agent', done') /\ agent' = agent
      /\ ~Draining' /\ (ResumeReady' <=> ResumeReady)
  BY <1>1, WireKept
<1>3. /\ ExecSound' /\ exec' # NoExec /\ exec'.kind = exec.kind /\ exec'.stage = s /\ exec'.i = 1
      /\ exec'.finish = exec.finish
  BY <1>1, StageAccepted DEF Stages
<1>4. ResumeTold' /\ BootTypes' BY <1>1, <1>2, <1>3 DEF ResumeTold, BootTypes
<1> QED BY <1>2, <1>3, <1>4, ResumeGoes

(* A node is verified to be in Maintenance. *)
LEMMA ResumeVerifyKeeps ==
  ASSUME WorkerInv, Drives, ResumeVerify
  PROVE  WorkerInv'
<1>1. /\ exec.kind = "resume" /\ exec.stage = "VerifyingNodes" /\ exec.i <= Len(Nodes)
      /\ NoWire /\ UNCHANGED <<sboot, wboot, workflow>>
  BY DEF ResumeVerify, At
<1>2. /\ LoopTypes /\ BootTypes /\ ExecSound /\ exec # NoExec /\ exec \in ExecType
      /\ Dispatched(coord, agent, done) /\ ~Draining /\ exec.i \in Nat \ {0}
  BY <1>1, ResumeFacts
<1>3. CASE \E n \in NodeSet : exec' = [exec EXCEPT !.boots[n] = world[n].boot, !.i = @ + 1] /\ Goes
  <2>1. PICK n \in NodeSet : exec' = [exec EXCEPT !.boots[n] = world[n].boot, !.i = @ + 1]
    BY <1>3
  <2>2. PICK boots : boots = [exec.boots EXCEPT ![n] = world[n].boot] OBVIOUS
  <2>3. boots \in [NodeSet -> Nat]
    <3>1. world[n].boot \in Nat BY <1>2 DEF LoopTypes, WorldType
    <3> QED BY <1>2, <2>2, <3>1, ExecFacts
  <2>4. PICK x : x = [exec EXCEPT !.boots = boots] OBVIOUS
  <2>5. /\ x \in ExecType /\ x.kind = exec.kind /\ x.stage = exec.stage /\ x.node = exec.node
        /\ x.finish = exec.finish /\ x.i = exec.i
    BY <1>2, <2>3, <2>4 DEF ExecType
  <2>6. exec' = [x EXCEPT !.i = @ + 1] BY <2>1, <2>2, <2>4
  <2>7. /\ exec' \in ExecType /\ exec'.kind = exec.kind /\ exec'.stage = exec.stage
        /\ exec'.node = exec.node /\ exec'.finish = exec.finish
    BY <1>2, <2>5, <2>6 DEF ExecType
  <2>8. ExecSound' /\ exec' # NoExec BY <1>2, <2>7, ExecMoved
  <2>9. LoopTypes' /\ Dispatched(coord', agent', done') /\ agent' = agent /\ ~Draining'
    BY <1>1, <1>2, WireKept
  <2>10. ResumeTold' /\ BootTypes' BY <1>1, <1>2, <2>7 DEF ResumeTold, BootTypes
  <2> QED BY <1>1, <1>3, <2>7, <2>8, <2>9, <2>10, ResumeGoes
<1>4. CASE Accept("Offline") /\ Goes BY <1>1, <1>4, ResumeAccepted
<1>5. CASE EndsIn("Faulted", "Failed") BY <1>1, <1>5, ResumeEnds
<1>6. Nodes[exec.i] \in NodeSet BY <1>1, <1>2, NodeFacts
<1> QED BY <1>3, <1>4, <1>5, <1>6 DEF ResumeVerify

(* Every node is verified. *)
LEMMA ResumeVerifiedKeeps ==
  ASSUME WorkerInv, Drives, ResumeVerified
  PROVE  WorkerInv'
<1>1. /\ exec.kind = "resume" /\ NoWire /\ UNCHANGED <<sboot, wboot, workflow>>
  BY DEF ResumeVerified, At
<1>2. (\A n \in NodeSet : Reconcilable(n)) => ResumeReady BY NodeFacts DEF Reconcilable
<1>3. \/ Accept("ReconcilingStreams") /\ Goes
      \/ Accept("CheckingAdmission") /\ Goes /\ ResumeReady
      \/ EndsIn("Faulted", "Failed")
  BY <1>2 DEF ResumeVerified
<1> QED BY <1>1, <1>3, ResumeAccepted, ResumeEnds

(* The streams are reconciled before they start. *)
LEMMA ResumeReconcileKeeps ==
  ASSUME WorkerInv, Drives, ResumeReconcile
  PROVE  WorkerInv'
<1>1. exec.kind = "resume" /\ exec.stage = "ReconcilingStreams" /\ workflow' = workflow
  BY DEF ResumeReconcile, At
<1>2. /\ LoopTypes /\ BootTypes /\ ExecSound /\ exec # NoExec /\ exec \in ExecType
      /\ Dispatched(coord, agent, done) /\ ~Draining /\ exec.i \in Nat \ {0} /\ ResumeTold
  BY <1>1, ResumeFacts
<1>3. CASE /\ exec.i > Len(Nodes) /\ Accept("CheckingAdmission") /\ Goes /\ NoWire
           /\ UNCHANGED <<sboot, wboot>>
  <2>1. exec.i > 1
    <3>1. 1 \in DOMAIN Nodes BY WorkerAssumption, EmptySeq
    <3> QED BY <1>2, <1>3, <3>1, NodeFacts
  <2>2. ResumeReady BY <1>1, <1>2, <2>1 DEF ResumeTold
  <2> QED BY <1>1, <1>3, <2>2, ResumeAccepted
<1>4. CASE EndsIn("Maintenance", "Failed") /\ NoWire /\ UNCHANGED <<sboot, wboot>>
  BY <1>1, <1>4, ResumeEnds
<1>5. CASE /\ exec.i <= Len(Nodes)
           /\ LET n == Nodes[exec.i] IN
              IF NeedsRollover(n)
              THEN /\ ResumeReady
                   /\ sboot' = [sboot EXCEPT ![n] = exec.boots[n]]
                   /\ wboot' = [wboot EXCEPT ![n] = exec.boots[n]]
                   /\ recovering' = recovering \ {n}
              ELSE Reconcilable(n) /\ UNCHANGED <<sboot, wboot, recovering>>
           /\ exec' = [exec EXCEPT !.i = @ + 1] /\ Goes
           /\ UNCHANGED <<coord, agent, flight, done, world>>
  <2>1. Nodes[exec.i] \in NodeSet BY <1>2, <1>5, NodeFacts
  <2>2. ResumeReady BY <1>5 DEF Reconcilable
  <2>3. exec.boots[Nodes[exec.i]] \in Nat BY <1>2, <2>1, ExecFacts
  <2>4. BootTypes' /\ recovering' \subseteq recovering
    BY <1>2, <1>5, <2>1, <2>3 DEF BootTypes
  <2>5. LoopTypes' /\ Dispatched(coord', agent', done') /\ ~Draining' /\ ResumeReady'
    BY <1>2, <1>5, <2>2, <2>4 DEF LoopTypes, Draining, ResumeReady, Quiescent, Busy
  <2>6. /\ exec' \in ExecType /\ exec'.kind = exec.kind /\ exec'.stage = exec.stage
        /\ exec'.node = exec.node /\ exec'.finish = exec.finish
    BY <1>2, <1>5 DEF ExecType
  <2>7. ExecSound' /\ exec' # NoExec BY <1>2, <2>6, ExecMoved
  <2>8. ResumeTold' BY <1>1, <2>5, <2>6 DEF ResumeTold
  <2> QED BY <1>1, <1>5, <2>4, <2>5, <2>6, <2>7, <2>8, ResumeGoes
<1> QED BY <1>3, <1>4, <1>5 DEF ResumeReconcile

(* The storage admits the recording. *)
LEMMA ResumeAdmissionKeeps ==
  ASSUME WorkerInv, Drives, ResumeAdmission
  PROVE  WorkerInv'
<1>1. /\ exec.kind = "resume" /\ exec.stage = "CheckingAdmission" /\ NoWire
      /\ UNCHANGED <<sboot, wboot, workflow>> /\ Goes
  BY DEF ResumeAdmission, At
<1>2. ResumeReady BY <1>1, ResumeFacts DEF ResumeTold
<1> QED BY <1>1, <1>2, ResumeAccepted DEF ResumeAdmission

(* A node is activated, or safed when one fails. *)
LEMMA ResumeActivateKeeps ==
  ASSUME WorkerInv, Drives, ResumeActivate
  PROVE  WorkerInv'
<1>1. exec.kind = "resume" /\ exec.stage = "ActivatingNodes" /\ workflow' = workflow
  BY DEF ResumeActivate, At
<1>2. /\ LoopTypes /\ BootTypes /\ ExecSound /\ exec # NoExec /\ exec \in ExecType
      /\ Dispatched(coord, agent, done) /\ ~Draining /\ exec.i \in Nat \ {0}
      /\ NoControl(agent) /\ task = "running" /\ pc' \in {"poll", "start", "drive"} /\ down' = down
  BY <1>1, ResumeFacts
<1>3. ResumeReady BY <1>1, ResumeFacts DEF ResumeTold
<1>4. CASE exec.i > Len(Nodes) BY <1>1, <1>3, <1>4, ResumeAccepted DEF ResumeActivate
<1>5. CASE ~(exec.i > Len(Nodes))
  <2>1. PICK n \in NodeSet : n = Nodes[exec.i] BY <1>2, <1>5, NodeFacts
  <2>2. PICK out \in {"reached", "restarted", "failed", "offline", "port", "exclusive"} :
            /\ GroupNode(n, "Recording", out)
            /\ CASE out \in {"reached", "restarted"} -> exec' = [exec EXCEPT !.i = @ + 1] /\ Goes
                 [] out = "failed" -> Accept("Faulted") /\ Goes
                 [] out = "offline" -> Accept("Offline") /\ Goes
                 [] out \in {"port", "exclusive"} -> Raises(out) /\ exec' = NoExec
    BY <1>5, <2>1 DEF ResumeActivate
  <2>3. agent = <<>> BY <1>2, <1>3, QuiescentAgent DEF ResumeReady
  <2>4. /\ LoopTypes' /\ Dispatched(coord', agent', done')
        /\ UNCHANGED <<coord, recovering, agent, flight, done, sboot, wboot>>
        /\ ~Draining' /\ ResumeReady'
        /\ out \in {"reached", "restarted", "failed", "offline", "port"}
        /\ out \in {"failed", "offline"} => world' = world
    BY <1>2, <1>3, <2>2, <2>3, GroupKeeps
  <2>5. BootTypes' BY <1>2, <2>4 DEF BootTypes
  <2>6. CASE out \in {"reached", "restarted"}
    <3>1. exec' = [exec EXCEPT !.i = @ + 1] /\ Goes BY <2>2, <2>6
    <3>2. /\ exec' \in ExecType /\ exec'.kind = exec.kind /\ exec'.stage = exec.stage
          /\ exec'.node = exec.node /\ exec'.finish = exec.finish
      BY <1>2, <3>1 DEF ExecType
    <3>3. ExecSound' /\ exec' # NoExec BY <1>2, <3>2, ExecMoved
    <3>4. ResumeTold' BY <1>1, <2>4, <3>2 DEF ResumeTold
    <3> QED BY <1>1, <2>4, <2>5, <3>1, <3>2, <3>3, <3>4, ResumeGoes
  <2>7. CASE out \in {"failed", "offline"}
    <3>1. PICK s \in {"Faulted", "Offline"} : Accept(s) /\ Goes BY <2>2, <2>7
    <3>2. NoWire /\ UNCHANGED <<sboot, wboot>> BY <2>4, <2>7 DEF NoWire
    <3> QED BY <1>1, <3>1, <3>2, ResumeAccepted
  <2>8. CASE out = "port"
    <3>1. Raises(out) /\ exec' = NoExec BY <2>2, <2>8
    <3>2. ExecSound' /\ Recovers(coord', exec')
      BY <3>1 DEF ExecSound, Recovers, NoExec, None
    <3>3. out \notin InternalErrors \cup {"running"} BY <2>8 DEF InternalErrors
    <3> QED BY <1>2, <2>4, <2>5, <3>1, <3>2, <3>3, RaisesKeeps
  <2> QED BY <2>4, <2>6, <2>7, <2>8
<1> QED BY <1>4, <1>5

(* The coordinator schedules again. *)
LEMMA ResumeSchedulingKeeps ==
  ASSUME WorkerInv, Drives, ResumeScheduling
  PROVE  WorkerInv'
<1>1. /\ exec.kind = "resume" /\ exec.stage = "ResumingScheduling"
      /\ UNCHANGED <<recovering, agent, flight, done, world, sboot, wboot, workflow>>
  BY DEF ResumeScheduling, At
<1>2. ResumeReady BY <1>1, ResumeFacts DEF ResumeTold
<1>3. coord' = [coord EXCEPT !.quiescing = FALSE] /\ Accept("Complete") /\ Goes
  BY <1>2 DEF ResumeScheduling
<1>4. LoopTypes /\ BootTypes /\ ExecSound /\ exec # NoExec /\ Dispatched(coord, agent, done) /\ ~Draining
  BY <1>1, ResumeFacts
<1>5. /\ coord' \in CoordType /\ coord'.quiescing = FALSE /\ coord'.drain = coord.drain
      /\ coord'.dispatch = coord.dispatch /\ coord'.pending = coord.pending
  BY <1>3, <1>4 DEF LoopTypes, CoordType
<1>6. /\ ExecSound' /\ exec' # NoExec /\ exec'.kind = exec.kind /\ exec'.stage = "Complete"
      /\ exec'.finish = exec.finish
  BY <1>3, <1>4, StageAccepted DEF Stages
<1>7. LoopTypes' /\ BootTypes' /\ ~Draining'
  BY <1>1, <1>4, <1>5 DEF LoopTypes, BootTypes, Draining
<1>8. Dispatched(coord', agent', done') BY <1>1, <1>4, <1>5 DEF Dispatched
<1>9. ResumeTold' BY <1>5, <1>6 DEF ResumeTold
<1> QED BY <1>1, <1>3, <1>6, <1>7, <1>8, <1>9, ResumeGoes

(* The resume is complete, or has failed. *)
LEMMA ResumeCompleteKeeps ==
  ASSUME WorkerInv, Drives, ResumeComplete
  PROVE  WorkerInv'
<1>1. exec.kind = "resume" /\ NoWire /\ UNCHANGED <<sboot, wboot>>
  BY DEF ResumeComplete, At
<1>2. CASE exec.stage = "Complete" /\ EndsIn("Recording", "Succeeded")
  <2>1. /\ task = "running" /\ pc' \in {"poll", "drive"} /\ down' = down /\ active # NoRequest
        /\ LoopTypes /\ BootTypes /\ Dispatched(coord, agent, done)
        /\ NoControl(agent) /\ coord.drain = NoDrain /\ ~coord.quiescing
    BY <1>1, <1>2, ResumeFacts DEF ResumeTold
  <2>2. LoopTypes' /\ Dispatched(coord', agent', done') /\ agent' = agent /\ coord' = coord
    BY <1>1, <2>1, WireKept
  <2> QED BY <1>1, <1>2, <2>1, <2>2, EndsInKeeps DEF Modes, BootTypes
<1>3. CASE EndsIn("Faulted", "Failed") \/ EndsIn("Offline", "Failed")
  BY <1>1, <1>3, ResumeEnds
<1> QED BY <1>2, <1>3 DEF ResumeComplete, At
------------------------
(* Configuration, commissioning and restart: one control work. *)

(* What the task is while a control work runs. *)
LEMMA ControlFacts ==
  ASSUME WorkerInv, Drives, exec.kind \in ControlExecs
  PROVE  /\ task = "running" /\ pc' = "poll" /\ down' = down
         /\ exec # NoExec /\ active # NoRequest
         /\ mode \in Modes \ {"EnteringMaintenance", "ResumingRecording"}
         /\ LoopTypes /\ BootTypes /\ ExecSound /\ exec \in ExecType /\ exec.i \in Nat \ {0}
         /\ Dispatched(coord, agent, done) /\ OneControl(agent)
         /\ exec.stage = "settling" => NoControl(agent)
         /\ ~Draining /\ coord.drain = NoDrain
         /\ mode = "Recording" => ~coord.quiescing
<1>1. task = "running" /\ pc' = "poll" /\ down' = down BY DEF Drives
<1>2. /\ ModeSound /\ ExecSound /\ Controlled(agent, exec) /\ mode \in Modes
      /\ LoopTypes /\ BootTypes /\ Dispatched(coord, agent, done)
      /\ ~At("maintenance", "Draining") => ~Draining /\ coord.drain = NoDrain
  BY <1>1, RunningFacts
<1>3. exec # NoExec /\ exec \in ExecType /\ exec.i \in Nat \ {0}
  BY <1>2, ExecFacts DEF None, ControlExecs
<1> QED BY <1>1, <1>2, <1>3 DEF ModeSound, ControlExecs, ExecKinds, At, Controlled

(* The control work goes on. *)
LEMMA ControlGoes ==
  ASSUME WorkerInv, Drives, exec.kind \in ControlExecs, Goes, workflow' = workflow,
         exec' \in ExecType, exec'.kind = exec.kind, exec'.node = exec.node, exec'.finish = exec.finish,
         LoopTypes', BootTypes', coord' = coord, Dispatched(coord', agent', done'), OneControl(agent'),
         exec'.stage = "settling" => NoControl(agent')
  PROVE  WorkerInv'
<1>1. /\ task = "running" /\ pc' = "poll" /\ down' = down /\ exec # NoExec /\ ExecSound
      /\ ~Draining /\ (mode = "Recording" => ~coord.quiescing)
  BY ControlFacts
<1>2. ExecSound' /\ exec' # NoExec BY <1>1, ExecMoved
<1>3. ~Draining' BY <1>1 DEF Draining
<1>4. EntryTold' /\ ResumeTold' /\ Recovers(coord', exec') /\ Controlled(agent', exec')
  BY DEF EntryTold, ResumeTold, Recovers, Controlled, ControlExecs
<1> QED BY <1>1, <1>2, <1>3, <1>4, GoesKeeps

(* The control work has ended its operation. *)
LEMMA ControlEnds ==
  ASSUME WorkerInv, Drives, exec.kind \in ControlExecs,
         NEW m \in Modes \ {"EnteringMaintenance", "ResumingRecording"},
         m = "Recording" => mode = "Recording",
         NEW phase \in {"Succeeded", "Failed"}, EndsIn(m, phase),
         LoopTypes', BootTypes', coord' = coord, Dispatched(coord', agent', done'), NoControl(agent')
  PROVE  WorkerInv'
<1>1. /\ task = "running" /\ pc' \in {"poll", "drive"} /\ down' = down /\ active # NoRequest
      /\ coord.drain = NoDrain /\ (mode = "Recording" => ~coord.quiescing)
  BY ControlFacts
<1> QED BY <1>1, EndsInKeeps

(* The control work is abandoned at its deadline. *)
LEMMA ControlAbandoned ==
  ASSUME WorkerInv, Drives, exec.kind \in ControlExecs, Abandon, EndsIn(mode, "Failed"),
         UNCHANGED <<sboot, wboot>>
  PROVE  WorkerInv'
<1>1. /\ LoopTypes /\ BootTypes /\ Dispatched(coord, agent, done) /\ OneControl(agent)
      /\ mode \in Modes \ {"EnteringMaintenance", "ResumingRecording"}
  BY ControlFacts
<1>2. /\ agent' \in Seq(WorkType) /\ UNCHANGED <<coord, recovering, flight, done, world>>
      /\ Dispatched(coord, agent', done) /\ NoControl(agent')
  BY <1>1, Abandoned
<1>3. LoopTypes' /\ BootTypes' /\ Dispatched(coord', agent', done')
  BY <1>1, <1>2 DEF LoopTypes, BootTypes
<1> QED BY <1>1, <1>2, <1>3, ControlEnds

(* Nothing moves but the execution. *)
LEMMA ControlIdles ==
  ASSUME WorkerInv, Drives, exec.kind \in ControlExecs, NoWire, UNCHANGED <<sboot, wboot, workflow>>,
         exec' = exec, Goes
  PROVE  WorkerInv'
<1>1. /\ LoopTypes /\ BootTypes /\ exec \in ExecType
      /\ Dispatched(coord, agent, done) /\ OneControl(agent)
      /\ exec.stage = "settling" => NoControl(agent)
  BY ControlFacts
<1>2. LoopTypes' /\ Dispatched(coord', agent', done') /\ agent' = agent /\ coord' = coord
  BY <1>1, WireKept
<1> QED BY <1>1, <1>2, ControlGoes DEF BootTypes

(* The endpoint steps, and its event is lost to the coordinator. *)
LEMMA ControlSteps ==
  ASSUME WorkerInv, Drives, exec.kind \in ControlExecs, NEW ev, Endpoint(ev),
         UNCHANGED <<coord, recovering, sboot, wboot>>
  PROVE  /\ LoopTypes' /\ BootTypes' /\ Dispatched(coord', agent', done') /\ OneControl(agent')
         /\ ev = "reply" \/ exec.stage = "settling" => NoControl(agent')
<1>1. /\ LoopTypes /\ BootTypes /\ Dispatched(coord, agent, done) /\ OneControl(agent)
      /\ exec.stage = "settling" => NoControl(agent)
  BY ControlFacts
<1>2. /\ agent' \in Seq(WorkType) /\ flight' \in BOOLEAN
      /\ done' \in {None, "data", "nodata", "recovery", "exhausted"}
      /\ world' \in [NodeSet -> WorldType]
      /\ Dispatched(coord, agent', done') /\ OneControl(agent')
      /\ NoControl(agent) => NoControl(agent')
      /\ ev = "reply" => NoControl(agent')
  BY <1>1, EndpointKeeps
<1> QED BY <1>1, <1>2 DEF LoopTypes, BootTypes

(* The configuration of a node, one event. *)
LEMMA ConfigurationStepKeeps ==
  ASSUME WorkerInv, Drives, ConfigurationStep
  PROVE  WorkerInv'
<1>1. exec.kind = "configuration" /\ exec.kind \in ControlExecs /\ exec.stage = "wait"
      /\ UNCHANGED <<coord, recovering, sboot, wboot>>
  BY DEF ConfigurationStep, At, ControlExecs
<1>2. PICK ev \in {"handoff", "waiting", "sent", "timeout", "error", "data", "nodata",
                  "recovery", "exhausted", "time", "telemetry", "reply"} :
        /\ Endpoint(ev)
        /\ CASE ev = "reply" /\ ~Expired ->
                  \/ ConfigurationApplied(TRUE)
                  \/ ConfigurationApplied(FALSE)
                  \/ EndsIn(mode, "Failed") /\ workflow' = workflow
             [] ev = "error" ->
                  exec' = [exec EXCEPT !.err = TRUE] /\ Goes /\ workflow' = workflow
             [] OTHER -> exec' = exec /\ Goes /\ workflow' = workflow
  BY DEF ConfigurationStep
<1>3. /\ LoopTypes' /\ BootTypes' /\ Dispatched(coord', agent', done') /\ OneControl(agent')
      /\ ev = "reply" => NoControl(agent')
  BY <1>1, <1>2, ControlSteps
<1>4. /\ task = "running" /\ pc' = "poll" /\ down' = down /\ exec \in ExecType /\ ~Draining
      /\ mode \in Modes \ {"EnteringMaintenance", "ResumingRecording"}
      /\ mode = "Recording" => ~coord.quiescing
  BY <1>1, ControlFacts
<1>5. CASE exec' \in {exec, [exec EXCEPT !.err = TRUE]} /\ Goes /\ workflow' = workflow
  <2>1. /\ exec' \in ExecType /\ exec'.kind = exec.kind /\ exec'.node = exec.node
        /\ exec'.finish = exec.finish /\ exec'.stage = "wait"
    BY <1>1, <1>4, <1>5 DEF ExecType
  <2> QED BY <1>1, <1>3, <1>5, <2>1, ControlGoes
<1>6. CASE ev = "reply" /\ (EndsIn(mode, "Failed") \/ EndsIn(mode, "Succeeded"))
  BY <1>1, <1>3, <1>4, <1>6, ControlEnds
<1>7. CASE ev = "reply" /\ exec' = NoExec /\ Goes /\ workflow' = "ReadyToResume"
  <2>1. ~Draining' /\ (mode = "Recording" => ~coord'.quiescing)
    BY <1>1, <1>4 DEF Draining
  <2> QED BY <1>1, <1>3, <1>4, <1>7, <2>1, RestsKeeps
<1>8. \/ exec' \in {exec, [exec EXCEPT !.err = TRUE]} /\ Goes /\ workflow' = workflow
      \/ ev = "reply" /\ (EndsIn(mode, "Failed") \/ EndsIn(mode, "Succeeded"))
      \/ ev = "reply" /\ exec' = NoExec /\ Goes /\ workflow' = "ReadyToResume"
  BY <1>2 DEF ConfigurationApplied
<1> QED BY <1>5, <1>6, <1>7, <1>8

(* The configuration misses its deadline. *)
LEMMA ConfigurationExpireKeeps ==
  ASSUME WorkerInv, Drives, ConfigurationExpire
  PROVE  WorkerInv'
  BY ControlAbandoned DEF ConfigurationExpire, At, ControlExecs

(* The commissioning misses its deadline. *)
LEMMA CommissioningExpireKeeps ==
  ASSUME WorkerInv, Drives, CommissioningExpire
  PROVE  WorkerInv'
<1>1. exec.kind \in ControlExecs /\ UNCHANGED <<sboot, wboot, workflow>>
  BY DEF CommissioningExpire, At, ControlExecs
<1>2. \/ Abandon /\ EndsIn(mode, "Failed")
      \/ NoWire /\ exec' = exec /\ Goes
  BY DEF CommissioningExpire
<1> QED BY <1>1, <1>2, ControlAbandoned, ControlIdles

(* The next address is probed. *)
LEMMA CommissioningProbeKeeps ==
  ASSUME WorkerInv, Drives, CommissioningProbe
  PROVE  WorkerInv'
<1>1. /\ exec.kind \in ControlExecs /\ exec.stage = "Scan" /\ agent = <<>>
      /\ UNCHANGED <<sboot, wboot, workflow>>
  BY DEF CommissioningProbe, At, ControlExecs
<1>2. /\ LoopTypes /\ BootTypes /\ Dispatched(coord, agent, done) /\ exec \in ExecType
      /\ mode \in Modes \ {"EnteringMaintenance", "ResumingRecording"}
  BY <1>1, ControlFacts
<1>3. NoControl(agent) BY <1>1 DEF NoControl
<1>4. CASE EndsIn(mode, "Succeeded") /\ NoWire
  <2>1. LoopTypes' /\ Dispatched(coord', agent', done') /\ agent' = agent /\ coord' = coord
    BY <1>2, <1>4, WireKept
  <2> QED BY <1>1, <1>2, <1>3, <1>4, <2>1, ControlEnds DEF BootTypes
<1>5. CASE SubmitControl(None) /\ exec' = exec /\ Goes
  <2>1. /\ agent' = Append(agent, Control(None)) /\ flight' \in BOOLEAN
        /\ UNCHANGED <<coord, recovering, done, world>>
    BY <1>5 DEF SubmitControl
  <2>2. agent \in Seq(WorkType) BY <1>2 DEF LoopTypes
  <2>3. agent' \in Seq(WorkType) /\ Dispatched(coord, agent', done) /\ OneControl(agent')
    BY <1>2, <1>3, <2>1, <2>2, ControlSubmitted
  <2>4. LoopTypes' /\ BootTypes' /\ Dispatched(coord', agent', done')
    BY <1>1, <1>2, <2>1, <2>3 DEF LoopTypes, BootTypes
  <2> QED BY <1>1, <1>2, <1>5, <2>1, <2>3, <2>4, ControlGoes
<1> QED BY <1>4, <1>5 DEF CommissioningProbe

(* The commissioning, one event. *)
LEMMA CommissioningStepKeeps ==
  ASSUME WorkerInv, Drives, CommissioningStep
  PROVE  WorkerInv'
<1>1. PICK stage \in CommissioningStages, ev \in {"waiting", "sent", "timeout", "error", "reply"} :
        /\ At("commissioning", stage) /\ Endpoint(ev)
        /\ CASE ev = "error" -> exec' = NoExec /\ Raises("CommissioningFailed")
             [] ev = "reply" /\ stage = "Scan" -> exec' = [exec EXCEPT !.i = @ + 1] /\ Goes
             [] ev = "reply" /\ stage = "Verifying" ->
                    \/ EndsIn(mode, "Succeeded")
                    \/ exec' = exec /\ Goes
             [] OTHER -> exec' = exec /\ Goes
        /\ UNCHANGED <<coord, recovering, sboot, wboot, reboots, workflow>>
  BY DEF CommissioningStep
<1>2. exec.kind \in ControlExecs /\ exec.stage # "settling" /\ workflow' = workflow
      /\ UNCHANGED <<coord, recovering, sboot, wboot>>
  BY <1>1 DEF At, ControlExecs, CommissioningStages
<1>3. /\ LoopTypes' /\ BootTypes' /\ Dispatched(coord', agent', done') /\ OneControl(agent')
      /\ ev = "reply" => NoControl(agent')
  BY <1>1, <1>2, ControlSteps
<1>4. /\ task = "running" /\ pc' \in {"poll", "start", "drive"} /\ down' = down
      /\ exec \in ExecType /\ exec.i \in Nat \ {0}
      /\ mode \in Modes \ {"EnteringMaintenance", "ResumingRecording"}
  BY <1>2, ControlFacts
<1>5. CASE exec' \in {exec, [exec EXCEPT !.i = @ + 1]} /\ Goes
  <2>1. /\ exec' \in ExecType /\ exec'.kind = exec.kind /\ exec'.node = exec.node
        /\ exec'.finish = exec.finish /\ exec'.stage = exec.stage
    BY <1>4, <1>5 DEF ExecType
  <2> QED BY <1>2, <1>3, <1>5, <2>1, ControlGoes
<1>6. CASE ev = "reply" /\ EndsIn(mode, "Succeeded")
  BY <1>2, <1>3, <1>4, <1>6, ControlEnds
<1>7. CASE exec' = NoExec /\ Raises("CommissioningFailed")
  <2>1. ExecSound' /\ Recovers(coord', exec')
    BY <1>7 DEF ExecSound, Recovers, NoExec, None
  <2> QED BY <1>3, <1>4, <1>7, <2>1, RaisesKeeps DEF InternalErrors
<1> QED BY <1>1, <1>5, <1>6, <1>7

(* The address is assigned, and verified next. *)
LEMMA CommissioningAssignedKeeps ==
  ASSUME WorkerInv, Drives, CommissioningAssigned
  PROVE  WorkerInv'
<1>1. /\ exec.kind \in ControlExecs /\ done = None /\ Goes /\ agent' = <<Control(None)>>
      /\ flight' = FALSE /\ exec' = [exec EXCEPT !.stage = "Verifying"]
      /\ UNCHANGED <<coord, recovering, done, world, sboot, wboot, workflow>>
  BY DEF CommissioningAssigned, At, ControlExecs
<1>2. LoopTypes /\ BootTypes /\ Dispatched(coord, agent, done) /\ exec \in ExecType
  BY <1>1, ControlFacts
<1>3. PICK c \in WorkType : c = Control(None) /\ c.kind = "control" BY WorkFacts
<1>4. agent' \in Seq(WorkType) /\ DOMAIN agent' = {1} /\ agent'[1] = c BY <1>1, <1>3
<1>5. OnlyControl(agent') /\ OneControl(agent')
  BY <1>3, <1>4 DEF OnlyControl, OneControl
<1>6. Dispatched(coord, agent', None)
  BY <1>2, <1>5, NothingDispatched DEF Dispatched, DrainDispatch
<1>7. LoopTypes' /\ BootTypes' /\ Dispatched(coord', agent', done')
  BY <1>1, <1>2, <1>4, <1>6 DEF LoopTypes, BootTypes
<1>8. /\ exec' \in ExecType /\ exec'.kind = exec.kind /\ exec'.node = exec.node
      /\ exec'.finish = exec.finish /\ exec'.stage = "Verifying"
  <2>1. "Verifying" \in Stages BY DEF Stages
  <2> QED BY <1>1, <1>2, <2>1 DEF ExecType
<1> QED BY <1>1, <1>5, <1>7, <1>8, ControlGoes

(* The restart misses its deadline. *)
LEMMA RestartExpireKeeps ==
  ASSUME WorkerInv, Drives, RestartExpire
  PROVE  WorkerInv'
<1>1. exec.kind \in ControlExecs /\ UNCHANGED <<sboot, wboot, workflow>>
  BY DEF RestartExpire, At, ControlExecs
<1>2. \/ Abandon /\ EndsIn(mode, "Failed")
      \/ NoWire /\ exec' = exec /\ Goes
  BY DEF RestartExpire
<1> QED BY <1>1, <1>2, ControlAbandoned, ControlIdles

(* A node reboots. *)
LEMMA RebootKeeps ==
  ASSUME world \in [NodeSet -> WorldType], NEW n \in NodeSet
  PROVE  LET v == Rebooted(world, n)
         IN  /\ v \in [NodeSet -> WorldType]
             /\ \A m \in NodeSet : /\ Stopped(world, m) => Stopped(v, m)
                                   /\ world[m].tail = 0 => v[m].tail = 0
<1>1. PICK r : r = [state |-> "Idle", boot |-> world[n].boot + 1, tail |-> 0] OBVIOUS
<1>2. r \in WorldType /\ r.tail = 0 /\ r.state = "Idle" BY <1>1 DEF WorldType
<1>3. Rebooted(world, n) = [world EXCEPT ![n] = r] BY <1>1 DEF Rebooted
<1> QED BY <1>2, <1>3 DEF Stopped

(* The restart of a node, one event. *)
LEMMA RestartStepKeeps ==
  ASSUME WorkerInv, Drives, RestartStep
  PROVE  WorkerInv'
<1>1. PICK ev \in {"handoff", "waiting", "sent", "timeout", "error", "reply", "time",
               "telemetry", "data", "nodata", "recovery", "exhausted"} :
        IF ev = "reply"
        THEN /\ agent # <<>> /\ flight /\ Head(agent).kind = "control" /\ done = None
             /\ agent' = Tail(agent) /\ flight' = FALSE /\ done' = done
             /\ \/ /\ world' = Rebooted(world, exec.node)
                   /\ exec' = [exec EXCEPT !.stage = "settling", !.due = FALSE]
                \/ UNCHANGED <<world, exec>>
        ELSE Endpoint(ev) /\ exec' = [exec EXCEPT !.err = ev = "error"]
  BY DEF RestartStep
<1>2. /\ exec.kind = "restart" /\ exec.kind \in ControlExecs /\ exec.stage = "wait" /\ Goes
      /\ UNCHANGED <<coord, recovering, sboot, wboot, workflow>>
  BY DEF RestartStep, At, ControlExecs
<1>3. /\ LoopTypes /\ BootTypes /\ Dispatched(coord, agent, done) /\ exec \in ExecType
      /\ OneControl(agent) /\ exec.node \in NodeSet
  BY <1>2, ControlFacts, ExecFacts
<1>4. CASE ev = "reply"
  <2>1. /\ agent' = Tail(agent) /\ flight' = FALSE /\ done' = done
        /\ agent # <<>> /\ Head(agent).kind = "control"
        /\ \/ /\ world' = Rebooted(world, exec.node)
              /\ exec' = [exec EXCEPT !.stage = "settling", !.due = FALSE]
           \/ UNCHANGED <<world, exec>>
    BY <1>1, <1>4
  <2>2. agent \in Seq(WorkType) /\ world \in [NodeSet -> WorldType]
    BY <1>3 DEF LoopTypes
  <2>3. agent' \in Seq(WorkType) /\ Part(agent', agent) /\ NoControl(agent')
    BY <1>3, <2>1, <2>2, HeadEnds
  <2>4. Dispatched(coord, agent', done) /\ OneControl(agent') BY <1>3, <2>3, PartKeeps
  <2>5. world' \in [NodeSet -> WorldType] BY <1>3, <2>1, <2>2, RebootKeeps
  <2>6. LoopTypes' /\ BootTypes' /\ Dispatched(coord', agent', done')
    BY <1>2, <1>3, <2>1, <2>3, <2>4, <2>5 DEF LoopTypes, BootTypes
  <2>7. exec' \in ExecType /\ exec'.kind = exec.kind /\ exec'.node = exec.node /\ exec'.finish = exec.finish
    <3>1. CASE exec' = exec BY <1>3, <3>1
    <3>2. CASE exec' = [exec EXCEPT !.stage = "settling", !.due = FALSE]
      <4>1. PICK x : x = [exec EXCEPT !.stage = "settling"] OBVIOUS
      <4>2. "settling" \in Stages BY DEF Stages
      <4>3. /\ x \in ExecType /\ x.kind = exec.kind /\ x.node = exec.node /\ x.finish = exec.finish
        BY <1>3, <4>1, <4>2 DEF ExecType
      <4>4. exec' = [x EXCEPT !.due = FALSE] BY <3>2, <4>1
      <4> QED BY <4>3, <4>4 DEF ExecType
    <3> QED BY <2>1, <3>1, <3>2
  <2> QED BY <1>2, <2>3, <2>4, <2>6, <2>7, ControlGoes
<1>5. CASE ev # "reply"
  <2>1. Endpoint(ev) /\ exec' = [exec EXCEPT !.err = ev = "error"] BY <1>1, <1>5
  <2>2. LoopTypes' /\ BootTypes' /\ Dispatched(coord', agent', done') /\ OneControl(agent')
    BY <1>2, <2>1, ControlSteps
  <2>3. PICK err \in BOOLEAN : err = (ev = "error") OBVIOUS
  <2>4. exec' = [exec EXCEPT !.err = err] BY <2>1, <2>3
  <2>5. /\ exec' \in ExecType /\ exec'.kind = exec.kind /\ exec'.node = exec.node
        /\ exec'.finish = exec.finish /\ exec'.stage = "wait"
    BY <1>2, <1>3, <2>4 DEF ExecType
  <2> QED BY <1>2, <2>2, <2>5, ControlGoes
<1> QED BY <1>4, <1>5

(* The restarted node has settled. *)
LEMMA RestartSettledKeeps ==
  ASSUME WorkerInv, Drives, RestartSettled
  PROVE  WorkerInv'
<1>1. /\ exec.kind \in ControlExecs /\ exec.stage = "settling" /\ NoWire
      /\ UNCHANGED <<sboot, wboot, workflow>>
  BY DEF RestartSettled, At, ControlExecs
<1>2. /\ LoopTypes /\ BootTypes /\ Dispatched(coord, agent, done) /\ NoControl(agent)
      /\ mode \in Modes \ {"EnteringMaintenance", "ResumingRecording"}
  BY <1>1, ControlFacts
<1>3. PICK m \in Modes \ {"EnteringMaintenance", "ResumingRecording"} :
        EndsIn(m, "Succeeded") /\ (m = "Recording" => mode = "Recording")
  BY <1>2 DEF RestartSettled, Modes
<1>4. LoopTypes' /\ Dispatched(coord', agent', done') /\ agent' = agent /\ coord' = coord
  BY <1>1, <1>2, WireKept
<1> QED BY <1>1, <1>2, <1>3, <1>4, ControlEnds DEF BootTypes
------------------------
(* Online recovery, and recording when nothing else runs. *)

(* What the task is while it recovers a node. *)
LEMMA RecoveryFacts ==
  ASSUME WorkerInv, Drives, exec.kind = "recovery"
  PROVE  /\ task = "running" /\ pc' = "poll" /\ down' = down
         /\ exec # NoExec /\ active = NoRequest
         /\ LoopTypes /\ BootTypes /\ ExecSound /\ exec \in ExecType /\ exec.node \in NodeSet
         /\ Dispatched(coord, agent, done) /\ agent = <<>> /\ done = None /\ ~coord.pending
         /\ Recovers(coord, exec) /\ ~Draining /\ (mode = "Recording" => ~coord.quiescing)
<1>1. task = "running" /\ pc' = "poll" /\ down' = down BY DEF Drives
<1>2. /\ ModeSound /\ ExecSound /\ (exec.kind \notin ControlExecs => NoControl(agent))
      /\ LoopTypes /\ BootTypes /\ Dispatched(coord, agent, done) /\ Recovers(coord, exec)
      /\ ~At("maintenance", "Draining") => ~Draining
  BY <1>1, RunningFacts
<1>3. exec # NoExec /\ exec \in ExecType /\ exec.node \in NodeSet
  BY <1>2, ExecFacts DEF None
<1>4. coord.dispatch.kind = "recovery" /\ NoControl(agent) /\ ~Draining
  BY <1>2 DEF Recovers, ControlExecs, At
<1>5. agent = <<>> /\ done = None /\ ~coord.pending
  BY <1>2, <1>4, AgentIdle, WorkFacts DEF Dispatched
<1> QED BY <1>1, <1>2, <1>3, <1>4, <1>5 DEF ModeSound

(* The recovery is over and its dispatch released. *)
LEMMA RecoveryOver ==
  ASSUME WorkerInv, Drives, exec.kind = "recovery",
         coord' = [coord EXCEPT !.dispatch = NoDispatch], exec' = NoExec, Goes,
         recovering' \subseteq recovering, BootTypes', UNCHANGED <<agent, flight, done, world>>
  PROVE  WorkerInv'
<1>1. /\ task = "running" /\ pc' = "poll" /\ down' = down /\ active = NoRequest
      /\ LoopTypes /\ Dispatched(coord, agent, done) /\ agent = <<>> /\ done = None
      /\ ~Draining /\ (mode = "Recording" => ~coord.quiescing) /\ ~coord.pending
  BY RecoveryFacts
<1>2. coord \in CoordType BY <1>1 DEF LoopTypes
<1>3. /\ coord' \in CoordType /\ coord'.dispatch = NoDispatch /\ coord'.pending = coord.pending
      /\ coord'.quiescing = coord.quiescing /\ coord'.drain = coord.drain
  BY <1>2, WorkFacts DEF CoordType
<1>4. OnlyControl(agent') /\ NoControl(agent') /\ DrainDispatch(coord') /\ ~Draining'
  BY <1>1, <1>3 DEF OnlyControl, NoControl, DrainDispatch, Draining
<1>5. LoopTypes' /\ Dispatched(coord', agent', done')
  BY <1>1, <1>3, <1>4, NothingDispatched DEF LoopTypes
<1> QED BY <1>1, <1>3, <1>4, <1>5, RestsKeeps

(* The recovery goes on. *)
LEMMA RecoveryGoes ==
  ASSUME WorkerInv, Drives, exec.kind = "recovery", Goes, workflow' = workflow,
         exec' \in ExecType, exec'.kind = exec.kind, exec'.node = exec.node, exec'.finish = exec.finish,
         LoopTypes', BootTypes', coord' = coord, agent' = agent, Dispatched(coord', agent', done')
  PROVE  WorkerInv'
<1>1. /\ task = "running" /\ pc' = "poll" /\ down' = down /\ exec # NoExec /\ ExecSound
      /\ ~Draining /\ (mode = "Recording" => ~coord.quiescing) /\ agent = <<>>
      /\ Recovers(coord, exec)
  BY RecoveryFacts
<1>2. ExecSound' /\ exec' # NoExec /\ ~Draining' BY <1>1, ExecMoved DEF Draining
<1>3. EntryTold' /\ ResumeTold' /\ Recovers(coord', exec') /\ Controlled(agent', exec')
  BY <1>1 DEF EntryTold, ResumeTold, Recovers, Controlled, OneControl, NoControl
<1> QED BY <1>1, <1>2, <1>3, GoesKeeps

(* The recovery ends the task. *)
LEMMA RecoveryRaises ==
  ASSUME WorkerInv, Drives, exec' = NoExec, NEW e \in {"port", "CaptureRollover"}, Raises(e),
         LoopTypes', BootTypes', Dispatched(coord', agent', done')
  PROVE  WorkerInv'
<1>1. task = "running" /\ pc' \in {"poll", "start", "drive"} /\ down' = down
  BY DEF Drives
<1>2. ExecSound' /\ Recovers(coord', exec') BY DEF ExecSound, Recovers, NoExec, None
<1> QED BY <1>1, <1>2, RaisesKeeps DEF InternalErrors

(* The recovered node is read. *)
LEMMA RecoveryVerifyKeeps ==
  ASSUME WorkerInv, Drives, RecoveryVerify
  PROVE  WorkerInv'
<1>1. exec.kind = "recovery" /\ UNCHANGED <<agent, flight, done, world, workflow>>
  BY DEF RecoveryVerify, At
<1>2. LoopTypes /\ BootTypes /\ exec \in ExecType /\ exec.node \in NodeSet /\ Dispatched(coord, agent, done)
  BY <1>1, RecoveryFacts
<1>3. CASE RecoveryFail BY <1>1, <1>2, <1>3, RecoveryOver DEF RecoveryFail, BootTypes
<1>4. CASE /\ exec' = [exec EXCEPT !.boots[exec.node] = world[exec.node].boot,
                                   !.err = world[exec.node].state # "Recording",
                                   !.stage = "rollover"]
           /\ Goes /\ UNCHANGED <<coord, recovering, sboot, wboot>>
  <2>1. PICK boots : boots = [exec.boots EXCEPT ![exec.node] = world[exec.node].boot]
    OBVIOUS
  <2>2. boots \in [NodeSet -> Nat]
    <3>1. world[exec.node].boot \in Nat BY <1>2 DEF LoopTypes, WorldType
    <3>2. exec.boots \in [NodeSet -> Nat] BY <1>2 DEF ExecType
    <3> QED BY <1>2, <2>1, <3>1, <3>2
  <2>3. PICK x : x = [exec EXCEPT !.boots = boots] OBVIOUS
  <2>4. x \in ExecType /\ x.kind = exec.kind /\ x.node = exec.node /\ x.finish = exec.finish
    BY <1>2, <2>2, <2>3 DEF ExecType
  <2>5. PICK err \in BOOLEAN : err = (world[exec.node].state # "Recording") OBVIOUS
  <2>6. PICK y : y = [x EXCEPT !.err = err] OBVIOUS
  <2>7. y \in ExecType /\ y.kind = exec.kind /\ y.node = exec.node /\ y.finish = exec.finish
    BY <2>4, <2>6 DEF ExecType
  <2>8. exec' = [y EXCEPT !.stage = "rollover"] BY <1>4, <2>1, <2>3, <2>5, <2>6
  <2>9. exec' \in ExecType /\ exec'.kind = exec.kind /\ exec'.node = exec.node /\ exec'.finish = exec.finish
    <3>1. "rollover" \in Stages BY DEF Stages
    <3> QED BY <2>7, <2>8, <3>1 DEF ExecType
  <2>10. LoopTypes' /\ BootTypes' /\ Dispatched(coord', agent', done')
    BY <1>1, <1>2, <1>4 DEF LoopTypes, BootTypes
  <2> QED BY <1>1, <1>4, <2>9, <2>10, RecoveryGoes
<1> QED BY <1>3, <1>4 DEF RecoveryVerify

(* Its capture is rolled over. *)
LEMMA RecoveryRolloverKeeps ==
  ASSUME WorkerInv, Drives, RecoveryRollover
  PROVE  WorkerInv'
<1>1. exec.kind = "recovery" /\ UNCHANGED <<agent, flight, done, world, workflow>>
  BY DEF RecoveryRollover, At
<1>2. /\ LoopTypes /\ BootTypes /\ exec \in ExecType /\ ExecSound /\ exec # NoExec
      /\ Dispatched(coord, agent, done)
  BY <1>1, RecoveryFacts
<1>3. CASE RecoveryFail BY <1>1, <1>2, <1>3, RecoveryOver DEF RecoveryFail, BootTypes
<1>4. ASSUME UNCHANGED <<coord, recovering, sboot, wboot>>
      PROVE  LoopTypes' /\ BootTypes' /\ Dispatched(coord', agent', done')
  BY <1>1, <1>2, <1>4 DEF LoopTypes, BootTypes
<1>5. CASE Raises("CaptureRollover") /\ exec' = NoExec /\ UNCHANGED <<coord, recovering, sboot, wboot>>
  BY <1>4, <1>5, RecoveryRaises
<1>6. CASE Accept("activate") /\ Goes /\ UNCHANGED <<coord, recovering, sboot, wboot>>
  <2>1. /\ ExecSound' /\ exec' # NoExec /\ exec'.kind = exec.kind /\ exec'.node = exec.node
        /\ exec'.finish = exec.finish
    BY <1>2, <1>6, StageAccepted DEF Stages
  <2>2. exec' \in ExecType BY <2>1 DEF ExecSound
  <2> QED BY <1>1, <1>4, <1>6, <2>1, <2>2, RecoveryGoes
<1> QED BY <1>3, <1>5, <1>6 DEF RecoveryRollover

(* Its stream is started again. *)
LEMMA RecoveryActivateKeeps ==
  ASSUME WorkerInv, Drives, RecoveryActivate
  PROVE  WorkerInv'
<1>1. exec.kind = "recovery" /\ workflow' = workflow BY DEF RecoveryActivate, At
<1>2. /\ LoopTypes /\ BootTypes /\ exec \in ExecType /\ exec.node \in NodeSet
      /\ Dispatched(coord, agent, done) /\ agent = <<>>
  BY <1>1, RecoveryFacts
<1>3. CASE /\ exec' = [exec EXCEPT !.stage = "finish"] /\ Goes
           /\ LoopTypes' /\ BootTypes' /\ coord' = coord /\ agent' = agent
           /\ Dispatched(coord', agent', done')
  <2>1. exec' \in ExecType /\ exec'.kind = exec.kind /\ exec'.node = exec.node /\ exec'.finish = exec.finish
    <3>1. "finish" \in Stages BY DEF Stages
    <3> QED BY <1>2, <1>3, <3>1 DEF ExecType
  <2> QED BY <1>1, <1>3, <2>1, RecoveryGoes
<1>4. CASE ~exec.err
  <2>1. exec' = [exec EXCEPT !.stage = "finish"] /\ Goes /\ NoWire /\ UNCHANGED <<sboot, wboot>>
    BY <1>4 DEF RecoveryActivate
  <2>2. LoopTypes' /\ BootTypes' /\ coord' = coord /\ agent' = agent /\ Dispatched(coord', agent', done')
    BY <1>2, <2>1, WireKept DEF BootTypes
  <2> QED BY <1>3, <2>1, <2>2
<1>5. CASE exec.err
  <2>1. PICK out \in {"reached", "restarted", "failed", "offline", "port", "exclusive"} :
            CASE out \in {"reached", "restarted", "port", "exclusive"} ->
                   /\ GroupNode(exec.node, "Recording", out)
                   /\ IF out \in {"reached", "restarted"}
                      THEN exec' = [exec EXCEPT !.stage = "finish"] /\ Goes
                      ELSE exec' = NoExec /\ Raises(out)
              [] out \in {"failed", "offline"} ->
                   RecoveryFail /\ UNCHANGED <<agent, flight, done, world, reboots>>
    BY <1>5 DEF RecoveryActivate
  <2>2. CASE out \in {"failed", "offline"}
    <3>1. RecoveryFail /\ UNCHANGED <<agent, flight, done, world>> BY <2>1, <2>2
    <3> QED BY <1>1, <1>2, <3>1, RecoveryOver DEF RecoveryFail, BootTypes
  <2>3. CASE out \notin {"failed", "offline"}
    <3>1. /\ GroupNode(exec.node, "Recording", out)
          /\ IF out \in {"reached", "restarted"}
             THEN exec' = [exec EXCEPT !.stage = "finish"] /\ Goes
             ELSE exec' = NoExec /\ Raises(out)
      BY <2>1, <2>3
    <3>2. /\ LoopTypes' /\ Dispatched(coord', agent', done')
          /\ UNCHANGED <<coord, recovering, agent, flight, done, sboot, wboot>>
          /\ out \in {"reached", "restarted", "port"}
      BY <1>2, <2>3, <3>1, GroupKeeps
    <3>3. BootTypes' BY <1>2, <3>2 DEF BootTypes
    <3> QED BY <1>3, <3>1, <3>2, <3>3, RecoveryRaises
  <2> QED BY <2>2, <2>3
<1> QED BY <1>4, <1>5

(* The recovered node is scheduled again. *)
LEMMA RecoveryFinishKeeps ==
  ASSUME WorkerInv, Drives, RecoveryFinish
  PROVE  WorkerInv'
<1>1. exec.kind = "recovery" /\ UNCHANGED <<agent, flight, done, world, workflow>>
  BY DEF RecoveryFinish, At
<1>2. BootTypes /\ exec \in ExecType /\ exec.node \in NodeSet BY <1>1, RecoveryFacts
<1>3. CASE RecoveryFail BY <1>1, <1>2, <1>3, RecoveryOver DEF RecoveryFail, BootTypes
<1>4. CASE /\ coord' = [coord EXCEPT !.dispatch = NoDispatch]
           /\ recovering' = recovering \ {exec.node}
           /\ sboot' = [sboot EXCEPT ![exec.node] = exec.boots[exec.node]]
           /\ wboot' = [wboot EXCEPT ![exec.node] = exec.boots[exec.node]]
           /\ exec' = NoExec /\ Goes
  <2>1. exec.boots[exec.node] \in Nat BY <1>2 DEF ExecType
  <2>2. BootTypes' BY <1>2, <1>4, <2>1 DEF BootTypes
  <2> QED BY <1>1, <1>4, <2>2, RecoveryOver
<1> QED BY <1>3, <1>4 DEF RecoveryFinish

(* The loop records, or begins a recovery. *)
LEMMA RecordKeeps ==
  ASSUME WorkerInv, Drives, pc \in {"poll", "drive"}, ~AdvanceDue, Record
  PROVE  WorkerInv'
<1>1. task = "running" /\ pc' = "poll" /\ pc' \in {"poll", "start", "drive"} /\ down' = down
  BY DEF Drives
<1>2. exec = NoExec /\ UNCHANGED <<sboot, wboot, workflow>> BY DEF Record
<1>3. /\ LoopTypes /\ BootTypes /\ ExecSound /\ Dispatched(coord, agent, done) /\ OpsInv /\ mode \in Modes
      /\ ModeSound /\ exec.kind = None
  BY <1>1, <1>2, RunningFacts DEF NoExec
<1>4. NoControl(agent) /\ ~Draining /\ exec.kind \notin {"maintenance", "resume"}
  BY <1>1, <1>3, RunningFacts DEF None, ControlExecs, At
<1>5. active = NoRequest
  <2>1. active # NoRequest => workflow \in {"Entering", "ReadyToResume"}
    BY <1>1, <1>2, <1>3 DEF ModeSound
  <2> QED BY <1>2, <2>1 DEF AdvanceDue, None
<1>6. PICK e \in Outcomes :
        /\ RecordingStep(e)
        /\ IF e = "recovery"
           THEN /\ exec' = [NoExec EXCEPT !.kind = "recovery", !.stage = "verify",
                                          !.node = coord'.dispatch.node]
                /\ Goes
           ELSE exec' = exec /\ IF e = "ok" THEN Goes ELSE Raises(e)
  BY DEF Record
<1>7. LoopKept(e) BY <1>3, <1>6, RecordingKeeps
<1>8. /\ LoopTypes' /\ Dispatched(coord', agent', done') /\ ~Draining' /\ NoControl(agent')
      /\ coord'.quiescing = coord.quiescing
      /\ e \in {"ok", "recovery", "port", "storage", "UnexpectedSessionPhase"}
      /\ e = "recovery" => /\ coord'.dispatch.node \in NodeSet
                           /\ coord'.dispatch = [kind |-> "recovery", node |-> coord'.dispatch.node]
  BY <1>4, <1>7 DEF LoopKept
<1>9. BootTypes' /\ (mode = "Recording" => ~coord'.quiescing)
  BY <1>1, <1>2, <1>3, <1>8 DEF BootTypes, ModeSound
<1>10. CASE e = "ok" BY <1>1, <1>2, <1>4, <1>5, <1>6, <1>8, <1>9, <1>10, RestsKeeps
<1>11. CASE e \in {"port", "storage", "UnexpectedSessionPhase"}
  <2>1. ExecSound' /\ Recovers(coord', exec') /\ Raises(e)
    BY <1>2, <1>6, <1>11 DEF ExecSound, Recovers, NoExec, None
  <2> QED BY <1>1, <1>8, <1>9, <1>11, <2>1, RaisesKeeps DEF InternalErrors
<1>12. CASE e = "recovery"
  <2>1. PICK n \in NodeSet : n = coord'.dispatch.node BY <1>8, <1>12
  <2>2. exec' = [kind |-> "recovery", stage |-> "verify", i |-> 1, node |-> n,
                  finish |-> FALSE, due |-> FALSE, err |-> FALSE, moved |-> FALSE,
                  boots |-> [m \in NodeSet |-> 0]]
    BY <1>6, <1>12, <2>1 DEF NoExec
  <2>3. /\ ExecSound' /\ exec' # NoExec /\ exec'.kind = "recovery" /\ exec'.node = n
    <3>1. "recovery" \in ExecKinds /\ "verify" \in Stages /\ FALSE \in BOOLEAN /\ n \in NodeSet \cup {None}
      BY DEF ExecKinds, Stages
    <3> QED BY <2>2, <3>1, ExecBegun
  <2>4. UNCHANGED <<mode, inbox, ledger, active, audit, task>>
    BY <1>6, <1>12 DEF Goes, opsVars
  <2>5. OpsInv' /\ mode' \in Modes BY <1>3, <2>4 DEF OpsInv, OpsTypes
  <2>6. Recovers(coord', exec') /\ Controlled(agent', exec') /\ EntryTold' /\ ResumeTold'
    BY <1>8, <1>12, <2>1, <2>3 DEF Recovers, Controlled, NoControl, OneControl, EntryTold, ResumeTold
  <2>7. ModeSound' BY <1>1, <1>3, <1>4, <1>5, <1>8, <1>9, <2>3, <2>4 DEF ModeSound
  <2> QED BY <1>1, <1>8, <1>9, <2>3, <2>4, <2>5, <2>6, <2>7, TaskGoesOn
<1> QED BY <1>8, <1>10, <1>11, <1>12

(* A call of step that drives what there is to drive. *)
LEMMA DriveKeeps ==
  ASSUME WorkerInv, Drive
  PROVE  WorkerInv'
<1>1. Drives /\ ~AdvanceDue /\ pc \in {"poll", "drive"} BY DEF Drive, Drives, Driving
<1> QED BY <1>1,
  EntryQuiescedKeeps, EntryBarrierKeeps, EntryConvergeKeeps, EntryReconcileKeeps, EntryDrainKeeps,
  EntryCompleteKeeps, ResumeVerifyKeeps, ResumeVerifiedKeeps, ResumeReconcileKeeps,
  ResumeAdmissionKeeps, ResumeActivateKeeps, ResumeSchedulingKeeps, ResumeCompleteKeeps,
  ConfigurationExpireKeeps, ConfigurationStepKeeps, CommissioningExpireKeeps,
  CommissioningProbeKeeps, CommissioningStepKeeps, CommissioningAssignedKeeps,
  RestartExpireKeeps, RestartStepKeeps, RestartSettledKeeps, RecoveryVerifyKeeps,
  RecoveryRolloverKeeps, RecoveryActivateKeeps, RecoveryFinishKeeps, RecordKeeps DEF Drive
------------------------
(* The rest of step: the poll, the start of an operation, the automatic
   configuration. *)

(* The parts of the task nobody but the task changes. *)
LEMMA TaskKept ==
  ASSUME WorkerInv, UNCHANGED taskVars
  PROVE  /\ LoopTypes' /\ BootTypes' /\ ExecSound' /\ Dispatched(coord', agent', done')
         /\ Recovers(coord', exec')
         /\ task = "running" => Controlled(agent', exec') /\ EntryTold' /\ ResumeTold'
<1>1. UNCHANGED <<exec, workflow, coord, recovering, agent, flight, done, world, sboot, wboot>>
  BY DEF taskVars
<1>2. LoopTypes' /\ BootTypes' /\ ExecSound' /\ Dispatched(coord', agent', done') /\ Recovers(coord', exec')
  BY <1>1 DEF WorkerInv, WorkerTypes, WorksSound, LoopTypes, BootTypes, ExecSound
<1>3. ASSUME task = "running" PROVE Controlled(agent', exec') /\ EntryTold' /\ ResumeTold'
  <2>1. Controlled(agent, exec) /\ EntryTold /\ ResumeTold BY <1>3, RunningFacts
  <2>2. (Quiescent' <=> Quiescent) /\ (Draining' <=> Draining) /\ (ResumeReady' <=> ResumeReady)
    BY <1>1 DEF Quiescent, Busy, Draining, ResumeReady
  <2> QED BY <1>1, <2>1, <2>2 DEF EntryTold, ResumeTold
<1> QED BY <1>2, <1>3

(* The task polls its mailbox. *)
LEMMA PollKeeps ==
  ASSUME WorkerInv, Poll
  PROVE  WorkerInv'
<1>1. /\ pc = "poll" /\ task = "running" /\ exec.kind # "recovery" /\ inbox # <<>> /\ PollCommand
      /\ mode' = mode /\ UNCHANGED taskVars /\ down' = down
      /\ pc' = IF active = NoRequest /\ active' # NoRequest THEN "start" ELSE "drive"
  BY DEF Poll
<1>2. OpsInv /\ mode \in Modes /\ ModeSound /\ ExecSound BY <1>1, RunningFacts
<1>3. /\ OpsInv'
      /\ task' \in {"running", "AuditUnavailable", "OperationIdConflict", "LedgerFull"}
      /\ active # NoRequest => active' = active
  BY <1>1, <1>2, PollOps
<1>4. /\ LoopTypes' /\ BootTypes' /\ ExecSound' /\ Dispatched(coord', agent', done')
      /\ Recovers(coord', exec') /\ Controlled(agent', exec') /\ EntryTold' /\ ResumeTold'
  BY <1>1, TaskKept
<1>5. CASE task' = "running"
  <2>1. UNCHANGED <<exec, workflow, coord>> BY <1>1 DEF taskVars
  <2>2. exec = NoExec \/ exec.kind \in ExecKinds BY <1>2, ExecFacts
  <2>3. ModeSound' BY <1>1, <1>2, <1>3, <2>1, <2>2 DEF ModeSound, Draining, At
  <2> QED BY <1>1, <1>2, <1>3, <1>4, <1>5, <2>3, TaskGoesOn
<1>6. CASE task' # "running"
  <2>1. task' \notin InternalErrors \cup {"running"} /\ OpsTypes'
    BY <1>3, <1>6 DEF InternalErrors, OpsInv
  <2> QED BY <1>1, <1>2, <1>4, <2>1, TaskEnds
<1> QED BY <1>5, <1>6

(* An operation begins its execution. *)
LEMMA BegunKeeps ==
  ASSUME WorkerInv, task = "running", exec = NoExec, active # NoRequest, pc' = "drive",
         UNCHANGED <<inbox, ledger, active, audit, task, down, sboot, wboot>>,
         NEW kind \in ExecKinds \ {"recovery"}, NEW stage \in Stages \ {"settling"},
         NEW finish \in BOOLEAN, NEW node \in NodeSet \cup {None},
         kind = "restart" => node \in NodeSet,
         exec' = [kind |-> kind, stage |-> stage, i |-> 1, node |-> node,
                  finish |-> finish, due |-> FALSE, err |-> FALSE, moved |-> FALSE,
                  boots |-> [n \in NodeSet |-> 0]],
         mode' = IF kind = "maintenance" THEN "EnteringMaintenance"
                 ELSE IF kind = "resume" THEN "ResumingRecording" ELSE mode,
         kind = "maintenance" => stage = "Quiescing" /\ (finish \/ workflow' = "Entering"),
         kind = "resume" => stage = "VerifyingNodes",
         LoopTypes', Dispatched(coord', agent', done'), OneControl(agent'),
         kind \notin ControlExecs => NoControl(agent'),
         coord'.drain = coord.drain,
         kind # "maintenance" => coord'.quiescing = coord.quiescing
  PROVE  WorkerInv'
<1>1. OpsInv /\ BootTypes /\ mode \in Modes /\ ModeSound /\ exec.kind = None
  BY RunningFacts DEF NoExec
<1>2. /\ ExecSound' /\ exec' # NoExec /\ exec'.kind = kind /\ exec'.stage = stage
      /\ exec'.finish = finish
  <2>1. kind \in ExecKinds /\ stage \in Stages /\ (kind \in {"restart", "recovery"} => node \in NodeSet)
    OBVIOUS
  <2> QED BY <2>1, ExecBegun
<1>3. OpsInv' /\ BootTypes' /\ mode' \in Modes
  BY <1>1 DEF OpsInv, OpsTypes, BootTypes, Modes
<1>4. ~Draining /\ ~Draining' BY <1>1, RunningFacts DEF At, None, Draining
<1>5. ModeSound' BY <1>1, <1>2, <1>4 DEF ModeSound, None
<1>6. EntryTold' /\ ResumeTold' /\ Recovers(coord', exec') /\ Controlled(agent', exec')
  BY <1>2 DEF EntryTold, ResumeTold, Recovers, Controlled
<1> QED BY <1>2, <1>3, <1>5, <1>6, TaskGoesOn

(* The active operation starts. *)
LEMMA StartKeeps ==
  ASSUME WorkerInv, Start
  PROVE  WorkerInv'
<1>1. /\ pc = "start" /\ task = "running" /\ pc' = "drive" /\ pc' \in {"poll", "drive"} /\ down' = down
      /\ StartRefused \/ StartTelemetry \/ StartQuiesce \/ StartResume \/ StartControl \/ StartScan
  BY DEF Start
<1>2. /\ LoopTypes /\ Dispatched(coord, agent, done) /\ ModeSound /\ mode \in Modes
      /\ exec.kind \notin ControlExecs => NoControl(agent)
      /\ ~At("maintenance", "Draining") => coord.drain = NoDrain
      /\ mode = "Recording" => ~coord.quiescing
  BY <1>1, RunningFacts
<1>3. exec = NoExec /\ active # NoRequest /\ exec.kind = None
  BY <1>1, <1>2 DEF ModeSound, NoExec
<1>4. /\ NoControl(agent) /\ coord.drain = NoDrain
      /\ mode \in Modes \ {"EnteringMaintenance", "ResumingRecording"}
  BY <1>1, <1>2, <1>3 DEF ModeSound, None, ControlExecs, At
<1>5. OneControl(agent) /\ agent \in Seq(WorkType) /\ coord \in CoordType
  BY <1>2, <1>4 DEF OneControl, NoControl, LoopTypes
<1>6. CASE StartRefused \/ StartTelemetry
  <2>1. PICK phase \in {"Succeeded", "Failed"} : EndActive(phase) /\ mode' = mode /\ UNCHANGED taskVars
    BY <1>6 DEF StartRefused, StartTelemetry
  <2>2. /\ LoopTypes' /\ BootTypes' /\ Dispatched(coord', agent', done')
        /\ UNCHANGED <<coord, agent, exec>>
    BY <2>1, TaskKept DEF taskVars
  <2>3. EndsIn(mode, phase) BY <1>3, <2>1, <2>2 DEF EndsIn
  <2> QED BY <1>1, <1>2, <1>3, <1>4, <2>2, <2>3, EndsInKeeps
<1>7. CASE StartQuiesce
  <2>1. PICK finish \in BOOLEAN : finish = (active.kind = "EnterMaintenance") OBVIOUS
  <2>2. /\ coord' = [coord EXCEPT !.quiescing = TRUE] /\ mode' = "EnteringMaintenance"
        /\ finish \/ workflow' = "Entering"
        /\ UNCHANGED <<inbox, ledger, active, audit, task, recovering, agent, flight, done, world,
                       sboot, wboot>>
    BY <1>7, <2>1 DEF StartQuiesce
  <2>3. exec' = [kind |-> "maintenance", stage |-> "Quiescing", i |-> 1, node |-> None,
                  finish |-> finish, due |-> FALSE, err |-> FALSE, moved |-> FALSE,
                  boots |-> [n \in NodeSet |-> 0]]
    BY <1>7, <2>1 DEF StartQuiesce, NoExec
  <2>4. /\ coord' \in CoordType /\ coord'.drain = coord.drain /\ coord'.dispatch = coord.dispatch
        /\ coord'.pending = coord.pending
    BY <1>5, <2>2 DEF CoordType
  <2>5. LoopTypes' /\ Dispatched(coord', agent', done')
    BY <1>2, <2>2, <2>4 DEF LoopTypes, Dispatched
  <2>6. "maintenance" \in ExecKinds \ {"recovery"} /\ "Quiescing" \in Stages \ {"settling"}
    BY DEF ExecKinds, Stages
  <2>7. None \in NodeSet \cup {None} OBVIOUS
  <2> QED BY <1>1, <1>3, <1>4, <1>5, <2>2, <2>3, <2>4, <2>5, <2>6, <2>7, BegunKeeps
<1>8. CASE StartResume
  <2>1. /\ mode' = "ResumingRecording"
        /\ UNCHANGED <<inbox, ledger, active, audit, task, coord, recovering, agent, flight, done,
                       world, sboot, wboot>>
    BY <1>8 DEF StartResume
  <2>2. exec' = [kind |-> "resume", stage |-> "VerifyingNodes", i |-> 1, node |-> None,
                  finish |-> FALSE, due |-> FALSE, err |-> FALSE, moved |-> FALSE,
                  boots |-> [n \in NodeSet |-> 0]]
    BY <1>8 DEF StartResume, Begin, NoExec
  <2>3. LoopTypes' /\ Dispatched(coord', agent', done') BY <1>2, <2>1 DEF LoopTypes
  <2>4. "resume" \in ExecKinds \ {"recovery"} /\ "VerifyingNodes" \in Stages \ {"settling"}
    BY DEF ExecKinds, Stages
  <2>5. None \in NodeSet \cup {None} /\ FALSE \in BOOLEAN OBVIOUS
  <2> QED BY <1>1, <1>3, <1>4, <1>5, <2>1, <2>2, <2>3, <2>4, <2>5, BegunKeeps
<1>9. CASE StartControl \/ StartScan
  <2>1. PICK node \in NodeSet \cup {None}, kind \in ControlExecs, stage \in {"Assigning", "wait", "Scan"},
             finish \in BOOLEAN :
          /\ agent' \in {agent, Append(agent, Control(node))}
          /\ kind = "restart" => node \in NodeSet
          /\ exec' = [kind |-> kind, stage |-> stage, i |-> 1, node |-> node,
                  finish |-> finish, due |-> FALSE, err |-> FALSE, moved |-> FALSE,
                  boots |-> [n \in NodeSet |-> 0]]
          /\ UNCHANGED <<opsVars, workflow, coord, recovering, flight, done, world, sboot, wboot>>
    <3>1. CASE StartControl
      <4>1. PICK n \in NodeSet :
        /\ agent' = Append(agent, Control(n))
        /\ exec' = [NoExec EXCEPT !.node = n, !.finish = TRUE,
                !.kind = CASE active.kind = "AssignAddress" -> "commissioning"
                           [] active.kind = "RestartNode" -> "restart"
                           [] OTHER -> "configuration",
                !.stage = IF active.kind = "AssignAddress" THEN "Assigning" ELSE "wait"]
        BY <3>1 DEF StartControl
      <4>2. PICK kind \in ControlExecs :
              kind = CASE active.kind = "AssignAddress" -> "commissioning"
                       [] active.kind = "RestartNode" -> "restart"
                       [] OTHER -> "configuration"
        BY DEF ControlExecs
      <4>3. PICK stage \in {"Assigning", "wait"} :
              stage = IF active.kind = "AssignAddress" THEN "Assigning" ELSE "wait"
        OBVIOUS
      <4>4. exec' = [kind |-> kind, stage |-> stage, i |-> 1, node |-> n,
                  finish |-> TRUE, due |-> FALSE, err |-> FALSE, moved |-> FALSE,
                  boots |-> [m \in NodeSet |-> 0]]
        BY <4>1, <4>2, <4>3 DEF NoExec
      <4>5. UNCHANGED <<opsVars, workflow, coord, recovering, flight, done, world, sboot, wboot>>
        BY <3>1 DEF StartControl
      <4> QED BY <4>1, <4>2, <4>3, <4>4, <4>5
    <3>2. CASE StartScan
      <4>1. "commissioning" \in ControlExecs /\ FALSE \in BOOLEAN /\ None \in NodeSet \cup {None}
        BY DEF ControlExecs
      <4>2. exec' = [kind |-> "commissioning", stage |-> "Scan", i |-> 1, node |-> None,
                  finish |-> FALSE, due |-> FALSE, err |-> FALSE, moved |-> FALSE,
                  boots |-> [m \in NodeSet |-> 0]]
        BY <3>2 DEF StartScan, Begin, NoExec
      <4>3. agent' = agent /\ UNCHANGED <<opsVars, workflow, coord, recovering, flight, done, world, sboot, wboot>>
        BY <3>2 DEF StartScan
      <4> QED BY <4>1, <4>2, <4>3
    <3> QED BY <1>9, <3>1, <3>2
  <2>2. UNCHANGED <<mode, inbox, ledger, active, audit, task, coord, recovering, flight, done, world,
                    sboot, wboot>>
    BY <2>1 DEF opsVars
  <2>3. agent' \in Seq(WorkType) /\ Dispatched(coord, agent', done) /\ OneControl(agent')
    BY <1>2, <1>4, <1>5, <2>1, ControlSubmitted
  <2>4. LoopTypes' /\ Dispatched(coord', agent', done')
    BY <1>2, <2>2, <2>3 DEF LoopTypes
  <2>5. kind \in ExecKinds \ {"recovery", "maintenance", "resume"} /\ stage \in Stages \ {"settling"}
    BY DEF ExecKinds, ControlExecs, Stages
  <2> QED BY <1>1, <1>3, <2>1, <2>2, <2>3, <2>4, <2>5, BegunKeeps
<1> QED BY <1>1, <1>6, <1>7, <1>8, <1>9

(* The maintenance workflow advances. *)
LEMMA AdvanceKeeps ==
  ASSUME WorkerInv, Advance
  PROVE  WorkerInv'
<1>1. /\ task = "running" /\ pc \in {"poll", "drive"} /\ pc' = "drive" /\ pc' \in {"poll", "drive"}
      /\ AdvanceDue /\ UNCHANGED <<coord, recovering, flight, done, world, sboot, wboot, down>>
  BY DEF Advance, Driving
<1>2. /\ LoopTypes /\ BootTypes /\ Dispatched(coord, agent, done) /\ ModeSound /\ mode \in Modes
      /\ OpsInv /\ ExecSound
      /\ exec.kind \notin ControlExecs => NoControl(agent)
      /\ ~At("maintenance", "Draining") => coord.drain = NoDrain
      /\ mode = "Recording" => ~coord.quiescing
  BY <1>1, RunningFacts
<1>3. CASE active = NoRequest
  <2>1. workflow' = None /\ UNCHANGED <<opsVars, exec, agent>> BY <1>3 DEF Advance
  <2>2. UNCHANGED <<mode, inbox, ledger, active, audit, task, submitted>>
    BY <2>1 DEF opsVars
  <2>3. OpsInv' /\ mode' \in Modes BY <1>2, <2>2 DEF OpsInv, OpsTypes
  <2>4. /\ LoopTypes' /\ BootTypes' /\ ExecSound' /\ Dispatched(coord', agent', done')
        /\ (Quiescent' <=> Quiescent) /\ (Draining' <=> Draining) /\ (ResumeReady' <=> ResumeReady)
    BY <1>1, <1>2, <2>1 DEF LoopTypes, BootTypes, ExecSound, Quiescent, Busy, Draining, ResumeReady
  <2>5. Recovers(coord', exec') /\ Controlled(agent', exec') /\ EntryTold' /\ ResumeTold'
    <3>1. Recovers(coord, exec) /\ Controlled(agent, exec) /\ EntryTold /\ ResumeTold
      BY <1>1, RunningFacts
    <3> QED BY <1>1, <2>1, <2>4, <3>1 DEF EntryTold, ResumeTold
  <2>6. ModeSound'
    BY <1>1, <1>2, <1>3, <2>1, <2>2, <2>4 DEF ModeSound, At, ExecKinds, ControlExecs
  <2> QED BY <1>1, <2>2, <2>3, <2>4, <2>5, <2>6, TaskGoesOn
<1>4. CASE active # NoRequest
  <2>1. exec = NoExec /\ workflow \in {"Entering", "ReadyToResume"}
    BY <1>1, <1>4 DEF AdvanceDue
  <2>2. /\ NoControl(agent) /\ coord.drain = NoDrain
        /\ mode \in Modes \ {"EnteringMaintenance", "ResumingRecording"}
    <3>1. exec.kind = None BY <2>1 DEF NoExec
    <3> QED BY <1>1, <1>2, <3>1 DEF ModeSound, None, ControlExecs, At
  <2>3. OneControl(agent) /\ agent \in Seq(WorkType)
    BY <1>2, <2>2 DEF OneControl, NoControl, LoopTypes
  <2>4. CASE \E n \in NodeSet : /\ agent' = Append(agent, Control(n)) /\ UNCHANGED opsVars
                                /\ exec' = [NoExec EXCEPT !.kind = "configuration", !.stage = "wait",
                                                          !.node = n]
    <3>1. PICK n \in NodeSet : /\ agent' = Append(agent, Control(n)) /\ UNCHANGED opsVars
                               /\ exec' = [NoExec EXCEPT !.kind = "configuration", !.stage = "wait",
                                                         !.node = n]
      BY <2>4
    <3>2. UNCHANGED <<mode, inbox, ledger, active, audit, task>> BY <3>1 DEF opsVars
    <3>3. agent' \in Seq(WorkType) /\ Dispatched(coord, agent', done) /\ OneControl(agent')
      BY <1>2, <2>2, <2>3, <3>1, ControlSubmitted
    <3>4. LoopTypes' /\ Dispatched(coord', agent', done')
      BY <1>1, <1>2, <3>3 DEF LoopTypes
    <3>5. exec' = [kind |-> "configuration", stage |-> "wait", i |-> 1, node |-> n,
                  finish |-> FALSE, due |-> FALSE, err |-> FALSE, moved |-> FALSE,
                  boots |-> [m \in NodeSet |-> 0]]
      BY <3>1 DEF NoExec
    <3>6. /\ "configuration" \in ExecKinds \ {"recovery", "maintenance", "resume"}
          /\ "configuration" \in ControlExecs /\ "wait" \in Stages \ {"settling"}
          /\ FALSE \in BOOLEAN /\ n \in NodeSet \cup {None}
      BY DEF ExecKinds, ControlExecs, Stages
    <3> QED BY <1>1, <1>4, <2>1, <3>2, <3>3, <3>4, <3>5, <3>6, BegunKeeps
  <2>5. CASE EndActive("Failed") /\ UNCHANGED <<mode, exec, agent>>
    <3>1. EndsIn(mode, "Failed") BY <2>1, <2>5 DEF EndsIn
    <3>2. LoopTypes' /\ BootTypes' /\ Dispatched(coord', agent', done')
      BY <1>1, <1>2, <2>5 DEF LoopTypes, BootTypes
    <3> QED BY <1>1, <1>2, <1>4, <2>2, <2>5, <3>1, <3>2, EndsInKeeps
  <2>6. CASE /\ mode' = "ResumingRecording" /\ Begin("resume", "VerifyingNodes")
             /\ UNCHANGED <<inbox, ledger, active, audit, task, submitted, agent>>
    <3>1. exec' = [kind |-> "resume", stage |-> "VerifyingNodes", i |-> 1, node |-> None,
                  finish |-> FALSE, due |-> FALSE, err |-> FALSE, moved |-> FALSE,
                  boots |-> [m \in NodeSet |-> 0]]
      BY <2>6 DEF Begin, NoExec
    <3>2. LoopTypes' /\ Dispatched(coord', agent', done')
      BY <1>1, <1>2, <2>6 DEF LoopTypes
    <3>3. /\ "resume" \in ExecKinds \ {"recovery"} /\ "VerifyingNodes" \in Stages \ {"settling"}
          /\ FALSE \in BOOLEAN /\ None \in NodeSet \cup {None}
      BY DEF ExecKinds, Stages
    <3> QED BY <1>1, <1>4, <2>1, <2>2, <2>3, <2>6, <3>1, <3>2, <3>3, BegunKeeps
  <2> QED BY <1>4, <2>1, <2>4, <2>5, <2>6 DEF Advance
<1> QED BY <1>3, <1>4
------------------------
(* The shutdown. *)

(* The task has stopped. *)
LEMMA StoppedKeeps ==
  ASSUME WorkerInv, task # "running", task' = task, OpsTypes', LoopTypes', BootTypes', ExecSound',
         pc' \in {"poll", "start", "drive"}, mode' \in Modes,
         Dispatched(coord', agent', done'), Recovers(coord', exec'), DownTold'
  PROVE  WorkerInv'
<1>1. OpsInv' /\ WorkerTypes' /\ WorksSound' /\ ModeSound' /\ NoInternalError'
  BY DEF WorkerInv, OpsInv, WorkerTypes, WorksSound, ModeSound, NoInternalError
<1> QED BY <1>1 DEF WorkerInv

(* What holds of the task, running or not. *)
LEMMA StoppedFacts ==
  ASSUME WorkerInv
  PROVE  /\ OpsTypes /\ LoopTypes /\ BootTypes /\ ExecSound /\ pc \in {"poll", "start", "drive"}
         /\ mode \in Modes /\ Dispatched(coord, agent, done) /\ Recovers(coord, exec) /\ DownTold
         /\ down \in DownType
  BY DEF WorkerInv, OpsInv, WorkerTypes, WorksSound, DownTold

(* The shutdown changes only the wire and its own progress. *)
LEMMA ShutdownGoes ==
  ASSUME WorkerInv, task # "running", KeepTask, LoopTypes', Dispatched(coord', agent', done'),
         Recovers(coord', exec), DownTold'
  PROVE  WorkerInv'
<1>1. OpsTypes /\ BootTypes /\ ExecSound /\ pc \in {"poll", "start", "drive"} /\ mode \in Modes
  BY StoppedFacts
<1>2. UNCHANGED <<mode, inbox, ledger, active, audit, task, pc, exec, sboot, wboot>>
  BY DEF KeepTask, opsVars
<1>3. OpsTypes' /\ BootTypes' /\ ExecSound'
  BY <1>1, <1>2 DEF OpsTypes, BootTypes, ExecSound
<1> QED BY <1>1, <1>2, <1>3, StoppedKeeps

(* The shutdown goes to its next stage, in time or not. *)
LEMMA DownMoved ==
  ASSUME down \in DownType, NEW s \in {"barrier", "stop", "drain", "finalize", "done"}
  PROVE  /\ Down(s) => /\ down' \in DownType /\ down'.stage = s /\ down'.i = 1
                       /\ down'.ok = down.ok /\ down'.kind = down.kind
         /\ DownFails(s) => down' \in DownType /\ down'.ok = FALSE
<1>1. PICK x : x = [down EXCEPT !.stage = s] OBVIOUS
<1>2. x \in DownType /\ x.stage = s /\ x.ok = down.ok /\ x.kind = down.kind
  BY <1>1 DEF DownType
<1>3. PICK y : y = [x EXCEPT !.i = 1] OBVIOUS
<1>4. y \in DownType /\ y.stage = s /\ y.i = 1 /\ y.ok = down.ok /\ y.kind = down.kind
  BY <1>2, <1>3 DEF DownType
<1>5. Down(s) => down' = [y EXCEPT !.due = FALSE] BY <1>1, <1>3 DEF Down
<1>6. PICK z : z = [y EXCEPT !.ok = FALSE] OBVIOUS
<1>7. z \in DownType /\ z.ok = FALSE BY <1>4, <1>6 DEF DownType
<1>8. DownFails(s) => down' = [z EXCEPT !.due = FALSE] BY <1>1, <1>3, <1>6 DEF DownFails
<1> QED BY <1>4, <1>5, <1>7, <1>8 DEF DownType

(* A shutdown that has failed promises nothing. *)
LEMMA DownFailed ==
  ASSUME task' # "running", down' \in DownType, down'.ok = FALSE
  PROVE  DownTold'
  BY DEF DownTold

(* The shutdown begins: what ran is given up. *)
LEMMA ShutdownBeginKeeps ==
  ASSUME WorkerInv, ShutdownBegin
  PROVE  WorkerInv'
<1> DEFINE c == IF exec.kind = "recovery" THEN [coord EXCEPT !.dispatch = NoDispatch] ELSE coord
<1>1. /\ task # "running" /\ down.stage = None /\ exec' = NoExec
      /\ inbox' = <<>> /\ ledger' = <<>> /\ active' = NoRequest
      /\ UNCHANGED <<mode, audit, task, pc, recovering, agent, flight, done, world, sboot, wboot>>
      /\ \/ /\ coord' = c
            /\ \E ok \in BOOLEAN : down' = [down EXCEPT !.stage = "finalize", !.kind = "quiesced", !.ok = ok]
         \/ /\ coord' = [c EXCEPT !.quiescing = TRUE]
            /\ down' = [down EXCEPT !.stage = "barrier", !.kind = "controlled"]
  <2>1. \A d : (d.quiescing /\ d.dispatch = NoDispatch /\ ~d.pending /\ d.writes = {}) \in BOOLEAN
    OBVIOUS
  <2> QED BY <2>1 DEF ShutdownBegin, InDown
<1>2. /\ OpsTypes /\ LoopTypes /\ BootTypes /\ Dispatched(coord, agent, done) /\ Recovers(coord, exec)
      /\ down \in DownType /\ pc \in {"poll", "start", "drive"} /\ mode \in Modes
  BY StoppedFacts
<1>3. c \in CoordType /\ Dispatched(c, agent, done)
  <2>1. coord \in CoordType /\ agent \in Seq(WorkType) BY <1>2 DEF LoopTypes
  <2>2. CASE exec.kind = "recovery"
    <3>1. coord.dispatch.kind = "recovery" BY <1>2, <2>2 DEF Recovers
    <3>2. \A i \in DOMAIN agent : agent[i] \in WorkType BY <2>1
    <3>3. OnlyControl(agent) /\ done = None /\ ~coord.pending
      BY <1>2, <3>1, <3>2, WorkFacts DEF OnlyControl, Dispatched
    <3>4. /\ c \in CoordType /\ c.dispatch = NoDispatch /\ c.pending = coord.pending /\ c.drain = coord.drain
      BY <2>1, <2>2, WorkFacts DEF CoordType
    <3>5. DrainDispatch(c) BY <3>4 DEF DrainDispatch
    <3> QED BY <3>3, <3>4, <3>5, NothingDispatched
  <2>3. CASE exec.kind # "recovery" BY <1>2, <2>1, <2>3
  <2> QED BY <2>2, <2>3
<1> HIDE DEF c
<1>4. coord' \in CoordType /\ Dispatched(coord', agent', done')
  <2>1. CASE coord' = c BY <1>1, <1>3, <2>1
  <2>2. CASE coord' = [c EXCEPT !.quiescing = TRUE]
    <3>1. /\ coord' \in CoordType /\ coord'.dispatch = c.dispatch /\ coord'.pending = c.pending
          /\ coord'.drain = c.drain
      BY <1>3, <2>2 DEF CoordType
    <3> QED BY <1>1, <1>3, <3>1 DEF Dispatched
  <2> QED BY <1>1, <2>1, <2>2
<1>5. DownTold'
  <2>1. CASE \E ok \in BOOLEAN : down' = [down EXCEPT !.stage = "finalize", !.kind = "quiesced", !.ok = ok]
    <3>1. PICK ok \in BOOLEAN : down' = [down EXCEPT !.stage = "finalize", !.kind = "quiesced", !.ok = ok]
      BY <2>1
    <3>2. PICK x : x = [down EXCEPT !.stage = "finalize"] OBVIOUS
    <3>3. x \in DownType BY <1>2, <3>2 DEF DownType
    <3>4. PICK y : y = [x EXCEPT !.kind = "quiesced"] OBVIOUS
    <3>5. y \in DownType /\ y.kind = "quiesced" BY <3>3, <3>4 DEF DownType
    <3>6. down' = [y EXCEPT !.ok = ok] BY <3>1, <3>2, <3>4
    <3>7. down' \in DownType /\ down'.kind = "quiesced" BY <3>5, <3>6 DEF DownType
    <3> QED BY <1>1, <3>7 DEF DownTold
  <2>2. CASE down' = [down EXCEPT !.stage = "barrier", !.kind = "controlled"]
    <3>1. PICK x : x = [down EXCEPT !.stage = "barrier"] OBVIOUS
    <3>2. x \in DownType /\ x.stage = "barrier" BY <1>2, <3>1 DEF DownType
    <3>3. down' = [x EXCEPT !.kind = "controlled"] BY <2>2, <3>1
    <3>4. down' \in DownType /\ down'.stage = "barrier" BY <3>2, <3>3 DEF DownType
    <3> QED BY <1>1, <3>4 DEF DownTold
  <2> QED BY <1>1, <2>1, <2>2
<1>6. OpsTypes'
  <2>1. <<>> \in Seq(Requested) /\ <<>> \in Seq(LedgerRecords) /\ Len(<<>>) = 0 OBVIOUS
  <2>2. 0 <= LedgerCapacity BY OperationsAssumption
  <2>3. audit' \in [Ids -> Seq(OpPhases)] /\ active' \in Requested \cup {NoRequest}
    BY <1>1, <1>2 DEF OpsTypes
  <2>4. inbox' \in Seq(Requested) /\ ledger' \in Seq(LedgerRecords) /\ Len(ledger') <= LedgerCapacity
    BY <1>1, <2>1, <2>2
  <2> QED BY <2>3, <2>4 DEF OpsTypes
<1>7. LoopTypes' /\ BootTypes' /\ ExecSound' /\ Recovers(coord', exec')
  <2>1. Recovers(coord', exec') BY <1>1 DEF Recovers, NoExec, None
  <2> QED BY <1>1, <1>2, <1>4, <2>1 DEF LoopTypes, BootTypes, ExecSound
<1> QED BY <1>1, <1>2, <1>4, <1>5, <1>6, <1>7, StoppedKeeps

(* The shutdown waits for the storage barrier. *)
LEMMA ShutdownBarrierKeeps ==
  ASSUME WorkerInv, ShutdownBarrier
  PROVE  WorkerInv'
<1>1. task # "running" /\ down.stage = "barrier" /\ KeepTask /\ task' = task
  BY DEF ShutdownBarrier, InDown, KeepTask, opsVars
<1>2. LoopTypes /\ Dispatched(coord, agent, done) /\ Recovers(coord, exec) /\ down \in DownType
  BY StoppedFacts
<1>3. CASE NoWire /\ ((Quiescent /\ Down("stop")) \/ DownFails("stop"))
  <2>1. LoopTypes' /\ Dispatched(coord', agent', done') /\ (Quiescent' <=> Quiescent) /\ coord' = coord
    BY <1>2, <1>3, WireKept
  <2>2. DownTold'
    <3>1. \A k \in DOMAIN Nodes : ~(k < 1) BY NodeFacts
    <3>2. CASE Quiescent /\ Down("stop")
      <4>1. down' \in DownType /\ down'.stage = "stop" /\ down'.i = 1
        BY <1>2, <3>2, DownMoved
      <4> QED BY <1>1, <2>1, <3>1, <3>2, <4>1 DEF DownTold
    <3>3. CASE DownFails("stop") BY <1>1, <1>2, <3>3, DownMoved, DownFailed
    <3> QED BY <1>3, <3>2, <3>3
  <2> QED BY <1>1, <1>2, <2>1, <2>2, ShutdownGoes
<1>4. CASE \E e \in Outcomes : RecordingStep(e) /\ IF e = "ok" THEN down' = down ELSE DownFails("stop")
  <2>1. PICK e \in Outcomes : RecordingStep(e) /\ IF e = "ok" THEN down' = down ELSE DownFails("stop")
    BY <1>4
  <2>2. LoopKept(e) BY <1>2, <2>1, RecordingKeeps
  <2>3. LoopTypes' /\ Dispatched(coord', agent', done') /\ Recovers(coord', exec)
    BY <1>2, <2>2 DEF LoopKept, Recovers
  <2>4. DownTold'
    <3>1. CASE down' = down BY <1>1, <1>2, <3>1 DEF DownTold
    <3>2. CASE DownFails("stop") BY <1>1, <1>2, <3>2, DownMoved, DownFailed
    <3> QED BY <2>1, <3>1, <3>2
  <2> QED BY <1>1, <2>3, <2>4, ShutdownGoes
<1> QED BY <1>3, <1>4 DEF ShutdownBarrier

(* A node is stopped. *)
LEMMA ShutdownStopKeeps ==
  ASSUME WorkerInv, ShutdownStop
  PROVE  WorkerInv'
<1>1. task # "running" /\ down.stage = "stop" /\ KeepTask /\ task' = task
  BY DEF ShutdownStop, InDown, KeepTask, opsVars
<1>2. /\ LoopTypes /\ Dispatched(coord, agent, done) /\ Recovers(coord, exec) /\ down \in DownType
      /\ down.i \in Nat \ {0}
      /\ down.ok /\ down.kind = "controlled" =>
           Quiescent /\ \A k \in DOMAIN Nodes : k < down.i => Stopped(world, Nodes[k])
  BY <1>1, StoppedFacts DEF DownTold, DownType
<1>3. CASE DownFails("finalize") /\ UNCHANGED <<coord, recovering, agent, flight, done, world>>
  <2>1. DownTold' BY <1>1, <1>2, <1>3, DownMoved, DownFailed
  <2>2. LoopTypes' /\ Dispatched(coord', agent', done') /\ Recovers(coord', exec)
    BY <1>2, <1>3 DEF LoopTypes
  <2> QED BY <1>1, <2>1, <2>2, ShutdownGoes
<1>4. CASE /\ down.i > Len(Nodes) /\ Quiescent /\ Down("drain")
           /\ coord' = [coord EXCEPT !.drain = Drainable, !.quiescing = FALSE]
           /\ UNCHANGED <<recovering, agent, flight, done, world>>
  <2>1. /\ LoopTypes' /\ Dispatched(coord', agent', done') /\ Draining'
        /\ DrainedBut(world', recovering', coord'.drain)
    BY <1>2, <1>4, DrainBegins
  <2>2. coord'.dispatch = coord.dispatch BY <1>2, <1>4 DEF LoopTypes, CoordType
  <2>3. down.ok /\ down.kind = "controlled" => AllStopped(world)
    <3>1. \A k \in DOMAIN Nodes : k < down.i BY <1>2, <1>4, NodeFacts
    <3> QED BY <1>2, <3>1, NodeFacts DEF AllStopped
  <2>4. /\ down' \in DownType /\ down'.stage = "drain"
        /\ down'.ok = down.ok /\ down'.kind = down.kind
    BY <1>2, <1>4, DownMoved
  <2>5. DownTold' BY <1>1, <1>4, <2>1, <2>3, <2>4 DEF DownTold
  <2> QED BY <1>1, <1>2, <2>1, <2>2, <2>5, ShutdownGoes DEF Recovers
<1>5. CASE /\ ~(down.i > Len(Nodes))
           /\ UNCHANGED <<coord, recovering, agent, flight, done>>
           /\ world' = [world EXCEPT ![Nodes[down.i]].state = IF @ = "Recording" THEN "Idle" ELSE @]
           /\ down' = [down EXCEPT !.i = @ + 1]
  <2>1. PICK n \in NodeSet : n = Nodes[down.i] BY <1>2, <1>5, NodeFacts
  <2>2. world \in [NodeSet -> WorldType] BY <1>2 DEF LoopTypes
  <2>3. PICK state \in {"Idle", "Maintenance"} :
          state = IF world[n].state = "Recording" THEN "Idle" ELSE world[n].state
    BY <2>2 DEF WorldType
  <2>4. world' = [world EXCEPT ![n].state = state] BY <1>5, <2>1, <2>3
  <2>5. /\ world' \in [NodeSet -> WorldType]
        /\ \A m \in NodeSet : Stopped(world', m) <=> (m = n \/ Stopped(world, m))
    <3>1. \A m \in NodeSet : world[m] \in WorldType BY <2>2
    <3>2. [world[n] EXCEPT !.state = state] \in WorldType /\ [world[n] EXCEPT !.state = state].state = state
      BY <3>1 DEF WorldType
    <3>3. \A m \in NodeSet : world'[m] = IF m = n THEN [world[n] EXCEPT !.state = state] ELSE world[m]
      BY <2>2, <2>4
    <3> QED BY <2>2, <2>4, <3>2, <3>3 DEF Stopped
  <2>6. /\ down' \in DownType /\ down'.stage = "stop" /\ down'.i = down.i + 1
        /\ down'.ok = down.ok /\ down'.kind = down.kind
    BY <1>1, <1>2, <1>5 DEF DownType
  <2>7. LoopTypes' /\ Dispatched(coord', agent', done') /\ (Quiescent' <=> Quiescent)
    BY <1>2, <1>5, <2>5 DEF LoopTypes, Quiescent, Busy
  <2>8. ASSUME down.ok, down.kind = "controlled", NEW k \in DOMAIN Nodes, k < down.i + 1
        PROVE  Stopped(world', Nodes[k])
    <3>1. k = down.i \/ k < down.i BY <1>2, <2>8, NodeFacts
    <3> QED BY <1>2, <2>1, <2>5, <2>8, <3>1, NodeFacts
  <2>9. DownTold' BY <1>1, <1>2, <2>6, <2>7, <2>8 DEF DownTold
  <2> QED BY <1>1, <1>2, <1>5, <2>7, <2>9, ShutdownGoes
<1> QED BY <1>3, <1>4, <1>5 DEF ShutdownStop

(* The tails are drained, before the deadline or not. *)
LEMMA ShutdownDrainKeeps ==
  ASSUME WorkerInv, ShutdownDrain
  PROVE  WorkerInv'
<1>1. task # "running" /\ down.stage = "drain" /\ KeepTask /\ task' = task
  BY DEF ShutdownDrain, InDown, KeepTask, opsVars
<1>2. /\ LoopTypes /\ Dispatched(coord, agent, done) /\ Recovers(coord, exec) /\ down \in DownType
      /\ down.ok /\ down.kind = "controlled" =>
           AllStopped(world) /\ Draining /\ DrainedBut(world, recovering, coord.drain)
  BY <1>1, StoppedFacts DEF DownTold
<1>3. CASE /\ DrainComplete /\ coord' = [coord EXCEPT !.drain = NoDrain, !.quiescing = TRUE]
           /\ Down("finalize") /\ UNCHANGED <<recovering, agent, flight, done, world>>
  <2>1. /\ LoopTypes' /\ Dispatched(coord', agent', done')
        /\ coord'.pending = coord.pending /\ coord'.dispatch = coord.dispatch
    BY <1>2, <1>3, DrainEnds
  <2>2. coord.drain = {} /\ coord'.pending = FALSE
    BY <1>2, <1>3, <2>1 DEF DrainComplete, Busy, LoopTypes, CoordType
  <2>3. /\ down' \in DownType /\ down'.stage = "finalize"
        /\ down'.ok = down.ok /\ down'.kind = down.kind
    BY <1>2, <1>3, DownMoved
  <2>4. DownTold' BY <1>1, <1>2, <1>3, <2>2, <2>3 DEF DownTold
  <2> QED BY <1>1, <1>2, <2>1, <2>4, ShutdownGoes DEF Recovers
<1>4. CASE DownFails("finalize") /\ NoWire
  <2>1. DownTold' BY <1>1, <1>2, <1>4, DownMoved, DownFailed
  <2>2. LoopTypes' /\ Dispatched(coord', agent', done') /\ coord' = coord
    BY <1>2, <1>4, WireKept
  <2> QED BY <1>1, <1>2, <2>1, <2>2, ShutdownGoes
<1>5. CASE \E e \in Outcomes : RecordingStep(e) /\ IF e = "ok" THEN down' = down ELSE DownFails("finalize")
  <2>1. PICK e \in Outcomes : RecordingStep(e) /\ IF e = "ok" THEN down' = down ELSE DownFails("finalize")
    BY <1>5
  <2>2. LoopKept(e) BY <1>2, <2>1, RecordingKeeps
  <2>3. LoopTypes' /\ Dispatched(coord', agent', done') /\ Recovers(coord', exec)
    BY <1>2, <2>2 DEF LoopKept, Recovers
  <2>4. DownTold'
    <3>1. CASE down' = down
      <4>1. down.ok /\ down.kind = "controlled" =>
              AllStopped(world') /\ Draining' /\ DrainedBut(world', recovering', coord'.drain)
        BY <1>2, <2>2 DEF LoopKept, AllStopped, Stopped
      <4> QED BY <1>1, <1>2, <3>1, <4>1 DEF DownTold
    <3>2. CASE DownFails("finalize") BY <1>1, <1>2, <3>2, DownMoved, DownFailed
    <3> QED BY <2>1, <3>1, <3>2
  <2> QED BY <1>1, <2>3, <2>4, ShutdownGoes
<1> QED BY <1>3, <1>4, <1>5 DEF ShutdownDrain

(* The captures are finalized. *)
LEMMA ShutdownFinalizeKeeps ==
  ASSUME WorkerInv, ShutdownFinalize
  PROVE  WorkerInv'
<1>1. /\ task # "running" /\ down.stage = "finalize" /\ KeepTask /\ task' = task
      /\ coord' = [coord EXCEPT !.writes = {}] /\ UNCHANGED <<recovering, agent, flight, done, world>>
      /\ Down("done") \/ DownFails("done")
  BY DEF ShutdownFinalize, InDown, KeepTask, opsVars
<1>2. /\ LoopTypes /\ Dispatched(coord, agent, done) /\ Recovers(coord, exec) /\ down \in DownType
      /\ down.ok /\ down.kind = "controlled" =>
           AllStopped(world) /\ ~coord.pending /\ DrainedBut(world, recovering, {})
  BY <1>1, StoppedFacts DEF DownTold
<1>3. /\ coord' \in CoordType /\ coord'.dispatch = coord.dispatch /\ coord'.pending = coord.pending
      /\ coord'.drain = coord.drain /\ coord'.writes = {}
  BY <1>1, <1>2 DEF LoopTypes, CoordType
<1>4. LoopTypes' /\ Dispatched(coord', agent', done') /\ Recovers(coord', exec)
  BY <1>1, <1>2, <1>3 DEF LoopTypes, Dispatched, Recovers
<1>5. DownTold'
  <2>1. CASE Down("done")
    <3>1. /\ down' \in DownType /\ down'.stage = "done"
          /\ down'.ok = down.ok /\ down'.kind = down.kind
      BY <1>2, <2>1, DownMoved
    <3> QED BY <1>1, <1>2, <1>3, <3>1 DEF DownTold
  <2>2. CASE DownFails("done") BY <1>1, <1>2, <2>2, DownMoved, DownFailed
  <2> QED BY <1>1, <2>1, <2>2
<1> QED BY <1>1, <1>4, <1>5, ShutdownGoes

------------------------
(* Everyone else. *)

(* A step of the nodes: what has stopped stays stopped, and drained. *)
LEMMA WorldKeeps ==
  ASSUME WorkerInv, world' \in [NodeSet -> WorldType],
         UNCHANGED <<opsVars, pc, exec, workflow, coord, recovering, agent, flight, done, sboot,
                     wboot, down>>,
         \A m \in NodeSet : Stopped(world, m) =>
              Stopped(world', m) /\ (world[m].tail = 0 => world'[m].tail = 0)
  PROVE  WorkerInv'
<1>1. UNCHANGED <<mode, inbox, ledger, active, audit, task>> BY DEF opsVars
<1>2. /\ OpsInv /\ WorkerTypes /\ WorksSound /\ ModeSound /\ DownTold /\ NoInternalError
      /\ task = "running" => EntryTold /\ ResumeTold
  BY DEF WorkerInv
<1>3. OpsInv' /\ NoInternalError' BY <1>1, <1>2 DEF OpsInv, OpsTypes, NoInternalError
<1>4. /\ (Quiescent' <=> Quiescent) /\ (Draining' <=> Draining) /\ (ResumeReady' <=> ResumeReady)
      /\ WorksSound' /\ ModeSound'
  BY <1>1, <1>2 DEF Quiescent, Busy, Draining, ResumeReady, WorksSound, ModeSound, At
<1>5. WorkerTypes' BY <1>1, <1>2 DEF WorkerTypes, LoopTypes, BootTypes, ExecSound
<1>6. AllStopped(world) =>
        /\ AllStopped(world')
        /\ \A d : DrainedBut(world, recovering, d) => DrainedBut(world', recovering, d)
  BY NodeFacts DEF AllStopped, DrainedBut
<1>7. \A k \in DOMAIN Nodes : Stopped(world, Nodes[k]) => Stopped(world', Nodes[k])
  BY NodeFacts
<1>8. task = "running" => EntryTold' /\ ResumeTold'
  BY <1>2, <1>4, <1>6, <1>7 DEF EntryTold, ResumeTold
<1>9. DownTold' BY <1>1, <1>2, <1>4, <1>6, <1>7 DEF DownTold
<1> QED BY <1>1, <1>3, <1>4, <1>5, <1>8, <1>9 DEF WorkerInv

(* A node samples, or reboots. *)
LEMMA NodesKeep ==
  ASSUME WorkerInv, NEW n \in NodeSet, Produce(n) \/ Reboot(n)
  PROVE  WorkerInv'
<1>1. world \in [NodeSet -> WorldType] BY StoppedFacts DEF LoopTypes
<1>2. CASE Reboot(n) BY <1>1, <1>2, RebootKeeps, WorldKeeps DEF Reboot
<1>3. CASE Produce(n)
  <2>1. world[n] \in WorldType /\ ~Stopped(world, n) /\ world' = [world EXCEPT ![n].tail = @ + 1]
    BY <1>1, <1>3 DEF Produce, Stopped
  <2>2. [world[n] EXCEPT !.tail = @ + 1] \in WorldType BY <2>1 DEF WorldType
  <2>3. /\ world' \in [NodeSet -> WorldType]
        /\ \A m \in NodeSet : m # n => world'[m] = world[m]
    BY <1>1, <2>1, <2>2
  <2>4. \A m \in NodeSet : Stopped(world, m) =>
          Stopped(world', m) /\ (world[m].tail = 0 => world'[m].tail = 0)
    BY <2>1, <2>3 DEF Stopped
  <2> QED BY <1>3, <2>3, <2>4, WorldKeeps DEF Produce
<1> QED BY <1>2, <1>3

(* A deadline passes. *)
LEMMA DeadlineKeeps ==
  ASSUME WorkerInv, DeadlinePasses
  PROVE  WorkerInv'
<1>1. UNCHANGED <<opsVars, pc, workflow, coord, recovering, agent, flight, done, world, sboot, wboot>>
  BY DEF DeadlinePasses
<1>2. UNCHANGED <<mode, inbox, ledger, active, audit, task>> BY <1>1 DEF opsVars
<1>3. /\ OpsInv /\ LoopTypes /\ BootTypes /\ ExecSound /\ pc \in {"poll", "start", "drive"}
      /\ mode \in Modes /\ Dispatched(coord, agent, done) /\ Recovers(coord, exec) /\ down \in DownType
      /\ WorksSound /\ ModeSound /\ DownTold /\ NoInternalError
      /\ task = "running" => EntryTold /\ ResumeTold
  BY DEF WorkerInv, WorkerTypes, WorksSound, DownTold
<1>4. /\ OpsInv' /\ LoopTypes' /\ BootTypes' /\ Dispatched(coord', agent', done') /\ NoInternalError'
      /\ (Quiescent' <=> Quiescent) /\ (Draining' <=> Draining) /\ (ResumeReady' <=> ResumeReady)
  BY <1>1, <1>2, <1>3
     DEF OpsInv, OpsTypes, LoopTypes, BootTypes, NoInternalError, Quiescent, Busy, Draining, ResumeReady
<1>5. CASE Timed /\ exec' = [exec EXCEPT !.due = TRUE] /\ UNCHANGED down
  <2>1. exec # NoExec BY <1>5 DEF Timed, NoExec, None
  <2>2. exec \in ExecType BY <1>3, <2>1 DEF ExecSound
  <2>3. /\ exec' \in ExecType /\ exec'.kind = exec.kind /\ exec'.stage = exec.stage /\ exec'.i = exec.i
        /\ exec'.node = exec.node /\ exec'.finish = exec.finish
    BY <1>5, <2>2 DEF ExecType
  <2>4. ExecSound' /\ exec' # NoExec BY <1>3, <2>1, <2>3, ExecMoved
  <2>5. WorksSound' /\ ModeSound' /\ DownTold'
    <3>1. WorksSound' BY <1>1, <1>2, <1>3, <2>3 DEF WorksSound, Recovers, Controlled
    <3>2. ModeSound' BY <1>1, <1>2, <1>3, <1>4, <2>1, <2>3, <2>4 DEF ModeSound, At
    <3>3. DownTold' BY <1>1, <1>2, <1>3, <1>4, <1>5 DEF DownTold
    <3> QED BY <3>1, <3>2, <3>3
  <2>6. task = "running" => EntryTold' /\ ResumeTold'
    BY <1>1, <1>2, <1>3, <1>4, <2>3 DEF EntryTold, ResumeTold
  <2> QED BY <1>1, <1>2, <1>3, <1>4, <2>4, <2>5, <2>6 DEF WorkerInv, WorkerTypes
<1>6. CASE /\ down.stage \in {"barrier", "drain"} /\ exec' = exec
           /\ down' = [down EXCEPT !.due = TRUE]
  <2>1. down' \in DownType /\ down'.stage = down.stage /\ down'.ok = down.ok /\ down'.kind = down.kind
    BY <1>3, <1>6 DEF DownType
  <2>2. task # "running" BY <1>3, <1>6 DEF DownTold, None
  <2>3. DownTold' BY <1>1, <1>2, <1>3, <1>4, <1>6, <2>1, <2>2 DEF DownTold
  <2>4. OpsTypes' /\ ExecSound' /\ Recovers(coord', exec')
    BY <1>1, <1>3, <1>4, <1>6 DEF OpsInv, ExecSound
  <2> QED BY <1>1, <1>2, <1>3, <1>4, <2>2, <2>3, <2>4, StoppedKeeps
<1> QED BY <1>5, <1>6 DEF DeadlinePasses

(* A client submits, or the supervisor asks the task to stop. *)
LEMMA OutsideKeeps ==
  ASSUME WorkerInv, Submit \/ RequestStop
  PROVE  WorkerInv'
<1>1. task = "running" /\ UNCHANGED <<pc, taskVars, down>> BY DEF Submit, RequestStop
<1>2. OpsInv /\ ModeSound /\ mode \in Modes /\ pc \in {"poll", "start", "drive"}
  BY <1>1, RunningFacts
<1>3. /\ LoopTypes' /\ BootTypes' /\ ExecSound' /\ Dispatched(coord', agent', done')
      /\ Recovers(coord', exec') /\ Controlled(agent', exec') /\ EntryTold' /\ ResumeTold'
  BY <1>1, TaskKept
<1>4. CASE Submit
  <2>1. PICK id \in Ids, kind \in Kinds : TrySubmit(id, kind) BY <1>4 DEF Submit
  <2>2. UNCHANGED <<mode, ledger, active, audit, task>> /\ inbox' = Append(inbox, [id |-> id, kind |-> kind])
    BY <2>1 DEF TrySubmit
  <2>3. OpsInv'
    <3>1. [id |-> id, kind |-> kind] \in Requested BY DEF Requested
    <3>2. inbox' \in Seq(Requested) BY <1>2, <2>2, <3>1 DEF OpsInv, OpsTypes
    <3> QED BY <1>2, <2>2, <3>2 DEF OpsInv, OpsTypes
  <2>4. ModeSound' BY <1>1, <1>2, <2>2 DEF taskVars, ModeSound, Draining, At
  <2> QED BY <1>1, <1>2, <1>3, <2>2, <2>3, <2>4, TaskGoesOn
<1>5. CASE RequestStop
  <2>1. task' = "stopping" /\ UNCHANGED <<mode, inbox, ledger, active, audit>>
    BY <1>5 DEF RequestStop
  <2>2. OpsTypes' /\ task' \notin InternalErrors \cup {"running"}
    BY <1>2, <2>1 DEF OpsInv, OpsTypes, InternalErrors
  <2> QED BY <1>1, <1>2, <1>3, <2>1, <2>2, TaskEnds
<1> QED BY <1>4, <1>5
------------------------
(* What the specification promises. *)

(* The invariant at the start. *)
LEMMA WorkerStarts ==
  ASSUME Init
  PROVE  WorkerInv
<1>1. /\ mode = "Recording" /\ inbox = <<>> /\ ledger = <<>> /\ active = NoRequest
      /\ audit = [i \in Ids |-> <<>>] /\ task = "running"
      /\ pc = "poll" /\ exec = NoExec /\ recovering = {} /\ agent = <<>> /\ flight = FALSE /\ done = None
      /\ coord = [quiescing |-> FALSE, drain |-> NoDrain, dispatch |-> NoDispatch,
                  pending |-> FALSE, writes |-> {}]
      /\ world = [n \in NodeSet |-> [state |-> "Recording", boot |-> 0, tail |-> 0]]
      /\ sboot = [n \in NodeSet |-> 0] /\ wboot = [n \in NodeSet |-> 0]
      /\ down = [stage |-> None, kind |-> None, ok |-> TRUE, i |-> 1, due |-> FALSE]
  BY DEF Init, OpsInit
<1>2. DOMAIN ledger = {} /\ DOMAIN agent = {} /\ ledger \in Seq(LedgerRecords) /\ Len(ledger) = 0
      /\ inbox \in Seq(Requested) /\ agent \in Seq(WorkType)
  BY <1>1
<1>3. OpsInv
  <2>1. 0 <= LedgerCapacity BY OperationsAssumption
  <2>2. audit \in [Ids -> Seq(OpPhases)] BY <1>1
  <2>3. OpsTypes BY <1>1, <1>2, <2>1, <2>2 DEF OpsTypes
  <2> QED BY <1>1, <1>2, <2>3 DEF OpsInv, LedgerTold, OneRecord, ActiveRuns
<1>4. coord \in CoordType /\ world \in [NodeSet -> WorldType] /\ BootTypes /\ down \in DownType
  <2>1. NoDispatch \in DispatchType BY WorkFacts
  <2>2. coord \in CoordType BY <1>1, <2>1 DEF CoordType
  <2>3. world \in [NodeSet -> WorldType] /\ BootTypes BY <1>1 DEF WorldType, BootTypes
  <2>4. down \in DownType BY <1>1 DEF DownType
  <2> QED BY <2>2, <2>3, <2>4
<1>5. exec.kind = None /\ exec.kind \notin ExecKinds /\ ExecSound
  BY <1>1 DEF NoExec, ExecSound, ExecKinds, ControlExecs, None
<1>6. WorkerTypes BY <1>1, <1>2, <1>4, <1>5 DEF WorkerTypes, LoopTypes, Modes
<1>7. ~Draining /\ coord.dispatch = NoDispatch /\ ~coord.quiescing /\ ~coord.pending
  BY <1>1 DEF Draining
<1>8. WorksSound
  BY <1>1, <1>2, <1>5, <1>7 DEF WorksSound, Dispatched, Recovers, Controlled, OneControl, NoControl, ExecKinds
<1>9. ModeSound /\ EntryTold /\ ResumeTold
  BY <1>1, <1>5, <1>7 DEF ModeSound, EntryTold, ResumeTold, ExecKinds
<1>10. DownTold /\ NoInternalError BY <1>1, <1>4 DEF DownTold, NoInternalError, None
<1> QED BY <1>3, <1>6, <1>8, <1>9, <1>10 DEF WorkerInv

(* The invariant at every step. *)
LEMMA WorkerKeeps ==
  ASSUME WorkerInv, [Next]_vars
  PROVE  WorkerInv'
<1>1. CASE UNCHANGED vars
  <2>1. UNCHANGED <<opsVars, pc, exec, workflow, coord, recovering, agent, flight, done, world, sboot,
                    wboot, down>>
    BY <1>1 DEF vars, taskVars
  <2>2. world' \in [NodeSet -> WorldType] /\ \A m \in NodeSet : Stopped(world, m) =>
          Stopped(world', m) /\ (world[m].tail = 0 => world'[m].tail = 0)
    BY <2>1, StoppedFacts DEF LoopTypes
  <2> QED BY <2>1, <2>2, WorldKeeps
<1>2. CASE Next
  BY <1>2, PollKeeps, StartKeeps, AdvanceKeeps, DriveKeeps, ShutdownBeginKeeps, ShutdownBarrierKeeps,
     ShutdownStopKeeps, ShutdownDrainKeeps, ShutdownFinalizeKeeps, OutsideKeeps, DeadlineKeeps,
     NodesKeep DEF Next, Shutdown
<1> QED BY <1>1, <1>2

(* The invariant of the task. *)
LEMMA WorkerHolds == Spec => []WorkerInv
<1>1. Init => WorkerInv BY WorkerStarts
<1>2. WorkerInv /\ [Next]_vars => WorkerInv' BY WorkerKeeps
<1> QED BY <1>1, <1>2, PTL DEF Spec

(* The task never loses itself: whatever the operations, the losses of the
   port and the storage and the reboots of the nodes, a started operation
   has its execution until it ends, Recording is scheduled, a controlled
   shutdown reported Ok drained every intact stream, and no error that
   only an inconsistent task can produce (NoActiveDispatch,
   ShutdownDrainNotReady, ResumeNotReady, ...) ends it. *)
THEOREM TaskStaysConsistent == Spec => []TaskConsistent
<1>1. ASSUME WorkerInv PROVE TaskConsistent
  <2>1. ActiveIsDriven
    <3> SUFFICES ASSUME task = "running"
                 PROVE  /\ mode = "EnteringMaintenance" => exec.kind = "maintenance"
                        /\ mode = "ResumingRecording" => exec.kind = "resume"
                        /\ exec.kind \notin {None, "recovery"} => active # NoRequest
                        /\ pc = "poll" /\ active # NoRequest => exec # NoExec \/ workflow # None
      BY DEF ActiveIsDriven
    <3>1. ModeSound /\ ExecSound BY <1>1, RunningFacts
    <3>2. exec.kind # None => exec.kind \in ExecKinds BY <3>1, ExecFacts
    <3> QED BY <3>1, <3>2 DEF ModeSound, None
  <2>2. RecordingIsScheduled
    BY <1>1, RunningFacts DEF RecordingIsScheduled, ModeSound, At
  <2>3. ShutdownClean
    <3> SUFFICES ASSUME down.stage = "done", down.ok, down.kind = "controlled"
                 PROVE  /\ coord.writes = {} /\ ~coord.pending
                        /\ \A n \in NodeSet : /\ world[n].state # "Recording"
                                              /\ n \notin recovering => world[n].tail = 0
      BY DEF ShutdownClean
    <3>1. AllStopped(world) /\ ~coord.pending /\ DrainedBut(world, recovering, {}) /\ coord.writes = {}
      BY <1>1, StoppedFacts DEF DownTold
    <3> QED BY <3>1, NodeFacts DEF AllStopped, Stopped, DrainedBut
  <2> QED BY <1>1, <2>1, <2>2, <2>3 DEF TaskConsistent, WorkerInv
<1> QED BY <1>1, WorkerHolds, PTL

(* The audit covers the ledger (audit_record before a phase takes effect):
   while the task runs, the last phase audited of every operation in the
   ledger is the phase the ledger shows, and the active operation, if the
   ledger still knows it, is Running. *)
THEOREM AuditsCover == Spec => []AuditCovers
<1>1. ASSUME WorkerInv PROVE AuditCovers
  <2> SUFFICES ASSUME task = "running"
               PROVE  /\ \A i \in DOMAIN ledger : /\ audit[ledger[i].id] # <<>>
                                                  /\ Last(audit[ledger[i].id]) = ledger[i].phase
                      /\ active # NoRequest /\ Known(active.id) =>
                           RecordOf(ledger, active.id).phase = "Running"
    BY DEF AuditCovers
  <2>1. LedgerTold(ledger, audit) /\ ActiveRuns(ledger, active)
    BY <1>1, RunningFacts DEF OpsInv
  <2>2. \A i \in DOMAIN ledger : /\ audit[ledger[i].id] # <<>>
                                 /\ Last(audit[ledger[i].id]) = ledger[i].phase
    BY <2>1 DEF LedgerTold, LastAudited
  <2>3. ASSUME active # NoRequest PROVE RecordOf(ledger, active.id).phase = "Running"
    <3>1. PICK i \in DOMAIN ledger : ledger[i].id = active.id /\ ledger[i].phase = "Running"
      BY <2>1, <2>3 DEF ActiveRuns
    <3>2. RecordOf(ledger, ledger[i].id) = ledger[i] BY <2>1, RecordFound DEF LedgerTold
    <3> QED BY <3>1, <3>2
  <2> QED BY <2>2, <2>3
<1> QED BY <1>1, WorkerHolds, PTL

(* EnterMaintenance succeeds only over a quiet channel: when the mode goes
   from EnteringMaintenance to Maintenance every node has stopped, nothing
   is on its way to storage, and every node whose stream is intact was
   drained to its last sample, although samples were produced until the
   very stop. *)
THEOREM MaintenanceStaysQuiet == Spec => MaintenanceIsQuiet
<1> DEFINE Quiet == mode = "EnteringMaintenance" /\ mode' = "Maintenance" =>
          /\ Quiescent
          /\ \A n \in NodeSet : /\ world[n].state # "Recording"
                                /\ n \notin recovering => world[n].tail = 0
<1>1. ASSUME WorkerInv, [Next]_vars PROVE Quiet
  <2> SUFFICES ASSUME mode = "EnteringMaintenance", mode' = "Maintenance"
               PROVE  /\ Quiescent
                      /\ \A n \in NodeSet : /\ world[n].state # "Recording"
                                            /\ n \notin recovering => world[n].tail = 0
    OBVIOUS
  <2>1. EntryComplete /\ exec.stage = "CompleteMaintenance" /\ task = "running" /\ exec.kind = "maintenance"
    <3>1. mode' # mode OBVIOUS
    <3>2. Start \/ Advance \/ Drive
      BY <1>1, <3>1 DEF Next, vars, opsVars, Poll, Shutdown, ShutdownBegin, ShutdownBarrier, ShutdownStop,
         ShutdownDrain, ShutdownFinalize, KeepTask, Submit, TrySubmit, RequestStop, DeadlinePasses,
         Produce, Reboot
    <3>3. task = "running" BY <3>2 DEF Start, Advance, Drive, Driving
    <3>4. ModeSound BY <1>1, <3>3, RunningFacts
    <3>5. exec.kind = "maintenance" /\ exec # NoExec /\ pc # "start"
      <4>1. exec.kind = "maintenance" BY <3>3, <3>4 DEF ModeSound
      <4> QED BY <3>3, <3>4, <4>1 DEF ModeSound, NoExec, None
    <3>6. Drive
      <4>1. ~Start BY <3>5 DEF Start
      <4>2. ~Advance BY <3>1, <3>5 DEF Advance, AdvanceDue, opsVars
      <4> QED BY <3>2, <4>1, <4>2
    <3>7. EntryQuiesced \/ EntryBarrier \/ EntryConverge \/ EntryReconcile \/ EntryDrain \/ EntryComplete
      BY <3>5, <3>6 DEF Drive, At, Record, ResumeVerify, ResumeVerified, ResumeReconcile, ResumeAdmission,
         ResumeActivate, ResumeScheduling, ResumeComplete, ConfigurationExpire, ConfigurationStep,
         CommissioningExpire, CommissioningProbe, CommissioningStep, CommissioningAssigned,
         RestartExpire, RestartStep, RestartSettled, RecoveryVerify, RecoveryRollover,
         RecoveryActivate, RecoveryFinish
    <3>8. ~EntryQuiesced /\ ~EntryBarrier /\ ~EntryReconcile
      BY DEF EntryQuiesced, EntryBarrier, EntryReconcile, StepRecording, Goes, Raises, EndsIn, opsVars
    <3>9. ~EntryDrain BY DEF EntryDrain, StepRecording, Goes, Raises, EndsIn, opsVars
    <3>10. ~EntryConverge BY DEF EntryConverge, Goes, Raises, EndsIn, opsVars
    <3>11. EntryComplete BY <3>7, <3>8, <3>9, <3>10
    <3>12. exec.stage = "CompleteMaintenance" BY <3>11 DEF EntryComplete, EndsIn, At
    <3> QED BY <3>3, <3>5, <3>11, <3>12
  <2>2. Quiescent /\ AllStopped(world) /\ DrainedBut(world, recovering, {})
    BY <1>1, <2>1, RunningFacts DEF EntryTold
  <2> QED BY <2>2, NodeFacts DEF AllStopped, Stopped, DrainedBut
<1>2. WorkerInv /\ [Next]_vars => [Quiet]_vars BY <1>1
<1> QED BY <1>2, WorkerHolds, PTL DEF MaintenanceIsQuiet, Spec
=============================================================================
