-------------------------- MODULE InterfacesProofs --------------------------
(* The host's answers to its operators, and the addresses it gives.
   What operators are told is what the audit holds, for any number of
   clients, operations, retries, lost datagrams, failing appends and
   crashes, and every capacity of mailbox and ledger.  Addresses are given
   truthfully and for good, for every bus: however many nodes, nonces,
   addresses, operations and power losses. *)
EXTENDS OperationsService, Commissioning, FiniteSetTheorems, SequenceTheorems,
        WellFoundedInduction, TLAPS
------------------------
(* The invariant. *)

OpPhases == {"Accepted", "Running"} \cup Terminal
Requests == [id : Ids, kind : Kinds]
Records == [id : Ids, kind : Kinds, phase : OpPhases]
Entries == [sequence : Nat, id : Ids, phase : OpPhases]

(* What the server and a client may say.  Neither is ever told that a
   request of the command line is malformed or of the wrong scope. *)
Reasons == {"none", "invalid", "channel_disconnected", "queue_full"}
Replies == [ok : BOOLEAN, phase : OpPhases \cup {"none", "queued"}, reason : Reasons]
Exits == Reasons \cup {"ok", "Rejected", "Failed", "unavailable", "timeout"}
ClientStates ==
    [id : Ids, kind : Kinds, inRange : BOOLEAN,
     at : {"submit", "submitting", "get", "getting", "done"}, tries : Nat, gets : Nat,
     answer : Replies, exit : Exits]
Datagrams == [from : Clients, exchange : Int, action : {"submit", "get"}]

(* One id names one request, and its values are in range if they need to be. *)
ClientsAgree(cl) ==
    /\ \A c, d \in Clients : cl[c].id = cl[d].id =>
                              cl[c].kind = cl[d].kind /\ cl[c].inRange = cl[d].inRange
    /\ \A c \in Clients : cl[c].kind \in Ranged \/ cl[c].inRange

(* A request that passed the server is the one its clients mean. *)
Sound(cl, id, kind) ==
    \A c \in Clients : cl[c].id = id => cl[c].kind = kind /\ cl[c].inRange

HappenedIn(f, id, phase) == \E i \in DOMAIN f : f[i].id = id /\ f[i].phase = phase

(* An audit without a torn record, and one that may end with one. *)
Whole(f) == f \in Seq(Entries) /\ \A i \in DOMAIN f : f[i].sequence = i - 1
Readable(f) ==
    /\ f \in Seq(Entries \cup {Torn})
    /\ \A i \in DOMAIN f : IF f[i] = Torn THEN i = Len(f) ELSE f[i].sequence = i - 1

(* A ledger, or a snapshot of one. *)
Book(cl, l) ==
    /\ l \in Seq(Records)
    /\ \A i, k \in DOMAIN l : l[i].id = l[k].id => i = k
    /\ \A i \in DOMAIN l : Sound(cl, l[i].id, l[i].kind)
Backed(l, f) == \A i \in DOMAIN l : HappenedIn(f, l[i].id, l[i].phase)

RunningIn(l, id) == \E i \in DOMAIN l : l[i].id = id /\ l[i].phase = "Running"

(* What a client was told, and what it told. *)
Told(s, f) ==
    /\ s.answer.ok /\ s.answer.phase \in Terminal =>
          s.inRange /\ HappenedIn(f, s.id, s.answer.phase)
    /\ s.exit = "ok" => s.inRange /\ HappenedIn(f, s.id, "Succeeded")
    /\ s.exit \in {"Rejected", "Failed"} => HappenedIn(f, s.id, s.exit)

ClientInv ==
    /\ client \in [Clients -> ClientStates] /\ ClientsAgree(client)
    /\ socket \in Seq(Datagrams)
    /\ \A c \in Clients : Told(client[c], file)

ChannelInv ==
    /\ inbox \in Seq(Requests)
    /\ \A i \in DOMAIN inbox : Sound(client, inbox[i].id, inbox[i].kind)
    /\ Book(client, ledger) /\ Len(ledger) <= LedgerCapacity /\ Book(client, published)
    /\ Backed(published, file)
    /\ audit \in [Ids -> Seq(OpPhases)]
    /\ active = NoRequest \/ active \in Requests
    /\ task = "running" =>
          Backed(ledger, file) /\ (active # NoRequest => RunningIn(ledger, active.id))

AuditInv ==
    /\ process \in {"up", "down"} /\ sequence \in Nat
    /\ Readable(file)
    /\ process = "up" /\ task = "running" => Whole(file) /\ sequence = Len(file)
    /\ started \in [Ids -> Nat]
    /\ \A id \in Ids : started[id] > 0 => HappenedIn(file, id, "Running")

ServiceInv == ClientInv /\ ChannelInv /\ AuditInv

(* While the ledger forgets nothing, what was started is in it. *)
Remembered ==
    \A id \in Ids : started[id] <= 1 /\ (task = "running" /\ started[id] = 1 => Known(id))
------------------------
(* The ledger. *)

(* A set of places that is not empty has its oldest. *)
LEMMA OldestExists ==
  ASSUME NEW S \in SUBSET Nat, S # {}
  PROVE  Oldest(S) \in S
<1>1. PICK x \in S : \A y \in S : ~ (<<y, x>> \in OpToRel(<, Nat))
  BY NatLessThanWellFounded, WFMin
<1>2. ASSUME NEW y \in S PROVE ~(y < x)
  <2>1. <<y, x>> \in Nat \X Nat OBVIOUS
  <2>2. y < x => <<y, x>> \in OpToRel(<, Nat) BY <2>1, Zenon DEF OpToRel
  <2> QED BY <1>1, <2>2, Zenon
<1>3. \A y \in S : x <= y BY <1>2
<1> QED BY <1>3 DEF Oldest

(* What is left when one record is forgotten. *)
LEMMA Forgotten ==
  ASSUME NEW S, NEW s \in Seq(S), NEW x \in 1 .. Len(s)
  PROVE  /\ RemoveAt(s, x) \in Seq(S) /\ Len(RemoveAt(s, x)) = Len(s) - 1
         /\ \A i \in 1 .. (Len(s) - 1) :
              RemoveAt(s, x)[i] = IF i < x THEN s[i] ELSE s[i + 1]
<1>1. PICK low, high, m, n \in Int : low = x - 1 /\ high = x + 1 /\ m = Len(s) /\ n = Len(s) - x
  OBVIOUS
<1>2. /\ m \in Nat /\ low \in 0 .. m /\ high \in 1 .. (m + 1) /\ n = m - x /\ x \in 1 .. m
      /\ \A i \in 1 .. m : s[i] \in S
  BY <1>1
<1> DEFINE front == SubSeq(s, 1, low)
           back == SubSeq(s, high, m)
<1>3. front \in Seq(S) /\ Len(front) = low /\ \A i \in 1 .. low : front[i] = s[i]
  <2>1. \A i \in 1 .. low : s[i] \in S BY <1>2
  <2>2. /\ SubSeq(s, 1, low) \in Seq(S)
        /\ Len(SubSeq(s, 1, low)) = IF 1 <= low THEN low - 1 + 1 ELSE 0
        /\ \A i \in 1 .. (low - 1 + 1) : SubSeq(s, 1, low)[i] = s[1 + i - 1]
    BY <1>2, <2>1, SubSeqProperties
  <2> QED BY <1>2, <2>2
<1>4. back \in Seq(S) /\ Len(back) = n /\ \A i \in 1 .. n : back[i] = s[x + i]
  <2>1. \A i \in high .. m : s[i] \in S BY <1>1, <1>2
  <2>2. /\ SubSeq(s, high, m) \in Seq(S)
        /\ Len(SubSeq(s, high, m)) = IF high <= m THEN m - high + 1 ELSE 0
        /\ \A i \in 1 .. (m - high + 1) : SubSeq(s, high, m)[i] = s[high + i - 1]
    BY <1>1, <2>1, SubSeqProperties
  <2>3. m - high + 1 = n /\ \A i \in 1 .. n : high + i - 1 = x + i BY <1>1
  <2> QED BY <1>1, <1>2, <2>2, <2>3
<1> HIDE DEF front, back
<1>5. /\ front \o back \in Seq(S) /\ Len(front \o back) = low + n
      /\ \A i \in 1 .. (low + n) : (front \o back)[i] = IF i <= low THEN front[i] ELSE back[i - low]
  <2>1. /\ front \o back \in Seq(S) /\ Len(front \o back) = Len(front) + Len(back)
        /\ \A i \in 1 .. (Len(front) + Len(back)) :
             (front \o back)[i] = IF i <= Len(front) THEN front[i] ELSE back[i - Len(front)]
    BY <1>3, <1>4, ConcatProperties
  <2> QED BY <1>3, <1>4, <2>1
<1>6. low + n = Len(s) - 1 BY <1>1
<1>7. ASSUME NEW i \in 1 .. (low + n)
      PROVE  (front \o back)[i] = IF i < x THEN s[i] ELSE s[i + 1]
  <2>1. CASE i < x BY <1>1, <1>2, <1>3, <1>5, <2>1
  <2>2. CASE ~(i < x)
    <3>1. PICK k \in Int : k = i - low BY <1>2
    <3>2. k \in 1 .. n /\ x + k = i + 1 /\ ~(i <= low) BY <1>1, <1>2, <2>2, <3>1
    <3> QED BY <1>4, <1>5, <2>2, <3>1, <3>2
  <2> QED BY <2>1, <2>2
<1>8. RemoveAt(s, x) = front \o back BY <1>1 DEF RemoveAt, front, back
<1> QED BY <1>5, <1>6, <1>7, <1>8

(* The ids of a ledger that lost one record, or none. *)
LEMMA ForgottenBook ==
  ASSUME NEW cl, NEW l, Book(cl, l), NEW x \in DOMAIN l
  PROVE  LET m == RemoveAt(l, x)
         IN  /\ Book(cl, m) /\ Len(m) = Len(l) - 1
             /\ \A i \in DOMAIN m : \E k \in DOMAIN l : m[i] = l[k]
             /\ \A k \in DOMAIN l : k # x => \E i \in DOMAIN m : m[i] = l[k]
<1> DEFINE m == RemoveAt(l, x)
           from(i) == IF i < x THEN i ELSE i + 1
<1>1. l \in Seq(Records) /\ Len(l) \in Nat /\ DOMAIN l = 1 .. Len(l) /\ x \in 1 .. Len(l)
  BY DEF Book
<1>2. /\ m \in Seq(Records) /\ Len(m) = Len(l) - 1
      /\ \A i \in 1 .. (Len(l) - 1) : m[i] = IF i < x THEN l[i] ELSE l[i + 1]
  BY <1>1, Forgotten
<1>3. DOMAIN m = 1 .. (Len(l) - 1) BY <1>2
<1> HIDE DEF m
<1>4. /\ \A i \in DOMAIN m : from(i) \in DOMAIN l /\ m[i] = l[from(i)]
      /\ \A i, k \in DOMAIN m : from(i) = from(k) => i = k
  BY <1>1, <1>2, <1>3
<1>5. ASSUME NEW k \in DOMAIN l, k # x PROVE \E i \in DOMAIN m : m[i] = l[k]
  <2>1. CASE k < x
    <3>1. k \in DOMAIN m /\ m[k] = l[k] BY <1>1, <1>2, <1>3, <2>1
    <3> QED BY <3>1
  <2>2. CASE ~(k < x)
    <3>1. PICK i \in Int : i = k - 1 BY <1>1
    <3>2. i \in DOMAIN m /\ i + 1 = k /\ ~(i < x) BY <1>1, <1>3, <1>5, <2>2, <3>1
    <3> QED BY <1>2, <1>3, <3>2
  <2> QED BY <2>1, <2>2
<1> HIDE DEF from
<1>6. Book(cl, m)
  <2>1. \A i, k \in DOMAIN m : m[i].id = m[k].id => i = k BY <1>4 DEF Book
  <2>2. \A i \in DOMAIN m : Sound(cl, m[i].id, m[i].kind) BY <1>4 DEF Book
  <2> QED BY <1>2, <2>1, <2>2 DEF Book
<1>7. /\ Book(cl, m) /\ Len(m) = Len(l) - 1
      /\ \A i \in DOMAIN m : \E k \in DOMAIN l : m[i] = l[k]
      /\ \A k \in DOMAIN l : k # x => \E i \in DOMAIN m : m[i] = l[k]
  BY <1>2, <1>4, <1>5, <1>6
<1> QED BY <1>7 DEF m

(* OperationLedger::register: a new record, and of the others at most a
   finished one is forgotten. *)
LEMMA Registered ==
  ASSUME NEW cl, Book(cl, ledger), Len(ledger) <= LedgerCapacity, ~LedgerFull,
         NEW r \in Requests, ~Known(r.id), Sound(cl, r.id, r.kind)
  PROVE  LET l == Register(r)
         IN  /\ Book(cl, l) /\ Len(l) <= LedgerCapacity
             /\ \E i \in DOMAIN l : l[i].id = r.id
             /\ \A i \in DOMAIN l : l[i].id # r.id => \E k \in DOMAIN ledger : l[i] = ledger[k]
             /\ \A k \in DOMAIN ledger :
                  ledger[k].phase = "Running" \/ Len(ledger) < LedgerCapacity =>
                    \E i \in DOMAIN l : l[i] = ledger[k]
<1> DEFINE kept == IF Len(ledger) < LedgerCapacity THEN ledger
                   ELSE RemoveAt(ledger, Oldest(Evictable))
           new == [id |-> r.id, kind |-> r.kind, phase |-> "Accepted"]
           l == Append(kept, new)
<1>1. ledger \in Seq(Records) /\ Len(ledger) \in Nat /\ DOMAIN ledger = 1 .. Len(ledger)
      /\ LedgerCapacity \in Nat
  BY OperationsAssumption DEF Book
<1>2. /\ Book(cl, kept) /\ Len(kept) < LedgerCapacity
      /\ \A i \in DOMAIN kept : \E k \in DOMAIN ledger : kept[i] = ledger[k]
      /\ \A k \in DOMAIN ledger :
           ledger[k].phase = "Running" \/ Len(ledger) < LedgerCapacity =>
             \E i \in DOMAIN kept : kept[i] = ledger[k]
  <2>1. CASE Len(ledger) < LedgerCapacity
    <3>1. kept = ledger BY <2>1
    <3> QED BY <2>1, <3>1
  <2>2. CASE ~(Len(ledger) < LedgerCapacity)
    <3> DEFINE x == Oldest(Evictable)
    <3>1. Evictable # {} /\ Evictable \in SUBSET Nat
      <4>1. Len(ledger) \in Nat /\ LedgerCapacity \in Nat BY <1>1, Zenon
      <4>2. Len(ledger) = LedgerCapacity BY <2>2, <4>1
      <4>3. Evictable \subseteq 1 .. Len(ledger) BY <1>1, Zenon DEF Evictable
      <4>4. Evictable # {} BY <4>2, Zenon DEF LedgerFull
      <4> QED BY <1>1, <4>3, <4>4
    <3>2. x \in Evictable BY <3>1, OldestExists
    <3>3. x \in DOMAIN ledger /\ ledger[x].phase # "Running"
      BY <3>2 DEF Evictable, Terminal
    <3>4. kept = RemoveAt(ledger, x) BY <2>2
    <3> HIDE DEF x, kept
    <3>5. /\ Book(cl, kept) /\ Len(kept) = Len(ledger) - 1
          /\ \A i \in DOMAIN kept : \E k \in DOMAIN ledger : kept[i] = ledger[k]
          /\ \A k \in DOMAIN ledger : k # x => \E i \in DOMAIN kept : kept[i] = ledger[k]
      BY <3>3, <3>4, ForgottenBook
    <3>6. Len(kept) < LedgerCapacity BY <1>1, <2>2, <3>5
    <3> QED BY <2>2, <3>3, <3>5, <3>6
  <2> QED BY <2>1, <2>2
<1>3. new \in Records /\ new.id = r.id /\ new.kind = r.kind
  BY DEF Requests, Records, OpPhases
<1> HIDE DEF kept, new
<1>4. kept \in Seq(Records) /\ Len(kept) \in Nat /\ DOMAIN kept = 1 .. Len(kept)
  BY <1>2 DEF Book
<1>5. /\ l \in Seq(Records) /\ Len(l) = Len(kept) + 1 /\ DOMAIN l = 1 .. (Len(kept) + 1)
      /\ l[Len(kept) + 1] = new /\ \A i \in DOMAIN kept : i \in DOMAIN l /\ l[i] = kept[i]
      /\ \A i \in DOMAIN l : i = Len(kept) + 1 \/ i \in DOMAIN kept
  <2>1. /\ l \in Seq(Records) /\ Len(l) = Len(kept) + 1
        /\ \A i \in 1 .. Len(kept) : l[i] = kept[i]
        /\ l[Len(kept) + 1] = new
    BY <1>3, <1>4, AppendProperties
  <2>2. DOMAIN l = 1 .. Len(l) BY <2>1
  <2> HIDE DEF l
  <2> QED BY <1>4, <2>1, <2>2
<1> HIDE DEF l
<1>6. \A i \in DOMAIN kept : kept[i].id # r.id BY <1>2 DEF Known
<1>7. Book(cl, l)
  <2>1. \A i, k \in DOMAIN l : l[i].id = l[k].id => i = k
    BY <1>2, <1>3, <1>5, <1>6 DEF Book
  <2>2. \A i \in DOMAIN l : Sound(cl, l[i].id, l[i].kind) BY <1>2, <1>3, <1>5 DEF Book
  <2> QED BY <1>5, <2>1, <2>2 DEF Book
<1>8. Len(l) <= LedgerCapacity BY <1>1, <1>2, <1>4, <1>5
<1>9. \E i \in DOMAIN l : l[i].id = r.id BY <1>3, <1>4, <1>5
<1>10. \A i \in DOMAIN l : l[i].id # r.id => \E k \in DOMAIN ledger : l[i] = ledger[k]
  BY <1>2, <1>3, <1>5
<1>11. \A k \in DOMAIN ledger :
         ledger[k].phase = "Running" \/ Len(ledger) < LedgerCapacity =>
           \E i \in DOMAIN l : l[i] = ledger[k]
  BY <1>2, <1>5
<1>12. l = Register(r) BY DEF l, kept, new, Register
<1> QED BY <1>7, <1>8, <1>9, <1>10, <1>11, <1>12

(* OperationLedger::set_phase changes the record of the id alone. *)
LEMMA PhaseSet ==
  ASSUME NEW cl, NEW l, Book(cl, l), NEW id \in Ids, NEW phase \in OpPhases
  PROVE  LET m == SetPhase(l, id, phase)
         IN  /\ Book(cl, m) /\ Len(m) = Len(l) /\ DOMAIN m = DOMAIN l
             /\ \A i \in DOMAIN l : m[i].id = l[i].id
             /\ \A i \in DOMAIN l : m[i].phase = IF l[i].id = id THEN phase ELSE l[i].phase
<1> DEFINE m == SetPhase(l, id, phase)
<1>1. l \in Seq(Records) /\ Len(l) \in Nat /\ DOMAIN l = 1 .. Len(l) BY DEF Book
<1>2. ASSUME NEW i \in DOMAIN l
      PROVE  /\ m[i] \in Records /\ m[i].id = l[i].id /\ m[i].kind = l[i].kind
             /\ m[i].phase = IF l[i].id = id THEN phase ELSE l[i].phase
  <2>1. l[i] \in Records BY <1>1
  <2>2. m[i] = IF l[i].id = id THEN [l[i] EXCEPT !.phase = phase] ELSE l[i]
    BY DEF SetPhase
  <2> QED BY <2>1, <2>2 DEF Records
<1>3. DOMAIN m = DOMAIN l BY DEF SetPhase
<1>4. m = [i \in 1 .. Len(l) |-> m[i]] BY <1>1 DEF SetPhase
<1> HIDE DEF m
<1>5. m \in Seq(Records) /\ Len(m) = Len(l) BY <1>1, <1>2, <1>4
<1>6. Book(cl, m) BY <1>2, <1>3, <1>5 DEF Book
<1> QED BY <1>2, <1>3, <1>5, <1>6 DEF m
------------------------
(* The audit. *)

(* What is on disk stays there, whatever happens to the end of the file. *)
Remains(f, g) ==
    \A id \in Ids, phase \in OpPhases : HappenedIn(f, id, phase) => HappenedIn(g, id, phase)

LEMMA ToldRemains ==
  ASSUME NEW s \in ClientStates, NEW f, NEW g, Told(s, f), Remains(f, g)
  PROVE  Told(s, g)
<1>1. s.id \in Ids /\ Terminal \subseteq OpPhases /\ {"Succeeded", "Rejected", "Failed"} \subseteq OpPhases
  BY DEF ClientStates, OpPhases, Terminal
<1> QED BY <1>1 DEF Told, Remains

LEMMA BackedRemains ==
  ASSUME NEW l \in Seq(Records), NEW f, NEW g, Backed(l, f), Remains(f, g)
  PROVE  Backed(l, g)
<1>1. \A i \in DOMAIN l : l[i].id \in Ids /\ l[i].phase \in OpPhases
  <2>1. \A i \in DOMAIN l : l[i] \in Records OBVIOUS
  <2> QED BY <2>1 DEF Records
<1> QED BY <1>1 DEF Backed, Remains

(* The part of a sequence that was appended. *)
LEMMA Appended ==
  ASSUME NEW S, NEW s \in Seq(S), NEW t \in Seq(S)
  PROVE  SubSeq(s \o t, Len(s) + 1, Len(s \o t)) = t
<1>1. PICK m, n, low, high \in Nat : m = Len(s) /\ n = Len(t) /\ low = m + 1 /\ high = m + n
  OBVIOUS
<1>2. /\ s \o t \in Seq(S) /\ Len(s \o t) = m + n
      /\ \A i \in 1 .. (m + n) : (s \o t)[i] = IF i <= m THEN s[i] ELSE t[i - m]
  BY <1>1, ConcatProperties
<1> DEFINE u == s \o t
<1> HIDE DEF u
<1>3. u \in Seq(S) /\ Len(u) = high /\ \A i \in 1 .. high : u[i] = IF i <= m THEN s[i] ELSE t[i - m]
  BY <1>1, <1>2 DEF u
<1>4. \A i \in low .. high : u[i] \in S BY <1>1, <1>3
<1>5. /\ SubSeq(u, low, high) \in Seq(S)
      /\ Len(SubSeq(u, low, high)) = IF low <= high THEN high - low + 1 ELSE 0
      /\ \A i \in 1 .. (high - low + 1) : SubSeq(u, low, high)[i] = u[low + i - 1]
  BY <1>4, SubSeqProperties
<1>6. Len(SubSeq(u, low, high)) = n /\ high - low + 1 = n BY <1>1, <1>5
<1>7. ASSUME NEW i \in 1 .. n PROVE SubSeq(u, low, high)[i] = t[i]
  <2>1. PICK k \in Int : k = low + i - 1 BY <1>1
  <2>2. k \in 1 .. high /\ ~(k <= m) /\ k - m = i BY <1>1, <2>1
  <2> QED BY <1>3, <1>5, <1>6, <2>1, <2>2
<1>8. SubSeq(u, low, high) = t BY <1>1, <1>5, <1>6, <1>7, SeqEqual
<1> QED BY <1>1, <1>3, <1>8 DEF u

(* What audit_record leaves of a list of phases. *)
LEMMA AuditedMoves ==
  ASSUME NEW l, NEW id \in Ids, NEW before \in Seq(OpPhases), NEW phases \in Seq(OpPhases),
         phases # <<>>, audit \in [Ids -> Seq(OpPhases)], task = "running",
         Audited(l, id, before, phases)
  PROVE  \E new \in Seq(OpPhases) :
           /\ audit' = [audit EXCEPT ![id] = @ \o new]
           /\ ledger' = l \/ \E phase \in OpPhases : ledger' = SetPhase(l, id, phase)
           /\ task' \in {"running", "LedgerError", "AuditUnavailable"}
           /\ task' = "running" => new = before \o phases /\ ledger' = SetPhase(l, id, Last(phases))
<1> DEFINE Moves(new) ==
             /\ audit' = [audit EXCEPT ![id] = @ \o new]
             /\ ledger' = l \/ \E phase \in OpPhases : ledger' = SetPhase(l, id, phase)
             /\ task' \in {"running", "LedgerError", "AuditUnavailable"}
             /\ task' = "running" => new = before \o phases /\ ledger' = SetPhase(l, id, Last(phases))
<1>1. Len(phases) \in Nat /\ Len(phases) >= 1 /\ \A k \in 1 .. Len(phases) : phases[k] \in OpPhases
  BY EmptySeq
<1>2. Last(phases) \in OpPhases BY <1>1 DEF Last
<1>3. audit[id] \in Seq(OpPhases) OBVIOUS
<1>4. \A u \in Seq(OpPhases) : before \o u \in Seq(OpPhases) /\ (audit[id] \o before) \o u = audit[id] \o (before \o u)
  BY SMTT(30), <1>3, ConcatProperties, ConcatAssociative
<1>5. CASE /\ ledger' = SetPhase(l, id, Last(phases))
           /\ audit' = [audit EXCEPT ![id] = @ \o before \o phases]
           /\ task' = task
  <2>1. audit' = [audit EXCEPT ![id] = @ \o (before \o phases)] BY <1>4, <1>5
  <2>2. Moves(before \o phases) BY <1>2, <1>5, <2>1
  <2> QED BY <1>4, <2>2
<1>6. CASE /\ ledger' = l
           /\ audit' = [audit EXCEPT ![id] = @ \o before]
           /\ task' = "LedgerError"
  <2>1. Moves(before) BY <1>6
  <2> QED BY <2>1
<1>7. CASE ledger' = l /\ audit' = audit /\ task' = "AuditUnavailable"
  <2>1. audit[id] \o <<>> = audit[id] BY <1>3, ConcatEmptySeq
  <2>2. Moves(<<>>) BY <1>7, <2>1
  <2>3. <<>> \in Seq(OpPhases) OBVIOUS
  <2> QED BY <2>2, <2>3
<1>8. CASE /\ \E k \in 1 .. Len(phases) :
                /\ ledger' = SetPhase(l, id, phases[k])
                /\ audit' = [audit EXCEPT ![id] = @ \o before \o SubSeq(phases, 1, k - 1)]
           /\ task' = "AuditUnavailable"
  <2>1. PICK k \in 1 .. Len(phases) :
                /\ ledger' = SetPhase(l, id, phases[k])
                /\ audit' = [audit EXCEPT ![id] = @ \o before \o SubSeq(phases, 1, k - 1)]
    BY <1>8
  <2>2. PICK high \in Int : high = k - 1 BY <1>1
  <2>3. \A i \in 1 .. high : phases[i] \in OpPhases BY <1>1, <2>2
  <2>4. SubSeq(phases, 1, high) \in Seq(OpPhases) BY <2>3, SubSeqProperties
  <2>5. audit' = [audit EXCEPT ![id] = @ \o (before \o SubSeq(phases, 1, high))]
    BY <1>4, <2>1, <2>2, <2>4
  <2>6. Moves(before \o SubSeq(phases, 1, high)) BY <1>1, <1>8, <2>1, <2>5
  <2> QED BY <1>4, <2>4, <2>6
<1> QED BY <1>5, <1>6, <1>7, <1>8 DEF Audited

(* append_record: the records of the phases, and perhaps what a failed
   append left. *)
LEMMA AppendRecord ==
  ASSUME Whole(file), sequence = Len(file), NEW id \in Ids, NEW new \in Seq(OpPhases),
         audit \in [Ids -> Seq(OpPhases)], audit' = [audit EXCEPT ![id] = @ \o new],
         RecordOf(ledger', id).phase \in OpPhases, append_record(id)
  PROVE  /\ sequence' = sequence + Len(new)
         /\ Readable(file')
         /\ task' # "AuditUnavailable" => Whole(file') /\ Len(file') = sequence'
         /\ Remains(file, file')
         /\ \A k \in 1 .. Len(new) : HappenedIn(file', id, new[k])
<1> DEFINE lost == event(sequence + Len(new), id, RecordOf(ledger', id).phase)
           added == [i \in DOMAIN new |-> event(sequence + i - 1, id, new[i])]
           whole == file \o added
<1>1. SubSeq(audit'[id], Len(audit[id]) + 1, Len(audit'[id])) = new
  <2>1. audit[id] \in Seq(OpPhases) /\ audit'[id] = audit[id] \o new OBVIOUS
  <2> QED BY <2>1, Appended
<1>2. /\ sequence' = sequence + Len(new)
      /\ file' \in IF task' = "AuditUnavailable" THEN {whole, Append(whole, Torn), Append(whole, lost)} ELSE {whole}
  BY <1>1 DEF append_record
<1>3. PICK n, k \in Nat : n = Len(file) /\ k = Len(new) BY DEF Whole
<1>4. file \in Seq(Entries) /\ DOMAIN file = 1 .. n /\ DOMAIN new = 1 .. k /\ sequence = n
  BY <1>3 DEF Whole
<1>5. \A i \in 1 .. k : event(sequence + i - 1, id, new[i]) \in Entries
  BY <1>3, <1>4 DEF event, Entries
<1>6. added \in Seq(Entries) /\ Len(added) = k
  <2>1. added = [i \in 1 .. k |-> event(sequence + i - 1, id, new[i])] BY <1>4
  <2> HIDE DEF added
  <2> QED BY <1>5, <2>1
<1>7. \A i \in 1 .. k : added[i] = event(n + i - 1, id, new[i]) BY <1>4
<1>8. lost \in Entries /\ lost.sequence = n + k BY <1>3, <1>4 DEF event, Entries
<1> HIDE DEF added, lost
<1>9. /\ whole \in Seq(Entries) /\ Len(whole) = n + k
      /\ \A i \in 1 .. (n + k) : whole[i] = IF i <= n THEN file[i] ELSE added[i - n]
  <2>1. /\ whole \in Seq(Entries) /\ Len(whole) = Len(file) + Len(added)
        /\ \A i \in 1 .. (Len(file) + Len(added)) :
             whole[i] = IF i <= Len(file) THEN file[i] ELSE added[i - Len(file)]
    BY <1>4, <1>6, ConcatProperties
  <2> QED BY <1>3, <1>6, <2>1
<1> HIDE DEF whole
<1>10. \A i \in 1 .. n : whole[i] = file[i] /\ file[i].sequence = i - 1
  <2>1. \A i \in 1 .. n : file[i].sequence = i - 1 BY <1>4, Zenon DEF Whole
  <2>2. \A i \in 1 .. n : i \in 1 .. (n + k) /\ i <= n BY <1>3
  <2> QED BY <1>9, <2>1, <2>2
<1>11. \A i \in 1 .. k : n + i \in 1 .. (n + k) /\ whole[n + i] = event(n + i - 1, id, new[i])
  <2> TAKE i \in 1 .. k
  <2>1. PICK j \in Int : j = n + i BY <1>3
  <2>2. j \in 1 .. (n + k) /\ ~(j <= n) /\ j - n = i BY <1>3, <2>1
  <2>3. whole[j] = added[i] BY <1>9, <2>2
  <2> QED BY <1>7, <2>1, <2>2, <2>3
<1>12. \A i \in 1 .. (n + k) : whole[i].sequence = i - 1
  <2> TAKE i \in 1 .. (n + k)
  <2>1. CASE i <= n BY <1>3, <1>10, <2>1
  <2>2. CASE ~(i <= n)
    <3>1. PICK j \in 1 .. k : i = n + j
      <4>1. i - n \in 1 .. k /\ i = n + (i - n) BY <1>3, <2>2
      <4> QED BY <4>1
    <3>2. whole[i].sequence = n + j - 1
      <4>1. whole[i] = event(n + j - 1, id, new[j]) BY <1>11, <3>1
      <4> QED BY <4>1 DEF event
    <3> QED BY <1>3, <3>1, <3>2
  <2> QED BY <2>1, <2>2
<1>13. Whole(whole) /\ Len(whole) = n + k BY <1>9, <1>12 DEF Whole
<1>14. \A id2 \in Ids, phase \in OpPhases : HappenedIn(file, id2, phase) => HappenedIn(whole, id2, phase)
  <2> TAKE id2 \in Ids, phase \in OpPhases
  <2> HAVE HappenedIn(file, id2, phase)
  <2>1. PICK i \in 1 .. n : file[i].id = id2 /\ file[i].phase = phase
    BY <1>4 DEF HappenedIn
  <2>2. i \in DOMAIN whole /\ whole[i] = file[i] BY <1>3, <1>9, <1>10
  <2> QED BY <2>1, <2>2 DEF HappenedIn
<1>15. \A i \in 1 .. k : HappenedIn(whole, id, new[i])
  <2> TAKE i \in 1 .. k
  <2>1. n + i \in DOMAIN whole BY <1>3, <1>9, <1>11
  <2>2. whole[n + i].id = id /\ whole[n + i].phase = new[i]
    <3>1. whole[n + i] = event(n + i - 1, id, new[i]) BY <1>11
    <3> QED BY <3>1 DEF event
  <2> QED BY <2>1, <2>2 DEF HappenedIn
<1>16. ASSUME NEW e \in Entries \cup {Torn}, e # Torn => e.sequence = n + k
       PROVE  /\ Readable(Append(whole, e))
              /\ \A id2, phase : HappenedIn(whole, id2, phase) => HappenedIn(Append(whole, e), id2, phase)
  <2> DEFINE f == Append(whole, e)
  <2>1. whole \in Seq(Entries \cup {Torn}) BY <1>9
  <2>2. /\ f \in Seq(Entries \cup {Torn}) /\ Len(f) = Len(whole) + 1
        /\ \A i \in 1 .. Len(whole) : f[i] = whole[i]
        /\ f[Len(whole) + 1] = e
    BY <2>1, AppendProperties
  <2> HIDE DEF f
  <2>3. /\ Len(f) = n + k + 1 /\ DOMAIN f = 1 .. (n + k + 1) /\ DOMAIN whole = 1 .. (n + k)
        /\ \A i \in 1 .. (n + k) : f[i] = whole[i]
        /\ f[n + k + 1] = e
    BY <1>3, <1>9, <2>2
  <2>4. \A i \in 1 .. (n + k) : whole[i] \in Entries BY <1>9, <2>3
  <2>5. Torn \notin Entries BY DEF Torn, Entries, OpPhases, Terminal
  <2>6. \A i \in 1 .. (n + k + 1) : i = n + k + 1 \/ i \in 1 .. (n + k) OBVIOUS
  <2>7. \A i \in DOMAIN f : IF f[i] = Torn THEN i = Len(f) ELSE f[i].sequence = i - 1
    <3> TAKE i \in DOMAIN f
    <3>1. CASE i = n + k + 1 BY <1>3, <1>16, <2>3, <3>1
    <3>2. CASE i # n + k + 1
      <4>1. i \in 1 .. (n + k) BY <2>3, <2>6, <3>2
      <4>2. f[i] = whole[i] /\ whole[i] # Torn /\ whole[i].sequence = i - 1
        BY <1>12, <2>3, <2>4, <2>5, <4>1
      <4> QED BY <4>2
    <3> QED BY <3>1, <3>2
  <2>8. \A i \in DOMAIN whole : i \in DOMAIN f /\ f[i] = whole[i] BY <1>3, <2>3
  <2> QED BY <2>2, <2>7, <2>8 DEF Readable, HappenedIn, f
<1>17. Readable(whole)
  <2>1. Torn \notin Entries BY DEF Torn, Entries, OpPhases, Terminal
  <2>2. DOMAIN whole = 1 .. (n + k) /\ \A i \in DOMAIN whole : whole[i] \in Entries
    BY <1>3, <1>9
  <2>3. \A i \in DOMAIN whole : whole[i] # Torn /\ whole[i].sequence = i - 1
    BY <1>12, <2>1, <2>2
  <2> QED BY <1>9, <2>3 DEF Readable
<1>18. CASE file' = whole
  <2>1. Len(file') = sequence' BY <1>2, <1>3, <1>4, <1>13, <1>18
  <2> QED BY <1>2, <1>3, <1>13, <1>14, <1>15, <1>17, <1>18, <2>1 DEF Remains
<1>19. CASE task' = "AuditUnavailable" /\ \E e \in {Torn, lost} : file' = Append(whole, e)
  <2>1. PICK e \in {Torn, lost} : file' = Append(whole, e) BY <1>19
  <2>2. e \in Entries \cup {Torn} /\ (e # Torn => e.sequence = n + k) BY <1>8
  <2>3. /\ Readable(file')
        /\ \A id2, phase : HappenedIn(whole, id2, phase) => HappenedIn(file', id2, phase)
    BY <1>16, <2>1, <2>2
  <2> QED BY <1>2, <1>3, <1>14, <1>15, <1>19, <2>3 DEF Remains
<1> QED BY <1>2, <1>18, <1>19

(* The record of an id that a ledger knows. *)
LEMMA RecordFound ==
  ASSUME NEW l, NEW id, \E i \in DOMAIN l : l[i].id = id
  PROVE  \E i \in DOMAIN l : l[i].id = id /\ RecordOf(l, id) = l[i]
<1> DEFINE i == CHOOSE i \in DOMAIN l : l[i].id = id
<1>1. i \in DOMAIN l /\ l[i].id = id OBVIOUS
<1>2. RecordOf(l, id) = l[i] BY DEF RecordOf
<1> QED BY <1>1, <1>2, Zenon

(* A step of the channel that audits phases: the ledger, the audit and the
   snapshot after it. *)
LEMMA PhasesRecorded ==
  ASSUME ServiceInv, process = "up", task = "running", UNCHANGED client,
         NEW l, Book(client, l), NEW id \in Ids, \E i \in DOMAIN l : l[i].id = id,
         \A i \in DOMAIN l : l[i].id # id => HappenedIn(file, l[i].id, l[i].phase),
         NEW before \in Seq(OpPhases), NEW phases \in Seq(OpPhases), phases # <<>>,
         Audited(l, id, before, phases), publish,
         \/ append_record(id)
         \/ audit' = audit /\ task' # "AuditUnavailable" /\ UNCHANGED <<file, sequence>>
  PROVE  /\ Book(client, ledger') /\ Len(ledger') = Len(l)
         /\ Book(client, published') /\ Backed(published', file')
         /\ audit' \in [Ids -> Seq(OpPhases)]
         /\ sequence' \in Nat /\ Readable(file') /\ Remains(file, file')
         /\ task' = "running" =>
              /\ Whole(file') /\ sequence' = Len(file') /\ Backed(ledger', file')
              /\ ledger' = SetPhase(l, id, Last(phases))
              /\ \A k \in 1 .. Len(phases) : HappenedIn(file', id, phases[k])
<1>1. PICK new \in Seq(OpPhases) :
           /\ audit' = [audit EXCEPT ![id] = @ \o new]
           /\ ledger' = l \/ \E phase \in OpPhases : ledger' = SetPhase(l, id, phase)
           /\ task' \in {"running", "LedgerError", "AuditUnavailable"}
           /\ task' = "running" => new = before \o phases /\ ledger' = SetPhase(l, id, Last(phases))
  <2>1. audit \in [Ids -> Seq(OpPhases)] BY DEF ServiceInv, ChannelInv
  <2> QED BY <2>1, AuditedMoves, Zenon
<1>2. /\ audit \in [Ids -> Seq(OpPhases)] /\ Whole(file) /\ sequence = Len(file)
      /\ Book(client, published) /\ Backed(published, file)
  BY DEF ServiceInv, ChannelInv, AuditInv
<1>3. audit' \in [Ids -> Seq(OpPhases)]
  <2>1. audit[id] \o new \in Seq(OpPhases) BY <1>2, ConcatProperties
  <2> QED BY <1>1, <1>2, <2>1
<1>4. /\ Book(client, ledger') /\ Len(ledger') = Len(l) /\ DOMAIN ledger' = DOMAIN l
      /\ \A i \in DOMAIN l : ledger'[i].id = l[i].id
      /\ \A i \in DOMAIN l : l[i].id # id => ledger'[i].phase = l[i].phase
  <2>1. CASE ledger' = l BY <2>1
  <2>2. CASE \E phase \in OpPhases : ledger' = SetPhase(l, id, phase)
    <3>1. PICK phase \in OpPhases : ledger' = SetPhase(l, id, phase) BY <2>2
    <3> QED BY <3>1, PhaseSet
  <2> QED BY <1>1, <2>1, <2>2
<1>5. RecordOf(ledger', id).phase \in OpPhases
  <2>1. \E i \in DOMAIN ledger' : ledger'[i].id = id BY <1>4
  <2>2. PICK i \in DOMAIN ledger' : RecordOf(ledger', id) = ledger'[i]
    BY <2>1, RecordFound
  <2>3. ledger'[i] \in Records BY <1>4 DEF Book
  <2> QED BY <2>2, <2>3 DEF Records
<1>6. /\ Len(phases) \in Nat /\ Len(phases) >= 1
      /\ Last(phases) = phases[Len(phases)] /\ Last(phases) \in OpPhases
  BY EmptySeq DEF Last
<1>7. task' = "running" => audit' # audit
  <2> SUFFICES ASSUME task' = "running", audit' = audit PROVE FALSE OBVIOUS
  <2>1. audit[id] = audit[id] \o (before \o phases) /\ audit[id] \in Seq(OpPhases)
    BY <1>1, <1>2
  <2>2. /\ before \o phases \in Seq(OpPhases)
        /\ Len(before \o phases) = Len(before) + Len(phases)
        /\ Len(audit[id] \o (before \o phases)) = Len(audit[id]) + Len(before \o phases)
    BY <2>1, ConcatProperties
  <2>3. Len(audit[id]) \in Nat /\ Len(before) \in Nat BY <2>1
  <2>4. Len(audit[id]) = Len(audit[id]) + Len(before \o phases) BY <2>1, <2>2
  <2>5. PICK a, b, c, d \in Nat :
            a = Len(audit[id]) /\ b = Len(before) /\ c = Len(phases) /\ d = Len(before \o phases)
    BY <1>6, <2>2, <2>3
  <2>6. d = b + c /\ a = a + d /\ c >= 1 BY <1>6, <2>2, <2>4, <2>5
  <2> QED BY <2>6
<1>8. CASE append_record(id)
  <2>1. /\ sequence' = sequence + Len(new)
        /\ Readable(file')
        /\ task' # "AuditUnavailable" => Whole(file') /\ Len(file') = sequence'
        /\ Remains(file, file')
        /\ \A k \in 1 .. Len(new) : HappenedIn(file', id, new[k])
    BY <1>1, <1>2, <1>5, <1>8, AppendRecord
  <2>2. sequence' \in Nat BY <1>2, <2>1 DEF Whole
  <2>3. ASSUME task' = "running" PROVE \A k \in 1 .. Len(phases) : HappenedIn(file', id, phases[k])
    <3> TAKE k \in 1 .. Len(phases)
    <3>1. new = before \o phases BY <1>1, <2>3
    <3>2. PICK b, n \in Nat : b = Len(before) /\ n = Len(phases) OBVIOUS
    <3>3. PICK j \in Int : j = b + k BY <3>2
    <3>4. /\ Len(new) = b + n
          /\ \A i \in 1 .. (b + n) : new[i] = IF i <= b THEN before[i] ELSE phases[i - b]
      <4>1. /\ Len(new) = Len(before) + Len(phases)
            /\ \A i \in 1 .. (Len(before) + Len(phases)) :
                 new[i] = IF i <= Len(before) THEN before[i] ELSE phases[i - Len(before)]
        BY <3>1, ConcatProperties
      <4> QED BY <3>2, <4>1
    <3>5. j \in 1 .. (b + n) /\ ~(j <= b) /\ j - b = k BY <3>2, <3>3
    <3>6. new[j] = phases[k] /\ j \in 1 .. Len(new) BY <3>4, <3>5
    <3> QED BY <2>1, <3>6
  <2>4. task' = "running" => Backed(ledger', file')
    <3> SUFFICES ASSUME task' = "running", NEW i \in DOMAIN l
                 PROVE  HappenedIn(file', ledger'[i].id, ledger'[i].phase)
      BY <1>4 DEF Backed
    <3>1. CASE l[i].id = id
      <4>1. ledger'[i].id = id /\ ledger'[i].phase = Last(phases)
        <5>1. PICK phase \in OpPhases : phase = Last(phases) BY <1>6
        <5>2. ledger' = SetPhase(l, id, phase) BY <1>1, <5>1, Zenon
        <5> QED BY <3>1, <5>1, <5>2, PhaseSet
      <4>2. HappenedIn(file', id, phases[Len(phases)]) BY <1>6, <2>3
      <4> QED BY <1>6, <4>1, <4>2
    <3>2. CASE l[i].id # id
      <4>1. HappenedIn(file, l[i].id, l[i].phase) BY <3>2
      <4>2. l[i].id \in Ids /\ l[i].phase \in OpPhases
        <5>1. l[i] \in Records BY DEF Book
        <5> QED BY <5>1 DEF Records
      <4>3. HappenedIn(file', l[i].id, l[i].phase) BY <2>1, <4>1, <4>2 DEF Remains
      <4> QED BY <1>4, <3>2, <4>3
    <3> QED BY <3>1, <3>2
  <2>5. Book(client, published') /\ Backed(published', file')
    <3>1. CASE task' = "running" BY <1>4, <2>4, <3>1 DEF publish
    <3>2. CASE task' # "running"
      <4>1. published \in Seq(Records) BY <1>2 DEF Book
      <4> QED BY <1>2, <2>1, <3>2, <4>1, BackedRemains DEF publish
    <3> QED BY <3>1, <3>2
  <2> QED BY <1>1, <1>3, <1>4, <2>1, <2>2, <2>3, <2>4, <2>5
<1>9. CASE audit' = audit /\ task' # "AuditUnavailable" /\ UNCHANGED <<file, sequence>>
  <2>1. task' # "running" BY <1>7, <1>9
  <2>2. Book(client, published') /\ Backed(published', file')
    BY <1>2, <1>9, <2>1 DEF publish
  <2>3. sequence' \in Nat /\ Readable(file') /\ Remains(file, file')
    BY <1>9 DEF ServiceInv, AuditInv, Remains
  <2> QED BY <1>3, <1>4, <2>1, <2>2, <2>3
<1> QED BY <1>8, <1>9
------------------------
(* The clients and the server. *)

(* A client keeps its request to the end. *)
LEMMA RequestsStay ==
  ASSUME NEW cl, NEW dl,
         \A c \in Clients : dl[c].id = cl[c].id /\ dl[c].kind = cl[c].kind /\ dl[c].inRange = cl[c].inRange
  PROVE  /\ ClientsAgree(cl) => ClientsAgree(dl)
         /\ \A id, kind : Sound(cl, id, kind) => Sound(dl, id, kind)
         /\ \A l : Book(cl, l) => Book(dl, l)
<1>1. \A id, kind : Sound(cl, id, kind) => Sound(dl, id, kind) BY DEF Sound
<1>2. \A l : Book(cl, l) => Book(dl, l) BY <1>1 DEF Book
<1>3. ClientsAgree(cl) => ClientsAgree(dl) BY DEF ClientsAgree
<1> QED BY <1>1, <1>2, <1>3

(* A step of one client, or of the server towards it. *)
LEMMA ClientMoves ==
  ASSUME ServiceInv, NEW c \in Clients, NEW s \in ClientStates,
         s.id = client[c].id, s.kind = client[c].kind, s.inRange = client[c].inRange,
         Told(s, file), client' = [client EXCEPT ![c] = s],
         socket' \in Seq(Datagrams), inbox' \in Seq(Requests),
         \A i \in DOMAIN inbox' : Sound(client, inbox'[i].id, inbox'[i].kind),
         UNCHANGED <<ledger, active, audit, task, published, file, sequence, process, started>>
  PROVE  ServiceInv'
<1>1. client \in [Clients -> ClientStates] /\ ClientsAgree(client) /\ \A d \in Clients : Told(client[d], file)
  BY DEF ServiceInv, ClientInv
<1>2. /\ client' \in [Clients -> ClientStates]
      /\ \A d \in Clients : client'[d] = IF d = c THEN s ELSE client[d]
  BY <1>1
<1>3. \A d \in Clients : /\ client'[d].id = client[d].id /\ client'[d].kind = client[d].kind
                         /\ client'[d].inRange = client[d].inRange
  BY <1>2
<1>4. PICK dl : dl = client' OBVIOUS
<1>5. /\ ClientsAgree(dl)
      /\ \A id, kind : Sound(client, id, kind) => Sound(dl, id, kind)
      /\ \A l : Book(client, l) => Book(dl, l)
  BY <1>1, <1>3, <1>4, RequestsStay
<1>6. \A d \in Clients : Told(client'[d], file) BY <1>1, <1>2
<1>7. ClientInv' BY <1>2, <1>4, <1>5, <1>6 DEF ClientInv
<1>8. ChannelInv' BY <1>4, <1>5 DEF ServiceInv, ChannelInv
<1>9. AuditInv' BY DEF ServiceInv, AuditInv
<1> QED BY <1>7, <1>8, <1>9 DEF ServiceInv

(* What a client that nobody told anything new may still say. *)
LEMMA ToldOfQuit ==
  ASSUME NEW s \in ClientStates, NEW t \in ClientStates, NEW f, Told(s, f),
         t.id = s.id, t.inRange = s.inRange, t.answer = s.answer \/ t.answer = NoAnswer,
         t.exit = s.exit \/ t.exit \notin {"ok", "Rejected", "Failed"}
  PROVE  Told(t, f)
BY DEF Told, NoAnswer, Terminal

(* Having no answer is a value of the answer. *)
LEMMA NoAnswerIsReply == NoAnswer \in Replies
BY DEF NoAnswer, Replies, Reasons

(* A datagram is sent, or lost with the process it was meant for. *)
LEMMA SendKeeps ==
  ASSUME ServiceInv, NEW c \in Clients, Send(c)
  PROVE  ServiceInv'
<1>1. PICK a, t, g :
           /\ a = (IF client[c].at = "submit" THEN "submitting" ELSE "getting")
           /\ t = (IF client[c].at = "submit" THEN client[c].tries + 1 ELSE client[c].tries)
           /\ g = (IF client[c].at = "get" THEN client[c].gets + 1 ELSE client[c].gets)
  OBVIOUS
<1>2. client' = [client EXCEPT ![c].at = a, ![c].tries = t, ![c].gets = g]
  BY <1>1 DEF Send
<1>3. client \in [Clients -> ClientStates] /\ socket \in Seq(Datagrams) /\ Told(client[c], file)
  BY DEF ServiceInv, ClientInv
<1> DEFINE s == [client[c] EXCEPT !.at = a, !.tries = t, !.gets = g]
<1>4. client' = [client EXCEPT ![c] = s] BY <1>2, <1>3
<1>5. client[c] \in ClientStates BY <1>3
<1>6. a \in {"submitting", "getting"} /\ t \in Nat /\ g \in Nat
  BY <1>1, <1>5 DEF ClientStates
<1>7. /\ s \in ClientStates /\ s.id = client[c].id /\ s.kind = client[c].kind
      /\ s.inRange = client[c].inRange /\ s.answer = client[c].answer /\ s.exit = client[c].exit
  BY <1>5, <1>6 DEF ClientStates
<1> HIDE DEF s
<1>8. Told(s, file) BY <1>3, <1>5, <1>7, ToldOfQuit
<1>9. socket' \in Seq(Datagrams)
  <2>1. Datagram(c) \in Datagrams BY <1>5 DEF Datagram, Datagrams, ClientStates
  <2>2. Append(socket, Datagram(c)) \in Seq(Datagrams) BY <1>3, <2>1, AppendProperties
  <2> QED BY <1>3, <2>2 DEF Send
<1>10. /\ UNCHANGED <<inbox, ledger, active, audit, task, published, file, sequence, process, started>>
       /\ inbox' \in Seq(Requests)
       /\ \A i \in DOMAIN inbox' : Sound(client, inbox'[i].id, inbox'[i].kind)
  BY DEF Send, opsVars, ServiceInv, ChannelInv
<1> QED BY <1>4, <1>7, <1>8, <1>9, <1>10, ClientMoves

(* A step of a client that sends nothing. *)
LEMMA ClientTurns ==
  ASSUME ServiceInv, NEW c \in Clients, NEW s \in ClientStates,
         s.id = client[c].id, s.kind = client[c].kind, s.inRange = client[c].inRange,
         Told(s, file), client' = [client EXCEPT ![c] = s],
         UNCHANGED <<opsVars, socket, published, file, sequence, process, restarts, started>>
  PROVE  ServiceInv'
<1>1. /\ UNCHANGED <<inbox, socket, ledger, active, audit, task, published, file, sequence, process, started>>
      /\ inbox' \in Seq(Requests) /\ socket' \in Seq(Datagrams)
      /\ \A i \in DOMAIN inbox' : Sound(client, inbox'[i].id, inbox'[i].kind)
  BY DEF opsVars, ServiceInv, ChannelInv, ClientInv
<1> QED BY <1>1, ClientMoves

(* An exchange is given up and repeated, or the client gives up. *)
LEMMA TimeOutKeeps ==
  ASSUME ServiceInv, NEW c \in Clients, TimeOut(c)
  PROVE  ServiceInv'
<1>1. client \in [Clients -> ClientStates] /\ client[c] \in ClientStates /\ Told(client[c], file)
  BY DEF ServiceInv, ClientInv
<1>2. UNCHANGED <<opsVars, socket, published, file, sequence, process, restarts, started>>
  BY DEF TimeOut
<1>3. CASE \E a \in {"submit", "get"} : client' = [client EXCEPT ![c].at = a]
  <2>1. PICK a \in {"submit", "get"} : client' = [client EXCEPT ![c].at = a] BY <1>3
  <2> DEFINE s == [client[c] EXCEPT !.at = a]
  <2>2. client' = [client EXCEPT ![c] = s] BY <1>1, <2>1
  <2>3. /\ s \in ClientStates /\ s.id = client[c].id /\ s.kind = client[c].kind
        /\ s.inRange = client[c].inRange /\ s.answer = client[c].answer /\ s.exit = client[c].exit
    BY <1>1 DEF ClientStates
  <2> HIDE DEF s
  <2>4. Told(s, file) BY <1>1, <2>3, ToldOfQuit
  <2> QED BY <1>2, <2>2, <2>3, <2>4, ClientTurns
<1>4. CASE quit(c, "unavailable")
  <2> DEFINE s == [client[c] EXCEPT !.at = "done", !.exit = "unavailable", !.answer = NoAnswer]
  <2>1. client' = [client EXCEPT ![c] = s] BY <1>1, <1>4 DEF quit
  <2>2. /\ s \in ClientStates /\ s.id = client[c].id /\ s.kind = client[c].kind
        /\ s.inRange = client[c].inRange /\ s.answer = NoAnswer /\ s.exit = "unavailable"
    BY <1>1, NoAnswerIsReply DEF ClientStates, Exits
  <2> HIDE DEF s
  <2>3. Told(s, file) BY <1>1, <2>2, ToldOfQuit
  <2> QED BY <1>2, <2>1, <2>2, <2>3, ClientTurns
<1> QED BY <1>3, <1>4 DEF TimeOut, exchange_failed

(* The client makes an exit code of an answer, or asks again. *)
LEMMA ReceiveKeeps ==
  ASSUME ServiceInv, NEW c \in Clients, Receive(c)
  PROVE  ServiceInv'
<1>1. client \in [Clients -> ClientStates] /\ client[c] \in ClientStates /\ Told(client[c], file)
  BY DEF ServiceInv, ClientInv
<1>2. UNCHANGED <<opsVars, socket, published, file, sequence, process, restarts, started>>
  BY DEF Receive
<1>3. PICK given \in Replies : given = client[c].answer BY <1>1 DEF ClientStates
<1>4. CASE client' = [client EXCEPT ![c].at = "get", ![c].answer = NoAnswer]
  <2> DEFINE s == [client[c] EXCEPT !.at = "get", !.answer = NoAnswer]
  <2>1. client' = [client EXCEPT ![c] = s] BY <1>1, <1>4
  <2>2. /\ s \in ClientStates /\ s.id = client[c].id /\ s.kind = client[c].kind
        /\ s.inRange = client[c].inRange /\ s.answer = NoAnswer /\ s.exit = client[c].exit
    BY <1>1, NoAnswerIsReply DEF ClientStates
  <2> HIDE DEF s
  <2>3. Told(s, file) BY <1>1, <2>2, ToldOfQuit
  <2> QED BY <1>2, <2>1, <2>2, <2>3, ClientTurns
<1>5. ASSUME NEW code \in Exits, quit(c, code),
             code = "ok" => client[c].inRange /\ HappenedIn(file, client[c].id, "Succeeded"),
             code \in {"Rejected", "Failed"} => HappenedIn(file, client[c].id, code)
      PROVE  ServiceInv'
  <2> DEFINE s == [client[c] EXCEPT !.at = "done", !.exit = code, !.answer = NoAnswer]
  <2>1. client' = [client EXCEPT ![c] = s] BY <1>1, <1>5 DEF quit
  <2>2. /\ s \in ClientStates /\ s.id = client[c].id /\ s.kind = client[c].kind
        /\ s.inRange = client[c].inRange /\ s.answer = NoAnswer /\ s.exit = code
    BY <1>1, NoAnswerIsReply DEF ClientStates
  <2> HIDE DEF s
  <2>3. Told(s, file) BY <1>5, <2>2 DEF Told, NoAnswer, Terminal
  <2> QED BY <1>2, <2>1, <2>2, <2>3, ClientTurns
<1>6. CASE ~given.ok /\ quit(c, given.reason)
  <2>1. given.reason \in Reasons /\ Reasons \subseteq Exits BY <1>3 DEF Replies, Exits
  <2>2. given.reason \notin {"ok", "Rejected", "Failed"} BY <2>1 DEF Reasons
  <2> QED BY <1>5, <1>6, <2>1, <2>2
<1>7. CASE given.ok /\ given.phase = "Succeeded" /\ quit(c, "ok")
  <2>1. client[c].inRange /\ HappenedIn(file, client[c].id, "Succeeded")
    BY <1>1, <1>3, <1>7 DEF Told, Terminal
  <2>2. "ok" \in Exits /\ "ok" \notin {"Rejected", "Failed"} BY DEF Exits
  <2> QED BY <1>5, <1>7, <2>1, <2>2
<1>8. CASE given.ok /\ given.phase \in {"Rejected", "Failed"} /\ quit(c, given.phase)
  <2>1. HappenedIn(file, client[c].id, given.phase)
    BY <1>1, <1>3, <1>8 DEF Told, Terminal
  <2>2. given.phase \in Exits /\ given.phase # "ok" BY <1>8 DEF Exits
  <2> QED BY <1>5, <1>8, <2>1, <2>2
<1>9. CASE quit(c, "timeout")
  <2>1. "timeout" \in Exits /\ "timeout" \notin {"ok", "Rejected", "Failed"}
    BY DEF Exits
  <2> QED BY <1>5, <1>9, <2>1
<1> QED BY <1>3, <1>4, <1>6, <1>7, <1>8, <1>9 DEF Receive

(* What the server answers a request, and what a request it queues is. *)
LEMMA SubmitResponse ==
  ASSUME ServiceInv, NEW c \in Clients, NEW given, given = submit_response(c)
  PROVE  /\ given \in Replies
         /\ given.ok /\ given.phase \in Terminal =>
              client[c].inRange /\ HappenedIn(file, client[c].id, given.phase)
         /\ given = Answer("queued") => Sound(client, client[c].id, client[c].kind)
<1>1. client[c] \in ClientStates /\ ClientsAgree(client) BY DEF ServiceInv, ClientInv
<1>2. PICK id \in Ids, kind \in Kinds, inRange \in BOOLEAN :
           id = client[c].id /\ kind = client[c].kind /\ inRange = client[c].inRange
  BY <1>1 DEF ClientStates
<1>3. kind \in CommandKinds BY ServiceAssumption
<1>4. ipc_fields(kind) \subseteq cli_fields(kind)
  BY <1>3 DEF CommandKinds, OperationKinds, ipc_fields, cli_fields, NodeCommands
<1>5. validate_scope(ipc_target(kind), kind)
  BY <1>3 DEF CommandKinds, OperationKinds, validate_scope, ipc_target
<1>6. CASE Recorded(id)
  <2>1. PICK i \in DOMAIN published : published[i].id = id /\ RecordOf(published, id) = published[i]
    BY <1>6, RecordFound DEF Recorded
  <2>2. Book(client, published) /\ Backed(published, file) BY DEF ServiceInv, ChannelInv
  <2>3. published[i] \in Records BY <2>2 DEF Book
  <2>4. Sound(client, id, published[i].kind) /\ HappenedIn(file, id, published[i].phase)
    BY <2>1, <2>2 DEF Book, Backed
  <2>5. published[i].kind = kind /\ client[c].inRange BY <1>2, <2>4 DEF Sound
  <2>6. given = Answer(published[i].phase)
    BY <1>2, <1>4, <1>6, <2>1, <2>5 DEF submit_response
  <2>7. published[i].phase \in OpPhases BY <2>3 DEF Records
  <2>8. given \in Replies /\ given.phase = published[i].phase
    BY <2>6, <2>7 DEF Answer, Replies, Reasons
  <2>9. given # Answer("queued") BY <2>7, <2>8 DEF Answer, OpPhases, Terminal
  <2> QED BY <1>2, <2>4, <2>5, <2>8, <2>9
<1>7. CASE ~Recorded(id)
  <2>1. given = submit_result(kind, inRange) BY <1>2, <1>4, <1>7 DEF submit_response
  <2>2. \/ ~validate(kind, inRange) /\ given = Refusal("invalid")
        \/ given = Refusal("channel_disconnected") \/ given = Refusal("queue_full")
        \/ validate(kind, inRange) /\ given = Answer("queued")
    BY <1>5, <2>1 DEF submit_result
  <2>3. given \in Replies /\ (given.ok => given.phase \notin Terminal)
    <3>1. \A reason \in Reasons : Refusal(reason) \in Replies /\ ~Refusal(reason).ok
      BY DEF Refusal, Replies
    <3>2. Answer("queued") \in Replies /\ Answer("queued").phase = "queued"
      BY DEF Answer, Replies, Reasons
    <3>3. "queued" \notin Terminal /\ {"invalid", "channel_disconnected", "queue_full"} \subseteq Reasons
      BY DEF Terminal, Reasons
    <3> QED BY <2>2, <3>1, <3>2, <3>3
  <2>4. given = Answer("queued") => inRange
    BY <1>1, <1>2, <2>2 DEF Refusal, Answer, validate, ClientsAgree
  <2>5. given = Answer("queued") => Sound(client, id, kind)
    BY <1>1, <1>2, <2>4 DEF Sound, ClientsAgree
  <2> QED BY <1>2, <2>3, <2>5
<1> QED BY <1>6, <1>7

(* What the server answers a query. *)
LEMMA GetResponse ==
  ASSUME ServiceInv, NEW c \in Clients, NEW given, given = get_response(c)
  PROVE  /\ given \in Replies
         /\ given.ok /\ given.phase \in Terminal =>
              client[c].inRange /\ HappenedIn(file, client[c].id, given.phase)
<1>1. PICK id \in Ids : id = client[c].id BY DEF ServiceInv, ClientInv, ClientStates
<1>2. CASE Recorded(id)
  <2>1. PICK i \in DOMAIN published : published[i].id = id /\ RecordOf(published, id) = published[i]
    BY <1>2, RecordFound DEF Recorded
  <2>2. Book(client, published) /\ Backed(published, file) BY DEF ServiceInv, ChannelInv
  <2>3. published[i] \in Records BY <2>2 DEF Book
  <2>4. Sound(client, id, published[i].kind) /\ HappenedIn(file, id, published[i].phase)
    BY <2>1, <2>2 DEF Book, Backed
  <2>5. client[c].inRange BY <1>1, <2>4 DEF Sound
  <2>6. given = Answer(published[i].phase) BY <1>1, <1>2, <2>1 DEF get_response
  <2>7. given \in Replies /\ given.phase = published[i].phase
    BY <2>3, <2>6 DEF Records, Answer, Replies, Reasons
  <2> QED BY <1>1, <2>4, <2>5, <2>7
<1>3. CASE ~Recorded(id)
  <2>1. given = Answer("queued") BY <1>1, <1>3 DEF get_response
  <2> QED BY <2>1 DEF Answer, Replies, Reasons, Terminal
<1> QED BY <1>2, <1>3

(* The server answers one datagram, and may hand a request to the channel. *)
LEMMA ServerPollKeeps ==
  ASSUME ServiceInv, ServerPoll
  PROVE  ServiceInv'
<1>1. PICK d \in Datagrams : d = Head(socket) BY DEF ServiceInv, ClientInv, ServerPoll
<1>2. PICK c \in Clients : c = d.from BY <1>1 DEF Datagrams
<1>3. PICK given : given = IF d.action = "submit" THEN submit_response(c) ELSE get_response(c)
  OBVIOUS
<1>4. /\ given \in Replies
      /\ given.ok /\ given.phase \in Terminal =>
           client[c].inRange /\ HappenedIn(file, client[c].id, given.phase)
      /\ d.action = "submit" /\ given = Answer("queued") => Sound(client, client[c].id, client[c].kind)
  BY <1>3, SubmitResponse, GetResponse
<1>5. /\ socket' = Tail(socket)
      /\ inbox' = IF d.action = "submit" /\ given = Answer("queued")
                  THEN Append(inbox, [id |-> client[c].id, kind |-> client[c].kind]) ELSE inbox
      /\ client' = IF Awaits(c, d) THEN [client EXCEPT ![c].answer = given] ELSE client
      /\ UNCHANGED <<ledger, active, audit, task, published, file, sequence, process, started>>
  BY <1>1, <1>2, <1>3 DEF ServerPoll
<1>6. client \in [Clients -> ClientStates] /\ client[c] \in ClientStates /\ Told(client[c], file)
  BY DEF ServiceInv, ClientInv
<1>7. socket' \in Seq(Datagrams) BY <1>5 DEF ServiceInv, ClientInv, ServerPoll
<1>8. /\ inbox' \in Seq(Requests)
      /\ \A i \in DOMAIN inbox' : Sound(client, inbox'[i].id, inbox'[i].kind)
  <2>1. inbox \in Seq(Requests) /\ \A i \in DOMAIN inbox : Sound(client, inbox[i].id, inbox[i].kind)
    BY DEF ServiceInv, ChannelInv
  <2>2. CASE inbox' = inbox BY <2>1, <2>2
  <2>3. CASE /\ d.action = "submit" /\ given = Answer("queued")
             /\ inbox' = Append(inbox, [id |-> client[c].id, kind |-> client[c].kind])
    <3> DEFINE r == [id |-> client[c].id, kind |-> client[c].kind]
    <3>1. r \in Requests /\ r.id = client[c].id /\ r.kind = client[c].kind
      BY <1>6 DEF ClientStates, Requests
    <3> HIDE DEF r
    <3>2. /\ inbox' \in Seq(Requests) /\ Len(inbox') = Len(inbox) + 1
          /\ \A i \in 1 .. Len(inbox) : inbox'[i] = inbox[i]
          /\ inbox'[Len(inbox) + 1] = r
      BY <2>1, <2>3, <3>1, AppendProperties DEF r
    <3>3. \A i \in DOMAIN inbox' : (i \in DOMAIN inbox /\ inbox'[i] = inbox[i]) \/ inbox'[i] = r
      <4>1. DOMAIN inbox' = 1 .. (Len(inbox) + 1) /\ DOMAIN inbox = 1 .. Len(inbox) /\ Len(inbox) \in Nat
        BY <2>1, <3>2
      <4> QED BY <3>2, <4>1
    <3> QED BY <1>4, <2>1, <2>3, <3>1, <3>2, <3>3
  <2> QED BY <1>5, <2>2, <2>3
<1> DEFINE s == IF Awaits(c, d) THEN [client[c] EXCEPT !.answer = given] ELSE client[c]
<1>9. client' = [client EXCEPT ![c] = s] BY <1>5, <1>6
<1>10. /\ s \in ClientStates /\ s.id = client[c].id /\ s.kind = client[c].kind /\ s.inRange = client[c].inRange
       /\ Told(s, file)
  <2>1. CASE Awaits(c, d)
    <3>1. s = [client[c] EXCEPT !.answer = given] BY <2>1
    <3>2. /\ s \in ClientStates /\ s.id = client[c].id /\ s.kind = client[c].kind
          /\ s.inRange = client[c].inRange /\ s.exit = client[c].exit /\ s.answer = given
      BY <1>4, <1>6, <3>1 DEF ClientStates
    <3> HIDE DEF s
    <3>3. Told(s, file) BY <1>4, <1>6, <3>2 DEF Told
    <3> QED BY <3>2, <3>3
  <2>2. CASE ~Awaits(c, d) BY <1>6, <2>2
  <2> QED BY <2>1, <2>2
<1> HIDE DEF s
<1> QED BY <1>5, <1>7, <1>8, <1>9, <1>10, ClientMoves
------------------------
(* The channel. *)

(* A step that leaves the clients alone and forgets nothing of the audit. *)
LEMMA ChannelMoves ==
  ASSUME ServiceInv, UNCHANGED <<client, socket>>, ChannelInv', AuditInv', Remains(file, file')
  PROVE  ServiceInv'
<1>1. \A c \in Clients : client[c] \in ClientStates /\ Told(client[c], file)
  BY DEF ServiceInv, ClientInv
<1>2. \A c \in Clients : Told(client[c], file') BY <1>1, ToldRemains
<1>3. ClientInv' BY <1>2 DEF ServiceInv, ClientInv
<1> QED BY <1>3 DEF ServiceInv

(* The rest of an inbox. *)
LEMMA InboxTail ==
  ASSUME NEW cl, NEW s \in Seq(Requests), s # <<>>, \A i \in DOMAIN s : Sound(cl, s[i].id, s[i].kind)
  PROVE  /\ Tail(s) \in Seq(Requests) /\ \A i \in DOMAIN Tail(s) : Sound(cl, Tail(s)[i].id, Tail(s)[i].kind)
         /\ Head(s) \in Requests /\ Sound(cl, Head(s).id, Head(s).kind)
<1>1. /\ Tail(s) \in Seq(Requests) /\ Len(Tail(s)) = Len(s) - 1
      /\ \A i \in 1 .. (Len(s) - 1) : Tail(s)[i] = s[i + 1]
      /\ Head(s) \in Requests /\ Head(s) = s[1] /\ Len(s) \in Nat /\ Len(s) >= 1
  BY EmptySeq, HeadTailProperties
<1>2. DOMAIN s = 1 .. Len(s) /\ DOMAIN Tail(s) = 1 .. (Len(s) - 1) BY <1>1
<1>3. \A i \in DOMAIN Tail(s) : i + 1 \in DOMAIN s /\ Tail(s)[i] = s[i + 1]
  BY <1>1, <1>2
<1>4. 1 \in DOMAIN s BY <1>1, <1>2
<1> QED BY <1>1, <1>3, <1>4

(* A request that is new to the ledger is accepted and then refused or
   started; every operation that was running still is. *)
LEMMA RequestRecorded ==
  ASSUME ServiceInv, process = "up", task = "running", UNCHANGED client,
         NEW r \in Requests, Sound(client, r.id, r.kind), ~Known(r.id), ~LedgerFull,
         NEW phase \in OpPhases, Audited(Register(r), r.id, <<"Accepted">>, <<phase>>), publish,
         \/ append_record(r.id)
         \/ audit' = audit /\ task' # "AuditUnavailable" /\ UNCHANGED <<file, sequence>>
  PROVE  /\ Book(client, ledger') /\ Len(ledger') <= LedgerCapacity
         /\ Book(client, published') /\ Backed(published', file')
         /\ audit' \in [Ids -> Seq(OpPhases)]
         /\ sequence' \in Nat /\ Readable(file') /\ Remains(file, file')
         /\ task' = "running" =>
              /\ Whole(file') /\ sequence' = Len(file') /\ Backed(ledger', file')
              /\ HappenedIn(file', r.id, phase)
              /\ \E i \in DOMAIN ledger' : ledger'[i].id = r.id /\ ledger'[i].phase = phase
              /\ \A id \in Ids : RunningIn(ledger, id) => RunningIn(ledger', id)
              /\ Len(ledger) < LedgerCapacity =>
                   \A id \in Ids : Known(id) => \E i \in DOMAIN ledger' : ledger'[i].id = id
<1>1. /\ Book(client, ledger) /\ Len(ledger) <= LedgerCapacity /\ Backed(ledger, file)
  BY DEF ServiceInv, ChannelInv
<1>2. PICK l : l = Register(r) OBVIOUS
<1>3. /\ Book(client, l) /\ Len(l) <= LedgerCapacity
      /\ \E i \in DOMAIN l : l[i].id = r.id
      /\ \A i \in DOMAIN l : l[i].id # r.id => \E k \in DOMAIN ledger : l[i] = ledger[k]
      /\ \A k \in DOMAIN ledger :
           ledger[k].phase = "Running" \/ Len(ledger) < LedgerCapacity =>
             \E i \in DOMAIN l : l[i] = ledger[k]
  BY <1>1, <1>2, Registered
<1>4. r.id \in Ids BY DEF Requests
<1>5. \A i \in DOMAIN l : l[i].id # r.id => HappenedIn(file, l[i].id, l[i].phase)
  BY <1>1, <1>3 DEF Backed
<1>6. PICK before \in Seq(OpPhases), phases \in Seq(OpPhases) :
           /\ before = <<"Accepted">> /\ phases = <<phase>>
           /\ phases # <<>> /\ Len(phases) = 1 /\ phases[1] = phase /\ Last(phases) = phase
  <2>1. <<"Accepted">> \in Seq(OpPhases) /\ <<phase>> \in Seq(OpPhases) BY DEF OpPhases
  <2>2. <<phase>> # <<>> /\ Len(<<phase>>) = 1 /\ <<phase>>[1] = phase OBVIOUS
  <2>3. Last(<<phase>>) = phase BY <2>2 DEF Last
  <2> QED BY <2>1, <2>2, <2>3
<1>7. Audited(l, r.id, before, phases) BY <1>2, <1>6
<1>8. /\ Book(client, ledger') /\ Len(ledger') = Len(l)
      /\ Book(client, published') /\ Backed(published', file')
      /\ audit' \in [Ids -> Seq(OpPhases)]
      /\ sequence' \in Nat /\ Readable(file') /\ Remains(file, file')
      /\ task' = "running" =>
           /\ Whole(file') /\ sequence' = Len(file') /\ Backed(ledger', file')
           /\ ledger' = SetPhase(l, r.id, Last(phases))
           /\ \A k \in 1 .. Len(phases) : HappenedIn(file', r.id, phases[k])
  BY <1>3, <1>4, <1>5, <1>6, <1>7, PhasesRecorded
<1>9. ASSUME task' = "running"
      PROVE  /\ HappenedIn(file', r.id, phase)
             /\ \E i \in DOMAIN ledger' : ledger'[i].id = r.id /\ ledger'[i].phase = phase
             /\ \A id \in Ids : RunningIn(ledger, id) => RunningIn(ledger', id)
             /\ Len(ledger) < LedgerCapacity =>
                  \A id \in Ids : Known(id) => \E i \in DOMAIN ledger' : ledger'[i].id = id
  <2>1. ledger' = SetPhase(l, r.id, phase) BY <1>6, <1>8, <1>9
  <2>2. /\ DOMAIN ledger' = DOMAIN l
        /\ \A i \in DOMAIN l : ledger'[i].id = l[i].id
        /\ \A i \in DOMAIN l : ledger'[i].phase = IF l[i].id = r.id THEN phase ELSE l[i].phase
    BY <1>3, <1>4, <2>1, PhaseSet
  <2>3. HappenedIn(file', r.id, phase) BY <1>6, <1>8, <1>9
  <2>4. \E i \in DOMAIN ledger' : ledger'[i].id = r.id /\ ledger'[i].phase = phase
    BY <1>3, <2>2
  <2>5. ASSUME NEW id \in Ids, RunningIn(ledger, id) PROVE RunningIn(ledger', id)
    <3>1. PICK k \in DOMAIN ledger : ledger[k].id = id /\ ledger[k].phase = "Running"
      BY <2>5 DEF RunningIn
    <3>2. PICK i \in DOMAIN l : l[i] = ledger[k] BY <1>3, <3>1
    <3>3. id # r.id BY <3>1 DEF Known
    <3> QED BY <2>2, <3>1, <3>2, <3>3 DEF RunningIn
  <2>6. ASSUME Len(ledger) < LedgerCapacity, NEW id \in Ids, Known(id)
        PROVE  \E i \in DOMAIN ledger' : ledger'[i].id = id
    <3>1. PICK k \in DOMAIN ledger : ledger[k].id = id BY <2>6 DEF Known
    <3>2. PICK i \in DOMAIN l : l[i] = ledger[k] BY <1>3, <2>6
    <3> QED BY <2>2, <3>1, <3>2
  <2> QED BY <2>3, <2>4, <2>5, <2>6
<1> QED BY <1>3, <1>8, <1>9

(* The channel takes one request. *)
LEMMA ChannelPollsKeeps ==
  ASSUME ServiceInv, ChannelPolls
  PROVE  ServiceInv'
<1>1. /\ process = "up" /\ task = "running" /\ inbox # <<>> /\ publish
      /\ UNCHANGED <<client, socket, process>>
      /\ inbox' = Tail(inbox)
      /\ \/ PollExisting(Head(inbox)) \/ PollError(Head(inbox))
         \/ PollRejected(Head(inbox)) \/ PollStarted(Head(inbox))
  BY DEF ChannelPolls, PollCommand, PollNothing
<1>2. PICK r : r = Head(inbox) OBVIOUS
<1>3. /\ inbox' \in Seq(Requests) /\ \A i \in DOMAIN inbox' : Sound(client, inbox'[i].id, inbox'[i].kind)
      /\ r \in Requests /\ Sound(client, r.id, r.kind)
  <2>1. inbox \in Seq(Requests) /\ \A i \in DOMAIN inbox : Sound(client, inbox[i].id, inbox[i].kind)
    BY DEF ServiceInv, ChannelInv
  <2> QED BY <1>1, <1>2, <2>1, InboxTail
<1>4. /\ IF audit' = audit /\ task' # "AuditUnavailable" THEN UNCHANGED <<file, sequence>> ELSE append_record(r.id)
      /\ started' = IF active' # active THEN [started EXCEPT ![active'.id] = @ + 1] ELSE started
  BY <1>2 DEF ChannelPolls
<1>5. /\ Book(client, ledger) /\ Len(ledger) <= LedgerCapacity /\ Backed(ledger, file)
      /\ Book(client, published) /\ Backed(published, file) /\ audit \in [Ids -> Seq(OpPhases)]
      /\ active = NoRequest \/ active \in Requests
      /\ active # NoRequest => RunningIn(ledger, active.id)
  BY <1>1 DEF ServiceInv, ChannelInv
<1>6. /\ sequence \in Nat /\ Readable(file) /\ Whole(file) /\ sequence = Len(file)
      /\ started \in [Ids -> Nat] /\ \A id \in Ids : started[id] > 0 => HappenedIn(file, id, "Running")
  BY <1>1 DEF ServiceInv, AuditInv
<1>7. CASE /\ UNCHANGED <<ledger, active, audit>> /\ task' # "AuditUnavailable"
           /\ published' \in {ledger, published} /\ UNCHANGED <<file, sequence, started>>
  <2>1. ChannelInv' BY <1>1, <1>3, <1>5, <1>7 DEF ChannelInv
  <2>2. AuditInv' BY <1>1, <1>6, <1>7 DEF AuditInv
  <2>3. Remains(file, file') BY <1>7 DEF Remains
  <2> QED BY <1>1, <2>1, <2>2, <2>3, ChannelMoves
<1>8. CASE PollExisting(r) \/ PollError(r)
  <2>1. /\ UNCHANGED <<ledger, active, audit>> /\ task' # "AuditUnavailable"
        /\ UNCHANGED <<file, sequence, started>>
    BY <1>1, <1>4, <1>8 DEF PollExisting, PollError
  <2>2. published' \in {ledger, published} BY <1>1, <2>1 DEF publish
  <2> QED BY <1>7, <2>1, <2>2
<1>9. ASSUME NEW phase \in OpPhases, ~Known(r.id), ~LedgerFull,
             Audited(Register(r), r.id, <<"Accepted">>, <<phase>>),
             \/ active' = active
             \/ active = NoRequest /\ active' = r /\ phase = "Running" /\ task' = "running"
      PROVE  ServiceInv'
  <2>1. /\ Book(client, ledger') /\ Len(ledger') <= LedgerCapacity
        /\ Book(client, published') /\ Backed(published', file')
        /\ audit' \in [Ids -> Seq(OpPhases)]
        /\ sequence' \in Nat /\ Readable(file') /\ Remains(file, file')
        /\ task' = "running" =>
             /\ Whole(file') /\ sequence' = Len(file') /\ Backed(ledger', file')
             /\ HappenedIn(file', r.id, phase)
             /\ \E i \in DOMAIN ledger' : ledger'[i].id = r.id /\ ledger'[i].phase = phase
             /\ \A id \in Ids : RunningIn(ledger, id) => RunningIn(ledger', id)
    BY <1>1, <1>3, <1>4, <1>9, RequestRecorded
  <2>2. active' = NoRequest \/ active' \in Requests BY <1>3, <1>5, <1>9
  <2>3. task' = "running" /\ active' # NoRequest => RunningIn(ledger', active'.id)
    <3>1. active # NoRequest => active.id \in Ids BY <1>5 DEF Requests
    <3>2. CASE active' = active BY <1>5, <2>1, <3>1, <3>2
    <3>3. CASE active' = r /\ phase = "Running" BY <2>1, <3>3 DEF RunningIn
    <3> QED BY <1>9, <3>2, <3>3
  <2>4. ChannelInv' BY <1>1, <1>3, <2>1, <2>2, <2>3 DEF ChannelInv
  <2>5. started' \in [Ids -> Nat] /\ \A id \in Ids : started'[id] > 0 => HappenedIn(file', id, "Running")
    <3>1. \A id \in Ids : HappenedIn(file, id, "Running") => HappenedIn(file', id, "Running")
      BY <2>1 DEF Remains, OpPhases
    <3>2. CASE active' = active BY <1>4, <1>6, <3>1, <3>2
    <3>3. CASE active' # active
      <4>1. active' = r /\ phase = "Running" /\ task' = "running" /\ r.id \in Ids
        BY <1>3, <1>9, <3>3 DEF Requests
      <4>2. started' = [started EXCEPT ![r.id] = @ + 1] BY <1>4, <3>3, <4>1
      <4>3. \A id \in Ids : started'[id] = IF id = r.id THEN started[id] + 1 ELSE started[id]
        BY <1>6, <4>1, <4>2
      <4>4. HappenedIn(file', r.id, "Running") BY <2>1, <4>1
      <4>5. started' \in [Ids -> Nat] BY <1>6, <4>1, <4>2
      <4> QED BY <1>6, <3>1, <4>3, <4>4, <4>5
    <3> QED BY <3>2, <3>3
  <2>6. AuditInv' BY <1>1, <2>1, <2>5 DEF AuditInv
  <2> QED BY <1>1, <2>1, <2>4, <2>6, ChannelMoves
<1>10. CASE PollRejected(r)
  <2>1. "Rejected" \in OpPhases BY DEF OpPhases, Terminal
  <2> QED BY <1>9, <1>10, <2>1 DEF PollRejected
<1>11. CASE PollStarted(r)
  <2>1. r.kind # "ReadStatus" BY <1>3, ServiceAssumption DEF Requests, CommandKinds
  <2>2. "Running" \in OpPhases BY DEF OpPhases
  <2>3. /\ ~Known(r.id) /\ ~LedgerFull /\ active = NoRequest
        /\ Audited(Register(r), r.id, <<"Accepted">>, <<"Running">>)
        /\ active' = IF task' = task THEN r ELSE active
    BY <1>11, <2>1 DEF PollStarted
  <2> QED BY <1>1, <1>9, <2>2, <2>3
<1> QED BY <1>1, <1>2, <1>8, <1>10, <1>11

(* The active operation ends. *)
LEMMA OperationFinishesKeeps ==
  ASSUME ServiceInv, OperationFinishes
  PROVE  ServiceInv'
<1>1. /\ process = "up" /\ task = "running" /\ active # NoRequest /\ publish /\ append_record(active.id)
      /\ UNCHANGED <<client, socket, process, started, inbox>> /\ active' = NoRequest
  BY DEF OperationFinishes, EndActive
<1>2. PICK id \in Ids : id = active.id BY <1>1 DEF ServiceInv, ChannelInv, Requests
<1>3. PICK phase \in OpPhases : Audited(ledger, id, <<>>, <<phase>>)
  BY <1>1, <1>2 DEF OperationFinishes, EndActive, OpPhases, Terminal
<1>4. /\ Book(client, ledger) /\ Len(ledger) <= LedgerCapacity /\ Backed(ledger, file)
      /\ RunningIn(ledger, id)
  BY <1>1, <1>2 DEF ServiceInv, ChannelInv
<1>5. PICK before \in Seq(OpPhases), phases \in Seq(OpPhases) :
           before = <<>> /\ phases = <<phase>> /\ phases # <<>>
  <2>1. <<>> \in Seq(OpPhases) /\ <<phase>> \in Seq(OpPhases) /\ <<phase>> # <<>>
    OBVIOUS
  <2> QED BY <2>1
<1>6. \E i \in DOMAIN ledger : ledger[i].id = id BY <1>4 DEF RunningIn
<1>7. \A i \in DOMAIN ledger : ledger[i].id # id => HappenedIn(file, ledger[i].id, ledger[i].phase)
  BY <1>4 DEF Backed
<1>8. PICK l : l = ledger OBVIOUS
<1>9. /\ Book(client, ledger') /\ Len(ledger') = Len(l)
      /\ Book(client, published') /\ Backed(published', file')
      /\ audit' \in [Ids -> Seq(OpPhases)]
      /\ sequence' \in Nat /\ Readable(file') /\ Remains(file, file')
      /\ task' = "running" =>
           /\ Whole(file') /\ sequence' = Len(file') /\ Backed(ledger', file')
           /\ ledger' = SetPhase(l, id, Last(phases))
           /\ \A k \in 1 .. Len(phases) : HappenedIn(file', id, phases[k])
  <2>1. /\ Book(client, l) /\ \E i \in DOMAIN l : l[i].id = id
        /\ \A i \in DOMAIN l : l[i].id # id => HappenedIn(file, l[i].id, l[i].phase)
        /\ Audited(l, id, before, phases) /\ append_record(id)
    BY <1>1, <1>2, <1>3, <1>4, <1>5, <1>6, <1>7, <1>8
  <2> QED BY <1>1, <1>5, <2>1, PhasesRecorded
<1>10. ChannelInv'
  <2>1. inbox' \in Seq(Requests) /\ \A i \in DOMAIN inbox' : Sound(client', inbox'[i].id, inbox'[i].kind)
    BY <1>1 DEF ServiceInv, ChannelInv
  <2>2. Len(ledger') <= LedgerCapacity BY <1>4, <1>8, <1>9
  <2> QED BY <1>1, <1>9, <2>1, <2>2 DEF ChannelInv
<1>11. AuditInv'
  <2>1. started \in [Ids -> Nat] /\ \A i \in Ids : started[i] > 0 => HappenedIn(file, i, "Running")
    BY DEF ServiceInv, AuditInv
  <2>2. \A i \in Ids : HappenedIn(file, i, "Running") => HappenedIn(file', i, "Running")
    BY <1>9 DEF Remains, OpPhases
  <2>3. \A i \in Ids : started'[i] > 0 => HappenedIn(file', i, "Running")
    BY <1>1, <2>1, <2>2
  <2> QED BY <1>1, <1>9, <2>1, <2>3 DEF AuditInv
<1> QED BY <1>1, <1>9, <1>10, <1>11, ChannelMoves

(* A torn record is the only one that may follow what was written. *)
LEMMA TornEnds ==
  ASSUME NEW f, Whole(f)
  PROVE  Readable(f) /\ Readable(Append(f, Torn)) /\ Remains(f, Append(f, Torn))
<1>1. f \in Seq(Entries) /\ \A i \in DOMAIN f : f[i].sequence = i - 1 BY DEF Whole
<1>2. \A i \in DOMAIN f : f[i] # Torn
  <2>1. \A i \in DOMAIN f : f[i] \in Entries BY <1>1
  <2> QED BY <2>1 DEF Torn, Entries, OpPhases, Terminal
<1>3. f \in Seq(Entries \cup {Torn}) BY <1>1
<1>4. Readable(f) BY <1>1, <1>2, <1>3 DEF Readable
<1> DEFINE g == Append(f, Torn)
<1>5. PICK n \in Nat : n = Len(f) BY <1>1
<1>6. /\ g \in Seq(Entries \cup {Torn}) /\ Len(g) = n + 1
      /\ \A i \in 1 .. n : g[i] = f[i]
      /\ g[n + 1] = Torn /\ DOMAIN f = 1 .. n
  BY <1>3, <1>5, AppendProperties
<1> HIDE DEF g
<1>7. DOMAIN g = 1 .. (n + 1) BY <1>6
<1>8. \A i \in 1 .. (n + 1) : i = n + 1 \/ i \in 1 .. n OBVIOUS
<1>9. \A i \in DOMAIN g : IF g[i] = Torn THEN i = Len(g) ELSE g[i].sequence = i - 1
  BY <1>1, <1>2, <1>6, <1>7, <1>8
<1>10. \A i \in DOMAIN f : i \in DOMAIN g /\ g[i] = f[i] BY <1>5, <1>6, <1>7
<1>11. Readable(g) /\ Remains(f, g)
  BY <1>6, <1>9, <1>10 DEF Readable, Remains, HappenedIn
<1> QED BY <1>4, <1>11 DEF g

(* The process dies. *)
LEMMA CrashKeeps ==
  ASSUME ServiceInv, Crash
  PROVE  ServiceInv'
<1>1. /\ process = "up" /\ process' = "down" /\ socket' = <<>>
      /\ file' = file \/ (task = "running" /\ file' = Append(file, Torn))
      /\ UNCHANGED <<opsVars, client, published, sequence, started>>
  <2>1. file' \in {file} \cup (IF task = "running" /\ (inbox # <<>> \/ active # NoRequest)
                                THEN {Append(file, Torn)} ELSE {})
    BY DEF Crash
  <2>2. file' = file \/ (task = "running" /\ file' = Append(file, Torn)) BY <2>1, Zenon
  <2> QED BY <2>2 DEF Crash
<1>2. Readable(file') /\ Remains(file, file')
  <2>1. CASE file' = file BY <2>1 DEF ServiceInv, AuditInv, Remains
  <2>2. CASE task = "running" /\ file' = Append(file, Torn)
    <3>1. Whole(file) BY <1>1, <2>2 DEF ServiceInv, AuditInv
    <3> QED BY <2>2, <3>1, TornEnds
  <2> QED BY <1>1, <2>1, <2>2
<1>3. /\ client \in [Clients -> ClientStates] /\ ClientsAgree(client)
      /\ \A c \in Clients : Told(client[c], file)
  BY DEF ServiceInv, ClientInv
<1>4. \A c \in Clients : Told(client[c], file') BY <1>2, <1>3, ToldRemains
<1>5. ClientInv'
  <2>1. <<>> \in Seq(Datagrams) OBVIOUS
  <2> QED BY <1>1, <1>3, <1>4, <2>1 DEF ClientInv
<1>6. ledger \in Seq(Records) /\ published \in Seq(Records) /\ Backed(published, file)
      /\ (task = "running" => Backed(ledger, file))
  BY DEF ServiceInv, ChannelInv, Book
<1>7. Backed(published, file') /\ (task = "running" => Backed(ledger, file'))
  BY <1>2, <1>6, BackedRemains
<1>8. ChannelInv' BY <1>1, <1>7 DEF ServiceInv, ChannelInv, opsVars
<1>9. AuditInv'
  <2>1. started \in [Ids -> Nat] /\ \A id \in Ids : started[id] > 0 => HappenedIn(file, id, "Running")
    BY DEF ServiceInv, AuditInv
  <2>2. \A id \in Ids : started'[id] > 0 => HappenedIn(file', id, "Running")
    BY <1>1, <1>2, <2>1 DEF Remains, OpPhases
  <2> QED BY <1>1, <1>2, <2>1, <2>2 DEF ServiceInv, AuditInv
<1> QED BY <1>5, <1>8, <1>9 DEF ServiceInv

(* recover_and_count accepts every audit a process can leave, and loses
   nothing of it that was whole. *)
LEMMA Recovered ==
  ASSUME NEW f, Readable(f)
  PROVE  LET found == recover_and_count(f)
         IN  found.ok /\ Whole(found.file) /\ Remains(f, found.file)
<1> DEFINE cut == IF f # <<>> /\ Last(f) = Torn THEN Front(f) ELSE f
<1>1. PICK n \in Nat : n = Len(f) BY DEF Readable
<1>2. /\ f \in Seq(Entries \cup {Torn}) /\ DOMAIN f = 1 .. n
      /\ \A i \in 1 .. n : f[i] \in Entries \cup {Torn}
      /\ \A i \in 1 .. n : IF f[i] = Torn THEN i = n ELSE f[i].sequence = i - 1
  BY <1>1 DEF Readable
<1>3. Whole(cut) /\ Remains(f, cut)
  <2>1. CASE f # <<>> /\ Last(f) = Torn
    <3>1. PICK m \in Nat : m = n - 1 /\ n = m + 1 /\ n \in 1 .. n
      <4>1. n >= 1 BY <1>1, <1>2, <2>1, EmptySeq
      <4> QED BY <4>1
    <3>2. \A i \in 1 .. m : i \in 1 .. n /\ i # n BY <3>1
    <3>3. f[n] = Torn BY <1>1, <2>1 DEF Last
    <3>4. \A i \in 1 .. m : f[i] \in Entries /\ f[i].sequence = i - 1 BY <1>2, <3>2
    <3>5. cut = SubSeq(f, 1, m) BY <1>1, <2>1, <3>1 DEF Front
    <3> HIDE DEF cut
    <3>6. /\ cut \in Seq(Entries) /\ Len(cut) = m
          /\ \A i \in 1 .. m : cut[i] = f[i]
      <4>1. /\ SubSeq(f, 1, m) \in Seq(Entries)
            /\ Len(SubSeq(f, 1, m)) = IF 1 <= m THEN m - 1 + 1 ELSE 0
            /\ \A i \in 1 .. (m - 1 + 1) : SubSeq(f, 1, m)[i] = f[1 + i - 1]
        BY <3>1, <3>4, SubSeqProperties
      <4>2. m - 1 + 1 = m /\ \A i \in 1 .. m : 1 + i - 1 = i BY <3>1
      <4> QED BY <3>1, <3>5, <4>1, <4>2
    <3>7. DOMAIN cut = 1 .. m BY <3>6
    <3>8. Whole(cut) BY <3>4, <3>6, <3>7 DEF Whole
    <3>9. \A i \in 1 .. n : f[i] = Torn \/ i \in 1 .. m
      <4>1. \A i \in 1 .. n : i = n \/ i \in 1 .. m BY <3>1
      <4> QED BY <3>3, <4>1
    <3>10. Remains(f, cut)
      <4>1. Torn.phase \notin OpPhases BY DEF Torn, OpPhases, Terminal
      <4> SUFFICES ASSUME NEW id \in Ids, NEW phase \in OpPhases, HappenedIn(f, id, phase)
                   PROVE  HappenedIn(cut, id, phase)
        BY DEF Remains
      <4>2. PICK i \in 1 .. n : f[i].id = id /\ f[i].phase = phase
        BY <1>2 DEF HappenedIn
      <4>3. f[i] # Torn BY <4>1, <4>2
      <4>4. i \in DOMAIN cut /\ cut[i] = f[i] BY <3>6, <3>7, <3>9, <4>3
      <4> QED BY <4>2, <4>4 DEF HappenedIn
    <3> QED BY <3>8, <3>10
  <2>2. CASE ~(f # <<>> /\ Last(f) = Torn)
    <3>1. cut = f BY <2>2
    <3>2. \A i \in 1 .. n : f[i] # Torn
      <4> SUFFICES ASSUME NEW i \in 1 .. n, f[i] = Torn PROVE FALSE OBVIOUS
      <4>1. i = n /\ f[n] = Torn BY <1>2
      <4>2. f # <<>> BY <1>1, <1>2
      <4> QED BY <1>1, <2>2, <4>1, <4>2 DEF Last
    <3>3. \A i \in 1 .. n : f[i] \in Entries /\ f[i].sequence = i - 1 BY <1>2, <3>2
    <3>4. f \in Seq(Entries) BY <1>1, <1>2, <3>3
    <3>5. Whole(f) BY <1>2, <3>3, <3>4 DEF Whole
    <3> QED BY <3>1, <3>5 DEF Remains
  <2> QED BY <2>1, <2>2
<1> HIDE DEF cut
<1>4. \A i \in DOMAIN cut : cut[i] # Torn /\ cut[i].sequence = i - 1
  <2>1. \A i \in DOMAIN cut : cut[i] \in Entries /\ cut[i].sequence = i - 1
    BY <1>3 DEF Whole
  <2> QED BY <2>1 DEF Torn, Entries, OpPhases, Terminal
<1>5. recover_and_count(f) = [ok |-> TRUE, file |-> cut]
  BY <1>4 DEF recover_and_count, cut
<1> QED BY <1>3, <1>5

(* The next process opens the audit. *)
LEMMA RestartKeeps ==
  ASSUME ServiceInv, Restart
  PROVE  ServiceInv'
<1>1. PICK found : found = recover_and_count(file) OBVIOUS
<1>2. found.ok /\ Whole(found.file) /\ Remains(file, found.file)
  BY <1>1, Recovered DEF ServiceInv, AuditInv
<1>3. /\ process' = "up" /\ file' = found.file /\ sequence' = Len(found.file)
      /\ inbox' = <<>> /\ ledger' = <<>> /\ active' = NoRequest
      /\ audit' = [i \in Ids |-> <<>>] /\ task' = "running" /\ published' = <<>>
      /\ started' = [i \in Ids |-> 0] /\ UNCHANGED <<client, socket>>
  BY <1>1, <1>2 DEF Restart
<1>4. \A cl, f : Book(cl, <<>>) /\ Backed(<<>>, f) /\ Len(<<>>) = 0 /\ <<>> \in Seq(Requests) /\ <<>> \in Seq(OpPhases)
  BY DEF Book, Backed
<1>5. ChannelInv'
  <2>1. audit' \in [Ids -> Seq(OpPhases)] BY <1>3, <1>4
  <2>2. \A i \in DOMAIN inbox' : Sound(client', inbox'[i].id, inbox'[i].kind) BY <1>3
  <2>3. Len(ledger') <= LedgerCapacity BY <1>3, <1>4, OperationsAssumption
  <2> QED BY <1>3, <1>4, <2>1, <2>2, <2>3 DEF ChannelInv
<1>6. AuditInv'
  <2>1. Readable(file') /\ Whole(file') /\ sequence' \in Nat
    BY <1>2, <1>3, TornEnds DEF Whole
  <2>2. started' \in [Ids -> Nat] /\ \A id \in Ids : ~(started'[id] > 0) BY <1>3
  <2> QED BY <1>3, <2>1, <2>2 DEF AuditInv
<1>7. Remains(file, file') /\ UNCHANGED <<client, socket>> BY <1>2, <1>3
<1> QED BY <1>5, <1>6, <1>7, ChannelMoves
------------------------
(* The specification. *)

(* Before anything was submitted. *)
LEMMA ServiceInvInit == ServiceInit => ServiceInv
<1> SUFFICES ASSUME ServiceInit PROVE ServiceInv OBVIOUS
<1>1. /\ inbox = <<>> /\ ledger = <<>> /\ active = NoRequest /\ audit = [i \in Ids |-> <<>>]
      /\ task = "running" /\ socket = <<>> /\ published = <<>> /\ file = <<>> /\ sequence = 0
      /\ process = "up" /\ started = [i \in Ids |-> 0]
  BY DEF ServiceInit, OpsInit
<1>2. \A cl, f : Book(cl, <<>>) /\ Backed(<<>>, f) /\ Len(<<>>) = 0 BY DEF Book, Backed
<1>3. <<>> \in Seq(Requests) /\ <<>> \in Seq(OpPhases) /\ <<>> \in Seq(Datagrams)
  OBVIOUS
<1>4. \A c \in Clients : /\ client[c] \in ClientStates
                         /\ client[c].answer = NoAnswer /\ client[c].exit = "none"
  <2> TAKE c \in Clients
  <2>1. client[c] \in [id : Ids, kind : Kinds, inRange : BOOLEAN, at : {"submit"}, tries : {0}, gets : {0},
                       answer : {NoAnswer}, exit : {"none"}]
    BY DEF ServiceInit
  <2> QED BY <2>1, NoAnswerIsReply DEF ClientStates, Exits, Reasons
<1>5. ClientInv
  <2>1. client \in [Clients -> ClientStates] BY <1>4 DEF ServiceInit
  <2>2. \A c \in Clients : Told(client[c], file) BY <1>4 DEF Told, NoAnswer, Terminal
  <2> QED BY <1>1, <1>3, <2>1, <2>2 DEF ClientInv, ClientsAgree, ServiceInit
<1>6. ChannelInv BY <1>1, <1>2, <1>3, OperationsAssumption DEF ChannelInv
<1>7. AuditInv
  <2>1. Whole(file) BY <1>1 DEF Whole
  <2> QED BY <1>1, <2>1, TornEnds DEF AuditInv
<1> QED BY <1>5, <1>6, <1>7 DEF ServiceInv

(* Every step of clients, server, channel and process. *)
LEMMA ServiceInvNext == ServiceInv /\ [ServiceNext]_allVars => ServiceInv'
<1> SUFFICES ASSUME ServiceInv, [ServiceNext]_allVars PROVE ServiceInv' OBVIOUS
<1>1. CASE \E c \in Clients : ClientSteps(c)
  BY <1>1, SendKeeps, TimeOutKeeps, ReceiveKeeps DEF ClientSteps
<1>2. CASE ServerPoll BY <1>2, ServerPollKeeps
<1>3. CASE ChannelPolls BY <1>3, ChannelPollsKeeps
<1>4. CASE OperationFinishes BY <1>4, OperationFinishesKeeps
<1>5. CASE Crash BY <1>5, CrashKeeps
<1>6. CASE Restart BY <1>6, RestartKeeps
<1>7. CASE UNCHANGED allVars
  <2>1. ClientInv' /\ ChannelInv' /\ AuditInv'
    BY <1>7 DEF allVars, opsVars, serviceVars, ServiceInv, ClientInv, ChannelInv, AuditInv
  <2> QED BY <2>1 DEF ServiceInv
<1> QED BY <1>1, <1>2, <1>3, <1>4, <1>5, <1>6, <1>7 DEF ServiceNext

(* ServiceInv is an invariant. *)
LEMMA ServiceStaysConsistent == ServiceSpec => []ServiceInv
BY ServiceInvInit, ServiceInvNext, PTL DEF ServiceSpec

(* The exit code of sensor-operations is true: success, rejection and
   failure are on disk, success only with values in range, and no command
   of the client is malformed or of the wrong scope for the server. *)
THEOREM ExitsAreTrue == ServiceSpec => []ExitIsTruth
<1>1. ServiceInv => ExitIsTruth
  <2> SUFFICES ASSUME ServiceInv, NEW c \in Clients
               PROVE  /\ client[c].exit = "ok" => client[c].inRange /\ Happened(client[c].id, "Succeeded")
                      /\ client[c].exit \in {"Rejected", "Failed"} => Happened(client[c].id, client[c].exit)
                      /\ client[c].exit \notin {"invalid_request", "WrongTargetScope", "OperationIdConflict"}
    BY DEF ExitIsTruth
  <2>1. Told(client[c], file) /\ client[c].exit \in Exits
    BY DEF ServiceInv, ClientInv, ClientStates
  <2> QED BY <2>1 DEF Told, HappenedIn, Happened, Exits, Reasons
<1> QED BY <1>1, ServiceStaysConsistent, PTL

(* However an append failed or was cut short, the next process accepts the
   audit, and what was started has its start on disk. *)
THEOREM AuditReopensAlways == ServiceSpec => []AuditReopens
<1>1. ServiceInv => AuditReopens
  BY DEF ServiceInv, AuditInv, AuditReopens, HappenedIn, Happened
<1> QED BY <1>1, ServiceStaysConsistent, PTL
------------------------
(* An operation is started once.  The ledger forgets finished operations
   to make room, and an id it forgot is new to it again, so this holds of
   the ids it has room for. *)

(* A ledger with room for every id has room for one it does not know. *)
LEMMA RoomForUnknown ==
  ASSUME IsFiniteSet(Ids), Cardinality(Ids) <= LedgerCapacity,
         NEW cl, Book(cl, ledger), NEW id \in Ids, ~Known(id)
  PROVE  Len(ledger) < LedgerCapacity
<1>1. PICK n \in Nat : n = Len(ledger) /\ DOMAIN ledger = 1 .. n BY DEF Book
<1>2. PICK cap \in Nat : cap = LedgerCapacity BY OperationsAssumption
<1> DEFINE Others == Ids \ {id}
           places == [i \in 1 .. n |-> ledger[i].id]
<1>3. IsFiniteSet(Others) /\ Cardinality(Others) = Cardinality(Ids) - 1
  BY FS_RemoveElement
<1>4. PICK k, m \in Nat : k = Cardinality(Ids) /\ m = Cardinality(Others)
  BY <1>3, FS_CardinalityType
<1>5. m = k - 1 /\ k <= cap BY <1>2, <1>3, <1>4
<1>6. IsFiniteSet(1 .. n) /\ Cardinality(1 .. n) = n
  <2>1. 1 \in Int /\ n \in Int OBVIOUS
  <2>2. IsFiniteSet(1 .. n) /\ Cardinality(1 .. n) = IF 1 > n THEN 0 ELSE n - 1 + 1
    BY <2>1, FS_Interval
  <2>3. (IF 1 > n THEN 0 ELSE n - 1 + 1) = n OBVIOUS
  <2> QED BY <2>2, <2>3
<1>7. places \in [1 .. n -> Others]
  <2>1. \A i \in 1 .. n : ledger[i] \in Records /\ ledger[i].id # id
    BY <1>1 DEF Book, Known
  <2> QED BY <2>1 DEF Records
<1>8. \A i, j \in 1 .. n : places[i] = places[j] => i = j BY <1>1 DEF Book
<1> HIDE DEF Others, places
<1>9. ~(Cardinality(Others) < Cardinality(1 .. n))
  BY <1>3, <1>6, <1>7, <1>8, FS_PigeonHole
<1>10. ~(m < n) BY <1>4, <1>6, <1>9
<1>11. n < cap BY <1>1, <1>2, <1>4, <1>5, <1>10
<1> QED BY <1>1, <1>2, <1>11

(* Nothing that was started is forgotten. *)
LEMMA RememberedNext ==
  ASSUME IsFiniteSet(Ids), Cardinality(Ids) <= LedgerCapacity,
         ServiceInv, Remembered, [ServiceNext]_allVars
  PROVE  Remembered'
<1>1. /\ started \in [Ids -> Nat]
      /\ \A id \in Ids : started[id] <= 1 /\ (task = "running" /\ started[id] = 1 => Known(id))
  BY DEF ServiceInv, AuditInv, Remembered
<1>2. CASE UNCHANGED <<started, ledger, task>> BY <1>1, <1>2 DEF Remembered, Known
<1>3. CASE ChannelPolls
  <2>1. PICK r : r = Head(inbox) OBVIOUS
  <2>2. /\ process = "up" /\ task = "running" /\ publish /\ UNCHANGED client
        /\ \/ PollExisting(r) \/ PollError(r) \/ PollRejected(r) \/ PollStarted(r)
        /\ IF audit' = audit /\ task' # "AuditUnavailable" THEN UNCHANGED <<file, sequence>> ELSE append_record(r.id)
        /\ started' = IF active' # active THEN [started EXCEPT ![active'.id] = @ + 1] ELSE started
    BY <1>3, <2>1 DEF ChannelPolls, PollCommand, PollNothing
  <2>3. r \in Requests /\ Sound(client, r.id, r.kind) /\ r.id \in Ids
    <3>1. inbox \in Seq(Requests) /\ \A i \in DOMAIN inbox : Sound(client, inbox[i].id, inbox[i].kind)
      BY DEF ServiceInv, ChannelInv
    <3>2. inbox # <<>> BY <1>3 DEF ChannelPolls
    <3>3. r \in Requests /\ Sound(client, r.id, r.kind) BY <2>1, <3>1, <3>2, InboxTail
    <3> QED BY <3>3 DEF Requests
  <2>4. CASE PollExisting(r)
    <3>1. UNCHANGED <<started, ledger, task>> BY <2>2, <2>4 DEF PollExisting
    <3> QED BY <1>2, <3>1
  <2>5. CASE PollError(r)
    <3>1. started' = started /\ task' # "running" BY <2>2, <2>5 DEF PollError
    <3> QED BY <1>1, <3>1 DEF Remembered
  <2>6. ASSUME NEW phase \in OpPhases, ~Known(r.id), ~LedgerFull,
               Audited(Register(r), r.id, <<"Accepted">>, <<phase>>),
               active' = active \/ active' = r
        PROVE  Remembered'
    <3>1. task' = "running" =>
            /\ \E i \in DOMAIN ledger' : ledger'[i].id = r.id /\ ledger'[i].phase = phase
            /\ Len(ledger) < LedgerCapacity =>
                 \A id \in Ids : Known(id) => \E i \in DOMAIN ledger' : ledger'[i].id = id
      BY <2>2, <2>3, <2>6, RequestRecorded
    <3>2. Len(ledger) < LedgerCapacity
      <4>1. PICK cl : cl = client OBVIOUS
      <4>2. Book(cl, ledger) BY <4>1 DEF ServiceInv, ChannelInv
      <4> QED BY <2>3, <2>6, <4>2, RoomForUnknown
    <3>3. started[r.id] = 0 BY <1>1, <2>2, <2>3, <2>6
    <3>4. \A id \in Ids : started'[id] = started[id] \/ (id = r.id /\ started'[id] = 1)
      <4>1. started' = started \/ started' = [started EXCEPT ![r.id] = @ + 1]
        BY <2>2, <2>6
      <4> QED BY <1>1, <2>3, <3>3, <4>1
    <3>5. ASSUME NEW id \in Ids
          PROVE  started'[id] <= 1 /\ (task' = "running" /\ started'[id] = 1 => Known(id)')
      <4>1. started'[id] <= 1 BY <1>1, <3>4
      <4>2. ASSUME task' = "running", started'[id] = 1 PROVE \E i \in DOMAIN ledger' : ledger'[i].id = id
        <5>1. CASE id = r.id BY <3>1, <4>2, <5>1
        <5>2. CASE id # r.id
          <6>1. Known(id) BY <1>1, <2>2, <3>4, <4>2, <5>2
          <6> QED BY <3>1, <3>2, <4>2, <6>1
        <5> QED BY <5>1, <5>2
      <4> QED BY <4>1, <4>2 DEF Known
    <3> QED BY <3>5 DEF Remembered
  <2>7. CASE PollRejected(r)
    <3>1. "Rejected" \in OpPhases BY DEF OpPhases, Terminal
    <3> QED BY <2>6, <2>7, <3>1 DEF PollRejected
  <2>8. CASE PollStarted(r)
    <3>1. r.kind # "ReadStatus" BY <2>3, ServiceAssumption DEF Requests, CommandKinds
    <3>2. "Running" \in OpPhases BY DEF OpPhases
    <3>3. /\ ~Known(r.id) /\ ~LedgerFull
          /\ Audited(Register(r), r.id, <<"Accepted">>, <<"Running">>)
          /\ active' = active \/ active' = r
      BY <2>8, <3>1 DEF PollStarted
    <3> QED BY <2>6, <3>2, <3>3
  <2> QED BY <2>2, <2>4, <2>5, <2>7, <2>8
<1>4. CASE OperationFinishes
  <2>1. PICK id \in Ids, phase \in OpPhases : Audited(ledger, id, <<>>, <<phase>>)
    BY <1>4 DEF OperationFinishes, EndActive, ServiceInv, ChannelInv, Requests, OpPhases, Terminal
  <2>2. started' = started /\ task = "running" BY <1>4 DEF OperationFinishes
  <2>3. ASSUME task' = "running"
        PROVE  \A i \in Ids : Known(i) => Known(i)'
    <3>1. ledger' = SetPhase(ledger, id, Last(<<phase>>)) BY <2>1, <2>3 DEF Audited
    <3>2. Last(<<phase>>) = phase BY DEF Last
    <3>3. PICK cl, l : cl = client /\ l = ledger OBVIOUS
    <3>4. Book(cl, l) BY <3>3 DEF ServiceInv, ChannelInv
    <3>5. DOMAIN ledger' = DOMAIN l /\ \A i \in DOMAIN l : ledger'[i].id = l[i].id
      BY <3>1, <3>2, <3>3, <3>4, PhaseSet
    <3> QED BY <3>3, <3>5 DEF Known
  <2> QED BY <1>1, <2>2, <2>3 DEF Remembered
<1>5. CASE Restart
  <2>1. \A id \in Ids : started'[id] = 0 BY <1>5 DEF Restart
  <2> QED BY <2>1 DEF Remembered
<1>6. CASE (\E c \in Clients : ClientSteps(c)) \/ ServerPoll \/ Crash \/ UNCHANGED allVars
  <2>1. UNCHANGED <<started, ledger, task>>
    BY <1>6 DEF ClientSteps, Send, TimeOut, Receive, ServerPoll, Crash, allVars, opsVars, serviceVars
  <2> QED BY <1>2, <2>1
<1> QED BY <1>3, <1>4, <1>5, <1>6 DEF ServiceNext

(* The audit can always be opened and holds the start of what was started,
   and, as long as the ledger has room for the ids in use, no retry makes
   a process start an operation twice. *)
THEOREM AuditStaysSound ==
  ASSUME IsFiniteSet(Ids), Cardinality(Ids) <= LedgerCapacity
  PROVE  ServiceSpec => []AuditSound
<1>1. ServiceInit => Remembered BY DEF ServiceInit, OpsInit, Remembered
<1>2. ServiceInv /\ Remembered /\ [ServiceNext]_allVars => Remembered' BY RememberedNext
<1>3. ServiceInv /\ Remembered => AuditSound
  BY DEF ServiceInv, AuditInv, Remembered, AuditSound, AuditReopens, RetryStartsOnce, HappenedIn, Happened
<1> QED BY <1>1, <1>2, <1>3, ServiceStaysConsistent, PTL DEF ServiceSpec

------------------------
(* A node that has taken an address has it in its memory, in its flash and
   in its boot metadata until it boots; from then on it runs under it.  The
   memory and the flash of a node differ only after a rollback that failed.
   The bus holds at most the one frame of the attempt the worker waits for. *)

Attempts == {"ready", "awaiting", "reconcile"}
Assignable == Addresses \ Configured
Copies == Assignable \cup {0}     \* what a copy of the address may hold
ScanOps == [kind : {"scan"}, nonce : Nonces, next : Nat, found : SUBSET Hardware, attempt : Attempts, expired : BOOLEAN]
AssignOps == [kind : {"assign"}, hw : Hardware, address : Assignable, id : Nat, phase : {"Assigning", "Verifying"},
              attempt : Attempts, expired : BOOLEAN]
Probes == [kind : {"probe"}, nonce : Nonces, slot : Nat]
Assigns == [kind : {"assign"}, hw : Hardware, address : Assignable, id : Nat]
Handshakes == [kind : {"handshake"}, address : Assignable]
Codes == {"none", "active", "Assigned", "AlreadyAssigned", "StorageFailed", "BootMetadataFailed", "RollbackFailed"}
Results == [id : Nat, address : Copies, code : Codes]
Answers == [status : {"Ok", "InternalError", "Conflict", "Busy"}, hw : Hardware, address : Nat]
NodeStates == [address : Copies, current : Copies, stored : Copies, boot : Copies, spare : Copies,
               syncs : BOOLEAN, unsure : BOOLEAN, active : Results, cache : Results, armed : BOOLEAN]

(* Type correctness. *)
CommTypeOK ==
    /\ node \in [Hardware -> NodeStates]
    /\ op = NoOp \/ op \in ScanOps \/ op \in AssignOps
    /\ request = None \/ request \in Probes \/ request \in Assigns \/ request \in Handshakes
    /\ answer = Silent \/ answer \in Answers
    /\ ops \in Nat

(* The copies of one node's address agree. *)
CopiesAgree(n) ==
    /\ n.address # 0 \/ n.syncs => n.current = n.address
    /\ n.current # 0 => n.stored = n.current
    /\ n.stored # n.current => n.unsure
    /\ n.address = 0 /\ n.current # 0 => n.boot = n.current
    /\ n.active # NoResult => n.active.address # 0 /\ n.active.code = "active" /\ n.address = 0
    /\ n.cache.code \in {"Assigned", "AlreadyAssigned"} =>
          n.cache.address # 0 /\ n.current = n.cache.address /\ n.boot = n.cache.address

(* An operation id names one operation, at the node as at the host. *)
OpsKnown ==
    /\ \A h \in Hardware : node[h].active.id <= ops /\ node[h].cache.id <= ops
    /\ op.kind = "assign" =>
         /\ op.id \in 1 .. ops
         /\ \A h \in Hardware :
              /\ node[h].active.id = op.id => node[h].active.address = op.address
              /\ node[h].cache.id = op.id /\ node[h].cache.code = "Assigned" => node[h].cache.address = op.address

(* The frame on the bus is the one of the attempt the worker waits for. *)
BusMatchesAttempt ==
    /\ request # None => op.attempt = "awaiting" /\ answer = Silent
    /\ answer # Silent => op.attempt = "awaiting"
    /\ request.kind = "probe" => op.kind = "scan"
    /\ request.kind = "assign" =>
          /\ op.kind = "assign" /\ op.phase = "Assigning"
          /\ request.hw = op.hw /\ request.address = op.address /\ request.id = op.id
    /\ request.kind = "handshake" => op.kind = "assign" /\ op.phase = "Verifying" /\ op.address = request.address

(* What a handshake answered is still so. *)
AnswerIsReal ==
    op.kind = "assign" /\ op.phase = "Verifying" /\ answer # Silent => node[answer.hw].address = op.address

(* A node that said it is done has taken the address of this operation. *)
Taken(n, a) == n.current = a /\ n.stored = a /\ n.boot = a
PlacedIsTaken ==
    op.kind = "assign" /\ (op.phase = "Verifying" \/ answer.status = "Ok") => Taken(node[op.hw], op.address)

CommInv ==
    /\ CommTypeOK
    /\ \A h \in Hardware : CopiesAgree(node[h])
    /\ OpsKnown
    /\ BusMatchesAttempt
    /\ AnswerIsReal
    /\ PlacedIsTaken
------------------------
(* what a step of one node may make of it *)
NodeKept(n, m) ==
    /\ n.address # 0 => m.address = n.address
    /\ n.current # 0 => m.current = n.current /\ m.stored = n.stored /\ (n.boot = n.current => m.boot = n.boot)
    /\ m.address \notin Configured
    /\ n.address = 0 /\ m.address # 0 =>
          \/ n.current = m.address
          \/ n.active.code = "active" /\ n.active.address = m.address
          \/ n.unsure

(* what a step of a node alone may make of its results *)
ResultsFrom(n, m) ==
    /\ m.active \in {n.active, NoResult}
    /\ m.cache.id \in {n.cache.id, n.active.id, 0}
    /\ m.cache.code = "Assigned" =>
          m.cache = n.cache \/ (m.cache.id = n.active.id /\ m.cache.address = n.active.address)

(* The addresses a node can be given. *)
LEMMA AssignableFacts == Assignable \subseteq Nat /\ 0 \notin Assignable /\ Assignable \cap Configured = {} /\ 0 \notin Configured
                         /\ Copies = Assignable \cup {0} /\ 0 \in Copies /\ Assignable \subseteq Copies
  BY CommissioningAssumption DEF Assignable, Copies

(* The bus before the first operation. *)
LEMMA InitInv == CommInit => CommInv
<1> SUFFICES ASSUME CommInit PROVE CommInv OBVIOUS
<1>1. CommTypeOK
  <2>1. NoResult \in Results BY AssignableFacts DEF NoResult, Results, Codes
  <2>2. node \in [Hardware -> NodeStates]
    BY <2>1, AssignableFacts DEF CommInit, NodeStates
  <2> QED BY <2>2 DEF CommInit, CommTypeOK
<1>2. \A h \in Hardware : CopiesAgree(node[h]) BY DEF CommInit, CopiesAgree, NoResult
<1>3. BusMatchesAttempt BY DEF CommInit, BusMatchesAttempt, None, Silent, NoOp
<1>4. AnswerIsReal BY DEF CommInit, AnswerIsReal
<1>5. OpsKnown /\ PlacedIsTaken BY DEF CommInit, OpsKnown, PlacedIsTaken, NoResult, NoOp
<1> QED BY <1>1, <1>2, <1>3, <1>4, <1>5 DEF CommInv

(* A sync touches nothing but the two copies of the boot metadata. *)
LEMMA SyncFacts ==
  ASSUME NEW n \in NodeStates, NEW a \in Copies, NEW m \in {SyncOk(n, a)} \cup SyncFails(n, a)
  PROVE  /\ m \in NodeStates /\ m.address = n.address /\ m.current = n.current /\ m.stored = n.stored
         /\ m.syncs = n.syncs /\ m.unsure = n.unsure /\ m.active = n.active /\ m.cache = n.cache
         /\ m.armed = n.armed
         /\ n.boot = a => m.boot = a
<1>1. CASE m = SyncOk(n, a) BY <1>1 DEF SyncOk, Metadata, NodeStates
<1>2. CASE m \in SyncFails(n, a)
  <2>1. n.boot \in Copies /\ n.spare \in Copies /\ 0 \in Copies
    BY AssignableFacts DEF NodeStates
  <2>2. n.boot # a /\ \E b \in Copies, c \in Copies : m = Metadata(n, b, c)
    BY <1>2, <2>1 DEF SyncFails
  <2>3. ASSUME NEW b \in Copies, NEW c \in Copies, m = Metadata(n, b, c)
        PROVE  /\ m \in NodeStates /\ m.address = n.address /\ m.current = n.current /\ m.stored = n.stored
               /\ m.syncs = n.syncs /\ m.unsure = n.unsure /\ m.active = n.active /\ m.cache = n.cache
               /\ m.armed = n.armed
    BY <2>3 DEF Metadata, NodeStates
  <2> QED BY <2>2, <2>3
<1> QED BY <1>1, <1>2

LEMMA SyncOkBoot == \A n \in NodeStates, a \in Copies : SyncOk(n, a).boot = a
  BY DEF SyncOk, Metadata, NodeStates

(* What the node answers, and keeps of an assignment. *)
DoneAs(w, m, code, address) ==
  /\ w \in NodeStates /\ w.address = m.address /\ w.current = address /\ w.stored = m.stored
  /\ w.boot = m.boot /\ w.syncs = m.syncs /\ w.active = NoResult
  /\ w.cache.id = m.active.id /\ w.cache.code = code /\ w.cache.address = address

LEMMA DoneFields ==
  ASSUME NEW m \in NodeStates, NEW code \in Codes, NEW address \in Copies, NEW w, w = Done(m, code, address)
  PROVE  DoneAs(w, m, code, address)
<1> DEFINE r == [m.active EXCEPT !.code = code, !.address = address]
           u == m.unsure \/ code = "RollbackFailed"
<1>1. r \in Results /\ r.id = m.active.id /\ r.code = code /\ r.address = address
  BY DEF NodeStates, Results
<1>2. NoResult \in Results BY AssignableFacts DEF NoResult, Results, Codes
<1>3. w = [m EXCEPT !.current = address, !.active = NoResult, !.unsure = u, !.cache = r]
  BY DEF Done
<1>4. u \in BOOLEAN OBVIOUS
<1> HIDE DEF r, u
<1> QED BY <1>1, <1>2, <1>3, <1>4 DEF NodeStates, DoneAs

LEMMA DoneUnsure ==
  ASSUME NEW m \in NodeStates, NEW code \in Codes, NEW address \in Copies, NEW w, w = Done(m, code, address),
         m.unsure \/ code = "RollbackFailed"
  PROVE  w.unsure
  BY DEF Done, NodeStates

(* Where the writes of an assignment may end: with the address taken, or with
   none, and then either nothing is stored that was not before, or the node
   says that its rollback failed. *)
LEMMA HandleEnds ==
  ASSUME NEW n \in NodeStates, CopiesAgree(n), n.active # NoResult, n.current = 0, NEW w \in runtime_handle(n)
  PROVE  \E m \in NodeStates, code \in Codes :
           /\ m.address = n.address /\ m.syncs = n.syncs /\ m.unsure = n.unsure /\ m.active = n.active
           /\ m.stored \in {n.stored, n.active.address, 0}
           /\ \/ code = "Assigned" /\ m.stored = n.active.address /\ m.boot = n.active.address
                 /\ w = Done(m, code, n.active.address)
              \/ code \notin {"Assigned", "AlreadyAssigned"}
                 /\ (code = "RollbackFailed" \/ m.stored \in {0, n.stored})
                 /\ w = Done(m, code, 0)
<1> DEFINE a == n.active.address
           Alike(m) == /\ m \in NodeStates /\ m.address = n.address /\ m.syncs = n.syncs
                       /\ m.unsure = n.unsure /\ m.active = n.active
           unsynced == SyncFails(Saved(n, a), a)
           restored == {Saved(m, 0) : m \in unsynced}
<1>1. a \in Copies /\ 0 \in Copies /\ {"StorageFailed", "Assigned", "BootMetadataFailed", "RollbackFailed"} \subseteq Codes
  BY AssignableFacts DEF NodeStates, Results, Codes
<1>2. ASSUME NEW m, Alike(m), NEW x \in Copies PROVE Alike(Saved(m, x)) /\ Saved(m, x).stored = x
  BY <1>2 DEF Saved, NodeStates
<1>3. \/ w = Done(n, "StorageFailed", 0)
      \/ w = Done(SyncOk(Saved(n, a), a), "Assigned", a)
      \/ \E r \in restored : w = Done(SyncOk(r, 0), "BootMetadataFailed", 0)
      \/ \E m \in unsynced : w = Done(m, "RollbackFailed", 0)
      \/ \E r \in restored : \E m \in SyncFails(r, 0) : w = Done(m, "RollbackFailed", 0)
  BY DEF runtime_handle
<1>4. Alike(n) OBVIOUS
<1>5. Alike(Saved(n, a)) /\ Saved(n, a).stored = a BY <1>1, <1>2, <1>4
<1> HIDE DEF a
<1>6. \A m \in {SyncOk(Saved(n, a), a)} \cup unsynced : Alike(m) /\ m.stored = a
  BY <1>1, <1>5, SyncFacts
<1>7. \A r \in restored : Alike(r) /\ r.stored = 0 BY <1>1, <1>2, <1>6
<1>8. \A r \in restored : \A m \in {SyncOk(r, 0)} \cup SyncFails(r, 0) : Alike(m) /\ m.stored = 0
  BY <1>1, <1>7, SyncFacts
<1>9. SyncOk(Saved(n, a), a).boot = a BY <1>1, <1>5, SyncOkBoot
<1> HIDE DEF restored, unsynced
<1>10. CASE w = Done(n, "StorageFailed", 0) BY <1>1, <1>10
<1>11. CASE w = Done(SyncOk(Saved(n, a), a), "Assigned", a)
  BY <1>1, <1>6, <1>9, <1>11 DEF a
<1>12. CASE \E r \in restored : w = Done(SyncOk(r, 0), "BootMetadataFailed", 0)
  BY <1>1, <1>8, <1>12
<1>13. CASE \E m \in unsynced : w = Done(m, "RollbackFailed", 0)
  BY <1>1, <1>6, <1>13 DEF a
<1>14. CASE \E r \in restored : \E m \in SyncFails(r, 0) : w = Done(m, "RollbackFailed", 0)
  BY <1>1, <1>8, <1>14
<1> QED BY <1>3, <1>10, <1>11, <1>12, <1>13, <1>14

(* CommissioningRuntime::handle keeps the copies in agreement, however its writes end. *)
LEMMA HandleStep ==
  ASSUME NEW n \in NodeStates, CopiesAgree(n), n.active # NoResult, NEW w \in runtime_handle(n)
  PROVE  /\ w \in NodeStates /\ w.syncs = n.syncs /\ (~n.syncs => CopiesAgree(w)) /\ NodeKept(n, w) /\ ResultsFrom(n, w)
         /\ w.address = n.address
         /\ n.current # 0 => w.stored = n.stored /\ w.boot = n.boot
         /\ w.stored \in {n.stored, n.active.address, 0}
<1>1. /\ n.active.address \in Assignable /\ n.active.address \in Copies /\ 0 \in Copies
      /\ n.current \in Copies /\ n.stored \in Copies /\ n.boot \in Copies /\ n.address = 0
      /\ n.active.code = "active" /\ n.active.address # 0
  BY AssignableFacts DEF NodeStates, Results, CopiesAgree
<1>2. CASE n.current # 0
  <2>1. w = Done(n, "AlreadyAssigned", n.current) /\ "AlreadyAssigned" \in Codes
    BY <1>2 DEF runtime_handle, Codes
  <2>2. DoneAs(w, n, "AlreadyAssigned", n.current) BY <1>1, <2>1, DoneFields
  <2>3. n.stored = n.current /\ n.boot = n.current BY <1>1, <1>2 DEF CopiesAgree
  <2> QED BY <1>1, <1>2, <2>2, <2>3, AssignableFacts DEF DoneAs, CopiesAgree, NodeKept, ResultsFrom
<1>3. CASE n.current = 0
  <2>1. PICK m \in NodeStates, code \in Codes :
           /\ m.address = n.address /\ m.syncs = n.syncs /\ m.unsure = n.unsure /\ m.active = n.active
           /\ m.stored \in {n.stored, n.active.address, 0}
           /\ \/ code = "Assigned" /\ m.stored = n.active.address /\ m.boot = n.active.address
                 /\ w = Done(m, code, n.active.address)
              \/ code \notin {"Assigned", "AlreadyAssigned"}
                 /\ (code = "RollbackFailed" \/ m.stored \in {0, n.stored})
                 /\ w = Done(m, code, 0)
    BY <1>3, HandleEnds
  <2>2. n.stored # 0 => n.unsure BY <1>3 DEF CopiesAgree
  <2>3. /\ m \in NodeStates /\ code \in Codes /\ m.stored \in {n.stored, n.active.address, 0}
        /\ m.address = n.address /\ m.syncs = n.syncs /\ m.unsure = n.unsure /\ m.active = n.active
    BY <2>1
  <2>4. CASE /\ code = "Assigned" /\ m.stored = n.active.address /\ m.boot = n.active.address
             /\ w = Done(m, code, n.active.address)
    <3>1. DoneAs(w, m, "Assigned", n.active.address) BY <1>1, <2>3, <2>4, DoneFields
    <3> QED BY <1>1, <1>3, <2>3, <2>4, <3>1, AssignableFacts DEF DoneAs, CopiesAgree, NodeKept, ResultsFrom
  <2>5. CASE /\ code \notin {"Assigned", "AlreadyAssigned"}
             /\ (code = "RollbackFailed" \/ m.stored \in {0, n.stored})
             /\ w = Done(m, code, 0)
    <3>1. DoneAs(w, m, code, 0) BY <1>1, <2>3, <2>5, DoneFields
    <3>2. w.stored # 0 => w.unsure
      BY <1>1, <2>3, <2>2, <2>5, <3>1, DoneUnsure DEF DoneAs
    <3> QED BY <1>1, <1>3, <2>3, <2>5, <3>1, <3>2, AssignableFacts DEF DoneAs, CopiesAgree, NodeKept, ResultsFrom
  <2> QED BY <2>1, <2>4, <2>5
<1> QED BY <1>2, <1>3

(* The sync of a boot. *)
LEMMA SyncStep ==
  ASSUME NEW n \in NodeStates, CopiesAgree(n), n.syncs, NEW w \in BootSyncs(n)
  PROVE  /\ w \in NodeStates /\ CopiesAgree(w) /\ NodeKept(n, w) /\ ResultsFrom(n, w)
         /\ w.address = n.address /\ w.current = n.current /\ w.stored = n.stored
         /\ n.boot = n.stored => w.boot = n.boot
<1>1. n.stored \in Copies /\ n.address \in Copies BY DEF NodeStates
<1>2. PICK m \in {SyncOk(n, n.stored)} \cup SyncFails(n, n.stored) : w = Synced(m)
  BY DEF BootSyncs
<1>3. /\ m \in NodeStates /\ m.address = n.address /\ m.current = n.current /\ m.stored = n.stored
      /\ m.unsure = n.unsure /\ m.active = n.active /\ m.cache = n.cache
      /\ n.boot = n.stored => m.boot = n.stored
  BY <1>1, SyncFacts
<1>4. /\ w \in NodeStates /\ w.address = n.address /\ w.current = n.current /\ w.stored = n.stored
      /\ w.unsure = n.unsure /\ w.active = n.active /\ w.cache = n.cache /\ w.boot = m.boot /\ ~w.syncs
  BY <1>2, <1>3 DEF NodeStates, Synced
<1>5. n.current = n.address /\ (n.current # 0 => n.stored = n.current)
  BY DEF CopiesAgree
<1>6. n.cache.code \in {"Assigned", "AlreadyAssigned"} => w.boot = n.boot
  BY <1>3, <1>4, <1>5 DEF CopiesAgree
<1>7. CopiesAgree(w) BY <1>4, <1>5, <1>6 DEF CopiesAgree
<1>8. NodeKept(n, w) BY <1>1, <1>3, <1>4, <1>5, AssignableFacts DEF NodeKept
<1>9. ResultsFrom(n, w) BY <1>4 DEF ResultsFrom
<1> QED BY <1>3, <1>4, <1>7, <1>8, <1>9

(* A boot, after a restart or after the power went. *)
LEMMA BootStep ==
  ASSUME NEW n \in NodeStates, CopiesAgree(n), NEW m \in NodeStates,
         m.stored \in {n.stored, n.active.address, 0},
         n.active = NoResult => m.stored = n.stored,
         n.current # 0 => m.stored = n.stored /\ (n.boot = n.stored => m.boot = n.boot)
  PROVE  Booted(m) \in NodeStates /\ CopiesAgree(Booted(m)) /\ NodeKept(n, Booted(m)) /\ ResultsFrom(n, Booted(m))
<1>1. NoResult \in Results BY AssignableFacts DEF NoResult, Results, Codes
<1>2. m.stored \in Copies /\ n.stored \in Copies BY DEF NodeStates
<1>3. /\ Booted(m) \in NodeStates /\ Booted(m).address = m.stored /\ Booted(m).current = m.stored
      /\ Booted(m).stored = m.stored /\ Booted(m).boot = m.boot
      /\ Booted(m).active = NoResult /\ Booted(m).cache = NoResult
  BY <1>1, <1>2 DEF Booted, NodeStates
<1>4. CopiesAgree(Booted(m)) /\ ResultsFrom(n, Booted(m))
  BY <1>3 DEF CopiesAgree, ResultsFrom, NoResult
<1>5. NodeKept(n, Booted(m)) BY <1>2, <1>3, AssignableFacts DEF NodeKept, CopiesAgree
<1> QED BY <1>3, <1>4, <1>5

(* A step of a node alone leaves the answer on its way true. *)
LEMMA NodeAlone ==
  ASSUME CommInv, NEW h \in Hardware, NEW m \in NodeStates, CopiesAgree(m), NodeKept(node[h], m),
         ResultsFrom(node[h], m), node' = [node EXCEPT ![h] = m], UNCHANGED <<op, request, answer, ops>>
  PROVE  CommInv' /\ (\A k \in Hardware : NodeKept(node[k], node'[k]))
<1> USE DEF CommInv
<1>0. \A k \in Hardware : node'[k] = IF k = h THEN m ELSE node[k] BY DEF CommTypeOK
<1>1. CommTypeOK' BY DEF CommTypeOK
<1>2. (\A k \in Hardware : CopiesAgree(node[k]))' BY <1>0
<1>3. \A k \in Hardware : NodeKept(node[k], node'[k])
  <2>1. \A k \in Hardware : node[k] \in NodeStates BY DEF CommTypeOK
  <2>2. \A k \in Hardware : NodeKept(node[k], node[k])
    BY <2>1, AssignableFacts DEF NodeKept, NodeStates
  <2> QED BY <1>0, <2>2
<1>4. BusMatchesAttempt' BY DEF BusMatchesAttempt
<1>5. op.kind = "assign" => op.address # 0 /\ op.hw \in Hardware /\ op.id \in Nat
  BY AssignableFacts DEF CommTypeOK, AssignOps, ScanOps, NoOp
<1>6. AnswerIsReal'
  <2> SUFFICES ASSUME op.kind = "assign", op.phase = "Verifying", answer # Silent
               PROVE  node'[answer.hw].address = op.address
    BY DEF AnswerIsReal
  <2>1. node[answer.hw].address = op.address BY DEF AnswerIsReal
  <2>2. answer.hw \in Hardware BY DEF CommTypeOK, Answers
  <2> QED BY <2>1, <2>2, <1>5, <1>3 DEF NodeKept
<1>7. PlacedIsTaken' BY <1>3, <1>5 DEF PlacedIsTaken, Taken, NodeKept
<1>8. OpsKnown'
  <2>1. node[h].active.id \in Nat /\ node[h].cache.id \in Nat /\ ops \in Nat
    BY DEF CommTypeOK, NodeStates, Results
  <2>2. m.active.id <= ops /\ m.cache.id <= ops
    BY <2>1 DEF OpsKnown, ResultsFrom, NoResult
  <2>3. op.kind = "assign" =>
          /\ m.active.id = op.id => m.active.address = op.address
          /\ m.cache.id = op.id /\ m.cache.code = "Assigned" => m.cache.address = op.address
    BY <1>5 DEF OpsKnown, ResultsFrom, NoResult
  <2> QED BY <1>0, <2>2, <2>3 DEF OpsKnown
<1> QED BY <1>1, <1>2, <1>3, <1>4, <1>6, <1>7, <1>8

(* The operation of the worker goes on under its id and its address, or ends, or a new one
   begins under an id no node has heard. *)
LEMMA HostOps ==
  ASSUME CommInv,
         \/ \E nonce \in Nonces : StartScan(nonce) \/ \E h \in Hardware, a \in Addresses : StartAssign(nonce, h, a)
         \/ begin_attempt \/ ScanComplete \/ mark_timeout \/ mark_transmit_failed \/ accept_response \/ Deadline
  PROVE  OpsKnown' /\ PlacedIsTaken'
<1> USE DEF CommInv
<1> DEFINE Goes == /\ op.kind = "assign" /\ op'.kind = "assign" /\ ops' = ops
                   /\ op'.id = op.id /\ op'.address = op.address /\ op'.hw = op.hw
                   /\ answer' \in {answer, Silent}
                   /\ \/ op'.phase = op.phase
                      \/ op.phase = "Assigning" /\ answer.status = "Ok"
           Ends == op'.kind # "assign" /\ ops' \in {ops, ops + 1}
           Begins == /\ op'.kind = "assign" /\ op'.id = ops' /\ ops' = ops + 1 /\ op'.phase = "Assigning"
                     /\ answer' = Silent
<1>0. UNCHANGED node
  BY DEF StartScan, StartAssign, begin_attempt, ScanComplete, mark_timeout, mark_transmit_failed, accept_response, Deadline
<1>1. ops \in Nat /\ \A h \in Hardware : node[h].active.id \in Nat /\ node[h].cache.id \in Nat
  BY DEF CommTypeOK, NodeStates, Results
<1>2. op = NoOp \/ op \in ScanOps \/ op \in AssignOps BY DEF CommTypeOK
<1>3. ASSUME NEW nonce \in Nonces, StartScan(nonce) PROVE Ends BY <1>3 DEF StartScan
<1>4. ASSUME NEW nonce \in Nonces, NEW h \in Hardware, NEW a \in Addresses, StartAssign(nonce, h, a)
      PROVE  Ends \/ Begins
  <2>1. ops' = ops + 1 /\ answer' = Silent
    BY <1>4 DEF StartAssign, BusMatchesAttempt, NoOp
  <2>2. \/ op' = NoOp
        \/ op' = [kind |-> "assign", hw |-> h, address |-> a, id |-> ops', phase |-> "Assigning",
                  attempt |-> "ready", expired |-> FALSE]
    BY <1>4 DEF StartAssign, Ended
  <2> QED BY <2>1, <2>2 DEF NoOp
<1>5. ASSUME ScanComplete PROVE Ends BY <1>5 DEF ScanComplete, Ended, NoOp
<1>6. ASSUME begin_attempt \/ mark_timeout \/ mark_transmit_failed \/ Deadline PROVE Ends \/ Goes
  <2>0. op # NoOp /\ ops' = ops /\ answer' \in {answer, Silent}
    BY <1>6 DEF begin_attempt, mark_timeout, mark_transmit_failed, Deadline, NoOp
  <2>1. CASE op \in ScanOps
    <3>1. op.kind = "scan" BY <2>1 DEF ScanOps
    <3>2. \/ op' = NoOp
          \/ op' = [op EXCEPT !.attempt = "awaiting"]
          \/ op' = [op EXCEPT !.attempt = "ready", !.next = op.next + 1]
          \/ op' = [op EXCEPT !.attempt = "ready"]
          \/ op' = [op EXCEPT !.expired = TRUE]
      BY <1>6, <3>1 DEF begin_attempt, mark_timeout, mark_transmit_failed, Deadline, Ended
    <3>3. CASE op' = NoOp BY <2>0, <3>3 DEF NoOp
    <3>4. CASE op' = [op EXCEPT !.attempt = "awaiting"] BY <2>0, <2>1, <3>4 DEF ScanOps
    <3>5. CASE op' = [op EXCEPT !.attempt = "ready", !.next = op.next + 1]
      BY <2>0, <2>1, <3>5 DEF ScanOps
    <3>6. CASE op' = [op EXCEPT !.attempt = "ready"] BY <2>0, <2>1, <3>6 DEF ScanOps
    <3>7. CASE op' = [op EXCEPT !.expired = TRUE] BY <2>0, <2>1, <3>7 DEF ScanOps
    <3> QED BY <3>2, <3>3, <3>4, <3>5, <3>6, <3>7
  <2>2. CASE op \in AssignOps
    <3>1. op.kind = "assign" BY <2>2 DEF AssignOps
    <3>2. \/ op' = NoOp
          \/ op' = [op EXCEPT !.attempt = "awaiting"]
          \/ op' = [op EXCEPT !.attempt = "reconcile"]
          \/ op' = [op EXCEPT !.expired = TRUE]
      BY <1>6, <3>1 DEF begin_attempt, mark_timeout, mark_transmit_failed, Deadline, Ended
    <3>3. op' = NoOp \/ Goes BY <2>0, <2>2, <3>1, <3>2 DEF AssignOps
    <3> QED BY <2>0, <3>3 DEF NoOp
  <2> QED BY <1>2, <2>0, <2>1, <2>2
<1>7. ASSUME accept_response PROVE Ends \/ Goes
  <2>0. ops' = ops /\ answer' = Silent BY <1>7 DEF accept_response
  <2>1. CASE op \in ScanOps
    <3>1. op.kind = "scan" BY <2>1 DEF ScanOps
    <3>2. op' = [op EXCEPT !.attempt = "ready", !.next = op.next + 1, !.found = op.found \cup {answer.hw}]
      BY <1>7, <3>1 DEF accept_response
    <3>3. op'.kind # "assign" BY <2>1, <3>2 DEF ScanOps
    <3> QED BY <2>0, <3>3
  <2>2. CASE op \in AssignOps
    <3>1. op.kind = "assign" BY <2>2 DEF AssignOps
    <3>2. \/ op' = [op EXCEPT !.attempt = "reconcile"]
          \/ op' = [op EXCEPT !.attempt = "ready", !.phase = "Verifying"] /\ answer.status = "Ok" /\ op.phase = "Assigning"
          \/ op' = NoOp
          \/ op' = op
      BY <1>7, <3>1 DEF accept_response
    <3>3. op' = NoOp \/ Goes BY <2>0, <2>2, <3>1, <3>2 DEF AssignOps
    <3> QED BY <2>0, <3>3 DEF NoOp
  <2> QED BY <1>2, <1>7, <2>1, <2>2 DEF accept_response, NoOp
<1>8. Ends \/ Goes \/ Begins BY <1>3, <1>4, <1>5, <1>6, <1>7
<1> HIDE DEF Ends, Goes, Begins
<1>9. CASE Ends BY <1>0, <1>1, <1>9 DEF Ends, OpsKnown, PlacedIsTaken
<1>10. CASE Goes
  <2>1. OpsKnown' BY <1>0, <1>10 DEF Goes, OpsKnown
  <2>2. PlacedIsTaken'
    <3> SUFFICES ASSUME op'.phase = "Verifying" \/ answer'.status = "Ok"
                 PROVE  Taken(node[op.hw], op.address)
      BY <1>0, <1>10 DEF Goes, PlacedIsTaken, Taken
    <3>1. op.phase = "Verifying" \/ answer.status = "Ok" BY <1>10 DEF Goes, Silent
    <3> QED BY <3>1, <1>10 DEF Goes, PlacedIsTaken
  <2> QED BY <2>1, <2>2
<1>11. CASE Begins
  <2>1. \A h \in Hardware : node[h].active.id <= ops /\ node[h].cache.id <= ops
    BY DEF OpsKnown
  <2>2. OpsKnown' BY <1>0, <1>1, <1>11, <2>1 DEF Begins, OpsKnown
  <2>3. PlacedIsTaken' BY <1>11 DEF Begins, PlacedIsTaken, Silent
  <2> QED BY <2>2, <2>3
<1> QED BY <1>8, <1>9, <1>10, <1>11

(* What the worker does; no step of it touches a node. *)
LEMMA HostStep ==
  ASSUME CommInv,
         \/ \E nonce \in Nonces : StartScan(nonce) \/ \E h \in Hardware, a \in Addresses : StartAssign(nonce, h, a)
         \/ begin_attempt \/ ScanComplete \/ mark_timeout \/ mark_transmit_failed \/ accept_response \/ Deadline
  PROVE  CommInv'
<1> USE DEF CommInv
<1>0. UNCHANGED node
  BY DEF StartScan, StartAssign, begin_attempt, ScanComplete, mark_timeout, mark_transmit_failed, accept_response, Deadline
<1>1. (\A h \in Hardware : CopiesAgree(node[h]))' /\ OpsKnown' /\ PlacedIsTaken'
  BY <1>0, HostOps
<1> SUFFICES CommTypeOK' /\ BusMatchesAttempt' /\ AnswerIsReal' BY <1>1
<1>2. ASSUME NEW nonce \in Nonces, StartScan(nonce)
      PROVE  CommTypeOK' /\ BusMatchesAttempt' /\ AnswerIsReal'
  <2>1. op' \in ScanOps /\ op'.kind = "scan" /\ op.attempt = "ready"
    BY <1>2 DEF StartScan, ScanOps, Attempts, NoOp
  <2>2. request = None /\ answer = Silent /\ request' = None /\ answer' = Silent
    BY <1>2, <2>1 DEF StartScan, BusMatchesAttempt
  <2> QED BY <2>1, <2>2, <1>0, <1>2 DEF CommTypeOK, BusMatchesAttempt, AnswerIsReal, StartScan, None
<1>3. ASSUME NEW nonce \in Nonces, NEW h \in Hardware, NEW a \in Addresses, StartAssign(nonce, h, a)
      PROVE  CommTypeOK' /\ BusMatchesAttempt' /\ AnswerIsReal'
  <2>1. op.attempt = "ready" /\ ops' \in Nat BY <1>3 DEF StartAssign, NoOp, CommTypeOK
  <2>2. op' = NoOp \/ op' \in AssignOps
    <3>1. CASE op' = NoOp BY <3>1
    <3>2. CASE op' # NoOp
      <4>1. /\ a \in Assignable
            /\ op' = [kind |-> "assign", hw |-> h, address |-> a, id |-> ops', phase |-> "Assigning",
                      attempt |-> "ready", expired |-> FALSE]
        BY <1>3, <3>2 DEF StartAssign, Ended, Assignable
      <4> QED BY <4>1, <2>1 DEF AssignOps, Attempts
    <3> QED BY <3>1, <3>2
  <2>3. request = None /\ answer = Silent /\ request' = None /\ answer' = Silent
    BY <1>3, <2>1 DEF StartAssign, BusMatchesAttempt
  <2> QED BY <2>1, <2>2, <2>3, <1>0 DEF CommTypeOK, BusMatchesAttempt, AnswerIsReal, None
<1>4. ASSUME begin_attempt
      PROVE  CommTypeOK' /\ BusMatchesAttempt' /\ AnswerIsReal'
  <2>0. answer' = Silent /\ ops' = ops /\ op # NoOp BY <1>4 DEF begin_attempt
  <2>1. CASE op \in ScanOps
    <3>1. op.kind = "scan" /\ op' = [op EXCEPT !.attempt = "awaiting"]
          /\ request' = [kind |-> "probe", nonce |-> op.nonce, slot |-> op.next]
      BY <2>1, <1>4 DEF begin_attempt, ScanOps
    <3>2. op' \in ScanOps /\ op'.kind = "scan" /\ op'.attempt = "awaiting" /\ request' \in Probes /\ request'.kind = "probe"
      BY <3>1, <2>1 DEF ScanOps, Attempts, Probes
    <3> QED BY <3>2, <2>0, <1>0 DEF CommTypeOK, BusMatchesAttempt, AnswerIsReal
  <2>2. CASE op \in AssignOps /\ op.phase = "Assigning"
    <3>1. op.kind = "assign" /\ op' = [op EXCEPT !.attempt = "awaiting"]
          /\ request' = [kind |-> "assign", hw |-> op.hw, address |-> op.address, id |-> op.id]
      BY <2>2, <1>4 DEF begin_attempt, AssignOps
    <3>2. op' \in AssignOps /\ op'.attempt = "awaiting" /\ op'.phase = "Assigning" /\ op'.kind = "assign"
          /\ request' \in Assigns /\ request'.kind = "assign"
          /\ request'.hw = op'.hw /\ request'.address = op'.address /\ request'.id = op'.id
      BY <3>1, <2>2 DEF AssignOps, Attempts, Assigns
    <3> QED BY <3>2, <2>0, <1>0 DEF CommTypeOK, BusMatchesAttempt, AnswerIsReal
  <2>3. CASE op \in AssignOps /\ op.phase = "Verifying"
    <3>1. op.kind = "assign" /\ op' = [op EXCEPT !.attempt = "awaiting"]
          /\ request' = [kind |-> "handshake", address |-> op.address]
      BY <2>3, <1>4 DEF begin_attempt, AssignOps
    <3>2. op' \in AssignOps /\ op'.attempt = "awaiting" /\ op'.phase = "Verifying" /\ op'.kind = "assign"
          /\ op'.address = op.address
          /\ request' \in Handshakes /\ request'.kind = "handshake" /\ request'.address = op.address
      BY <3>1, <2>3 DEF AssignOps, Attempts, Handshakes
    <3> QED BY <3>2, <2>0, <1>0 DEF CommTypeOK, BusMatchesAttempt, AnswerIsReal
  <2> QED BY <2>0, <2>1, <2>2, <2>3 DEF CommTypeOK, AssignOps
<1>5. ASSUME ScanComplete
      PROVE  CommTypeOK' /\ BusMatchesAttempt' /\ AnswerIsReal'
  <2>1. op.attempt = "ready" /\ op' = NoOp /\ UNCHANGED <<request, answer, ops>>
    BY <1>5 DEF ScanComplete, Ended
  <2>2. request = None /\ answer = Silent BY <2>1 DEF BusMatchesAttempt
  <2> QED BY <2>1, <2>2, <1>0 DEF CommTypeOK, BusMatchesAttempt, AnswerIsReal, None
<1>6. ASSUME mark_timeout
      PROVE  CommTypeOK' /\ BusMatchesAttempt' /\ AnswerIsReal'
  <2>1. request' = None /\ answer = Silent /\ answer' = Silent /\ ops' = ops
    BY <1>6 DEF mark_timeout
  <2>2. op' \in ScanOps \/ op' \in AssignOps
    <3>1. CASE op \in ScanOps
      <4>1. op.kind = "scan" /\ op.next + 1 \in Nat BY <3>1 DEF ScanOps
      <4>2. op' = [op EXCEPT !.attempt = "ready", !.next = op.next + 1]
        BY <4>1, <1>6 DEF mark_timeout
      <4> QED BY <3>1, <4>1, <4>2 DEF ScanOps, Attempts
    <3>2. CASE op \in AssignOps BY <3>2, <1>6 DEF mark_timeout, AssignOps, Attempts
    <3> QED BY <3>1, <3>2, <1>6 DEF mark_timeout, CommTypeOK, NoOp
  <2> QED BY <2>1, <2>2, <1>0 DEF CommTypeOK, BusMatchesAttempt, AnswerIsReal, None
<1>7. ASSUME mark_transmit_failed
      PROVE  CommTypeOK' /\ BusMatchesAttempt' /\ AnswerIsReal'
  <2>1. request' = None /\ answer = Silent /\ answer' = Silent /\ ops' = ops
    BY <1>7 DEF mark_transmit_failed, BusMatchesAttempt
  <2>2. op' \in ScanOps \/ op' \in AssignOps
    <3>1. CASE op \in ScanOps BY <3>1, <1>7 DEF mark_transmit_failed, ScanOps, Attempts
    <3>2. CASE op \in AssignOps
      BY <3>2, <1>7 DEF mark_transmit_failed, AssignOps, Attempts
    <3> QED BY <3>1, <3>2, <1>7 DEF mark_transmit_failed, CommTypeOK, NoOp
  <2> QED BY <2>1, <2>2, <1>0 DEF CommTypeOK, BusMatchesAttempt, AnswerIsReal, None
<1>8. ASSUME accept_response
      PROVE  CommTypeOK' /\ BusMatchesAttempt' /\ AnswerIsReal'
  <2>1. request = None /\ request' = None /\ answer' = Silent /\ ops' = ops /\ answer \in Answers
    BY <1>8 DEF accept_response, BusMatchesAttempt, CommTypeOK
  <2>2. op' = NoOp \/ op' \in ScanOps \/ op' \in AssignOps
    <3>1. CASE op \in ScanOps
      <4>1. op.kind = "scan" /\ answer.hw \in Hardware /\ op.next + 1 \in Nat /\ op.found \cup {answer.hw} \in SUBSET Hardware
        BY <3>1, <2>1 DEF ScanOps, Answers
      <4>2. op' = [op EXCEPT !.attempt = "ready", !.next = @ + 1, !.found = @ \cup {answer.hw}]
        BY <4>1, <1>8 DEF accept_response
      <4> QED BY <3>1, <4>1, <4>2 DEF ScanOps, Attempts
    <3>2. CASE op \in AssignOps
      <4>1. op.kind = "assign" BY <3>2 DEF AssignOps
      <4>2. \/ op' = [op EXCEPT !.attempt = "reconcile"]
            \/ op' = [op EXCEPT !.attempt = "ready", !.phase = "Verifying"]
            \/ op' = NoOp
            \/ op' = op
        BY <4>1, <1>8 DEF accept_response
      <4> QED BY <3>2, <4>2 DEF AssignOps, Attempts
    <3> QED BY <3>1, <3>2, <1>8 DEF accept_response, CommTypeOK, NoOp
  <2> QED BY <2>1, <2>2, <1>0 DEF CommTypeOK, BusMatchesAttempt, AnswerIsReal, None
<1>9. ASSUME Deadline
      PROVE  CommTypeOK' /\ BusMatchesAttempt' /\ AnswerIsReal'
  <2>0. UNCHANGED <<request, answer, ops>> BY <1>9 DEF Deadline
  <2>1. CASE op.attempt = "awaiting"
    <3>1. op' = [op EXCEPT !.expired = TRUE] BY <2>1, <1>9 DEF Deadline
    <3>2. CASE op \in ScanOps
      <4>1. op' \in ScanOps /\ op'.attempt = op.attempt /\ op'.kind = "scan" /\ op.kind = "scan"
        BY <3>1, <3>2 DEF ScanOps
      <4> QED BY <4>1, <2>0, <1>0 DEF CommTypeOK, BusMatchesAttempt, AnswerIsReal
    <3>3. CASE op \in AssignOps
      <4>1. op' \in AssignOps /\ op'.attempt = op.attempt /\ op'.kind = op.kind /\ op'.phase = op.phase
            /\ op'.address = op.address /\ op'.hw = op.hw /\ op'.id = op.id
        BY <3>1, <3>3 DEF AssignOps
      <4> QED BY <4>1, <2>0, <1>0 DEF CommTypeOK, BusMatchesAttempt, AnswerIsReal
    <3> QED BY <3>2, <3>3, <1>9 DEF Deadline, CommTypeOK
  <2>2. CASE op.attempt # "awaiting"
    <3>1. op' = NoOp BY <2>2, <1>9 DEF Deadline, Ended
    <3>2. request = None /\ answer = Silent BY <2>2 DEF BusMatchesAttempt
    <3> QED BY <3>1, <3>2, <2>0, <1>0 DEF CommTypeOK, BusMatchesAttempt, AnswerIsReal, None
  <2> QED BY <2>1, <2>2
<1> QED BY <1>2, <1>3, <1>4, <1>5, <1>6, <1>7, <1>8, <1>9

(* What a node makes of a frame. *)
LEMMA HearStep ==
  ASSUME CommInv, HearAssign \/ HearProbe \/ HearHandshake
  PROVE  CommInv' /\ (\A h \in Hardware : NodeKept(node[h], node'[h]))
<1> USE DEF CommInv
<1>0. /\ request' = None /\ UNCHANGED <<op, ops>>
      /\ request # None /\ op.attempt = "awaiting" /\ answer = Silent
  BY DEF HearAssign, HearProbe, HearHandshake, None, BusMatchesAttempt
<1>1. (answer' = Silent \/ answer' \in Answers) => BusMatchesAttempt'
  BY <1>0 DEF BusMatchesAttempt, None
<1>2. UNCHANGED node => \A h \in Hardware : NodeKept(node[h], node'[h])
  BY AssignableFacts DEF NodeKept, CommTypeOK, NodeStates
<1>3. UNCHANGED node => OpsKnown' BY <1>0 DEF OpsKnown
<1>4. UNCHANGED node /\ answer'.status # "Ok" => PlacedIsTaken'
  BY <1>0 DEF PlacedIsTaken
<1>5. UNCHANGED node /\ (op.kind = "assign" => op.phase = "Verifying") => PlacedIsTaken'
  BY <1>0 DEF PlacedIsTaken
<1>6. ASSUME NEW S, NEW address \in Nat, AnswersAlone(S, address), S \subseteq Hardware
      PROVE  \/ answer' = Silent
             \/ answer' \in Answers /\ answer'.hw \in S
  <2>1. CASE Cardinality(S) = 1
    <3>1. S # {} BY <2>1, FS_EmptySet
    <3>2. (CHOOSE h \in S : TRUE) \in S BY <3>1
    <3>3. answer' \in {Silent, [status |-> "Ok", hw |-> CHOOSE h \in S : TRUE, address |-> address]}
      BY <1>6, <2>1 DEF AnswersAlone
    <3> QED BY <3>2, <3>3, <1>6 DEF Answers
  <2>2. CASE Cardinality(S) # 1 BY <1>6, <2>2 DEF AnswersAlone
  <2> QED BY <2>1, <2>2
<1>7. CASE HearProbe
  <2>1. answer' = Silent \/ answer' \in Answers
    <3> DEFINE S == {h \in Unassigned : slot[<<h, request.nonce>>] = request.slot}
    <3>1. AnswersAlone(S, 254) /\ S \subseteq Hardware /\ 254 \in Nat
      BY <1>7 DEF HearProbe, Unassigned
    <3> HIDE DEF S
    <3> QED BY <3>1, <1>6
  <2>2. UNCHANGED node /\ request \in Probes
    BY <1>7 DEF HearProbe, CommTypeOK, None, Assigns, Handshakes
  <2>3. op.kind = "scan" BY <1>7 DEF HearProbe, BusMatchesAttempt
  <2> QED BY <1>0, <1>1, <1>2, <1>3, <1>5, <2>1, <2>2, <2>3 DEF CommTypeOK, AnswerIsReal
<1>8. CASE HearHandshake
  <2>1. request \in Handshakes /\ op.address = request.address /\ request.address \in Nat /\ UNCHANGED node
    <3>1. request \in Handshakes
      BY <1>8 DEF HearHandshake, CommTypeOK, None, Assigns, Probes
    <3> QED BY <3>1, <1>8, AssignableFacts DEF HearHandshake, Handshakes, BusMatchesAttempt
  <2>2. op.phase = "Verifying" BY <1>8 DEF HearHandshake, BusMatchesAttempt
  <2>3. answer' = Silent \/ (answer' \in Answers /\ answer'.hw \in {h \in Hardware : node[h].address = request.address})
    BY <1>8, <1>6, <2>1 DEF HearHandshake
  <2> QED BY <1>0, <1>1, <1>2, <1>3, <1>5, <2>1, <2>3, <2>2 DEF CommTypeOK, AnswerIsReal
<1>9. CASE HearAssign
  <2>0. request \in Assigns /\ op.kind = "assign" /\ op.phase = "Assigning"
    BY <1>9, <1>0 DEF HearAssign, CommTypeOK, None, Probes, Handshakes, BusMatchesAttempt
  <2>1. AnswerIsReal' BY <2>0, <1>0 DEF AnswerIsReal
  <2>2. request.hw = op.hw /\ request.address = op.address /\ request.id = op.id
    BY <1>9 DEF HearAssign, BusMatchesAttempt
  <2>3. CASE UNCHANGED <<node, answer>>
    BY <2>3, <2>1, <1>0, <1>1, <1>2, <1>3, <1>4 DEF CommTypeOK, Silent
  <2>4. CASE ~ UNCHANGED <<node, answer>>
    <3> DEFINE h == request.hw
               n == node[h]
               r == [id |-> request.id, address |-> request.address, code |-> "active"]
               status == assign_status(h, request)
    <3>1. h \in Hardware /\ n \in NodeStates /\ CopiesAgree(n)
      BY <2>0 DEF Assigns, CommTypeOK
    <3>2. status \in {"Ok", "InternalError", "Conflict", "Busy"} BY DEF assign_status
    <3>3. answer' = Silent \/ (answer' \in Answers /\ answer'.status = status)
      BY <1>9, <2>4, <2>0, <3>1, <3>2, AssignableFacts DEF HearAssign, Answers, Assigns
    <3>4. h \in Unassigned BY <1>9, <2>4 DEF HearAssign
    <3>5. n.address = 0 BY <3>4 DEF Unassigned
    <3>6. PICK m : /\ node' = [node EXCEPT ![h] = m]
                   /\ m \in {[n EXCEPT !.armed = TRUE], [n EXCEPT !.active = r], n}
      BY <1>9, <2>4, <3>1 DEF HearAssign, CommTypeOK
    <3>7. r \in Results /\ r.address # 0 /\ r.code = "active" /\ r.id = op.id /\ r.address = op.address
      BY <2>0, <2>2, AssignableFacts DEF Assigns, Results, Codes
    <3>8. /\ m \in NodeStates /\ m.address = n.address /\ m.stored = n.stored /\ m.current = n.current /\ m.boot = n.boot
          /\ m.cache = n.cache /\ m.unsure = n.unsure /\ m.syncs = n.syncs
          /\ m.active \in {n.active, r} /\ n.address = 0
      BY <3>1, <3>6, <3>7, <3>5 DEF NodeStates
    <3>9. status = "Ok" => Taken(n, op.address)
      <4> SUFFICES ASSUME status = "Ok" PROVE Taken(n, op.address) OBVIOUS
      <4>1. n.cache.id = op.id /\ Succeeded(n.cache, op.address)
        BY <2>2 DEF assign_status
      <4>2. n.cache.address = op.address BY <4>1, <2>0, <3>1 DEF Succeeded, OpsKnown
      <4>3. n.current = n.cache.address /\ n.boot = n.cache.address /\ n.current # 0
        BY <4>1, <3>1 DEF Succeeded, CopiesAgree
      <4>4. n.stored = n.current BY <4>3, <3>1 DEF CopiesAgree
      <4> QED BY <4>2, <4>3, <4>4 DEF Taken
    <3> HIDE DEF r, n, h, status
    <3>10. CopiesAgree(m) /\ NodeKept(n, m)
      BY <3>1, <3>7, <3>8, AssignableFacts DEF CopiesAgree, NodeKept, NodeStates
    <3>11. \A k \in Hardware : node'[k] = IF k = h THEN m ELSE node[k]
      BY <3>6 DEF CommTypeOK
    <3>12. \A k \in Hardware : CopiesAgree(node'[k]) /\ NodeKept(node[k], node'[k])
      BY <3>10, <3>11, AssignableFacts DEF NodeKept, CommTypeOK, NodeStates, n
    <3>13. PlacedIsTaken'
      <4> SUFFICES ASSUME answer'.status = "Ok" PROVE Taken(node'[op.hw], op.address)
        BY <1>0, <2>0 DEF PlacedIsTaken
      <4>1. Taken(n, op.address) BY <3>3, <3>9 DEF Silent
      <4>2. Taken(m, op.address) BY <3>8, <4>1 DEF Taken
      <4> QED BY <4>2, <3>1, <3>11, <2>2 DEF h
    <3>14. OpsKnown'
      <4>1. op.id <= ops /\ op.id \in Nat BY <2>0, <1>0 DEF OpsKnown, CommTypeOK
      <4>2. /\ m.active.id <= ops /\ m.cache.id <= ops
            /\ m.active.id = op.id => m.active.address = op.address
            /\ m.cache.id = op.id /\ m.cache.code = "Assigned" => m.cache.address = op.address
        BY <2>0, <3>1, <3>7, <3>8, <4>1 DEF OpsKnown, n
      <4> QED BY <1>0, <3>11, <4>2 DEF OpsKnown
    <3> QED BY <3>3, <3>6, <3>8, <3>11, <3>12, <3>13, <3>14, <2>1, <1>0, <1>1 DEF CommTypeOK
  <2> QED BY <2>3, <2>4
<1> QED BY <1>7, <1>8, <1>9

(* A step keeps the invariant, and every node its address. *)
LEMMA StepKeeps == CommInv /\ [CommNext]_commVars => CommInv' /\ (\A h \in Hardware : NodeKept(node[h], node'[h]))
<1> SUFFICES ASSUME CommInv, [CommNext]_commVars
             PROVE  CommInv' /\ (\A h \in Hardware : NodeKept(node[h], node'[h]))
  OBVIOUS
<1> DEFINE Host == \/ \E nonce \in Nonces : StartScan(nonce) \/ \E h \in Hardware, a \in Addresses : StartAssign(nonce, h, a)
                   \/ begin_attempt \/ ScanComplete \/ mark_timeout \/ mark_transmit_failed \/ accept_response \/ Deadline
<1>0. UNCHANGED node => \A h \in Hardware : NodeKept(node[h], node'[h])
  BY AssignableFacts DEF NodeKept, CommInv, CommTypeOK, NodeStates
<1>1. CASE UNCHANGED commVars
  <2>1. UNCHANGED <<node, op, request, answer, ops>> BY <1>1 DEF commVars
  <2>2. CommInv'
    BY <2>1 DEF CommInv, CommTypeOK, CopiesAgree, OpsKnown, BusMatchesAttempt, AnswerIsReal,
                  PlacedIsTaken, Taken
  <2> QED BY <2>1, <2>2, <1>0
<1>2. CASE Host
  <2>1. UNCHANGED node
    BY <1>2 DEF StartScan, StartAssign, begin_attempt, ScanComplete, mark_timeout, mark_transmit_failed, accept_response,
                Deadline
  <2> QED BY <2>1, <1>0, <1>2, HostStep
<1>3. CASE HearAssign \/ HearProbe \/ HearHandshake BY <1>3, HearStep
<1>4. ASSUME NEW h \in Hardware, NodeExecutes(h) \/ NodeSyncs(h) \/ NodeRestarts(h) \/ PowerLoss(h)
      PROVE  CommInv' /\ (\A k \in Hardware : NodeKept(node[k], node'[k]))
  <2>1. node[h] \in NodeStates /\ CopiesAgree(node[h]) BY DEF CommInv, CommTypeOK
  <2>2. PICK m \in NodeStates : /\ CopiesAgree(m) /\ NodeKept(node[h], m) /\ ResultsFrom(node[h], m)
                                /\ node' = [node EXCEPT ![h] = m]
    <3>1. CASE NodeExecutes(h)
      <4>1. PICK m \in runtime_handle(node[h]) : node' = [node EXCEPT ![h] = m]
        BY <3>1 DEF NodeExecutes
      <4>2. node[h].active # NoResult /\ ~node[h].syncs BY <3>1 DEF NodeExecutes
      <4> QED BY <2>1, <4>1, <4>2, HandleStep
    <3>2. CASE NodeSyncs(h)
      <4>1. PICK m \in BootSyncs(node[h]) : node' = [node EXCEPT ![h] = m] /\ node[h].syncs
        BY <3>2 DEF NodeSyncs
      <4> QED BY <2>1, <4>1, SyncStep
    <3>3. CASE NodeRestarts(h)
      <4>1. node' = [node EXCEPT ![h] = Booted(node[h])] BY <3>3 DEF NodeRestarts
      <4> QED BY <2>1, <4>1, BootStep
    <3>4. CASE PowerLoss(h)
      <4>1. PICK n \in {node[h]} \cup (IF node[h].syncs THEN BootSyncs(node[h])
                                ELSE IF node[h].active # NoResult THEN runtime_handle(node[h]) ELSE {}) :
               node' = [node EXCEPT ![h] = Booted(n)]
        BY <3>4 DEF PowerLoss
      <4>2. CASE n = node[h] BY <2>1, <4>1, <4>2, BootStep
      <4>3. CASE node[h].syncs /\ n \in BootSyncs(node[h])
        <5>1. n \in NodeStates /\ n.stored = node[h].stored /\ (node[h].boot = node[h].stored => n.boot = node[h].boot)
          BY <2>1, <4>3, SyncStep
        <5> QED BY <2>1, <4>1, <5>1, BootStep
      <4>4. CASE node[h].active # NoResult /\ n \in runtime_handle(node[h])
        <5>1. /\ n \in NodeStates /\ n.stored \in {node[h].stored, node[h].active.address, 0}
              /\ node[h].current # 0 => n.stored = node[h].stored /\ n.boot = node[h].boot
          BY <2>1, <4>4, HandleStep
        <5> QED BY <2>1, <4>1, <4>4, <5>1, BootStep
      <4> QED BY <4>1, <4>2, <4>3, <4>4
    <3> QED BY <1>4, <3>1, <3>2, <3>3, <3>4
  <2>3. UNCHANGED <<op, request, answer, ops>>
    BY <1>4 DEF NodeExecutes, NodeSyncs, NodeRestarts, PowerLoss
  <2> QED BY <2>2, <2>3, NodeAlone
<1> HIDE DEF Host
<1>5. CommNext => \/ Host \/ HearAssign \/ HearProbe \/ HearHandshake
                  \/ \E h \in Hardware : NodeExecutes(h) \/ NodeSyncs(h) \/ NodeRestarts(h) \/ PowerLoss(h)
  BY DEF CommNext, Host
<1> QED BY <1>1, <1>2, <1>3, <1>4, <1>5

(* Only a verified answer is reported, and the node it names answered under the address. *)
LEMMA ReportIsReal ==
  ASSUME CommInv, [CommNext]_commVars, report' # report, report'.code \in Hardware
  PROVE  /\ node[report'.code].address = report'.address /\ node[report'.code].stored = report'.address
         /\ node[report'.code].boot = report'.address
<1>1. ~ \E code \in Outcomes : report'.code = code BY CommissioningAssumption
<1>2. accept_response
  <2>1. ASSUME NEW nonce \in Nonces PROVE ~ StartScan(nonce) BY DEF StartScan
  <2>2. ASSUME NEW nonce \in Nonces, NEW h \in Hardware, NEW a \in Addresses PROVE ~ StartAssign(nonce, h, a)
    BY <1>1 DEF StartAssign, Ended, Outcomes
  <2>3. ~ ScanComplete /\ ~ Deadline BY <1>1 DEF ScanComplete, Deadline, Ended, Outcomes
  <2>4. ~ (begin_attempt \/ mark_timeout \/ mark_transmit_failed \/ HearAssign \/ HearProbe \/ HearHandshake)
    BY DEF begin_attempt, mark_timeout, mark_transmit_failed, HearAssign, HearProbe, HearHandshake
  <2>5. ASSUME NEW h \in Hardware PROVE ~ (NodeExecutes(h) \/ NodeSyncs(h) \/ NodeRestarts(h) \/ PowerLoss(h))
    BY DEF NodeExecutes, NodeSyncs, NodeRestarts, PowerLoss
  <2>6. CommNext BY DEF commVars
  <2> QED BY <2>1, <2>2, <2>3, <2>4, <2>5, <2>6 DEF CommNext
<1>3. op \in AssignOps /\ op.kind = "assign" /\ answer \in Answers /\ answer # Silent
  BY <1>2 DEF accept_response, CommInv, CommTypeOK, NoOp, ScanOps, AssignOps
<1>4. op.phase = "Verifying" /\ answer.hw = op.hw /\ report' = [id |-> op.id, address |-> op.address, code |-> op.hw]
  BY <1>2, <1>3 DEF accept_response
<1>5. node[op.hw].address = op.address /\ op.hw \in Hardware /\ op.address # 0
  BY <1>3, <1>4, AssignableFacts DEF CommInv, AnswerIsReal, AssignOps
<1>6. Taken(node[op.hw], op.address) BY <1>3, <1>4 DEF CommInv, PlacedIsTaken
<1> QED BY <1>4, <1>5, <1>6 DEF Taken

(* The invariant holds in every reachable state of begin_commissioning,
   drive_commissioning, the node's handler and its restarts. *)
THEOREM CommissioningKeepsInv == CommSpec => []CommInv
<1>1. CommInv /\ [CommNext]_commVars => CommInv' BY StepKeeps
<1> QED BY <1>1, InitInv, PTL DEF CommSpec

(* The host reports an assignment (accept_response under Verifying) only for a node
   that runs under the address and has it stored twice; a node that has taken an
   address keeps it (CommissioningRuntime::handle, a boot); and a failure the node
   answered leaves it without one, unless its rollback failed. *)
THEOREM AssignmentsAreReal == CommSpec => AddressesSound
<1>1. CommInv /\ [CommNext]_commVars =>
        (report' # report /\ report'.code \in Hardware =>
         /\ node[report'.code].address = report'.address /\ node[report'.code].stored = report'.address
         /\ node[report'.code].boot = report'.address)
  BY ReportIsReal
<1>2. CommInv /\ [CommNext]_commVars =>
        /\ \A h \in Hardware :
             /\ node[h].address # 0 => node'[h].address = node[h].address
             /\ node[h].current # 0 => /\ node'[h].stored = node[h].stored
                                       /\ node[h].boot = node[h].current => node'[h].boot = node[h].boot
             /\ node'[h].address \notin Configured
        /\ \A h \in Hardware : node[h].address = 0 /\ node'[h].address # 0 =>
             \/ node[h].current = node'[h].address
             \/ node[h].active.code = "active" /\ node[h].active.address = node'[h].address
             \/ node[h].unsure
  BY StepKeeps DEF NodeKept
<1> QED BY <1>1, <1>2, CommissioningKeepsInv, PTL
        DEF CommSpec, AddressesSound, AssignedIsReal, AddressKept, FailureIsFinal
=============================================================================
