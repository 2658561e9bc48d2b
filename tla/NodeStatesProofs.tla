-------------------------- MODULE NodeStatesProofs --------------------------
(* The runtime of a node, for every queue, number of pending events and
   set of samples: what its sensor yields reaches the journal whole, and a
   stop ends with everything delivered.  And the group of nodes the host
   brings to a state, for every number of nodes, target, budget of
   attempts and number of reboots: a group reported complete is settled. *)
EXTENDS SensorStream, SafeState, SequenceTheorems, TLAPS

------------------------
(* The stream of core 0 and core 1. *)

Kinds == {"Sample", "Gap", "Break"}

Whats ==
  Samples \cup BreakReasons
    \cup {InvalidSample, Unknown, "SourceLoss", "IngressOverflow",
          "ProcessingReset"}

Events == [kind : Kinds, first : Nat, count : Nat \ {0}, what : Whats]

(* What the source gives a sequence; only a sample can be invalid. *)
Given ==
  {c \in [kind : {"Sample", "Break"}, what : Whats] :
     c.kind = "Break" => c.what # InvalidSample}

(* The events follow each other without a hole from sequence a on. *)
Follows(p, a) ==
  \A i \in 1..Len(p) : p[i].first = IF i = 1 THEN a ELSE event_end(p[i - 1])

EndOf(p, a) == IF p = <<>> THEN a ELSE event_end(p[Len(p)])

(* The event says of each of its sequences what the source gave it. *)
Told(e, given) ==
  /\ event_end(e) <= Len(given)
  /\ \A q \in e.first..(event_end(e) - 1) :
       Accounts(Content(e.kind, e.what), given[q + 1])

AllTold(p, given) == \A i \in 1..Len(p) : Told(p[i], given)

(* What core 1 has not read, and with it what core 0 holds back. *)
Unread == SubSeq(queue, IF appended THEN 2 ELSE 1, Len(queue))
Backlog == Unread \o in.pending

Ingresses == [next : Nat, pending : Seq(Events), faulted : BOOLEAN]

StreamTypes ==
  /\ in \in Ingresses
  /\ sink_faulted \in BOOLEAN
  /\ queue \in Seq(Events)
  /\ appended \in BOOLEAN /\ (appended => queue # <<>>)
  /\ journal \in Seq([kind : Kinds, what : Whats])
  /\ source \in Seq(Given)

(* A claimed event is the newest, and nothing has failed before it. *)
ClaimTold ==
  /\ pc.event \in Events /\ pc.event.kind # "Gap" /\ pc.event.count = 1
  /\ pc.event.first = EndOf(Backlog, Len(journal))
  /\ event_end(pc.event) = in.next
  /\ Told(pc.event, source)
  /\ ~in.faulted /\ ~sink_faulted
  /\ pc.back \in {"update", "finish", "finished", "configure"}

(* Otherwise every sequence is accounted for, but for the newest ones
   after a fault. *)
RestTold ==
  /\ EndOf(Backlog, Len(journal)) <= in.next
  /\ EndOf(Backlog, Len(journal)) < in.next => in.faulted

JournalTold ==
  /\ Len(journal) <= in.next
  /\ \A q \in 1..Len(journal) : Accounts(journal[q], source[q])

BacklogTold ==
  /\ Len(source) = in.next
  /\ Follows(Backlog, Len(journal))
  /\ AllTold(Backlog, source)

(* The acquisition publishes while the node records, and a session that is
   being stopped was closed by its break. *)
Closed ==
  source # <<>> /\ source[Len(source)] = Content("Break", "ProcessingReset")

Publishing(place) == pc.at = place \/ (pc.at = "publish" /\ pc.back = place)

StopTold ==
  /\ \A place \in {"update", "finish", "finished"} :
       Publishing(place) => state = "Recording"
  /\ pc.at = "publish" /\ pc.back = "configure"
       => state \in {"Maintenance", "Faulted"}
  /\ state = "Stopping" \/ Publishing("finished") => sink_faulted \/ Closed

StreamTold ==
  /\ StreamTypes
  /\ JournalTold
  /\ BacklogTold
  /\ IF pc.at = "publish" THEN ClaimTold ELSE RestTold

StreamInv == StreamTold /\ StopTold

------------------------
(* Sequences of events that follow each other. *)

(* An event ends behind where it begins. *)
LEMMA EventEnds ==
  ASSUME NEW e \in Events
  PROVE  /\ e.first \in Nat /\ e.count \in Nat \ {0}
         /\ event_end(e) \in Nat /\ e.first < event_end(e)
         /\ event_end(e) = e.first + e.count
<1>1. e.first \in Nat /\ e.count \in Nat \ {0} BY DEF Events
<1>2. event_end(e) = e.first + e.count BY DEF event_end
<1> QED BY <1>1, <1>2

(* Where a sequence of events ends. *)
LEMMA EndIsNat ==
  ASSUME NEW p \in Seq(Events), NEW a \in Nat
  PROVE  EndOf(p, a) \in Nat
<1>1. CASE p = <<>> BY <1>1 DEF EndOf
<1>2. CASE p # <<>>
  <2>1. Len(p) \in 1..Len(p) BY <1>2
  <2>2. p[Len(p)] \in Events BY <2>1, ElementOfSeq
  <2> QED BY <1>2, <2>2, EventEnds DEF EndOf
<1> QED BY <1>1, <1>2

(* An event that begins where the others end can be appended. *)
LEMMA EventAppended ==
  ASSUME NEW p \in Seq(Events), NEW a \in Nat, NEW e \in Events, NEW given,
         Follows(p, a), AllTold(p, given),
         e.first = EndOf(p, a), Told(e, given)
  PROVE  /\ Append(p, e) \in Seq(Events)
         /\ Follows(Append(p, e), a) /\ AllTold(Append(p, e), given)
         /\ EndOf(Append(p, e), a) = event_end(e)
<1> DEFINE r == Append(p, e)
           n == Len(p)
<1>1. /\ r \in Seq(Events) /\ r # <<>> /\ Len(r) = n + 1 /\ n \in Nat
      /\ \A i \in 1..n : r[i] = p[i]
      /\ r[n + 1] = e
  BY AppendProperties
<1>2. EndOf(p, a) = IF n = 0 THEN a ELSE event_end(p[n]) BY EmptySeq DEF EndOf
<1> HIDE DEF r
<1>3. Follows(r, a)
  <2> SUFFICES ASSUME NEW i \in 1..(n + 1)
               PROVE  r[i].first = IF i = 1 THEN a ELSE event_end(r[i - 1])
    BY <1>1 DEF Follows
  <2>1. CASE i \in 1..n
    <3>1. i # 1 => i - 1 \in 1..n BY <1>1, <2>1
    <3> QED BY <1>1, <2>1, <3>1 DEF Follows
  <2>2. CASE i = n + 1
    <3>1. /\ i # 1 => n # 0 /\ n \in 1..n /\ i - 1 = n
          /\ i = 1 => n = 0
      BY <1>1, <2>2
    <3> QED BY <1>1, <1>2, <2>2, <3>1
  <2> QED BY <1>1, <2>1, <2>2
<1>4. AllTold(r, given)
  <2> SUFFICES ASSUME NEW i \in 1..(n + 1) PROVE Told(r[i], given) BY <1>1 DEF AllTold
  <2>1. CASE i \in 1..n BY <1>1, <2>1 DEF AllTold
  <2>2. CASE i = n + 1 BY <1>1, <2>2
  <2> QED BY <1>1, <2>1, <2>2
<1>5. EndOf(r, a) = event_end(e) BY <1>1 DEF EndOf
<1> QED BY <1>1, <1>3, <1>4, <1>5 DEF r

(* The oldest event can be taken away. *)
LEMMA EventTaken ==
  ASSUME NEW p \in Seq(Events), p # <<>>, NEW a \in Nat, NEW given,
         Follows(p, a), AllTold(p, given)
  PROVE  /\ Head(p) \in Events /\ Head(p).first = a /\ Told(Head(p), given)
         /\ Tail(p) \in Seq(Events)
         /\ Follows(Tail(p), event_end(Head(p))) /\ AllTold(Tail(p), given)
         /\ EndOf(Tail(p), event_end(Head(p))) = EndOf(p, a)
<1> DEFINE r == Tail(p)
           n == Len(p)
<1>1. /\ Head(p) \in Events /\ r \in Seq(Events) /\ Len(r) = n - 1
      /\ \A i \in 1..Len(r) : r[i] = p[i + 1]
      /\ n \in Nat \ {0} /\ Head(p) = p[1]
  BY HeadTailProperties, EmptySeq
<1> HIDE DEF r
<1>2. /\ Head(p).first = a /\ Told(Head(p), given)
  <2>1. 1 \in 1..n BY <1>1
  <2> QED BY <1>1, <2>1 DEF Follows, AllTold
<1>3. Follows(r, event_end(Head(p)))
  <2> SUFFICES ASSUME NEW i \in 1..Len(r)
               PROVE  r[i].first = IF i = 1 THEN event_end(Head(p))
                                   ELSE event_end(r[i - 1])
    BY DEF Follows
  <2>1. /\ i + 1 \in 1..n /\ i + 1 # 1 /\ (i + 1) - 1 = i
        /\ i # 1 => i - 1 \in 1..Len(r) /\ (i - 1) + 1 = i
    BY <1>1
  <2>2. r[i].first = event_end(p[i]) BY <1>1, <2>1 DEF Follows
  <2>3. i # 1 => r[i - 1] = p[i] BY <1>1, <2>1
  <2> QED BY <1>1, <2>2, <2>3
<1>4. AllTold(r, given)
  <2>1. \A i \in 1..Len(r) : i + 1 \in 1..n BY <1>1
  <2> QED BY <1>1, <2>1 DEF AllTold
<1>5. EndOf(r, event_end(Head(p))) = EndOf(p, a)
  <2>1. CASE n = 1
    <3>1. r = <<>> BY <1>1, <2>1, EmptySeq
    <3> QED BY <1>1, <2>1, <3>1 DEF EndOf
  <2>2. CASE n # 1
    <3>1. /\ Len(r) \in 1..Len(r) /\ Len(r) + 1 = n /\ Len(r) # 0 BY <1>1, <2>2
    <3>2. r # <<>> /\ r[Len(r)] = p[n] BY <1>1, <3>1, EmptySeq
    <3> QED BY <3>2 DEF EndOf
  <2> QED BY <2>1, <2>2
<1> QED BY <1>1, <1>2, <1>3, <1>4, <1>5 DEF r

(* The newest event is told like the others. *)
LEMMA NewestTold ==
  ASSUME NEW p \in Seq(Events), NEW e \in Events, NEW given,
         AllTold(Append(p, e), given)
  PROVE  Told(e, given)
<1>1. /\ Len(Append(p, e)) = Len(p) + 1 /\ Len(p) \in Nat
      /\ Append(p, e)[Len(p) + 1] = e
  BY AppendProperties
<1>2. Len(p) + 1 \in 1..Len(Append(p, e)) BY <1>1
<1> QED BY <1>1, <1>2 DEF AllTold

(* The newest event can be changed. *)
LEMMA EventChanged ==
  ASSUME NEW p \in Seq(Events), NEW a \in Nat, NEW e \in Events,
         NEW f \in Events, NEW given,
         Follows(Append(p, e), a), AllTold(Append(p, e), given),
         f.first = e.first, Told(f, given)
  PROVE  /\ Append(p, f) \in Seq(Events)
         /\ Follows(Append(p, f), a) /\ AllTold(Append(p, f), given)
         /\ EndOf(Append(p, f), a) = event_end(f)
         /\ EndOf(Append(p, e), a) = event_end(e)
         /\ Told(e, given)
<1> DEFINE r == Append(p, e)
           n == Len(p)
<1>1. /\ r \in Seq(Events) /\ r # <<>> /\ Len(r) = n + 1 /\ n \in Nat
      /\ \A i \in 1..n : r[i] = p[i]
      /\ r[n + 1] = e
  BY AppendProperties
<1> HIDE DEF r
<1>2. Follows(r, a) /\ AllTold(r, given) BY DEF r
<1>3. Follows(p, a) /\ AllTold(p, given)
  <2>1. \A i \in 1..n : /\ i \in 1..(n + 1) /\ i # 1 => i - 1 \in 1..n BY <1>1
  <2> QED BY <1>1, <1>2, <2>1 DEF Follows, AllTold
<1>4. e.first = EndOf(p, a) /\ Told(e, given)
  <2>1. /\ n + 1 \in 1..(n + 1) /\ (n + 1) - 1 = n
        /\ n + 1 = 1 <=> n = 0
        /\ n # 0 => n \in 1..n
    BY <1>1
  <2>2. Told(e, given) BY <1>1, <1>2, <2>1 DEF AllTold
  <2>3. e.first = IF n = 0 THEN a ELSE event_end(r[n]) BY <1>1, <1>2, <2>1 DEF Follows
  <2>4. EndOf(p, a) = IF n = 0 THEN a ELSE event_end(p[n]) BY EmptySeq DEF EndOf
  <2> QED BY <1>1, <2>1, <2>2, <2>3, <2>4
<1>5. EndOf(r, a) = event_end(e) BY <1>1 DEF EndOf
<1> QED BY <1>3, <1>4, <1>5, EventAppended DEF r

(* The source goes on: what was told of it stays so. *)
LEMMA ToldOn ==
  ASSUME NEW e \in Events, NEW given \in Seq(Given), NEW c \in Given,
         Told(e, given)
  PROVE  Told(e, Append(given, c))
<1>1. /\ Len(Append(given, c)) = Len(given) + 1 /\ Len(given) \in Nat
      /\ \A i \in 1..Len(given) : Append(given, c)[i] = given[i]
  BY AppendProperties
<1>2. /\ e.first \in Nat /\ event_end(e) \in Nat
      /\ event_end(e) <= Len(given)
  BY EventEnds DEF Told
<1>3. \A q \in e.first..(event_end(e) - 1) : q + 1 \in 1..Len(given) BY <1>1, <1>2
<1>4. event_end(e) <= Len(Append(given, c)) BY <1>1, <1>2
<1> QED BY <1>1, <1>3, <1>4 DEF Told

(* Ends and beginnings of two sequences put together. *)
LEMMA TwoSequences ==
  ASSUME NEW S, NEW s \in Seq(S), NEW t \in Seq(S)
  PROVE  /\ s \o t \in Seq(S)
         /\ t = <<>> => s \o t = s
         /\ \A e \in S : s \o Append(t, e) = Append(s \o t, e)
         /\ s # <<>> => /\ s \o t # <<>> /\ Head(s \o t) = Head(s)
                        /\ Tail(s \o t) = Tail(s) \o t
         /\ t # <<>> => Append(s, Head(t)) \o Tail(t) = s \o t
<1>1. /\ s \o t \in Seq(S) /\ Len(s \o t) = Len(s) + Len(t)
      /\ Len(s) \in Nat /\ Len(t) \in Nat
      /\ \A i \in 1..(Len(s) + Len(t)) :
           (s \o t)[i] = IF i <= Len(s) THEN s[i] ELSE t[i - Len(s)]
  BY ConcatProperties, LenProperties
<1>2. t = <<>> => s \o t = s BY ConcatEmptySeq
<1>3. ASSUME NEW e \in S PROVE s \o Append(t, e) = Append(s \o t, e)
  <2>1. <<e>> \in Seq(S) OBVIOUS
  <2>2. /\ Append(t, e) = t \o <<e>> /\ Append(s \o t, e) = (s \o t) \o <<e>>
    BY <1>1, AppendIsConcat
  <2> QED BY <2>1, <2>2, ConcatAssociative
<1>4. ASSUME s # <<>>
      PROVE  /\ s \o t # <<>> /\ Head(s \o t) = Head(s)
             /\ Tail(s \o t) = Tail(s) \o t
  <2>1. /\ Tail(s) \in Seq(S) /\ Len(Tail(s)) = Len(s) - 1
        /\ \A i \in 1..Len(Tail(s)) : Tail(s)[i] = s[i + 1]
        /\ Len(s) \in Nat \ {0}
    BY <1>4, HeadTailProperties, EmptySeq
  <2>2. s \o t # <<>> BY <1>1, <2>1, EmptySeq
  <2>3. Head(s \o t) = Head(s)
    <3>1. (s \o t)[1] = s[1] BY <1>1, <2>1
    <3> QED BY <1>1, <1>4, <2>2, <3>1
  <2>4. Tail(s \o t) = Tail(s) \o t
    <3> DEFINE x == Tail(s \o t)
               y == Tail(s) \o t
    <3>1. /\ x \in Seq(S) /\ Len(x) = Len(s) + Len(t) - 1
          /\ \A i \in 1..Len(x) : x[i] = (s \o t)[i + 1]
      BY <1>1, <2>2, HeadTailProperties
    <3>2. /\ y \in Seq(S) /\ Len(y) = Len(s) - 1 + Len(t)
          /\ \A i \in 1..(Len(s) - 1 + Len(t)) :
               y[i] = IF i <= Len(s) - 1 THEN Tail(s)[i]
                      ELSE t[i - (Len(s) - 1)]
      BY <2>1, ConcatProperties
    <3> HIDE DEF x, y
    <3>3. ASSUME NEW i \in 1..Len(x) PROVE x[i] = y[i]
      <4>1. /\ i \in 1..(Len(s) - 1 + Len(t)) /\ i + 1 \in 1..(Len(s) + Len(t))
            /\ i - (Len(s) - 1) = (i + 1) - Len(s)
            /\ i <= Len(s) - 1 <=> i + 1 <= Len(s)
            /\ i <= Len(s) - 1 => i \in 1..Len(Tail(s))
        BY <1>1, <2>1, <3>1
      <4> QED BY <1>1, <2>1, <3>1, <3>2, <4>1
    <3>4. Len(x) = Len(y) BY <1>1, <3>1, <3>2
    <3>5. x = y BY <3>1, <3>2, <3>3, <3>4, SeqEqual
    <3> QED BY <3>5 DEF x, y
  <2> QED BY <2>2, <2>3, <2>4
<1>5. ASSUME t # <<>> PROVE Append(s, Head(t)) \o Tail(t) = s \o t
  <2>1. Head(t) \in S /\ Tail(t) \in Seq(S) BY <1>5, HeadTailProperties
  <2>2. t = <<Head(t)>> \o Tail(t)
    <3>1. Len(t) \in Nat \ {0} BY <1>5, EmptySeq
    <3>2. /\ 1 \in 1..Len(t) /\ Len(t) \in 1..Len(t) BY <3>1
    <3>3. SubSeq(t, 1, Len(t)) = <<t[1]>> \o SubSeq(t, 1 + 1, Len(t))
      BY <3>2, SubSeqRecursiveFirst
    <3>4. SubSeq(t, 1, Len(t)) = t /\ Tail(t) = SubSeq(t, 2, Len(t))
      BY <1>5, SubSeqFull, TailIsSubSeq
    <3> QED BY <1>5, <3>3, <3>4
  <2>3. Append(s, Head(t)) = s \o <<Head(t)>> BY <2>1, AppendIsConcat
  <2>4. <<Head(t)>> \in Seq(S) BY <2>1
  <2>5. (s \o <<Head(t)>>) \o Tail(t) = s \o (<<Head(t)>> \o Tail(t))
    BY <2>1, <2>4, ConcatAssociative
  <2> QED BY <2>2, <2>3, <2>5
<1> QED BY <1>1, <1>2, <1>3, <1>4, <1>5

------------------------
(* The backlog and its steps. *)

LEMMA BacklogParts ==
  ASSUME StreamTypes
  PROVE  /\ Unread \in Seq(Events) /\ Backlog \in Seq(Events)
         /\ in.pending \in Seq(Events) /\ in.next \in Nat
         /\ Len(journal) \in Nat /\ Len(source) \in Nat
         /\ EndOf(Backlog, Len(journal)) \in Nat
         /\ Unread = IF appended THEN Tail(queue) ELSE queue
<1>1. /\ queue \in Seq(Events) /\ in.pending \in Seq(Events)
      /\ in.next \in Nat
      /\ Len(journal) \in Nat /\ Len(source) \in Nat
  <2>1. /\ journal \in Seq([kind : Kinds, what : Whats])
        /\ source \in Seq(Given)
    BY DEF StreamTypes
  <2> QED BY <2>1, LenProperties DEF StreamTypes, Ingresses
<1>2. Unread = IF appended THEN Tail(queue) ELSE queue
  BY <1>1, SubSeqFull, TailIsSubSeq DEF Unread, StreamTypes
<1>3. Unread \in Seq(Events) BY <1>1, <1>2, HeadTailProperties DEF StreamTypes
<1>4. Backlog \in Seq(Events) BY <1>1, <1>3, ConcatProperties DEF Backlog
<1> QED BY <1>1, <1>2, <1>3, <1>4, EndIsNat

(* A missing sample joins the newest pending gap, or becomes a gap, or the
   ingress faults and leaves it unreported. *)
LEMMA MissingTold ==
  ASSUME NEW x \in Ingresses, NEW s \in Seq(Events), NEW a \in Nat,
         NEW given \in Seq(Given),
         Follows(s \o x.pending, a), AllTold(s \o x.pending, given),
         NEW first \in Nat, first = EndOf(s \o x.pending, a),
         first + 1 <= Len(given),
         NEW reason, reason \in Whats,
         Accounts(Content("Gap", reason), given[first + 1]),
         ~x.faulted
  PROVE  LET y == account_missing(x, first, 1, reason)
         IN  /\ y \in Ingresses /\ y.next = x.next
             /\ Follows(s \o y.pending, a) /\ AllTold(s \o y.pending, given)
             /\ \/ ~y.faulted /\ EndOf(s \o y.pending, a) = first + 1
                \/ y.faulted /\ EndOf(s \o y.pending, a) = first
<1> DEFINE n == Len(x.pending)
           last == x.pending[n]
           y == account_missing(x, first, 1, reason)
           fault == [x EXCEPT !.faulted = TRUE]
           gap == IngressEvent("Gap", first, 1, reason)
           grown == merged_gap(last, 1, reason)
           p == s \o x.pending
<1>1. /\ x.pending \in Seq(Events) /\ n \in Nat /\ p \in Seq(Events)
      /\ x.next \in Nat
  BY LenProperties, ConcatProperties DEF Ingresses
<1>0. Follows(p, a) /\ AllTold(p, given) /\ first = EndOf(p, a) OBVIOUS
<1>2. /\ fault \in Ingresses /\ fault.next = x.next /\ fault.faulted
      /\ fault.pending = x.pending
  BY DEF Ingresses
<1>3. ASSUME y = fault
      PROVE  /\ y \in Ingresses /\ y.next = x.next
             /\ Follows(s \o y.pending, a) /\ AllTold(s \o y.pending, given)
             /\ y.faulted /\ EndOf(s \o y.pending, a) = first
  BY <1>2, <1>3
<1>4. /\ gap \in Events /\ gap.first = first /\ event_end(gap) = first + 1
      /\ gap.kind = "Gap" /\ gap.what = reason
  BY DEF IngressEvent, Events, Kinds, event_end
<1>5. Told(gap, given)
  <2>1. \A q \in first..(first + 1 - 1) : q = first OBVIOUS
  <2> QED BY <1>4, <2>1 DEF Told
<1>6. y = IF n # 0 /\ last.kind = "Gap"
          THEN IF event_end(last) # first \/ last.count > MaxSequence - 1
               THEN fault ELSE [x EXCEPT !.pending[n] = grown]
          ELSE IF n = PendingCapacity THEN fault
          ELSE [x EXCEPT !.pending = Append(x.pending, gap)]
  BY DEF account_missing, buffer_event
<1> HIDE DEF y, fault, gap, grown, last, p
<1>7. CASE /\ n # 0 /\ last.kind = "Gap"
           /\ ~(event_end(last) # first \/ last.count > MaxSequence - 1)
  <2>1. x.pending # <<>> /\ n \in 1..n BY <1>1, <1>7, EmptySeq
  <2>2. PICK f \in Seq(Events), e \in Events : x.pending = Append(f, e)
    BY <1>1, <2>1, SequenceEmptyOrAppend
  <2>3. /\ n = Len(f) + 1 /\ Len(f) \in Nat /\ e = last
        /\ \A i \in 1..Len(f) : x.pending[i] = f[i]
    BY <2>2, AppendProperties, LenProperties DEF last
  <2>4. /\ e.kind = "Gap" /\ event_end(e) = first
        /\ e.first \in Nat /\ e.count \in Nat \ {0}
        /\ first = e.first + e.count
    BY <1>7, <2>3, EventEnds
  <2>5. /\ grown \in Events /\ grown.first = e.first /\ grown.kind = "Gap"
        /\ grown.count = e.count + 1 /\ event_end(grown) = first + 1
        /\ grown.what = IF e.what = reason THEN e.what ELSE Unknown
    <3>1. grown = [e EXCEPT !.count = e.count + 1,
                            !.what = IF e.what = reason THEN e.what ELSE Unknown]
      BY <2>3 DEF grown, merged_gap
    <3>2. e \in [kind : Kinds, first : Nat, count : Nat \ {0}, what : Whats]
          /\ Unknown \in Whats /\ e.count + 1 \in Nat \ {0}
      BY <2>4 DEF Events, Whats
    <3>3. /\ grown \in Events /\ grown.first = e.first /\ grown.kind = "Gap"
          /\ grown.count = e.count + 1
          /\ grown.what = IF e.what = reason THEN e.what ELSE Unknown
      BY <2>4, <3>1, <3>2 DEF Events
    <3> QED BY <2>4, <3>3 DEF event_end
  <2>6. /\ s \o Append(f, e) = Append(s \o f, e)
        /\ s \o Append(f, grown) = Append(s \o f, grown)
        /\ s \o f \in Seq(Events)
    <3>1. \A z \in Events : s \o Append(f, z) = Append(s \o f, z) BY TwoSequences
    <3>2. s \o f \in Seq(Events) BY TwoSequences
    <3> QED BY <2>2, <2>5, <3>1, <3>2
  <2>7. /\ Follows(Append(s \o f, e), a) /\ AllTold(Append(s \o f, e), given)
    <3>1. p = Append(s \o f, e) BY <2>2, <2>6 DEF p
    <3> QED BY <1>0, <3>1
  <2>8. Told(e, given) BY <2>6, <2>7, NewestTold
  <2>9. Told(grown, given)
    <3>1. \A q \in e.first..(first + 1 - 1) :
            q = first \/ q \in e.first..(event_end(e) - 1)
      BY <2>4
    <3>2. ASSUME NEW q \in e.first..(event_end(grown) - 1)
          PROVE  Accounts(Content("Gap", grown.what), given[q + 1])
      <4>1. \/ Accounts(Content("Gap", e.what), given[q + 1])
            \/ Accounts(Content("Gap", reason), given[q + 1])
        BY SMTT(30), <2>4, <2>5, <2>8, <3>1, <3>2 DEF Told
      <4>2. given[q + 1].kind \in {"Sample", "Break"}
        <5>1. q + 1 \in 1..Len(given)
          <6>1. Len(given) \in Nat BY LenProperties
          <6> QED BY <2>4, <2>5, <3>2, <6>1
        <5>2. given[q + 1] \in Given BY <5>1, ElementOfSeq
        <5> QED BY <5>2 DEF Given
      <4>3. CASE e.what = reason BY <2>5, <4>1, <4>3
      <4>4. CASE e.what # reason BY <2>5, <4>1, <4>2, <4>4 DEF Accounts, Content
      <4> QED BY <4>3, <4>4
    <3> QED BY <2>5, <3>2 DEF Told
  <2>10. /\ Follows(Append(s \o f, grown), a)
         /\ AllTold(Append(s \o f, grown), given)
         /\ EndOf(Append(s \o f, grown), a) = first + 1
    BY ZenonT(30), <2>5, <2>6, <2>7, <2>9, EventChanged
  <2>11. y = [x EXCEPT !.pending = [x.pending EXCEPT ![n] = grown]] BY <1>6, <1>7
  <2>12. [x.pending EXCEPT ![n] = grown] = Append(f, grown)
    <3> DEFINE l == [x.pending EXCEPT ![n] = grown]
               r == Append(f, grown)
    <3>1. /\ l \in Seq(Events) /\ Len(l) = n
          /\ \A i \in 1..n : l[i] = IF i = n THEN grown ELSE x.pending[i]
      BY <1>1, <2>1, <2>5, ExceptSeq
    <3>2. /\ r \in Seq(Events) /\ Len(r) = Len(f) + 1
          /\ \A i \in 1..Len(f) : r[i] = f[i]
          /\ r[Len(f) + 1] = grown
      BY <2>5, AppendProperties
    <3> HIDE DEF l, r
    <3>3. \A i \in 1..n : i = n \/ i \in 1..Len(f) BY <2>3
    <3>4. \A i \in 1..Len(l) : l[i] = r[i] BY <2>3, <3>1, <3>2, <3>3
    <3>5. l = r BY <2>3, <3>1, <3>2, <3>4, SeqEqual
    <3> QED BY <3>5 DEF l, r
  <2>13. /\ y \in Ingresses /\ y.next = x.next /\ ~y.faulted
         /\ y.pending = Append(f, grown)
    <3>1. Append(f, grown) \in Seq(Events) BY <2>5, AppendProperties
    <3> QED BY <2>11, <2>12, <3>1 DEF Ingresses
  <2> QED BY <2>6, <2>10, <2>13 DEF y
<1>8. CASE ~(n # 0 /\ last.kind = "Gap") /\ n # PendingCapacity
  <2>1. y = [x EXCEPT !.pending = Append(x.pending, gap)] BY <1>6, <1>8
  <2>2. Append(x.pending, gap) \in Seq(Events) BY <1>1, <1>4, AppendProperties
  <2>3. /\ y \in Ingresses /\ y.next = x.next /\ ~y.faulted
        /\ y.pending = Append(x.pending, gap)
    BY <2>1, <2>2 DEF Ingresses
  <2>4. s \o Append(x.pending, gap) = Append(p, gap)
    <3> DEFINE t == x.pending
    <3>1. t \in Seq(Events) BY <1>1
    <3> HIDE DEF t
    <3>2. \A z \in Events : s \o Append(t, z) = Append(s \o t, z) BY <3>1, TwoSequences
    <3> QED BY <1>4, <3>2 DEF p, t
  <2>5. /\ Follows(Append(p, gap), a) /\ AllTold(Append(p, gap), given)
        /\ EndOf(Append(p, gap), a) = first + 1
    BY <1>0, <1>1, <1>4, <1>5, EventAppended
  <2> QED BY <2>3, <2>4, <2>5 DEF y
<1> QED BY <1>3, <1>6, <1>7, <1>8 DEF y

(* A step that leaves the events where they are. *)
LEMMA QuietTold ==
  ASSUME StreamTold, pc.at # "publish", pc'.at # "publish",
         UNCHANGED <<in, queue, core1, source>>, sink_faulted' \in BOOLEAN
  PROVE  StreamTold'
<1>1. /\ in' = in /\ queue' = queue /\ appended' = appended
      /\ journal' = journal /\ source' = source
  BY DEF core1
<1>2. Unread' = Unread /\ Backlog' = Backlog BY <1>1 DEF Unread, Backlog
<1>3. StreamTypes' /\ JournalTold' /\ BacklogTold' /\ RestTold' BY <1>1, <1>2
  DEF StreamTold, StreamTypes, JournalTold, BacklogTold, RestTold
<1> QED BY <1>3 DEF StreamTold

(* What is pushed comes last of what core 1 has not read. *)
LEMMA PushUnread ==
  ASSUME StreamTypes, NEW e \in Events,
         queue' = Append(queue, e), appended' = appended
  PROVE  /\ queue' \in Seq(Events) /\ (appended' => queue' # <<>>)
         /\ Unread' = Append(Unread, e)
<1>1. queue \in Seq(Events) /\ appended \in BOOLEAN /\ (appended => queue # <<>>)
  BY DEF StreamTypes
<1>2. queue' \in Seq(Events) /\ queue' # <<>> BY <1>1, AppendProperties
<1>3. Unread' = IF appended THEN Tail(queue') ELSE queue'
  BY <1>1, <1>2, SubSeqFull, TailIsSubSeq DEF Unread
<1>4. Unread = IF appended THEN Tail(queue) ELSE queue BY BacklogParts
<1>5. ASSUME appended PROVE Tail(queue') = Append(Tail(queue), e)
  <2>1. <<e>> \in Seq(Events) /\ Tail(queue) \in Seq(Events)
    BY <1>1, <1>5, HeadTailProperties
  <2>2. queue' = queue \o <<e>> BY <1>1, AppendIsConcat
  <2>3. Tail(queue \o <<e>>) = Tail(queue) \o <<e>> BY <1>1, <1>5, <2>1, TwoSequences
  <2> QED BY <2>1, <2>2, <2>3, AppendIsConcat
<1> QED BY <1>1, <1>2, <1>3, <1>4, <1>5

(* flush_pending moves the oldest pending event behind the queue. *)
LEMMA FlushTold ==
  ASSUME StreamTold, flush_pending
  PROVE  StreamTold'
<1>1. StreamTypes /\ in.pending \in Seq(Events) /\ in.pending # <<>>
  BY BacklogParts DEF StreamTold, flush_pending, Flushable
<1>2. Head(in.pending) \in Events /\ Tail(in.pending) \in Seq(Events)
  BY <1>1, HeadTailProperties
<1>3. /\ queue' = Append(queue, Head(in.pending)) /\ appended' = appended
      /\ journal' = journal /\ source' = source /\ pc' = pc
      /\ sink_faulted' = sink_faulted
  BY DEF flush_pending, core1
<1>4. in' = [in EXCEPT !.pending = Tail(in.pending)] BY DEF flush_pending, pop_pending
<1>5. /\ in' \in Ingresses /\ in'.next = in.next /\ in'.faulted = in.faulted
      /\ in'.pending = Tail(in.pending)
  BY <1>1, <1>2, <1>4 DEF StreamTypes, Ingresses
<1>6. /\ queue' \in Seq(Events) /\ (appended' => queue' # <<>>)
      /\ Unread' = Append(Unread, Head(in.pending))
  BY <1>1, <1>2, <1>3, PushUnread
<1>7. Backlog' = Backlog
  <2> DEFINE t == in.pending
  <2>1. Unread \in Seq(Events) /\ t \in Seq(Events) /\ t # <<>> BY <1>1, BacklogParts
  <2>2. Backlog' = Append(Unread, Head(t)) \o Tail(t) BY <1>5, <1>6 DEF Backlog
  <2>3. Backlog = Unread \o t BY DEF Backlog
  <2> HIDE DEF t
  <2>4. Append(Unread, Head(t)) \o Tail(t) = Unread \o t BY <2>1, TwoSequences
  <2> QED BY <2>2, <2>3, <2>4
<1>8. StreamTypes' BY <1>1, <1>3, <1>5, <1>6 DEF StreamTypes
<1>9. /\ JournalTold' /\ BacklogTold'
      /\ (RestTold => RestTold') /\ (ClaimTold => ClaimTold')
  BY <1>3, <1>5, <1>7
  DEF StreamTold, JournalTold, BacklogTold, RestTold, ClaimTold
<1> QED BY <1>3, <1>8, <1>9 DEF StreamTold

(* The claimed event becomes the newest of the backlog. *)
LEMMA PublishedTold ==
  ASSUME StreamTold, published
  PROVE  StreamTold' /\ pc' = At(pc.back)
<1>1. StreamTypes /\ ClaimTold /\ JournalTold /\ BacklogTold
  BY DEF StreamTold, published
<1>2. pc.event \in Events /\ in.pending = <<>> BY <1>1 DEF ClaimTold, published
<1>3. /\ queue' = Append(queue, pc.event) /\ appended' = appended
      /\ journal' = journal /\ source' = source /\ in' = in
      /\ pc' = At(pc.back) /\ sink_faulted' = sink_faulted
  BY DEF published, core1
<1>4. pc'.at # "publish" BY <1>1, <1>3 DEF ClaimTold, At
<1>5. /\ queue' \in Seq(Events) /\ (appended' => queue' # <<>>)
      /\ Unread' = Append(Unread, pc.event)
  BY <1>1, <1>2, <1>3, PushUnread
<1>6. /\ Unread \in Seq(Events) /\ Backlog \in Seq(Events)
      /\ Len(journal) \in Nat /\ in.next \in Nat
  BY <1>1, BacklogParts
<1>7. Backlog = Unread /\ Backlog' = Append(Backlog, pc.event)
  <2>1. Append(Unread, pc.event) \in Seq(Events) BY <1>2, <1>6, AppendProperties
  <2>2. /\ Unread \o <<>> = Unread
        /\ Append(Unread, pc.event) \o <<>> = Append(Unread, pc.event)
    BY <1>6, <2>1, ConcatEmptySeq
  <2> QED BY <1>2, <1>3, <1>5, <2>2 DEF Backlog
<1>8. /\ Follows(Backlog', Len(journal)) /\ AllTold(Backlog', source)
      /\ EndOf(Backlog', Len(journal)) = event_end(pc.event)
  BY <1>1, <1>2, <1>6, <1>7, EventAppended DEF BacklogTold, ClaimTold
<1>9. event_end(pc.event) = in.next BY <1>1 DEF ClaimTold
<1>10. StreamTypes' BY <1>1, <1>3, <1>5 DEF StreamTypes
<1>11. JournalTold' /\ BacklogTold' /\ RestTold'
  BY <1>1, <1>3, <1>6, <1>8, <1>9 DEF JournalTold, BacklogTold, RestTold
<1> QED BY <1>3, <1>4, <1>10, <1>11 DEF StreamTold

(* An event the queue refused is pending, counted as missing, or left out
   with a fault. *)
LEMMA RefusedTold ==
  ASSUME StreamTold, refused
  PROVE  StreamTold' /\ pc' = At(pc.back)
<1> DEFINE e == pc.event
           a == Len(journal)
<1>1. StreamTypes /\ ClaimTold /\ JournalTold /\ BacklogTold BY DEF StreamTold, refused
<1>2. /\ queue' = queue /\ appended' = appended
      /\ journal' = journal /\ source' = source
      /\ pc' = At(pc.back)
      /\ in' = account_refused(in, e) /\ sink_faulted' = in'.faulted
  BY DEF refused, core1
<1>3. pc'.at # "publish" BY <1>1, <1>2 DEF ClaimTold, At
<1>4. /\ Unread \in Seq(Events) /\ Backlog \in Seq(Events) /\ a \in Nat
      /\ in.pending \in Seq(Events) /\ in.next \in Nat /\ in \in Ingresses
      /\ source \in Seq(Given)
  BY <1>1, BacklogParts DEF StreamTypes
<1>5. Unread' = Unread /\ Backlog' = Unread \o in'.pending BY <1>2 DEF Unread, Backlog
<1>6. /\ e \in Events /\ e.first \in Nat /\ event_end(e) = e.first + 1
      /\ in.next = e.first + 1 /\ e.first = EndOf(Backlog, a)
      /\ e.kind # "Gap" /\ Told(e, source) /\ ~in.faulted
  BY <1>1, EventEnds DEF ClaimTold
<1>7. Follows(Backlog, a) /\ AllTold(Backlog, source) /\ Len(source) = in.next
  BY <1>1 DEF BacklogTold
<1>8. /\ in' \in Ingresses /\ in'.next = in.next
      /\ Follows(Unread \o in'.pending, a) /\ AllTold(Unread \o in'.pending, source)
      /\ \/ ~in'.faulted /\ EndOf(Unread \o in'.pending, a) = e.first + 1
         \/ in'.faulted /\ EndOf(Unread \o in'.pending, a) = e.first
  <2>1. CASE e.kind = "Sample"
    <3>1. in' = account_missing(in, e.first, 1, "IngressOverflow")
      BY <1>2, <2>1 DEF account_refused
    <3>2. Accounts(Content("Gap", "IngressOverflow"), source[e.first + 1])
      <4>1. e.first \in e.first..(event_end(e) - 1) BY <1>6
      <4>2. Accounts(Content(e.kind, e.what), source[e.first + 1])
        BY <1>6, <4>1 DEF Told
      <4>3. source[e.first + 1] = Content(e.kind, e.what) /\ e.what # InvalidSample
        BY <2>1, <4>2 DEF Accounts, Content
      <4> QED BY <2>1, <4>3 DEF Accounts, Content
    <3>3. "IngressOverflow" \in Whats BY DEF Whats
    <3>4. Follows(Unread \o in.pending, a) /\ AllTold(Unread \o in.pending, source)
          /\ e.first = EndOf(Unread \o in.pending, a)
      BY <1>6, <1>7 DEF Backlog
    <3>5. e.first + 1 <= Len(source) BY <1>6, <1>7
    <3> HIDE DEF e, a
    <3> QED BY <1>4, <1>6, <3>1, <3>2, <3>3, <3>4, <3>5, MissingTold
  <2>2. CASE e.kind # "Sample"
    <3>1. in' = buffer_event(in, e) BY <1>2, <2>2 DEF account_refused
    <3>2. CASE Len(in.pending) = PendingCapacity
      <4>1. in' = [in EXCEPT !.faulted = TRUE] BY <3>1, <3>2 DEF buffer_event
      <4>2. /\ in' \in Ingresses /\ in'.next = in.next /\ in'.faulted
            /\ in'.pending = in.pending
        BY <1>4, <4>1 DEF Ingresses
      <4> QED BY <1>6, <1>7, <4>2 DEF Backlog
    <3>3. CASE Len(in.pending) # PendingCapacity
      <4>1. in' = [in EXCEPT !.pending = Append(in.pending, e)]
        BY <3>1, <3>3 DEF buffer_event
      <4>2. Append(in.pending, e) \in Seq(Events) BY <1>4, <1>6, AppendProperties
      <4>3. /\ in' \in Ingresses /\ in'.next = in.next /\ ~in'.faulted
            /\ in'.pending = Append(in.pending, e)
        BY <1>4, <1>6, <4>1, <4>2 DEF Ingresses
      <4>4. Unread \o in'.pending = Append(Backlog, e)
        <5> DEFINE t == in.pending
        <5>1. t \in Seq(Events) /\ Backlog = Unread \o t BY <1>4 DEF Backlog
        <5>2. in'.pending = Append(t, e) BY <4>3
        <5> HIDE DEF t, e
        <5>3. \A z \in Events : Unread \o Append(t, z) = Append(Unread \o t, z)
          BY <1>4, <5>1, TwoSequences
        <5> QED BY <1>6, <5>1, <5>2, <5>3
      <4>5. /\ Follows(Append(Backlog, e), a) /\ AllTold(Append(Backlog, e), source)
            /\ EndOf(Append(Backlog, e), a) = event_end(e)
        <5> HIDE DEF e, a
        <5> QED BY <1>4, <1>6, <1>7, EventAppended
      <4> QED BY <1>6, <4>3, <4>4, <4>5
    <3> QED BY <3>2, <3>3
  <2> QED BY <2>1, <2>2
<1>9. StreamTypes' BY <1>1, <1>2, <1>8 DEF StreamTypes, Ingresses
<1>10. JournalTold' /\ BacklogTold' /\ RestTold'
  BY <1>1, <1>2, <1>4, <1>5, <1>6, <1>7, <1>8
  DEF JournalTold, BacklogTold, RestTold
<1> QED BY <1>2, <1>3, <1>9, <1>10 DEF StreamTold

(* The acquisition claims a sequence for what the sensor yields. *)
LEMMA PublishTold ==
  ASSUME StreamTold, pc.at # "publish",
         NEW kind \in {"Sample", "Break"}, NEW what \in Whats,
         NEW back \in {"update", "finish", "finished", "configure"},
         kind = "Break" => what # InvalidSample,
         publish(kind, what, back)
  PROVE  StreamTold'
<1> DEFINE a == Len(journal)
           c == Content(kind, what)
           e == IngressEvent(kind, in.next, 1, what)
           x == claim(in, 1)
<1>1. StreamTypes /\ RestTold /\ JournalTold /\ BacklogTold BY DEF StreamTold
<1>2. /\ queue' = queue /\ appended' = appended /\ journal' = journal
      /\ core1' = core1 /\ ~sink_faulted
  BY DEF publish, core1
<1>3. CASE in.faulted \/ ~can_claim(in, 1)
  <2>1. pc' = At(back) /\ sink_faulted' = TRUE /\ in' = in /\ source' = source
    BY <1>3 DEF publish
  <2>2. pc'.at # "publish" BY <2>1 DEF At
  <2> QED BY <1>2, <2>1, <2>2, QuietTold
<1>4. CASE ~(in.faulted \/ ~can_claim(in, 1))
  <2>1. /\ Unread \in Seq(Events) /\ Backlog \in Seq(Events) /\ a \in Nat
        /\ in.pending \in Seq(Events) /\ in.next \in Nat /\ in \in Ingresses
        /\ source \in Seq(Given) /\ EndOf(Backlog, a) \in Nat
        /\ in.faulted \in BOOLEAN
    BY <1>1, BacklogParts DEF StreamTypes, Ingresses
  <2>2. Unread' = Unread /\ Backlog' = Unread \o in'.pending BY <1>2 DEF Unread, Backlog
  <2>3. ~in.faulted /\ EndOf(Backlog, a) = in.next BY <1>1, <1>4, <2>1 DEF RestTold
  <2>4. /\ x \in Ingresses /\ x.next = in.next + 1 /\ ~x.faulted
        /\ x.pending = in.pending
    <3>1. x = [in EXCEPT !.next = in.next + 1] /\ in.next + 1 \in Nat BY <2>1 DEF claim
    <3> HIDE DEF x
    <3> QED BY <2>1, <2>3, <3>1 DEF Ingresses
  <2>5. source' = Append(source, c) BY <1>4 DEF publish
  <2>6. c \in Given BY DEF Content, Given
  <2>7. Follows(Backlog, a) /\ AllTold(Backlog, source) /\ Len(source) = in.next
    BY <1>1 DEF BacklogTold
  <2>8. /\ source' \in Seq(Given) /\ Len(source') = in.next + 1
        /\ source'[in.next + 1] = c
        /\ \A i \in 1..in.next : source'[i] = source[i]
    <3> HIDE DEF c
    <3> QED BY <2>1, <2>5, <2>6, <2>7, AppendProperties
  <2>9. AllTold(Backlog, source')
    <3> SUFFICES ASSUME NEW i \in 1..Len(Backlog)
                 PROVE  Told(Backlog[i], source')
      BY DEF AllTold
    <3>1. Backlog[i] \in Events /\ Told(Backlog[i], source)
      BY <2>1, <2>7, ElementOfSeq DEF AllTold
    <3> HIDE DEF c
    <3> QED BY <2>1, <2>5, <2>6, <3>1, ToldOn
  <2>10. /\ a <= in.next
         /\ \A q \in 1..a : Accounts(journal[q], source'[q])
    <3>1. a <= in.next /\ \A q \in 1..a : q \in 1..in.next BY <1>1, <2>1 DEF JournalTold
    <3> QED BY <1>1, <2>8, <3>1 DEF JournalTold
  <2>11. CASE what = InvalidSample
    <3>1. /\ in' = account_missing(x, in.next, 1, "SourceLoss")
          /\ sink_faulted' = in'.faulted /\ pc' = At(back)
      BY <1>4, <2>11 DEF publish
    <3>2. pc'.at # "publish" BY <3>1 DEF At
    <3>3. Accounts(Content("Gap", "SourceLoss"), source'[in.next + 1])
      BY <2>8, <2>11 DEF Accounts, Content
    <3>4. /\ in' \in Ingresses /\ in'.next = in.next + 1
          /\ Follows(Unread \o in'.pending, a)
          /\ AllTold(Unread \o in'.pending, source')
          /\ \/ ~in'.faulted /\ EndOf(Unread \o in'.pending, a) = in.next + 1
             \/ in'.faulted /\ EndOf(Unread \o in'.pending, a) = in.next
      <4>1. /\ Follows(Unread \o x.pending, a)
            /\ AllTold(Unread \o x.pending, source')
            /\ in.next = EndOf(Unread \o x.pending, a)
        BY <2>3, <2>4, <2>7, <2>9 DEF Backlog
      <4>2. "SourceLoss" \in Whats /\ in.next + 1 <= Len(source')
        BY <2>1, <2>8 DEF Whats
      <4> HIDE DEF x, a, c
      <4> QED BY <2>1, <2>4, <2>8, <3>1, <3>3, <4>1, <4>2, MissingTold
    <3>5. StreamTypes' BY <1>1, <1>2, <2>8, <3>1, <3>4 DEF StreamTypes, Ingresses
    <3>6. JournalTold' /\ BacklogTold' /\ RestTold'
      BY <1>2, <2>1, <2>2, <2>8, <2>10, <3>4
      DEF JournalTold, BacklogTold, RestTold
    <3> QED BY <3>2, <3>5, <3>6 DEF StreamTold
  <2>12. CASE what # InvalidSample
    <3>1. /\ in' = x /\ sink_faulted' = sink_faulted
          /\ pc' = [at |-> "publish", back |-> back, event |-> e]
      BY <1>4, <2>12 DEF publish
    <3>2. pc'.event = e /\ pc'.back = back /\ pc'.at = "publish" BY <3>1
    <3>3. /\ e \in Events /\ e.kind = kind /\ e.first = in.next /\ e.count = 1
          /\ e.what = what /\ event_end(e) = in.next + 1
      BY <2>1 DEF IngressEvent, Events, Kinds, event_end
    <3>4. Told(e, source')
      <4>1. \A q \in e.first..(event_end(e) - 1) : q = in.next
        <5> HIDE DEF e
        <5> QED BY <2>1, <3>3
      <4>2. Accounts(Content(e.kind, e.what), source'[in.next + 1])
        BY <2>8, <2>12, <3>3 DEF Accounts, Content
      <4>3. event_end(e) <= Len(source') BY <2>1, <2>8, <3>3
      <4> HIDE DEF e, c, x
      <4> QED BY <4>1, <4>2, <4>3 DEF Told
    <3>5. Backlog' = Backlog BY <2>2, <2>4, <3>1 DEF Backlog
    <3>6. StreamTypes' BY <1>1, <1>2, <2>4, <2>8, <3>1 DEF StreamTypes
    <3>7. JournalTold' /\ BacklogTold'
      BY <1>2, <2>1, <2>4, <2>7, <2>8, <2>9, <2>10, <3>1, <3>5
      DEF JournalTold, BacklogTold
    <3>8. ClaimTold'
      <4> HIDE DEF e, x, c
      <4> QED BY <1>2, <2>3, <2>4, <3>1, <3>2, <3>3, <3>4, <3>5 DEF ClaimTold
    <3> QED BY <3>2, <3>6, <3>7, <3>8 DEF StreamTold
  <2> QED BY <2>11, <2>12
<1> QED BY <1>3, <1>4

(* append_front: the journal takes exactly what the event tells. *)
LEMMA AppendTold ==
  ASSUME StreamTold, append_front
  PROVE  StreamTold'
<1> DEFINE e == Head(queue)
           a == Len(journal)
<1>1. StreamTypes /\ JournalTold /\ BacklogTold /\ queue # <<>> /\ ~appended
  BY DEF StreamTold, append_front
<1>2. /\ queue' = queue /\ source' = source /\ in' = in /\ pc' = pc
      /\ sink_faulted' = sink_faulted
  BY DEF append_front, core0
<1>3. /\ queue \in Seq(Events) /\ Backlog \in Seq(Events) /\ a \in Nat
      /\ in.pending \in Seq(Events) /\ in.next \in Nat
      /\ journal \in Seq([kind : Kinds, what : Whats])
      /\ Unread = queue
  BY <1>1, BacklogParts DEF StreamTypes
<1>4. /\ Backlog # <<>> /\ Head(Backlog) = e
      /\ Tail(Backlog) = Tail(queue) \o in.pending
  BY <1>1, <1>3, TwoSequences DEF Backlog
<1>5. Follows(Backlog, a) /\ AllTold(Backlog, source) /\ Len(source) = in.next
  BY <1>1 DEF BacklogTold
<1>6. /\ e \in Events /\ e.first = a /\ Told(e, source)
      /\ Follows(Tail(Backlog), event_end(e)) /\ AllTold(Tail(Backlog), source)
      /\ EndOf(Tail(Backlog), event_end(e)) = EndOf(Backlog, a)
  <2> HIDE DEF a
  <2> QED BY <1>3, <1>4, <1>5, EventTaken
<1>7. /\ e.count \in Nat \ {0} /\ event_end(e) = a + e.count
      /\ event_end(e) <= in.next
  BY <1>5, <1>6, EventEnds DEF Told
<1>8. /\ journal' = with_event(e) /\ appended' = TRUE BY <1>6 DEF append_front
<1>9. Backlog' = Tail(Backlog)
  <2>1. Unread' = Tail(queue) BY <1>1, <1>2, <1>3, <1>8, TailIsSubSeq DEF Unread
  <2> QED BY <1>2, <1>4, <2>1 DEF Backlog
<1>10. /\ journal' \in Seq([kind : Kinds, what : Whats])
       /\ Len(journal') = event_end(e)
       /\ \A q \in 1..event_end(e) :
            journal'[q] = IF q <= a THEN journal[q] ELSE Content(e.kind, e.what)
  <2> DEFINE S == [kind : Kinds, what : Whats]
             n == e.count
             v == Content(e.kind, e.what)
             r == [k \in 1..n |-> v]
  <2>1. v \in S BY <1>6 DEF Content, Events
  <2> HIDE DEF v, S
  <2>2. n \in Nat BY <1>7
  <2> HIDE DEF n
  <2>3. r \in Seq(S) /\ Len(r) = n /\ \A k \in 1..n : r[k] = v BY <2>1, <2>2
  <2>4. journal' = journal \o r BY <1>8 DEF with_event, n, v
  <2> HIDE DEF r, e
  <2>5. journal \in Seq(S) BY <1>3 DEF S
  <2>6. /\ journal' \in Seq(S) /\ Len(journal') = a + n
        /\ \A q \in 1..(a + n) :
             journal'[q] = IF q <= a THEN journal[q] ELSE r[q - a]
    BY <2>3, <2>4, <2>5, ConcatProperties
  <2>7. \A q \in 1..(a + n) : q <= a \/ q - a \in 1..n BY <1>3, <2>2
  <2>8. event_end(e) = a + n BY <1>7 DEF n
  <2> QED BY <2>3, <2>6, <2>7, <2>8 DEF S, v
<1>11. StreamTypes' BY <1>1, <1>2, <1>8, <1>10 DEF StreamTypes
<1>12. JournalTold'
  <2>1. \A q \in 1..event_end(e) : q \in 1..a \/ q > a BY <1>3, <1>7
  <2>2. \A q \in 1..a : Accounts(journal[q], source[q]) BY <1>1 DEF JournalTold
  <2>3. ASSUME NEW q \in 1..event_end(e), q > a
        PROVE  Accounts(Content(e.kind, e.what), source[q])
    <3>1. q - 1 \in e.first..(event_end(e) - 1) /\ (q - 1) + 1 = q
      BY <1>3, <1>6, <1>7, <2>3
    <3> QED BY <1>6, <3>1 DEF Told
  <2>4. \A q \in 1..event_end(e) : Accounts(journal'[q], source[q])
    <3> HIDE DEF e
    <3> QED BY <1>3, <1>7, <1>10, <2>1, <2>2, <2>3
  <2> QED BY <1>2, <1>7, <1>10, <2>4 DEF JournalTold
<1>13. BacklogTold' BY <1>2, <1>5, <1>6, <1>9, <1>10 DEF BacklogTold
<1>14. /\ (RestTold => RestTold') /\ (ClaimTold => ClaimTold')
  BY <1>2, <1>6, <1>9, <1>10 DEF RestTold, ClaimTold
<1> QED BY <1>2, <1>11, <1>12, <1>13, <1>14 DEF StreamTold

(* pop_front: the queue gives up what core 1 has read. *)
LEMMA PopTold ==
  ASSUME StreamTold, pop_front
  PROVE  StreamTold'
<1>1. StreamTypes /\ JournalTold /\ BacklogTold /\ appended BY DEF StreamTold, pop_front
<1>2. /\ queue' = Tail(queue) /\ appended' = FALSE
      /\ journal' = journal /\ source' = source /\ in' = in /\ pc' = pc
      /\ sink_faulted' = sink_faulted
  BY DEF pop_front, core0
<1>3. /\ Unread = Tail(queue) /\ Tail(queue) \in Seq(Events)
  <2>1. Unread = Tail(queue) /\ Unread \in Seq(Events) BY <1>1, BacklogParts
  <2> QED BY <2>1
<1>4. Unread' = Tail(queue) BY <1>2, <1>3, SubSeqFull DEF Unread
<1>5. Backlog' = Backlog BY <1>2, <1>3, <1>4 DEF Backlog
<1>6. StreamTypes' BY <1>1, <1>2, <1>3 DEF StreamTypes
<1>7. JournalTold' /\ BacklogTold' BY <1>1, <1>2, <1>5 DEF JournalTold, BacklogTold
<1>8. /\ (RestTold => RestTold') /\ (ClaimTold => ClaimTold')
  BY <1>2, <1>5 DEF RestTold, ClaimTold
<1> QED BY <1>2, <1>6, <1>7, <1>8 DEF StreamTold

------------------------
(* The invariant, step by step. *)

(* A statement of core 0 that moves no event. *)
LEMMA QuietStep ==
  ASSUME StreamInv, pc.at # "publish", NEW place, place # "publish",
         pc' = At(place), UNCHANGED <<in, queue, core1, source>>,
         sink_faulted' \in BOOLEAN, sink_faulted => sink_faulted',
         place \in {"update", "finish", "finished"} => state' = "Recording",
         place = "finished" => sink_faulted',
         state' = "Stopping" => state = "Stopping" \/ Publishing("finished")
  PROVE  StreamInv'
<1>1. pc'.at = place BY DEF At
<1>2. StreamTold' BY <1>1, QuietTold DEF StreamInv
<1>3. Closed => Closed' BY DEF Closed
<1>4. StopTold' BY <1>1, <1>3 DEF StreamInv, StopTold, Publishing
<1> QED BY <1>2, <1>4 DEF StreamInv

(* The acquisition publishes, and closes the session at its end. *)
LEMMA PublishStep ==
  ASSUME StreamInv, pc.at # "publish",
         NEW kind \in {"Sample", "Break"}, NEW what \in Whats,
         NEW back \in {"update", "finish", "finished", "configure"},
         kind = "Break" => what # InvalidSample,
         publish(kind, what, back),
         back # "configure" => state = "Recording",
         back = "configure" => state \in {"Maintenance", "Faulted"},
         back = "finished" => kind = "Break" /\ what = "ProcessingReset"
  PROVE  StreamInv'
<1>1. StreamTold' BY PublishTold DEF StreamInv
<1>2. /\ \A place \in {"update", "finish", "finished"} :
           Publishing(place)' => place = back
      /\ state' = state /\ state # "Stopping"
  BY DEF publish, At, Publishing
<1>3. back = "finished" => sink_faulted' \/ Closed'
  <2> SUFFICES ASSUME back = "finished", ~sink_faulted' PROVE Closed' OBVIOUS
  <2>1. source' = Append(source, Content("Break", "ProcessingReset")) BY DEF publish
  <2>2. source \in Seq(Given) BY DEF StreamInv, StreamTold, StreamTypes
  <2>3. Content("Break", "ProcessingReset") \in Given BY DEF Content, Given
  <2>4. source' # <<>> /\ source'[Len(source')] = Content("Break", "ProcessingReset")
    <3> DEFINE c == Content("Break", "ProcessingReset")
    <3> HIDE DEF c
    <3>1. /\ source' # <<>> /\ Len(source') = Len(source) + 1
          /\ source'[Len(source) + 1] = c
      BY <2>1, <2>2, <2>3, AppendProperties DEF c
    <3> QED BY <3>1 DEF c
  <2> QED BY <2>4 DEF Closed
<1>4. pc'.at = "publish" /\ pc'.back = "configure" => back = "configure"
  BY DEF publish, At
<1>5. StopTold' BY <1>2, <1>3, <1>4 DEF StopTold
<1> QED BY <1>1, <1>5 DEF StreamInv

(* One event of the sensor's FIFO. *)
LEMMA FifoStep ==
  ASSUME StreamInv, NEW back \in {"update", "finish", "configure"},
         pc.at = back, service_fifo(back),
         back = "configure" => state \in {"Maintenance", "Faulted"}
  PROVE  StreamInv'
<1>1. back # "configure" => state = "Recording" BY DEF StreamInv, StopTold, Publishing
<1>2. CASE publish_sample(back)
  <2>1. PICK v \in Samples \cup {InvalidSample} : publish("Sample", v, back)
    BY <1>2 DEF publish_sample
  <2>2. v \in Whats BY DEF Whats
  <2> QED BY <1>1, <2>1, <2>2, PublishStep
<1>3. CASE \E why \in BreakReasons : publish("Break", why, back)
  <2>1. PICK why \in BreakReasons : publish("Break", why, back) BY <1>3
  <2>2. why \in Whats /\ why # InvalidSample BY StreamAssumption DEF Whats
  <2> QED BY <1>1, <2>1, <2>2, PublishStep
<1> QED BY <1>2, <1>3 DEF service_fifo

(* The claimed event leaves core 0's hands. *)
LEMMA ClaimStep ==
  ASSUME StreamInv, published \/ refused
  PROVE  StreamInv'
<1>1. StreamTold' /\ pc' = At(pc.back) /\ pc.at = "publish" /\ ClaimTold
  BY PublishedTold, RefusedTold
  DEF StreamInv, StreamTold, published, refused
<1>2. /\ state' = state /\ source' = source /\ ~sink_faulted
      /\ pc'.at = pc.back /\ pc.back # "publish"
  BY <1>1 DEF published, refused, core1, ClaimTold, At
<1>3. Closed' = Closed BY <1>2 DEF Closed
<1>4. StopTold' BY <1>1, <1>2, <1>3 DEF StreamInv, StopTold, Publishing
<1> QED BY <1>1, <1>4 DEF StreamInv

LEMMA CommandStep ==
  ASSUME StreamInv, start \/ stop \/ enter_maintenance \/ exit_maintenance
                      \/ other_command
  PROVE  StreamInv'
<1> USE DEF Command
<1>1. sink_faulted \in BOOLEAN BY DEF StreamInv, StreamTold, StreamTypes
<1>2. /\ pc.at = "command"
      /\ UNCHANGED <<in, queue, core1, source>> /\ sink_faulted' = sink_faulted
  BY DEF start, stop, enter_maintenance, exit_maintenance, other_command
<1>3. PICK place \in {"health", "finish", "stop_command"} :
        /\ pc' = At(place)
        /\ place = "finish" => state' = "Recording"
        /\ state' = "Stopping" => state = "Stopping"
  BY DEF start, stop, enter_maintenance, exit_maintenance, other_command
<1> QED BY <1>1, <1>2, <1>3, QuietStep

(* One step of either core. *)
LEMMA StreamStep ==
  ASSUME StreamInv, [StreamNext]_streamVars
  PROVE  StreamInv'
<1>0. sink_faulted \in BOOLEAN /\ in.faulted \in BOOLEAN
  BY DEF StreamInv, StreamTold, StreamTypes, Ingresses
<1>1. CASE UNCHANGED streamVars
  <2>1. /\ state' = state /\ pc' = pc /\ in' = in /\ queue' = queue
        /\ sink_faulted' = sink_faulted /\ appended' = appended
        /\ journal' = journal /\ source' = source
    BY <1>1 DEF streamVars, core1
  <2>2. Unread' = Unread /\ Backlog' = Backlog /\ Closed' = Closed
    BY <2>1 DEF Unread, Backlog, Closed
  <2> QED BY <2>1, <2>2
    DEF StreamInv, StreamTold, StreamTypes, JournalTold, BacklogTold,
        ClaimTold, RestTold, StopTold, Publishing
<1>2. CASE CheckLatch BY <1>0, <1>2, QuietStep DEF CheckLatch
<1>3. CASE start \/ stop \/ enter_maintenance \/ exit_maintenance
             \/ other_command
  BY <1>3, CommandStep
<1>4. CASE flush_pending
  <2>1. StreamTold' BY <1>4, FlushTold DEF StreamInv
  <2>2. /\ state' = state /\ pc' = pc /\ source' = source
        /\ sink_faulted' = sink_faulted
    BY <1>4 DEF flush_pending, core1
  <2> QED BY <2>1, <2>2 DEF StreamInv, StopTold, Publishing, Closed
<1>5. CASE service_ingress_health
  <2>1. /\ pc.at # "publish" /\ UNCHANGED <<in, queue, core1, source>>
        /\ sink_faulted' = (sink_faulted \/ in.faulted)
        /\ state' = IF sink_faulted' THEN "Faulted" ELSE state
    BY <1>5 DEF service_ingress_health
  <2>2. PICK place \in {"stop", "update", "configure"} :
          /\ pc' = At(place)
          /\ place = "update" => state' = "Recording"
    BY <1>5 DEF service_ingress_health
  <2> QED BY <1>0, <2>1, <2>2, QuietStep
<1>6. CASE progress_stop
  <2>1. /\ pc.at # "publish" /\ UNCHANGED <<in, queue, core1, source>>
        /\ sink_faulted' = (sink_faulted \/ in.faulted)
        /\ state' = "Stopping" => state = "Stopping"
    BY <1>6 DEF progress_stop
  <2>2. PICK place \in {"configure", "health"} : pc' = At(place)
    BY <1>6 DEF progress_stop
  <2> QED BY <1>0, <2>1, <2>2, QuietStep
<1>7. CASE published \/ refused BY <1>7, ClaimStep
<1>8. CASE update
  <2>1. CASE service_fifo("update") BY <1>8, <2>1, FifoStep DEF update
  <2>2. CASE Goto("health_after", state) BY <1>0, <1>8, <2>2, QuietStep DEF update, Goto
  <2> QED BY <1>8, <2>1, <2>2 DEF update
<1>9. CASE finish_recording
  <2>1. CASE pc.at = "finish" /\ service_fifo("finish") BY <2>1, FifoStep
  <2>2. CASE pc.at = "finish" /\ publish("Break", "ProcessingReset", "finished")
    <3>1. "ProcessingReset" \in Whats /\ "ProcessingReset" # InvalidSample
      BY StreamAssumption DEF Whats
    <3>2. state = "Recording" BY <2>2 DEF StreamInv, StopTold, Publishing
    <3> QED BY <2>2, <3>1, <3>2, PublishStep
  <2>3. CASE pc.at = "finish" /\ sink_faulted /\ Goto("finished", state)
    <3>1. state = "Recording" BY <2>3 DEF StreamInv, StopTold, Publishing
    <3> QED BY <1>0, <2>3, <3>1, QuietStep DEF Goto
  <2>4. CASE pc.at = "finish" /\ Goto("health", "Faulted")
    BY <1>0, <2>4, QuietStep DEF Goto
  <2>5. CASE pc.at = "finished" /\ Goto("stop_command", "Stopping")
    <3>1. Publishing("finished") BY <2>5 DEF Publishing
    <3> QED BY <1>0, <2>5, <3>1, QuietStep DEF Goto
  <2> QED BY <1>9, <2>1, <2>2, <2>3, <2>4, <2>5 DEF finish_recording
<1>10. CASE configure
  <2>1. CASE /\ pc.at = "configure" /\ state \in {"Maintenance", "Faulted"}
             /\ service_fifo("configure")
    BY <2>1, FifoStep
  <2>2. CASE pc.at = "configure" /\ Goto("poll", state)
    BY <1>0, <2>2, QuietStep DEF Goto
  <2> QED BY <1>10, <2>1, <2>2 DEF configure
<1>11. CASE append_front \/ pop_front
  <2>1. StreamTold' BY <1>11, AppendTold, PopTold DEF StreamInv
  <2>2. state' = state /\ pc' = pc /\ sink_faulted' = sink_faulted
        /\ source' = source
    BY <1>11 DEF append_front, pop_front, core0
  <2> QED BY <2>1, <2>2 DEF StreamInv, StopTold, Publishing, Closed
<1> QED BY <1>1, <1>2, <1>3, <1>4, <1>5, <1>6, <1>7, <1>8, <1>9, <1>10, <1>11
  DEF StreamNext, Core0, Core1

LEMMA StreamStart ==
  ASSUME StreamInit
  PROVE  StreamInv
<1>1. /\ state \in {"Idle", "Faulted"} /\ pc.at = "poll" /\ in = NewIngress
      /\ sink_faulted = FALSE /\ queue = <<>> /\ appended = FALSE
      /\ journal = <<>> /\ source = <<>>
  BY DEF StreamInit, At
<1>2. in \in Ingresses /\ in.next = 0 /\ in.pending = <<>> /\ ~in.faulted
  <2>1. <<>> \in Seq(Events) BY EmptySeq
  <2> QED BY <1>1, <2>1 DEF NewIngress, Ingresses
<1>3. /\ queue \in Seq(Events) /\ source \in Seq(Given)
      /\ journal \in Seq([kind : Kinds, what : Whats])
      /\ Len(journal) = 0 /\ Len(source) = 0
  BY <1>1, EmptySeq
<1>4. StreamTypes BY <1>1, <1>2, <1>3 DEF StreamTypes
<1>5. Backlog = <<>>
  <2>1. Unread = <<>> /\ Unread \in Seq(Events) BY <1>1, <1>4, BacklogParts
  <2>2. Unread \o <<>> = Unread BY <2>1, ConcatEmptySeq
  <2> QED BY <1>2, <2>1, <2>2 DEF Backlog
<1>6. JournalTold /\ BacklogTold /\ RestTold
  <2>1. Len(Backlog) = 0 /\ \A i \in 1..0 : FALSE BY <1>5, EmptySeq
  <2> QED BY <1>2, <1>3, <1>5, <2>1
    DEF JournalTold, BacklogTold, RestTold, Follows, AllTold, EndOf
<1>7. StopTold BY <1>1 DEF StopTold, Publishing
<1> QED BY <1>1, <1>4, <1>6, <1>7 DEF StreamInv, StreamTold

(* The whole pipeline, the claimed event included. *)
LEMMA PipelineTold ==
  ASSUME StreamInv
  PROVE  /\ Pipeline \in Seq(Events)
         /\ Follows(Pipeline, Len(journal)) /\ AllTold(Pipeline, source)
         /\ EndOf(Pipeline, Len(journal)) <= in.next
         /\ EndOf(Pipeline, Len(journal)) < in.next => in.faulted
<1>1. StreamTypes /\ BacklogTold BY DEF StreamInv, StreamTold
<1>2. /\ Backlog \in Seq(Events) /\ Len(journal) \in Nat /\ in.next \in Nat
  BY <1>1, BacklogParts
<1>3. CASE pc.at = "publish"
  <2>1. ClaimTold BY <1>3 DEF StreamInv, StreamTold
  <2>2. pc.event \in Events BY <2>1 DEF ClaimTold
  <2>3. Pipeline = Append(Backlog, pc.event)
    <3>1. Pipeline = Backlog \o <<pc.event>> BY <1>3 DEF Pipeline, Backlog, Unread
    <3> QED BY <1>2, <2>2, <3>1, AppendIsConcat
  <2> QED BY <1>1, <1>2, <2>1, <2>2, <2>3, EventAppended
    DEF BacklogTold, ClaimTold
<1>4. CASE pc.at # "publish"
  <2>1. Pipeline = Backlog
    <3>1. Pipeline = Backlog \o <<>> BY <1>4 DEF Pipeline, Backlog, Unread
    <3> QED BY <1>2, <3>1, ConcatEmptySeq
  <2>2. RestTold BY <1>4 DEF StreamInv, StreamTold
  <2> QED BY <1>1, <1>2, <2>1, <2>2 DEF BacklogTold, RestTold
<1> QED BY <1>3, <1>4

LEMMA StreamInvExact ==
  ASSUME StreamInv
  PROVE  StreamExact
<1> DEFINE n == Len(Pipeline)
           starts == [i \in 1..(n + 1) |->
                        IF i = 1 THEN Len(journal)
                        ELSE event_end(Pipeline[i - 1])]
<1>1. /\ Pipeline \in Seq(Events)
      /\ Follows(Pipeline, Len(journal)) /\ AllTold(Pipeline, source)
      /\ EndOf(Pipeline, Len(journal)) <= in.next
      /\ EndOf(Pipeline, Len(journal)) < in.next => in.faulted
  BY PipelineTold
<1>2. n \in Nat BY <1>1, LenProperties
<1>3. \A i \in 1..n : Pipeline[i].first = starts[i]
  <2>1. \A i \in 1..n : i \in 1..(n + 1) BY <1>2
  <2> QED BY <1>1, <2>1 DEF Follows
<1>4. starts[n + 1] = EndOf(Pipeline, Len(journal))
  <2>1. n + 1 \in 1..(n + 1) /\ (n + 1) - 1 = n /\ (n + 1 = 1 <=> n = 0) BY <1>2
  <2>2. Pipeline = <<>> <=> n = 0 BY <1>1, EmptySeq
  <2> QED BY <2>1, <2>2 DEF EndOf
<1>5. \A q \in 1..Len(journal) : Accounts(journal[q], source[q])
  BY DEF StreamInv, StreamTold, JournalTold
<1>6. \A i \in 1..n :
        LET e == Pipeline[i]
        IN  \A q \in e.first..(event_end(e) - 1) :
              Accounts(Content(e.kind, e.what), source[q + 1])
  BY <1>1 DEF AllTold, Told
<1>7. /\ \A i \in 1..n : Pipeline[i].first = starts[i]
      /\ starts[n + 1] <= in.next
      /\ starts[n + 1] < in.next => in.faulted
  BY <1>1, <1>3, <1>4
<1> QED BY <1>5, <1>6, <1>7 DEF StreamExact

(* The step that ends a stop has delivered everything. *)
LEMMA StopDelivered ==
  ASSUME StreamInv, StreamNext, state = "Stopping", state' = "Idle"
  PROVE  /\ Len(journal) = in.next
         /\ journal # <<>>
         /\ journal[Len(journal)] = Content("Break", "ProcessingReset")
<1>1. progress_stop
  BY DEF StreamNext, Core0, Core1, CheckLatch, start, stop, enter_maintenance,
         exit_maintenance, other_command, Command, flush_pending,
         service_ingress_health, published, refused, update, service_fifo,
         publish_sample, publish, Goto, finish_recording, configure,
         append_front, pop_front, core0
<1>2. /\ pc.at # "publish" /\ settled /\ ~sink_faulted
  BY <1>1 DEF progress_stop, settled
<1>3. /\ StreamTypes /\ JournalTold /\ BacklogTold /\ RestTold /\ Closed
  BY <1>2 DEF StreamInv, StreamTold, StopTold
<1>4. Backlog = <<>>
  <2>1. queue = <<>> /\ in.pending = <<>> /\ ~appended
    BY <1>2, <1>3 DEF settled, StreamTypes
  <2>2. Unread = <<>> /\ Unread \in Seq(Events) BY <1>3, <2>1, BacklogParts
  <2>3. Unread \o <<>> = Unread BY <2>2, ConcatEmptySeq
  <2> QED BY <2>1, <2>2, <2>3 DEF Backlog
<1>5. /\ Len(journal) \in Nat /\ in.next \in Nat BY <1>3, BacklogParts
<1>6. Len(journal) = in.next /\ Len(source) = in.next
  BY <1>2, <1>3, <1>4, <1>5 DEF RestTold, EndOf, BacklogTold, settled
<1>7. Len(journal) # 0
  <2>1. source \in Seq(Given) /\ source # <<>> BY <1>3 DEF StreamTypes, Closed
  <2> QED BY <1>6, <2>1, EmptySeq
<1>8. journal # <<>> /\ Len(journal) \in 1..Len(journal) BY <1>5, <1>7, EmptySeq
<1>9. Accounts(journal[Len(journal)], Content("Break", "ProcessingReset"))
  BY <1>3, <1>6, <1>8 DEF JournalTold, Closed
<1>10. journal[Len(journal)] = Content("Break", "ProcessingReset")
  BY <1>9 DEF Accounts, Content
<1> QED BY <1>6, <1>8, <1>10

LEMMA StreamAlways == StreamSpec => []StreamInv
<1>1. StreamInit => StreamInv BY StreamStart
<1>2. StreamInv /\ [StreamNext]_streamVars => StreamInv' BY StreamStep
<1> QED BY <1>1, <1>2, PTL DEF StreamSpec

(* Whatever the interleaving of the two cores, the journal, the queue and
   the pending events account for every sequence of the source, in order,
   and only a fault leaves the newest unreported: publish_sample,
   flush_pending and consume_ingress_once between them lose nothing. *)
THEOREM StreamIsExact == StreamSpec => []StreamExact
<1>1. StreamInv => StreamExact BY StreamInvExact
<1> QED BY <1>1, StreamAlways, PTL

(* A stop that progress_stop completes has delivered the session: the
   journal holds every sequence and ends with the ProcessingReset break. *)
THEOREM StopsDeliver == StreamSpec => StopDelivers
<1>1. StreamInv /\ [StreamNext]_streamVars
        => [(state = "Stopping" /\ state' = "Idle") =>
              /\ Len(journal) = in.next
              /\ journal # <<>>
              /\ journal[Len(journal)]
                   = Content("Break", "ProcessingReset")]_streamVars
  BY StopDelivered DEF streamVars
<1> QED BY <1>1, StreamAlways, PTL DEF StreamSpec, StopDelivers

------------------------
(* The group of nodes that the host brings to a state. *)

NodeStates == {"Idle", "Maintenance", "Recording", "Stopping", "Faulted"}

Actions ==
  {"GetState", "Start", "Stop", "EnterMaintenance", "ExitMaintenance",
   "Restart"}

Codes == {None, "Ok", "InProgress", "TransitionFailed", "InvalidState", "Faulted"}

NodeRecords ==
  [state : NodeStates, boot : Nat,
   cmd : [action : Actions \cup {None}, id : 0..3],
   last : [id : 0..3, code : Codes, state : NodeStates \cup {None}],
   restart : BOOLEAN]

Operations ==
  [target : {"Idle", "Maintenance", "Recording"},
   observed : NodeStates \cup {None}, pending : Actions \cup {None},
   orderly : Nat, restarts : Nat, cycles : Nat,
   status : {"Converging", "Offline", "Reached", "ConvergenceFailed", "Same",
             "Recover"},
   phase : {"Ready", "Lifecycle", "RestartDelay", "RestartHandshake",
            "Submitted"},
   epoch : Nat, seen : Nat, read : Nat]

Works ==
  [kind : {None, "lifecycle", "handshake", "stream"},
   node : NodeSet \cup {None}, action : Actions \cup {None}, id : 0..3,
   boot : Nat, phase : {None, "ready", "awaiting"}]

GroupTypes ==
  /\ job \in {"converge", "verify"}
  /\ ops \in [DOMAIN Nodes -> Operations]
  /\ current \in Nat \ {0}
  /\ fell \in BOOLEAN
  /\ work \in Works
  /\ answer.kind \in {"result", "report"} => answer.boot \in Nat
  /\ answer.kind = "result" => answer.state \in NodeStates \cup {None}
  /\ node \in [NodeSet -> NodeRecords]

(* One node booted last: reboots are numbered through the group. *)
BootsOrdered ==
  \E m \in NodeSet : \A n \in NodeSet : node[n].boot <= node[m].boot

(* The work of the agent is that of the node being driven, and only its
   attempt in flight is answered. *)
WorkTold ==
  /\ answer.kind # None => InFlight
  /\ answer.kind = "report" => work.kind # "lifecycle"
  /\ work # NoWork =>
       /\ outcome = None /\ current \in DOMAIN Nodes /\ work.node = Me
       /\ \/ /\ Op.phase = "Lifecycle"
             /\ work.kind = "lifecycle" /\ work.action = Op.pending
          \/ Op.phase = "RestartHandshake" /\ work.kind = "handshake"
          \/ /\ Op.phase = "Submitted" /\ Op.cycles \in 0..2
             /\ work.kind = Phases[Op.cycles + 1] /\ work.action = "GetState"
  /\ \A i \in DOMAIN Nodes :
       /\ ops[i].phase = "Submitted" <=>
            job = "verify" /\ ops[i].phase # "Ready"
       /\ job = "converge" /\ ops[i].phase # "Ready" =>
            ops[i].status = "Converging"

(* Evidence is read in the order of the boots. *)
VerifyTold ==
  /\ \A i \in DOMAIN Nodes :
       /\ ops[i].cycles \in 0..3
       /\ ops[i].cycles \in 1..2 => ops[i].seen <= node[Nodes[i]].boot
       /\ ops[i].cycles = 2 => /\ ops[i].seen <= ops[i].read
                               /\ ops[i].read <= node[Nodes[i]].boot
       /\ ops[i].cycles = 3 => ops[i].read = ops[i].seen
  /\ work # NoWork =>
       /\ work.boot <= node[Me].boot
       /\ answer.kind \in {"result", "report"} =>
            /\ answer.boot <= node[Me].boot
            /\ Op.cycles = 1 => Op.seen <= answer.boot
            /\ Op.cycles = 2 => Op.read <= answer.boot

(* A node that has nothing left to do. *)
Settled(i) ==
  /\ node[Nodes[i]].state = ops[i].target
  /\ node[Nodes[i]].cmd = NoCommand
  /\ ~node[Nodes[i]].restart

(* A command that was answered has left its mark on the node. *)
Executing ==
  work.kind = "lifecycle" /\ work.action # "Restart" =>
    /\ node[Me].last.id = work.id =>
         /\ node[Me].cmd = NoCommand
         /\ node[Me].last.state # "Stopping" =>
              node[Me].state = node[Me].last.state
    /\ answer.kind = "result" =>
         node[Me].last.id = work.id /\ answer.state = node[Me].last.state

(* The node being driven: a restart that was asked for is waited for, and
   what was last observed, if it is the target, still is so. *)
Driven ==
  /\ node[Me].restart => NextStep(Op) = "Restart"
  /\ Op.observed = Op.target =>
       Op.orderly = 0 /\ Op.phase = "Ready" /\ Settled(current)
  /\ Op.phase # "Ready" => Op.pending = NextStep(Op)
  /\ Op.phase \in {"RestartDelay", "RestartHandshake"} => Op.pending = "Restart"
  /\ Op.phase = "RestartHandshake" => ~node[Me].restart
  /\ Executing

ConvergeTold ==
  /\ \A i \in DOMAIN Nodes :
       /\ i < current => Settled(i)
       /\ i > current => /\ ops[i].observed = None /\ ops[i].phase = "Ready"
                         /\ ~node[Nodes[i]].restart
  /\ current \in DOMAIN Nodes => Driven
  /\ outcome = "Complete" => current \notin DOMAIN Nodes

Orderly == job = "converge" /\ ~fell /\ job \notin Spontaneous

GroupInv ==
  /\ GroupTypes /\ BootsOrdered /\ WorkTold
  /\ job = "verify" => VerifyTold
  /\ Orderly => ConvergeTold

LEMMA GroupFacts ==
  ASSUME GroupTypes
  PROVE  /\ \A i \in DOMAIN Nodes :
              /\ Nodes[i] \in NodeSet /\ ops[i] \in Operations
              /\ node[Nodes[i]] \in NodeRecords
              /\ i \in Nat \ {0}
         /\ \A i, j \in DOMAIN Nodes : Nodes[i] = Nodes[j] => i = j
         /\ \A n \in NodeSet : \E i \in DOMAIN Nodes : n = Nodes[i]
         /\ DOMAIN Nodes = 1..Len(Nodes) /\ Len(Nodes) \in Nat \ {0}
<1>1. /\ Nodes \in Seq(STRING) /\ Nodes # <<>> /\ IsInjective(Nodes)
  BY SafeStateAssumption
<1>2. DOMAIN Nodes = 1..Len(Nodes) /\ Len(Nodes) \in Nat \ {0} BY <1>1, EmptySeq
<1>3. \A i \in DOMAIN Nodes : Nodes[i] \in NodeSet BY DEF NodeSet, Range
<1>4. \A n \in NodeSet : \E i \in DOMAIN Nodes : n = Nodes[i] BY DEF NodeSet, Range
<1>5. \A i, j \in DOMAIN Nodes : Nodes[i] = Nodes[j] => i = j BY <1>1 DEF IsInjective
<1> QED BY <1>2, <1>3, <1>4, <1>5 DEF GroupTypes

(* The latest boot is one of the boots. *)
LEMMA LatestBoot ==
  ASSUME GroupTypes, BootsOrdered
  PROVE  Boots \in Nat /\ \A n \in NodeSet : node[n].boot <= Boots
<1>1. PICK m \in NodeSet : \A n \in NodeSet : node[n].boot <= node[m].boot
  BY DEF BootsOrdered
<1> DEFINE b == {node[n].boot : n \in NodeSet}
<1>2. \A n \in NodeSet : node[n].boot \in Nat BY DEF GroupTypes, NodeRecords
<1>3. node[m].boot \in b /\ \A x \in b : node[m].boot >= x BY <1>1, <1>2
<1>4. Boots \in b /\ \A x \in b : Boots >= x BY <1>3 DEF Boots
<1> QED BY <1>2, <1>4

(* An id that is neither waiting nor remembered exists. *)
LEMMA FreeId ==
  ASSUME NEW a, NEW b
  PROVE  /\ (CHOOSE i \in 1 .. 3 : i \notin {a, b}) \in 1..3
         /\ (CHOOSE i \in 1 .. 3 : i \notin {a, b}) \notin {a, b}
<1>1. \E i \in 1..3 : i \notin {a, b}
  <2>1. 1 \in 1..3 /\ 2 \in 1..3 /\ 3 \in 1..3 OBVIOUS
  <2>2. 1 # 2 /\ 1 # 3 /\ 2 # 3 OBVIOUS
  <2> QED BY <2>1, <2>2
<1> QED BY <1>1

(* A node executes what waits: the answer is there only afterwards. *)
LEMMA ExecuteStep ==
  ASSUME GroupInv, NEW n \in NodeSet, Execute(n)
  PROVE  GroupInv'
<1>1. /\ GroupTypes /\ BootsOrdered /\ WorkTold
      /\ job = "verify" => VerifyTold
      /\ Orderly => ConvergeTold
  BY DEF GroupInv
<1>2. /\ job' = job /\ ops' = ops /\ current' = current /\ due' = due
      /\ outcome' = outcome /\ fell' = fell /\ work' = work /\ answer' = answer
      /\ node[n].cmd # NoCommand
  BY DEF Execute, groupVars
<1>3. PICK r \in Executed(node[n].cmd.action, node[n].state) :
        node' = [node EXCEPT ![n].state = r.state, ![n].cmd = NoCommand,
                   ![n].last = IF r.code = "InProgress" THEN @
                               ELSE [id |-> node[n].cmd.id, code |-> r.code,
                                     state |-> r.state]]
  BY DEF Execute
<1>4. node[n] \in NodeRecords /\ node \in [NodeSet -> NodeRecords]
  BY <1>1 DEF GroupTypes
<1>5. r.state \in NodeStates /\ r.code \in Codes
  <2>1. /\ node[n].cmd.action \in Actions \cup {None}
        /\ node[n].state \in NodeStates
    BY <1>4 DEF NodeRecords
  <2> QED BY <1>3, <2>1 DEF Executed, NodeStates, Codes, Actions
<1>6. /\ node'[n].state = r.state /\ node'[n].cmd = NoCommand
      /\ node'[n].last = IF r.code = "InProgress" THEN node[n].last
                         ELSE [id |-> node[n].cmd.id, code |-> r.code,
                               state |-> r.state]
      /\ node'[n].boot = node[n].boot /\ node'[n].restart = node[n].restart
      /\ \A m \in NodeSet : m # n => node'[m] = node[m]
  BY <1>3, <1>4 DEF NodeRecords
<1>7. node' \in [NodeSet -> NodeRecords]
  <2>1. NoCommand \in [action : Actions \cup {None}, id : 0..3] BY DEF NoCommand
  <2>2. node[n].cmd.id \in 0..3 /\ node[n].last \in [id : 0..3, code : Codes, state : NodeStates \cup {None}]
    BY <1>4 DEF NodeRecords
  <2>3. [id |-> node[n].cmd.id, code |-> r.code, state |-> r.state]
          \in [id : 0..3, code : Codes, state : NodeStates \cup {None}]
    BY <1>5, <2>2
  <2> QED BY <1>3, <1>4, <1>5, <2>1, <2>2, <2>3 DEF NodeRecords
<1>8. GroupTypes' BY <1>1, <1>2, <1>7 DEF GroupTypes
<1>9. \A m \in NodeSet : /\ node'[m].boot = node[m].boot
                         /\ node'[m].restart = node[m].restart
  BY <1>6
<1>10. BootsOrdered' BY <1>1, <1>9 DEF BootsOrdered
<1>11. WorkTold' BY <1>1, <1>2 DEF WorkTold, InFlight, Me, Op
<1>12. VerifyTold => VerifyTold'
  <2>1. \A i \in DOMAIN Nodes : Nodes[i] \in NodeSet BY <1>1, GroupFacts
  <2>2. work # NoWork => current \in DOMAIN Nodes BY <1>1 DEF WorkTold
  <2> QED BY <1>2, <1>9, <2>1, <2>2 DEF VerifyTold, Me, Op
<1>13. ASSUME ConvergeTold PROVE ConvergeTold'
  <2>1. /\ \A i \in DOMAIN Nodes : Nodes[i] \in NodeSet
        /\ \A i, j \in DOMAIN Nodes : Nodes[i] = Nodes[j] => i = j
    BY <1>1, GroupFacts
  <2>2. \A i \in DOMAIN Nodes : Settled(i) => Settled(i)'
    BY <1>2, <1>6, <2>1 DEF Settled
  <2>3. ASSUME current \in DOMAIN Nodes PROVE Driven'
    <3>1. Driven BY <1>13, <2>3 DEF ConvergeTold
    <3>2. Executing'
      <4>1. CASE n # Me BY <1>2, <1>6, <2>1, <2>3, <3>1, <4>1 DEF Driven, Executing, Me
      <4>2. CASE n = Me BY <1>2, <1>6, <2>1, <2>3, <3>1, <4>2 DEF Driven, Executing, Me
      <4> QED BY <4>1, <4>2
    <3>3. Me \in NodeSet /\ Me' = Me /\ Op' = Op BY <1>2, <2>1, <2>3 DEF Me, Op
    <3>4. Settled(current) => Settled(current)' BY <2>2, <2>3, <1>2 
    <3> QED BY <1>2, <1>9, <3>1, <3>2, <3>3, <3>4 DEF Driven
  <2> QED BY <1>2, <1>9, <1>13, <2>1, <2>2, <2>3 DEF ConvergeTold
<1> QED BY <1>1, <1>2, <1>8, <1>10, <1>11, <1>12, <1>13 DEF GroupInv, Orderly

(* A node moves: only a restart that was asked for reboots it, unless
   nodes reboot by themselves. *)
LEMMA MovesStep ==
  ASSUME GroupInv, NEW n \in NodeSet, NodeMoves(n)
  PROVE  GroupInv'
<1>1. /\ GroupTypes /\ BootsOrdered /\ WorkTold
      /\ job = "verify" => VerifyTold
      /\ Orderly => ConvergeTold
  BY DEF GroupInv
<1>2. /\ job' = job /\ ops' = ops /\ current' = current /\ due' = due
      /\ outcome' = outcome /\ fell' = fell /\ work' = work /\ answer' = answer
  BY DEF NodeMoves, groupVars
<1>3. /\ node[n] \in NodeRecords /\ node \in [NodeSet -> NodeRecords]
      /\ Boots \in Nat /\ \A m \in NodeSet : node[m].boot <= Boots
      /\ \A m \in NodeSet : node[m].boot \in Nat
  BY <1>1, LatestBoot DEF GroupTypes, NodeRecords
<1>4. \/ /\ node' = [node EXCEPT ![n] = Booted(Boots + 1)]
         /\ node[n].restart \/ job \in Spontaneous
      \/ /\ node' = [node EXCEPT ![n].state = "Idle"]
         /\ node[n].state = "Stopping"
  BY DEF NodeMoves
<1>5. /\ Booted(Boots + 1) \in NodeRecords /\ Booted(Boots + 1).boot = Boots + 1
      /\ ~Booted(Boots + 1).restart
  <2>1. /\ NoCommand \in [action : Actions \cup {None}, id : 0..3]
        /\ NoResult \in [id : 0..3, code : Codes, state : NodeStates \cup {None}]
    BY DEF NoCommand, NoResult, Codes
  <2>2. NewNode("Idle") \in NodeRecords /\ ~NewNode("Idle").restart
    BY <2>1 DEF NewNode, NodeRecords, NodeStates
  <2>3. Boots + 1 \in Nat BY <1>3
  <2> DEFINE fresh == NewNode("Idle")
  <2> HIDE DEF fresh
  <2>4. fresh \in NodeRecords /\ ~fresh.restart BY <2>2 DEF fresh
  <2>5. Booted(Boots + 1) = [fresh EXCEPT !.boot = Boots + 1] BY DEF Booted, fresh
  <2> QED BY <2>3, <2>4, <2>5 DEF NodeRecords
<1>6. /\ node' \in [NodeSet -> NodeRecords]
      /\ \A m \in NodeSet : m # n => node'[m] = node[m]
      /\ \/ node'[n].boot = Boots + 1
         \/ node'[n].boot = node[n].boot
      /\ node'[n].restart => node[n].restart
  <2>1. CASE node' = [node EXCEPT ![n] = Booted(Boots + 1)] BY <1>3, <1>5, <2>1
  <2>2. CASE node' = [node EXCEPT ![n].state = "Idle"]
    BY <1>3, <2>2 DEF NodeRecords, NodeStates
  <2> QED BY <1>4, <2>1, <2>2
<1>7. GroupTypes' BY <1>1, <1>2, <1>6 DEF GroupTypes
<1>8. \A m \in NodeSet : node'[m].boot \in Nat /\ node[m].boot <= node'[m].boot
  BY <1>3, <1>6
<1>9. BootsOrdered'
  <2>1. CASE node'[n].boot = Boots + 1 BY <1>3, <1>6, <2>1 DEF BootsOrdered
  <2>2. CASE node'[n].boot = node[n].boot
    <3>1. \A m \in NodeSet : node'[m].boot = node[m].boot BY <1>6, <2>2
    <3> QED BY <1>1, <3>1 DEF BootsOrdered
  <2> QED BY <1>6, <2>1, <2>2
<1>10. WorkTold' BY <1>1, <1>2 DEF WorkTold, InFlight, Me, Op
<1>11. ASSUME VerifyTold PROVE VerifyTold'
  <2>1. \A i \in DOMAIN Nodes : Nodes[i] \in NodeSet /\ ops[i] \in Operations
    BY <1>1, GroupFacts
  <2>2. work # NoWork => current \in DOMAIN Nodes /\ Me \in NodeSet
    BY <1>1, <2>1 DEF WorkTold, Me
  <2>3. work.boot \in Nat /\ (answer.kind \in {"result", "report"} => answer.boot \in Nat)
    BY <1>1 DEF GroupTypes, Works
  <2>4. \A i \in DOMAIN Nodes :
          /\ node[Nodes[i]].boot \in Nat /\ node'[Nodes[i]].boot \in Nat
          /\ node[Nodes[i]].boot <= node'[Nodes[i]].boot
          /\ ops[i].seen \in Nat /\ ops[i].read \in Nat
    BY <1>3, <1>8, <2>1 DEF Operations
  <2>5. \A i \in DOMAIN Nodes :
          /\ ops'[i].cycles \in 0..3
          /\ ops'[i].cycles \in 1..2 => ops'[i].seen <= node'[Nodes[i]].boot
          /\ ops'[i].cycles = 2 => /\ ops'[i].seen <= ops'[i].read
                                   /\ ops'[i].read <= node'[Nodes[i]].boot
          /\ ops'[i].cycles = 3 => ops'[i].read = ops'[i].seen
    BY <1>2, <1>11, <2>4 DEF VerifyTold
  <2>6. ASSUME work # NoWork
        PROVE  /\ work.boot <= node'[Me].boot
               /\ answer.kind \in {"result", "report"} =>
                    /\ answer.boot <= node'[Me].boot
                    /\ Op.cycles = 1 => Op.seen <= answer.boot
                    /\ Op.cycles = 2 => Op.read <= answer.boot
    <3>1. /\ work.boot <= node[Me].boot
          /\ answer.kind \in {"result", "report"} =>
               /\ answer.boot <= node[Me].boot
               /\ Op.cycles = 1 => Op.seen <= answer.boot
               /\ Op.cycles = 2 => Op.read <= answer.boot
      BY <1>11, <2>6 DEF VerifyTold
    <3>2. node[Me].boot \in Nat /\ node'[Me].boot \in Nat /\ node[Me].boot <= node'[Me].boot
      BY <1>3, <1>8, <2>2, <2>6
    <3> QED BY <2>3, <3>1, <3>2
  <2> QED BY <1>2, <2>5, <2>6 DEF VerifyTold, Me, Op
<1>12. ASSUME Orderly, ConvergeTold PROVE ConvergeTold'
  <2>1. /\ \A i \in DOMAIN Nodes : /\ Nodes[i] \in NodeSet /\ i \in Nat
                                   /\ ops[i].target # "Stopping"
        /\ \A i, j \in DOMAIN Nodes : Nodes[i] = Nodes[j] => i = j
        /\ current \in Nat
    BY <1>1, GroupFacts DEF Operations, GroupTypes
  <2>2. \A i \in DOMAIN Nodes : Settled(i) => Settled(i)'
    <3> SUFFICES ASSUME NEW i \in DOMAIN Nodes, Settled(i)
                 PROVE  node'[Nodes[i]] = node[Nodes[i]]
      BY <1>2 DEF Settled
    <3> QED BY <1>4, <1>6, <1>12, <2>1 DEF Orderly, Settled
  <2>3. ASSUME current \in DOMAIN Nodes PROVE Driven'
    <3>1. Driven BY <1>12, <2>3 DEF ConvergeTold
    <3>2. Me \in NodeSet /\ Me' = Me /\ Op' = Op BY <1>2, <2>1, <2>3 DEF Me, Op
    <3>3. Settled(current) => Settled(current)' BY <1>2, <2>2, <2>3
    <3>4. node'[Me].restart => node[Me].restart BY <1>6, <3>2
    <3>5. Executing'
      <4> SUFFICES ASSUME work.kind = "lifecycle", work.action # "Restart"
                   PROVE  Executing'
        BY <1>2 DEF Executing
      <4>1. work.action = Op.pending /\ Op.phase # "Ready"
        <5>1. work # NoWork BY DEF NoWork, None
        <5> QED BY <1>1, <1>12, <2>3, <5>1 DEF WorkTold, Orderly, Op
      <4>2. ~node[Me].restart BY <3>1, <4>1 DEF Driven
      <4>3. \/ node'[Me] = node[Me]
            \/ /\ node[Me].state = "Stopping"
               /\ node'[Me] = [node[Me] EXCEPT !.state = "Idle"]
        BY <1>3, <1>4, <1>6, <1>12, <3>2, <4>2 DEF Orderly
      <4>4. /\ node'[Me].cmd = node[Me].cmd /\ node'[Me].last = node[Me].last
            /\ node'[Me].state # node[Me].state => node[Me].state = "Stopping"
        BY <1>3, <3>2, <4>3 DEF NodeRecords
      <4> QED BY <1>2, <3>1, <3>2, <4>4 DEF Driven, Executing
    <3> QED BY <1>2, <3>1, <3>2, <3>3, <3>4, <3>5 DEF Driven
  <2>4. \A i \in DOMAIN Nodes : i > current /\ ~node[Nodes[i]].restart
          => ~node'[Nodes[i]].restart
    BY <1>6, <2>1
  <2> QED BY <1>2, <1>12, <2>2, <2>3, <2>4 DEF ConvergeTold
<1> QED BY <1>1, <1>2, <1>7, <1>9, <1>10, <1>11, <1>12 DEF GroupInv, Orderly

(* The agent sends a request, which the node may answer at once. *)
LEMMA AttemptStep ==
  ASSUME GroupInv, Attempt
  PROVE  GroupInv'
<1>1. /\ GroupTypes /\ BootsOrdered /\ WorkTold
      /\ job = "verify" => VerifyTold
      /\ Orderly => ConvergeTold
  BY DEF GroupInv
<1>2. /\ job' = job /\ ops' = ops /\ current' = current /\ due' = due
      /\ outcome' = outcome /\ fell' = fell /\ work # NoWork /\ ~InFlight
      /\ work' = [work EXCEPT !.phase = "awaiting"]
  BY DEF Attempt, groupVars
<1>3. /\ current \in DOMAIN Nodes /\ work.node = Me /\ outcome = None
      /\ answer.kind = None
  BY <1>1, <1>2 DEF WorkTold
<1>4. /\ Me \in NodeSet /\ Op \in Operations /\ node[Me] \in NodeRecords
      /\ node \in [NodeSet -> NodeRecords] /\ work \in Works
      /\ \A i \in DOMAIN Nodes : Nodes[i] \in NodeSet
      /\ \A i, j \in DOMAIN Nodes : Nodes[i] = Nodes[j] => i = j
  BY <1>1, <1>3, GroupFacts DEF Me, Op, GroupTypes
<1>5. /\ work' \in Works /\ work'.phase = "awaiting" /\ work'.kind = work.kind
      /\ work'.node = work.node /\ work'.action = work.action
      /\ work'.id = work.id /\ work'.boot = work.boot
  BY <1>2, <1>4 DEF Works
<1>6. work' # NoWork BY <1>5 DEF NoWork, None
<1> DEFINE Lost == answer' = answer /\ node' = node
           Reported == /\ work.kind # "lifecycle" /\ node' = node
                       /\ answer' = [kind |-> "report", boot |-> node[Me].boot]
           Restarted == /\ work.kind = "lifecycle" /\ work.action = "Restart"
                        /\ answer' = [kind |-> "result", code |-> "Ok",
                                      state |-> node[Me].state,
                                      boot |-> node[Me].boot]
                        /\ node' = [node EXCEPT ![Me].restart = TRUE]
           Remembered == /\ work.kind = "lifecycle" /\ work.action # "Restart"
                         /\ node[Me].last.id = work.id
                         /\ answer' = [kind |-> "result",
                                       code |-> node[Me].last.code,
                                       state |-> node[Me].last.state,
                                       boot |-> node[Me].boot]
                         /\ node' = node
           Taken == /\ work.kind = "lifecycle" /\ work.action # "Restart"
                    /\ node[Me].last.id # work.id
                    /\ answer' \in {[kind |-> "progress"], [kind |-> "busy"]}
                    /\ \/ node' = node
                       \/ node' = [node EXCEPT ![Me].cmd =
                                     [action |-> work.action, id |-> work.id]]
<1>7. Lost \/ Reported \/ Restarted \/ Remembered \/ Taken
  <2>1. CASE UNCHANGED <<answer, node>> BY <2>1
  <2>2. CASE Answers(work.node, work) BY <1>3, <2>2 DEF Answers, Accepts
  <2> QED BY <2>1, <2>2 DEF Attempt
<1>8. /\ node' \in [NodeSet -> NodeRecords]
      /\ \A m \in NodeSet : m # Me => node'[m] = node[m]
      /\ node'[Me].boot = node[Me].boot /\ node'[Me].last = node[Me].last
      /\ node'[Me].state = node[Me].state
      /\ node'[Me].restart # node[Me].restart =>
           work.kind = "lifecycle" /\ work.action = "Restart"
  <2>1. CASE node' = node BY <1>4, <2>1
  <2>2. CASE Restarted BY <1>4, <2>2 DEF NodeRecords
  <2>3. CASE node' = [node EXCEPT ![Me].cmd =
                        [action |-> work.action, id |-> work.id]]
    <3>1. [action |-> work.action, id |-> work.id]
            \in [action : Actions \cup {None}, id : 0..3]
      BY <1>4 DEF Works
    <3> QED BY <1>4, <2>3, <3>1 DEF NodeRecords
  <2> QED BY <1>7, <2>1, <2>2, <2>3
<1>9. /\ answer'.kind \in {"result", "report"} => answer'.boot = node[Me].boot
      /\ answer'.kind = "report" => work.kind # "lifecycle"
      /\ answer'.kind = "result" =>
           /\ work.kind = "lifecycle"
           /\ work.action # "Restart" =>
                /\ node[Me].last.id = work.id
                /\ answer'.state = node[Me].last.state /\ node' = node
           /\ answer'.state \in NodeStates \cup {None}
  <2>1. CASE Lost BY <1>3, <2>1 DEF None
  <2>2. CASE Reported BY <2>2
  <2>3. CASE Restarted BY <1>4, <2>3 DEF NodeRecords
  <2>4. CASE Remembered BY <1>4, <2>4 DEF NodeRecords
  <2>5. CASE Taken BY <2>5
  <2> QED BY <1>7, <2>1, <2>2, <2>3, <2>4, <2>5
<1>10. GroupTypes' BY <1>1, <1>2, <1>4, <1>5, <1>8, <1>9 DEF GroupTypes, NodeRecords
<1>11. \A m \in NodeSet : node'[m].boot = node[m].boot BY <1>8
<1>12. BootsOrdered' BY <1>1, <1>11 DEF BootsOrdered
<1>13. WorkTold' BY <1>1, <1>2, <1>5, <1>9 DEF WorkTold, InFlight, Me, Op
<1>14. ASSUME job = "verify", VerifyTold PROVE VerifyTold'
  <2>1. /\ work.boot <= node[Me].boot
        /\ Op.cycles = 1 => Op.seen <= node[Me].boot
        /\ Op.cycles = 2 => Op.read <= node[Me].boot
    BY <1>2, <1>3, <1>14 DEF VerifyTold, Me, Op
  <2>2. node[Me].boot \in Nat BY <1>4 DEF NodeRecords
  <2>3. /\ work.boot <= node'[Me].boot
        /\ answer'.kind \in {"result", "report"} =>
             /\ answer'.boot <= node'[Me].boot
             /\ Op.cycles = 1 => Op.seen <= answer'.boot
             /\ Op.cycles = 2 => Op.read <= answer'.boot
    BY <1>8, <1>9, <2>1, <2>2
  <2> QED BY <1>2, <1>4, <1>5, <1>11, <1>14, <2>3 DEF VerifyTold, Me, Op
<1>15. ASSUME Orderly, ConvergeTold PROVE ConvergeTold'
  <2>1. Driven /\ Op.phase # "Ready"
    BY <1>1, <1>2, <1>3, <1>15 DEF ConvergeTold, WorkTold
  <2>2. \A i \in DOMAIN Nodes : i # current => node'[Nodes[i]] = node[Nodes[i]]
    BY <1>3, <1>4, <1>8 DEF Me
  <2>3. work.kind = "lifecycle" => Op.phase = "Lifecycle" /\ work.action = Op.pending
    <3>1. job = "converge" BY <1>15 DEF Orderly
    <3> QED BY <1>1, <1>2, <1>3, <3>1 DEF WorkTold, Op
  <2>4. Executing'
    <3> SUFFICES ASSUME work.kind = "lifecycle", work.action # "Restart"
                 PROVE  Executing'
      BY <1>5 DEF Executing
    <3>1. node[Me].last.id = work.id => node' = node
      <4>1. CASE Lost \/ Reported \/ Restarted \/ Remembered BY <4>1
      <4>2. CASE Taken BY <4>2
      <4> QED BY <1>7, <4>1, <4>2
    <3> HIDE DEF Lost, Reported, Restarted, Remembered, Taken
    <3>2. Me' = Me BY <1>2 DEF Me
    <3> QED BY <1>5, <1>8, <1>9, <2>1, <3>1, <3>2 DEF Driven, Executing
  <2>5. Driven'
    <3>1. Me' = Me /\ Op' = Op BY <1>2 DEF Me, Op
    <3>2. node'[Me].restart => node[Me].restart \/ Op.pending = "Restart" BY <1>8, <2>3
    <3>3. Op.phase = "RestartHandshake" => ~node'[Me].restart
      BY <1>4, <1>8, <2>1, <2>3 DEF Driven, NodeRecords
    <3>4. node'[Me].restart => NextStep(Op) = "Restart" BY <2>1, <3>2 DEF Driven
    <3>5. Op.observed # Op.target BY <2>1 DEF Driven
    <3> QED BY <2>1, <2>4, <3>1, <3>3, <3>4, <3>5 DEF Driven
  <2> HIDE DEF Lost, Reported, Restarted, Remembered, Taken
  <2>6. \A i \in DOMAIN Nodes : i < current \/ i > current => i # current
    BY <1>1, GroupFacts DEF GroupTypes
  <2> QED BY <1>2, <1>3, <1>15, <2>2, <2>5, <2>6 DEF ConvergeTold, Settled
<1> QED BY <1>1, <1>2, <1>10, <1>12, <1>13, <1>14, <1>15 DEF GroupInv, Orderly

(* The attempt in flight ends without an answer that settles the work. *)
LEMMA WorkOnStep ==
  ASSUME GroupInv, TimesOut \/ Repeats \/ IdentityAccepted
  PROVE  GroupInv'
<1>1. /\ GroupTypes /\ BootsOrdered /\ WorkTold
      /\ job = "verify" => VerifyTold
      /\ Orderly => ConvergeTold
  BY DEF GroupInv
<1>2. /\ job' = job /\ ops' = ops /\ current' = current /\ due' = due
      /\ outcome' = outcome /\ fell' = fell /\ node' = node
      /\ answer' = NoAnswer /\ InFlight
      /\ \/ work' = [work EXCEPT !.phase = "ready"]
         \/ /\ work' = [work EXCEPT !.phase = "ready", !.boot = answer.boot]
            /\ answer.kind = "report"
  BY DEF TimesOut, Repeats, IdentityAccepted, groupVars
<1>3. work # NoWork /\ answer'.kind = None /\ None # "result" /\ None # "report"
  BY <1>2 DEF InFlight, NoWork, NoAnswer, None
<1>4. /\ work' \in Works /\ work'.kind = work.kind /\ work'.node = work.node
      /\ work'.action = work.action /\ work'.id = work.id
      /\ \/ work'.boot = work.boot
         \/ work'.boot = answer.boot /\ answer.kind = "report"
  BY <1>1, <1>2 DEF Works, GroupTypes
<1>5. Me' = Me /\ Op' = Op BY <1>2 DEF Me, Op
<1>6. GroupTypes' /\ BootsOrdered'
  BY <1>1, <1>2, <1>3, <1>4 DEF GroupTypes, BootsOrdered
<1>7. WorkTold' BY <1>1, <1>2, <1>3, <1>4, <1>5 DEF WorkTold
<1>8. VerifyTold => VerifyTold' BY <1>2, <1>3, <1>4, <1>5 DEF VerifyTold
<1>9. ConvergeTold => ConvergeTold'
  <2>1. Executing => Executing' BY <1>2, <1>3, <1>4, <1>5 DEF Executing
  <2>2. \A i : Settled(i)' <=> Settled(i) BY <1>2 DEF Settled
  <2>3. Driven => Driven' BY <1>2, <1>5, <2>1, <2>2 DEF Driven
  <2> QED BY <1>2, <2>2, <2>3 DEF ConvergeTold
<1> QED BY <1>1, <1>2, <1>6, <1>7, <1>8, <1>9 DEF GroupInv, Orderly

------------------------
(* What the host does with the group. *)

LEMMA VerifyStep ==
  ASSUME GroupInv, Verify
  PROVE  GroupInv'
<1>1. /\ GroupTypes /\ BootsOrdered /\ WorkTold /\ VerifyTold
      /\ job = "verify" /\ outcome = None /\ current \in DOMAIN Nodes
      /\ job' = job /\ fell' = fell /\ node' = node
  <2>1. current \in Nat \ {0} /\ DOMAIN Nodes = 1..Len(Nodes) /\ Len(Nodes) \in Nat
    BY GroupFacts DEF GroupInv, GroupTypes
  <2>2. /\ job = "verify" /\ outcome = None /\ current <= Len(Nodes)
        /\ job' = job /\ fell' = fell /\ node' = node
    BY DEF Verify, VerifyDrive, VerifyEvent, NodeVerified, VerifyExpired,
           Verifying, Running
  <2> QED BY <2>1, <2>2 DEF GroupInv
<1>2. /\ Me \in NodeSet /\ Op \in Operations /\ node[Me] \in NodeRecords
      /\ \A i \in DOMAIN Nodes : Nodes[i] \in NodeSet /\ ops[i] \in Operations
      /\ work \in Works /\ ops \in [DOMAIN Nodes -> Operations]
  BY <1>1, GroupFacts DEF Me, Op, GroupTypes
<1>3. Op.phase \in {"Ready", "Submitted"} BY <1>1, <1>2 DEF WorkTold, Op
<1>4. /\ answer.kind # None => InFlight
      /\ work # NoWork => /\ Op.phase = "Submitted" /\ Op.cycles \in 0..2
                          /\ work.kind = Phases[Op.cycles + 1]
      /\ InFlight => work # NoWork
  BY <1>1, <1>3 DEF WorkTold, InFlight, NoWork, None
<1>5. /\ Len(Phases) = 3 /\ Phases[1] = "handshake" /\ Phases[2] = "lifecycle"
      /\ Phases[3] = "stream"
  BY DEF Phases
<1>6. BootsOrdered' BY <1>1 DEF BootsOrdered
<1>7. SUFFICES GroupTypes' /\ WorkTold' /\ VerifyTold'
  BY <1>1, <1>6 DEF GroupInv, Orderly
<1>8. CASE VerifyDrive
  <2> DEFINE id == CHOOSE i \in 1 .. 3 : i \notin {node[Me].cmd.id, node[Me].last.id}
  <2>1. id \in 1..3 BY FreeId
  <2> HIDE DEF id
  <2>2. /\ current' = current /\ outcome' = outcome /\ answer' = answer
        /\ work = NoWork /\ Op.cycles < 3
        /\ ops' = [ops EXCEPT ![current].phase = "Submitted"]
        /\ work' = [kind |-> Phases[Op.cycles + 1], node |-> Me,
                    action |-> "GetState",
                    id |-> IF Phases[Op.cycles + 1] = "lifecycle" THEN id ELSE 0,
                    boot |-> 0, phase |-> "ready"]
    BY <1>5, <1>8 DEF VerifyDrive, Submit, id
  <2>3. Op.cycles \in 0..2 BY <1>1, <2>2 DEF VerifyTold, Op
  <2>4. /\ ops' \in [DOMAIN Nodes -> Operations]
        /\ \A i \in DOMAIN Nodes :
             /\ ops'[i].cycles = ops[i].cycles /\ ops'[i].seen = ops[i].seen
             /\ ops'[i].read = ops[i].read
             /\ i # current => ops'[i] = ops[i]
        /\ ops'[current].phase = "Submitted"
    BY <1>1, <1>2, <2>2 DEF Operations
  <2>5. answer.kind = None BY <1>4, <2>2
  <2>6. /\ work' \in Works /\ work'.kind = Phases[Op.cycles + 1]
        /\ work'.node = Me /\ work'.action = "GetState" /\ work'.boot = 0
    BY <1>2, <1>5, <2>1, <2>2, <2>3 DEF Works, Actions
  <2>7. GroupTypes' BY <1>1, <2>2, <2>4, <2>6 DEF GroupTypes
  <2>8. Me' = Me /\ Op'.cycles = Op.cycles /\ Op'.phase = "Submitted"
    BY <1>1, <2>2, <2>4 DEF Me, Op
  <2>9. WorkTold' BY <1>1, <1>2, <2>2, <2>3, <2>4, <2>5, <2>6, <2>8 DEF WorkTold, None
  <2>10. 0 <= node[Me].boot BY <1>2 DEF NodeRecords
  <2>11. VerifyTold' BY <1>1, <2>2, <2>4, <2>5, <2>6, <2>8, <2>10 DEF VerifyTold, None
  <2> QED BY <2>7, <2>9, <2>11
<1>9. CASE VerifyEvent
  <2>1. /\ current' = current /\ work' = NoWork /\ answer' = NoAnswer
        /\ work # NoWork /\ answer.kind \in {"result", "report"}
        /\ work.kind = "handshake" => work.boot # 0
    BY <1>4, <1>9 DEF VerifyEvent, Ended
  <2>2. NoWork \in Works /\ NoAnswer.kind = None BY DEF NoWork, NoAnswer, Works
  <2>3. answer.boot \in Nat /\ work.boot \in Nat /\ Op.cycles \in 0..2
    BY <1>1, <1>2, <1>4, <2>1 DEF GroupTypes, Works
  <2> DEFINE phase == Phases[Op.cycles + 1]
  <2>4. \/ ops' = ops
        \/ /\ ops' = [ops EXCEPT ![current].cycles = @ + 1, ![current].phase = "Ready",
                        ![current].seen = IF phase = "handshake" THEN work.boot ELSE @,
                        ![current].read = IF phase = "lifecycle" THEN answer.boot ELSE @]
           /\ phase = "stream" => answer.boot = Op.seen
    BY <1>9 DEF VerifyEvent, ValidEvidence
  <2>5. CASE ops' = ops
    <3>1. GroupTypes' BY <1>1, <2>1, <2>2, <2>5 DEF GroupTypes, None
    <3>2. WorkTold' BY <1>1, <2>1, <2>2, <2>5 DEF WorkTold, None
    <3>3. VerifyTold' BY <1>1, <2>1, <2>5 DEF VerifyTold
    <3> QED BY <3>1, <3>2, <3>3
  <2>6. CASE ops' # ops
    <3>1. /\ ops' \in [DOMAIN Nodes -> Operations]
          /\ \A i \in DOMAIN Nodes : i # current => ops'[i] = ops[i]
          /\ ops'[current].cycles = Op.cycles + 1 /\ ops'[current].phase = "Ready"
          /\ ops'[current].seen = IF phase = "handshake" THEN work.boot ELSE Op.seen
          /\ ops'[current].read = IF phase = "lifecycle" THEN answer.boot ELSE Op.read
      <4>1. ops[current] = Op BY DEF Op
      <4> HIDE DEF phase
      <4> QED BY <1>1, <1>2, <2>3, <2>4, <2>6, <4>1 DEF Operations
    <3>2. GroupTypes' BY <1>1, <2>1, <2>2, <3>1 DEF GroupTypes, None
    <3>3. WorkTold' BY <1>1, <2>1, <2>2, <3>1 DEF WorkTold, None
    <3>4. /\ work.boot <= node[Me].boot /\ answer.boot <= node[Me].boot
          /\ Op.cycles = 1 => Op.seen <= answer.boot
          /\ Op.cycles = 2 => Op.read <= answer.boot
      BY <1>1, <2>1 DEF VerifyTold
    <3>5. /\ Op.cycles = 2 => Op.seen <= Op.read
          /\ Op.cycles = 2 => answer.boot = Op.seen
          /\ Op.cycles = 1 => Op.seen <= node[Me].boot
      BY <1>1, <1>5, <2>4, <2>6 DEF VerifyTold, Op, Me
    <3>6. Op.seen \in Nat /\ Op.read \in Nat /\ node[Me].boot \in Nat
      BY <1>2 DEF Operations, NodeRecords
    <3>7. /\ ops'[current].cycles \in 0..3
          /\ ops'[current].cycles \in 1..2 => ops'[current].seen <= node[Me].boot
          /\ ops'[current].cycles = 2 =>
               /\ ops'[current].seen <= ops'[current].read
               /\ ops'[current].read <= node[Me].boot
          /\ ops'[current].cycles = 3 => ops'[current].read = ops'[current].seen
      <4>1. CASE Op.cycles = 0 BY <1>5, <2>3, <3>1, <3>4, <4>1
      <4>2. CASE Op.cycles = 1 BY <1>5, <2>3, <3>1, <3>4, <3>5, <4>2
      <4>3. CASE Op.cycles = 2 BY <1>5, <2>3, <3>1, <3>4, <3>5, <3>6, <4>3
      <4> QED BY <2>3, <4>1, <4>2, <4>3
    <3>8. VerifyTold' BY <1>1, <2>1, <3>1, <3>7 DEF VerifyTold, Me
    <3> QED BY <3>2, <3>3, <3>8
  <2> QED BY <2>5, <2>6
<1>10. CASE NodeVerified
  <2>1. /\ current' = current + 1 /\ outcome' = outcome /\ work' = work
        /\ answer' = answer /\ Op.cycles = 3
        /\ ops' = [ops EXCEPT ![current].status =
                     IF Op.seen = Op.epoch THEN "Same" ELSE "Recover"]
    BY <1>5, <1>10 DEF NodeVerified
  <2>2. work = NoWork BY <1>4, <2>1
  <2>3. /\ ops' \in [DOMAIN Nodes -> Operations]
        /\ \A i \in DOMAIN Nodes :
             /\ ops'[i].cycles = ops[i].cycles /\ ops'[i].seen = ops[i].seen
             /\ ops'[i].read = ops[i].read /\ ops'[i].phase = ops[i].phase
    BY <1>1, <1>2, <2>1 DEF Operations
  <2>4. GroupTypes' BY <1>1, <2>1, <2>3 DEF GroupTypes
  <2>5. WorkTold' BY <1>1, <2>1, <2>2, <2>3 DEF WorkTold, InFlight
  <2>6. VerifyTold' BY <1>1, <2>1, <2>2, <2>3 DEF VerifyTold
  <2> QED BY <2>4, <2>5, <2>6
<1>11. CASE VerifyExpired
  <2>1. /\ current' = current /\ ops' = ops /\ answer' = answer
        /\ work' = NoWork /\ ~InFlight
    BY <1>3, <1>4, <1>11 DEF VerifyExpired, Abandoned
  <2>2. NoWork \in Works /\ answer.kind = None BY <1>4, <2>1 DEF NoWork, Works
  <2>3. GroupTypes' BY <1>1, <2>1, <2>2 DEF GroupTypes
  <2>4. WorkTold' /\ VerifyTold' BY <1>1, <2>1, <2>2 DEF WorkTold, VerifyTold, None
  <2> QED BY <2>3, <2>4
<1> QED BY <1>8, <1>9, <1>10, <1>11 DEF Verify

LEMMA DeadlineStep ==
  ASSUME GroupInv, DeadlinePasses
  PROVE  GroupInv'
<1>1. /\ job' = job /\ ops' = ops /\ current' = current /\ outcome' = outcome
      /\ fell' = fell /\ work' = work /\ answer' = answer /\ node' = node
  BY DEF DeadlinePasses
<1> QED BY <1>1
  DEF GroupInv, GroupTypes, BootsOrdered, WorkTold, VerifyTold, ConvergeTold,
      Orderly, Driven, Settled, Executing, Me, Op, InFlight

LEMMA GroupEndStep ==
  ASSUME GroupInv, GroupEnds
  PROVE  GroupInv'
<1>1. /\ job' = job /\ ops' = ops /\ current' = current
      /\ fell' = fell /\ work' = work /\ answer' = answer /\ node' = node
      /\ outcome = None
      /\ \/ current > Len(Nodes) /\ outcome' = "Complete"
         \/ /\ job = "converge" /\ current <= Len(Nodes) /\ Op.status = "Offline"
            /\ outcome' = "Offline"
  BY DEF GroupEnds, Converging, Verifying, Running
<1>2. /\ current \in Nat \ {0} /\ DOMAIN Nodes = 1..Len(Nodes)
      /\ Len(Nodes) \in Nat /\ WorkTold
  BY GroupFacts DEF GroupInv, GroupTypes
<1>3. work = NoWork
  <2> SUFFICES ASSUME work # NoWork PROVE FALSE OBVIOUS
  <2>1. current \in DOMAIN Nodes /\ Op.phase # "Ready" BY <1>2 DEF WorkTold
  <2>2. job = "converge" => Op.status = "Converging" BY <1>2, <2>1 DEF WorkTold, Op
  <2> QED BY <1>1, <1>2, <2>1, <2>2
<1>4. WorkTold' BY <1>1, <1>2, <1>3 DEF WorkTold, InFlight
<1>5. ConvergeTold => ConvergeTold' BY <1>1, <1>2
  DEF ConvergeTold, Driven, Settled, Executing, Me, Op
<1> QED BY <1>1, <1>4, <1>5
  DEF GroupInv, GroupTypes, BootsOrdered, VerifyTold, Orderly, Me, Op

LEMMA FallBackStep ==
  ASSUME GroupInv, FallBackToIdle
  PROVE  GroupInv'
<1>1. /\ job' = job /\ work' = work /\ answer' = answer /\ node' = node
      /\ job = "converge" /\ outcome = "ConvergenceFailed"
      /\ ops' = [i \in DOMAIN ops |-> FallBack(ops[i])]
      /\ current' = 1 /\ fell' = TRUE
  BY DEF FallBackToIdle
<1>2. GroupTypes /\ BootsOrdered /\ WorkTold /\ DOMAIN ops = DOMAIN Nodes
      /\ \A i \in DOMAIN Nodes : ops[i] \in Operations
  BY DEF GroupInv, GroupTypes
<1>3. work = NoWork BY <1>1, <1>2 DEF WorkTold, None
<1>4. \A i \in DOMAIN Nodes :
        /\ ops'[i] \in Operations /\ ops'[i].phase = ops[i].phase
        /\ ops'[i].status \in {"Converging", ops[i].status}
  <2>1. ASSUME NEW op \in Operations
        PROVE  /\ FallBack(op) \in Operations /\ FallBack(op).phase = op.phase
               /\ FallBack(op).status \in {"Converging", op.status}
    BY DEF FallBack, Operations
  <2> QED BY <1>1, <1>2, <2>1
<1>5. GroupTypes'
  <2>1. ops' \in [DOMAIN Nodes -> Operations] BY <1>1, <1>2, <1>4
  <2> QED BY <1>1, <1>2, <2>1 DEF GroupTypes
<1>6. WorkTold' /\ BootsOrdered'
  BY <1>1, <1>2, <1>3, <1>4 DEF WorkTold, BootsOrdered, InFlight
<1> QED BY <1>1, <1>5, <1>6 DEF GroupInv, Orderly

(* What to do next depends on what is known of the node alone. *)
LEMMA NextSame ==
  ASSUME NEW op, NEW other,
         op.orderly = other.orderly, op.cycles = other.cycles,
         op.observed = other.observed, op.target = other.target
  PROVE  NextStep(op) = NextStep(other)
BY DEF NextStep

LEMMA NextIs ==
  ASSUME NEW op \in Operations
  PROVE  /\ NextStep(op) \in Actions \cup {"Reached", "ConvergenceFailed"}
         /\ NextStep(op) = "Reached" => op.observed = op.target
         /\ op.observed = op.target /\ op.orderly = 0 => NextStep(op) = "Reached"
<1>1. /\ op.observed \in NodeStates \cup {None}
      /\ op.target \in {"Idle", "Maintenance", "Recording"}
      /\ op.orderly \in Nat /\ op.cycles \in Nat
  BY DEF Operations
<1>2. OrderlyAttempts \in Nat \ {0} /\ RestartCycles \in Nat \ {0}
  BY SafeStateAssumption DEF PolicyValid
<1>3. CASE op.orderly >= OrderlyAttempts
  <2>1. CASE op.cycles >= RestartCycles
    <3>1. NextStep(op) = "ConvergenceFailed" BY <1>1, <1>2, <1>3, <2>1 DEF NextStep
    <3> QED BY <1>1, <1>2, <1>3, <3>1
  <2>2. CASE op.cycles < RestartCycles
    <3>1. NextStep(op) = "Restart" BY <1>1, <1>2, <1>3, <2>2 DEF NextStep
    <3> QED BY <1>1, <1>2, <1>3, <3>1 DEF Actions
  <2> QED BY <1>1, <1>2, <2>1, <2>2
<1>4. CASE ~(op.orderly >= OrderlyAttempts)
  BY <1>1, <1>2, <1>4 DEF NextStep, Actions, NodeStates, None
<1> QED BY <1>3, <1>4

(* A failed action is counted; a failed restart changes nothing else. *)
LEMMA Failing ==
  ASSUME NEW op \in Operations
  PROVE  /\ Fail(op) \in Operations /\ Fail(op).target = op.target
         /\ Fail(op).observed = op.observed /\ Fail(op).cycles = op.cycles
         /\ op.pending = "Restart" => Fail(op).orderly = op.orderly
         /\ op.pending # "Restart" => Fail(op).orderly = op.orderly + 1
<1>1. CASE op.pending = "Restart"
  <2>1. op.restarts + 1 \in Nat BY DEF Operations
  <2> DEFINE ends == IF op.restarts + 1 >= RestartAttempts THEN "Offline"
                     ELSE op.status
  <2>2. ends \in {"Converging", "Offline", "Reached", "ConvergenceFailed",
                  "Same", "Recover"}
    BY DEF Operations
  <2>3. Fail(op) = [op EXCEPT !.pending = None, !.restarts = op.restarts + 1,
                              !.status = ends]
    BY <1>1 DEF Fail
  <2> HIDE DEF ends
  <2> QED BY <1>1, <2>1, <2>2, <2>3 DEF Operations
<1>2. CASE op.pending # "Restart"
  <2>1. op.orderly + 1 \in Nat BY DEF Operations
  <2>2. Fail(op) = [op EXCEPT !.pending = None, !.orderly = op.orderly + 1]
    BY <1>2 DEF Fail
  <2> QED BY <1>2, <2>1, <2>2 DEF Operations
<1> QED BY <1>1, <1>2

LEMMA Completing ==
  ASSUME NEW op \in Operations, NEW seen \in NodeStates \cup {None}
  PROVE  /\ Complete(op, seen) \in Operations
         /\ Complete(op, seen).target = op.target
         /\ Complete(op, seen).orderly = 0
         /\ Complete(op, seen).status = op.status
         /\ Complete(op, seen).observed = IF op.pending = "Restart" THEN None
                                          ELSE seen
<1>1. CASE op.pending = "Restart"
  <2>1. op.cycles + 1 \in Nat BY DEF Operations
  <2>2. Complete(op, seen)
          = [op EXCEPT !.pending = None, !.observed = None, !.orderly = 0,
                       !.restarts = 0, !.cycles = op.cycles + 1]
    BY <1>1 DEF Complete
  <2> DEFINE done == [op EXCEPT !.pending = None, !.observed = None,
                                !.orderly = 0, !.restarts = 0,
                                !.cycles = op.cycles + 1]
  <2>3. /\ done \in Operations /\ done.target = op.target /\ done.orderly = 0
        /\ done.status = op.status /\ done.observed = None
    BY <2>1 DEF Operations
  <2> HIDE DEF done
  <2>4. Complete(op, seen) = done BY <2>2 DEF done
  <2> QED BY <1>1, <2>3, <2>4
<1>2. CASE op.pending # "Restart"
  <2>1. Complete(op, seen)
          = [op EXCEPT !.pending = None, !.observed = seen, !.orderly = 0]
    BY <1>2 DEF Complete
  <2> DEFINE done == [op EXCEPT !.pending = None, !.observed = seen,
                                !.orderly = 0]
  <2>2. /\ done \in Operations /\ done.target = op.target /\ done.orderly = 0
        /\ done.status = op.status /\ done.observed = seen
    BY DEF Operations
  <2> HIDE DEF done
  <2>3. Complete(op, seen) = done BY <2>1 DEF done
  <2> QED BY <1>2, <2>2, <2>3
<1> QED BY <1>1, <1>2

(* The operation of the node being driven changes. *)
LEMMA OperationChanges ==
  ASSUME GroupInv, job = "converge", current \in DOMAIN Nodes,
         NEW op \in Operations, ops' = [ops EXCEPT ![current] = op],
         op.target = Op.target, current' = current, job' = job, fell' = fell,
         node' = node, outcome' # "Complete",
         op.phase # "Submitted",
         op.phase # "Ready" => op.status = "Converging",
         work' \in Works, answer'.kind = None,
         work' # NoWork =>
           /\ outcome' = None /\ work'.node = Me
           /\ \/ /\ op.phase = "Lifecycle" /\ work'.kind = "lifecycle"
                 /\ work'.action = op.pending
              \/ op.phase = "RestartHandshake" /\ work'.kind = "handshake",
         Orderly => Driven'
  PROVE  GroupInv'
<1>1. /\ GroupTypes /\ BootsOrdered /\ WorkTold
      /\ Orderly => ConvergeTold
  BY DEF GroupInv
<1>2. /\ ops \in [DOMAIN Nodes -> Operations] /\ ops' \in [DOMAIN Nodes -> Operations]
      /\ ops'[current] = op
      /\ \A i \in DOMAIN Nodes : i # current => ops'[i] = ops[i]
      /\ \A i \in DOMAIN Nodes : ops'[i].target = ops[i].target
  BY <1>1 DEF GroupTypes, Op
<1>3. Op' = op /\ Me' = Me BY <1>2 DEF Op, Me
<1>4. GroupTypes' /\ BootsOrdered' BY <1>1, <1>2 DEF GroupTypes, BootsOrdered, None
<1>5. WorkTold' BY <1>1, <1>2, <1>3 DEF WorkTold, None
<1>6. ASSUME Orderly PROVE ConvergeTold'
  <2>1. \A i \in DOMAIN Nodes : i \in Nat /\ current \in Nat
    BY <1>1, GroupFacts DEF GroupTypes
  <2>2. \A i \in DOMAIN Nodes : Settled(i)' <=> Settled(i) BY <1>2 DEF Settled
  <2> QED BY <1>1, <1>2, <1>6, <2>1, <2>2 DEF ConvergeTold
<1> QED BY <1>1, <1>4, <1>5, <1>6 DEF GroupInv, Orderly

LEMMA SubmitStep ==
  ASSUME GroupInv, SubmitNextAction
  PROVE  GroupInv'
<1>1. /\ GroupTypes /\ BootsOrdered /\ WorkTold
      /\ Orderly => ConvergeTold
      /\ job = "converge" /\ outcome = None /\ work = NoWork
      /\ Op.phase = "Ready" /\ Op.status = "Converging"
      /\ job' = job /\ fell' = fell /\ node' = node /\ answer' = answer
      /\ current <= Len(Nodes)
  BY DEF GroupInv, SubmitNextAction, Converging, Running
<1>2. current \in DOMAIN Nodes /\ current \in Nat BY <1>1, GroupFacts DEF GroupTypes
<1>3. /\ Me \in NodeSet /\ Op \in Operations /\ node[Me] \in NodeRecords
      /\ ops \in [DOMAIN Nodes -> Operations] /\ Op = ops[current]
      /\ \A i \in DOMAIN Nodes : i \in Nat /\ ops[i] \in Operations
  BY <1>1, <1>2, GroupFacts DEF Me, Op, GroupTypes
<1>4. answer.kind = None BY <1>1 DEF WorkTold, InFlight, NoWork, None
<1>5. Orderly => Driven BY <1>1, <1>2 DEF ConvergeTold
<1>6. Orderly /\ NextStep(Op) # "Reached" => Op.observed # Op.target
  BY <1>3, <1>5, NextIs DEF Driven
<1>7. CASE NextStep(Op) = "Reached"
  <2>1. /\ ops' = [ops EXCEPT ![current].status = "Reached"]
        /\ current' = current + 1 /\ outcome' = outcome /\ work' = work
    BY <1>7 DEF SubmitNextAction
  <2>2. /\ ops' \in [DOMAIN Nodes -> Operations]
        /\ \A i \in DOMAIN Nodes :
             /\ i # current => ops'[i] = ops[i]
             /\ ops'[i].target = ops[i].target /\ ops'[i].phase = ops[i].phase
        /\ ops'[current].phase = "Ready"
    BY <1>1, <1>2, <1>3, <2>1 DEF Operations
  <2>3. GroupTypes' /\ BootsOrdered'
    BY <1>1, <1>2, <2>1, <2>2 DEF GroupTypes, BootsOrdered
  <2>4. WorkTold' BY <1>1, <1>4, <2>1, <2>2 DEF WorkTold
  <2>5. ASSUME Orderly PROVE ConvergeTold'
    <3>1. Settled(current) BY <1>3, <1>5, <1>7, <2>5, NextIs DEF Driven
    <3>2. \A i \in DOMAIN Nodes : Settled(i)' <=> Settled(i) BY <1>1, <2>2 DEF Settled
    <3>3. ASSUME current + 1 \in DOMAIN Nodes PROVE Driven'
      <4>1. /\ ops[current + 1].observed = None
            /\ ops[current + 1].phase = "Ready"
            /\ ~node[Nodes[current + 1]].restart
            /\ ops'[current + 1] = ops[current + 1]
            /\ ops[current + 1].target # None
        <5>1. current + 1 > current /\ current + 1 # current BY <1>2
        <5>2. ops[current + 1].target \in {"Idle", "Maintenance", "Recording"}
          BY <1>3, <3>3 DEF Operations
        <5> QED BY <1>1, <2>2, <2>5, <3>3, <5>1, <5>2 DEF ConvergeTold, None
      <4>2. Op' = ops[current + 1] /\ Me' = Nodes[current + 1] BY <2>1, <4>1 DEF Op, Me
      <4>3. Executing' BY <1>1, <2>1 DEF Executing, NoWork, None
      <4> QED BY <1>1, <4>1, <4>2, <4>3 DEF Driven
    <3>4. \A i \in DOMAIN Nodes :
            /\ i < current + 1 => i < current \/ i = current
            /\ i > current + 1 => i > current /\ i # current
      BY <1>2, <1>3
    <3> QED BY <1>1, <2>1, <2>2, <2>5, <3>1, <3>2, <3>3, <3>4
      DEF ConvergeTold, None
  <2> QED BY <1>1, <2>3, <2>4, <2>5 DEF GroupInv, Orderly
<1>8. CASE NextStep(Op) = "ConvergenceFailed"
  <2> DEFINE op == [Op EXCEPT !.status = "ConvergenceFailed"]
  <2>1. /\ ops' = [ops EXCEPT ![current] = op]
        /\ current' = current /\ outcome' = "ConvergenceFailed" /\ work' = work
    BY <1>8 DEF SubmitNextAction, Becomes
  <2>2. /\ op \in Operations /\ op.target = Op.target /\ op.phase = "Ready"
        /\ op.observed = Op.observed /\ op.orderly = Op.orderly
        /\ op.cycles = Op.cycles
    BY <1>1, <1>3 DEF Operations
  <2> HIDE DEF op
  <2>3. NoWork \in Works BY DEF NoWork, Works
  <2>4. Op' = op /\ Me' = Me BY <1>2, <1>3, <2>1 DEF Op, Me
  <2>5. Orderly => Driven'
    <3>1. NextStep(op) = NextStep(Op) BY <2>2, NextSame
    <3>2. Executing' BY <1>1, <2>1 DEF Executing, NoWork, None
    <3> QED BY <1>1, <1>5, <1>6, <1>8, <2>2, <2>4, <3>1, <3>2 DEF Driven
  <2> QED BY <1>1, <1>2, <1>4, <2>1, <2>2, <2>3, <2>5, OperationChanges
<1>9. CASE NextStep(Op) \notin {"Reached", "ConvergenceFailed"}
  <2> DEFINE action == NextStep(Op)
             op == [Op EXCEPT !.pending = action, !.phase = "Lifecycle"]
             id == CHOOSE i \in 1 .. 3 : i \notin {node[Me].cmd.id, node[Me].last.id}
  <2>1. id \in 1..3 /\ id # node[Me].last.id BY FreeId
  <2> HIDE DEF id
  <2>2. action \in Actions BY <1>3, <1>9, NextIs
  <2> HIDE DEF action
  <2>3. /\ ops' = [ops EXCEPT ![current] = op]
        /\ current' = current /\ outcome' = outcome
        /\ work' = [kind |-> "lifecycle", node |-> Me, action |-> action,
                    id |-> id, boot |-> 0, phase |-> "ready"]
    BY <1>9 DEF SubmitNextAction, Becomes, Submit, action, id
  <2>4. /\ op \in Operations /\ op.target = Op.target /\ op.phase = "Lifecycle"
        /\ op.observed = Op.observed /\ op.orderly = Op.orderly
        /\ op.cycles = Op.cycles /\ op.pending = action /\ op.status = "Converging"
    BY <1>1, <1>3, <2>2 DEF Operations
  <2> HIDE DEF op
  <2>5. work' \in Works BY <1>3, <2>1, <2>2, <2>3 DEF Works
  <2>6. Op' = op /\ Me' = Me BY <1>2, <1>3, <2>3 DEF Op, Me
  <2>7. Orderly => Driven'
    <3>1. NextStep(op) = action BY <2>4, NextSame DEF action
    <3>2. Executing' BY <1>1, <1>4, <2>1, <2>3, <2>6 DEF Executing, None
    <3>3. node[Me].restart /\ Orderly => action = "Restart" BY <1>5 DEF Driven, action
    <3>4. Orderly => Op.observed # Op.target BY <1>6, <1>9
    <3> QED BY <1>1, <2>4, <2>6, <3>1, <3>2, <3>3, <3>4 DEF Driven
  <2> QED BY <1>1, <1>2, <1>4, <2>3, <2>4, <2>5, <2>7, OperationChanges DEF None
<1> QED BY <1>7, <1>8, <1>9

(* The other steps of a safe-state operation keep what is known but for
   what the action's end tells. *)
LEMMA ConvergeStep ==
  ASSUME GroupInv,
         DriveExpired \/ LifecycleComplete \/ SubmitRestartHandshake
           \/ RestartObserved \/ FailRestartConfirmation
  PROVE  GroupInv'
<1>1. /\ GroupTypes /\ BootsOrdered /\ WorkTold
      /\ Orderly => ConvergeTold
      /\ job = "converge" /\ outcome = None
      /\ job' = job /\ fell' = fell /\ node' = node /\ outcome' = outcome
      /\ current' = current /\ current <= Len(Nodes)
  BY DEF GroupInv, DriveExpired, LifecycleComplete, SubmitRestartHandshake,
         RestartObserved, FailRestartConfirmation, Converging, Running
<1>2. current \in DOMAIN Nodes /\ current \in Nat BY <1>1, GroupFacts DEF GroupTypes
<1>3. /\ Me \in NodeSet /\ Op \in Operations /\ node[Me] \in NodeRecords
      /\ ops \in [DOMAIN Nodes -> Operations] /\ Op = ops[current]
      /\ work \in Works
  BY <1>1, <1>2, GroupFacts DEF Me, Op, GroupTypes
<1>4. /\ ~InFlight => answer.kind = None
      /\ work # NoWork => \/ /\ Op.phase = "Lifecycle" /\ work.kind = "lifecycle"
                             /\ work.action = Op.pending
                          \/ Op.phase = "RestartHandshake" /\ work.kind = "handshake"
      /\ InFlight => work # NoWork
      /\ Op.phase # "Ready" => Op.status = "Converging"
  BY <1>1, <1>2, <1>3 DEF WorkTold, InFlight, NoWork, None
<1>5. /\ NoWork \in Works /\ NoAnswer.kind = None /\ NoWork.kind = None
      /\ None \notin {"lifecycle", "handshake", "Complete"}
  BY DEF NoWork, NoAnswer, Works, None
<1>6. Orderly => Driven BY <1>1, <1>2 DEF ConvergeTold
<1>7. ASSUME NEW op \in Operations, ops' = [ops EXCEPT ![current] = op]
      PROVE  Op' = op /\ Me' = Me
  BY <1>1, <1>2, <1>3, <1>7 DEF Op, Me
(* Without work nothing is being executed. *)
<1>8. work' = NoWork => Executing' BY <1>5 DEF Executing
<1>9. CASE DriveExpired
  <2>1. /\ Op.phase = "Lifecycle" /\ work' = NoWork /\ ~InFlight
        /\ answer' = answer
        /\ ops' = [ops EXCEPT ![current] =
             IF Op.pending = "Restart" THEN [Op EXCEPT !.phase = "RestartDelay"]
             ELSE [Fail(Op) EXCEPT !.phase = "Ready"]]
    BY <1>9 DEF DriveExpired, Abandoned, Becomes
  <2>2. CASE Op.pending = "Restart"
    <3> DEFINE op == [Op EXCEPT !.phase = "RestartDelay"]
    <3>1. /\ op \in Operations /\ op.target = Op.target
          /\ op.phase = "RestartDelay" /\ op.observed = Op.observed
          /\ op.orderly = Op.orderly /\ op.cycles = Op.cycles
          /\ op.pending = "Restart" /\ op.status = "Converging"
      BY <1>3, <1>4, <2>1, <2>2 DEF Operations
    <3> HIDE DEF op
    <3>2. ops' = [ops EXCEPT ![current] = op] BY <2>1, <2>2 DEF op
    <3>3. NextStep(op) = NextStep(Op) /\ Op' = op /\ Me' = Me
      BY <1>7, <3>1, <3>2, NextSame
    <3>4. Orderly => Driven' BY <1>1, <1>6, <1>8, <2>1, <2>2, <3>1, <3>3 DEF Driven
    <3> QED BY <1>1, <1>2, <1>4, <1>5, <2>1, <3>1, <3>2, <3>4, OperationChanges
  <2>3. CASE Op.pending # "Restart"
    <3> DEFINE failed == Fail(Op)
               op == [failed EXCEPT !.phase = "Ready"]
    <3>1. /\ failed \in Operations /\ failed.target = Op.target
          /\ failed.observed = Op.observed
      BY <1>3, Failing
    <3> HIDE DEF failed
    <3>2. /\ op \in Operations /\ op.target = Op.target
          /\ op.phase = "Ready" /\ op.observed = Op.observed
      BY <3>1 DEF Operations
    <3> HIDE DEF op
    <3>3. ops' = [ops EXCEPT ![current] = op] BY <2>1, <2>3 DEF op, failed
    <3>4. Op' = op /\ Me' = Me BY <1>7, <3>2, <3>3
    <3>5. Orderly => Driven' BY <1>1, <1>6, <1>8, <2>1, <2>3, <3>2, <3>4 DEF Driven
    <3> QED BY <1>1, <1>2, <1>4, <1>5, <2>1, <3>2, <3>3, <3>5, OperationChanges
  <2> QED BY <2>2, <2>3
<1>10. CASE LifecycleComplete
  <2> DEFINE ok == answer.code = "Ok" /\ MatchesAction(Op.pending, answer.state)
  <2>1. /\ Op.phase = "Lifecycle" /\ work' = NoWork /\ answer' = NoAnswer
        /\ InFlight /\ answer.kind \in {"result", "report"}
        /\ ops' = [ops EXCEPT ![current] =
             CASE ~ok -> [Fail(Op) EXCEPT !.phase = "Ready"]
               [] ok /\ Op.pending = "Restart" -> [Op EXCEPT !.phase = "RestartDelay"]
               [] ok /\ Op.pending # "Restart" ->
                    [Complete(Op, answer.state) EXCEPT !.phase = "Ready"]]
    BY <1>10 DEF LifecycleComplete, Ended, Becomes
  <2> HIDE DEF ok
  <2>2. CASE ~ok
    <3> DEFINE failed == Fail(Op)
               op == [failed EXCEPT !.phase = "Ready"]
    <3>1. /\ failed \in Operations /\ failed.target = Op.target
          /\ failed.observed = Op.observed /\ failed.cycles = Op.cycles
          /\ Op.pending = "Restart" => failed.orderly = Op.orderly
      BY <1>3, Failing
    <3> HIDE DEF failed
    <3>2. /\ op \in Operations /\ op.target = Op.target
          /\ op.phase = "Ready" /\ op.observed = Op.observed
          /\ op.orderly = failed.orderly /\ op.cycles = failed.cycles
      BY <3>1 DEF Operations
    <3> HIDE DEF op
    <3>3. ops' = [ops EXCEPT ![current] = op] BY <2>1, <2>2 DEF op, failed
    <3>4. Op' = op /\ Me' = Me BY <1>7, <3>2, <3>3
    <3>5. Op.pending = "Restart" => NextStep(op) = NextStep(Op) BY <3>1, <3>2, NextSame
    <3>6. Orderly => Driven' BY <1>1, <1>6, <1>8, <2>1, <3>2, <3>4, <3>5 DEF Driven
    <3> QED BY <1>1, <1>2, <1>5, <2>1, <3>2, <3>3, <3>6, OperationChanges
  <2>3. CASE ok /\ Op.pending = "Restart"
    <3> DEFINE op == [Op EXCEPT !.phase = "RestartDelay"]
    <3>1. /\ op \in Operations /\ op.target = Op.target
          /\ op.phase = "RestartDelay" /\ op.observed = Op.observed
          /\ op.orderly = Op.orderly /\ op.cycles = Op.cycles
          /\ op.pending = "Restart" /\ op.status = "Converging"
      BY <1>3, <1>4, <2>1, <2>3 DEF Operations
    <3> HIDE DEF op
    <3>2. ops' = [ops EXCEPT ![current] = op] BY <2>1, <2>3 DEF op
    <3>3. NextStep(op) = NextStep(Op) /\ Op' = op /\ Me' = Me
      BY <1>7, <3>1, <3>2, NextSame
    <3>4. Orderly => Driven' BY <1>1, <1>6, <1>8, <2>1, <2>3, <3>1, <3>3 DEF Driven
    <3> QED BY <1>1, <1>2, <1>5, <2>1, <3>1, <3>2, <3>4, OperationChanges
  <2>4. CASE ok /\ Op.pending # "Restart"
    <3>1. /\ work.kind = "lifecycle" /\ work.action = Op.pending BY <1>4, <2>1
    <3>2. answer.kind = "result" BY <1>1, <2>1, <3>1 DEF WorkTold
    <3> DEFINE told == Complete(Op, answer.state)
               op == [told EXCEPT !.phase = "Ready"]
    <3>3. /\ told \in Operations /\ told.target = Op.target
          /\ told.observed = answer.state /\ told.orderly = 0
      <4>1. answer.state \in NodeStates \cup {None} BY <1>1, <3>2 DEF GroupTypes
      <4> QED BY <1>3, <2>4, <4>1, Completing
    <3> HIDE DEF told
    <3>4. /\ op \in Operations /\ op.target = Op.target
          /\ op.phase = "Ready" /\ op.observed = answer.state /\ op.orderly = 0
      BY <3>3 DEF Operations
    <3> HIDE DEF op
    <3>5. ops' = [ops EXCEPT ![current] = op] BY <2>1, <2>4 DEF op, told
    <3>6. Op' = op /\ Me' = Me /\ ops'[current] = op BY <1>2, <1>3, <1>7, <3>4, <3>5
    <3>7. ASSUME Orderly PROVE Driven'
      <4>1. ~node[Me].restart BY <1>6, <2>1, <2>4, <3>7 DEF Driven
      <4>2. op.observed = op.target => Settled(current)'
        <5>1. Op.target # "Stopping" BY <1>3 DEF Operations
        <5>2. /\ node[Me].cmd = NoCommand
              /\ answer.state # "Stopping" => node[Me].state = answer.state
          BY <1>6, <2>4, <3>1, <3>2, <3>7 DEF Driven, Executing
        <5> QED BY <1>1, <3>4, <3>6, <4>1, <5>1, <5>2 DEF Settled, Me
      <4> QED BY <1>1, <1>8, <2>1, <3>4, <3>6, <4>1, <4>2 DEF Driven
    <3> QED BY <1>1, <1>2, <1>5, <2>1, <3>4, <3>5, <3>7, OperationChanges
  <2> QED BY <2>2, <2>3, <2>4
<1>11. CASE SubmitRestartHandshake
  <2> DEFINE op == [Op EXCEPT !.phase = "RestartHandshake"]
  <2>1. /\ Op.phase = "RestartDelay" /\ ~node[Me].restart /\ work = NoWork
        /\ answer' = answer
        /\ ops' = [ops EXCEPT ![current].phase = "RestartHandshake"]
        /\ work' = [kind |-> "handshake", node |-> Me, action |-> None,
                    id |-> 0, boot |-> 0, phase |-> "ready"]
    BY <1>11 DEF SubmitRestartHandshake, Submit
  <2>2. ops' = [ops EXCEPT ![current] = op] BY <1>3, <2>1
  <2>3. /\ op \in Operations /\ op.target = Op.target
        /\ op.phase = "RestartHandshake" /\ op.observed = Op.observed
        /\ op.orderly = Op.orderly /\ op.cycles = Op.cycles
        /\ op.pending = Op.pending /\ op.status = "Converging"
    BY <1>3, <1>4, <2>1 DEF Operations
  <2> HIDE DEF op
  <2>4. NextStep(op) = NextStep(Op) /\ Op' = op /\ Me' = Me
    BY <1>7, <2>2, <2>3, NextSame
  <2>5. work' \in Works /\ answer'.kind = None
    BY <1>3, <1>4, <1>5, <2>1 DEF Works, InFlight
  <2>6. Executing' BY <2>1 DEF Executing
  <2>7. Orderly => Driven' BY <1>1, <1>6, <2>1, <2>3, <2>4, <2>6 DEF Driven
  <2> QED BY <1>1, <1>2, <1>5, <2>1, <2>2, <2>3, <2>5, <2>7, OperationChanges
<1>12. CASE RestartObserved
  <2>1. /\ Op.phase = "RestartHandshake" /\ work' = NoWork /\ answer' = NoAnswer
        /\ IF work.boot = Op.epoch
           THEN ops' = [ops EXCEPT ![current].phase = "RestartDelay"]
           ELSE ops' = [ops EXCEPT ![current] =
                  [Complete(Op, "Idle") EXCEPT !.phase = "Ready", !.epoch = work.boot]]
    BY <1>12 DEF RestartObserved, Ended, Becomes
  <2>2. CASE work.boot = Op.epoch
    <3> DEFINE op == [Op EXCEPT !.phase = "RestartDelay"]
    <3>1. ops' = [ops EXCEPT ![current] = op] BY <1>3, <2>1, <2>2
    <3>2. /\ op \in Operations /\ op.target = Op.target
          /\ op.phase = "RestartDelay" /\ op.observed = Op.observed
          /\ op.orderly = Op.orderly /\ op.cycles = Op.cycles
          /\ op.pending = Op.pending /\ op.status = "Converging"
      BY <1>3, <1>4, <2>1 DEF Operations
    <3> HIDE DEF op
    <3>3. NextStep(op) = NextStep(Op) /\ Op' = op /\ Me' = Me
      BY <1>7, <3>1, <3>2, NextSame
    <3>4. Orderly => Driven' BY <1>1, <1>6, <1>8, <2>1, <3>2, <3>3 DEF Driven
    <3> QED BY <1>1, <1>2, <1>5, <2>1, <3>1, <3>2, <3>4, OperationChanges
  <2>3. CASE work.boot # Op.epoch
    <3> DEFINE told == Complete(Op, "Idle")
               op == [told EXCEPT !.phase = "Ready", !.epoch = work.boot]
    <3>1. /\ told \in Operations /\ told.target = Op.target
          /\ Op.pending = "Restart" => told.observed = None
      BY <1>3, Completing DEF NodeStates
    <3> HIDE DEF told
    <3>2. /\ op \in Operations /\ op.target = Op.target
          /\ op.phase = "Ready" /\ op.observed = told.observed
      <4>1. work.boot \in Nat BY <1>3 DEF Works
      <4> QED BY <3>1, <4>1 DEF Operations
    <3> HIDE DEF op
    <3>3. ops' = [ops EXCEPT ![current] = op] BY <2>1, <2>3 DEF op, told
    <3>4. Op' = op /\ Me' = Me BY <1>7, <3>2, <3>3
    <3>5. Orderly => Driven'
      <4>1. Op.target # None BY <1>3 DEF Operations, None
      <4> QED BY <1>1, <1>6, <1>8, <2>1, <3>1, <3>2, <3>4, <4>1 DEF Driven
    <3> QED BY <1>1, <1>2, <1>5, <2>1, <3>2, <3>3, <3>5, OperationChanges
  <2> QED BY <2>2, <2>3
<1>13. CASE FailRestartConfirmation
  <2> DEFINE failed == Fail(Op)
             op == [failed EXCEPT !.phase = "Ready"]
  <2>1. /\ Op.phase \in {"RestartDelay", "RestartHandshake"}
        /\ answer' = answer /\ ops' = [ops EXCEPT ![current] = op]
        /\ IF Op.phase = "RestartHandshake" THEN Abandoned ELSE work' = work
    BY <1>13 DEF FailRestartConfirmation, Becomes
  <2>2. work' = NoWork /\ ~InFlight BY <1>4, <2>1 DEF Abandoned
  <2>3. /\ failed \in Operations /\ failed.target = Op.target
        /\ failed.observed = Op.observed /\ failed.cycles = Op.cycles
        /\ Op.pending = "Restart" => failed.orderly = Op.orderly
    BY <1>3, Failing
  <2> HIDE DEF failed
  <2>4. /\ op \in Operations /\ op.target = Op.target
        /\ op.phase = "Ready" /\ op.observed = Op.observed
        /\ op.orderly = failed.orderly /\ op.cycles = failed.cycles
    BY <2>3 DEF Operations
  <2> HIDE DEF op
  <2>5. Op' = op /\ Me' = Me BY <1>7, <2>1, <2>4
  <2>6. Op.pending = "Restart" => NextStep(op) = NextStep(Op) BY <2>3, <2>4, NextSame
  <2>7. Orderly => Driven' BY <1>1, <1>6, <1>8, <2>1, <2>2, <2>4, <2>5, <2>6 DEF Driven
  <2> QED BY <1>1, <1>2, <1>4, <1>5, <2>1, <2>2, <2>4, <2>7, OperationChanges
<1> QED BY <1>9, <1>10, <1>11, <1>12, <1>13

LEMMA GroupStep ==
  ASSUME GroupInv, [Next]_vars
  PROVE  GroupInv'
<1>1. CASE UNCHANGED vars
  <2>1. /\ job' = job /\ ops' = ops /\ current' = current /\ outcome' = outcome
        /\ fell' = fell /\ work' = work /\ answer' = answer /\ node' = node
    BY <1>1 DEF vars, groupVars
  <2> QED BY <2>1
    DEF GroupInv, GroupTypes, BootsOrdered, WorkTold, VerifyTold, ConvergeTold,
        Orderly, Driven, Settled, Executing, Me, Op, InFlight
<1>2. CASE Converge BY <1>2, SubmitStep, ConvergeStep DEF Converge
<1>3. CASE Verify BY <1>3, VerifyStep
<1>4. CASE GroupEnds BY <1>4, GroupEndStep
<1>5. CASE FallBackToIdle BY <1>5, FallBackStep
<1>6. CASE Agent BY <1>6, AttemptStep, WorkOnStep DEF Agent
<1>7. CASE DeadlinePasses BY <1>7, DeadlineStep
<1>8. ASSUME NEW n \in NodeSet, Execute(n) \/ NodeMoves(n)
      PROVE  GroupInv'
  BY <1>8, ExecuteStep, MovesStep
<1> QED BY <1>1, <1>2, <1>3, <1>4, <1>5, <1>6, <1>7, <1>8 DEF Next

LEMMA GroupStart ==
  ASSUME Init
  PROVE  GroupInv
<1>1. /\ job \in {"converge", "verify"}
      /\ current = 1 /\ fell = FALSE /\ outcome = None
      /\ work = NoWork /\ answer = NoAnswer
  BY SafeStateAssumption DEF Init
<1>2. PICK target \in Targets : ops = [i \in DOMAIN Nodes |-> NewConverger(target)]
  BY DEF Init
<1>3. target \in {"Idle", "Maintenance", "Recording"} BY SafeStateAssumption
<1>4. /\ NewConverger(target) \in Operations
      /\ NewConverger(target).observed = None /\ NewConverger(target).target # None
      /\ NewConverger(target).phase = "Ready" /\ NewConverger(target).cycles = 0
  BY <1>3 DEF NewConverger, Operations, None
<1>5. /\ NoCommand \in [action : Actions \cup {None}, id : 0..3]
      /\ NoResult \in [id : 0..3, code : Codes, state : NodeStates \cup {None}]
  BY DEF NoCommand, NoResult, Codes
<1>6. ASSUME NEW s \in {"Idle", "Recording", "Maintenance", "Faulted"}
      PROVE  /\ NewNode(s) \in NodeRecords /\ NewNode(s).boot = 1
             /\ ~NewNode(s).restart
  BY <1>5 DEF NewNode, NodeRecords, NodeStates
<1>7. /\ node \in [NodeSet -> NodeRecords]
      /\ \A n \in NodeSet : node[n].boot = 1 /\ ~node[n].restart
  <2>1. node \in [NodeSet -> {NewNode(s) : s \in {"Idle", "Recording", "Maintenance", "Faulted"}}]
    BY DEF Init
  <2> QED BY <1>6, <2>1
<1>8. /\ ops \in [DOMAIN Nodes -> Operations]
      /\ \A i \in DOMAIN Nodes :
           /\ ops[i].observed = None /\ ops[i].target # None
           /\ ops[i].phase = "Ready" /\ ops[i].cycles = 0
  BY <1>2, <1>4
<1>9. NoWork \in Works /\ NoAnswer.kind = None /\ NoWork.kind = None
      /\ None \notin {"result", "report", "lifecycle", "Complete"}
  BY DEF NoWork, NoAnswer, Works, None
<1>10. GroupTypes
  <2>1. /\ job \in {"converge", "verify"}
        /\ current \in Nat \ {0} /\ fell \in BOOLEAN
    <3>1. current \in Nat \ {0} BY <1>1
    <3> QED BY <1>1, <3>1, Zenon
  <2>2. work \in Works BY <1>1, <1>9
  <2>3. answer.kind \notin {"result", "report"} BY <1>1, <1>9
  <2> QED BY <1>7, <1>8, <2>1, <2>2, <2>3 DEF GroupTypes
<1>11. /\ \A i \in DOMAIN Nodes : Nodes[i] \in NodeSet /\ i \in Nat \ {0}
       /\ 1 \in DOMAIN Nodes
  BY <1>10, GroupFacts
<1>12. BootsOrdered
  <2>1. Nodes[1] \in NodeSet BY <1>11
  <2> QED BY <1>7, <2>1 DEF BootsOrdered
<1>13. WorkTold /\ VerifyTold BY <1>1, <1>8, <1>9 DEF WorkTold, VerifyTold
<1>14. ConvergeTold
  <2>1. Driven BY <1>1, <1>7, <1>8, <1>9, <1>11 DEF Driven, Executing, Me, Op
  <2> QED BY <1>1, <1>7, <1>8, <1>9, <1>11, <2>1 DEF ConvergeTold
<1> QED BY <1>10, <1>12, <1>13, <1>14 DEF GroupInv

LEMMA GroupInvReal ==
  ASSUME GroupInv
  PROVE  SettledIsReal
<1>1. ConvergedIsReal
  <2> SUFFICES ASSUME Orderly, outcome = "Complete", NEW i \in DOMAIN Nodes
               PROVE  node[Nodes[i]].state = ops[i].target
    BY DEF ConvergedIsReal, Orderly
  <2>1. ConvergeTold /\ GroupTypes BY DEF GroupInv
  <2>2. i < current
    <3>1. /\ current \in Nat \ {0} /\ DOMAIN Nodes = 1..Len(Nodes)
          /\ Len(Nodes) \in Nat
      BY <2>1, GroupFacts DEF GroupTypes
    <3>2. current \notin DOMAIN Nodes BY <2>1 DEF ConvergeTold
    <3> QED BY <3>1, <3>2
  <2> QED BY <2>1, <2>2 DEF ConvergeTold, Settled
<1>2. EvidenceOfOneBoot
  <2>1. Len(Phases) = 3 BY DEF Phases
  <2> QED BY <2>1 DEF EvidenceOfOneBoot, GroupInv, VerifyTold
<1> QED BY <1>1, <1>2 DEF SettledIsReal

(* What the host concludes of a group of nodes is so: a group that is
   complete is in the state it was brought to, whatever was lost, given up
   or executed late, and a verification's evidence is of one boot, whenever
   the nodes reboot (SafeStateGroupOperation, ResumeVerificationGroup). *)
THEOREM GroupsSettleTruly == Spec => []SettledIsReal
<1>1. Init => GroupInv BY GroupStart
<1>2. GroupInv /\ [Next]_vars => GroupInv' BY GroupStep
<1>3. GroupInv => SettledIsReal BY GroupInvReal
<1> QED BY <1>1, <1>2, <1>3, PTL DEF Spec

=============================================================================
