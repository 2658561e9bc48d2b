------------------------------- MODULE Framing -------------------------------
(* Frames on the RS-485 line: a checked header and payload, stuffed so that
   zero only ends a frame (COBS), and the decoder that finds frames in a
   stream with noise in it.  The sizes are scaled: a run of bytes between two
   codes is MaxCode - 1 long instead of 254, the header and the checksum are
   one byte each. *)
EXTENDS Integers, Sequences, SequencesExt

CONSTANTS
    MaxCode,      \* the code of a full run, 0xff in the source; bytes are 0 .. MaxCode
    MaxRaw,       \* MAX_RAW_FRAME_BYTES
    ReadBytes,    \* READ_BUFFER_BYTES
    MaxOwed,      \* bound of the model: frames on their way at a time
    MaxNoise,     \* bound of the model: bytes of noise
    NoiseBytes,   \* the bytes noise can look like
    PayloadBytes  \* the bytes of a payload

VARIABLES
    decoder,      \* StreamDecoder: encoded and discarding
    buffer,       \* ChannelPort: bytes read from the port and not yet decoded
    received,     \* ChannelPort: the frame that waits to be taken
    wire,         \* bytes on their way
    owed,         \* frames sent on a clean boundary and not yet taken
    noise         \* bytes of noise, or lost, so far

framingVars == <<decoder, buffer, received, wire, owed, noise>>

Symbol == 0 .. MaxCode
CeilDiv(a, b) == (a + b - 1) \div b
MaxBody == MaxRaw + CeilDiv(MaxRaw, MaxCode - 1)

(* The room for the codes is enough only because a frame of the largest size
   does not end in a full run: 526 is not a multiple of 254. *)
ASSUME FramingAssumption ==
    /\ MaxCode \in 3 .. 255 /\ MaxRaw > 2 /\ MaxNoise \in Nat
    /\ NoiseBytes \cup PayloadBytes \subseteq Symbol
    /\ MaxRaw % (MaxCode - 1) # 0

(* The route a header stands for, one header of each kind: a request of the
   host, an answer of a node, and two that no route allows. *)
HeaderOf == [h \in Symbol |-> CASE h = 1 -> "request" [] h = 2 -> "response" [] OTHER -> "invalid"]
validate_route(h) == HeaderOf[h] # "invalid"
crc32c(raw) == FoldLeft(LAMBDA sum, b : (2 * sum + b + 1) % (MaxCode + 1), 1, raw)

Frames == {<<h>> \o p : h \in {g \in Symbol : HeaderOf[g] = "response"},
                        p \in UNION {[1 .. n -> PayloadBytes] : n \in 0 .. MaxRaw - 2}}

------------------------
(* A run is written with its code in front when a zero, its length or the end
   closes it. *)
Closed(e) == e.done \o <<Len(e.run) + 1>> \o e.run
cobs_encode(raw) ==
    LET last == FoldLeft(LAMBDA e, b :
            IF b = 0 THEN [done |-> Closed(e), run |-> <<>>]
            ELSE IF Len(e.run) + 2 = MaxCode
                 THEN [done |-> Closed([e EXCEPT !.run = Append(@, b)]), run |-> <<>>]
                 ELSE [e EXCEPT !.run = Append(@, b)],
            [done |-> <<>>, run |-> <<>>], raw)
    IN Closed(last)

(* Every code but the first and the one after a full run stands for a zero. *)
DecodeByte(d, b) ==
    IF d.left > 0 THEN [d EXCEPT !.raw = Append(@, b), !.left = @ - 1]
    ELSE LET raw == IF d.code \in {0, MaxCode} THEN d.raw ELSE Append(d.raw, 0) IN
         [raw |-> raw, left |-> b - 1, code |-> b,
          bad |-> d.bad \/ Len(raw) + b - 1 > MaxRaw]
Malformed == <<-1>>
cobs_decode(body) ==
    LET d == FoldLeft(DecodeByte, [raw |-> <<>>, left |-> 0, code |-> 0, bad |-> FALSE], body) IN
    IF d.bad \/ d.left > 0 THEN Malformed ELSE d.raw

encode(frame) == cobs_encode(Append(frame, crc32c(frame))) \o <<0>>
decode_body(body) ==
    LET raw == cobs_decode(body) IN
    IF \/ raw = Malformed \/ Len(raw) < 2
       \/ ~validate_route(raw[1]) \/ crc32c(Front(raw)) # Last(raw)
    THEN <<>> ELSE Front(raw)

------------------------
NoFrame == <<>>
NewDecoder == [encoded |-> <<>>, discarding |-> FALSE]
Outcome(d, frame, error) == [decoder |-> d, frame |-> frame, error |-> error]
(* Mutant: the flag of an overlong body outlives the delimiter that ends it. *)
push_sticky(d, b) ==
    CASE b # 0 /\ d.discarding -> Outcome(d, NoFrame, FALSE)
      [] b # 0 /\ ~d.discarding /\ Len(d.encoded) = MaxBody ->
             Outcome([encoded |-> <<>>, discarding |-> TRUE], NoFrame, FALSE)
      [] b # 0 /\ ~d.discarding /\ Len(d.encoded) < MaxBody ->
             Outcome([d EXCEPT !.encoded = Append(@, b)], NoFrame, FALSE)
      [] b = 0 /\ d.discarding -> Outcome(d, NoFrame, TRUE)
      [] b = 0 /\ ~d.discarding /\ d.encoded = <<>> -> Outcome(d, NoFrame, FALSE)
      [] OTHER -> Outcome(NewDecoder, decode_body(d.encoded), decode_body(d.encoded) = NoFrame)
push(d, b) ==
    CASE b # 0 /\ d.discarding -> Outcome(d, NoFrame, FALSE)
      [] b # 0 /\ ~d.discarding /\ Len(d.encoded) = MaxBody ->
             Outcome([encoded |-> <<>>, discarding |-> TRUE], NoFrame, FALSE)
      [] b # 0 /\ ~d.discarding /\ Len(d.encoded) < MaxBody ->
             Outcome([d EXCEPT !.encoded = Append(@, b)], NoFrame, FALSE)
      [] b = 0 /\ d.discarding -> Outcome(NewDecoder, NoFrame, TRUE)
      [] b = 0 /\ ~d.discarding /\ d.encoded = <<>> -> Outcome(d, NoFrame, FALSE)
      [] OTHER -> Outcome(NewDecoder, decode_body(d.encoded), decode_body(d.encoded) = NoFrame)

(* Bytes are pushed until one yields a frame or an error; the rest stay. *)
decode_buffered(bytes) ==
    LET last == FoldLeft(LAMBDA s, b :
            IF s.out.frame # NoFrame \/ s.out.error THEN [s EXCEPT !.rest = Append(@, b)]
            ELSE [s EXCEPT !.out = push(s.out.decoder, b)],
            [out |-> Outcome(decoder, NoFrame, FALSE), rest |-> <<>>], bytes)
    IN /\ decoder' = last.out.decoder /\ received' = last.out.frame /\ buffer' = last.rest

FramingInit ==
    /\ decoder = NewDecoder /\ buffer = <<>> /\ received = NoFrame
    /\ wire = <<>> /\ owed = <<>> /\ noise = 0

(* The next byte sent begins a body. *)
Boundary == IF wire # <<>> THEN Last(wire) = 0
            ELSE IF buffer # <<>> THEN Last(buffer) = 0 ELSE decoder = NewDecoder
Idle == wire = <<>> /\ buffer = <<>> /\ received = NoFrame

Noise ==
    /\ owed = <<>> /\ wire = <<>> /\ noise < MaxNoise
    /\ noise' = noise + 1
    /\ \E b \in NoiseBytes : wire' = Append(wire, b)
    /\ UNCHANGED <<decoder, buffer, received, owed>>

transmit ==
    /\ Len(owed) < MaxOwed /\ Len(wire) <= MaxNoise
    /\ \E f \in Frames :
         /\ wire' = wire \o encode(f)
         /\ owed' = IF Boundary THEN Append(owed, f) ELSE owed
         /\ ~Boundary => noise' = MaxNoise
         /\ Boundary => UNCHANGED noise
    /\ UNCHANGED <<decoder, buffer, received>>

(* A byte of a frame is lost; nothing else goes wrong then. *)
Lose ==
    /\ wire # <<>> /\ Len(owed) = 1 /\ buffer = <<>> /\ received = NoFrame /\ noise = 0
    /\ noise' = MaxNoise
    /\ wire' = Tail(wire) /\ owed' = <<>>
    /\ UNCHANGED <<decoder, buffer, received>>

poll_receive ==
    /\ received = NoFrame /\ (buffer # <<>> \/ wire # <<>>)
    /\ IF buffer # <<>> THEN decode_buffered(buffer) /\ UNCHANGED wire
       ELSE \E n \in {k \in {1, ReadBytes, Len(wire)} : k <= ReadBytes /\ k <= Len(wire)} :
                /\ decode_buffered(SubSeq(wire, 1, n))
                /\ wire' = SubSeq(wire, n + 1, Len(wire))
    /\ UNCHANGED <<owed, noise>>

take_received ==
    /\ received # NoFrame
    /\ received' = NoFrame
    /\ owed' = IF owed # <<>> /\ received = Head(owed) THEN Tail(owed) ELSE owed
    /\ UNCHANGED <<decoder, buffer, wire, noise>>

FramingNext ==
    \/ Noise \/ transmit \/ Lose \/ poll_receive \/ take_received
FramingSpec == FramingInit /\ [][FramingNext]_framingVars

------------------------
(* An intact frame that begins after a delimiter is handed out as it was
   sent and in its turn: whatever noise, overlong body or cut frame came
   before, whatever zeros and full runs it contains, and however the bytes
   fall into reads. *)
CleanFramesArrive == Idle => owed = <<>>
=============================================================================
