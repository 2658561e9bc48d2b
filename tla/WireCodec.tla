------------------------------ MODULE WireCodec ------------------------------
(* Payloads as sequences of bytes.  A layout is the sequence of the fields an
   encoder writes, or a decoder reads, one after the other; a value maps the
   names of the fields to their bytes (least significant first) or, for an
   enumeration, to the name of the variant. *)
EXTENDS Integers, Sequences, SequencesExt

Byte == 0 .. 255

Field(n, w, k, t) == [n |-> n, w |-> w, k |-> k, t |-> t]
U(w, names) == [i \in DOMAIN names |-> Field(names[i], w, "raw", <<>>)]
Axes(names) == [i \in DOMAIN names |-> Field(names[i], 3, "axis", <<>>)]
E(name, table) == <<Field(name, 1, "enum", table)>>
K(byte) == <<Field("const", 1, "const", <<byte>>)>>

(* The codes of an enumeration, consecutive from the first one. *)
Codes(first, names) == [c \in first .. first + Len(names) - 1 |-> names[c - first + 1]]

(* The fields of the n-th element of a list. *)
Numbered(names, n) == [i \in DOMAIN names |-> names[i] \o ToString(n)]

Le(n, w) == [i \in 1 .. w |-> CASE i = 1 -> n % 256 [] i = 2 -> n \div 256 [] OTHER -> 0]
Ones(w) == [i \in 1 .. w |-> 255]

(* The number in little-endian bytes; every number of more than 24 bits is Big. *)
Big == 2 ^ 28
Num(b) ==
    IF \E i \in DOMAIN b : i > 3 /\ b[i] # 0 THEN Big
    ELSE FoldLeftDomain(LAMBDA sum, i : IF i > 3 THEN sum ELSE sum + b[i] * 256 ^ (i - 1), 0, b)

Zero(b) == \A i \in DOMAIN b : b[i] = 0

Width(L) == FoldLeft(LAMBDA sum, f : sum + f.w, 0, L)
At(L, b, i) == LET o == Width(SubSeq(L, 1, i - 1)) IN SubSeq(b, o + 1, o + L[i].w)
Names(L) == {L[i].n : i \in DOMAIN L} \ {"const"}
TableOf(f) == {f.t[c] : c \in DOMAIN f.t}

Encodable(L, v) == \A i \in DOMAIN L : L[i].k = "enum" => v[L[i].n] \in TableOf(L[i])

(* A 24-bit axis keeps the low bytes of its 32-bit number. *)
Cell(f, v) ==
    CASE f.k = "raw" -> v[f.n]
      [] f.k = "axis" -> SubSeq(v[f.n], 1, 3)
      [] f.k = "enum" -> <<CHOOSE c \in DOMAIN f.t : f.t[c] = v[f.n]>>
      [] f.k = "const" -> f.t

Encode(L, v) == FlattenSeq([i \in DOMAIN L |-> Cell(L[i], v)])

(* Mutant: bytes behind the last field are not looked at. *)
Fits_prefix(L, b) ==
    /\ Len(b) >= Width(L)
    /\ \A i \in DOMAIN L :
         /\ L[i].k = "enum" => At(L, b, i)[1] \in DOMAIN L[i].t
         /\ L[i].k = "const" => At(L, b, i) = L[i].t
Fits(L, b) ==
    /\ Len(b) = Width(L)
    /\ \A i \in DOMAIN L :
         /\ L[i].k = "enum" => At(L, b, i)[1] \in DOMAIN L[i].t
         /\ L[i].k = "const" => At(L, b, i) = L[i].t

(* ... and is sign-extended when read. *)
Read(f, b) ==
    CASE f.k = "raw" -> b
      [] f.k = "axis" -> b \o <<IF b[3] >= 128 THEN 255 ELSE 0>>
      [] f.k = "enum" -> f.t[b[1]]

Decode(L, b) ==
    [n \in Names(L) |-> LET i == CHOOSE j \in DOMAIN L : L[j].n = n IN Read(L[i], At(L, b, i))]
=============================================================================
