-------------------------- MODULE WireTrip_proofs --------------------------
(***************************************************************************)
(* The properties of WireTrip, for every path length and every payload.    *)
(* What bincode and the to_bytes functions write is what the reader gets   *)
(* back: lemmas on vectors, blocks, onions, routing information, SURBs and *)
(* packets, in that order, say that each is read as it was written and     *)
(* that no bytes but those that are written are accepted.  Then come the   *)
(* behaviours: WireInv says what has been sent and read, and of every      *)
(* change of the bytes follows what the reader makes of it.  An alteration *)
(* with a byte that is no number leaves all lengths as they are: what is   *)
(* read then is Like what was sent, part by part.                          *)
(***************************************************************************)
EXTENDS WireTrip, SequenceTheorems, WellFoundedInduction, TLAPS

(* The bytes: of a number, or of a field.  The names are those of the      *)
(* fields that SphinxWire, OnionWire and WireTrip send.                    *)
FieldNames ==
  {"address", "altered", "backward", "backwardTag", "cell", "enc", "filler", "forward", "id",
   "key", "mac", "next", "padding", "payload", "point", "reply", "sealed", "secret",
   "tag"}

Byte == {NumberByte(v) : v \in 0 .. 255} \cup (FieldNames \X Nat \X Nat)

(* The byte strings of a given length. *)
Strings(n) == {s \in Seq(Byte) : Len(s) = n}

Routings ==
  [mac : Strings(Sphinx!HEADER_INTEGRITY_MAC_SIZE), enc : Strings(Sphinx!Format!ENCRYPTED_ROUTING_INFO_SIZE)]

Headers == [shared_secret : Strings(Sphinx!SHARED_SECRET_LENGTH), routing : Routings]

-----------------------------------------------------------------------------
(* Slices. *)

LEMMA SliceTyped ==
  ASSUME NEW S, NEW s \in Seq(S), NEW a \in Nat, NEW b \in Nat, a <= b, b <= Len(s)
  PROVE  Sphinx!Slice(s, a, b) \in Seq(S) /\ Len(Sphinx!Slice(s, a, b)) = b - a
  BY DEF Sphinx!Slice

(* The slice from the first byte to the last is the string.                *)
LEMMA SliceAll ==
  ASSUME NEW S, NEW s \in Seq(S)
  PROVE  Sphinx!Slice(s, 0, Len(s)) = s
  BY DEF Sphinx!Slice

(* A slice within the first of two strings is found in both together.      *)
LEMMA SliceOfFirst ==
  ASSUME NEW S, NEW s \in Seq(S), NEW t \in Seq(S),
         NEW a \in Nat, NEW b \in Nat, a <= b, b <= Len(s)
  PROVE  Sphinx!Slice(s \o t, a, b) = Sphinx!Slice(s, a, b)
  BY DEF Sphinx!Slice

(* A slice of the second of two strings is found in both together, moved   *)
(* by the length of the first.                                             *)
LEMMA SliceOfSecond ==
  ASSUME NEW S, NEW s \in Seq(S), NEW t \in Seq(S),
         NEW a \in Nat, NEW b \in Nat, a <= b, b <= Len(t)
  PROVE  Sphinx!Slice(s \o t, Len(s) + a, Len(s) + b) = Sphinx!Slice(t, a, b)
  BY DEF Sphinx!Slice

(* Two slices that meet make the slice of both.                            *)
LEMMA SlicesJoin ==
  ASSUME NEW S, NEW s \in Seq(S), NEW a \in Nat, NEW b \in Nat, NEW c \in Nat,
         a <= b, b <= c, c <= Len(s)
  PROVE  Sphinx!Slice(s, a, b) \o Sphinx!Slice(s, b, c) = Sphinx!Slice(s, a, c)
  BY DEF Sphinx!Slice

(* The two halves of a concatenation. *)
LEMMA Halves ==
  ASSUME NEW S, NEW s \in Seq(S), NEW t \in Seq(S)
  PROVE  s \o t \in Seq(S) /\ Len(s \o t) = Len(s) + Len(t)
  OBVIOUS

(* The first of two strings is the slice up to its length.                 *)
LEMMA FirstHalf ==
  ASSUME NEW S, NEW s \in Seq(S), NEW t \in Seq(S)
  PROVE  Sphinx!Slice(s \o t, 0, Len(s)) = s
  BY DEF Sphinx!Slice

(* The second of two strings is the slice behind the first.                *)
LEMMA SecondHalf ==
  ASSUME NEW S, NEW s \in Seq(S), NEW t \in Seq(S)
  PROVE  Sphinx!Slice(s \o t, Len(s), Len(s) + Len(t)) = t
  BY DEF Sphinx!Slice

(* A sequence that is cut in two. *)
LEMMA Parts ==
  ASSUME NEW S, NEW s \in Seq(S), NEW j \in Nat, j <= Len(s)
  PROVE  /\ Sphinx!Slice(s, 0, j) \in Seq(S) /\ Len(Sphinx!Slice(s, 0, j)) = j
         /\ Sphinx!Slice(s, j, Len(s)) \in Seq(S) /\ Len(Sphinx!Slice(s, j, Len(s))) = Len(s) - j
         /\ Sphinx!Slice(s, 0, j) \o Sphinx!Slice(s, j, Len(s)) = s
  <1>1. Sphinx!Slice(s, 0, j) \in Seq(S) /\ Len(Sphinx!Slice(s, 0, j)) = j
    BY DEF Sphinx!Slice
  <1>2. Sphinx!Slice(s, j, Len(s)) \in Seq(S) /\ Len(Sphinx!Slice(s, j, Len(s))) = Len(s) - j
    BY DEF Sphinx!Slice
  <1>3. Sphinx!Slice(s, 0, j) \o Sphinx!Slice(s, j, Len(s)) = s
    <2>1. 0 \in Nat /\ Len(s) \in Nat /\ 0 <= j
      OBVIOUS
    <2>2. Sphinx!Slice(s, 0, j) \o Sphinx!Slice(s, j, Len(s)) = Sphinx!Slice(s, 0, Len(s))
      BY <2>1, SlicesJoin
    <2> QED
      BY <2>2, SliceAll
  <1> QED
    BY <1>1, <1>2, <1>3

-----------------------------------------------------------------------------
(* Lengths. *)

LEMMA Sizes ==
  /\ Sphinx!Format!ENCRYPTED_ROUTING_INFO_SIZE = 60 * MaxPathLength
  /\ Sphinx!Format!ENCRYPTED_ROUTING_INFO_SIZE \in Nat
  /\ Sphinx!Format!ENCRYPTED_ROUTING_INFO_SIZE >= 60
  /\ Sphinx!Format!FILLER_STEP_SIZE_INCREASE = 60
  /\ Sphinx!Format!DESTINATION_ADDRESS_LENGTH = 32
  /\ Sphinx!ROUTING_SIZE = 16 + Sphinx!Format!ENCRYPTED_ROUTING_INFO_SIZE
  /\ Sphinx!HEADER_SIZE = 48 + Sphinx!Format!ENCRYPTED_ROUTING_INFO_SIZE
  BY WireAssumption
     DEF Sphinx!Format!ENCRYPTED_ROUTING_INFO_SIZE, Sphinx!Format!FILLER_STEP_SIZE_INCREASE,
         Sphinx!Format!NODE_META_INFO_SIZE, Sphinx!Format!DESTINATION_ADDRESS_LENGTH,
         Sphinx!ROUTING_SIZE, Sphinx!HEADER_SIZE, Sphinx!HEADER_INTEGRITY_MAC_SIZE,
         Sphinx!SHARED_SECRET_LENGTH

-----------------------------------------------------------------------------
(* Headers. *)

LEMMA RoutingReadsBack ==
  ASSUME NEW r \in Routings
  PROVE  /\ Sphinx!routing_to_bytes(r) \in Strings(Sphinx!ROUTING_SIZE)
         /\ Sphinx!routing_from_bytes(Sphinx!routing_to_bytes(r)) = Sphinx!Ok(r)
  <1> DEFINE n     == Sphinx!Format!ENCRYPTED_ROUTING_INFO_SIZE
             mac   == r.mac
             enc   == r.enc
             bytes == mac \o enc
  <1>1. n \in Nat /\ Sphinx!ROUTING_SIZE = 16 + n
    BY Sizes
  <1>2. /\ mac \in Seq(Byte) /\ Len(mac) = 16
        /\ enc \in Seq(Byte) /\ Len(enc) = n
        /\ r = [mac |-> mac, enc |-> enc]
    BY DEF Routings, Strings, Sphinx!HEADER_INTEGRITY_MAC_SIZE
  <1>3. Sphinx!routing_to_bytes(r) = bytes
    BY DEF Sphinx!routing_to_bytes
  <1> HIDE DEF n, mac, enc
  <1>4. /\ bytes \in Seq(Byte) /\ Len(bytes) = 16 + n
        /\ Sphinx!Slice(bytes, 0, 16) = mac /\ Sphinx!Slice(bytes, 16, 16 + n) = enc
    <2>1. bytes \in Seq(Byte) /\ Len(bytes) = Len(mac) + Len(enc)
      BY <1>2, Halves, Zenon
    <2>2. Sphinx!Slice(bytes, 0, Len(mac)) = mac
      BY <1>2, FirstHalf, Zenon
    <2>3. Sphinx!Slice(bytes, Len(mac), Len(mac) + Len(enc)) = enc
      BY <1>2, SecondHalf, Zenon
    <2> HIDE DEF bytes
    <2> QED
      BY <1>2, <2>1, <2>2, <2>3
  <1> HIDE DEF bytes
  <1>5. Sphinx!routing_from_bytes(bytes) = Sphinx!Ok([mac |-> mac, enc |-> enc])
    BY <1>1, <1>4 DEF Sphinx!routing_from_bytes, Sphinx!HEADER_INTEGRITY_MAC_SIZE
  <1> QED
    BY <1>1, <1>2, <1>3, <1>4, <1>5 DEF Strings

(* A header is read back as it was written, for every path length.         *)
THEOREM HeaderReadsBack ==
  ASSUME NEW h \in Headers
  PROVE  /\ Sphinx!header_to_bytes(h) \in Strings(Sphinx!HEADER_SIZE)
         /\ Sphinx!header_from_bytes(Sphinx!header_to_bytes(h)) = Sphinx!Ok(h)
  <1> DEFINE n       == Sphinx!ROUTING_SIZE
             secret  == h.shared_secret
             routing == h.routing
             r       == Sphinx!routing_to_bytes(routing)
             bytes   == secret \o r
  <1>1. n \in Nat /\ Sphinx!HEADER_SIZE = 32 + n
    BY Sizes
  <1>2. /\ secret \in Seq(Byte) /\ Len(secret) = 32
        /\ routing \in Routings
        /\ h = [shared_secret |-> secret, routing |-> routing]
    BY DEF Headers, Strings, Sphinx!SHARED_SECRET_LENGTH
  <1>3. Sphinx!header_to_bytes(h) = bytes
    BY DEF Sphinx!header_to_bytes
  <1> HIDE DEF secret, routing
  <1>4. /\ r \in Seq(Byte) /\ Len(r) = n
        /\ Sphinx!routing_from_bytes(r) = Sphinx!Ok(routing)
    BY <1>2, RoutingReadsBack DEF Strings
  <1> HIDE DEF r, n
  <1>5. /\ bytes \in Seq(Byte) /\ Len(bytes) = 32 + n
        /\ Sphinx!Slice(bytes, 0, 32) = secret /\ Sphinx!Slice(bytes, 32, 32 + n) = r
    <2>1. bytes \in Seq(Byte) /\ Len(bytes) = Len(secret) + Len(r)
      BY <1>2, <1>4, Halves, Zenon
    <2>2. Sphinx!Slice(bytes, 0, Len(secret)) = secret
      BY <1>2, <1>4, FirstHalf, Zenon
    <2>3. Sphinx!Slice(bytes, Len(secret), Len(secret) + Len(r)) = r
      BY <1>2, <1>4, SecondHalf, Zenon
    <2> HIDE DEF bytes
    <2> QED
      BY <1>2, <1>4, <2>1, <2>2, <2>3
  <1> HIDE DEF bytes
  <1>6. Sphinx!header_from_bytes(bytes) = Sphinx!Ok([shared_secret |-> secret, routing |-> routing])
    <2>1. /\ Sphinx!Slice(bytes, 32, Sphinx!HEADER_SIZE) = r /\ Len(bytes) = Sphinx!HEADER_SIZE
          /\ Sphinx!routing_from_bytes(r).ok /\ Sphinx!routing_from_bytes(r).value = routing
      BY <1>1, <1>4, <1>5 DEF Sphinx!Ok
    <2> QED
      BY <2>1, <1>5 DEF Sphinx!header_from_bytes, Sphinx!SHARED_SECRET_LENGTH
  <1> QED
    BY <1>1, <1>2, <1>3, <1>5, <1>6 DEF Strings, n

(* No other bytes are read as routing information.                         *)
LEMMA RoutingIsCanonical ==
  ASSUME NEW bytes \in Seq(Byte),
         Sphinx!routing_from_bytes(bytes).ok
  PROVE  LET r == Sphinx!routing_from_bytes(bytes).value
         IN  r \in Routings /\ Sphinx!routing_to_bytes(r) = bytes
  <1> DEFINE n   == Sphinx!Format!ENCRYPTED_ROUTING_INFO_SIZE
             mac == Sphinx!Slice(bytes, 0, 16)
             enc == Sphinx!Slice(bytes, 16, Sphinx!ROUTING_SIZE)
  <1>1. n \in Nat /\ Sphinx!ROUTING_SIZE = 16 + n
    BY Sizes
  <1>2. /\ Len(bytes) = Sphinx!ROUTING_SIZE
        /\ Sphinx!routing_from_bytes(bytes).value = [mac |-> mac, enc |-> enc]
    BY DEF Sphinx!routing_from_bytes, Sphinx!Ok, Sphinx!Err, Sphinx!HEADER_INTEGRITY_MAC_SIZE
  <1> HIDE DEF n
  <1>3. /\ mac \in Seq(Byte) /\ Len(mac) = 16
        /\ enc \in Seq(Byte) /\ Len(enc) = n
        /\ mac \o enc = bytes
    <2> DEFINE k == 16
    <2>1. k \in Nat /\ Len(bytes) = k + n /\ Sphinx!ROUTING_SIZE = k + n
      BY <1>1, <1>2
    <2>2. k <= k + n /\ k + n <= Len(bytes) /\ 0 <= k /\ 0 \in Nat /\ k + n \in Nat
      BY <1>1, <2>1
    <2> HIDE DEF k
    <2>3. /\ Sphinx!Slice(bytes, 0, k) \in Seq(Byte) /\ Len(Sphinx!Slice(bytes, 0, k)) = k - 0
          /\ Sphinx!Slice(bytes, k, k + n) \in Seq(Byte)
          /\ Len(Sphinx!Slice(bytes, k, k + n)) = (k + n) - k
      BY <2>1, <2>2, SliceTyped
    <2>4. Sphinx!Slice(bytes, 0, k) \o Sphinx!Slice(bytes, k, k + n) = Sphinx!Slice(bytes, 0, k + n)
      BY <2>1, <2>2, SlicesJoin
    <2>5. Sphinx!Slice(bytes, 0, k + n) = bytes
      BY <2>1, SliceAll
    <2> QED
      BY <1>1, <2>1, <2>3, <2>4, <2>5 DEF k
  <1> HIDE DEF mac, enc
  <1> QED
    BY <1>2, <1>3 DEF Routings, Strings, Sphinx!routing_to_bytes, Sphinx!HEADER_INTEGRITY_MAC_SIZE, n

(* Bytes that header_from_bytes accepts are those that to_bytes writes for *)
(* the header it returned.                                                 *)
THEOREM HeaderIsCanonical ==
  ASSUME NEW bytes \in Seq(Byte),
         Sphinx!header_from_bytes(bytes).ok
  PROVE  LET h == Sphinx!header_from_bytes(bytes).value
         IN  h \in Headers /\ Sphinx!header_to_bytes(h) = bytes
  <1> DEFINE secret == Sphinx!Slice(bytes, 0, 32)
             rest   == Sphinx!Slice(bytes, 32, Sphinx!HEADER_SIZE)
             read   == Sphinx!routing_from_bytes(rest)
  <1>1. Sphinx!ROUTING_SIZE \in Nat /\ Sphinx!HEADER_SIZE = 32 + Sphinx!ROUTING_SIZE
    BY Sizes
  <1>2. /\ Len(bytes) = Sphinx!HEADER_SIZE /\ read.ok
        /\ Sphinx!header_from_bytes(bytes).value = [shared_secret |-> secret, routing |-> read.value]
    BY DEF Sphinx!header_from_bytes, Sphinx!Ok, Sphinx!Err, Sphinx!SHARED_SECRET_LENGTH
  <1>3. /\ secret \in Seq(Byte) /\ Len(secret) = 32
        /\ rest \in Seq(Byte) /\ secret \o rest = bytes
    <2> DEFINE k == 32
    <2>1. Len(bytes) = Sphinx!HEADER_SIZE /\ k \in Nat /\ k <= Len(bytes)
      BY <1>1, <1>2
    <2> HIDE DEF k
    <2>2. /\ Sphinx!Slice(bytes, 0, k) \in Seq(Byte) /\ Len(Sphinx!Slice(bytes, 0, k)) = k
          /\ Sphinx!Slice(bytes, k, Len(bytes)) \in Seq(Byte)
          /\ Sphinx!Slice(bytes, 0, k) \o Sphinx!Slice(bytes, k, Len(bytes)) = bytes
      BY <2>1, Parts
    <2> QED
      BY <2>1, <2>2 DEF k
  <1> HIDE DEF secret, rest
  <1>4. read.value \in Routings /\ Sphinx!routing_to_bytes(read.value) = rest
    BY <1>2, <1>3, RoutingIsCanonical
  <1> HIDE DEF read
  <1> QED
    BY <1>2, <1>3, <1>4 DEF Headers, Strings, Sphinx!header_to_bytes, Sphinx!SHARED_SECRET_LENGTH

-----------------------------------------------------------------------------
(* What is under a layer. *)

LEMMA NumbersAreBytes == \A v \in 0 .. 255 : NumberByte(v) \in Byte
  BY DEF NumberByte, Byte

(* SphinxWire has the bytes of WireBytes.                                  *)
LEMMA SameBytes ==
  /\ Sphinx!TooLarge = TooLarge
  /\ \A v : Sphinx!NumberByte(v) = NumberByte(v)
  /\ \A name, k, n : Sphinx!Field(name, k, n) = Field(name, k, n)
  /\ \A v, n : Sphinx!LittleEndian(v, n) = LittleEndian(v, n)
  /\ \A s : Sphinx!ReadLittleEndian(s) = ReadLittleEndian(s)
  /\ \A n, s : Sphinx!Drop(n, s) = Drop(n, s)
  <1>1. Sphinx!TooLarge = TooLarge
    BY DEF TooLarge, Sphinx!TooLarge
  <1>2. \A v : Sphinx!NumberByte(v) = NumberByte(v)
    BY DEF NumberByte, Sphinx!NumberByte
  <1>3. \A name, k, n : Sphinx!Field(name, k, n) = Field(name, k, n)
    BY DEF Field, Sphinx!Field
  <1>4. \A v, n : Sphinx!LittleEndian(v, n) = LittleEndian(v, n)
    BY DEF LittleEndian, Sphinx!LittleEndian, NumberByte, Sphinx!NumberByte
  <1>5. \A s : Sphinx!ReadLittleEndian(s) = ReadLittleEndian(s)
    BY DEF ReadLittleEndian, Sphinx!ReadLittleEndian, TooLarge, Sphinx!TooLarge
  <1>6. \A n, s : Sphinx!Drop(n, s) = Drop(n, s)
    BY DEF Drop, Sphinx!Drop
  <1> QED
    BY <1>1, <1>2, <1>3, <1>4, <1>5, <1>6

(* A number below the bound is read as it was written, least byte first.   *)
LEMMA LittleEndianOfWidth ==
  ASSUME NEW v \in Nat, v < TooLarge, NEW width \in Nat, width >= 3
  PROVE  /\ LittleEndian(v, width) \in Seq(Byte) /\ Len(LittleEndian(v, width)) = width
         /\ ReadLittleEndian(LittleEndian(v, width)) = v
  <1> DEFINE d1 == v % 256
             d2 == (v \div 256) % 256
             d3 == v \div (256 * 256)
             s == LittleEndian(v, width)
  <1>1. v \in Nat /\ d1 \in 0 .. 255 /\ d2 \in 0 .. 255 /\ d3 \in 0 .. 255
        /\ d1 + 256 * d2 + 256 * 256 * d3 = v
    <2> DEFINE w == v \div 256
    <2>1. v = 256 * w + d1 /\ w \in Nat /\ d1 \in 0 .. 255
      OBVIOUS
    <2>2. w \div 256 = d3 /\ d3 \in Nat
      OBVIOUS
    <2>3. w = 256 * (w \div 256) + d2 /\ d2 \in 0 .. 255
      OBVIOUS
    <2>4. v < 16777216
      BY DEF TooLarge
    <2> HIDE DEF d1, d2, d3, w
    <2> QED
      BY <2>1, <2>2, <2>3, <2>4
  <1> HIDE DEF d1, d2, d3
  <1>2. s = [i \in 1 .. width |-> NumberByte(CASE i = 1 -> d1 [] i = 2 -> d2 [] i = 3 -> d3
                                           [] OTHER -> 0)]
    BY DEF LittleEndian, d1, d2, d3
  <1> HIDE DEF s
  <1>3. \A i \in 1 .. width : s[i] \in Byte
    <2> TAKE i \in 1 .. width
    <2>1. PICK d \in 0 .. 255 : s[i] = NumberByte(d)
      <3>1. 0 \in 0 .. 255
        OBVIOUS
      <3>2. s[i] = NumberByte(CASE i = 1 -> d1 [] i = 2 -> d2 [] i = 3 -> d3 [] OTHER -> 0)
        BY <1>2
      <3>3. s[i] \in {NumberByte(d1), NumberByte(d2), NumberByte(d3), NumberByte(0)}
        BY <3>2
      <3> QED
        BY <1>1, <3>1, <3>3
    <2> QED
      BY <2>1, NumbersAreBytes
  <1>4. s \in Seq(Byte) /\ Len(s) = width
    BY <1>2, <1>3
  <1>5. /\ \A i \in 1 .. width : s[i][1] = "#" /\ (i > 3 => s[i][3] = 0)
        /\ s[1][3] = d1 /\ s[2][3] = d2 /\ s[3][3] = d3
    BY <1>1, <1>2 DEF NumberByte
  <1>6. DOMAIN s = 1 .. width
    BY <1>4
  <1>7. ReadLittleEndian(s) = d1 + 256 * d2 + 256 * 256 * d3
    BY <1>5, <1>6 DEF ReadLittleEndian
  <1> QED
    BY <1>1, <1>4, <1>7 DEF s

LEMMA LittleEndianReadsBack ==
  ASSUME NEW v \in Nat, v < TooLarge
  PROVE  /\ LittleEndian(v, 8) \in Seq(Byte) /\ Len(LittleEndian(v, 8)) = 8
         /\ ReadLittleEndian(LittleEndian(v, 8)) = v
  <1>1. 8 \in Nat /\ 8 >= 3
    OBVIOUS
  <1> QED
    BY <1>1, LittleEndianOfWidth

(* Reversing keeps length and bytes, and undoes itself.                    *)
LEMMA ReverseTwice ==
  ASSUME NEW S, NEW s \in Seq(S)
  PROVE  /\ Sphinx!Reverse(s) \in Seq(S) /\ Len(Sphinx!Reverse(s)) = Len(s)
         /\ Sphinx!Reverse(Sphinx!Reverse(s)) = s
  <1> DEFINE r == Sphinx!Reverse(s)
  <1>1. r \in Seq(S) /\ Len(r) = Len(s)
    BY DEF Sphinx!Reverse
  <1>2. \A i \in 1 .. Len(s) : r[i] = s[Len(s) - i + 1]
    BY DEF Sphinx!Reverse
  <1> HIDE DEF r
  <1>3. Sphinx!Reverse(r) \in Seq(S) /\ Len(Sphinx!Reverse(r)) = Len(s)
    BY <1>1 DEF Sphinx!Reverse
  <1>4. \A i \in 1 .. Len(s) : Sphinx!Reverse(r)[i] = r[Len(s) - i + 1]
    BY <1>1 DEF Sphinx!Reverse
  <1>5. \A i \in 1 .. Len(s) : Sphinx!Reverse(r)[i] = s[i]
    BY <1>2, <1>4
  <1>6. Sphinx!Reverse(r) = s
    BY <1>3, <1>5
  <1> QED
    BY <1>1, <1>6 DEF r

(* A delay is read as it was written, most significant byte first.         *)
LEMMA BigEndianReadsBack ==
  ASSUME NEW v \in Nat, v < TooLarge
  PROVE  /\ Sphinx!BigEndian(v, 8) \in Seq(Byte) /\ Len(Sphinx!BigEndian(v, 8)) = 8
         /\ Sphinx!ReadBigEndian(Sphinx!BigEndian(v, 8)) = v
  <1> DEFINE s == LittleEndian(v, 8)
  <1>1. s \in Seq(Byte) /\ Len(s) = 8 /\ ReadLittleEndian(s) = v
    BY LittleEndianReadsBack
  <1> HIDE DEF s
  <1>2. Sphinx!Reverse(s) \in Seq(Byte) /\ Len(Sphinx!Reverse(s)) = 8
    BY <1>1, ReverseTwice
  <1>3. Sphinx!Reverse(Sphinx!Reverse(s)) = s
    BY <1>1, ReverseTwice
  <1> QED
    BY <1>1, <1>2, <1>3, SameBytes DEF Sphinx!BigEndian, Sphinx!ReadBigEndian, s

(* What putting the string t behind the string s makes: its length, where  *)
(* t is, that the slices of s keep their place, and that so does its flag. *)
LEMMA GrownTyped ==
  ASSUME NEW i \in Nat, NEW j \in Nat, NEW s \in Strings(i), NEW t \in Strings(j)
  PROVE  s \o t \in Strings(i + j)
  BY DEF Strings

(* The string that was put behind is found behind the length of the        *)
(* first.                                                                  *)
LEMMA GrownEnd ==
  ASSUME NEW i \in Nat, NEW j \in Nat, NEW s \in Strings(i), NEW t \in Strings(j)
  PROVE  Sphinx!Slice(s \o t, i, i + j) = t
  BY SecondHalf DEF Strings

(* Slices of the first string stay where they are.                         *)
LEMMA GrownKeeps ==
  ASSUME NEW i \in Nat, NEW j \in Nat, NEW s \in Strings(i), NEW t \in Strings(j),
         NEW a \in Nat, NEW b \in Nat, a <= b, b <= i
  PROVE  Sphinx!Slice(s \o t, a, b) = Sphinx!Slice(s, a, b)
  BY SliceOfFirst DEF Strings

(* The first byte of a string that has one stays the first.                *)
LEMMA GrownFlag ==
  ASSUME NEW i \in Nat, NEW j \in Nat, NEW s \in Strings(i), NEW t \in Strings(j), 1 <= i
  PROVE  (s \o t)[1] = s[1]
  BY DEF Strings

(* Three strings can be joined in either order.                            *)
LEMMA ConcatAssociates ==
  ASSUME NEW s \in Seq(Byte), NEW t \in Seq(Byte), NEW u \in Seq(Byte)
  PROVE  (s \o t) \o u = s \o (t \o u)
  OBVIOUS

(* Every layer begins with four bytes, the first of which is the flag.     *)
LEMMA FlagAndVersion ==
  ASSUME NEW flag \in 0 .. 255
  PROVE  LET s == <<NumberByte(flag)>> \o Sphinx!Version
         IN  s \in Seq(Byte) /\ Len(s) = 4 /\ s[1] = NumberByte(flag)
  <1> DEFINE f == NumberByte(flag)
             z == NumberByte(0)
             o == NumberByte(1)
  <1>1. f \in Byte /\ z \in Byte /\ o \in Byte
    BY NumbersAreBytes
  <1>2. Sphinx!Version = <<z, o, z>>
    BY SameBytes DEF Sphinx!Version
  <1> HIDE DEF f, z, o
  <1> QED
    BY <1>1, <1>2 DEF f

(* A slot of zeroes is a byte string of its length.                        *)
LEMMA ZeroesTyped ==
  ASSUME NEW n \in Nat
  PROVE  Sphinx!Zeroes(n) \in Seq(Byte) /\ Len(Sphinx!Zeroes(n)) = n
  BY NumbersAreBytes, SameBytes DEF Sphinx!Zeroes

(* What a layer keeps of the next layer is one slot shorter.               *)
LEMMA TruncateTyped ==
  ASSUME NEW enc \in Strings(Sphinx!Format!ENCRYPTED_ROUTING_INFO_SIZE)
  PROVE  /\ Sphinx!truncate(enc) \in Seq(Byte)
         /\ Len(Sphinx!truncate(enc)) = Sphinx!Format!ENCRYPTED_ROUTING_INFO_SIZE - 60
  <1> DEFINE n == Sphinx!Format!ENCRYPTED_ROUTING_INFO_SIZE
  <1>1. n \in Nat /\ n >= 60 /\ Sphinx!Format!FILLER_STEP_SIZE_INCREASE = 60
    BY Sizes
  <1>2. enc \in Seq(Byte) /\ Len(enc) = n
    BY DEF Strings
  <1> HIDE DEF n
  <1>3. Sphinx!Slice(enc, 0, n - 60) \in Seq(Byte) /\ Len(Sphinx!Slice(enc, 0, n - 60)) = n - 60
    BY <1>1, <1>2 DEF Sphinx!Slice
  <1> QED
    BY <1>1, <1>3 DEF Sphinx!truncate, n

(* What RoutingInformation wrote for a node of the route is what the node  *)
(* parses after it has put a slot of zeroes behind it, for every length of *)
(* the path: its next node's address, delay and MAC, and that node's part. *)
THEOREM HopReadsBack ==
  ASSUME NEW address \in Strings(Sphinx!NODE_ADDRESS_LENGTH),
         NEW delay \in Nat, delay < TooLarge, NEW behind \in Routings
  PROVE  LET info == Sphinx!RoutingInformation(address, delay, behind)
         IN  /\ info \in Strings(Sphinx!Format!ENCRYPTED_ROUTING_INFO_SIZE)
             /\ Sphinx!parse(Sphinx!add_zero_padding(info))
                  = Sphinx!Ok([hop |-> "ForwardHop", address |-> address, delay |-> delay,
                        mac |-> behind.mac, enc |-> Sphinx!add_zero_padding(Sphinx!truncate(behind.enc))])
  <1> DEFINE n  == Sphinx!Format!ENCRYPTED_ROUTING_INFO_SIZE
             d  == Sphinx!BigEndian(delay, 8)
             m  == behind.mac
             t  == Sphinx!truncate(behind.enc)
             z  == Sphinx!Zeroes(60)
             p1 == <<NumberByte(Sphinx!FORWARD_HOP)>> \o Sphinx!Version
             p2 == p1 \o address
             p3 == p2 \o d
             p4 == p3 \o m
             p5 == p4 \o t
             p6 == p5 \o z
  <1>1. n \in Nat /\ n >= 60 /\ n - 60 \in Nat /\ Sphinx!Format!FILLER_STEP_SIZE_INCREASE = 60
    BY Sizes
  <1>2. address \in Strings(32)
    BY DEF Sphinx!NODE_ADDRESS_LENGTH
  <1>3. d \in Strings(8) /\ Sphinx!ReadBigEndian(d) = delay
    BY BigEndianReadsBack DEF Strings
  <1>4. m \in Strings(16)
    BY DEF Routings, Sphinx!HEADER_INTEGRITY_MAC_SIZE
  <1>5. t \in Strings(n - 60)
    BY TruncateTyped DEF Routings, Strings
  <1>6. z \in Strings(60)
    BY ZeroesTyped DEF Strings
  <1>7. p1 \in Strings(4) /\ p1[1] = NumberByte(Sphinx!FORWARD_HOP)
    <2>1. Sphinx!FORWARD_HOP \in 0 .. 255
      BY DEF Sphinx!FORWARD_HOP
    <2> QED
      BY <2>1, FlagAndVersion DEF Strings
  <1>8. /\ Sphinx!RoutingInformation(address, delay, behind) = p5
        /\ Sphinx!add_zero_padding(p5) = p6
        /\ Sphinx!add_zero_padding(Sphinx!truncate(behind.enc)) = t \o z
    BY <1>1, SameBytes DEF Sphinx!RoutingInformation, Sphinx!add_zero_padding, Sphinx!DELAY_LENGTH
  <1> HIDE DEF n, d, m, t, z, p1
  <1> DEFINE N4 == 4  N8 == 8  N16 == 16  N32 == 32  N36 == 36  N44 == 44  N60 == 60
             k == n - 60
  <1>9. /\ N4 \in Nat /\ N8 \in Nat /\ N16 \in Nat /\ N32 \in Nat /\ N36 \in Nat
        /\ N44 \in Nat /\ N60 \in Nat /\ k \in Nat
        /\ N4 + N32 = N36 /\ N36 + N8 = N44 /\ N44 + N16 = N60 /\ N60 + k = n /\ k + N60 = n
        /\ N4 <= N36 /\ N36 <= N36 /\ N36 <= N44 /\ N44 <= N44 /\ N44 <= N60 /\ N60 <= N60
        /\ N36 <= N60 /\ 1 <= N4 /\ 1 <= N36 /\ 1 <= N44 /\ 1 <= N60
    BY <1>1
  <1>10. /\ p1 \in Strings(N4) /\ address \in Strings(N32) /\ d \in Strings(N8)
         /\ m \in Strings(N16) /\ t \in Strings(k) /\ z \in Strings(N60)
    BY <1>2, <1>3, <1>4, <1>5, <1>6, <1>7
  <1> HIDE DEF N4, N8, N16, N32, N36, N44, N60, k
  <1>11. p2 \in Strings(N36)
    BY <1>9, <1>10, GrownTyped, ZenonT(30)
  <1>12. Sphinx!Slice(p2, N4, N36) = address
    BY <1>9, <1>10, GrownEnd, ZenonT(30)
  <1>13. p2[1] = p1[1]
    BY <1>9, <1>10, GrownFlag
  <1> HIDE DEF p2
  <1>14. p3 \in Strings(N44)
    BY <1>9, <1>10, <1>11, GrownTyped, ZenonT(30)
  <1>15. Sphinx!Slice(p3, N36, N44) = d
    BY <1>9, <1>10, <1>11, GrownEnd, ZenonT(30)
  <1>16. Sphinx!Slice(p3, N4, N36) = Sphinx!Slice(p2, N4, N36)
    BY <1>9, <1>10, <1>11, GrownKeeps
  <1>17. p3[1] = p2[1]
    BY <1>9, <1>10, <1>11, GrownFlag
  <1> HIDE DEF p3
  <1>18. p4 \in Strings(N60)
    BY <1>9, <1>10, <1>14, GrownTyped, ZenonT(30)
  <1>19. Sphinx!Slice(p4, N44, N60) = m
    BY <1>9, <1>10, <1>14, GrownEnd, ZenonT(30)
  <1>20. Sphinx!Slice(p4, N36, N44) = Sphinx!Slice(p3, N36, N44)
    BY <1>9, <1>10, <1>14, GrownKeeps
  <1>21. Sphinx!Slice(p4, N4, N36) = Sphinx!Slice(p3, N4, N36)
    BY <1>9, <1>10, <1>14, GrownKeeps
  <1>22. p4[1] = p3[1]
    BY <1>9, <1>10, <1>14, GrownFlag
  <1> HIDE DEF p4
  <1> DEFINE r == t \o z
  <1>23. p5 \in Strings(n)
    BY <1>9, <1>10, <1>18, GrownTyped, ZenonT(30)
  <1>24. r \in Strings(n)
    BY <1>9, <1>10, GrownTyped, ZenonT(30)
  <1>25. p6 = p4 \o r
    <2>1. p4 \in Seq(Byte) /\ t \in Seq(Byte) /\ z \in Seq(Byte)
      BY <1>10, <1>18 DEF Strings
    <2> QED
      BY <2>1, ConcatAssociates, Zenon
  <1> HIDE DEF r, p5, p6
  <1> DEFINE p == p4 \o r
  <1>26. Sphinx!Slice(p, N60, N60 + n) = r
    BY <1>1, <1>9, <1>18, <1>24, GrownEnd, ZenonT(30)
  <1>27. Sphinx!Slice(p, N44, N60) = Sphinx!Slice(p4, N44, N60)
    BY <1>1, <1>9, <1>18, <1>24, GrownKeeps
  <1>28. Sphinx!Slice(p, N36, N44) = Sphinx!Slice(p4, N36, N44)
    BY <1>1, <1>9, <1>18, <1>24, GrownKeeps
  <1>29. Sphinx!Slice(p, N4, N36) = Sphinx!Slice(p4, N4, N36)
    BY <1>1, <1>9, <1>18, <1>24, GrownKeeps
  <1>30. p[1] = p4[1]
    BY <1>1, <1>9, <1>18, <1>24, GrownFlag
  <1> HIDE DEF p
  <1>31. Sphinx!parse(p) = Sphinx!Ok(Sphinx!parse_as_forward_hop(p))
    BY <1>7, <1>13, <1>17, <1>22, <1>30, SameBytes DEF Sphinx!parse
  <1>32. /\ Sphinx!Slice(p, 4, 36) = address /\ Sphinx!Slice(p, 36, 44) = d
         /\ Sphinx!Slice(p, 44, 60) = m /\ Sphinx!Slice(p, 60, 60 + n) = r
    BY <1>12, <1>15, <1>16, <1>19, <1>20, <1>21, <1>26, <1>27, <1>28, <1>29
       DEF N4, N36, N44, N60
  <1>33. Sphinx!parse_as_forward_hop(p)
           = [hop |-> "ForwardHop", address |-> address, delay |-> delay, mac |-> m, enc |-> r]
    BY <1>3, <1>32 DEF Sphinx!parse_as_forward_hop, Sphinx!VERSION_LENGTH, Sphinx!NODE_ADDRESS_LENGTH,
       Sphinx!DELAY_LENGTH, Sphinx!HEADER_INTEGRITY_MAC_SIZE, n
  <1> QED
    BY <1>8, <1>23, <1>25, <1>31, <1>33 DEF m, r, n, p

(* The bytes of the fields are bytes.                                      *)
LEMMA FieldBytesAreBytes == \A name \in FieldNames, k \in Nat, i \in Nat : <<name, k, i>> \in Byte
  BY DEF Byte

(* A field is a byte string of its length.                                 *)
LEMMA FieldTyped ==
  ASSUME NEW name \in FieldNames, NEW k \in Nat, NEW len \in Nat
  PROVE  Field(name, k, len) \in Strings(len)
  <1> DEFINE b(i) == <<name, k, i>>
             s    == Field(name, k, len)
  <1>1. \A i \in 1 .. len : b(i) \in Byte
    <2> TAKE i \in 1 .. len
    <2>1. i \in Nat
      OBVIOUS
    <2> QED
      BY <2>1, FieldBytesAreBytes, Zenon
  <1>2. s = [i \in 1 .. len |-> b(i)]
    BY Zenon DEF Field
  <1> HIDE DEF b, s
  <1>3. s \in Seq(Byte) /\ Len(s) = len
    BY <1>1, <1>2
  <1> QED
    BY <1>3 DEF Strings, s

(* A route of any length the code allows leaves its padding and its filler *)
(* room: together with the meta data they fill the routing information.    *)
LEMMA FinalSizes ==
  ASSUME NEW route_len \in 1 .. MaxPathLength
  PROVE  LET pad    == Sphinx!Format!padding_length(route_len)
             filler == Sphinx!Format!FILLER_STEP_SIZE_INCREASE * (route_len - 1)
         IN  /\ pad \in Nat /\ filler \in Nat
             /\ 52 + pad \in Nat
             /\ 52 + pad + filler = Sphinx!Format!ENCRYPTED_ROUTING_INFO_SIZE
  BY WireAssumption
     DEF Sphinx!Format!padding_length, Sphinx!Format!max_padded_destination_identifier_length,
         Sphinx!Format!FINAL_NODE_META_INFO_LENGTH, Sphinx!Format!ENCRYPTED_ROUTING_INFO_SIZE,
         Sphinx!Format!FILLER_STEP_SIZE_INCREASE, Sphinx!Format!NODE_META_INFO_SIZE,
         Sphinx!Format!DESTINATION_ADDRESS_LENGTH

(* What FinalRoutingInformation wrote is what the last node parses,        *)
(* whatever the length of the route and whatever bytes the padding, the    *)
(* filler and the slot of zeroes are; and it has the size of any other     *)
(* node's routing information.                                             *)
THEOREM LastHopReadsBack ==
  ASSUME NEW route_len \in 1 .. MaxPathLength,
         NEW destination \in Strings(Sphinx!NODE_ADDRESS_LENGTH),
         NEW identifier \in Strings(Sphinx!IDENTIFIER_LENGTH)
  PROVE  LET info == Sphinx!FinalRoutingInformation(destination, identifier, route_len)
         IN  /\ info \in Strings(Sphinx!Format!ENCRYPTED_ROUTING_INFO_SIZE)
             /\ Sphinx!parse(Sphinx!add_zero_padding(info))
                  = Sphinx!Ok([hop |-> "FinalHop", destination |-> destination,
                        identifier |-> identifier])
  <1> DEFINE n  == Sphinx!Format!ENCRYPTED_ROUTING_INFO_SIZE
             i  == Sphinx!Format!padding_length(route_len)
             j  == Sphinx!Format!FILLER_STEP_SIZE_INCREASE * (route_len - 1)
             p  == Field("padding", 0, i)
             f  == Field("filler", 0, j)
             z  == Sphinx!Zeroes(60)
             p1 == <<NumberByte(Sphinx!FINAL_HOP)>> \o Sphinx!Version
             p2 == p1 \o destination
             p3 == p2 \o identifier
             p4 == p3 \o p
             p5 == p4 \o f
             p6 == p5 \o z
             N4 == 4  N16 == 16  N32 == 32  N36 == 36  N52 == 52  N60 == 60
             k == 52 + i
  <1>1. n \in Nat /\ Sphinx!Format!FILLER_STEP_SIZE_INCREASE = 60
    BY Sizes
  <1>2. i \in Nat /\ j \in Nat /\ k \in Nat /\ k + j = n
    BY FinalSizes
  <1>3. p1 \in Strings(4) /\ p1[1] = NumberByte(Sphinx!FINAL_HOP)
    <2>1. Sphinx!FINAL_HOP \in 0 .. 255
      BY DEF Sphinx!FINAL_HOP
    <2> QED
      BY <2>1, FlagAndVersion DEF Strings
  <1>4. z \in Strings(60)
    BY ZeroesTyped DEF Strings
  <1>5. /\ Sphinx!FinalRoutingInformation(destination, identifier, route_len) = p5
        /\ Sphinx!add_zero_padding(p5) = p6
    BY <1>1, SameBytes DEF Sphinx!FinalRoutingInformation, Sphinx!add_zero_padding
  <1> HIDE DEF n, i, j, z, p1
  <1>6. p \in Strings(i) /\ f \in Strings(j)
    <2>1. "padding" \in FieldNames /\ "filler" \in FieldNames
      BY DEF FieldNames
    <2>2. 0 \in Nat
      OBVIOUS
    <2> QED
      BY <1>2, <2>1, <2>2, FieldTyped, Zenon
  <1>7. /\ p1 \in Strings(N4) /\ destination \in Strings(N32)
        /\ identifier \in Strings(N16) /\ z \in Strings(N60)
    BY <1>3, <1>4 DEF Sphinx!NODE_ADDRESS_LENGTH, Sphinx!IDENTIFIER_LENGTH
  <1>8. /\ N4 \in Nat /\ N16 \in Nat /\ N32 \in Nat /\ N36 \in Nat /\ N52 \in Nat
        /\ N60 \in Nat
        /\ N4 + N32 = N36 /\ N36 + N16 = N52 /\ N52 + i = k
        /\ N4 <= N36 /\ N36 <= N36 /\ N36 <= N52 /\ N52 <= N52 /\ N52 <= k /\ N36 <= k
        /\ N52 <= n /\ N36 <= n /\ 1 <= N4 /\ 1 <= N36 /\ 1 <= N52 /\ 1 <= k /\ 1 <= n
    BY <1>1, <1>2
  <1> HIDE DEF p, f, N4, N16, N32, N36, N52, N60, k
  <1>9. p2 \in Strings(N36)
    BY <1>7, <1>8, GrownTyped, ZenonT(30)
  <1>10. Sphinx!Slice(p2, N4, N36) = destination
    BY <1>7, <1>8, GrownEnd, ZenonT(30)
  <1>11. p2[1] = p1[1]
    BY <1>7, <1>8, GrownFlag
  <1> HIDE DEF p2
  <1>12. p3 \in Strings(N52)
    BY <1>7, <1>8, <1>9, GrownTyped, ZenonT(30)
  <1>13. Sphinx!Slice(p3, N36, N52) = identifier
    BY <1>7, <1>8, <1>9, GrownEnd, ZenonT(30)
  <1>14. Sphinx!Slice(p3, N4, N36) = Sphinx!Slice(p2, N4, N36)
    BY <1>7, <1>8, <1>9, GrownKeeps
  <1>15. p3[1] = p2[1]
    BY <1>7, <1>8, <1>9, GrownFlag
  <1> HIDE DEF p3
  <1>16. p4 \in Strings(k)
    BY <1>2, <1>6, <1>8, <1>12, GrownTyped, ZenonT(30)
  <1>17. Sphinx!Slice(p4, N36, N52) = Sphinx!Slice(p3, N36, N52)
    BY <1>2, <1>6, <1>8, <1>12, GrownKeeps
  <1>18. Sphinx!Slice(p4, N4, N36) = Sphinx!Slice(p3, N4, N36)
    BY <1>2, <1>6, <1>8, <1>12, GrownKeeps
  <1>19. p4[1] = p3[1]
    BY <1>2, <1>6, <1>8, <1>12, GrownFlag
  <1> HIDE DEF p4
  <1>20. p5 \in Strings(n)
    BY <1>2, <1>6, <1>16, GrownTyped, ZenonT(30)
  <1>21. Sphinx!Slice(p5, N36, N52) = Sphinx!Slice(p4, N36, N52)
    BY <1>2, <1>6, <1>8, <1>16, GrownKeeps
  <1>22. Sphinx!Slice(p5, N4, N36) = Sphinx!Slice(p4, N4, N36)
    BY <1>2, <1>6, <1>8, <1>16, GrownKeeps
  <1>23. p5[1] = p4[1]
    BY <1>2, <1>6, <1>8, <1>16, GrownFlag
  <1> HIDE DEF p5
  <1>24. Sphinx!Slice(p6, N36, N52) = Sphinx!Slice(p5, N36, N52)
    BY <1>1, <1>7, <1>8, <1>20, GrownKeeps
  <1>25. Sphinx!Slice(p6, N4, N36) = Sphinx!Slice(p5, N4, N36)
    BY <1>1, <1>7, <1>8, <1>20, GrownKeeps
  <1>26. p6[1] = p5[1]
    BY <1>1, <1>7, <1>8, <1>20, GrownFlag
  <1> HIDE DEF p6
  <1>27. Sphinx!parse(p6) = Sphinx!Ok(Sphinx!parse_as_final_hop(p6))
    BY <1>3, <1>11, <1>15, <1>19, <1>23, <1>26, SameBytes
       DEF Sphinx!parse, Sphinx!FORWARD_HOP, Sphinx!FINAL_HOP, NumberByte
  <1>28. Sphinx!Slice(p6, 4, 36) = destination /\ Sphinx!Slice(p6, 36, 52) = identifier
    BY <1>10, <1>13, <1>14, <1>17, <1>18, <1>21, <1>22, <1>24, <1>25 DEF N4, N36, N52
  <1>29. Sphinx!parse_as_final_hop(p6)
           = [hop |-> "FinalHop", destination |-> destination, identifier |-> identifier]
    BY <1>28 DEF Sphinx!parse_as_final_hop, Sphinx!VERSION_LENGTH, Sphinx!Format!DESTINATION_ADDRESS_LENGTH,
       Sphinx!HEADER_INTEGRITY_MAC_SIZE
  <1> QED
    BY <1>5, <1>20, <1>27, <1>29 DEF n

-----------------------------------------------------------------------------
(* Layers. *)

(* The values that are written have the sizes the format gives them.       *)
LEMMA ValuesTyped ==
  /\ Address \in Strings(Sphinx!NODE_ADDRESS_LENGTH)
  /\ Identifier \in Strings(Sphinx!IDENTIFIER_LENGTH)
  /\ Routing \in Routings
  /\ SphinxHeader \in Headers
  <1> DEFINE names == {"address", "id", "mac", "enc", "secret"}
  <1>1. \A name \in names, n \in Nat : Field(name, 0, n) \in Strings(n)
    <2> TAKE name \in names, n \in Nat
    <2>1. name \in FieldNames /\ 0 \in Nat
      BY DEF FieldNames
    <2> QED
      BY <2>1, FieldTyped, Zenon
  <1>2. /\ Sphinx!NODE_ADDRESS_LENGTH \in Nat /\ Sphinx!IDENTIFIER_LENGTH \in Nat
        /\ Sphinx!HEADER_INTEGRITY_MAC_SIZE \in Nat /\ Sphinx!SHARED_SECRET_LENGTH \in Nat
    BY DEF Sphinx!NODE_ADDRESS_LENGTH, Sphinx!IDENTIFIER_LENGTH,
           Sphinx!HEADER_INTEGRITY_MAC_SIZE, Sphinx!SHARED_SECRET_LENGTH
  <1>3. Sphinx!Format!ENCRYPTED_ROUTING_INFO_SIZE \in Nat
    BY Sizes
  <1>4. Address \in Strings(Sphinx!NODE_ADDRESS_LENGTH)
    BY <1>1, <1>2 DEF Address
  <1>5. Identifier \in Strings(Sphinx!IDENTIFIER_LENGTH)
    BY <1>1, <1>2 DEF Identifier
  <1>6. Routing \in Routings
    BY <1>1, <1>2, <1>3 DEF Routing, Routings
  <1>7. SphinxHeader \in Headers
    BY <1>1, <1>2, <1>6 DEF SphinxHeader, Headers
  <1> QED
    BY <1>4, <1>5, <1>6, <1>7

(* What a node finds under its layer. *)
OwnPart(l) ==
  IF l.hop < l.route_len
  THEN [hop |-> "ForwardHop", address |-> Address, delay |-> Delay,
        mac |-> Routing.mac,
        enc |-> Sphinx!add_zero_padding(Sphinx!truncate(Routing.enc))]
  ELSE [hop |-> "FinalHop", destination |-> Address, identifier |-> Identifier]

LEMMA LayerReadsBack ==
  ASSUME NEW l \in Layers
  PROVE  /\ Len(layer(l)) = Sphinx!Format!ENCRYPTED_ROUTING_INFO_SIZE
         /\ Sphinx!parse(Sphinx!add_zero_padding(layer(l))) = Sphinx!Ok(OwnPart(l))
  <1>1. CASE l.hop < l.route_len
    <2>1. Delay \in Nat /\ Delay < TooLarge
      BY DEF Delay, TooLarge
    <2> DEFINE info == Sphinx!RoutingInformation(Address, Delay, Routing)
    <2>2. /\ info \in Strings(Sphinx!Format!ENCRYPTED_ROUTING_INFO_SIZE)
          /\ Sphinx!parse(Sphinx!add_zero_padding(info))
               = Sphinx!Ok([hop |-> "ForwardHop", address |-> Address, delay |-> Delay,
                            mac |-> Routing.mac,
                            enc |-> Sphinx!add_zero_padding(Sphinx!truncate(Routing.enc))])
      BY <2>1, ValuesTyped, HopReadsBack
    <2>3. layer(l) = info
      BY <1>1 DEF layer
    <2> QED
      BY <1>1, <2>2, <2>3 DEF OwnPart, Strings
  <1>2. CASE ~ l.hop < l.route_len
    <2>1. l.route_len \in 1 .. MaxPathLength
      BY DEF Layers
    <2> DEFINE info == Sphinx!FinalRoutingInformation(Address, Identifier, l.route_len)
    <2>2. /\ info \in Strings(Sphinx!Format!ENCRYPTED_ROUTING_INFO_SIZE)
          /\ Sphinx!parse(Sphinx!add_zero_padding(info))
               = Sphinx!Ok([hop |-> "FinalHop", destination |-> Address,
                            identifier |-> Identifier])
      BY <2>1, ValuesTyped, LastHopReadsBack
    <2>3. layer(l) = info
      BY <1>2 DEF layer
    <2> QED
      BY <1>2, <2>2, <2>3 DEF OwnPart, Strings
  <1> QED
    BY <1>1, <1>2

(* What is there, and that nothing else happens to a layer than being read. *)
LayerInv ==
  /\ artefact \in Onions \cup Artefacts \cup Layers
  /\ artefact.kind = "layer" => result \in {Pending, Sphinx!Ok(OwnPart(artefact))}

LEMMA OnlyLayersAreLayers ==
  /\ \A a \in Onions \cup Artefacts : a.kind # "layer"
  /\ \A a \in Layers : a.kind = "layer"
  /\ "layer" \notin DOMAIN Values
  BY DEF Onions, Artefacts, Layers, Values

LEMMA LayerStep ==
  ASSUME LayerInv, [Next]_vars
  PROVE  LayerInv'
  <1> USE DEF LayerInv
  <1>1. ASSUME UNCHANGED <<artefact, result>> PROVE LayerInv'
    BY <1>1
  <1>2. ASSUME UNCHANGED artefact, artefact.kind # "layer" PROVE LayerInv'
    BY <1>2
  <1>3. CASE Alter
    BY <1>1, <1>3 DEF Alter
  <1>4. CASE Cut
    BY <1>1, <1>4 DEF Cut
  <1>5. CASE Extend
    BY <1>1, <1>5 DEF Extend
  <1>6. CASE ReadOnion
    BY <1>2, <1>6 DEF ReadOnion
  <1>7. CASE ReadArtefact
    BY <1>2, <1>7, OnlyLayersAreLayers DEF ReadArtefact
  <1>8. CASE ReadAddressString
    BY <1>2, <1>8 DEF ReadAddressString
  <1>9. CASE ReadLayer
    <2>1. artefact \in Layers
      BY <1>9, OnlyLayersAreLayers DEF ReadLayer
    <2>2. result' = Sphinx!Ok(OwnPart(artefact)) /\ artefact' = artefact
      BY <1>9, <2>1, LayerReadsBack DEF ReadLayer
    <2> QED
      BY <2>2
  <1>10. CASE Done
    BY <1>1, <1>10 DEF Done, vars
  <1>11. CASE UNCHANGED vars
    BY <1>1, <1>11 DEF vars
  <1> QED
    BY <1>3, <1>4, <1>5, <1>6, <1>7, <1>8, <1>9, <1>10, <1>11 DEF Next

(* A node finds its own part of the header, at every place of a route of   *)
(* every length: with a path length that no run could enumerate as well.   *)
THEOREM HopsReadTheirOwn == Spec => []HopReadsItsOwn
  <1>1. Init => LayerInv
    BY DEF Init, LayerInv
  <1>2. LayerInv => HopReadsItsOwn
    <2> SUFFICES ASSUME LayerInv, Has("layer") PROVE HopReadsItsOwn
      BY DEF HopReadsItsOwn
    <2>1. artefact \in Layers /\ result = Sphinx!Ok(OwnPart(artefact))
      BY OnlyLayersAreLayers DEF LayerInv, Has
    <2>2. result.value = OwnPart(artefact)
      BY <2>1 DEF Sphinx!Ok
    <2>3. Len(layer(artefact)) = Sphinx!Format!ENCRYPTED_ROUTING_INFO_SIZE
      BY <2>1, LayerReadsBack
    <2> QED
      BY <2>2, <2>3 DEF HopReadsItsOwn, OwnPart
  <1> QED
    BY <1>1, <1>2, LayerStep, PTL DEF Spec

-----------------------------------------------------------------------------
(* Reading. *)

Str == Seq(Byte)

(* Where two strings were joined is told by the length of the first.       *)
LEMMA SameSplit ==
  ASSUME NEW s \in Str, NEW t \in Str, NEW u \in Str, NEW v \in Str,
         s \o t = u \o v, Len(s) = Len(u)
  PROVE  s = u /\ t = v
  <1>0. s \in Seq(Byte) /\ t \in Seq(Byte) /\ u \in Seq(Byte) /\ v \in Seq(Byte)
    BY DEF Str
  <1>1. Len(s \o t) = Len(s) + Len(t) /\ Len(u \o v) = Len(u) + Len(v)
    BY <1>0, Halves
  <1>2. Len(t) = Len(v)
    BY <1>0, <1>1
  <1>3. Sphinx!Slice(s \o t, 0, Len(s)) = s /\ Sphinx!Slice(u \o v, 0, Len(u)) = u
    BY <1>0, FirstHalf
  <1>4. /\ Sphinx!Slice(s \o t, Len(s), Len(s) + Len(t)) = t
        /\ Sphinx!Slice(u \o v, Len(u), Len(u) + Len(v)) = v
    BY <1>0, SecondHalf
  <1> QED
    BY <1>2, <1>3, <1>4

LEMMA SameRest ==
  ASSUME NEW s \in Str, NEW t \in Str, NEW v \in Str, s \o t = s \o v
  PROVE  t = v
  BY SameSplit

LEMMA CatStr ==
  ASSUME NEW s \in Str, NEW t \in Str
  PROVE  s \o t \in Str /\ Len(s \o t) = Len(s) + Len(t)
  BY Halves DEF Str

LEMMA CatAssoc ==
  ASSUME NEW s \in Str, NEW t \in Str, NEW u \in Str
  PROVE  (s \o t) \o u = s \o (t \o u)
  BY ConcatAssociates DEF Str

(* The same as a predicate of three strings, to be cited for these only.   *)
Assoc(s, t, u) == (s \o t) \o u = s \o (t \o u)

LEMMA AssocOf ==
  ASSUME NEW s \in Str, NEW t \in Str, NEW u \in Str
  PROVE  Assoc(s, t, u)
  BY CatAssoc DEF Assoc

LEMMA EmptyStr == <<>> \in Str /\ Len(<<>>) = 0 /\ \A s \in Str : s \o <<>> = s /\ <<>> \o s = s
  BY DEF Str

LEMMA LenNat == \A s \in Str : Len(s) \in Nat
  BY DEF Str

(* What was put in front is read, and what comes behind it is left.        *)
LEMMA BytesReadBack ==
  ASSUME NEW s \in Str, NEW t \in Str
  PROVE  ReadBytes(Len(s), s \o t) = Got(s, t)
  <1>1. s \in Seq(Byte) /\ t \in Seq(Byte)
    BY DEF Str
  <1>2. Len(s \o t) = Len(s) + Len(t) /\ Len(s) \in Nat /\ Len(t) \in Nat
    BY <1>1, Halves
  <1>3. SubSeq(s \o t, 1, Len(s)) = s
    BY <1>1, FirstHalf DEF Sphinx!Slice
  <1>4. Drop(Len(s), s \o t) = t
    BY <1>1, <1>2, SecondHalf DEF Sphinx!Slice, Drop
  <1>5. ~ (Len(s) > Len(s \o t))
    BY <1>2
  <1> QED
    BY <1>3, <1>4, <1>5, Zenon DEF ReadBytes

(* What was read stood there. *)
Stood(r, s) == r.value \in Str /\ r.rest \in Str /\ r.value \o r.rest = s

LEMMA BytesStood ==
  ASSUME NEW s \in Str, NEW n \in Nat, ReadBytes(n, s).ok
  PROVE  /\ n <= Len(s) /\ Stood(ReadBytes(n, s), s) /\ Len(ReadBytes(n, s).value) = n
         /\ ReadBytes(n, s) = Got(ReadBytes(n, s).value, ReadBytes(n, s).rest)
  <1>1. s \in Seq(Byte)
    BY DEF Str
  <1>2. n <= Len(s)
    BY <1>1 DEF ReadBytes, Short
  <1>3. ReadBytes(n, s) = Got(Sphinx!Slice(s, 0, n), Sphinx!Slice(s, n, Len(s)))
    BY <1>1, <1>2 DEF ReadBytes, Sphinx!Slice, Drop
  <1>4. /\ Sphinx!Slice(s, 0, n) \in Seq(Byte) /\ Len(Sphinx!Slice(s, 0, n)) = n
        /\ Sphinx!Slice(s, n, Len(s)) \in Seq(Byte)
        /\ Sphinx!Slice(s, 0, n) \o Sphinx!Slice(s, n, Len(s)) = s
    BY <1>1, <1>2, Parts
  <1> DEFINE a == Sphinx!Slice(s, 0, n)
             b == Sphinx!Slice(s, n, Len(s))
             r == ReadBytes(n, s)
  <1> HIDE DEF a, b, r
  <1>5. r = Got(a, b) /\ a \in Str /\ b \in Str /\ Len(a) = n /\ a \o b = s
    BY <1>3, <1>4 DEF a, b, r, Str
  <1>6. r.value = a /\ r.rest = b
    BY <1>5 DEF Got
  <1>7. Stood(r, s) /\ Len(r.value) = n /\ r = Got(r.value, r.rest)
    BY <1>5, <1>6 DEF Stood
  <1> QED
    BY <1>2, <1>7 DEF r

LEMMA BytesOf ==
  ASSUME NEW S, NEW s \in Seq(S)
  PROVE  \A i \in 1 .. Len(s) : s[i] \in S
  OBVIOUS

(* Eight bytes that are read as a number below the bound are those that    *)
(* the number is written with.                                             *)
LEMMA LittleEndianIsCanonical ==
  ASSUME NEW s \in Str, Len(s) = 8
  PROVE  /\ ReadLittleEndian(s) \in Nat
         /\ ReadLittleEndian(s) < TooLarge => s = LittleEndian(ReadLittleEndian(s), 8)
  <1>0. s \in Seq(Byte) /\ DOMAIN s = 1 .. Len(s)
    BY DEF Str
  <1>1. s \in Seq(Byte) /\ DOMAIN s = 1 .. 8 /\ \A i \in 1 .. 8 : s[i] \in Byte
    <2>1. DOMAIN s = 1 .. 8
      BY <1>0
    <2>2. \A i \in 1 .. Len(s) : s[i] \in Byte
      BY <1>0, BytesOf
    <2> QED
      BY <1>0, <2>1, <2>2
  <1>2. CASE ~ (\A i \in DOMAIN s : s[i][1] = "#" /\ (i > 3 => s[i][3] = 0))
    <2>1. ReadLittleEndian(s) = TooLarge
      BY <1>2 DEF ReadLittleEndian
    <2> QED
      BY <2>1 DEF TooLarge
  <1>3. CASE \A i \in DOMAIN s : s[i][1] = "#" /\ (i > 3 => s[i][3] = 0)
    <2>1. ASSUME NEW i \in 1 .. 8 PROVE s[i][3] \in 0 .. 255 /\ s[i] = NumberByte(s[i][3])
      <3>1. s[i] \in Byte /\ s[i][1] = "#"
        BY <1>1, <1>3
      <3>2. s[i] \notin FieldNames \X Nat \X Nat
        BY <3>1 DEF FieldNames
      <3>3. PICK v \in 0 .. 255 : s[i] = NumberByte(v)
        BY <3>1, <3>2 DEF Byte
      <3>4. s[i][3] = v
        BY <3>3 DEF NumberByte
      <3> QED
        BY <3>3, <3>4
    <2> DEFINE d1 == s[1][3]
               d2 == s[2][3]
               d3 == s[3][3]
               v  == d1 + 256 * d2 + 65536 * d3
    <2>2. ReadLittleEndian(s) = v
      BY <1>3 DEF ReadLittleEndian
    <2>3. d1 \in 0 .. 255 /\ d2 \in 0 .. 255 /\ d3 \in 0 .. 255
      BY <2>1
    <2>4. /\ s[1] = NumberByte(d1) /\ s[2] = NumberByte(d2) /\ s[3] = NumberByte(d3)
          /\ \A i \in 4 .. 8 : s[i] = NumberByte(0)
      <3>1. \A i \in 4 .. 8 : s[i][3] = 0
        BY <1>1, <1>3
      <3> QED
        BY <2>1, <3>1
    <2> HIDE DEF d1, d2, d3
    <2>5. v \in Nat /\ v % 256 = d1 /\ (v \div 256) % 256 = d2 /\ v \div 65536 = d3
      BY <2>3
    <2>6. 256 * 256 = 65536
      OBVIOUS
    <2> HIDE DEF v
    <2> DEFINE w == LittleEndian(v, 8)
    <2>7. w = [i \in 1 .. 8 |->
                 NumberByte(CASE i = 1 -> d1 [] i = 2 -> d2 [] i = 3 -> d3 [] OTHER -> 0)]
      BY <2>5, <2>6 DEF LittleEndian
    <2>8. /\ DOMAIN w = 1 .. 8 /\ w[1] = NumberByte(d1) /\ w[2] = NumberByte(d2)
          /\ w[3] = NumberByte(d3) /\ \A i \in 4 .. 8 : w[i] = NumberByte(0)
      BY <2>7
    <2>9. \A i \in 1 .. 8 : s[i] = w[i]
      BY <2>4, <2>8
    <2> HIDE DEF w
    <2>10. s = [i \in 1 .. 8 |-> s[i]] /\ w = [i \in 1 .. 8 |-> w[i]]
      BY <1>1, <2>7 DEF w
    <2>11. s = w
      BY <2>9, <2>10
    <2> QED
      BY <2>2, <2>5, <2>11 DEF w
  <1> QED
    BY <1>2, <1>3

(* A number in front of a string. *)
LEMMA NumberReadsBack ==
  ASSUME NEW v \in Nat, v < TooLarge, NEW t \in Str
  PROVE  LET n == LittleEndian(v, 8)
         IN  /\ n \in Str /\ Len(n) = 8 /\ ReadLittleEndian(n) = v
             /\ n \o t \in Str /\ Len(n \o t) = 8 + Len(t)
             /\ SubSeq(n \o t, 1, 8) = n /\ Drop(8, n \o t) = t
  <1> DEFINE n == LittleEndian(v, 8)
  <1>1. n \in Str /\ Len(n) = 8 /\ ReadLittleEndian(n) = v
    BY LittleEndianReadsBack DEF Str
  <1> HIDE DEF n
  <1>2. n \o t \in Str /\ Len(n \o t) = 8 + Len(t)
    BY <1>1, CatStr
  <1>3. ReadBytes(8, n \o t) = Got(n, t)
    BY <1>1, BytesReadBack
  <1>4. ~ (8 > Len(n \o t))
    BY <1>2, LenNat
  <1>5. Got(SubSeq(n \o t, 1, 8), Drop(8, n \o t)) = Got(n, t)
    BY <1>3, <1>4 DEF ReadBytes
  <1>6. SubSeq(n \o t, 1, 8) = n /\ Drop(8, n \o t) = t
    BY <1>5 DEF Got
  <1> QED
    BY <1>1, <1>2, <1>6 DEF n

(* A number that stood in front of a string. *)
LEMMA NumberStood ==
  ASSUME NEW s \in Str, 8 <= Len(s)
  PROVE  LET n == SubSeq(s, 1, 8)
             v == ReadLittleEndian(n)
         IN  /\ n \in Str /\ Len(n) = 8 /\ Drop(8, s) \in Str
             /\ n \o Drop(8, s) = s /\ Len(Drop(8, s)) = Len(s) - 8
             /\ v \in Nat
             /\ v < TooLarge => n = LittleEndian(v, 8)
  <1> DEFINE n == SubSeq(s, 1, 8)
             t == Drop(8, s)
  <1>1. ReadBytes(8, s) = Got(n, t)
    BY LenNat DEF ReadBytes
  <1> HIDE DEF n, t
  <1>2. ReadBytes(8, s).ok /\ ReadBytes(8, s).value = n /\ ReadBytes(8, s).rest = t
    BY <1>1 DEF Got
  <1>3. n \in Str /\ t \in Str /\ n \o t = s /\ Len(n) = 8
    BY <1>2, BytesStood DEF Stood
  <1>4. Len(t) = Len(s) - 8
    <2>1. Len(s) = Len(n) + Len(t) /\ Len(t) \in Nat
      BY <1>3, CatStr, LenNat, Zenon
    <2> QED
      BY <1>3, <2>1
  <1>5. /\ ReadLittleEndian(n) \in Nat
        /\ ReadLittleEndian(n) < TooLarge => n = LittleEndian(ReadLittleEndian(n), 8)
    BY <1>3, LittleEndianIsCanonical
  <1> QED
    BY <1>3, <1>4, <1>5 DEF n, t

LEMMA VectorStr ==
  ASSUME NEW s \in Str, Len(s) < TooLarge
  PROVE  Vector(s) \in Str /\ Len(Vector(s)) = 8 + Len(s)
  BY LenNat, NumberReadsBack DEF Vector

(* A vector is read as it was written, and what comes behind it is left.   *)
LEMMA VectorReadsBack ==
  ASSUME NEW s \in Str, Len(s) < TooLarge, NEW t \in Str
  PROVE  ReadVector(Vector(s) \o t) = Got(s, t)
  <1> DEFINE n == LittleEndian(Len(s), 8)
             b == n \o (s \o t)
  <1>1. s \o t \in Str /\ Len(s) \in Nat
    BY CatStr, LenNat
  <1>2. /\ n \in Str /\ b \in Str /\ Len(b) = 8 + Len(s \o t)
        /\ ReadLittleEndian(n) = Len(s)
        /\ SubSeq(b, 1, 8) = n /\ Drop(8, b) = s \o t
    BY <1>1, NumberReadsBack
  <1> HIDE DEF n
  <1>3. Vector(s) \o t = b
    <2>1. Vector(s) = n \o s
      BY DEF Vector, n
    <2>2. (n \o s) \o t = n \o (s \o t)
      <3>1. Assoc(n, s, t)
        BY <1>2, AssocOf
      <3> QED
        BY <3>1, Zenon DEF Assoc
    <2> QED
      BY <2>1, <2>2, Zenon
  <1> HIDE DEF b
  <1>4. ~ (Len(b) < 8)
    BY <1>1, <1>2, LenNat
  <1>5. ReadVector(b) = ReadBytes(Len(s), s \o t)
    BY <1>2, <1>4, Zenon DEF ReadVector
  <1> QED
    BY <1>3, <1>5, BytesReadBack

(* What is read as a vector is what would be written for it.               *)
LEMMA VectorStood ==
  ASSUME NEW s \in Str, Len(s) < TooLarge, ReadVector(s).ok
  PROVE  LET r == ReadVector(s)
         IN  /\ r.value \in Str /\ r.rest \in Str /\ Vector(r.value) \o r.rest = s
             /\ Len(r.value) < TooLarge /\ Len(r.rest) < TooLarge
             /\ r = Got(r.value, r.rest)
  <1> DEFINE n == SubSeq(s, 1, 8)
             v == ReadLittleEndian(n)
             t == Drop(8, s)
             r == ReadVector(s)
  <1>0. Len(s) \in Nat
    BY LenNat
  <1>1. 8 <= Len(s)
    BY <1>0 DEF ReadVector, Short
  <1>2. /\ n \in Str /\ Len(n) = 8 /\ t \in Str /\ n \o t = s /\ Len(t) = Len(s) - 8
        /\ v \in Nat /\ (v < TooLarge => n = LittleEndian(v, 8))
    BY <1>1, NumberStood
  <1>3. r = ReadBytes(v, t)
    BY <1>0, <1>1 DEF ReadVector
  <1> HIDE DEF n, v, t, r
  <1>4. r.ok
    BY DEF r
  <1>5. v <= Len(t) /\ Stood(r, t) /\ Len(r.value) = v /\ r = Got(r.value, r.rest)
    BY <1>2, <1>3, <1>4, BytesStood
  <1>6. v < TooLarge /\ Len(t) < TooLarge
    BY <1>0, <1>2, <1>5 DEF TooLarge
  <1>7. n = LittleEndian(Len(r.value), 8)
    BY <1>2, <1>5, <1>6
  <1>8. r.value \in Str /\ r.rest \in Str /\ r.value \o r.rest = t
    BY <1>5 DEF Stood
  <1> DEFINE x == r.value
             y == r.rest
  <1>9. Vector(x) = n \o x
    BY <1>7 DEF Vector
  <1> HIDE DEF x, y
  <1>10. x \in Str /\ y \in Str /\ x \o y = t /\ Len(x) = v
    BY <1>5, <1>8 DEF x, y
  <1>11. Vector(x) \o y = s
    <2>1. n \in Str /\ x \in Str /\ y \in Str
      BY <1>2, <1>10
    <2>2. (n \o x) \o y = n \o (x \o y)
      <3>1. Assoc(n, x, y)
        BY <2>1, AssocOf
      <3> QED
        BY <3>1, Zenon DEF Assoc
    <2> QED
      BY <1>2, <1>9, <1>10, <2>2, Zenon
  <1>12. Len(t) = Len(x) + Len(y) /\ Len(x) \in Nat /\ Len(y) \in Nat
    BY <1>10, CatStr, LenNat, Zenon
  <1>13. Len(x) < TooLarge /\ Len(y) < TooLarge
    BY <1>6, <1>12 DEF TooLarge
  <1> QED
    BY <1>5, <1>10, <1>11, <1>13 DEF r, x, y

-----------------------------------------------------------------------------
(* Joining many strings. *)

(* Induction over the numbers, with a set in place of a predicate.         *)
LEMMA SetInduction ==
  ASSUME NEW T, 0 \in T, \A n \in Nat : n \in T => n + 1 \in T
  PROVE  Nat \subseteq T
  <1> DEFINE R == OpToRel(<, Nat)
             U == Nat \ T
  <1>1. IsWellFoundedOn(R, Nat)
    BY NatLessThanWellFounded, Zenon
  <1>2. \A m, n \in Nat : m < n => <<m, n>> \in R
    BY DEF OpToRel
  <1> HIDE DEF R
  <1>3. SUFFICES ASSUME U # {} PROVE FALSE
    OBVIOUS
  <1>4. PICK x \in U : \A y \in U : <<y, x>> \notin R
    BY <1>1, <1>3, WFMin
  <1>5. x \in Nat /\ x # 0
    OBVIOUS
  <1>6. x - 1 \in Nat /\ x - 1 < x /\ (x - 1) + 1 = x
    BY <1>5
  <1>7. x - 1 \in T
    BY <1>2, <1>4, <1>5, <1>6
  <1> QED
    BY <1>5, <1>6, <1>7

(* The same up to a number. *)
LEMMA UpTo ==
  ASSUME NEW n \in Nat, NEW T, 0 \in T, \A k \in 0 .. n - 1 : k \in T => k + 1 \in T
  PROVE  0 .. n \subseteq T
  <1> DEFINE U == {k \in Nat : k <= n => k \in T}
  <1>1. 0 \in U
    OBVIOUS
  <1>2. ASSUME NEW k \in Nat, k \in U PROVE k + 1 \in U
    <2>1. CASE k + 1 <= n
      <3>1. k \in 0 .. n - 1 /\ k \in T
        BY <1>2, <2>1
      <3> QED
        BY <3>1
    <2>2. CASE ~ k + 1 <= n
      BY <2>2
    <2> QED
      BY <2>1, <2>2
  <1>3. Nat \subseteq U
    <2> HIDE DEF U
    <2> QED
      BY <1>1, <1>2, SetInduction
  <1> QED
    BY <1>3

(* One more string at the end of those before it. *)
Grown(ss, i, before) == IF i = 1 THEN ss[i] ELSE before \o ss[i]

Flattened(ss, u) == [i \in 1 .. Len(ss) |-> Grown(ss, i, u[i - 1])]

LEMMA FlattenRecurs ==
  ASSUME NEW ss, Len(ss) \in Nat, Len(ss) # 0
  PROVE  \E u : u = Flattened(ss, u) /\ FlattenSeq(ss) = u[Len(ss)]
  <1> DEFINE D(i, x) == Grown(ss, i, x)
             Is(f, k) == f = [i \in 1 .. k |-> D(i, f[i - 1])]
             T == {k \in Nat : \E f : Is(f, k)}
  <1>0. \A x, y : D(1, x) = D(1, y)
    BY DEF Grown
  <1> HIDE DEF D
  <1>1. 0 \in T
    <2> DEFINE f == [i \in 1 .. 0 |-> 0]
    <2>1. Is(f, 0)
      OBVIOUS
    <2> HIDE DEF f, Is
    <2> QED
      BY <2>1
  <1>2. ASSUME NEW k \in Nat, k \in T PROVE k + 1 \in T
    <2>1. PICK f : Is(f, k)
      BY <1>2
    <2> DEFINE g == [i \in 1 .. k + 1 |-> IF i = k + 1 THEN D(k + 1, f[k]) ELSE f[i]]
    <2>2. ASSUME NEW i \in 1 .. k + 1
          PROVE  g[i] = D(i, g[i - 1])
      <3>1. CASE i = 1
        <4>1. g[1] = D(1, f[0])
          BY <2>1, <3>1
        <4> QED
          BY <1>0, <3>1, <4>1
      <3>2. CASE i # 1 /\ i = k + 1
        <4>1. g[i - 1] = f[k]
          BY <3>2
        <4> QED
          BY <3>2, <4>1
      <3>3. CASE i # 1 /\ i # k + 1
        <4>1. i \in 1 .. k /\ i - 1 \in 1 .. k + 1 /\ i - 1 # k + 1
          BY <3>3
        <4>2. g[i] = f[i] /\ g[i - 1] = f[i - 1]
          BY <3>3, <4>1
        <4>3. f[i] = D(i, f[i - 1])
          BY <2>1, <4>1
        <4> QED
          BY <4>2, <4>3
      <3> QED
        BY <3>1, <3>2, <3>3
    <2>3. Is(g, k + 1)
      BY <2>2
    <2> HIDE DEF g, Is
    <2> QED
      BY <2>3
  <1>3. Nat \subseteq T
    <2> HIDE DEF T
    <2> QED
      BY <1>1, <1>2, SetInduction
  <1>4. PICK f : Is(f, Len(ss))
    BY <1>3
  <1>5. f = Flattened(ss, f)
    BY <1>4, Zenon DEF Flattened, D
  <1> DEFINE u == CHOOSE u : u = Flattened(ss, u)
  <1>6. u = Flattened(ss, u)
    BY <1>5, Zenon
  <1>7. FlattenSeq(ss) = u[Len(ss)]
    BY Zenon DEF FlattenSeq, Flattened, Grown
  <1> QED
    BY <1>6, <1>7

Strs == Seq(Str)

(* The first strings of a list, joined. *)
JoinedUpTo(ss, c) == FlattenSeq(SubSeq(ss, 1, c))

LEMMA FlattenEmpty == FlattenSeq(<<>>) = <<>>
  BY DEF FlattenSeq

LEMMA FirstStrings ==
  ASSUME NEW ss \in Strs, NEW c \in 0 .. Len(ss)
  PROVE  /\ SubSeq(ss, 1, c) \in Strs /\ Len(SubSeq(ss, 1, c)) = c
         /\ \A i \in 1 .. c : SubSeq(ss, 1, c)[i] = ss[i]
  BY DEF Strs

(* What the recursion makes is a string at every step, and the same for    *)
(* lists that begin alike.                                                 *)
LEMMA FlattenedAlike ==
  ASSUME NEW ss \in Strs, NEW n \in 1 .. Len(ss), NEW tt \in Strs, Len(tt) = n,
         \A i \in 1 .. n : tt[i] = ss[i],
         NEW u, u = Flattened(ss, u), NEW v, v = Flattened(tt, v)
  PROVE  \A i \in 1 .. n : u[i] \in Str /\ v[i] = u[i]
  <1> DEFINE P(k) == k # 0 => u[k] \in Str /\ v[k] = u[k]
             T == {k \in 0 .. n : P(k)}
  <1>0. n \in Nat /\ Len(ss) \in Nat /\ n <= Len(ss)
    BY DEF Strs
  <1>1. 0 \in T
    BY <1>0
  <1>2. ASSUME NEW k \in 0 .. n - 1, k \in T PROVE k + 1 \in T
    <2>1. k + 1 \in 1 .. n /\ k + 1 \in 1 .. Len(ss) /\ k + 1 \in 1 .. Len(tt)
      BY <1>0
    <2>2. u[k + 1] = Grown(ss, k + 1, u[k])
      <3>1. u[k + 1] = Grown(ss, k + 1, u[(k + 1) - 1])
        BY <2>1 DEF Flattened
      <3>2. (k + 1) - 1 = k
        OBVIOUS
      <3> QED
        BY <3>1, <3>2
    <2>3. v[k + 1] = Grown(tt, k + 1, v[k])
      <3>1. v[k + 1] = Grown(tt, k + 1, v[(k + 1) - 1])
        BY <2>1 DEF Flattened
      <3>2. (k + 1) - 1 = k
        OBVIOUS
      <3> QED
        BY <3>1, <3>2
    <2>4. tt[k + 1] = ss[k + 1] /\ ss[k + 1] \in Str
      BY <2>1 DEF Strs
    <2>5. ASSUME k = 0 PROVE P(k + 1)
      BY <2>2, <2>3, <2>4, <2>5 DEF Grown
    <2>6. ASSUME k # 0 PROVE P(k + 1)
      <3>1. u[k] \in Str /\ v[k] = u[k] /\ k + 1 # 1
        BY <1>2, <2>6
      <3>2. u[k + 1] = u[k] \o ss[k + 1] /\ v[k + 1] = u[k] \o ss[k + 1]
        BY <2>2, <2>3, <2>4, <3>1 DEF Grown
      <3>3. u[k] \o ss[k + 1] \in Str
        BY <2>4, <3>1, CatStr
      <3> QED
        BY <3>2, <3>3
    <2>7. k + 1 \in 0 .. n
      BY <2>1
    <2> QED
      BY <2>5, <2>6, <2>7
  <1>3. 0 .. n \subseteq T
    <2> HIDE DEF T
    <2> QED
      BY <1>0, <1>1, <1>2, UpTo
  <1> QED
    BY <1>3

(* One string after the other is put behind those that are joined.         *)
LEMMA JoinedSteps ==
  ASSUME NEW ss \in Strs
  PROVE  /\ \A c \in 0 .. Len(ss) : JoinedUpTo(ss, c) \in Str
         /\ JoinedUpTo(ss, 0) = <<>>
         /\ \A c \in 0 .. Len(ss) - 1 : JoinedUpTo(ss, c + 1) = JoinedUpTo(ss, c) \o ss[c + 1]
         /\ JoinedUpTo(ss, Len(ss)) = FlattenSeq(ss)
  <1> DEFINE n == Len(ss)
  <1>0. n \in Nat /\ \A i \in 1 .. n : ss[i] \in Str
    <2>1. ss \in Seq(Str)
      BY DEF Strs
    <2> QED
      BY <2>1, BytesOf
  <1>1. JoinedUpTo(ss, 0) = <<>>
    <2>1. SubSeq(ss, 1, 0) = <<>>
      BY DEF Strs
    <2> QED
      BY <2>1, FlattenEmpty DEF JoinedUpTo
  <1>2. JoinedUpTo(ss, n) = FlattenSeq(ss)
    <2>1. SubSeq(ss, 1, n) = ss
      BY SliceAll DEF Strs, Sphinx!Slice
    <2> QED
      BY <2>1 DEF JoinedUpTo
  <1>3. CASE n = 0
    <2>1. \A c \in 0 .. Len(ss) : c = 0
      BY <1>0, <1>3
    <2>2. \A c \in 0 .. Len(ss) : JoinedUpTo(ss, c) \in Str
      BY <1>1, <2>1, EmptyStr
    <2>3. 0 .. Len(ss) - 1 = {}
      BY <1>0, <1>3
    <2> QED
      BY <1>1, <1>2, <2>2, <2>3
  <1>4. CASE n # 0
    <2>1. PICK u : u = Flattened(ss, u)
      BY <1>0, <1>4, FlattenRecurs
    <2>2. ASSUME NEW c \in 1 .. n PROVE JoinedUpTo(ss, c) = u[c] /\ u[c] \in Str
      <3> DEFINE tt == SubSeq(ss, 1, c)
      <3>0. c \in 0 .. Len(ss) /\ c \in 1 .. Len(ss) /\ c \in 1 .. c /\ c # 0 /\ c \in Nat
        BY <1>0, <1>4
      <3>1. tt \in Strs /\ Len(tt) = c /\ \A i \in 1 .. c : tt[i] = ss[i]
        BY <3>0, FirstStrings
      <3> HIDE DEF n, tt
      <3>2. PICK v : v = Flattened(tt, v) /\ FlattenSeq(tt) = v[c]
        BY <3>0, <3>1, FlattenRecurs
      <3>3. \A i \in 1 .. c : u[i] \in Str /\ v[i] = u[i]
        BY <2>1, <3>0, <3>1, <3>2, FlattenedAlike
      <3>4. u[c] \in Str /\ v[c] = u[c]
        BY <3>0, <3>3
      <3> QED
        BY <3>2, <3>4 DEF JoinedUpTo, tt
    <2>3. u[1] = ss[1]
      <3>1. 1 \in 1 .. n
        BY <1>0, <1>4
      <3>2. u[1] = Grown(ss, 1, u[1 - 1])
        BY <2>1, <3>1 DEF Flattened
      <3> QED
        BY <3>2 DEF Grown
    <2>4. ASSUME NEW c \in 1 .. n - 1 PROVE u[c + 1] = u[c] \o ss[c + 1]
      <3>1. c + 1 \in 1 .. Len(ss) /\ (c + 1) - 1 = c /\ c + 1 # 1
        BY <1>0
      <3>2. u[c + 1] = Grown(ss, c + 1, u[(c + 1) - 1])
        BY <2>1, <3>1 DEF Flattened
      <3> QED
        BY <3>1, <3>2 DEF Grown
    <2> HIDE DEF n
    <2>5. ASSUME NEW c \in 0 .. n PROVE JoinedUpTo(ss, c) \in Str
      <3>1. CASE c = 0
        BY <1>1, <3>1, EmptyStr
      <3>2. CASE c # 0
        BY <1>0, <2>2, <3>2
      <3> QED
        BY <3>1, <3>2
    <2>6. ASSUME NEW c \in 0 .. n - 1
          PROVE  JoinedUpTo(ss, c + 1) = JoinedUpTo(ss, c) \o ss[c + 1]
      <3>0. c + 1 \in 1 .. n
        BY <1>0
      <3>1. JoinedUpTo(ss, c + 1) = u[c + 1] /\ ss[c + 1] \in Str
        BY <1>0, <2>2, <3>0
      <3>2. CASE c = 0
        <4>1. ss[1] \in Str /\ JoinedUpTo(ss, 1) = ss[1]
          BY <2>3, <3>1, <3>2
        <4>2. <<>> \o ss[1] = ss[1]
          BY <4>1, EmptyStr
        <4>3. c + 1 = 1
          BY <3>2
        <4>4. JoinedUpTo(ss, c) = <<>>
          BY <1>1, <3>2, Zenon
        <4> QED
          BY <4>1, <4>2, <4>3, <4>4, Zenon
      <3>3. CASE c # 0
        <4>1. c \in 1 .. n - 1 /\ c \in 1 .. n
          BY <1>0, <3>3
        <4> QED
          BY <2>2, <2>4, <3>1, <4>1
      <3> QED
        BY <3>2, <3>3
    <2> QED
      BY <1>1, <1>2, <2>5, <2>6 DEF n
  <1> QED
    BY <1>3, <1>4

LEMMA FlattenStr ==
  ASSUME NEW ss \in Strs
  PROVE  FlattenSeq(ss) \in Str
  <1>1. Len(ss) \in 0 .. Len(ss)
    BY DEF Strs
  <1> QED
    BY <1>1, JoinedSteps

(* Behind the first strings come the others. *)
LEMMA JoinedRemainder ==
  ASSUME NEW ss \in Strs, NEW c \in 0 .. Len(ss)
  PROVE  \E w \in Str : FlattenSeq(ss) = JoinedUpTo(ss, c) \o w
  <1> DEFINE n == Len(ss)
             f == FlattenSeq(ss)
             P(k) == \E w \in Str : f = JoinedUpTo(ss, n - k) \o w
             T == {k \in 0 .. n : P(k)}
  <1>0. n \in Nat /\ \A i \in 1 .. n : ss[i] \in Str
    <2>1. ss \in Seq(Str)
      BY DEF Strs
    <2> QED
      BY <2>1, BytesOf
  <1>1. f \in Str
    BY FlattenStr
  <1>2. /\ \A k \in 0 .. n : JoinedUpTo(ss, k) \in Str
        /\ \A k \in 0 .. n - 1 : JoinedUpTo(ss, k + 1) = JoinedUpTo(ss, k) \o ss[k + 1]
        /\ JoinedUpTo(ss, n) = f
    BY JoinedSteps
  <1> HIDE DEF n, f
  <1>3. 0 \in T
    <2>1. f = f \o <<>> /\ <<>> \in Str
      BY <1>1, EmptyStr
    <2>2. n - 0 = n /\ 0 \in 0 .. n
      BY <1>0
    <2>3. f = JoinedUpTo(ss, n - 0) \o <<>>
      BY <1>2, <2>1, <2>2
    <2> QED
      BY <2>1, <2>2, <2>3
  <1>4. ASSUME NEW k \in 0 .. n - 1, k \in T PROVE k + 1 \in T
    <2> DEFINE m == n - (k + 1)
    <2>1. k + 1 \in 0 .. n /\ m \in 0 .. n - 1 /\ m \in 0 .. n /\ m + 1 \in 1 .. n /\ n - k = m + 1
      BY <1>0
    <2>2. PICK w \in Str : f = JoinedUpTo(ss, n - k) \o w
      BY <1>4
    <2> HIDE DEF m
    <2>3. /\ JoinedUpTo(ss, n - k) = JoinedUpTo(ss, m) \o ss[m + 1]
          /\ JoinedUpTo(ss, m) \in Str /\ ss[m + 1] \in Str
      BY <1>0, <1>2, <2>1
    <2>4. f = JoinedUpTo(ss, m) \o (ss[m + 1] \o w) /\ ss[m + 1] \o w \in Str
      <3> DEFINE a == JoinedUpTo(ss, m)
                 b == ss[m + 1]
      <3>1. a \in Str /\ b \in Str /\ f = (a \o b) \o w
        BY <2>2, <2>3
      <3> HIDE DEF a, b
      <3>0. a \in Str /\ b \in Str /\ w \in Str
        BY <3>1
      <3>2. (a \o b) \o w = a \o (b \o w)
        <4>1. Assoc(a, b, w)
          BY <3>0, AssocOf
        <4> QED
          BY <4>1, Zenon DEF Assoc
      <3>4. b \o w \in Str
        BY <3>0, CatStr
      <3>3. f = a \o (b \o w) /\ b \o w \in Str
        BY <3>1, <3>2, <3>4, Zenon
      <3> QED
        BY <3>3 DEF a, b
    <2>5. P(k + 1)
      BY <2>4 DEF m
    <2> QED
      BY <2>1, <2>5
  <1>5. 0 .. n \subseteq T
    <2> HIDE DEF T
    <2> QED
      BY <1>0, <1>3, <1>4, UpTo
  <1>6. n - c \in 0 .. n /\ n - (n - c) = c
    BY <1>0 DEF n
  <1>7. P(n - c)
    BY <1>5, <1>6
  <1> QED
    BY <1>6, <1>7 DEF f

LEMMA FlattenAppend ==
  ASSUME NEW ss \in Strs, NEW z \in Str
  PROVE  Append(ss, z) \in Strs /\ FlattenSeq(Append(ss, z)) = FlattenSeq(ss) \o z
  <1> DEFINE tt == Append(ss, z)
             n  == Len(ss)
  <1>1. /\ tt \in Strs /\ Len(tt) = n + 1 /\ tt[n + 1] = z /\ n \in Nat
        /\ SubSeq(tt, 1, n) = ss
    BY DEF Strs
  <1> HIDE DEF tt, n
  <1>2. n \in 0 .. Len(tt) - 1
    BY <1>1
  <1>3. JoinedUpTo(tt, n + 1) = JoinedUpTo(tt, n) \o tt[n + 1]
    BY <1>1, <1>2, JoinedSteps
  <1>4. JoinedUpTo(tt, Len(tt)) = FlattenSeq(tt)
    BY <1>1, JoinedSteps
  <1>5. JoinedUpTo(tt, n) = FlattenSeq(ss)
    BY <1>1 DEF JoinedUpTo
  <1>6. FlattenSeq(tt) = FlattenSeq(ss) \o z
    BY <1>1, <1>3, <1>4, <1>5, Zenon
  <1> QED
    BY <1>1, <1>6 DEF tt

(* Strings whose lengths and whose number can be written. *)
Writable(ss) ==
  /\ ss \in Strs /\ Len(ss) < TooLarge
  /\ \A c \in 1 .. Len(ss) : Len(ss[c]) < TooLarge

Packed(ss) == [c \in DOMAIN ss |-> Vector(ss[c])]

LEMMA StringsOf ==
  ASSUME NEW ss \in Strs
  PROVE  Len(ss) \in Nat /\ DOMAIN ss = 1 .. Len(ss) /\ \A c \in 1 .. Len(ss) : ss[c] \in Str
  <1>1. ss \in Seq(Str)
    BY DEF Strs
  <1> QED
    BY <1>1, BytesOf

LEMMA PackedTyped ==
  ASSUME NEW ss \in Strs, \A c \in 1 .. Len(ss) : Len(ss[c]) < TooLarge
  PROVE  /\ Packed(ss) \in Strs /\ Len(Packed(ss)) = Len(ss)
         /\ \A c \in 1 .. Len(ss) : Packed(ss)[c] = Vector(ss[c]) /\ Packed(ss)[c] \in Str
                                     /\ Len(Packed(ss)[c]) >= 8
  <1> DEFINE pp == Packed(ss)
             n  == Len(ss)
  <1>1. n \in Nat /\ DOMAIN ss = 1 .. n /\ \A c \in 1 .. n : ss[c] \in Str
    BY StringsOf
  <1>2. pp = [c \in 1 .. n |-> Vector(ss[c])]
    BY <1>1 DEF Packed
  <1>3. ASSUME NEW c \in 1 .. n PROVE Vector(ss[c]) \in Str /\ Len(Vector(ss[c])) >= 8
    <2>1. ss[c] \in Str /\ Len(ss[c]) < TooLarge /\ Len(ss[c]) \in Nat
      BY <1>1, LenNat
    <2>2. Vector(ss[c]) \in Str /\ Len(Vector(ss[c])) = 8 + Len(ss[c])
      BY <2>1, VectorStr
    <2> QED
      BY <2>1, <2>2
  <1> HIDE DEF pp, n
  <1>4. pp \in Seq(Str) /\ Len(pp) = n
    BY <1>1, <1>2, <1>3
  <1>5. \A c \in 1 .. n : pp[c] = Vector(ss[c])
    BY <1>2
  <1> QED
    BY <1>3, <1>4, <1>5 DEF Strs, pp, n

LEMMA VectorsStr ==
  ASSUME NEW ss, Writable(ss)
  PROVE  /\ Vectors(ss) \in Str
         /\ Vectors(ss) = LittleEndian(Len(ss), 8) \o FlattenSeq(Packed(ss))
         /\ FlattenSeq(Packed(ss)) \in Str
  <1>1. Packed(ss) \in Strs
    BY PackedTyped DEF Writable
  <1>2. FlattenSeq(Packed(ss)) \in Str
    BY <1>1, FlattenStr
  <1>3. Len(ss) \in Nat /\ Len(ss) < TooLarge
    BY StringsOf DEF Writable
  <1>4. Vectors(ss) = LittleEndian(Len(ss), 8) \o FlattenSeq(Packed(ss))
    BY DEF Vectors, Packed
  <1> QED
    BY <1>2, <1>3, <1>4, NumberReadsBack

(* One more vector is read after those that were. *)
ReadOneMore(before) ==
  LET following == ReadVector(before.rest)
  IN  IF ~ before.ok \/ ~ following.ok THEN Short
      ELSE Got(Append(before.value, following.value), following.rest)

CountedUp(bytes, count, u) ==
  [c \in 0 .. count |-> IF c = 0 THEN Got(<<>>, Drop(8, bytes)) ELSE ReadOneMore(u[c - 1])]

LEMMA ReadVectorsRecurs ==
  ASSUME NEW bytes, ReadLittleEndian(SubSeq(bytes, 1, 8)) \in Nat
  PROVE  LET count == ReadLittleEndian(SubSeq(bytes, 1, 8))
         IN  \E u : /\ u = CountedUp(bytes, count, u)
                    /\ ReadVectors(bytes)
                         = IF Len(bytes) < 8 \/ 8 * count > Len(bytes) - 8 THEN Short
                           ELSE u[count]
  <1> DEFINE count == ReadLittleEndian(SubSeq(bytes, 1, 8))
             B == Got(<<>>, Drop(8, bytes))
             D(x) == ReadOneMore(x)
             Is(f, k) == f = [i \in 0 .. k |-> IF i = 0 THEN B ELSE D(f[i - 1])]
             T == {k \in Nat : \E f : Is(f, k)}
  <1> HIDE DEF B, D
  <1>1. 0 \in T
    <2> DEFINE f == [i \in 0 .. 0 |-> B]
    <2>1. Is(f, 0)
      OBVIOUS
    <2> HIDE DEF f, Is
    <2> QED
      BY <2>1
  <1>2. ASSUME NEW k \in Nat, k \in T PROVE k + 1 \in T
    <2>1. PICK f : Is(f, k)
      BY <1>2
    <2> DEFINE g == [i \in 0 .. k + 1 |-> IF i = k + 1 THEN D(f[k]) ELSE f[i]]
    <2>2. ASSUME NEW i \in 0 .. k + 1
          PROVE  g[i] = IF i = 0 THEN B ELSE D(g[i - 1])
      <3>1. CASE i = k + 1
        <4>1. g[i - 1] = f[k] /\ i # 0
          BY <3>1
        <4> QED
          BY <3>1, <4>1
      <3>2. CASE i # k + 1
        <4>1. i \in 0 .. k /\ (i # 0 => i - 1 \in 0 .. k + 1 /\ i - 1 # k + 1)
          BY <3>2
        <4>2. g[i] = f[i] /\ (i # 0 => g[i - 1] = f[i - 1])
          BY <3>2, <4>1
        <4>3. f[i] = IF i = 0 THEN B ELSE D(f[i - 1])
          BY <2>1, <4>1
        <4> QED
          BY <4>2, <4>3
      <3> QED
        BY <3>1, <3>2
    <2>3. Is(g, k + 1)
      BY <2>2
    <2> HIDE DEF g, Is
    <2> QED
      BY <2>3
  <1>3. Nat \subseteq T
    <2> HIDE DEF T
    <2> QED
      BY <1>1, <1>2, SetInduction
  <1>4. PICK f : Is(f, count)
    BY <1>3
  <1>5. f = CountedUp(bytes, count, f)
    BY <1>4, Zenon DEF CountedUp, B, D
  <1> DEFINE u == CHOOSE u : u = CountedUp(bytes, count, u)
  <1>6. u = CountedUp(bytes, count, u)
    BY <1>5, Zenon
  <1>7. ReadVectors(bytes)
          = IF Len(bytes) < 8 \/ 8 * count > Len(bytes) - 8 THEN Short ELSE u[count]
    BY Zenon DEF ReadVectors, CountedUp, ReadOneMore
  <1> QED
    BY <1>6, <1>7

(* The vectors take eight bytes each at least.                             *)
LEMMA PackedLong ==
  ASSUME NEW ss \in Strs, \A c \in 1 .. Len(ss) : Len(ss[c]) < TooLarge
  PROVE  8 * Len(ss) <= Len(FlattenSeq(Packed(ss)))
  <1> DEFINE n == Len(ss)
             pp == Packed(ss)
             T == {c \in 0 .. n : 8 * c <= Len(JoinedUpTo(pp, c))}
  <1>1. /\ n \in Nat /\ pp \in Strs /\ Len(pp) = n
        /\ \A c \in 1 .. n : pp[c] \in Str /\ Len(pp[c]) >= 8
    BY StringsOf, PackedTyped
  <1> HIDE DEF n, pp
  <1>2. /\ \A c \in 0 .. n : JoinedUpTo(pp, c) \in Str
        /\ JoinedUpTo(pp, 0) = <<>> /\ JoinedUpTo(pp, n) = FlattenSeq(pp)
        /\ \A c \in 0 .. n - 1 : JoinedUpTo(pp, c + 1) = JoinedUpTo(pp, c) \o pp[c + 1]
    BY <1>1, JoinedSteps
  <1>3. 0 \in T
    BY <1>1, <1>2, EmptyStr
  <1>4. ASSUME NEW c \in 0 .. n - 1, c \in T PROVE c + 1 \in T
    <2>1. c \in 0 .. n /\ c + 1 \in 0 .. n /\ c + 1 \in 1 .. n
      BY <1>1
    <2> DEFINE a == JoinedUpTo(pp, c)
               b == pp[c + 1]
    <2>2. a \in Str /\ b \in Str /\ Len(b) >= 8 /\ 8 * c <= Len(a)
      BY <1>1, <1>2, <1>4, <2>1
    <2>3. JoinedUpTo(pp, c + 1) = a \o b
      BY <1>2
    <2> HIDE DEF a, b
    <2>4. Len(a \o b) = Len(a) + Len(b) /\ Len(a) \in Nat /\ Len(b) \in Nat
      BY <2>2, CatStr, LenNat
    <2>5. 8 * (c + 1) <= Len(a \o b)
      BY <2>1, <2>2, <2>4
    <2> QED
      BY <2>1, <2>3, <2>5
  <1>5. 0 .. n \subseteq T
    <2> HIDE DEF T
    <2> QED
      BY <1>1, <1>3, <1>4, UpTo
  <1>6. n \in T
    BY <1>1, <1>5
  <1> QED
    BY <1>2, <1>6 DEF n, pp

(* After the first c vectors come the next one and the rest.               *)
LEMMA NextVector ==
  ASSUME NEW ss, Writable(ss), NEW t \in Str, NEW c \in 0 .. Len(ss) - 1, NEW r \in Str,
         JoinedUpTo(Packed(ss), c) \o r = FlattenSeq(Packed(ss)) \o t
  PROVE  \E w \in Str : /\ r = Vector(ss[c + 1]) \o w
                        /\ JoinedUpTo(Packed(ss), c + 1) \o w = FlattenSeq(Packed(ss)) \o t
  <1> DEFINE n  == Len(ss)
             pp == Packed(ss)
             f  == FlattenSeq(pp)
             a  == JoinedUpTo(pp, c)
             b  == pp[c + 1]
             d  == JoinedUpTo(pp, c + 1)
  <1>0. ss \in Strs /\ \A i \in 1 .. n : Len(ss[i]) < TooLarge
    BY DEF Writable
  <1>1. /\ n \in Nat /\ pp \in Strs /\ Len(pp) = n
        /\ \A i \in 1 .. n : pp[i] \in Str /\ pp[i] = Vector(ss[i])
    BY <1>0, StringsOf, PackedTyped
  <1> HIDE DEF n, pp
  <1>2. c \in 0 .. n - 1 /\ c \in 0 .. n /\ c + 1 \in 1 .. n /\ c + 1 \in 0 .. n
    BY <1>1 DEF n
  <1>3. b \in Str /\ b = Vector(ss[c + 1])
    BY <1>1, <1>2
  <1>4. /\ a \in Str /\ d = a \o b
    BY <1>1, <1>2, JoinedSteps
  <1>5. PICK w \in Str : f = d \o w
    BY <1>1, <1>2, JoinedRemainder
  <1>6. a \o r = f \o t
    BY DEF pp
  <1> HIDE DEF a, b, d, f
  <1>7. w \o t \in Str /\ b \o (w \o t) \in Str /\ d \in Str
    BY <1>3, <1>4, <1>5, CatStr
  <1>8. f \o t = d \o (w \o t)
    <2>1. Assoc(d, w, t)
      BY <1>5, <1>7, AssocOf
    <2>2. (d \o w) \o t = d \o (w \o t)
      BY <2>1, Zenon DEF Assoc
    <2> QED
      BY <1>5, <2>2, Zenon
  <1>9. d \o (w \o t) = a \o (b \o (w \o t))
    <2>1. a \in Str /\ b \in Str /\ w \o t \in Str
      BY <1>3, <1>4, <1>7
    <2>2. (a \o b) \o (w \o t) = a \o (b \o (w \o t))
      <3>1. Assoc(a, b, w \o t)
        BY <2>1, AssocOf
      <3> QED
        BY <3>1, Zenon DEF Assoc
    <2> QED
      BY <1>4, <2>2, Zenon
  <1>10. r = b \o (w \o t)
    <2> DEFINE x == b \o (w \o t)
    <2>1. a \in Str /\ r \in Str /\ x \in Str
      BY <1>4, <1>7
    <2>2. a \o r = a \o x
      BY <1>6, <1>8, <1>9, Zenon
    <2> HIDE DEF x
    <2>3. r = x
      BY <2>1, <2>2, SameRest
    <2> QED
      BY <2>3 DEF x
  <1> QED
    BY <1>3, <1>7, <1>8, <1>10 DEF d, f, pp

(* A vector of vectors is read as it was written, and what comes behind it *)
(* is left.                                                                *)
LEMMA VectorsReadBack ==
  ASSUME NEW ss, Writable(ss), NEW t \in Str
  PROVE  ReadVectors(Vectors(ss) \o t) = Got(ss, t)
  <1> DEFINE n  == Len(ss)
             pp == Packed(ss)
             f  == FlattenSeq(pp)
             m  == LittleEndian(n, 8)
             b  == m \o (f \o t)
  <1>0. ss \in Strs /\ n < TooLarge /\ \A i \in 1 .. n : ss[i] \in Str /\ Len(ss[i]) < TooLarge
    BY StringsOf DEF Writable
  <1>1. n \in Nat /\ pp \in Strs /\ Len(pp) = n /\ 8 * n <= Len(f) /\ f \in Str
    BY <1>0, StringsOf, PackedTyped, PackedLong, FlattenStr
  <1>2. f \o t \in Str /\ Len(f \o t) = Len(f) + Len(t) /\ Len(f) \in Nat /\ Len(t) \in Nat
    BY <1>1, CatStr, LenNat
  <1>3. /\ m \in Str /\ ReadLittleEndian(m) = n /\ b \in Str /\ Len(b) = 8 + Len(f \o t)
        /\ SubSeq(b, 1, 8) = m /\ Drop(8, b) = f \o t
    BY <1>0, <1>1, <1>2, NumberReadsBack
  <1>4. Vectors(ss) \o t = b
    <2>1. Vectors(ss) = m \o f
      BY VectorsStr
    <2> HIDE DEF m, f
    <2>2. (m \o f) \o t = m \o (f \o t)
      <3>1. Assoc(m, f, t)
        BY <1>1, <1>3, AssocOf
      <3> QED
        BY <3>1, Zenon DEF Assoc
    <2> QED
      BY <2>1, <2>2
  <1> HIDE DEF b, m
  <1>5. ReadLittleEndian(SubSeq(b, 1, 8)) = n
    BY <1>3
  <1>6. PICK u : /\ u = CountedUp(b, n, u)
                 /\ ReadVectors(b) = IF Len(b) < 8 \/ 8 * n > Len(b) - 8 THEN Short ELSE u[n]
    BY <1>1, <1>5, ReadVectorsRecurs
  <1>7. ReadVectors(b) = u[n]
    <2>1. ~ (Len(b) < 8) /\ ~ (8 * n > Len(b) - 8)
      <3> HIDE DEF f
      <3> QED
        BY <1>1, <1>2, <1>3
    <2> QED
      BY <1>6, <2>1
  <1> DEFINE P(c) == \E r \in Str : /\ u[c] = Got(SubSeq(ss, 1, c), r)
                                    /\ JoinedUpTo(pp, c) \o r = f \o t
             T == {c \in 0 .. n : P(c)}
  <1> HIDE DEF n, pp, f
  <1>8. 0 \in T
    <2>1. 0 \in 0 .. n
      BY <1>1
    <2>2. u[0] = Got(<<>>, f \o t)
      BY <1>3, <1>6, <2>1 DEF CountedUp
    <2>3. SubSeq(ss, 1, 0) = <<>>
      BY <1>0 DEF Strs
    <2>4. JoinedUpTo(pp, 0) = <<>> /\ <<>> \o (f \o t) = f \o t
      BY <1>1, <1>2, JoinedSteps, EmptyStr
    <2>5. P(0)
      BY <1>2, <2>2, <2>3, <2>4
    <2> QED
      BY <2>1, <2>5
  <1>9. ASSUME NEW c \in 0 .. n - 1, c \in T PROVE c + 1 \in T
    <2>1. /\ c + 1 \in 0 .. n /\ c + 1 \in 1 .. n /\ c \in 0 .. n /\ c + 1 # 0
          /\ (c + 1) - 1 = c /\ c \in 0 .. Len(ss) - 1
      BY <1>1 DEF n
    <2>2. PICK r \in Str : u[c] = Got(SubSeq(ss, 1, c), r) /\ JoinedUpTo(pp, c) \o r = f \o t
      BY <1>9
    <2>3. PICK w \in Str : r = Vector(ss[c + 1]) \o w /\ JoinedUpTo(pp, c + 1) \o w = f \o t
      BY <2>1, <2>2, NextVector DEF f, pp
    <2>4. ReadVector(r) = Got(ss[c + 1], w)
      <3>1. ss[c + 1] \in Str /\ Len(ss[c + 1]) < TooLarge
        BY <1>0, <2>1
      <3> QED
        BY <2>3, <3>1, VectorReadsBack
    <2>5. u[c + 1] = ReadOneMore(u[c])
      <3>1. u[c + 1] = ReadOneMore(u[(c + 1) - 1])
        BY <1>6, <2>1 DEF CountedUp
      <3> QED
        BY <2>1, <3>1
    <2>6. ReadOneMore(u[c]) = Got(Append(SubSeq(ss, 1, c), ss[c + 1]), w)
      <3> DEFINE x == u[c]  y == ReadVector(x.rest)
      <3>1. x.ok /\ x.value = SubSeq(ss, 1, c) /\ x.rest = r
        BY <2>2 DEF Got
      <3>2. y.ok /\ y.value = ss[c + 1] /\ y.rest = w
        BY <2>4, <3>1 DEF Got
      <3> QED
        BY <3>1, <3>2 DEF ReadOneMore
    <2>7. Append(SubSeq(ss, 1, c), ss[c + 1]) = SubSeq(ss, 1, c + 1)
      BY <1>0, <2>1 DEF Strs, n
    <2>8. P(c + 1)
      BY <2>3, <2>5, <2>6, <2>7
    <2> QED
      BY <2>1, <2>8
  <1>10. 0 .. n \subseteq T
    <2> HIDE DEF T
    <2> QED
      BY <1>1, <1>8, <1>9, UpTo
  <1>11. P(n)
    <2>1. n \in 0 .. n
      BY <1>1
    <2>2. n \in T
      BY <1>10, <2>1
    <2> QED
      BY <2>2
  <1>12. PICK r \in Str : u[n] = Got(SubSeq(ss, 1, n), r) /\ JoinedUpTo(pp, n) \o r = f \o t
    BY <1>11
  <1>13. SubSeq(ss, 1, n) = ss
    BY <1>0, SliceAll DEF Strs, Sphinx!Slice, n
  <1>14. JoinedUpTo(pp, n) = f
    BY <1>1, JoinedSteps DEF f
  <1>15. r = t
    BY <1>1, <1>12, <1>14, SameRest
  <1> QED
    BY <1>4, <1>7, <1>12, <1>13, <1>15

LEMMA PackedAppend ==
  ASSUME NEW ss \in Strs, NEW x \in Str
  PROVE  Packed(Append(ss, x)) = Append(Packed(ss), Vector(x))
  <1> DEFINE tt == Append(ss, x)
             n  == Len(ss)
             v(y) == Vector(y)
  <1>1. /\ n \in Nat /\ DOMAIN ss = 1 .. n /\ DOMAIN tt = 1 .. n + 1
        /\ \A c \in 1 .. n : tt[c] = ss[c]
        /\ tt[n + 1] = x
    BY DEF Strs
  <1> HIDE DEF tt, n, v
  <1>2. [c \in DOMAIN tt |-> v(tt[c])] = Append([c \in DOMAIN ss |-> v(ss[c])], v(x))
    BY <1>1
  <1> QED
    BY <1>2, Zenon DEF Packed, tt, v

(* What is read as a vector of vectors is what would be written for it.    *)
LEMMA VectorsStood ==
  ASSUME NEW s \in Str, Len(s) < TooLarge, ReadVectors(s).ok
  PROVE  \E ss, r : /\ ReadVectors(s) = Got(ss, r)
                    /\ Writable(ss) /\ r \in Str /\ Len(r) < TooLarge
                    /\ Vectors(ss) \o r = s
  <1> DEFINE m == SubSeq(s, 1, 8)
             n == ReadLittleEndian(m)
             d == Drop(8, s)
  <1>0. Len(s) \in Nat /\ Short.ok = FALSE
    BY LenNat DEF Short
  <1>1. ~ Len(s) < 8
    BY <1>0, Zenon DEF ReadVectors
  <1>2. 8 <= Len(s)
    BY <1>0, <1>1
  <1>3. /\ m \in Str /\ Len(m) = 8 /\ d \in Str /\ m \o d = s /\ Len(d) = Len(s) - 8
        /\ n \in Nat /\ (n < TooLarge => m = LittleEndian(n, 8))
    BY <1>2, NumberStood
  <1>4. PICK u : /\ u = CountedUp(s, n, u)
                 /\ ReadVectors(s) = IF Len(s) < 8 \/ 8 * n > Len(s) - 8 THEN Short ELSE u[n]
    BY <1>3, ReadVectorsRecurs
  <1>5. ~ 8 * n > Len(s) - 8 /\ ReadVectors(s) = u[n]
    BY <1>0, <1>1, <1>4
  <1>6. n < TooLarge /\ Len(d) < TooLarge
    BY <1>0, <1>3, <1>5 DEF TooLarge
  <1>7. m = LittleEndian(n, 8)
    BY <1>3, <1>6
  <1> DEFINE Read(c, ss, r) ==
               /\ u[c] = Got(ss, r) /\ Len(ss) = c
               /\ \A i \in 1 .. c : Len(ss[i]) < TooLarge
               /\ FlattenSeq(Packed(ss)) \o r = d
             P(c) == u[c].ok => \E ss \in Strs, r \in Str : Read(c, ss, r)
             T == {c \in 0 .. n : P(c)}
  <1>8. CountedUp(s, n, u) = [c \in 0 .. n |-> IF c = 0 THEN Got(<<>>, d) ELSE ReadOneMore(u[c - 1])]
    BY DEF CountedUp
  <1> HIDE DEF m, n, d
  <1>9. 0 \in T
    <2>1. 0 \in 0 .. n
      BY <1>3
    <2>2. u[0] = Got(<<>>, d)
      BY <1>4, <1>8, <2>1
    <2>3. <<>> \in Strs /\ Len(<<>>) = 0 /\ Packed(<<>>) = <<>>
      BY DEF Strs, Packed
    <2>4. FlattenSeq(Packed(<<>>)) \o d = d
      BY <1>3, <2>3, FlattenEmpty, EmptyStr
    <2>5. Read(0, <<>>, d)
      BY <2>2, <2>3, <2>4
    <2>6. P(0)
      <3> HIDE DEF Read
      <3> QED
        BY <1>3, <2>3, <2>5
    <2> QED
      BY <2>1, <2>6
  <1>10. ASSUME NEW c \in 0 .. n - 1, c \in T PROVE c + 1 \in T
    <2>1. c + 1 \in 0 .. n /\ c + 1 # 0 /\ (c + 1) - 1 = c /\ c \in Nat
      BY <1>3
    <2>2. u[c + 1] = ReadOneMore(u[c])
      <3>1. u[c + 1] = ReadOneMore(u[(c + 1) - 1])
        BY <1>4, <1>8, <2>1
      <3> QED
        BY <2>1, <3>1
    <2>3. SUFFICES ASSUME u[c + 1].ok PROVE \E ss \in Strs, r \in Str : Read(c + 1, ss, r)
      BY <2>1
    <2> DEFINE x == u[c]  y == ReadVector(x.rest)
    <2>4. x.ok /\ y.ok /\ u[c + 1] = Got(Append(x.value, y.value), y.rest)
      BY <1>0, <2>2, <2>3 DEF ReadOneMore
    <2>5. PICK ss \in Strs, r \in Str : Read(c, ss, r)
      BY <1>10, <2>4
    <2>6. x.value = ss /\ x.rest = r
      BY <2>5 DEF Got
    <2> DEFINE p == FlattenSeq(Packed(ss))
    <2>7. p \in Str /\ p \o r = d /\ Len(ss) = c /\ Packed(ss) \in Strs
      <3>1. \A i \in 1 .. Len(ss) : Len(ss[i]) < TooLarge
        BY <2>5
      <3>2. Packed(ss) \in Strs
        BY <3>1, PackedTyped
      <3> QED
        BY <2>5, <3>2, FlattenStr
    <2>8. Len(r) < TooLarge
      <3> HIDE DEF p
      <3>1. Len(d) = Len(p) + Len(r) /\ Len(p) \in Nat /\ Len(r) \in Nat
        BY <2>7, CatStr, LenNat, Zenon
      <3> QED
        BY <1>6, <3>1 DEF TooLarge
    <2> DEFINE a == y.value  b == y.rest
    <2>9. /\ a \in Str /\ b \in Str /\ Vector(a) \o b = r /\ Len(a) < TooLarge
      <3>1. ReadVector(r).ok
        BY <2>4, <2>6
      <3> QED
        BY <2>6, <2>8, <3>1, VectorStood
    <2>10. u[c + 1] = Got(Append(ss, a), b)
      BY <2>4, <2>6
    <2> HIDE DEF x, y, a, b
    <2>11. Vector(a) \in Str
      BY <2>9, VectorStr
    <2>12. FlattenSeq(Packed(Append(ss, a))) = p \o Vector(a)
      <3>1. FlattenSeq(Append(Packed(ss), Vector(a))) = p \o Vector(a)
        BY <2>7, <2>11, FlattenAppend
      <3>2. Packed(Append(ss, a)) = Append(Packed(ss), Vector(a))
        BY <2>9, PackedAppend
      <3> QED
        BY <3>1, <3>2, Zenon
    <2>13. (p \o Vector(a)) \o b = d
      <3> HIDE DEF p
      <3>0. p \in Str /\ Vector(a) \in Str /\ b \in Str
        BY <2>7, <2>9, <2>11
      <3>1. (p \o Vector(a)) \o b = p \o (Vector(a) \o b)
        <4>1. Assoc(p, Vector(a), b)
          BY <3>0, AssocOf
        <4> QED
          BY <4>1, Zenon DEF Assoc
      <3> QED
        BY <2>7, <2>9, <3>1, Zenon
    <2>14. FlattenSeq(Packed(Append(ss, a))) \o b = d
      BY <2>12, <2>13, Zenon
    <2>15. /\ Append(ss, a) \in Strs /\ Len(Append(ss, a)) = c + 1
           /\ \A i \in 1 .. c + 1 : Len(Append(ss, a)[i]) < TooLarge
      <3>1. ss \in Seq(Str) /\ Len(ss) = c /\ \A i \in 1 .. c : Len(ss[i]) < TooLarge
        BY <2>5 DEF Strs
      <3>2. Append(ss, a) \in Seq(Str) /\ Len(Append(ss, a)) = c + 1
        BY <2>9, <3>1
      <3>3. \A i \in 1 .. c + 1 : Append(ss, a)[i] = IF i = c + 1 THEN a ELSE ss[i]
        BY <2>1, <3>1
      <3>4. \A i \in 1 .. c + 1 : i = c + 1 \/ i \in 1 .. c
        BY <2>1
      <3> QED
        BY <2>9, <3>1, <3>2, <3>3, <3>4 DEF Strs
    <2>16. Read(c + 1, Append(ss, a), b)
      BY <2>10, <2>14, <2>15
    <2> HIDE DEF Read
    <2> QED
      BY <2>9, <2>15, <2>16
  <1>11. 0 .. n \subseteq T
    <2> HIDE DEF T
    <2> QED
      BY <1>3, <1>9, <1>10, UpTo
  <1>12. u[n].ok
    BY <1>5
  <1>13. PICK ss \in Strs, r \in Str : Read(n, ss, r)
    <2>1. n \in 0 .. n
      BY <1>3
    <2>2. n \in T
      BY <1>11, <2>1
    <2>3. P(n)
      BY <2>2
    <2> HIDE DEF Read
    <2> QED
      BY <1>12, <2>3
  <1>14. Writable(ss)
    BY <1>6, <1>13 DEF Writable
  <1> DEFINE p == FlattenSeq(Packed(ss))
  <1>15. Vectors(ss) = m \o p /\ p \in Str /\ p \o r = d
    BY <1>7, <1>13, <1>14, VectorsStr
  <1> HIDE DEF p
  <1>16. Vectors(ss) \o r = s
    <2>0. m \in Str /\ p \in Str /\ r \in Str
      BY <1>3, <1>15
    <2>1. (m \o p) \o r = m \o (p \o r)
      <3>1. Assoc(m, p, r)
        BY <2>0, AssocOf
      <3> QED
        BY <3>1, Zenon DEF Assoc
    <2> QED
      BY <1>3, <1>15, <2>1, Zenon
  <1>17. Len(r) < TooLarge
    <2>1. Len(d) = Len(p) + Len(r) /\ Len(p) \in Nat /\ Len(r) \in Nat
      BY <1>15, CatStr, LenNat, Zenon
    <2> QED
      BY <1>6, <2>1 DEF TooLarge
  <1> QED
    BY <1>5, <1>13, <1>14, <1>16, <1>17

-----------------------------------------------------------------------------
(* Onions. *)

(* Three strings that are joined, and a fourth behind them.                *)
JoinedThree(a, b, c, t) ==
  /\ a \o b \o c \in Str
  /\ a \o b \o c \o t = a \o (b \o (c \o t))
  /\ c \o t \in Str /\ b \o (c \o t) \in Str
  /\ Len(a \o b \o c) = Len(a) + Len(b) + Len(c)

LEMMA JoinThree ==
  ASSUME NEW a \in Str, NEW b \in Str, NEW c \in Str, NEW t \in Str
  PROVE  JoinedThree(a, b, c, t)
  <1> DEFINE d == a \o b
             e == c \o t
             f == d \o c
  <1>1. d \in Str /\ Len(d) = Len(a) + Len(b)
    BY CatStr
  <1>2. e \in Str
    BY CatStr
  <1> HIDE DEF d, e, f
  <1>3. f \in Str /\ Len(f) = Len(d) + Len(c)
    BY <1>1, CatStr DEF f
  <1>4. b \o e \in Str
    BY <1>2, CatStr
  <1>5. Assoc(a, b, e)
    BY <1>2, AssocOf
  <1>6. Assoc(d, c, t)
    BY <1>1, AssocOf
  <1>7. f \o t = a \o (b \o e)
    <2>1. d \o e = a \o (b \o e)
      BY <1>5 DEF Assoc, d
    <2>2. (d \o c) \o t = d \o (c \o t)
      BY <1>6 DEF Assoc
    <2>3. (d \o c) \o t = d \o e
      BY <2>2 DEF e
    <2> QED
      BY <2>1, <2>3, Zenon DEF f
  <1> QED
    BY <1>1, <1>2, <1>3, <1>4, <1>7, Zenon DEF JoinedThree, d, e, f

JoinedFour(a, b, c, d, t) ==
  /\ a \o b \o c \o d \in Str
  /\ a \o b \o c \o d \o t = a \o (b \o (c \o (d \o t)))
  /\ d \o t \in Str /\ c \o (d \o t) \in Str /\ b \o (c \o (d \o t)) \in Str
  /\ Len(a \o b \o c \o d) = Len(a) + Len(b) + Len(c) + Len(d)

LEMMA JoinFour ==
  ASSUME NEW a \in Str, NEW b \in Str, NEW c \in Str, NEW d \in Str, NEW t \in Str
  PROVE  JoinedFour(a, b, c, d, t)
  <1> DEFINE e == d \o t
             f == a \o b \o c
             g == f \o d
  <1>1. e \in Str
    BY CatStr
  <1> HIDE DEF e
  <1>2. JoinedThree(a, b, c, e)
    BY <1>1, JoinThree
  <1>3. /\ f \in Str /\ f \o e = a \o (b \o (c \o e))
        /\ c \o e \in Str /\ b \o (c \o e) \in Str
        /\ Len(f) = Len(a) + Len(b) + Len(c)
    BY <1>2, Zenon DEF JoinedThree
  <1> HIDE DEF f, g
  <1>4. g \in Str /\ Len(g) = Len(f) + Len(d)
    BY <1>3, CatStr DEF g
  <1>5. Assoc(f, d, t)
    BY <1>3, AssocOf
  <1>6. g \o t = f \o e
    BY <1>5, Zenon DEF Assoc, e, g
  <1> QED
    BY <1>1, <1>3, <1>4, <1>6, Zenon DEF JoinedFour, e, f, g

OnionOf(h, f, v, g) == [header |-> h, forward |-> f, backward |-> [vec |-> v, tag |-> g]]

(* The parts of an onion that can be written. *)
Parted(h, f, v, g) ==
  /\ Writable(h)
  /\ f \in Str /\ Len(f) < TooLarge
  /\ v \in Str /\ Len(v) < TooLarge
  /\ g \in Str /\ Len(g) = Format!TagBytes

Written(h, f, v, g, t) ==
  /\ serialize(OnionOf(h, f, v, g)) \in Str
  /\ serialize(OnionOf(h, f, v, g)) \o t
       = Vectors(h) \o (Vector(f) \o (Vector(v) \o (g \o t)))
  /\ g \o t \in Str /\ Vector(v) \o (g \o t) \in Str
  /\ Vector(f) \o (Vector(v) \o (g \o t)) \in Str

LEMMA OnionWritten ==
  ASSUME NEW h, NEW f, NEW v, NEW g, Parted(h, f, v, g), NEW t \in Str
  PROVE  Written(h, f, v, g, t)
  <1> DEFINE a == Vectors(h)
             b == Vector(f)
             c == Vector(v)
             s == serialize(OnionOf(h, f, v, g))
  <1>1. a \in Str
    BY VectorsStr DEF Parted
  <1>2. b \in Str /\ c \in Str
    BY VectorStr DEF Parted
  <1>3. g \in Str
    BY DEF Parted
  <1>4. s = a \o b \o c \o g
    BY DEF serialize, OnionOf
  <1> HIDE DEF a, b, c, s
  <1>5. JoinedFour(a, b, c, g, t)
    BY <1>1, <1>2, <1>3, JoinFour
  <1>6. /\ s \in Str
        /\ s \o t = a \o (b \o (c \o (g \o t)))
        /\ g \o t \in Str /\ c \o (g \o t) \in Str /\ b \o (c \o (g \o t)) \in Str
    BY <1>4, <1>5, Zenon DEF JoinedFour
  <1> QED
    BY <1>6, Zenon DEF Written, a, b, c, s

LEMMA DeserializesTo ==
  ASSUME NEW s, NEW h, NEW f, NEW v, NEW g, NEW r1, NEW r2, NEW r3, NEW r4,
         ReadVectors(s) = Got(h, r1), ReadVector(r1) = Got(f, r2), ReadVector(r2) = Got(v, r3),
         ReadBytes(Format!TagBytes, r3) = Got(g, r4)
  PROVE  deserialize(s) = [ok |-> TRUE, onion |-> OnionOf(h, f, v, g)]
  <1> DEFINE x1 == ReadVectors(s)
             x2 == ReadVector(x1.rest)
             x3 == ReadVector(x2.rest)
             x4 == ReadBytes(Format!TagBytes, x3.rest)
  <1>1. x1.ok /\ x1.value = h /\ x1.rest = r1
    BY DEF Got
  <1>2. x2.ok /\ x2.value = f /\ x2.rest = r2
    BY <1>1 DEF Got
  <1>3. x3.ok /\ x3.value = v /\ x3.rest = r3
    BY <1>2 DEF Got
  <1>4. x4.ok /\ x4.value = g
    BY <1>3 DEF Got
  <1>5. deserialize(s) =
          IF ~ x1.ok \/ ~ x2.ok \/ ~ x3.ok \/ ~ x4.ok THEN Err("SerializationError")
          ELSE [ok |-> TRUE, onion |-> OnionOf(x1.value, x2.value, x3.value, x4.value)]
    BY DEF deserialize, OnionOf
  <1> HIDE DEF x1, x2, x3, x4
  <1> QED
    BY <1>1, <1>2, <1>3, <1>4, <1>5

(* An onion is read as it was written, whatever comes behind it.           *)
LEMMA OnionReadsBack ==
  ASSUME NEW h, NEW f, NEW v, NEW g, Parted(h, f, v, g), NEW t \in Str
  PROVE  deserialize(serialize(OnionOf(h, f, v, g)) \o t)
           = [ok |-> TRUE, onion |-> OnionOf(h, f, v, g)]
  <1> DEFINE s  == serialize(OnionOf(h, f, v, g)) \o t
             r3 == g \o t
             r2 == Vector(v) \o r3
             r1 == Vector(f) \o r2
  <1>1. s = Vectors(h) \o r1 /\ r1 \in Str /\ r2 \in Str /\ r3 \in Str
    <2>1. Written(h, f, v, g, t)
      BY OnionWritten
    <2> QED
      BY <2>1, Zenon DEF Written
  <1>2. ReadVectors(s) = Got(h, r1)
    <2> HIDE DEF r1
    <2> QED
      BY <1>1, VectorsReadBack DEF Parted
  <1>3. ReadVector(r1) = Got(f, r2)
    <2> HIDE DEF r2
    <2> QED
      BY <1>1, VectorReadsBack DEF Parted
  <1>4. ReadVector(r2) = Got(v, r3)
    <2> HIDE DEF r3
    <2> QED
      BY <1>1, VectorReadsBack DEF Parted
  <1>5. ReadBytes(Format!TagBytes, r3) = Got(g, t)
    <2>1. g \in Str /\ Len(g) = Format!TagBytes
      BY DEF Parted
    <2>2. ReadBytes(Len(g), g \o t) = Got(g, t)
      BY <2>1, BytesReadBack
    <2> QED
      BY <2>1, <2>2
  <1> HIDE DEF s, r1, r2, r3
  <1>6. deserialize(s) = [ok |-> TRUE, onion |-> OnionOf(h, f, v, g)]
    BY <1>2, <1>3, <1>4, <1>5, DeserializesTo
  <1> QED
    BY <1>6 DEF s

(* What is read as an onion is what would be written for it, up to where   *)
(* it ends.                                                                *)
LEMMA OnionStood ==
  ASSUME NEW s \in Str, Len(s) < TooLarge, deserialize(s).ok
  PROVE  \E h, f, v, g, t :
           /\ Parted(h, f, v, g) /\ t \in Str
           /\ deserialize(s) = [ok |-> TRUE, onion |-> OnionOf(h, f, v, g)]
           /\ serialize(OnionOf(h, f, v, g)) \o t = s
  <1> DEFINE x1 == ReadVectors(s)
             x2 == ReadVector(x1.rest)
             x3 == ReadVector(x2.rest)
             x4 == ReadBytes(Format!TagBytes, x3.rest)
  <1>1. x1.ok /\ x2.ok /\ x3.ok /\ x4.ok
    <2>1. deserialize(s) =
            IF ~ x1.ok \/ ~ x2.ok \/ ~ x3.ok \/ ~ x4.ok THEN Err("SerializationError")
            ELSE [ok |-> TRUE, onion |-> OnionOf(x1.value, x2.value, x3.value, x4.value)]
      BY DEF deserialize, OnionOf
    <2>2. ~ Err("SerializationError").ok
      BY DEF Err
    <2> HIDE DEF x1, x2, x3, x4
    <2> QED
      BY <2>1, <2>2
  <1>2. PICK h, r1 : /\ x1 = Got(h, r1) /\ Writable(h) /\ r1 \in Str /\ Len(r1) < TooLarge
                     /\ Vectors(h) \o r1 = s
    BY <1>1, VectorsStood
  <1>3. x1.rest = r1
    BY <1>2 DEF Got
  <1> HIDE DEF x1
  <1> DEFINE f == x2.value  r2 == x2.rest
  <1>4. /\ f \in Str /\ r2 \in Str /\ Vector(f) \o r2 = r1
        /\ Len(f) < TooLarge /\ Len(r2) < TooLarge /\ x2 = Got(f, r2)
    <2>1. ReadVector(r1).ok
      BY <1>1, <1>3
    <2> QED
      BY <1>2, <1>3, <2>1, VectorStood
  <1> HIDE DEF x2
  <1> DEFINE v == x3.value  r3 == x3.rest
  <1>5. /\ v \in Str /\ r3 \in Str /\ Vector(v) \o r3 = r2
        /\ Len(v) < TooLarge /\ Len(r3) < TooLarge /\ x3 = Got(v, r3)
    <2>1. ReadVector(r2).ok
      BY <1>1
    <2> HIDE DEF r2
    <2> QED
      BY <1>4, <2>1, VectorStood DEF r2
  <1> HIDE DEF x3
  <1> DEFINE g == x4.value  t == x4.rest
  <1>6. /\ g \in Str /\ t \in Str /\ g \o t = r3 /\ Len(g) = Format!TagBytes /\ x4 = Got(g, t)
    <2>1. Format!TagBytes \in Nat
      BY DEF Format!TagBytes
    <2> HIDE DEF r3
    <2>2. x4 = ReadBytes(Format!TagBytes, r3) /\ ReadBytes(Format!TagBytes, r3).ok
      BY <1>1 DEF r3
    <2> HIDE DEF x4
    <2>3. Stood(x4, r3) /\ Len(x4.value) = Format!TagBytes /\ x4 = Got(x4.value, x4.rest)
      BY <1>5, <2>1, <2>2, BytesStood
    <2> QED
      BY <2>3 DEF Stood
  <1> HIDE DEF f, r2, v, r3, g, t
  <1>7. Parted(h, f, v, g)
    BY <1>2, <1>4, <1>5, <1>6 DEF Parted
  <1>8. deserialize(s) = [ok |-> TRUE, onion |-> OnionOf(h, f, v, g)]
    <2>1. ReadVectors(s) = Got(h, r1)
      BY <1>2 DEF x1
    <2>2. ReadVector(r1) = Got(f, r2)
      BY <1>3, <1>4 DEF x2
    <2>3. ReadVector(r2) = Got(v, r3)
      BY <1>5 DEF x3, r2
    <2>4. ReadBytes(Format!TagBytes, r3) = Got(g, t)
      BY <1>6 DEF x4, r3
    <2> QED
      BY <2>1, <2>2, <2>3, <2>4, DeserializesTo
  <1>9. serialize(OnionOf(h, f, v, g)) \o t = s
    <2>1. serialize(OnionOf(h, f, v, g)) \o t
            = Vectors(h) \o (Vector(f) \o (Vector(v) \o (g \o t)))
      <3>1. Written(h, f, v, g, t)
        BY <1>6, <1>7, OnionWritten
      <3> QED
        BY <3>1, Zenon DEF Written
    <2> QED
      BY <1>2, <1>4, <1>5, <1>6, <2>1, Zenon
  <1> QED
    BY <1>6, <1>7, <1>8, <1>9

(* Strings of one length, joined. *)
LEMMA FlattenLength ==
  ASSUME NEW ss \in Strs, NEW k \in Nat, \A c \in 1 .. Len(ss) : Len(ss[c]) = k
  PROVE  Len(FlattenSeq(ss)) = k * Len(ss)
  <1> DEFINE n == Len(ss)
             T == {c \in 0 .. n : Len(JoinedUpTo(ss, c)) = k * c}
  <1>1. n \in Nat /\ \A c \in 1 .. n : ss[c] \in Str /\ Len(ss[c]) = k
    BY StringsOf
  <1> HIDE DEF n
  <1>2. /\ \A c \in 0 .. n : JoinedUpTo(ss, c) \in Str
        /\ JoinedUpTo(ss, 0) = <<>> /\ JoinedUpTo(ss, n) = FlattenSeq(ss)
        /\ \A c \in 0 .. n - 1 : JoinedUpTo(ss, c + 1) = JoinedUpTo(ss, c) \o ss[c + 1]
    BY JoinedSteps DEF n
  <1>3. 0 \in T
    BY <1>1, <1>2, EmptyStr
  <1>4. ASSUME NEW c \in 0 .. n - 1, c \in T PROVE c + 1 \in T
    <2>1. c \in 0 .. n /\ c + 1 \in 0 .. n /\ c + 1 \in 1 .. n
      BY <1>1
    <2> DEFINE a == JoinedUpTo(ss, c)
               b == ss[c + 1]
    <2>2. a \in Str /\ b \in Str /\ Len(b) = k /\ Len(a) = k * c
      BY <1>1, <1>2, <1>4, <2>1
    <2>3. JoinedUpTo(ss, c + 1) = a \o b
      BY <1>2
    <2> HIDE DEF a, b
    <2>4. Len(a \o b) = Len(a) + Len(b) /\ Len(a) \in Nat /\ Len(b) \in Nat
      BY <2>2, CatStr, LenNat
    <2>5. k * (c + 1) = k * c + k
      OBVIOUS
    <2>6. Len(a \o b) = k * (c + 1)
      BY <2>2, <2>4, <2>5
    <2> QED
      BY <2>1, <2>3, <2>6
  <1>5. 0 .. n \subseteq T
    <2> HIDE DEF T
    <2> QED
      BY <1>1, <1>3, <1>4, UpTo
  <1>6. n \in T
    BY <1>1, <1>5
  <1> QED
    BY <1>2, <1>6 DEF n

LEMMA VectorsLength ==
  ASSUME NEW ss, Writable(ss), NEW k \in Nat, \A c \in 1 .. Len(ss) : Len(ss[c]) = k
  PROVE  Len(Vectors(ss)) = 8 + (8 + k) * Len(ss)
  <1> DEFINE pp == Packed(ss)
             f  == FlattenSeq(pp)
  <1>1. ss \in Strs /\ Len(ss) \in Nat /\ Len(ss) < TooLarge /\ \A c \in 1 .. Len(ss) : ss[c] \in Str
    BY StringsOf DEF Writable
  <1>2. /\ pp \in Strs /\ Len(pp) = Len(ss)
        /\ \A c \in 1 .. Len(ss) : pp[c] = Vector(ss[c])
    BY <1>1, PackedTyped DEF Writable
  <1>3. \A c \in 1 .. Len(pp) : Len(pp[c]) = 8 + k
    <2> TAKE c \in 1 .. Len(pp)
    <2>1. ss[c] \in Str /\ Len(ss[c]) < TooLarge /\ Len(ss[c]) = k /\ pp[c] = Vector(ss[c])
      BY <1>1, <1>2 DEF Writable
    <2> QED
      BY <2>1, VectorStr
  <1>4. Len(f) = (8 + k) * Len(ss)
    <2>1. 8 + k \in Nat
      OBVIOUS
    <2> HIDE DEF pp
    <2> QED
      BY <1>2, <1>3, <2>1, FlattenLength
  <1>5. f \in Str /\ Vectors(ss) = LittleEndian(Len(ss), 8) \o f
    BY VectorsStr
  <1> HIDE DEF f
  <1>6. Len(LittleEndian(Len(ss), 8) \o f) = 8 + Len(f)
    BY <1>1, <1>5, NumberReadsBack
  <1> QED
    BY <1>4, <1>5, <1>6

-----------------------------------------------------------------------------
(* What is sent over a link. *)

LEMMA FieldStr ==
  ASSUME NEW name \in FieldNames, NEW k \in Nat, NEW len \in Nat
  PROVE  Field(name, k, len) \in Str /\ Len(Field(name, k, len)) = len
  BY FieldTyped DEF Strings, Str

(* The bound, in numbers. *)
LEMMA Bounds ==
  ASSUME NEW link \in Links
  PROVE  /\ link.payload \in Nat /\ MaxPathLength \in Nat /\ MaxPathLength # 0
         /\ link.role \in {"Hop", "Receiver", "Sender"}
         /\ link.lengths.n_forward = 1 /\ link.lengths.n_backward = MaxPathLength
         /\ Format!single_header_length = 116 /\ Format!TagBytes = 16
         /\ Format!PointBytes = 32 /\ Format!SYMMETRIC_KEY_LENGTH = 16
         /\ Format!ADDRESS_LENGTH = 32
         /\ Format!total_header_length = 8 + 124 * MaxPathLength
         /\ 248 * MaxPathLength + 2 * link.payload + 57 < TooLarge
         /\ 116 < TooLarge /\ TooLarge \in Nat
  <1>1. /\ link.payload \in PayloadLengths /\ link.role \in {"Hop", "Receiver", "Sender"}
        /\ link.lengths = [n_forward |-> 1, n_backward |-> MaxPathLength]
    BY DEF Links
  <1>2. link.payload \in Nat /\ MaxPathLength \in Nat /\ MaxPathLength # 0
    BY <1>1, WireAssumption
  <1>3. /\ Format!single_header_length = 116 /\ Format!TagBytes = 16
        /\ Format!PointBytes = 32 /\ Format!SYMMETRIC_KEY_LENGTH = 16
        /\ Format!ADDRESS_LENGTH = 32
    BY DEF Format!single_header_length, Format!TagBytes, Format!PointBytes,
           Format!SYMMETRIC_KEY_LENGTH, Format!ADDRESS_LENGTH
  <1>4. Format!total_header_length = 8 + MaxPathLength * 124
    BY <1>2, <1>3 DEF Format!total_header_length
  <1>5. 2 * (Format!total_header_length + link.payload) + 41 < TooLarge
    BY <1>1, LengthsAssumption
  <1> QED
    BY <1>1, <1>2, <1>3, <1>4, <1>5 DEF TooLarge

LEMMA NumberStr ==
  ASSUME NEW v \in Nat, v < TooLarge, NEW width \in Nat, width >= 3
  PROVE  /\ LittleEndian(v, width) \in Str /\ Len(LittleEndian(v, width)) = width
         /\ ReadLittleEndian(LittleEndian(v, width)) = v
  BY LittleEndianOfWidth DEF Str

LEMMA NextStr ==
  ASSUME NEW link \in Links
  PROVE  next(link) \in Str /\ Len(next(link)) = 32
  <1>1. CASE link.role # "Sender"
    <2>1. "next" \in FieldNames /\ 0 \in Nat /\ 32 \in Nat
      BY DEF FieldNames
    <2>2. next(link) = Field("next", 0, 32)
      BY <1>1, Bounds DEF next
    <2>3. Field("next", 0, 32) \in Str /\ Len(Field("next", 0, 32)) = 32
      BY <2>1, FieldStr, Zenon
    <2> QED
      BY <2>2, <2>3
  <1>2. CASE link.role = "Sender"
    <2> DEFINE a == LittleEndian(1, 8)
               b == LittleEndian(MaxPathLength, 8)
               c == LittleEndian(0, 16)
    <2>0. 8 \in Nat /\ 8 >= 3 /\ 16 \in Nat /\ 16 >= 3 /\ 0 \in Nat /\ 1 \in Nat
      OBVIOUS
    <2>1. MaxPathLength \in Nat /\ MaxPathLength < TooLarge /\ 1 < TooLarge /\ 0 < TooLarge
      BY Bounds
    <2>2. a \in Str /\ Len(a) = 8
      BY <2>0, <2>1, NumberStr, Zenon
    <2>3. b \in Str /\ Len(b) = 8
      BY <2>0, <2>1, NumberStr, Zenon
    <2>4. c \in Str /\ Len(c) = 16
      BY <2>0, <2>1, NumberStr, Zenon
    <2>5. next(link) = a \o b \o c
      <3>1. Format!ADDRESS_LENGTH - 16 = 16
        BY Bounds
      <3>2. link.lengths.n_forward = 1 /\ link.lengths.n_backward = MaxPathLength
        BY Bounds
      <3> QED
        BY <1>2, <3>1, <3>2, Zenon DEF next
    <2> HIDE DEF a, b, c
    <2>6. JoinedThree(a, b, c, c)
      BY <2>2, <2>3, <2>4, JoinThree
    <2>7. a \o b \o c \in Str /\ Len(a \o b \o c) = Len(a) + Len(b) + Len(c)
      BY <2>6 DEF JoinedThree
    <2> QED
      BY <2>2, <2>3, <2>4, <2>5, <2>7
  <1> QED
    BY <1>1, <1>2

LEMMA RoleNumbers ==
  ASSUME NEW role \in {"Hop", "Receiver", "Sender"}
  PROVE  RoleNumber(role) \in 0 .. 2 /\ Role[RoleNumber(role) + 1] = role
  <1>1. \E r \in 0 .. 2 : Role[r + 1] = role
    <2>1. Role[0 + 1] = "Sender" /\ Role[1 + 1] = "Receiver" /\ Role[2 + 1] = "Hop"
      BY DEF Role
    <2>2. 0 \in 0 .. 2 /\ 1 \in 0 .. 2 /\ 2 \in 0 .. 2
      OBVIOUS
    <2> QED
      BY <2>1, <2>2
  <1> HIDE DEF Role
  <1> QED
    BY <1>1 DEF RoleNumber

(* The meta of a hop is read as it was written. *)
LEMMA MetaReadsBack ==
  ASSUME NEW link \in Links
  PROVE  /\ PackMeta(link) \in Str /\ Len(PackMeta(link)) = 52
         /\ ReadMeta(PackMeta(link)) = Got([role |-> link.role, next |-> next(link)], <<>>)
  <1> DEFINE a == Field("key", 0, 16)
             r == RoleNumber(link.role)
             b == LittleEndian(r, 4)
             c == next(link)
  <1>1. a \in Str /\ Len(a) = 16
    <2>1. "key" \in FieldNames /\ 0 \in Nat /\ 16 \in Nat
      BY DEF FieldNames
    <2> QED
      BY <2>1, FieldStr, Zenon
  <1>2. r \in 0 .. 2 /\ Role[r + 1] = link.role
    BY Bounds, RoleNumbers
  <1>3. b \in Str /\ Len(b) = 4 /\ ReadLittleEndian(b) = r
    <2> HIDE DEF r
    <2>1. r \in Nat /\ r < TooLarge /\ 4 \in Nat /\ 4 >= 3
      BY <1>2 DEF TooLarge
    <2> QED
      BY <2>1, NumberStr, Zenon
  <1>4. c \in Str /\ Len(c) = 32
    BY NextStr
  <1>5. PackMeta(link) = a \o b \o c
    <2>1. Format!SYMMETRIC_KEY_LENGTH = 16
      BY Bounds
    <2> QED
      BY <2>1, Zenon DEF PackMeta
  <1> HIDE DEF a, b, c, r
  <1>6. JoinedThree(a, b, c, <<>>)
    BY <1>1, <1>3, <1>4, EmptyStr, JoinThree
  <1>7. /\ a \o b \o c \in Str /\ a \o b \o c \o <<>> = a \o (b \o (c \o <<>>))
        /\ b \o (c \o <<>>) \in Str
        /\ c \o <<>> \in Str
        /\ Len(a \o b \o c) = Len(a) + Len(b) + Len(c)
    BY <1>6 DEF JoinedThree
  <1> DEFINE p  == a \o b \o c
             s1 == b \o (c \o <<>>)
             s2 == c \o <<>>
  <1>8. p = a \o s1
    <2> HIDE DEF p, s1
    <2>1. p \o <<>> = p
      BY <1>7, EmptyStr DEF p
    <2>2. p \o <<>> = a \o s1
      BY <1>7 DEF p, s1
    <2> QED
      BY <2>1, <2>2
  <1>9. ReadBytes(16, a \o s1) = Got(a, s1)
    <2> HIDE DEF s1
    <2>1. s1 \in Str
      BY <1>7 DEF s1
    <2>2. ReadBytes(Len(a), a \o s1) = Got(a, s1)
      BY <1>1, <2>1, BytesReadBack
    <2> QED
      BY <1>1, <2>2
  <1>10. ReadBytes(4, s1) = Got(b, s2)
    <2> HIDE DEF s2
    <2>1. s2 \in Str
      BY <1>7 DEF s2
    <2>2. ReadBytes(Len(b), b \o s2) = Got(b, s2)
      BY <1>3, <2>1, BytesReadBack
    <2> QED
      BY <1>3, <2>2 DEF s2
  <1>11. ReadBytes(32, s2) = Got(c, <<>>)
    <2>1. ReadBytes(Len(c), c \o <<>>) = Got(c, <<>>)
      BY <1>4, EmptyStr, BytesReadBack
    <2> QED
      BY <1>4, <2>1
  <1>12. Len(p) = 52
    BY <1>1, <1>3, <1>4, <1>7
  <1> HIDE DEF p, s1, s2
  <1> DEFINE x1 == ReadBytes(16, p)
             x2 == ReadBytes(4, x1.rest)
             x3 == ReadBytes(32, x2.rest)
  <1>13. x1.ok /\ x1.rest = s1
    BY <1>8, <1>9 DEF Got
  <1>14. x2.ok /\ x2.value = b /\ x2.rest = s2
    BY <1>10, <1>13 DEF Got
  <1>15. x3.ok /\ x3.value = c /\ x3.rest = <<>>
    BY <1>11, <1>14 DEF Got
  <1>16. ReadMeta(p) =
           IF ~ x1.ok \/ ~ x2.ok \/ ~ x3.ok \/ ReadLittleEndian(x2.value) > 2 THEN Short
           ELSE Got([role |-> Role[ReadLittleEndian(x2.value) + 1], next |-> x3.value], x3.rest)
    <2>1. Format!SYMMETRIC_KEY_LENGTH = 16 /\ Format!ADDRESS_LENGTH = 32
      BY Bounds
    <2> QED
      BY <2>1, Zenon DEF ReadMeta
  <1> HIDE DEF x1, x2, x3
  <1>17. ~ (ReadLittleEndian(x2.value) > 2) /\ ReadLittleEndian(x2.value) = r
    BY <1>2, <1>3, <1>14
  <1>18. ReadMeta(p) = Got([role |-> link.role, next |-> c], <<>>)
    BY <1>2, <1>13, <1>14, <1>15, <1>16, <1>17
  <1> QED
    BY <1>5, <1>7, <1>12, <1>18 DEF p, c

LEMMA CipherTyped ==
  ASSUME NEW link \in Links
  PROVE  /\ ciphertext(link) \in Str /\ Len(ciphertext(link)) = 92
         /\ ciphertext(link) = asymmetric_encrypt(PackMeta(link))
         /\ Field("point", 0, 32) \in Str /\ Len(Field("point", 0, 32)) = 32
         /\ Field("sealed", 0, 52) \in Str /\ Len(Field("sealed", 0, 52)) = 52
         /\ ciphertext(link) = Field("point", 0, 32) \o Vector(Field("sealed", 0, 52))
  <1> DEFINE a == Field("point", 0, 32)
             b == Field("sealed", 0, 52)
             c == ciphertext(link)
  <1>1. /\ "point" \in FieldNames /\ "sealed" \in FieldNames
        /\ 0 \in Nat /\ 32 \in Nat /\ 52 \in Nat
    BY DEF FieldNames
  <1>2. a \in Str /\ Len(a) = 32
    BY <1>1, FieldStr, Zenon
  <1>3. b \in Str /\ Len(b) = 52
    BY <1>1, FieldStr, Zenon
  <1>4. c = asymmetric_encrypt(PackMeta(link)) /\ c = a \o Vector(b)
    <2>1. Len(PackMeta(link)) = 52 /\ Format!PointBytes = 32
      <3>1. Len(PackMeta(link)) = 52
        BY MetaReadsBack
      <3>2. Format!PointBytes = 32
        BY Bounds
      <3> QED
        BY <3>1, <3>2
    <2> QED
      BY <2>1, Zenon DEF ciphertext, asymmetric_encrypt
  <1> HIDE DEF a, b, c
  <1>5. Vector(b) \in Str /\ Len(Vector(b)) = 60
    <2>1. Len(b) < TooLarge
      BY <1>3 DEF TooLarge
    <2>2. Vector(b) \in Str /\ Len(Vector(b)) = 8 + Len(b)
      BY <1>3, <2>1, VectorStr
    <2> QED
      BY <1>3, <2>2
  <1>6. c \in Str /\ Len(c) = 92
    <2> DEFINE v == Vector(b)
    <2>1. v \in Str /\ Len(v) = 60 /\ c = a \o v
      BY <1>4, <1>5
    <2> HIDE DEF v
    <2>2. a \o v \in Str /\ Len(a \o v) = Len(a) + Len(v)
      <3>1. a \in Str /\ v \in Str
        BY <1>2, <2>1
      <3> QED
        BY <3>1, CatStr
    <2> QED
      BY <1>2, <2>1, <2>2
  <1> QED
    BY <1>2, <1>3, <1>4, <1>6 DEF a, b, c

(* Who is sent a ciphertext has what was encrypted.                        *)
LEMMA Decrypted ==
  ASSUME NEW link \in Links
  PROVE  asymmetric_decrypt(PackMeta(link), ciphertext(link)) = Got(PackMeta(link), <<>>)
  <1> DEFINE a == Field("point", 0, 32)
             b == Field("sealed", 0, 52)
             c == ciphertext(link)
             p == PackMeta(link)
  <1>1. /\ a \in Str /\ Len(a) = 32 /\ b \in Str /\ Len(b) = 52
        /\ c = a \o Vector(b) /\ c = asymmetric_encrypt(p)
    BY CipherTyped
  <1> HIDE DEF a, b, c, p
  <1>2. Len(b) < TooLarge
    BY <1>1 DEF TooLarge
  <1>3. Vector(b) \in Str /\ Vector(b) \o <<>> = Vector(b)
    BY <1>1, <1>2, VectorStr, EmptyStr
  <1>4. ReadBytes(32, c) = Got(a, Vector(b))
    <2>1. ReadBytes(Len(a), a \o Vector(b)) = Got(a, Vector(b))
      BY <1>1, <1>3, BytesReadBack
    <2> QED
      BY <1>1, <2>1
  <1>5. ReadVector(Vector(b)) = Got(b, <<>>)
    <2>1. ReadVector(Vector(b) \o <<>>) = Got(b, <<>>)
      BY <1>1, <1>2, EmptyStr, VectorReadsBack
    <2> QED
      BY <1>3, <2>1
  <1> DEFINE x1 == ReadBytes(32, c)
             x2 == ReadVector(x1.rest)
  <1>6. x1.ok /\ x1.value = a /\ x1.rest = Vector(b)
    BY <1>4 DEF Got
  <1>7. x2.ok /\ x2.value = b
    BY <1>5, <1>6 DEF Got
  <1>8. asymmetric_decrypt(p, c) =
          IF ~ x1.ok \/ ~ x2.ok
          THEN IF Len(c) < 32 + 8 THEN ShortCiphertext ELSE Got(Garbage, <<>>)
          ELSE Got(IF x1.value \o Vector(x2.value) = asymmetric_encrypt(p)
                   THEN p ELSE Garbage, <<>>)
    <2>1. Format!PointBytes = 32
      BY Bounds
    <2> QED
      BY <2>1, Zenon DEF asymmetric_decrypt
  <1> HIDE DEF x1, x2
  <1>9. asymmetric_decrypt(p, c) = Got(p, <<>>)
    BY <1>1, <1>6, <1>7, <1>8
  <1> QED
    BY <1>9 DEF p, c

LEMMA HeaderBlockStr ==
  ASSUME NEW t \in Str, NEW d \in Str, Len(d) < TooLarge
  PROVE  /\ HeaderBlock(t, d) \in Str /\ Len(HeaderBlock(t, d)) = Len(t) + 8 + Len(d)
         /\ Vector(d) \in Str
  <1>1. Vector(d) \in Str /\ Len(Vector(d)) = 8 + Len(d)
    BY VectorStr
  <1> DEFINE v == Vector(d)
  <1> HIDE DEF v
  <1>2. t \o v \in Str /\ Len(t \o v) = Len(t) + Len(v)
    BY <1>1, CatStr DEF v
  <1> QED
    BY <1>1, <1>2, LenNat DEF HeaderBlock, v

UnpacksTo(c, t, d) == unpack(c) = [ok |-> TRUE, tag |-> t, data |-> d]

LEMMA UnpackGot ==
  ASSUME NEW c, NEW t, NEW d, NEW r1, NEW r2,
         ReadBytes(16, c) = Got(t, r1), ReadVector(r1) = Got(d, r2)
  PROVE  UnpacksTo(c, t, d)
  <1> DEFINE x1 == ReadBytes(16, c)
             x2 == ReadVector(x1.rest)
  <1>1. x1.ok /\ x1.value = t /\ x1.rest = r1
    BY DEF Got
  <1>2. x2.ok /\ x2.value = d
    BY <1>1 DEF Got
  <1>3. unpack(c) = IF ~ x1.ok \/ ~ x2.ok THEN Err("SerializationError")
                    ELSE [ok |-> TRUE, tag |-> x1.value, data |-> x2.value]
    BY DEF unpack, Format!TagBytes
  <1> HIDE DEF x1, x2
  <1> QED
    BY <1>1, <1>2, <1>3 DEF UnpacksTo

(* A block is unpacked as it was made, whatever the cell has behind it.    *)
LEMMA UnpackReadsBack ==
  ASSUME NEW t \in Str, Len(t) = 16, NEW d \in Str, Len(d) < TooLarge, NEW r \in Str
  PROVE  UnpacksTo(HeaderBlock(t, d) \o r, t, d)
  <1> DEFINE v == Vector(d)
             c == HeaderBlock(t, d) \o r
             w == v \o r
  <1>1. v \in Str
    BY VectorStr
  <1>2. ReadVector(w) = Got(d, r)
    BY VectorReadsBack
  <1>3. HeaderBlock(t, d) = t \o v
    BY DEF HeaderBlock
  <1> HIDE DEF v
  <1>4. w \in Str
    BY <1>1, CatStr
  <1>5. Assoc(t, v, r)
    BY <1>1, AssocOf
  <1>6. c = t \o w
    BY <1>3, <1>5 DEF Assoc
  <1> HIDE DEF c, w
  <1>7. ReadBytes(Len(t), t \o w) = Got(t, w)
    BY <1>4, BytesReadBack
  <1>8. ReadBytes(16, c) = Got(t, w)
    BY <1>6, <1>7
  <1>9. UnpacksTo(c, t, d)
    BY <1>2, <1>8, UnpackGot
  <1> QED
    BY <1>9 DEF c

(* A cell that a block is unpacked from begins with that block.            *)
LEMMA UnpackStood ==
  ASSUME NEW c \in Str, Len(c) < TooLarge, unpack(c).ok
  PROVE  \E t \in Str, d \in Str, r \in Str :
           /\ Len(t) = 16 /\ Len(d) < TooLarge
           /\ UnpacksTo(c, t, d) /\ HeaderBlock(t, d) \o r = c
  <1> DEFINE x1 == ReadBytes(16, c)
             x2 == ReadVector(x1.rest)
  <1>1. x1.ok /\ x2.ok
    <2>1. unpack(c) = IF ~ x1.ok \/ ~ x2.ok THEN Err("SerializationError")
                      ELSE [ok |-> TRUE, tag |-> x1.value, data |-> x2.value]
      BY DEF unpack, Format!TagBytes
    <2>2. ~ Err("SerializationError").ok
      BY DEF Err
    <2> HIDE DEF x1, x2
    <2> QED
      BY <2>1, <2>2
  <1> DEFINE t == x1.value  w == x1.rest
  <1>2. /\ t \in Str /\ w \in Str /\ t \o w = c /\ Len(t) = 16 /\ x1 = Got(t, w)
    <2>1. 16 \in Nat
      OBVIOUS
    <2>2. ReadBytes(16, c).ok
      BY <1>1
    <2>3. Stood(x1, c) /\ Len(x1.value) = 16 /\ x1 = Got(x1.value, x1.rest)
      BY <2>1, <2>2, BytesStood
    <2> QED
      BY <2>3 DEF Stood
  <1>3. Len(w) < TooLarge
    <2> HIDE DEF t, w
    <2>1. Len(c) = Len(t) + Len(w) /\ Len(t) \in Nat /\ Len(w) \in Nat
      BY <1>2, CatStr, LenNat, Zenon
    <2> QED
      BY <2>1 DEF TooLarge
  <1> DEFINE d == x2.value  r == x2.rest
  <1>4. /\ d \in Str /\ r \in Str /\ Vector(d) \o r = w /\ Len(d) < TooLarge
        /\ x2 = Got(d, r)
    <2>1. ReadVector(w).ok
      BY <1>1
    <2> HIDE DEF w
    <2> QED
      BY <1>2, <1>3, <2>1, VectorStood DEF w
  <1>5. UnpacksTo(c, t, d)
    <2>1. ReadBytes(16, c) = Got(t, w)
      BY <1>2
    <2>2. ReadVector(w) = Got(d, r)
      BY <1>4
    <2> HIDE DEF t, w, d, r
    <2> QED
      BY <2>1, <2>2, UnpackGot
  <1> HIDE DEF t, w, d, r
  <1>6. HeaderBlock(t, d) \o r = c
    <2>1. Vector(d) \in Str
      BY <1>4, VectorStr
    <2>2. Assoc(t, Vector(d), r)
      BY <1>2, <1>4, <2>1, AssocOf
    <2>3. (t \o Vector(d)) \o r = t \o (Vector(d) \o r)
      BY <2>2 DEF Assoc
    <2> QED
      BY <1>2, <1>4, <2>3, Zenon DEF HeaderBlock
  <1> QED
    BY <1>2, <1>4, <1>5, <1>6

SentHeader(link) ==
  <<HeaderBlock(Field("tag", 0, Format!TagBytes), ciphertext(link))>>
    \o [c \in 1 .. MaxPathLength - 1 |-> Cell("cell", c + 1)]

SentForward(link) == Field("forward", 0, ForwardLength(link))
SentVec(link)     == Field("backward", 0, link.payload)
SentTag           == Field("backwardTag", 0, Format!TagBytes)

LEMMA SentIs ==
  \A link : Sent(link) = OnionOf(SentHeader(link), SentForward(link), SentVec(link), SentTag)
  BY Zenon DEF Sent, OnionOf, SentHeader, SentForward, SentVec, SentTag

LEMMA CellStr ==
  ASSUME NEW name \in {"cell", "reply"}, NEW c \in Nat
  PROVE  Cell(name, c) \in Str /\ Len(Cell(name, c)) = 116
  <1>1. 116 \in Nat /\ Format!single_header_length = 116
    BY DEF Format!single_header_length, Format!SYMMETRIC_KEY_LENGTH, Format!ADDRESS_LENGTH
  <1>2. name \in FieldNames
    BY Zenon DEF FieldNames
  <1> DEFINE k == 116
  <1>0. k \in Nat
    BY <1>1
  <1> HIDE DEF k
  <1>3. Field(name, c, k) \in Str /\ Len(Field(name, c, k)) = k
    BY <1>0, <1>2, FieldStr, Zenon
  <1> QED
    BY <1>1, <1>3 DEF Cell, k

LEMMA SentBlock ==
  ASSUME NEW link \in Links
  PROVE  LET t == Field("tag", 0, Format!TagBytes)
         IN  /\ t \in Str /\ Len(t) = 16
             /\ HeaderBlock(t, ciphertext(link)) \in Str
             /\ Len(HeaderBlock(t, ciphertext(link))) = 116
  <1> DEFINE t == Field("tag", 0, Format!TagBytes)
             c == ciphertext(link)
  <1>1. t \in Str /\ Len(t) = 16
    <2>1. "tag" \in FieldNames /\ 0 \in Nat /\ Format!TagBytes \in Nat
      BY DEF FieldNames, Format!TagBytes
    <2>2. t \in Str /\ Len(t) = Format!TagBytes
      BY <2>1, FieldStr, Zenon
    <2> QED
      BY <2>2 DEF Format!TagBytes
  <1>2. c \in Str /\ Len(c) = 92
    BY CipherTyped
  <1> HIDE DEF t, c
  <1>3. Len(c) < TooLarge
    BY <1>2 DEF TooLarge
  <1>4. HeaderBlock(t, c) \in Str /\ Len(HeaderBlock(t, c)) = Len(t) + 8 + Len(c)
    <2>1. t \in Str /\ c \in Str /\ Len(c) < TooLarge
      BY <1>1, <1>2, <1>3
    <2> QED
      BY <2>1, HeaderBlockStr, Zenon
  <1> QED
    <2>1. Len(HeaderBlock(t, c)) = 116
      BY <1>1, <1>2, <1>4
    <2> QED
      BY <1>1, <1>4, <2>1, Zenon DEF t, c

(* The header that is sent: as many cells as the longest path has nodes,   *)
(* all of one length.                                                      *)
LEMMA SentHeaderTyped ==
  ASSUME NEW link \in Links
  PROVE  LET h == SentHeader(link)
         IN  /\ Writable(h) /\ Len(h) = MaxPathLength
             /\ \A c \in 1 .. Len(h) : Len(h[c]) = 116
             /\ h[1] = HeaderBlock(Field("tag", 0, Format!TagBytes), ciphertext(link))
             /\ Writable(Tail(h)) /\ h # <<>>
  <1> DEFINE b  == HeaderBlock(Field("tag", 0, Format!TagBytes), ciphertext(link))
             cs == [c \in 1 .. MaxPathLength - 1 |-> Cell("cell", c + 1)]
             h  == SentHeader(link)
             n  == MaxPathLength
  <1>1. b \in Str /\ Len(b) = 116
    BY SentBlock
  <1>2. n \in Nat /\ n # 0 /\ n < TooLarge /\ 116 < TooLarge
    BY Bounds
  <1>3. \A c \in 1 .. n - 1 : Cell("cell", c + 1) \in Str /\ Len(Cell("cell", c + 1)) = 116
    <2> TAKE c \in 1 .. n - 1
    <2>1. c + 1 \in Nat
      BY <1>2
    <2> QED
      BY <2>1, CellStr
  <1>4. /\ cs \in Seq(Str) /\ Len(cs) = n - 1
        /\ \A c \in 1 .. n - 1 : cs[c] \in Str /\ Len(cs[c]) = 116
    <2> DEFINE f(c) == Cell("cell", c + 1)
    <2>1. \A c \in 1 .. n - 1 : f(c) \in Str /\ Len(f(c)) = 116
      BY <1>3
    <2>2. cs = [c \in 1 .. n - 1 |-> f(c)]
      OBVIOUS
    <2> HIDE DEF f, cs
    <2> QED
      BY <1>2, <2>1, <2>2
  <1>5. h = <<b>> \o cs
    BY DEF SentHeader
  <1> HIDE DEF b, cs, h, n
  <1>6. /\ h \in Seq(Str) /\ Len(h) = n /\ h[1] = b
        /\ \A c \in 2 .. n : h[c] = cs[c - 1]
        /\ Tail(h) = cs
    <2>1. <<b>> \in Seq(Str) /\ Len(<<b>>) = 1
      BY <1>1
    <2>2. h \in Seq(Str) /\ Len(h) = n
      BY <1>2, <1>4, <1>5, <2>1
    <2>3. h[1] = b /\ \A c \in 2 .. n : h[c] = cs[c - 1]
      BY <1>2, <1>4, <1>5, <2>1
    <2>4. Tail(h) = cs
      BY <1>1, <1>4, <1>5
    <2> QED
      BY <2>2, <2>3, <2>4
  <1>7. \A c \in 1 .. n : Len(h[c]) = 116
    <2> TAKE c \in 1 .. n
    <2>1. CASE c = 1
      BY <1>1, <1>6, <2>1
    <2>2. CASE c # 1
      <3>1. c \in 2 .. n /\ c - 1 \in 1 .. n - 1
        BY <1>2, <2>2
      <3> QED
        BY <1>4, <1>6, <3>1
    <2> QED
      BY <2>1, <2>2
  <1>8. Writable(h)
    BY <1>2, <1>6, <1>7 DEF Writable, Strs
  <1>9. Writable(Tail(h))
    <2>1. n - 1 < TooLarge
      BY <1>2 DEF TooLarge
    <2> QED
      BY <1>2, <1>4, <1>6, <2>1 DEF Writable, Strs
  <1>10. h # <<>>
    BY <1>2, <1>6
  <1> QED
    BY <1>6, <1>7, <1>8, <1>9, <1>10 DEF b, h, n

(* What the forward section is in plain, and how long it is.               *)
LEMMA MessageLength ==
  ASSUME NEW link \in Links
  PROVE  /\ Len(Message(link)) = 16 + 124 * MaxPathLength + link.payload
         /\ \E cs, p : /\ Writable(cs) /\ p \in Str /\ Len(p) < TooLarge
                       /\ Message(link) = Vectors(cs) \o Vector(p)
  <1> DEFINE n  == MaxPathLength
             cs == [c \in 1 .. MaxPathLength |-> Cell("reply", c)]
             p  == Field("payload", 0, link.payload)
             a  == Vectors(cs)
             b  == Vector(p)
  <1>1. n \in Nat /\ n < TooLarge /\ 116 < TooLarge /\ link.payload \in Nat
        /\ link.payload < TooLarge
    BY Bounds
  <1>2. cs \in Seq(Str) /\ Len(cs) = n /\ \A c \in 1 .. n : Len(cs[c]) = 116
    <2> DEFINE f(c) == Cell("reply", c)
    <2>1. \A c \in 1 .. n : f(c) \in Str /\ Len(f(c)) = 116
      BY <1>1, CellStr
    <2>2. cs = [c \in 1 .. n |-> f(c)]
      OBVIOUS
    <2> HIDE DEF f, cs
    <2> QED
      BY <1>1, <2>1, <2>2
  <1> HIDE DEF cs, n
  <1>3. Writable(cs)
    BY <1>1, <1>2 DEF Writable, Strs
  <1>4. a \in Str /\ Len(a) = 8 + 124 * n
    <2>1. a \in Str
      BY <1>3, VectorsStr
    <2>2. 116 \in Nat /\ \A c \in 1 .. Len(cs) : Len(cs[c]) = 116
      BY <1>2
    <2>3. Len(a) = 8 + (8 + 116) * Len(cs)
      BY <1>3, <2>2, VectorsLength
    <2> HIDE DEF a
    <2> QED
      BY <1>1, <1>2, <2>1, <2>3
  <1>5. p \in Str /\ Len(p) = link.payload
    <2>1. "payload" \in FieldNames /\ 0 \in Nat
      BY DEF FieldNames
    <2> QED
      BY <1>1, <2>1, FieldStr, Zenon
  <1> HIDE DEF a, p
  <1>6. b \in Str /\ Len(b) = 8 + link.payload
    <2>1. Len(p) < TooLarge
      BY <1>1, <1>5
    <2>2. Vector(p) \in Str /\ Len(Vector(p)) = 8 + Len(p)
      BY <1>5, <2>1, VectorStr
    <2> QED
      BY <1>5, <2>2
  <1>7. Message(link) = a \o b
    BY Zenon DEF Message, a, b, cs, p
  <1> HIDE DEF b
  <1>8. Len(a \o b) = Len(a) + Len(b)
    BY <1>4, <1>6, CatStr
  <1>9. Len(Message(link)) = 16 + 124 * n + link.payload
    BY <1>1, <1>4, <1>6, <1>7, <1>8
  <1>10. Writable(cs) /\ p \in Str /\ Len(p) < TooLarge /\ Message(link) = Vectors(cs) \o Vector(p)
    BY <1>1, <1>3, <1>5, <1>7 DEF a, b
  <1> QED
    BY <1>9, <1>10 DEF n

(* Who decrypts the forward section can take the header of the reply and   *)
(* the payload apart.                                                      *)
LEMMA MessageIsRead ==
  ASSUME NEW link \in Links
  PROVE  split_reply_header(Message(link)).ok
  <1>1. PICK cs, p : /\ Writable(cs) /\ p \in Str /\ Len(p) < TooLarge
                     /\ Message(link) = Vectors(cs) \o Vector(p)
    BY MessageLength
  <1> DEFINE m  == Message(link)
             b  == Vector(p)
             x1 == ReadVectors(m)
             x2 == ReadVector(x1.rest)
  <1>2. b \in Str /\ b \o <<>> = b /\ <<>> \in Str
    BY <1>1, VectorStr, EmptyStr
  <1>3. ReadVector(b) = Got(p, <<>>)
    <2>1. ReadVector(Vector(p) \o <<>>) = Got(p, <<>>)
      BY <1>1, <1>2, VectorReadsBack
    <2> QED
      BY <1>2, <2>1
  <1>4. x1 = Got(cs, b)
    <2> HIDE DEF b
    <2>1. ReadVectors(Vectors(cs) \o b) = Got(cs, b)
      BY <1>1, <1>2, VectorsReadBack
    <2> QED
      BY <1>1, <2>1 DEF b
  <1>5. x1.ok /\ x2.ok
    BY <1>3, <1>4 DEF Got
  <1>6. split_reply_header(m)
          = IF ~ x1.ok \/ ~ x2.ok THEN Err("SerializationError")
            ELSE [ok |-> TRUE, header |-> x1.value, payload |-> x2.value]
    BY Zenon DEF split_reply_header
  <1> HIDE DEF m, x1, x2
  <1>7. split_reply_header(m).ok
    BY <1>5, <1>6
  <1> QED
    BY <1>7 DEF m

LEMMA ForwardIs ==
  ASSUME NEW link \in Links
  PROVE  ForwardLength(link) = 16 + 124 * MaxPathLength + link.payload
  <1>1. Format!total_header_length = 8 + 124 * MaxPathLength
        /\ link.payload \in Nat /\ MaxPathLength \in Nat
    BY Bounds
  <1>2. Len(Message(link)) = 16 + 124 * MaxPathLength + link.payload
    BY MessageLength
  <1>3. Format!total_header_length + 8 + link.payload = 16 + 124 * MaxPathLength + link.payload
    BY <1>1
  <1> QED
    BY <1>2, <1>3 DEF ForwardLength

(* The size of an onion, as a line of the size table has it. *)
SizeIs(link) == Len(serialize(Sent(link))) = 2 * (124 * MaxPathLength + link.payload) + 56

(* What is sent can be written, and its length is known, and below the     *)
(* bound.                                                                  *)
LEMMA SentMeasured ==
  ASSUME NEW link \in Links
  PROVE  /\ Parted(SentHeader(link), SentForward(link), SentVec(link), SentTag)
         /\ serialize(Sent(link)) \in Str
         /\ Len(serialize(Sent(link))) + 1 < TooLarge
         /\ SizeIs(link)
  <1> DEFINE n == MaxPathLength
             p == link.payload
             h == SentHeader(link)
             f == SentForward(link)
             v == SentVec(link)
             g == SentTag
  <1>1. /\ n \in Nat /\ p \in Nat /\ 248 * n + 2 * p + 57 < TooLarge /\ TooLarge \in Nat
    BY Bounds
  <1>2. /\ Writable(h) /\ Len(h) = n /\ \A c \in 1 .. Len(h) : Len(h[c]) = 116
    BY SentHeaderTyped
  <1>3. Len(Vectors(h)) = 8 + 124 * n /\ Vectors(h) \in Str
    <2> HIDE DEF h
    <2>1. Vectors(h) \in Str
      BY <1>2, VectorsStr
    <2>2. 116 \in Nat
      OBVIOUS
    <2>3. Len(Vectors(h)) = 8 + (8 + 116) * Len(h)
      BY <1>2, <2>2, VectorsLength
    <2> QED
      BY <1>1, <1>2, <2>1, <2>3
  <1>4. 0 \in Nat /\ ForwardLength(link) \in Nat /\ ForwardLength(link) = 16 + 124 * n + p
    BY <1>1, ForwardIs
  <1>5. f \in Str /\ Len(f) = 16 + 124 * n + p
    <2>1. "forward" \in FieldNames
      BY DEF FieldNames
    <2>2. f \in Str /\ Len(f) = ForwardLength(link)
      BY <1>4, <2>1, FieldStr, Zenon DEF SentForward
    <2> QED
      BY <1>4, <2>2
  <1>6. v \in Str /\ Len(v) = p
    <2>1. "backward" \in FieldNames
      BY DEF FieldNames
    <2> QED
      BY <1>1, <1>4, <2>1, FieldStr, Zenon DEF SentVec
  <1>7. g \in Str /\ Len(g) = 16 /\ Format!TagBytes = 16
    <2>1. "backwardTag" \in FieldNames
      BY DEF FieldNames
    <2>2. Format!TagBytes \in Nat /\ Format!TagBytes = 16
      BY DEF Format!TagBytes
    <2>3. g \in Str /\ Len(g) = Format!TagBytes
      BY <1>4, <2>1, <2>2, FieldStr, Zenon DEF SentTag
    <2> QED
      BY <2>2, <2>3
  <1> HIDE DEF n, p, h, f, v, g
  <1>8. Len(f) < TooLarge /\ Len(v) < TooLarge
    BY <1>1, <1>5, <1>6
  <1>9. Parted(h, f, v, g)
    BY <1>2, <1>5, <1>6, <1>7, <1>8 DEF Parted
  <1> DEFINE a == Vectors(h)
             b == Vector(f)
             c == Vector(v)
  <1>10. a \in Str /\ Len(a) = 8 + 124 * n
    BY <1>3
  <1>11. b \in Str /\ Len(b) = 8 + Len(f)
    BY <1>5, <1>8, VectorStr
  <1>12. c \in Str /\ Len(c) = 8 + Len(v)
    BY <1>6, <1>8, VectorStr
  <1>13. serialize(OnionOf(h, f, v, g)) = a \o b \o c \o g
    BY Zenon DEF serialize, OnionOf
  <1> HIDE DEF a, b, c
  <1>14. JoinedFour(a, b, c, g, g)
    BY <1>7, <1>10, <1>11, <1>12, JoinFour
  <1>15. /\ a \o b \o c \o g \in Str
         /\ Len(a \o b \o c \o g) = Len(a) + Len(b) + Len(c) + Len(g)
    BY <1>14 DEF JoinedFour
  <1>16. Len(a) + Len(b) + Len(c) + Len(g) + 1 = 248 * n + 2 * p + 57
    BY <1>1, <1>5, <1>6, <1>7, <1>10, <1>11, <1>12
  <1>17. Len(a \o b \o c \o g) + 1 < TooLarge
    BY <1>1, <1>15, <1>16
  <1>18. Sent(link) = OnionOf(h, f, v, g)
    BY SentIs DEF h, f, v, g
  <1>19. Len(a \o b \o c \o g) = 2 * (124 * n + p) + 56
    BY <1>1, <1>5, <1>6, <1>7, <1>10, <1>11, <1>12, <1>15
  <1>20. SizeIs(link)
    BY <1>13, <1>18, <1>19 DEF SizeIs, n, p
  <1> QED
    BY <1>9, <1>13, <1>15, <1>17, <1>18, <1>20 DEF h, f, v, g

LEMMA SentParted ==
  ASSUME NEW link \in Links
  PROVE  /\ Parted(SentHeader(link), SentForward(link), SentVec(link), SentTag)
         /\ serialize(Sent(link)) \in Str
         /\ Len(serialize(Sent(link))) + 1 < TooLarge
  BY SentMeasured

-----------------------------------------------------------------------------
(* What the node does. *)

(* What the MAC is computed over. *)
Covered(d, cs, f) ==
  d \in Str /\ Len(d) < TooLarge /\ Writable(cs) /\ f \in Str /\ Len(f) < TooLarge

(* The input of the MAC tells its parts apart. *)
LEMMA MacInputsDiffer ==
  ASSUME NEW d, NEW cs, NEW f, Covered(d, cs, f),
         NEW d2, NEW cs2, NEW f2, Covered(d2, cs2, f2),
         MacInput(d, cs, f) = MacInput(d2, cs2, f2)
  PROVE  d = d2 /\ cs = cs2 /\ f = f2
  <1>1. ASSUME NEW x \in Str, Len(x) < TooLarge, NEW xs, Writable(xs), NEW y \in Str,
               Len(y) < TooLarge
        PROVE  \E r1 \in Str, r2 \in Str :
                 /\ ReadVector(MacInput(x, xs, y)) = Got(x, r1)
                 /\ ReadVectors(r1) = Got(xs, r2)
                 /\ ReadVector(r2) = Got(y, <<>>)
    <2> DEFINE a  == Vector(x)
               b  == Vectors(xs)
               c  == Vector(y)
               r2 == c \o <<>>
               r1 == b \o r2
               m  == MacInput(x, xs, y)
    <2>1. a \in Str /\ c \in Str
      BY <1>1, VectorStr
    <2>2. b \in Str
      BY <1>1, VectorsStr
    <2>3. m = a \o b \o c
      BY Zenon DEF MacInput
    <2> HIDE DEF a, b, c, m
    <2>4. JoinedThree(a, b, c, <<>>)
      BY <2>1, <2>2, EmptyStr, JoinThree
    <2>5. m \in Str /\ m \o <<>> = a \o r1 /\ r1 \in Str /\ r2 \in Str
      BY <2>3, <2>4, Zenon DEF JoinedThree
    <2> HIDE DEF r1, r2
    <2>6. m = a \o r1
      BY <2>5, EmptyStr
    <2>7. ReadVector(a \o r1) = Got(x, r1)
      BY <1>1, <2>5, VectorReadsBack DEF a
    <2>8. ReadVectors(b \o r2) = Got(xs, r2)
      BY <1>1, <2>5, VectorsReadBack DEF b
    <2>9. ReadVector(c \o <<>>) = Got(y, <<>>)
      BY <1>1, EmptyStr, VectorReadsBack DEF c
    <2>10. /\ ReadVector(m) = Got(x, r1) /\ ReadVectors(r1) = Got(xs, r2)
           /\ ReadVector(r2) = Got(y, <<>>)
      BY <2>6, <2>7, <2>8, <2>9 DEF r1, r2
    <2> QED
      BY <2>5, <2>10 DEF m
  <1> DEFINE m == MacInput(d, cs, f)
  <1>2. PICK r1 \in Str, r2 \in Str :
               /\ ReadVector(m) = Got(d, r1) /\ ReadVectors(r1) = Got(cs, r2)
               /\ ReadVector(r2) = Got(f, <<>>)
    BY <1>1 DEF Covered
  <1>3. PICK s1 \in Str, s2 \in Str :
               /\ ReadVector(MacInput(d2, cs2, f2)) = Got(d2, s1)
               /\ ReadVectors(s1) = Got(cs2, s2) /\ ReadVector(s2) = Got(f2, <<>>)
    BY <1>1 DEF Covered
  <1> HIDE DEF m
  <1>4. Got(d, r1) = Got(d2, s1)
    BY <1>2, <1>3 DEF m
  <1>5. d = d2 /\ r1 = s1
    BY <1>4 DEF Got
  <1>6. Got(cs, r2) = Got(cs2, s2)
    BY <1>2, <1>3, <1>5
  <1>7. cs = cs2 /\ r2 = s2
    BY <1>6 DEF Got
  <1>8. Got(f, <<>>) = Got(f2, <<>>)
    BY <1>2, <1>3, <1>7
  <1>9. f = f2
    BY <1>8 DEF Got
  <1> QED
    BY <1>5, <1>7, <1>9

(* The tag of what was not sent is none that was written.                  *)
LEMMA OtherTagIsNoString ==
  ASSUME NEW t \in Str
  PROVE  t # Field("otherTag", 0, Format!TagBytes)
  <1> SUFFICES ASSUME t = Field("otherTag", 0, Format!TagBytes) PROVE FALSE
    OBVIOUS
  <1>1. t = [i \in 1 .. 16 |-> <<"otherTag", 0, i>>]
    BY DEF Field, Format!TagBytes
  <1>2. t \in Seq(Byte)
    BY DEF Str
  <1>3. DOMAIN t = 1 .. 16 /\ t[1] = <<"otherTag", 0, 1>>
    BY <1>1
  <1>4. \A i \in DOMAIN t : t[i] \in Byte
    BY <1>2
  <1>5. 1 \in 1 .. 16
    OBVIOUS
  <1>6. <<"otherTag", 0, 1>> \in Byte
    BY <1>3, <1>4, <1>5
  <1>7. <<"otherTag", 0, 1>> \notin FieldNames \X Nat \X Nat
    <2>1. "otherTag" \notin FieldNames
      BY DEF FieldNames
    <2> QED
      BY <2>1
  <1>8. \A v : <<"otherTag", 0, 1>> # NumberByte(v)
    BY DEF NumberByte
  <1> QED
    BY <1>6, <1>7, <1>8 DEF Byte

LEMMA TailWritable ==
  ASSUME NEW h, Writable(h), h # <<>>
  PROVE  /\ Writable(Tail(h)) /\ h[1] \in Str /\ Len(h[1]) < TooLarge /\ Len(h) >= 1
         /\ h = <<h[1]>> \o Tail(h)
  <1>1. h \in Seq(Str) /\ Len(h) < TooLarge /\ \A c \in 1 .. Len(h) : Len(h[c]) < TooLarge
    BY DEF Writable, Strs
  <1>2. Len(h) \in Nat /\ Len(h) # 0
    BY <1>1
  <1>3. Tail(h) \in Seq(Str) /\ Len(Tail(h)) = Len(h) - 1
    BY <1>1, <1>2
  <1>4. \A c \in 1 .. Len(h) - 1 : Tail(h)[c] = h[c + 1]
    BY <1>1, <1>2
  <1>5. \A c \in 1 .. Len(Tail(h)) : Len(Tail(h)[c]) < TooLarge
    <2> TAKE c \in 1 .. Len(Tail(h))
    <2>1. c \in 1 .. Len(h) - 1 /\ c + 1 \in 1 .. Len(h)
      BY <1>2, <1>3
    <2> QED
      BY <1>1, <1>4, <2>1
  <1>6. Len(Tail(h)) < TooLarge
    BY <1>1, <1>2, <1>3 DEF TooLarge
  <1>7. 1 \in 1 .. Len(h)
    BY <1>2
  <1>8. h[1] \in Str /\ Len(h[1]) < TooLarge
    BY <1>1, <1>7
  <1>9. h = <<h[1]>> \o Tail(h)
    BY <1>1, <1>2
  <1> QED
    BY <1>2, <1>3, <1>5, <1>6, <1>8, <1>9 DEF Writable, Strs

LEMMA DecryptGives ==
  ASSUME NEW p, NEW d
  PROVE  asymmetric_decrypt(p, d) \in {ShortCiphertext, Got(Garbage, <<>>), Got(p, <<>>)}
  BY DEF asymmetric_decrypt

(* Garbage is no meta. *)
LEMMA GarbageIsNoMeta == ~ ReadMeta(Garbage).ok
  <1>1. ReadBytes(16, <<>>) = Short
    <2>1. 16 > Len(<<>>)
      BY EmptyStr
    <2> QED
      BY <2>1 DEF ReadBytes
  <1>2. ~ ReadBytes(16, <<>>).ok /\ ~ Short.ok
    BY <1>1 DEF Short
  <1> QED
    BY <1>2 DEF ReadMeta, Garbage, Format!SYMMETRIC_KEY_LENGTH

(* What a node has that takes the onion for its own, with the backward     *)
(* section that it has read.                                               *)
PeeledOf(link, bwd) ==
  [ok |-> TRUE, meta |-> [role |-> link.role, next |-> next(link)],
   cells |-> Tail(SentHeader(link)), backward |-> ae_unwrap(bwd)]

Section(v, g) == [vec |-> v, tag |-> g]

TheTag == Field("tag", 0, Format!TagBytes)

SentInput(link) == MacInput(ciphertext(link), Tail(SentHeader(link)), SentForward(link))

LEMMA TagIs ==
  ASSUME NEW link \in Links, NEW input
  PROVE  tag(link, input) = IF input = SentInput(link) THEN TheTag
                            ELSE Field("otherTag", 0, Format!TagBytes)
  <1>1. /\ Sent(link).header = SentHeader(link) /\ Sent(link).forward = SentForward(link)
    BY SentIs DEF OnionOf
  <1> QED
    BY <1>1, Zenon DEF tag, SentInput, TheTag

(* Unwrapping, with the block that was unpacked and what it decrypts to.   *)
UnwrapGives(link, t, d, cells, f, bwd) ==
  LET plain == asymmetric_decrypt(PackMeta(link), d)
      meta  == ReadMeta(plain.value)
  IN  IF ~ plain.ok THEN plain
      ELSE IF ~ meta.ok \/ t # tag(link, MacInput(d, cells, f)) THEN Err("MacMismatch")
      ELSE [ok |-> TRUE, meta |-> meta.value, cells |-> cells,
            backward |-> ae_unwrap(bwd)]

LEMMA UnwrapIs ==
  ASSUME NEW link, NEW h, NEW f, NEW v, NEW g, NEW t, NEW d, h # <<>>, UnpacksTo(h[1], t, d)
  PROVE  unwrap(link, OnionOf(h, f, v, g))
           = UnwrapGives(link, t, d, Tail(h), f, Section(v, g))
  <1> DEFINE o == OnionOf(h, f, v, g)
             block == unpack(h[1])
             bwd == Section(v, g)
  <1>1. o.header = h /\ o.forward = f /\ o.backward = bwd
    BY DEF OnionOf, Section
  <1>2. block.ok /\ block.tag = t /\ block.data = d
    BY DEF UnpacksTo
  <1> HIDE DEF o, block, bwd
  <1>3. unwrap(link, o) = IF ~ block.ok THEN block
                          ELSE UnwrapGives(link, block.tag, block.data, Tail(h), f, bwd)
    BY <1>1, Zenon DEF unwrap, UnwrapGives, block
  <1> QED
    BY <1>2, <1>3 DEF o, bwd

(* A meta is read from what was encrypted or not at all. *)
LEMMA MetaOrNot ==
  ASSUME NEW link \in Links, NEW d
  PROVE  LET plain == asymmetric_decrypt(PackMeta(link), d)
             meta  == ReadMeta(plain.value)
         IN  plain.ok /\ meta.ok => meta.value = [role |-> link.role, next |-> next(link)]
  <1> DEFINE p == PackMeta(link)
             plain == asymmetric_decrypt(p, d)
             meta  == ReadMeta(plain.value)
             own == [role |-> link.role, next |-> next(link)]
  <1>1. ReadMeta(p) = Got(own, <<>>)
    BY MetaReadsBack
  <1>2. plain \in {ShortCiphertext, Got(Garbage, <<>>), Got(p, <<>>)}
    BY DecryptGives
  <1>3. ~ ShortCiphertext.ok
    BY DEF ShortCiphertext, Err
  <1> HIDE DEF p, plain, own
  <1>4. ASSUME plain.ok, meta.ok PROVE meta.value = own
    <2>1. plain = Got(Garbage, <<>>) \/ plain = Got(p, <<>>)
      BY <1>2, <1>3, <1>4
    <2>2. plain.value = Garbage \/ plain.value = p
      BY <2>1 DEF Got
    <2>3. plain.value = p
      BY <1>4, <2>2, GarbageIsNoMeta
    <2>4. meta = Got(own, <<>>)
      BY <1>1, <2>3
    <2> QED
      BY <2>4 DEF Got
  <1> QED
    BY <1>4 DEF plain, own, p

(* The onion that was sent is peeled, whatever has become of its backward  *)
(* section.                                                                *)
LEMMA UnwrapSent ==
  ASSUME NEW link \in Links, NEW v, NEW g
  PROVE  unwrap(link, OnionOf(SentHeader(link), SentForward(link), v, g))
           = PeeledOf(link, Section(v, g))
  <1> DEFINE h == SentHeader(link)
             f == SentForward(link)
             c == ciphertext(link)
             own == [role |-> link.role, next |-> next(link)]
             o == OnionOf(h, f, v, g)
             bwd == ae_unwrap(Section(v, g))
  <1>1. h # <<>> /\ h[1] = HeaderBlock(TheTag, c)
    BY SentHeaderTyped DEF TheTag
  <1>2. TheTag \in Str /\ Len(TheTag) = 16
    BY SentBlock DEF TheTag
  <1>3. c \in Str /\ Len(c) = 92
    BY CipherTyped
  <1>4. Len(c) < TooLarge
    <2> HIDE DEF c
    <2> QED
      BY <1>3 DEF TooLarge
  <1>5. UnpacksTo(h[1], TheTag, c)
    <2> HIDE DEF h, c
    <2>1. UnpacksTo(HeaderBlock(TheTag, c) \o <<>>, TheTag, c)
      BY <1>2, <1>3, <1>4, EmptyStr, UnpackReadsBack
    <2>2. HeaderBlock(TheTag, c) \o <<>> = HeaderBlock(TheTag, c)
      BY <1>2, <1>3, <1>4, HeaderBlockStr, EmptyStr
    <2> QED
      BY <1>1, <2>1, <2>2
  <1>6. asymmetric_decrypt(PackMeta(link), c) = Got(PackMeta(link), <<>>)
    BY Decrypted
  <1>7. ReadMeta(PackMeta(link)) = Got(own, <<>>)
    BY MetaReadsBack
  <1>8. TheTag = tag(link, MacInput(c, Tail(h), f))
    BY TagIs DEF SentInput
  <1> HIDE DEF h, f, c, own, o, bwd
  <1>10. unwrap(link, o) = UnwrapGives(link, TheTag, c, Tail(h), f, Section(v, g))
    BY <1>1, <1>5, UnwrapIs DEF o
  <1> DEFINE plain == asymmetric_decrypt(PackMeta(link), c)
             meta  == ReadMeta(plain.value)
  <1>11. plain.ok /\ plain.value = PackMeta(link)
    BY <1>6 DEF Got
  <1>12. meta.ok /\ meta.value = own
    BY <1>7, <1>11 DEF Got
  <1>13. UnwrapGives(link, TheTag, c, Tail(h), f, Section(v, g))
           = IF ~ plain.ok THEN plain
             ELSE IF ~ meta.ok \/ TheTag # tag(link, MacInput(c, Tail(h), f))
             THEN Err("MacMismatch")
             ELSE [ok |-> TRUE, meta |-> meta.value, cells |-> Tail(h), backward |-> bwd]
    BY Zenon DEF UnwrapGives, bwd
  <1> HIDE DEF plain, meta
  <1>14. UnwrapGives(link, TheTag, c, Tail(h), f, Section(v, g))
           = [ok |-> TRUE, meta |-> own, cells |-> Tail(h), backward |-> bwd]
    BY <1>8, <1>11, <1>12, <1>13, Zenon
  <1> QED
    BY <1>10, <1>14 DEF PeeledOf, own, h, f, o, bwd

(* An onion that is peeled at all is, but for the rest of its first cell   *)
(* and for its backward section, the one that was sent.                    *)
LEMMA UnwrapSame ==
  ASSUME NEW link \in Links, NEW h, NEW f, NEW v, NEW g, Parted(h, f, v, g),
         unwrap(link, OnionOf(h, f, v, g)).ok
  PROVE  /\ unwrap(link, OnionOf(h, f, v, g)) = PeeledOf(link, Section(v, g))
         /\ f = SentForward(link) /\ Tail(h) = Tail(SentHeader(link)) /\ h # <<>>
         /\ \E r \in Str : h[1] = SentHeader(link)[1] \o r
  <1> DEFINE o == OnionOf(h, f, v, g)
             own == [role |-> link.role, next |-> next(link)]
             sh == SentHeader(link)
             sf == SentForward(link)
             sc == ciphertext(link)
             bwd == ae_unwrap(Section(v, g))
  <1>1. o.header = h
    BY DEF OnionOf
  <1>2. unwrap(link, o).ok
    OBVIOUS
  <1> HIDE DEF o
  <1>3. h # <<>> /\ unpack(h[1]).ok
    <2>1. unwrap(link, o) = IF h = <<>> THEN NoBlock ELSE IF ~ unpack(h[1]).ok THEN unpack(h[1])
                            ELSE unwrap(link, o)
      BY <1>1, Zenon DEF unwrap
    <2>2. ~ NoBlock.ok
      BY DEF NoBlock, Err
    <2> QED
      BY <1>2, <2>1, <2>2
  <1>4. /\ Writable(Tail(h)) /\ h[1] \in Str /\ Len(h[1]) < TooLarge
    BY <1>3, TailWritable DEF Parted
  <1>5. PICK t \in Str, d \in Str, r \in Str :
               /\ Len(t) = 16 /\ Len(d) < TooLarge
               /\ UnpacksTo(h[1], t, d) /\ HeaderBlock(t, d) \o r = h[1]
    BY <1>3, <1>4, UnpackStood
  <1>6. unwrap(link, o) = UnwrapGives(link, t, d, Tail(h), f, Section(v, g))
    BY <1>3, <1>5, UnwrapIs DEF o
  <1> DEFINE plain == asymmetric_decrypt(PackMeta(link), d)
             meta  == ReadMeta(plain.value)
             input == MacInput(d, Tail(h), f)
  <1>7. unwrap(link, o) = IF ~ plain.ok THEN plain
                          ELSE IF ~ meta.ok \/ t # tag(link, input) THEN Err("MacMismatch")
                          ELSE [ok |-> TRUE, meta |-> meta.value, cells |-> Tail(h),
                                backward |-> bwd]
    BY <1>6, Zenon DEF UnwrapGives, bwd
  <1>8. plain.ok /\ meta.ok => meta.value = own
    BY MetaOrNot
  <1> HIDE DEF plain, meta, input, own, sh, sf, sc, bwd
  <1>9. plain.ok /\ meta.ok /\ t = tag(link, input)
        /\ unwrap(link, o) = [ok |-> TRUE, meta |-> own, cells |-> Tail(h), backward |-> bwd]
    <2>1. ~ Err("MacMismatch").ok
      BY DEF Err
    <2> QED
      BY <1>2, <1>7, <1>8, <2>1
  <1>10. input = SentInput(link) /\ t = TheTag
    <2>1. t # Field("otherTag", 0, Format!TagBytes)
      BY <1>5, OtherTagIsNoString
    <2>2. tag(link, input) = IF input = SentInput(link) THEN TheTag
                             ELSE Field("otherTag", 0, Format!TagBytes)
      BY TagIs
    <2> QED
      BY <1>9, <2>1, <2>2
  <1>11. d = sc /\ Tail(h) = Tail(sh) /\ f = sf
    <2>1. sc \in Str /\ Len(sc) = 92
      BY CipherTyped DEF sc
    <2>2. Len(sc) < TooLarge
      BY <2>1 DEF TooLarge
    <2>3. Writable(Tail(sh))
      BY SentHeaderTyped DEF sh
    <2>4. sf \in Str /\ Len(sf) < TooLarge
      BY SentParted DEF Parted, sf
    <2>5. f \in Str /\ Len(f) < TooLarge
      BY DEF Parted
    <2>6. MacInput(d, Tail(h), f) = MacInput(sc, Tail(sh), sf)
      BY <1>10 DEF input, SentInput, sc, sh, sf
    <2>7. Covered(d, Tail(h), f)
      BY <1>4, <1>5, <2>5 DEF Covered
    <2>8. Covered(sc, Tail(sh), sf)
      BY <2>1, <2>2, <2>3, <2>4 DEF Covered
    <2> DEFINE x == Tail(h)  y == Tail(sh)
    <2>9. Covered(d, x, f) /\ Covered(sc, y, sf) /\ MacInput(d, x, f) = MacInput(sc, y, sf)
      BY <2>6, <2>7, <2>8
    <2> HIDE DEF x, y
    <2>10. d = sc /\ x = y /\ f = sf
      BY <2>9, MacInputsDiffer
    <2> QED
      BY <2>10 DEF x, y
  <1>12. unwrap(link, o) = PeeledOf(link, Section(v, g))
    BY <1>9, <1>11 DEF PeeledOf, own, sh, bwd
  <1>13. h[1] = sh[1] \o r
    <2>1. sh[1] = HeaderBlock(TheTag, sc)
      BY SentHeaderTyped DEF TheTag, sh, sc
    <2> QED
      BY <1>5, <1>10, <1>11, <2>1
  <1> QED
    BY <1>3, <1>5, <1>11, <1>12, <1>13 DEF o, sh, sf

(* What the nodes have that take an onion for their own.  Of the onion     *)
(* only the backward section and the length of the other matter.           *)
HopGets(link, f, bwd) ==
  [ok |-> TRUE, role |-> "Hop", next |-> next(link), cells |-> Tail(SentHeader(link)),
   forward |-> f, backward |-> ae_unwrap(bwd)]

ReplyOf(link, n, bwd) ==
  [ok |-> TRUE, next |-> next(link), header |-> split_reply_header(Message(link)).header,
   forward |-> Field("filler", 0, n), backward |-> ae_enc(ae_unwrap(bwd).tag, replyy)]

ReceiverGets(link, n, bwd) ==
  [ok |-> TRUE, role |-> "Receiver", payload |-> split_reply_header(Message(link)).payload,
   reply |-> ReplyOf(link, n, bwd)]

(* A sender either refuses a reply or takes it for what was sent.          *)
LEMMA AcceptReply ==
  ASSUME NEW link \in Links, NEW o
  PROVE  LET a == accept_reply(link, next(link), o)
         IN  /\ packed_header(o) # packed_header(Sent(link)) => a = Err("UnexpectedReply")
             /\ packed_header(o) = packed_header(Sent(link)) /\ o.backward # Sent(link).backward
                  => a = Err("AeError")
             /\ packed_header(o) = packed_header(Sent(link)) /\ o.backward = Sent(link).backward
                  => a = accept_reply(link, next(link), Sent(link))
             /\ a.ok => /\ packed_header(o) = packed_header(Sent(link))
                        /\ o.backward = Sent(link).backward
             /\ a.ok => a.role = "Sender"
  <1> DEFINE given == [ok |-> TRUE, role |-> "Sender",
                       lengths |-> [n_forward  |-> ReadLittleEndian(SubSeq(next(link), 1, 8)),
                                    n_backward |-> ReadLittleEndian(SubSeq(next(link), 9, 16))]]
             a(x) == accept_reply(link, next(link), x)
             p(x) == packed_header(x)
             s == Sent(link)
  <1>1. \A x : a(x) = IF p(x) # p(s) THEN Err("UnexpectedReply")
                      ELSE IF x.backward # s.backward THEN Err("AeError") ELSE given
    BY Zenon DEF accept_reply
  <1>2. ~ Err("UnexpectedReply").ok /\ ~ Err("AeError").ok
    BY DEF Err
  <1> HIDE DEF given, a, p, s
  <1>3. a(s) = given
    BY <1>1
  <1>4. /\ p(o) # p(s) => a(o) = Err("UnexpectedReply")
        /\ p(o) = p(s) /\ o.backward # s.backward => a(o) = Err("AeError")
        /\ p(o) = p(s) /\ o.backward = s.backward => a(o) = a(s)
    BY <1>1, <1>3
  <1>5. a(o).ok => p(o) = p(s) /\ o.backward = s.backward
    BY <1>2, <1>4
  <1>6. given.role = "Sender"
    BY DEF given
  <1>7. a(o).ok => a(o).role = "Sender"
    BY <1>1, <1>2, <1>6
  <1> QED
    BY <1>4, <1>5, <1>7 DEF a, p, s

LEMMA ProcessedWhenPeeled ==
  ASSUME NEW link \in Links, NEW o, NEW bwd, unwrap(link, o) = PeeledOf(link, bwd)
  PROVE  /\ link.role = "Hop" => proc_onion(link, o) = HopGets(link, o.forward, bwd)
         /\ link.role = "Receiver" =>
              /\ proc_onion(link, o) = [ok |-> TRUE, role |-> "Receiver",
                                        payload |-> split_reply_header(Message(link)).payload]
              /\ reply_onion(link, o, replyy) = ReplyOf(link, Len(o.forward), bwd)
         /\ link.role = "Sender" => proc_onion(link, o) = accept_reply(link, next(link), o)
  <1> DEFINE peeled  == unwrap(link, o)
             meta    == peeled.meta
             message == split_reply_header(Message(link))
             b       == ae_unwrap(bwd)
             gets    == [ok |-> TRUE, role |-> "Receiver", payload |-> message.payload]
             reply   == [ok |-> TRUE, next |-> next(link), header |-> message.header,
                         forward |-> Field("filler", 0, Len(o.forward)),
                         backward |-> ae_enc(b.tag, replyy)]
  <1>1. /\ peeled.ok /\ meta.role = link.role /\ meta.next = next(link)
        /\ peeled.cells = Tail(SentHeader(link)) /\ peeled.backward = b
    BY DEF PeeledOf
  <1>2. proc_onion(link, o) =
          IF ~ peeled.ok THEN peeled
          ELSE CASE meta.role = "Hop" ->
                      [ok |-> TRUE, role |-> "Hop", next |-> meta.next, cells |-> peeled.cells,
                       forward |-> o.forward, backward |-> peeled.backward]
                 [] meta.role = "Receiver" -> IF ~ message.ok THEN message ELSE gets
                 [] meta.role = "Sender" -> accept_reply(link, meta.next, o)
    BY Zenon DEF proc_onion
  <1>3. reply_onion(link, o, replyy) =
          IF ~ peeled.ok THEN peeled
          ELSE IF meta.role # "Receiver" THEN Err("NotTheReceiver")
          ELSE IF ~ message.ok THEN message
          ELSE [ok |-> TRUE, next |-> meta.next, header |-> message.header,
                forward |-> Field("filler", 0, Len(o.forward)),
                backward |-> ae_enc(peeled.backward.tag, replyy)]
    BY Zenon DEF reply_onion
  <1>4. message.ok
    BY MessageIsRead
  <1>5. reply = ReplyOf(link, Len(o.forward), bwd)
    BY DEF ReplyOf
  <1> HIDE DEF peeled, meta, message, b, gets, reply
  <1>6. ASSUME link.role = "Hop" PROVE proc_onion(link, o) = HopGets(link, o.forward, bwd)
    BY <1>1, <1>2, <1>6 DEF HopGets, b
  <1>7. ASSUME link.role = "Receiver"
        PROVE  /\ proc_onion(link, o) = gets
               /\ reply_onion(link, o, replyy) = ReplyOf(link, Len(o.forward), bwd)
    <2>1. proc_onion(link, o) = gets
      BY <1>1, <1>2, <1>4, <1>7
    <2>2. reply_onion(link, o, replyy) = reply
      BY <1>1, <1>3, <1>4, <1>7 DEF reply
    <2> QED
      BY <1>5, <2>1, <2>2
  <1>8. ASSUME link.role = "Sender"
        PROVE  proc_onion(link, o) = accept_reply(link, next(link), o)
    BY <1>1, <1>2, <1>8
  <1> QED
    BY <1>6, <1>7, <1>8 DEF gets, message

LEMMA HandledIs ==
  ASSUME NEW link, NEW o
  PROVE  LET p == proc_onion(link, o)
             r == reply_onion(link, o, replyy)
         IN  /\ ~ p.ok \/ p.role # "Receiver" => Handled(link, o) = p
             /\ p.ok /\ p.role = "Receiver" /\ r.ok =>
                  Handled(link, o) = [ok |-> TRUE, role |-> "Receiver",
                                      payload |-> p.payload, reply |-> r]
  <1> DEFINE p == proc_onion(link, o)
             r == reply_onion(link, o, replyy)
  <1>1. Handled(link, o) = IF ~ p.ok \/ p.role # "Receiver" THEN p
                           ELSE IF ~ r.ok THEN r
                           ELSE [ok |-> TRUE, role |-> "Receiver",
                                 payload |-> p.payload, reply |-> r]
    BY Zenon DEF Handled
  <1> HIDE DEF p, r
  <1>2. /\ ~ p.ok \/ p.role # "Receiver" => Handled(link, o) = p
        /\ p.ok /\ p.role = "Receiver" /\ r.ok =>
             Handled(link, o) = [ok |-> TRUE, role |-> "Receiver",
                                 payload |-> p.payload, reply |-> r]
    BY <1>1
  <1> QED
    BY <1>2 DEF p, r

LEMMA HandledWhenPeeled ==
  ASSUME NEW link \in Links, NEW o, NEW bwd, unwrap(link, o) = PeeledOf(link, bwd)
  PROVE  /\ link.role = "Hop" => Handled(link, o) = HopGets(link, o.forward, bwd)
         /\ link.role = "Receiver" => Handled(link, o) = ReceiverGets(link, Len(o.forward), bwd)
         /\ link.role = "Sender" => Handled(link, o) = accept_reply(link, next(link), o)
  <1>1. ASSUME link.role = "Hop" PROVE Handled(link, o) = HopGets(link, o.forward, bwd)
    <2>1. proc_onion(link, o) = HopGets(link, o.forward, bwd)
      BY <1>1, ProcessedWhenPeeled
    <2>2. HopGets(link, o.forward, bwd).role = "Hop"
      BY DEF HopGets
    <2>3. proc_onion(link, o).role # "Receiver"
      BY <2>1, <2>2
    <2> QED
      BY <2>1, <2>3, HandledIs
  <1>2. ASSUME link.role = "Receiver"
        PROVE  Handled(link, o) = ReceiverGets(link, Len(o.forward), bwd)
    <2> DEFINE x == split_reply_header(Message(link)).payload
               p == proc_onion(link, o)
               r == reply_onion(link, o, replyy)
    <2>1. p = [ok |-> TRUE, role |-> "Receiver", payload |-> x]
      BY <1>2, ProcessedWhenPeeled
    <2>2. r = ReplyOf(link, Len(o.forward), bwd)
      BY <1>2, ProcessedWhenPeeled
    <2>3. r.ok
      BY <2>2 DEF ReplyOf
    <2>4. p.ok /\ p.role = "Receiver" /\ p.payload = x
      BY <2>1
    <2>5. Handled(link, o) = [ok |-> TRUE, role |-> "Receiver", payload |-> p.payload, reply |-> r]
      BY <2>3, <2>4, HandledIs
    <2> HIDE DEF p, r
    <2> QED
      BY <2>2, <2>4, <2>5 DEF ReceiverGets
  <1>3. ASSUME link.role = "Sender" PROVE Handled(link, o) = accept_reply(link, next(link), o)
    <2> DEFINE p == proc_onion(link, o)
    <2>1. p = accept_reply(link, next(link), o)
      BY <1>3, ProcessedWhenPeeled
    <2>2. p.ok => p.role = "Sender"
      BY <2>1, AcceptReply
    <2>3. ~ p.ok \/ p.role # "Receiver"
      BY <2>2
    <2> QED
      BY <2>1, <2>3, HandledIs
  <1> QED
    BY <1>1, <1>2, <1>3

LEMMA HandledUnpeeled ==
  ASSUME NEW link, NEW o, ~ unwrap(link, o).ok
  PROVE  Handled(link, o) = unwrap(link, o)
  <1>1. proc_onion(link, o) = unwrap(link, o)
    BY Zenon DEF proc_onion
  <1>2. ~ proc_onion(link, o).ok
    BY <1>1
  <1> QED
    BY <1>1, <1>2, HandledIs

(* Whoever does not refuse an onion does what the onion sent makes it do,  *)
(* with the backward section of the one before it; and a sender accepts    *)
(* the one that was sent only.                                             *)
LEMMA HandledAlike ==
  ASSUME NEW link \in Links, NEW h, NEW f, NEW v, NEW g, Parted(h, f, v, g),
         Handled(link, OnionOf(h, f, v, g)).ok
  PROVE  /\ unwrap(link, OnionOf(h, f, v, g)).ok
         /\ Handled(link, OnionOf(h, f, v, g))
              = Handled(link, OnionOf(SentHeader(link), SentForward(link), v, g))
         /\ link.role = "Sender" => v = SentVec(link) /\ g = SentTag
  <1> DEFINE o == OnionOf(h, f, v, g)
             i == OnionOf(SentHeader(link), SentForward(link), v, g)
             s == Sent(link)
  <1>1. unwrap(link, o).ok
    <2> HIDE DEF o
    <2> SUFFICES ASSUME ~ unwrap(link, o).ok PROVE FALSE
      OBVIOUS
    <2>1. Handled(link, o) = unwrap(link, o)
      BY HandledUnpeeled
    <2> QED
      BY <2>1 DEF o
  <1>2. unwrap(link, o) = PeeledOf(link, Section(v, g)) /\ f = SentForward(link)
    BY <1>1, UnwrapSame
  <1>3. unwrap(link, i) = PeeledOf(link, Section(v, g))
    BY UnwrapSent
  <1>4. /\ o.forward = f /\ i.forward = SentForward(link) /\ i.header = SentHeader(link)
        /\ s.header = SentHeader(link)
        /\ o.backward = Section(v, g) /\ i.backward = Section(v, g)
        /\ s.backward = Section(SentVec(link), SentTag)
    BY SentIs DEF OnionOf, Section
  <1>5. Handled(link, o).ok
    OBVIOUS
  <1>6. link.role \in {"Hop", "Receiver", "Sender"}
    BY Bounds
  <1> HIDE DEF o, i, s
  <1>7. CASE link.role = "Hop"
    <2>1. Handled(link, o) = Handled(link, i)
      BY <1>2, <1>3, <1>4, <1>7, HandledWhenPeeled
    <2> QED
      BY <1>1, <1>7, <2>1 DEF o, i
  <1>8. CASE link.role = "Receiver"
    <2>1. Handled(link, o) = Handled(link, i)
      BY <1>2, <1>3, <1>4, <1>8, HandledWhenPeeled
    <2> QED
      BY <1>1, <1>8, <2>1 DEF o, i
  <1>9. CASE link.role = "Sender"
    <2>1. /\ Handled(link, o) = accept_reply(link, next(link), o)
          /\ Handled(link, i) = accept_reply(link, next(link), i)
      BY <1>2, <1>3, <1>9, HandledWhenPeeled
    <2>2. packed_header(o) = packed_header(s) /\ o.backward = s.backward
      BY <1>5, <2>1, AcceptReply DEF s
    <2>3. packed_header(i) = packed_header(s) /\ i.backward = s.backward
      <3>1. packed_header(i) = packed_header(s)
        BY <1>4 DEF packed_header
      <3> QED
        BY <1>4, <2>2, <3>1
    <2>4. Handled(link, o) = Handled(link, i)
      BY <2>1, <2>2, <2>3, AcceptReply DEF s
    <2>5. v = SentVec(link) /\ g = SentTag
      BY <1>4, <2>2 DEF Section
    <2> QED
      BY <1>1, <2>4, <2>5 DEF o, i
  <1> QED
    BY <1>6, <1>7, <1>8, <1>9

-----------------------------------------------------------------------------
(* Sphinx packets and SURBs. *)

LEMMA HeadersAreStrings ==
  ASSUME NEW h \in Headers
  PROVE  /\ Sphinx!header_to_bytes(h) \in Str
         /\ Len(Sphinx!header_to_bytes(h)) = Sphinx!HEADER_SIZE
  BY HeaderReadsBack DEF Strings, Str

LEMMA SliceStr ==
  ASSUME NEW s \in Str, NEW a \in Nat, NEW b \in Nat, a <= b, b <= Len(s)
  PROVE  Sphinx!Slice(s, a, b) \in Str /\ Len(Sphinx!Slice(s, a, b)) = b - a
  BY SliceTyped DEF Str

LEMMA PartsStr ==
  ASSUME NEW s \in Str, NEW j \in Nat, j <= Len(s)
  PROVE  /\ Sphinx!Slice(s, 0, j) \in Str /\ Len(Sphinx!Slice(s, 0, j)) = j
         /\ Sphinx!Drop(j, s) \in Str /\ Len(Sphinx!Drop(j, s)) = Len(s) - j
         /\ Sphinx!Slice(s, 0, j) \o Sphinx!Drop(j, s) = s
  <1>1. s \in Seq(Byte)
    BY DEF Str
  <1>2. Sphinx!Drop(j, s) = Sphinx!Slice(s, j, Len(s))
    BY DEF Sphinx!Drop, Sphinx!Slice
  <1> QED
    BY <1>1, <1>2, Parts DEF Str

(* The header at the front of a string is accepted only as it is written.  *)
LEMMA HeaderInFront ==
  ASSUME NEW s \in Str, Sphinx!HEADER_SIZE <= Len(s),
         Sphinx!header_from_bytes(Sphinx!Slice(s, 0, Sphinx!HEADER_SIZE)).ok
  PROVE  LET h == Sphinx!header_from_bytes(Sphinx!Slice(s, 0, Sphinx!HEADER_SIZE)).value
         IN  h \in Headers /\ Sphinx!header_to_bytes(h) = Sphinx!Slice(s, 0, Sphinx!HEADER_SIZE)
  <1> DEFINE n == Sphinx!HEADER_SIZE
             x == Sphinx!Slice(s, 0, n)
  <1>1. n \in Nat
    BY Sizes
  <1>2. x \in Seq(Byte)
    <2> HIDE DEF n
    <2> QED
      BY <1>1, SliceStr DEF n, Str
  <1> HIDE DEF x
  <1>3. Sphinx!header_from_bytes(x).ok
    BY DEF x
  <1> QED
    BY <1>2, <1>3, HeaderIsCanonical DEF x

(* The bytes that are accepted as a packet are those it is written with.   *)
LEMMA PacketIsCanonical ==
  ASSUME NEW s \in Str, Sphinx!packet_from_bytes(s).ok
  PROVE  /\ Sphinx!HEADER_SIZE <= Len(s)
         /\ Sphinx!packet_to_bytes(Sphinx!packet_from_bytes(s).value) = s
         /\ Sphinx!packet_from_bytes(s).value.header
              = Sphinx!header_from_bytes(Sphinx!Slice(s, 0, Sphinx!HEADER_SIZE)).value
  <1> DEFINE n == Sphinx!HEADER_SIZE
             a == Sphinx!Slice(s, 0, n)
             b == Sphinx!Drop(n, s)
             h == Sphinx!header_from_bytes(a)
             p == Sphinx!Format!Payload!from_bytes(b)
             r == Sphinx!packet_from_bytes(s)
  <1>1. n \in Nat /\ Len(s) \in Nat
    BY Sizes, LenNat
  <1>2. r = IF Len(s) < n + 17 THEN Sphinx!Err("InvalidPacket")
            ELSE IF ~ h.ok THEN h
            ELSE IF ~ p.ok THEN p
            ELSE Sphinx!Ok([header |-> h.value, payload |-> p.payload])
    <2>1. Sphinx!Format!Payload!PAYLOAD_OVERHEAD_SIZE = 17
      BY DEF Sphinx!Format!Payload!PAYLOAD_OVERHEAD_SIZE
    <2> QED
      BY <2>1, Zenon DEF Sphinx!packet_from_bytes
  <1>3. p = IF Len(b) < Sphinx!Format!Payload!PAYLOAD_OVERHEAD_SIZE
            THEN Sphinx!Format!Payload!InvalidPayload ELSE [ok |-> TRUE, payload |-> b]
    BY Zenon DEF Sphinx!Format!Payload!from_bytes
  <1>4. ~ Sphinx!Err("InvalidPacket").ok /\ ~ Sphinx!Format!Payload!InvalidPayload.ok
    BY DEF Sphinx!Err, Sphinx!Format!Payload!InvalidPayload
  <1>5. r.ok
    OBVIOUS
  <1> HIDE DEF n, h, p, r, b
  <1>6. /\ ~ (Len(s) < n + 17) /\ h.ok /\ p.ok
        /\ r = Sphinx!Ok([header |-> h.value, payload |-> p.payload])
    BY <1>2, <1>4, <1>5
  <1>7. p.payload = b
    BY <1>3, <1>4, <1>6
  <1>8. n <= Len(s)
    BY <1>1, <1>6
  <1>9. a \o b = s
    BY <1>1, <1>8, PartsStr DEF b
  <1> DEFINE x == h.value
  <1>10. Sphinx!header_to_bytes(x) = a
    BY <1>6, <1>8, HeaderInFront DEF h, n
  <1> HIDE DEF a, x
  <1>11. r.value = [header |-> x, payload |-> b]
    BY <1>6, <1>7 DEF Sphinx!Ok, x
  <1>12. Sphinx!packet_to_bytes(r.value) = s
    BY <1>9, <1>10, <1>11 DEF Sphinx!packet_to_bytes
  <1>13. r.value.header = x
    BY <1>11
  <1> QED
    BY <1>8, <1>12, <1>13 DEF n, r, x, h, a

(* The keys of a SURB: as many pieces of 192 bytes as there are.           *)
Chopped(keys) ==
  [k \in 1 .. Len(keys) \div 192 |-> Sphinx!Slice(keys, (k - 1) * 192, k * 192)]

Pieces(c, keys, m) ==
  /\ c \in Strs /\ Len(c) = m
  /\ \A k \in 1 .. m : /\ c[k] = Sphinx!Slice(keys, (k - 1) * 192, k * 192)
                       /\ c[k] \in Str /\ Len(c[k]) = 192

LEMMA ChoppedTyped ==
  ASSUME NEW keys \in Str, NEW m \in Nat, Len(keys) = 192 * m
  PROVE  Pieces(Chopped(keys), keys, m)
  <1> DEFINE f(k) == Sphinx!Slice(keys, (k - 1) * 192, k * 192)
             c == Chopped(keys)
  <1>1. Len(keys) \div 192 = m
    BY Z3
  <1>2. ASSUME NEW k \in 1 .. m PROVE f(k) \in Str /\ Len(f(k)) = 192
    <2> DEFINE i == (k - 1) * 192
               j == k * 192
    <2>1. i \in Nat /\ j \in Nat /\ i <= j /\ j <= Len(keys) /\ j - i = 192
      OBVIOUS
    <2> HIDE DEF i, j
    <2>2. Sphinx!Slice(keys, i, j) \in Str /\ Len(Sphinx!Slice(keys, i, j)) = j - i
      BY <2>1, SliceStr
    <2> QED
      BY <2>1, <2>2 DEF i, j
  <1>3. c = [k \in 1 .. m |-> f(k)]
    BY <1>1 DEF Chopped
  <1> HIDE DEF f, c
  <1>4. c \in Seq(Str) /\ Len(c) = m
    BY <1>2, <1>3
  <1>5. \A k \in 1 .. m : c[k] = f(k)
    BY <1>3
  <1> QED
    BY <1>2, <1>4, <1>5 DEF Strs, Pieces, c, f

(* Joined again they are what was chopped. *)
LEMMA ChoppedJoins ==
  ASSUME NEW keys \in Str, NEW m \in Nat, Len(keys) = 192 * m
  PROVE  FlattenSeq(Chopped(keys)) = keys
  <1> DEFINE c == Chopped(keys)
             T == {k \in 0 .. m : JoinedUpTo(c, k) = Sphinx!Slice(keys, 0, 192 * k)}
  <1> HIDE DEF c
  <1>1. /\ c \in Strs /\ Len(c) = m
        /\ \A k \in 1 .. m : c[k] = Sphinx!Slice(keys, (k - 1) * 192, k * 192)
    <2>1. Pieces(c, keys, m)
      BY ChoppedTyped DEF c
    <2> QED
      BY <2>1 DEF Pieces
  <1>2. /\ JoinedUpTo(c, 0) = <<>> /\ JoinedUpTo(c, m) = FlattenSeq(c)
        /\ \A k \in 0 .. m - 1 : JoinedUpTo(c, k + 1) = JoinedUpTo(c, k) \o c[k + 1]
    BY <1>1, JoinedSteps
  <1>0. keys \in Seq(Byte)
    BY DEF Str
  <1>3. 0 \in T
    <2>1. Sphinx!Slice(keys, 0, 0) = <<>>
      BY <1>0 DEF Sphinx!Slice
    <2>2. 192 * 0 = 0 /\ 0 \in 0 .. m
      OBVIOUS
    <2> QED
      BY <1>2, <2>1, <2>2
  <1>4. ASSUME NEW k \in 0 .. m - 1, k \in T PROVE k + 1 \in T
    <2> DEFINE i == 192 * k
               j == 192 * (k + 1)
    <2>1. /\ k + 1 \in 0 .. m /\ k + 1 \in 1 .. m
          /\ 0 \in Nat /\ i \in Nat /\ j \in Nat /\ 0 <= i /\ i <= j /\ j <= Len(keys)
          /\ ((k + 1) - 1) * 192 = i /\ (k + 1) * 192 = j
      OBVIOUS
    <2>2. c[k + 1] = Sphinx!Slice(keys, i, j)
      BY <1>1, <2>1
    <2>3. JoinedUpTo(c, k) = Sphinx!Slice(keys, 0, i)
      BY <1>4
    <2> HIDE DEF i, j
    <2>4. Sphinx!Slice(keys, 0, i) \o Sphinx!Slice(keys, i, j) = Sphinx!Slice(keys, 0, j)
      BY <1>0, <2>1, SlicesJoin
    <2>5. JoinedUpTo(c, k + 1) = Sphinx!Slice(keys, 0, j)
      BY <1>2, <2>2, <2>3, <2>4
    <2> QED
      BY <2>1, <2>5 DEF j
  <1>5. 0 .. m \subseteq T
    <2> HIDE DEF T
    <2> QED
      BY <1>3, <1>4, UpTo
  <1>6. m \in T
    <2>1. m \in 0 .. m
      OBVIOUS
    <2> HIDE DEF T
    <2> QED
      BY <1>5, <2>1
  <1>7. JoinedUpTo(c, m) = Sphinx!Slice(keys, 0, Len(keys))
    BY <1>6
  <1>8. Sphinx!Slice(keys, 0, Len(keys)) = keys
    BY <1>0, SliceAll
  <1> QED
    BY <1>2, <1>7, <1>8 DEF c

(* What a SURB is read from. *)
LEMMA SurbGives ==
  ASSUME NEW s \in Str, Sphinx!surb_from_bytes(s).ok
  PROVE  LET n    == Sphinx!HEADER_SIZE
             keys == Sphinx!Drop(n + 32, s)
             h    == Sphinx!header_from_bytes(Sphinx!Slice(s, 0, n))
         IN  /\ n + 224 <= Len(s) /\ Len(keys) % 192 = 0 /\ h.ok
             /\ Sphinx!surb_from_bytes(s)
                  = Sphinx!Ok([header |-> h.value,
                               first_hop |-> Sphinx!Slice(s, n, n + 32),
                               payload_keys |-> Chopped(keys)])
  <1> DEFINE n    == Sphinx!HEADER_SIZE
             keys == Sphinx!Drop(n + 32, s)
             h    == Sphinx!header_from_bytes(Sphinx!Slice(s, 0, n))
             a    == Sphinx!try_from_byte_slice(Sphinx!Slice(s, n, n + 32))
             r    == Sphinx!surb_from_bytes(s)
  <1>1. n \in Nat /\ Len(s) \in Nat
    BY Sizes, LenNat
  <1>2. Sphinx!NODE_ADDRESS_LENGTH = 32 /\ Sphinx!PAYLOAD_KEY_SIZE = 192
    BY DEF Sphinx!NODE_ADDRESS_LENGTH, Sphinx!PAYLOAD_KEY_SIZE
  <1>3. r = IF Len(s) < n + 32 + 192 \/ Len(keys) % 192 # 0
            THEN Sphinx!Err("InvalidSURB")
            ELSE IF ~ h.ok THEN h
            ELSE IF ~ a.ok THEN a
            ELSE Sphinx!Ok([header |-> h.value, first_hop |-> a.value,
                            payload_keys |-> Chopped(keys)])
    BY <1>2, Zenon DEF Sphinx!surb_from_bytes, Chopped
  <1>4. a = IF Len(Sphinx!Slice(s, n, n + 32)) # 32 THEN Sphinx!Err("InvalidRouting")
            ELSE Sphinx!Ok(Sphinx!Slice(s, n, n + 32))
    BY <1>2, Zenon DEF Sphinx!try_from_byte_slice
  <1>5. ~ Sphinx!Err("InvalidSURB").ok /\ ~ Sphinx!Err("InvalidRouting").ok
    BY DEF Sphinx!Err
  <1>6. r.ok
    OBVIOUS
  <1> HIDE DEF n, keys, h, a, r
  <1>7. /\ ~ (Len(s) < n + 32 + 192) /\ Len(keys) % 192 = 0 /\ h.ok /\ a.ok
        /\ r = Sphinx!Ok([header |-> h.value, first_hop |-> a.value,
                          payload_keys |-> Chopped(keys)])
    BY <1>3, <1>5, <1>6
  <1>8. a = Sphinx!Ok(Sphinx!Slice(s, n, n + 32))
    BY <1>4, <1>5, <1>7
  <1>9. a.value = Sphinx!Slice(s, n, n + 32)
    BY <1>8 DEF Sphinx!Ok
  <1>10. n + 224 <= Len(s)
    BY <1>1, <1>7
  <1> QED
    BY <1>7, <1>9, <1>10 DEF n, keys, h, r

(* The bytes that are accepted as a SURB are those it is written with.     *)
LEMMA SurbIsCanonical ==
  ASSUME NEW s \in Str, Sphinx!surb_from_bytes(s).ok
  PROVE  Sphinx!surb_to_bytes(Sphinx!surb_from_bytes(s).value) = s
  <1> DEFINE n    == Sphinx!HEADER_SIZE
             keys == Sphinx!Drop(n + 32, s)
             a    == Sphinx!Slice(s, 0, n)
             b    == Sphinx!Slice(s, n, n + 32)
             h    == Sphinx!header_from_bytes(a)
             x    == h.value
             r    == Sphinx!surb_from_bytes(s)
  <1>1. n \in Nat /\ Len(s) \in Nat /\ n + 32 \in Nat /\ 0 \in Nat /\ 0 <= n /\ n <= n + 32
    BY Sizes, LenNat
  <1>2. /\ n + 224 <= Len(s) /\ Len(keys) % 192 = 0 /\ h.ok
        /\ r = Sphinx!Ok([header |-> x, first_hop |-> b, payload_keys |-> Chopped(keys)])
    BY SurbGives
  <1> HIDE DEF n, r, x
  <1>3. n <= Len(s) /\ n + 32 <= Len(s)
    BY <1>1, <1>2
  <1>4. Sphinx!header_to_bytes(x) = a
    BY <1>2, <1>3, HeaderInFront DEF n, x
  <1>5. a \o b = Sphinx!Slice(s, 0, n + 32)
    BY <1>1, <1>3, SlicesJoin DEF Str
  <1>6. keys \in Str /\ Sphinx!Slice(s, 0, n + 32) \o keys = s
    BY <1>1, <1>3, PartsStr
  <1> HIDE DEF keys, a, b
  <1>7. FlattenSeq(Chopped(keys)) = keys
    <2> DEFINE m == Len(keys) \div 192
    <2>1. Len(keys) \in Nat
      BY <1>6, LenNat
    <2>2. m \in Nat /\ Len(keys) = 192 * m
      BY <1>2, <2>1, Z3
    <2> HIDE DEF m
    <2> QED
      BY <1>6, <2>2, ChoppedJoins
  <1>8. r.value = [header |-> x, first_hop |-> b, payload_keys |-> Chopped(keys)]
    BY <1>2 DEF Sphinx!Ok
  <1>9. Sphinx!surb_to_bytes(r.value) = a \o b \o FlattenSeq(Chopped(keys))
    <2>1. \A z : Sphinx!FlattenSeq(z) = FlattenSeq(z)
      BY DEF Sphinx!FlattenSeq, FlattenSeq
    <2> QED
      BY <1>4, <1>8, <2>1 DEF Sphinx!surb_to_bytes
  <1> QED
    BY <1>5, <1>6, <1>7, <1>9 DEF r

-----------------------------------------------------------------------------
(* What is sent, and what it becomes on the way. *)

SurbKeys == [k \in 1 .. MaxPathLength |-> Field("key", k, 192)]

LEMMA SurbKeysTyped ==
  /\ SurbKeys \in Strs /\ Len(SurbKeys) = MaxPathLength /\ MaxPathLength \in Nat
  /\ \A k \in 1 .. MaxPathLength : SurbKeys[k] \in Str /\ Len(SurbKeys[k]) = 192
  <1>1. MaxPathLength \in Nat
    BY WireAssumption
  <1>2. "key" \in FieldNames
    BY Zenon DEF FieldNames
  <1>3. ASSUME NEW k \in 1 .. MaxPathLength
        PROVE  Field("key", k, 192) \in Str /\ Len(Field("key", k, 192)) = 192
    <2> DEFINE w == 192
    <2>1. k \in Nat /\ w \in Nat
      OBVIOUS
    <2> HIDE DEF w
    <2>2. Field("key", k, w) \in Str /\ Len(Field("key", k, w)) = w
      BY <1>2, <2>1, FieldStr
    <2> QED
      BY <2>2 DEF w
  <1>4. \A k \in 1 .. MaxPathLength : SurbKeys[k] = Field("key", k, 192)
    BY DEF SurbKeys
  <1>5. SurbKeys \in [1 .. MaxPathLength -> Str]
    BY <1>3, Zenon DEF SurbKeys
  <1>6. SurbKeys \in Strs /\ Len(SurbKeys) = MaxPathLength
    BY <1>1, <1>5 DEF Strs
  <1> QED
    BY <1>1, <1>3, <1>4, <1>6

(* What each artefact is written as. *)
LEMMA ArtefactBytes ==
  /\ to_bytes("address", Values["address"]) = Address
  /\ to_bytes("routing", Values["routing"]) = Sphinx!routing_to_bytes(Routing)
  /\ to_bytes("header", Values["header"]) = Sphinx!header_to_bytes(SphinxHeader)
  /\ to_bytes("surb", Values["surb"])
       = Sphinx!header_to_bytes(SphinxHeader) \o Address \o FlattenSeq(SurbKeys)
  /\ to_bytes("packet", Values["packet"])
       = Sphinx!header_to_bytes(SphinxHeader) \o Field("payload", 0, 33)
  /\ Values.surb.payload_keys = SurbKeys
  <1>1. /\ Values["address"] = Address /\ Values["routing"] = Routing
        /\ Values["header"] = SphinxHeader
        /\ Values["packet"] = [header |-> SphinxHeader, payload |-> Field("payload", 0, 33)]
        /\ Values["surb"] = [header |-> SphinxHeader, first_hop |-> Address,
                             payload_keys |-> SurbKeys]
    BY DEF Values, SurbKeys, Sphinx!PAYLOAD_KEY_SIZE
  <1>2. to_bytes("address", Values["address"]) = Address
    BY <1>1 DEF to_bytes
  <1>3. to_bytes("routing", Values["routing"]) = Sphinx!routing_to_bytes(Routing)
    BY <1>1 DEF to_bytes
  <1>4. to_bytes("header", Values["header"]) = Sphinx!header_to_bytes(SphinxHeader)
    BY <1>1 DEF to_bytes
  <1>5. to_bytes("surb", Values["surb"]) = Sphinx!surb_to_bytes(Values["surb"])
    BY DEF to_bytes
  <1>6. to_bytes("packet", Values["packet"]) = Sphinx!packet_to_bytes(Values["packet"])
    BY DEF to_bytes
  <1>7. \A z : Sphinx!FlattenSeq(z) = FlattenSeq(z)
    BY DEF Sphinx!FlattenSeq, FlattenSeq
  <1>8. Sphinx!surb_to_bytes(Values["surb"])
          = Sphinx!header_to_bytes(SphinxHeader) \o Address \o FlattenSeq(SurbKeys)
    BY <1>1, <1>7 DEF Sphinx!surb_to_bytes
  <1>9. Sphinx!packet_to_bytes(Values["packet"])
          = Sphinx!header_to_bytes(SphinxHeader) \o Field("payload", 0, 33)
    BY <1>1 DEF Sphinx!packet_to_bytes
  <1> QED
    BY <1>1, <1>2, <1>3, <1>4, <1>5, <1>6, <1>8, <1>9

LEMMA KindsOfValues == DOMAIN Values = {"address", "routing", "header", "surb", "packet"}
  BY DEF Values

LEMMA ArtefactStr ==
  ASSUME NEW kind \in DOMAIN Values
  PROVE  to_bytes(kind, Values[kind]) \in Str
  <1> DEFINE h == Sphinx!header_to_bytes(SphinxHeader)
             k == FlattenSeq(SurbKeys)
             p == Field("payload", 0, 33)
  <1>1. h \in Str
    BY ValuesTyped, HeadersAreStrings
  <1>2. Address \in Str /\ Sphinx!routing_to_bytes(Routing) \in Str
    BY ValuesTyped, RoutingReadsBack DEF Strings, Str
  <1>3. k \in Str
    BY SurbKeysTyped, FlattenStr
  <1>4. p \in Str
    <2>1. "payload" \in FieldNames
      BY Zenon DEF FieldNames
    <2>2. 0 \in Nat /\ 33 \in Nat
      OBVIOUS
    <2> QED
      BY <2>1, <2>2, FieldStr, Zenon
  <1> HIDE DEF h, k, p
  <1>5. h \o p \in Str /\ h \o Address \in Str
    BY <1>1, <1>2, <1>4, CatStr
  <1>6. h \o Address \o k \in Str
    <2> DEFINE x == h \o Address
    <2>1. x \in Str
      BY <1>5
    <2> HIDE DEF x
    <2>2. x \o k \in Str
      BY <1>3, <2>1, CatStr
    <2> QED
      BY <2>2 DEF x
  <1> QED
    BY <1>1, <1>2, <1>5, <1>6, ArtefactBytes, KindsOfValues DEF h, k, p

LEMMA SentStr ==
  /\ \A a \in Onions : /\ a.kind = "onion" /\ a.link \in Links
                       /\ SentBytes(a) = serialize(Sent(a.link)) /\ SentBytes(a) \in Str
  /\ \A a \in Artefacts : /\ a.kind \in DOMAIN Values /\ a.kind # "onion"
                          /\ SentBytes(a) = to_bytes(a.kind, Values[a.kind])
                          /\ SentBytes(a) \in Str
  <1>1. ASSUME NEW a \in Onions
        PROVE  /\ a.kind = "onion" /\ a.link \in Links
               /\ SentBytes(a) = serialize(Sent(a.link)) /\ SentBytes(a) \in Str
    <2>1. a.kind = "onion" /\ a.link \in Links
      BY DEF Onions
    <2>2. serialize(Sent(a.link)) \in Str
      BY <2>1, SentParted
    <2> QED
      BY <2>1, <2>2 DEF SentBytes
  <1>2. ASSUME NEW a \in Artefacts
        PROVE  /\ a.kind \in DOMAIN Values /\ a.kind # "onion"
               /\ SentBytes(a) = to_bytes(a.kind, Values[a.kind])
               /\ SentBytes(a) \in Str
    <2>1. a.kind \in DOMAIN Values
      BY DEF Artefacts
    <2>2. a.kind # "onion"
      BY <2>1, KindsOfValues
    <2>3. SentBytes(a) = to_bytes(a.kind, Values[a.kind])
      BY <2>2, Zenon DEF SentBytes
    <2> QED
      BY <2>1, <2>2, <2>3, ArtefactStr
  <1> QED
    BY <1>1, <1>2

(* What becomes of a byte: a byte of a number stays one, any other is      *)
(* altered.  It is another byte.                                           *)
LEMMA OtherBytes ==
  ASSUME NEW byte \in Byte, NEW b \in Others(byte)
  PROVE  /\ b \in Byte /\ b # byte
         /\ b = altered <=> byte[1] # "#"
  <1>1. CASE byte[1] # "#"
    <2>1. b = altered /\ b # byte
      BY <1>1 DEF Others
    <2>2. "altered" \in FieldNames
      BY Zenon DEF FieldNames
    <2>3. altered \in Byte
      <3>1. 0 \in Nat
        OBVIOUS
      <3> QED
        BY <2>2, <3>1, FieldBytesAreBytes DEF altered
    <2> QED
      BY <1>1, <2>1, <2>3
  <1>2. CASE byte[1] = "#"
    <2>1. byte \notin FieldNames \X Nat \X Nat
      BY <1>2 DEF FieldNames
    <2>2. PICK v \in 0 .. 255 : byte = NumberByte(v)
      BY <2>1 DEF Byte
    <2>3. byte[3] = v
      BY <2>2 DEF NumberByte
    <2>4. PICK w \in (AlteredValues \cup {v - 1, v + 1}) \ {v} :
            b = NumberByte(w) /\ b # NumberByte(-1) /\ b # NumberByte(256)
      BY <1>2, <2>3 DEF Others
    <2>5. w \in -1 .. 256
      BY <2>2, <2>4, WireAssumption
    <2>6. w # -1 /\ w # 256
      BY <2>4
    <2>7. w \in 0 .. 255
      BY <2>5, <2>6
    <2>8. b \in Byte
      BY <2>4, <2>7, NumbersAreBytes
    <2>9. b # altered
      BY <2>4 DEF altered, NumberByte
    <2>10. b # byte
      BY <2>2, <2>4 DEF NumberByte
    <2> QED
      BY <1>2, <2>8, <2>9, <2>10
  <1> QED
    BY <1>1, <1>2

(* What can happen to a string, and what is there afterwards.              *)
Changed(s, c) ==
  \/ c = Untouched
  \/ c.kind = "alter" /\ c.at \in DOMAIN s /\ c.byte \in Others(s[c.at])
  \/ c.kind = "cut" /\ c.at \in 0 .. Len(s) - 1
  \/ c.kind = "append" /\ c.at = 0 /\ c.byte = altered

After(s, c) ==
  CASE c.kind = "none"   -> s
    [] c.kind = "alter"  -> [s EXCEPT ![c.at] = c.byte]
    [] c.kind = "cut"    -> SubSeq(s, 1, c.at)
    [] c.kind = "append" -> Append(s, c.byte)

LEMMA ReceivedIs == Received = After(SentBytes(artefact), change)
  BY Zenon DEF Received, After

LEMMA AfterIs ==
  /\ \A s, c : c.kind = "none" => After(s, c) = s
  /\ \A s, c : c.kind = "alter" => After(s, c) = [s EXCEPT ![c.at] = c.byte]
  /\ \A s, c : c.kind = "cut" => After(s, c) = SubSeq(s, 1, c.at)
  /\ \A s, c : c.kind = "append" => After(s, c) = Append(s, c.byte)
  BY DEF After

LEMMA AlteredIsByte == altered \in Byte /\ altered[1] # "#"
  <1>1. "altered" \in FieldNames
    BY Zenon DEF FieldNames
  <1>2. 0 \in Nat
    OBVIOUS
  <1> QED
    BY <1>1, <1>2, FieldBytesAreBytes DEF altered

LEMMA AfterStr ==
  ASSUME NEW s \in Str, NEW c, Changed(s, c)
  PROVE  /\ After(s, c) \in Str
         /\ Len(After(s, c)) <= Len(s) + 1
  <1>0. s \in Seq(Byte) /\ Len(s) \in Nat /\ DOMAIN s = 1 .. Len(s)
    BY DEF Str
  <1>1. CASE c = Untouched
    <2>1. After(s, c) = s
      BY <1>1, AfterIs DEF Untouched
    <2> QED
      BY <1>0, <2>1
  <1>2. CASE c.kind = "alter" /\ c.at \in DOMAIN s /\ c.byte \in Others(s[c.at])
    <2>1. s[c.at] \in Byte
      BY <1>0, <1>2, BytesOf
    <2>2. c.byte \in Byte
      BY <1>2, <2>1, OtherBytes
    <2>3. [s EXCEPT ![c.at] = c.byte] \in Seq(Byte) /\ Len([s EXCEPT ![c.at] = c.byte]) = Len(s)
      BY <1>0, <1>2, <2>2
    <2> QED
      BY <1>0, <1>2, <2>3, AfterIs DEF Str
  <1>3. CASE c.kind = "cut" /\ c.at \in 0 .. Len(s) - 1
    <2>1. SubSeq(s, 1, c.at) \in Seq(Byte) /\ Len(SubSeq(s, 1, c.at)) = c.at
      BY <1>0, <1>3
    <2>2. After(s, c) = SubSeq(s, 1, c.at)
      BY <1>3, AfterIs, Zenon
    <2> QED
      BY <1>0, <1>3, <2>1, <2>2 DEF Str
  <1>4. CASE c.kind = "append" /\ c.at = 0 /\ c.byte = altered
    <2>1. Append(s, c.byte) \in Seq(Byte) /\ Len(Append(s, c.byte)) = Len(s) + 1
      BY <1>0, <1>4, AlteredIsByte
    <2> QED
      BY <1>0, <1>4, <2>1, AfterIs DEF Str
  <1> QED
    BY <1>1, <1>2, <1>3, <1>4 DEF Changed

(* An alteration makes another string of the same length, of one byte.     *)
LEMMA OneByte ==
  ASSUME NEW s \in Str, NEW c, Changed(s, c), c.kind = "alter"
  PROVE  /\ c.at \in 1 .. Len(s) /\ Len(After(s, c)) = Len(s)
         /\ After(s, c)[c.at] # s[c.at]
         /\ \A i \in 1 .. Len(s) : i # c.at => After(s, c)[i] = s[i]
  <1>1. s \in Seq(Byte) /\ DOMAIN s = 1 .. Len(s) /\ Len(s) \in Nat
    BY DEF Str
  <1>2. c.at \in 1 .. Len(s) /\ c.byte \in Others(s[c.at])
    BY <1>1 DEF Changed, Untouched
  <1>3. s[c.at] \in Byte
    BY <1>1, <1>2, BytesOf
  <1>4. c.byte # s[c.at] /\ c.byte \in Byte
    BY <1>2, <1>3, OtherBytes
  <1>5. After(s, c) = [s EXCEPT ![c.at] = c.byte]
    BY AfterIs
  <1> QED
    BY <1>1, <1>2, <1>4, <1>5

(* A slice that the alteration does not reach is as it was.                *)
LEMMA Unreached ==
  ASSUME NEW s \in Str, NEW c, Changed(s, c), c.kind = "alter",
         NEW i \in Nat, NEW j \in Nat, i <= j, j <= Len(s), c.at \notin i + 1 .. j
  PROVE  Sphinx!Slice(After(s, c), i, j) = Sphinx!Slice(s, i, j)
  <1> DEFINE t == After(s, c)
             at == c.at
  <1>1. s \in Seq(Byte) /\ DOMAIN s = 1 .. Len(s) /\ Len(s) \in Nat
    BY DEF Str
  <1>2. at \in 1 .. Len(s)
    BY <1>1 DEF Changed, Untouched
  <1>3. t = [s EXCEPT ![at] = c.byte] /\ t \in Str
    BY AfterIs, AfterStr
  <1>4. t \in Seq(Byte) /\ Len(t) = Len(s) /\ \A x \in 1 .. Len(s) : x # at => t[x] = s[x]
    <2> HIDE DEF t
    <2>1. t \in Seq(Byte)
      BY <1>3 DEF Str
    <2> QED
      BY <1>1, <1>3, <2>1
  <1> HIDE DEF t
  <1>5. \A x \in i + 1 .. j : t[x] = s[x]
    <2> TAKE x \in i + 1 .. j
    <2>1. x \in 1 .. Len(s) /\ x # at
      BY <1>1
    <2> QED
      BY <1>4, <2>1
  <1> HIDE DEF at
  <1>6. /\ SubSeq(t, i + 1, j) = [x \in 1 .. j - i |-> t[x + i]]
        /\ SubSeq(s, i + 1, j) = [x \in 1 .. j - i |-> s[x + i]]
    BY <1>1, <1>4
  <1>7. \A x \in 1 .. j - i : t[x + i] = s[x + i]
    <2> TAKE x \in 1 .. j - i
    <2>1. x + i \in i + 1 .. j
      OBVIOUS
    <2> QED
      BY <1>5, <2>1
  <1>8. SubSeq(t, i + 1, j) = SubSeq(s, i + 1, j)
    BY <1>6, <1>7
  <1> QED
    BY <1>8 DEF Sphinx!Slice, t

-----------------------------------------------------------------------------
(* What is true all along: a layer stays as it is, everything else is what *)
(* was sent or one change away from it, and the result is what a reader    *)
(* makes of the bytes that have arrived.                                   *)

Answer(link, bytes) ==
  LET read == deserialize(bytes)
  IN  IF read.ok THEN Handled(link, read.onion) ELSE read

WireInv ==
  /\ artefact \in Onions \cup Artefacts \cup Layers
  /\ artefact.kind = "layer" => change = Untouched
  /\ artefact.kind # "layer" => Changed(SentBytes(artefact), change)
  /\ artefact.kind = "onion" => result \in {Pending, Answer(artefact.link, Received)}
  /\ artefact.kind \in DOMAIN Values =>
       result \in {Pending, from_bytes(artefact.kind, Received), Sphinx!Err("InvalidRouting")}

LEMMA KindsApart ==
  /\ "onion" \notin DOMAIN Values /\ "layer" \notin DOMAIN Values
  /\ \A a \in Onions : a.kind = "onion"
  /\ \A a \in Artefacts : a.kind \in DOMAIN Values
  /\ \A a \in Layers : a.kind = "layer"
  BY KindsOfValues DEF Onions, Artefacts, Layers

LEMMA WireInit == Init => WireInv
  BY DEF Init, WireInv, Changed

LEMMA WireStep ==
  ASSUME WireInv, [Next]_vars
  PROVE  WireInv'
  <1> USE DEF WireInv
  <1>1. ASSUME UNCHANGED vars PROVE WireInv'
    <2>1. Received' = Received
      BY <1>1 DEF Received, vars
    <2> QED
      BY <1>1, <2>1 DEF vars
  <1>2. ASSUME UNCHANGED <<artefact, result>>, OnTheWire,
               Changed(SentBytes(artefact), change')
        PROVE  WireInv'
    <2>1. artefact.kind # "layer" /\ result = Pending
      BY <1>2, KindsApart DEF OnTheWire
    <2>2. artefact' = artefact /\ result' = Pending
      BY <1>2, <2>1
    <2> QED
      BY <1>2, <2>1, <2>2
  <1>3. CASE Alter
    <2>1. PICK i \in DOMAIN SentBytes(artefact) : \E b \in Others(SentBytes(artefact)[i]) :
                 change' = [kind |-> "alter", at |-> i, byte |-> b]
      BY <1>3 DEF Alter
    <2>2. Changed(SentBytes(artefact), change')
      BY <2>1 DEF Changed
    <2> QED
      BY <1>2, <1>3, <2>2 DEF Alter
  <1>4. CASE Cut
    <2>1. PICK n \in 0 .. Len(SentBytes(artefact)) - 1 :
                 change' = [kind |-> "cut", at |-> n, byte |-> altered]
      BY <1>4 DEF Cut
    <2>2. Changed(SentBytes(artefact), change')
      BY <2>1 DEF Changed
    <2> QED
      BY <1>2, <1>4, <2>2 DEF Cut
  <1>5. CASE Extend
    <2>1. Changed(SentBytes(artefact), change')
      BY <1>5 DEF Changed, Extend
    <2> QED
      BY <1>2, <1>5, <2>1 DEF Extend
  <1>6. CASE ReadOnion
    <2>1. artefact' = artefact /\ change' = change /\ artefact.kind = "onion"
      BY <1>6 DEF ReadOnion
    <2>2. result' = Answer(artefact.link, Received)
      BY <1>6, Zenon DEF ReadOnion, Answer
    <2>3. Received' = Received
      BY <2>1 DEF Received
    <2> QED
      BY <2>1, <2>2, <2>3, KindsApart
  <1>7. CASE ReadArtefact
    <2>1. artefact' = artefact /\ change' = change /\ artefact.kind \in DOMAIN Values
      BY <1>7 DEF ReadArtefact
    <2>2. result' = from_bytes(artefact.kind, Received)
      BY <1>7 DEF ReadArtefact
    <2>3. Received' = Received
      BY <2>1 DEF Received
    <2> QED
      BY <2>1, <2>2, <2>3, KindsApart
  <1>8. CASE ReadAddressString
    <2>1. artefact' = artefact /\ change' = change /\ artefact.kind = "address"
      BY <1>8 DEF ReadAddressString
    <2>2. result' \in {Sphinx!try_from_base58_string(Sphinx!Ok(Received)),
                       Sphinx!try_from_base58_string(Sphinx!Err("bs58"))}
      BY <1>8 DEF ReadAddressString
    <2>3. Sphinx!try_from_base58_string(Sphinx!Ok(Received))
            = from_bytes(artefact.kind, Received)
      BY <2>1 DEF Sphinx!try_from_base58_string, Sphinx!Ok, from_bytes
    <2>4. Sphinx!try_from_base58_string(Sphinx!Err("bs58")) = Sphinx!Err("InvalidRouting")
      BY DEF Sphinx!try_from_base58_string, Sphinx!Err
    <2>5. Received' = Received
      BY <2>1 DEF Received
    <2> QED
      BY <2>1, <2>2, <2>3, <2>4, <2>5, KindsApart
  <1>9. CASE ReadLayer
    <2>1. artefact' = artefact /\ change' = change /\ artefact.kind = "layer"
      BY <1>9 DEF ReadLayer
    <2> QED
      BY <2>1, KindsApart
  <1>10. CASE Done
    BY <1>1, <1>10 DEF Done
  <1>11. CASE UNCHANGED vars
    BY <1>1, <1>11
  <1> QED
    BY <1>3, <1>4, <1>5, <1>6, <1>7, <1>8, <1>9, <1>10, <1>11 DEF Next

(* What a reader of an onion has before it. *)
LEMMA OnionHas ==
  ASSUME WireInv, Has("onion")
  PROVE  /\ artefact.link \in Links
         /\ SentBytes(artefact) = serialize(Sent(artefact.link))
         /\ SentBytes(artefact) \in Str
         /\ Changed(SentBytes(artefact), change)
         /\ Received = After(SentBytes(artefact), change)
         /\ Received \in Str /\ Len(Received) < TooLarge
         /\ result = Answer(artefact.link, Received)
  <1>1. artefact \in Onions /\ artefact.kind # "layer"
    BY KindsApart DEF WireInv, Has
  <1>2. /\ artefact.link \in Links /\ SentBytes(artefact) = serialize(Sent(artefact.link))
        /\ SentBytes(artefact) \in Str
    BY <1>1, SentStr
  <1>3. Changed(SentBytes(artefact), change)
    BY <1>1 DEF WireInv
  <1>4. Received \in Str /\ Len(Received) <= Len(SentBytes(artefact)) + 1
    BY <1>2, <1>3, AfterStr, ReceivedIs
  <1>5. Len(Received) < TooLarge
    <2> DEFINE x == Len(Received)  y == Len(SentBytes(artefact))
    <2>1. y + 1 < TooLarge
      BY <1>2, SentParted
    <2>2. x \in Nat /\ y \in Nat /\ x <= y + 1 /\ TooLarge \in Nat
      BY <1>2, <1>4, LenNat DEF TooLarge
    <2> HIDE DEF x, y
    <2>3. x < TooLarge
      BY <2>1, <2>2
    <2> QED
      BY <2>3 DEF x
  <1>6. result = Answer(artefact.link, Received)
    BY DEF WireInv, Has
  <1> QED
    BY <1>2, <1>3, <1>4, <1>5, <1>6, ReceivedIs

(* What a reader of an artefact has before it, if it is not refused.       *)
LEMMA ArtefactHas ==
  ASSUME WireInv, artefact.kind \in DOMAIN Values, result # Pending, result.ok
  PROVE  /\ SentBytes(artefact) = to_bytes(artefact.kind, Values[artefact.kind])
         /\ SentBytes(artefact) \in Str
         /\ Changed(SentBytes(artefact), change)
         /\ Received = After(SentBytes(artefact), change)
         /\ Received \in Str
         /\ result = from_bytes(artefact.kind, Received)
  <1>1. artefact \in Artefacts /\ artefact.kind # "layer"
    BY KindsApart DEF WireInv
  <1>2. /\ SentBytes(artefact) = to_bytes(artefact.kind, Values[artefact.kind])
        /\ SentBytes(artefact) \in Str
    BY <1>1, SentStr
  <1>3. Changed(SentBytes(artefact), change)
    BY <1>1 DEF WireInv
  <1>4. Received \in Str
    BY <1>2, <1>3, AfterStr, ReceivedIs
  <1>5. result = from_bytes(artefact.kind, Received)
    <2>1. ~ Sphinx!Err("InvalidRouting").ok
      BY DEF Sphinx!Err
    <2> QED
      BY <2>1 DEF WireInv
  <1> QED
    BY <1>2, <1>3, <1>4, <1>5, ReceivedIs

(* An onion that is not refused was read.                                  *)
LEMMA AcceptedWasRead ==
  ASSUME NEW link, NEW s, Answer(link, s).ok
  PROVE  deserialize(s).ok /\ Answer(link, s) = Handled(link, deserialize(s).onion)
  <1> DEFINE read == deserialize(s)
  <1>1. Answer(link, s) = IF read.ok THEN Handled(link, read.onion) ELSE read
    BY Zenon DEF Answer
  <1> HIDE DEF read
  <1>2. read.ok
    BY <1>1
  <1> QED
    BY <1>1, <1>2 DEF read

-----------------------------------------------------------------------------
(* The border between a first cell and what comes behind it is not covered *)
(* by the tag: a cell may go on after its block.  But a longer cell moves  *)
(* the forward section, which is too long to stand at two places.          *)

LEMMA ByteOfFirst ==
  ASSUME NEW a \in Str, NEW b \in Str, NEW i \in 1 .. Len(a)
  PROVE  (a \o b)[i] = a[i]
  BY DEF Str

LEMMA ByteOfSecond ==
  ASSUME NEW a \in Str, NEW b \in Str, NEW i \in 1 .. Len(b)
  PROVE  (a \o b)[Len(a) + i] = b[i]
  BY DEF Str

(* Two headers with the same cells but the first, one of which goes on.    *)
LEMMA LongerByItsFirst ==
  ASSUME NEW h, Writable(h), h # <<>>, NEW k, Writable(k), k # <<>>,
         Tail(h) = Tail(k), NEW r \in Str, h[1] = k[1] \o r
  PROVE  Len(Vectors(h)) = Len(Vectors(k)) + Len(r)
  <1> DEFINE n  == Len(h)
             ph == Packed(h)
             pk == Packed(k)
             P(c) == Len(JoinedUpTo(ph, c + 1)) = Len(JoinedUpTo(pk, c + 1)) + Len(r)
             T  == {c \in 0 .. n - 1 : P(c)}
  <1>1. /\ n \in Nat /\ n >= 1 /\ n < TooLarge /\ Len(k) = n
        /\ \A c \in 2 .. n : h[c] = k[c]
    <2>1. h \in Seq(Str) /\ k \in Seq(Str) /\ Len(h) >= 1 /\ Len(k) >= 1 /\ n < TooLarge
      BY TailWritable DEF Writable, Strs
    <2>2. /\ Len(Tail(h)) = Len(h) - 1 /\ Len(Tail(k)) = Len(k) - 1
          /\ \A c \in 2 .. Len(h) : h[c] = Tail(h)[c - 1]
          /\ \A c \in 2 .. Len(k) : k[c] = Tail(k)[c - 1]
      BY <2>1
    <2>3. Len(h) \in Nat /\ Len(k) \in Nat
      BY <2>1
    <2>4. Len(Tail(h)) = Len(Tail(k))
      OBVIOUS
    <2>5. Len(k) = Len(h)
      <3> DEFINE lh == Len(h)  lk == Len(k)  th == Len(Tail(h))  tk == Len(Tail(k))
      <3>1. lh \in Nat /\ lk \in Nat /\ th = lh - 1 /\ tk = lk - 1 /\ th = tk
        BY <2>2, <2>3, <2>4
      <3> HIDE DEF lh, lk, th, tk
      <3>2. lk = lh
        BY <3>1
      <3> QED
        BY <3>2 DEF lh, lk
    <2>6. ASSUME NEW c \in 2 .. Len(h) PROVE h[c] = k[c]
      <3>1. h[c] = Tail(h)[c - 1] /\ k[c] = Tail(k)[c - 1]
        BY <2>2, <2>5
      <3> QED
        BY <3>1
    <2> QED
      BY <2>1, <2>3, <2>5, <2>6
  <1>2. /\ ph \in Strs /\ Len(ph) = n
        /\ \A c \in 1 .. n : ph[c] = Vector(h[c]) /\ ph[c] \in Str
    BY PackedTyped DEF Writable
  <1>3. /\ pk \in Strs /\ Len(pk) = n
        /\ \A c \in 1 .. n : pk[c] = Vector(k[c]) /\ pk[c] \in Str
    BY <1>1, PackedTyped DEF Writable
  <1>4. h[1] \in Str /\ Len(h[1]) < TooLarge /\ k[1] \in Str /\ Len(k[1]) < TooLarge
    BY TailWritable
  <1>5. Len(r) \in Nat /\ Len(h[1]) = Len(k[1]) + Len(r) /\ Len(k[1]) \in Nat
    <2> DEFINE x == k[1]
    <2>1. x \in Str
      BY <1>4
    <2> HIDE DEF x
    <2>2. Len(x \o r) = Len(x) + Len(r)
      BY <2>1, CatStr
    <2> QED
      BY <2>1, <2>2, LenNat DEF x
  <1>6. Len(ph[1]) = Len(pk[1]) + Len(r) /\ \A c \in 2 .. n : ph[c] = pk[c]
    <2>1. Len(Vector(h[1])) = 8 + Len(h[1]) /\ Len(Vector(k[1])) = 8 + Len(k[1])
      BY <1>4, VectorStr
    <2>2. ph[1] = Vector(h[1]) /\ pk[1] = Vector(k[1])
      <3>1. 1 \in 1 .. n
        BY <1>1
      <3> HIDE DEF ph, pk, n
      <3> QED
        BY <1>2, <1>3, <3>1
    <2>3. \A c \in 2 .. n : ph[c] = pk[c]
      <3> TAKE c \in 2 .. n
      <3>1. c \in 1 .. n
        OBVIOUS
      <3> QED
        BY <1>1, <1>2, <1>3, <3>1
    <2> HIDE DEF ph, pk
    <2> QED
      BY <1>5, <2>1, <2>2, <2>3
  <1> HIDE DEF n, ph, pk
  <1>7. /\ \A c \in 0 .. n : JoinedUpTo(ph, c) \in Str
        /\ JoinedUpTo(ph, 0) = <<>> /\ JoinedUpTo(ph, n) = FlattenSeq(ph)
        /\ \A c \in 0 .. n - 1 : JoinedUpTo(ph, c + 1) = JoinedUpTo(ph, c) \o ph[c + 1]
    BY <1>2, JoinedSteps
  <1>8. /\ \A c \in 0 .. n : JoinedUpTo(pk, c) \in Str
        /\ JoinedUpTo(pk, 0) = <<>> /\ JoinedUpTo(pk, n) = FlattenSeq(pk)
        /\ \A c \in 0 .. n - 1 : JoinedUpTo(pk, c + 1) = JoinedUpTo(pk, c) \o pk[c + 1]
    BY <1>3, JoinedSteps
  <1>9. 0 \in T
    <2>1. 0 \in 0 .. n - 1 /\ 0 + 1 = 1 /\ 1 \in 1 .. n
      BY <1>1
    <2>2. /\ JoinedUpTo(ph, 0 + 1) = <<>> \o ph[1]
          /\ JoinedUpTo(pk, 0 + 1) = <<>> \o pk[1]
      BY <1>7, <1>8, <2>1
    <2>3. ph[1] \in Str /\ pk[1] \in Str
      BY <1>2, <1>3, <2>1
    <2>4. JoinedUpTo(ph, 0 + 1) = ph[1] /\ JoinedUpTo(pk, 0 + 1) = pk[1]
      BY <2>2, <2>3, EmptyStr
    <2> QED
      BY <1>6, <2>1, <2>4
  <1>10. ASSUME NEW c \in 0 .. (n - 1) - 1, c \in T PROVE c + 1 \in T
    <2> DEFINE a == JoinedUpTo(ph, c + 1)
               b == JoinedUpTo(pk, c + 1)
               x == ph[(c + 1) + 1]
    <2>1. /\ c + 1 \in 0 .. n - 1 /\ c + 1 \in 0 .. n
          /\ (c + 1) + 1 \in 2 .. n /\ (c + 1) + 1 \in 1 .. n
      BY <1>1
    <2>2. a \in Str /\ b \in Str /\ x \in Str /\ x = pk[(c + 1) + 1]
      BY <1>2, <1>6, <1>7, <1>8, <2>1
    <2>3. /\ JoinedUpTo(ph, (c + 1) + 1) = a \o x
          /\ JoinedUpTo(pk, (c + 1) + 1) = b \o x
      BY <1>7, <1>8, <2>1, <2>2
    <2>4. Len(a) = Len(b) + Len(r)
      BY <1>10
    <2> HIDE DEF a, b, x
    <2>5. /\ Len(a \o x) = Len(a) + Len(x) /\ Len(b \o x) = Len(b) + Len(x)
          /\ Len(b) \in Nat /\ Len(x) \in Nat
      BY <2>2, CatStr, LenNat
    <2>6. Len(a \o x) = Len(b \o x) + Len(r)
      BY <1>5, <2>4, <2>5
    <2>7. P(c + 1)
      BY <2>3, <2>6
    <2> QED
      BY <2>1, <2>7
  <1>11. 0 .. n - 1 \subseteq T
    <2>1. n - 1 \in Nat
      BY <1>1
    <2> HIDE DEF T
    <2> QED
      BY <1>9, <1>10, <2>1, UpTo
  <1>12. Len(FlattenSeq(ph)) = Len(FlattenSeq(pk)) + Len(r)
    <2>1. n - 1 \in 0 .. n - 1 /\ (n - 1) + 1 = n
      BY <1>1
    <2>2. P(n - 1)
      BY <1>11, <2>1
    <2> QED
      BY <1>7, <1>8, <2>1, <2>2
  <1> DEFINE fh == FlattenSeq(ph)
             fk == FlattenSeq(pk)
             m  == LittleEndian(n, 8)
  <1>13. /\ Vectors(h) = m \o fh /\ fh \in Str
         /\ Vectors(k) = m \o fk /\ fk \in Str
    BY <1>1, VectorsStr DEF n, ph, pk
  <1>14. m \in Str /\ Len(m) = 8
    BY <1>1, NumberReadsBack, EmptyStr
  <1> HIDE DEF m
  <1>15. Len(fh) = Len(fk) + Len(r)
    BY <1>12
  <1> HIDE DEF fh, fk
  <1>16. /\ Len(m \o fh) = Len(m) + Len(fh) /\ Len(m \o fk) = Len(m) + Len(fk)
         /\ Len(fk) \in Nat
    BY <1>13, <1>14, CatStr, LenNat
  <1>17. Len(m \o fh) = Len(m \o fk) + Len(r)
    BY <1>5, <1>14, <1>15, <1>16
  <1> QED
    BY <1>13, <1>17

(* What an onion has in front of its backward section. *)
InFront(h, f) == Vectors(h) \o Vector(f)

Fronted(h, f, v, g, t) ==
  \E w \in Str :
    /\ serialize(OnionOf(h, f, v, g)) \o t = InFront(h, f) \o w
    /\ InFront(h, f) \in Str
    /\ Len(InFront(h, f)) = Len(Vectors(h)) + 8 + Len(f)
    /\ Vectors(h) \in Str /\ Vector(f) \in Str

LEMMA FrontIs ==
  ASSUME NEW h, NEW f, NEW v, NEW g, Parted(h, f, v, g), NEW t \in Str
  PROVE  Fronted(h, f, v, g, t)
  <1> DEFINE a == Vectors(h)
             b == Vector(f)
             w == Vector(v) \o (g \o t)
  <1>1. Written(h, f, v, g, t)
    BY OnionWritten
  <1>2. serialize(OnionOf(h, f, v, g)) \o t = a \o (b \o w) /\ w \in Str
    BY <1>1, Zenon DEF Written
  <1>3. a \in Str /\ b \in Str /\ Len(b) = 8 + Len(f) /\ Len(f) \in Nat
    BY VectorsStr, VectorStr, LenNat DEF Parted
  <1> HIDE DEF a, b, w
  <1>4. Assoc(a, b, w)
    BY <1>2, <1>3, AssocOf
  <1>5. serialize(OnionOf(h, f, v, g)) \o t = (a \o b) \o w
    BY <1>2, <1>4 DEF Assoc
  <1>6. a \o b \in Str /\ Len(a \o b) = Len(a) + Len(b) /\ Len(a) \in Nat
    BY <1>3, CatStr, LenNat
  <1>7. Len(a \o b) = Len(a) + 8 + Len(f)
    BY <1>3, <1>6
  <1>8. /\ serialize(OnionOf(h, f, v, g)) \o t = InFront(h, f) \o w
        /\ InFront(h, f) \in Str
        /\ Len(InFront(h, f)) = Len(Vectors(h)) + 8 + Len(f)
        /\ Vectors(h) \in Str /\ Vector(f) \in Str
    BY <1>3, <1>5, <1>6, <1>7 DEF InFront, a, b
  <1> QED
    BY <1>2, <1>8, Zenon DEF Fronted

(* Where the bytes of the forward section stand.                           *)
Stands(h, f, w, j) == (InFront(h, f) \o w)[Len(Vectors(h)) + 8 + j] = f[j]

LEMMA ForwardStands ==
  ASSUME NEW h, NEW f, InFront(h, f) \in Str, Vectors(h) \in Str, f \in Str, Len(f) < TooLarge,
         NEW w \in Str, NEW j \in 1 .. Len(f)
  PROVE  Stands(h, f, w, j)
  <1> DEFINE a == Vectors(h)
             m == LittleEndian(Len(f), 8)
             b == m \o f
             i == 8 + j
  <1>1. Len(f) \in Nat /\ Len(a) \in Nat
    BY LenNat
  <1>2. m \in Str /\ Len(m) = 8
    BY <1>1, NumberReadsBack, EmptyStr
  <1>3. a \in Str /\ InFront(h, f) = a \o b
    BY DEF InFront, Vector
  <1> HIDE DEF a, m, i
  <1>4. b \in Str /\ Len(b) = 8 + Len(f)
    BY <1>2, CatStr
  <1>5. b[i] = f[j]
    <2>1. (m \o f)[Len(m) + j] = f[j]
      BY <1>2, ByteOfSecond
    <2> QED
      BY <1>2, <2>1 DEF i
  <1> HIDE DEF b
  <1>6. i \in 1 .. Len(b) /\ i \in Nat
    BY <1>1, <1>4 DEF i
  <1>7. (a \o b)[Len(a) + i] = b[i]
    BY <1>3, <1>4, <1>6, ByteOfSecond
  <1> DEFINE x == a \o b
             e == Len(a) + i
  <1>8. x \in Str /\ Len(x) = Len(a) + Len(b)
    BY <1>3, <1>4, CatStr
  <1>9. e \in 1 .. Len(x)
    BY <1>1, <1>4, <1>6, <1>8 DEF a
  <1> HIDE DEF x, e
  <1>10. (x \o w)[e] = x[e]
    BY <1>8, <1>9, ByteOfFirst
  <1>11. e = Len(a) + 8 + j
    BY <1>1, <1>3, LenNat DEF e, i
  <1> QED
    BY <1>3, <1>5, <1>7, <1>10, <1>11 DEF Stands, x, e, a

(* An onion of which a byte was altered, and which is peeled all the same, *)
(* was altered in its backward section: all that is in front stands where  *)
(* it stood.                                                               *)
LEMMA BordersStand ==
  ASSUME NEW link \in Links, NEW c, Changed(serialize(Sent(link)), c), c.kind = "alter",
         NEW h, NEW f, NEW v, NEW g, Parted(h, f, v, g), NEW t \in Str,
         serialize(OnionOf(h, f, v, g)) \o t = After(serialize(Sent(link)), c),
         unwrap(link, OnionOf(h, f, v, g)).ok
  PROVE  /\ h = SentHeader(link) /\ f = SentForward(link)
         /\ c.at > Len(InFront(SentHeader(link), SentForward(link)))
  <1> DEFINE b  == serialize(Sent(link))
             s  == After(b, c)
             sh == SentHeader(link)
             sf == SentForward(link)
             n  == MaxPathLength
             p  == link.payload
             x  == Len(Vectors(sh))
             l  == Len(sf)
  <1>1. f = sf /\ Tail(h) = Tail(sh) /\ h # <<>>
    BY UnwrapSame
  <1>2. PICK r \in Str : h[1] = sh[1] \o r
    BY UnwrapSame
  <1>3. /\ Parted(sh, sf, SentVec(link), SentTag) /\ b \in Str
        /\ b = serialize(OnionOf(sh, sf, SentVec(link), SentTag)) \o <<>>
        /\ Len(b) = 2 * (124 * n + p) + 56
    <2>1. Parted(sh, sf, SentVec(link), SentTag) /\ b \in Str /\ SizeIs(link)
      BY SentMeasured
    <2>2. b = serialize(OnionOf(sh, sf, SentVec(link), SentTag))
      BY SentIs
    <2>3. b \o <<>> = b
      BY <2>1, EmptyStr
    <2> QED
      BY <2>1, <2>2, <2>3, Zenon DEF SizeIs
  <1>4. /\ n \in Nat /\ n >= 1 /\ p \in Nat
    BY Bounds
  <1>5. sf \in Str /\ l = 16 + 124 * n + p /\ l < TooLarge
        /\ \A j \in 1 .. l : sf[j] = <<"forward", 0, j>>
    <2>1. sf \in Str /\ Len(sf) < TooLarge
      BY <1>3 DEF Parted
    <2>2. ForwardLength(link) = 16 + 124 * n + p
      BY ForwardIs
    <2>3. sf = [j \in 1 .. ForwardLength(link) |-> <<"forward", 0, j>>]
      BY DEF SentForward, Field
    <2> HIDE DEF sf
    <2>4. DOMAIN sf = 1 .. Len(sf) /\ Len(sf) \in Nat
      BY <2>1 DEF Str
    <2>5. 1 .. Len(sf) = 1 .. ForwardLength(link) /\ ForwardLength(link) \in Nat
      BY <1>4, <2>2, <2>3, <2>4
    <2>6. Len(sf) = ForwardLength(link)
      BY <2>4, <2>5
    <2> QED
      BY <2>1, <2>2, <2>3, <2>6
  <1>6. Writable(sh) /\ sh # <<>> /\ x = 8 + 124 * n
    <2>1. Writable(sh) /\ Len(sh) = n /\ \A i \in 1 .. Len(sh) : Len(sh[i]) = 116 /\ sh # <<>>
      BY SentHeaderTyped
    <2> DEFINE k == 116
    <2>2. k \in Nat /\ \A i \in 1 .. Len(sh) : Len(sh[i]) = k
      BY <2>1
    <2>3. sh # <<>>
      BY SentHeaderTyped
    <2> HIDE DEF sh, k
    <2>4. Len(Vectors(sh)) = 8 + (8 + k) * Len(sh)
      BY <2>1, <2>2, VectorsLength
    <2> QED
      BY <1>4, <2>1, <2>3, <2>4 DEF k
  <1> DEFINE q == Len(r)
  <1>7. q \in Nat /\ Len(Vectors(h)) = x + q
    <2>1. Writable(h)
      BY DEF Parted
    <2> HIDE DEF sh
    <2>2. Len(Vectors(h)) = Len(Vectors(sh)) + Len(r)
      BY <1>1, <1>2, <1>6, <2>1, LongerByItsFirst
    <2> QED
      BY <2>2, LenNat
  <1>8. PICK w \in Str : /\ b = InFront(sh, sf) \o w
                         /\ InFront(sh, sf) \in Str /\ Len(InFront(sh, sf)) = x + 8 + l
                         /\ Vectors(sh) \in Str
    <2> DEFINE e  == <<>>
               v0 == SentVec(link)
               g0 == SentTag
    <2>1. e \in Str
      BY EmptyStr
    <2>2. Parted(sh, sf, v0, g0) /\ b = serialize(OnionOf(sh, sf, v0, g0)) \o e
      BY <1>3
    <2> HIDE DEF b, sh, sf, e, v0, g0
    <2>3. Fronted(sh, sf, v0, g0, e)
      BY <2>1, <2>2, FrontIs
    <2> QED
      BY <2>2, <2>3 DEF Fronted
  <1>9. PICK z \in Str : /\ s = InFront(h, f) \o z
                         /\ InFront(h, f) \in Str
                         /\ Len(InFront(h, f)) = Len(Vectors(h)) + 8 + Len(f)
                         /\ Vectors(h) \in Str
    <2>1. serialize(OnionOf(h, f, v, g)) \o t = s
      OBVIOUS
    <2>2. Fronted(h, f, v, g, t)
      BY FrontIs
    <2> HIDE DEF s
    <2> QED
      BY <2>1, <2>2 DEF Fronted
  <1>10. /\ c.at \in 1 .. Len(b) /\ Len(s) = Len(b) /\ s[c.at] # b[c.at]
         /\ \A i \in 1 .. Len(b) : i # c.at => s[i] = b[i]
    <2>1. b \in Str /\ Changed(b, c)
      BY <1>3
    <2> HIDE DEF b
    <2> QED
      BY <2>1, OneByte DEF s
  <1> HIDE DEF b, s, sh, sf, n, p, x, l, q
  <1>11. x \in Nat /\ l \in Nat
    BY <1>4, <1>5, <1>6
  <1>12. q <= p + 24
    <2>1. Len(InFront(h, f) \o z) = Len(InFront(h, f)) + Len(z) /\ Len(z) \in Nat
      BY <1>9, CatStr, LenNat
    <2>2. Len(s) >= x + q + 8 + l
      BY <1>1, <1>7, <1>9, <1>11, <2>1 DEF l
    <2> QED
      BY <1>3, <1>4, <1>5, <1>6, <1>7, <1>10, <2>2
  (* The forward section moved by q: two bytes in a row differ. *)
  <1>13. ASSUME NEW j \in {1, 2}, q # 0
         PROVE  x + q + 8 + j = c.at
    <2> DEFINE i == x + q + 8 + j
    <2>1. /\ j \in 1 .. l /\ q + j \in 1 .. l /\ i \in 1 .. Len(b) /\ j # q + j
      BY <1>3, <1>4, <1>5, <1>6, <1>7, <1>12, <1>13
    <2>2. s[i] = <<"forward", 0, j>>
      <3>1. f \in Str /\ Len(f) < TooLarge /\ j \in 1 .. Len(f)
        BY <1>1, <1>5, <2>1 DEF l
      <3>2. Stands(h, f, z, j)
        BY <1>9, <3>1, ForwardStands
      <3>3. Len(Vectors(h)) + 8 + j = i
        BY <1>7
      <3> QED
        BY <1>1, <1>5, <1>9, <2>1, <3>2, <3>3 DEF Stands
    <2>3. b[i] = <<"forward", 0, q + j>>
      <3>1. sf \in Str /\ Len(sf) < TooLarge /\ q + j \in 1 .. Len(sf)
        BY <1>5, <2>1 DEF l
      <3> DEFINE e == q + j
      <3>2. e \in 1 .. Len(sf)
        BY <3>1
      <3> HIDE DEF e
      <3>3. Stands(sh, sf, w, e)
        <4>1. InFront(sh, sf) \in Str /\ Vectors(sh) \in Str /\ w \in Str
          BY <1>8
        <4>2. sf \in Str /\ Len(sf) < TooLarge
          BY <3>1
        <4> QED
          BY <3>2, <4>1, <4>2, ForwardStands
      <3>4. Len(Vectors(sh)) + 8 + e = i
        BY <1>7, <1>11 DEF x, e
      <3> QED
        BY <1>5, <1>8, <2>1, <3>3, <3>4 DEF Stands, e
    <2>4. s[i] # b[i]
      BY <2>1, <2>2, <2>3
    <2> QED
      BY <1>10, <2>1, <2>4
  <1>14. q = 0
    <2> SUFFICES ASSUME q # 0 PROVE FALSE
      OBVIOUS
    <2>1. x + q + 8 + 1 = c.at /\ x + q + 8 + 2 = c.at
      BY <1>13
    <2> QED
      BY <1>7, <1>11, <2>1
  <1>15. h = sh
    <2>1. r = <<>>
      BY <1>14 DEF q, Str
    <2>2. sh[1] \in Str /\ sh = <<sh[1]>> \o Tail(sh)
      BY <1>6, TailWritable
    <2>3. h[1] = sh[1]
      BY <1>2, <2>1, <2>2, EmptyStr
    <2>4. h = <<h[1]>> \o Tail(h)
      BY <1>1, TailWritable DEF Parted
    <2> QED
      BY <1>1, <2>2, <2>3, <2>4
  <1>16. c.at > Len(InFront(sh, sf))
    <2> DEFINE a == InFront(sh, sf)
    <2> SUFFICES ASSUME ~ (c.at > Len(a)) PROVE FALSE
      OBVIOUS
    <2>1. a \in Str /\ b = a \o w /\ s = a \o z
      BY <1>1, <1>8, <1>9, <1>15
    <2> HIDE DEF a
    <2>2. Len(a) \in Nat
      BY <2>1, LenNat
    <2>3. Len(b) \in Nat
      BY <1>3, LenNat
    <2>4. c.at \in 1 .. Len(a)
      BY <1>10, <2>2, <2>3
    <2>5. (a \o w)[c.at] = a[c.at] /\ (a \o z)[c.at] = a[c.at]
      BY <2>1, <2>4, ByteOfFirst
    <2> QED
      BY <1>10, <2>1, <2>5
  <1> QED
    BY <1>1, <1>15, <1>16 DEF sh, sf

LEMMA BackwardIs ==
  ASSUME artefact.link \in Links
  PROVE  \A i : InBackward(i) <=>
                  i > Len(InFront(SentHeader(artefact.link), SentForward(artefact.link)))
  <1>1. /\ Sent(artefact.link).header = SentHeader(artefact.link)
        /\ Sent(artefact.link).forward = SentForward(artefact.link)
    BY SentIs DEF OnionOf
  <1> QED
    BY <1>1, Zenon DEF InBackward, InFront

(* An onion that was altered and is accepted was altered in its backward   *)
(* section, and not on its way to the sender.                              *)
LEMMA AcceptedThoughAltered ==
  ASSUME NEW link \in Links, NEW c, Changed(serialize(Sent(link)), c), c.kind = "alter",
         NEW h, NEW f, NEW v, NEW g, Parted(h, f, v, g), NEW t \in Str,
         serialize(OnionOf(h, f, v, g)) \o t = After(serialize(Sent(link)), c),
         Handled(link, OnionOf(h, f, v, g)).ok
  PROVE  /\ c.at > Len(InFront(SentHeader(link), SentForward(link)))
         /\ link.role # "Sender"
  <1> DEFINE b == serialize(Sent(link))
             o == OnionOf(h, f, v, g)
  <1>1. unwrap(link, o).ok /\ (link.role = "Sender" => v = SentVec(link) /\ g = SentTag)
    BY HandledAlike
  <1>2. /\ h = SentHeader(link) /\ f = SentForward(link)
        /\ c.at > Len(InFront(SentHeader(link), SentForward(link)))
    BY <1>1, BordersStand
  <1>3. ASSUME link.role = "Sender" PROVE FALSE
    <2>1. o = Sent(link)
      BY <1>1, <1>2, <1>3, SentIs
    <2>2. b \in Str
      BY SentParted
    <2>3. b \o t = After(b, c)
      BY <2>1
    <2> HIDE DEF b
    <2>4. /\ c.at \in 1 .. Len(b) /\ Len(After(b, c)) = Len(b) /\ After(b, c)[c.at] # b[c.at]
      BY <2>2, OneByte DEF b
    <2>5. (b \o t)[c.at] = b[c.at]
      BY <2>2, <2>4, ByteOfFirst
    <2> QED
      BY <2>3, <2>4, <2>5
  <1> QED
    BY <1>2, <1>3

(* No alteration of an onion, wherever it is and whatever the lengths of   *)
(* path and payload, makes a node do something else than the onion that    *)
(* was sent, with one exception: the backward section, which nobody but    *)
(* the sender can check, is passed on or answered as it was read.  A byte  *)
(* that was altered without being noticed is in that section or its        *)
(* length, and was not read by the sender.                                 *)
THEOREM AcceptedIsProcessedAsSent == Spec => []ProcessedAsSent
  <1>1. WireInv => ProcessedAsSent
    <2> SUFFICES ASSUME WireInv, Has("onion"), result.ok
                 PROVE  /\ result = Handled(artefact.link,
                                       [Sent(artefact.link) EXCEPT
                                          !.backward = deserialize(Received).onion.backward])
                        /\ change.kind = "alter" =>
                             InBackward(change.at) /\ artefact.link.role # "Sender"
      BY DEF ProcessedAsSent
    <2> DEFINE link == artefact.link
               s    == Received
               b    == SentBytes(artefact)
    <2>1. /\ link \in Links /\ s \in Str /\ Len(s) < TooLarge /\ result = Answer(link, s)
          /\ b = serialize(Sent(link)) /\ Changed(b, change) /\ s = After(b, change)
      BY OnionHas
    <2>2. \A i : InBackward(i) <=> i > Len(InFront(SentHeader(link), SentForward(link)))
      BY <2>1, BackwardIs
    <2> HIDE DEF link, s, b
    <2>3. deserialize(s).ok /\ result = Handled(link, deserialize(s).onion)
      BY <2>1, AcceptedWasRead
    <2>4. PICK h, f, v, g, t :
             /\ Parted(h, f, v, g) /\ t \in Str
             /\ deserialize(s) = [ok |-> TRUE, onion |-> OnionOf(h, f, v, g)]
             /\ serialize(OnionOf(h, f, v, g)) \o t = s
      BY <2>1, <2>3, OnionStood
    <2>5. result = Handled(link, OnionOf(h, f, v, g))
      BY <2>3, <2>4
    <2>6. Handled(link, OnionOf(h, f, v, g))
            = Handled(link, OnionOf(SentHeader(link), SentForward(link), v, g))
      BY <2>1, <2>4, <2>5, HandledAlike
    <2>7. [Sent(link) EXCEPT !.backward = deserialize(s).onion.backward]
            = OnionOf(SentHeader(link), SentForward(link), v, g)
      <3>1. deserialize(s).onion.backward = [vec |-> v, tag |-> g]
        BY <2>4 DEF OnionOf
      <3> DEFINE x == deserialize(s).onion.backward
      <3>2. [Sent(link) EXCEPT !.backward = x]
              = [header |-> SentHeader(link), forward |-> SentForward(link), backward |-> x]
        BY SentIs DEF OnionOf
      <3> HIDE DEF x
      <3> QED
        BY <3>1, <3>2 DEF OnionOf, x
    <2>8. change.kind = "alter" => /\ change.at > Len(InFront(SentHeader(link), SentForward(link)))
                                   /\ link.role # "Sender"
      BY <2>1, <2>4, <2>5, AcceptedThoughAltered
    <2> QED
      BY <2>2, <2>5, <2>6, <2>7, <2>8 DEF link, s
  <1> QED
    BY <1>1, WireInit, WireStep, PTL DEF Spec

(* A string is a prefix of what it was continued to.                       *)
LEMMA PrefixOf ==
  ASSUME NEW s \in Str, NEW t \in Str
  PROVE  IsPrefix(s, s \o t)
  <1>1. s \in Seq(Byte) /\ t \in Seq(Byte)
    BY DEF Str
  <1>2. Len(s) <= Len(s \o t)
    BY <1>1
  <1>3. SubSeq(s \o t, 1, Len(s)) = s /\ SubSeq(s, 1, Len(s)) = s
    BY <1>1, FirstHalf, SliceAll DEF Sphinx!Slice
  <1> QED
    BY <1>2, <1>3, Zenon DEF IsPrefix

(* Nothing is read that was not written: what any reader accepts is, byte  *)
(* for byte, what the writer makes of the value that was read.             *)
THEOREM AcceptedWasWritten == Spec => []AcceptedIsCanonical
  <1>1. ASSUME WireInv, Has("onion"), deserialize(Received).ok
        PROVE  IsPrefix(serialize(deserialize(Received).onion), Received)
    <2> DEFINE s == Received
    <2>1. s \in Str /\ Len(s) < TooLarge /\ deserialize(s).ok
      BY <1>1, OnionHas
    <2> HIDE DEF s
    <2>2. PICK h, f, v, g, t :
             /\ Parted(h, f, v, g) /\ t \in Str
             /\ deserialize(s) = [ok |-> TRUE, onion |-> OnionOf(h, f, v, g)]
             /\ serialize(OnionOf(h, f, v, g)) \o t = s
      BY <2>1, OnionStood
    <2>3. serialize(OnionOf(h, f, v, g)) \in Str
      BY <2>2, OnionWritten DEF Written
    <2>4. IsPrefix(serialize(OnionOf(h, f, v, g)), s)
      BY <2>2, <2>3, PrefixOf
    <2>5. deserialize(s).onion = OnionOf(h, f, v, g)
      BY <2>2
    <2> QED
      BY <2>4, <2>5 DEF s
  <1>2. ASSUME WireInv, artefact.kind \in DOMAIN Values, result # Pending, result.ok
        PROVE  to_bytes(artefact.kind, result.value) = Received
    <2> DEFINE s == Received
    <2>1. s \in Str /\ result = from_bytes(artefact.kind, s) /\ result.ok
      BY <1>2, ArtefactHas
    <2> HIDE DEF s
    <2>2. CASE artefact.kind = "address"
      <3>1. from_bytes("address", s) = Sphinx!try_from_byte_slice(s)
        BY DEF from_bytes
      <3>2. result = Sphinx!Ok(s)
        <4>1. result = IF Len(s) # 32 THEN Sphinx!Err("InvalidRouting") ELSE Sphinx!Ok(s)
          BY <2>1, <2>2, <3>1 DEF Sphinx!try_from_byte_slice, Sphinx!NODE_ADDRESS_LENGTH
        <4>2. ~ Sphinx!Err("InvalidRouting").ok
          BY DEF Sphinx!Err
        <4> QED
          BY <2>1, <4>1, <4>2
      <3>3. result.value = s
        BY <3>2 DEF Sphinx!Ok
      <3>4. to_bytes("address", result.value) = result.value
        BY DEF to_bytes
      <3> QED
        BY <2>2, <3>3, <3>4 DEF s
    <2>3. CASE artefact.kind = "routing"
      <3>1. result = Sphinx!routing_from_bytes(s)
        BY <2>1, <2>3 DEF from_bytes
      <3>2. Sphinx!routing_to_bytes(result.value) = s
        BY <2>1, <3>1, RoutingIsCanonical DEF Str
      <3>3. to_bytes("routing", result.value) = Sphinx!routing_to_bytes(result.value)
        BY DEF to_bytes
      <3> QED
        BY <2>3, <3>2, <3>3 DEF s
    <2>4. CASE artefact.kind = "header"
      <3>1. result = Sphinx!header_from_bytes(s)
        BY <2>1, <2>4 DEF from_bytes
      <3>2. Sphinx!header_to_bytes(result.value) = s
        BY <2>1, <3>1, HeaderIsCanonical DEF Str
      <3>3. to_bytes("header", result.value) = Sphinx!header_to_bytes(result.value)
        BY DEF to_bytes
      <3> QED
        BY <2>4, <3>2, <3>3 DEF s
    <2>5. CASE artefact.kind = "surb"
      <3>1. result = Sphinx!surb_from_bytes(s)
        BY <2>1, <2>5 DEF from_bytes
      <3>2. Sphinx!surb_to_bytes(result.value) = s
        BY <2>1, <3>1, SurbIsCanonical
      <3>3. to_bytes("surb", result.value) = Sphinx!surb_to_bytes(result.value)
        BY DEF to_bytes
      <3> QED
        BY <2>5, <3>2, <3>3 DEF s
    <2>6. CASE artefact.kind = "packet"
      <3>1. result = Sphinx!packet_from_bytes(s)
        BY <2>1, <2>6 DEF from_bytes
      <3>2. Sphinx!packet_to_bytes(result.value) = s
        BY <2>1, <3>1, PacketIsCanonical
      <3>3. to_bytes("packet", result.value) = Sphinx!packet_to_bytes(result.value)
        BY DEF to_bytes
      <3> QED
        BY <2>6, <3>2, <3>3 DEF s
    <2> QED
      BY <1>2, <2>2, <2>3, <2>4, <2>5, <2>6, KindsOfValues
  <1>3. WireInv => AcceptedIsCanonical
    BY <1>1, <1>2, Zenon DEF AcceptedIsCanonical
  <1> QED
    BY <1>3, WireInit, WireStep, PTL DEF Spec

-----------------------------------------------------------------------------
(* Cutting. *)

(* What is cut off is missing. *)
LEMMA CutOff ==
  ASSUME NEW s \in Str, NEW c, Changed(s, c), c.kind = "cut"
  PROVE  LET n == c.at
         IN  /\ n \in Nat /\ n < Len(s) /\ Len(s) \in Nat
             /\ After(s, c) = Sphinx!Slice(s, 0, n) /\ Len(After(s, c)) = n
             /\ \E u \in Str : After(s, c) \o u = s
  <1> DEFINE n == c.at
  <1>1. Len(s) \in Nat
    BY LenNat
  <1>2. n \in 0 .. Len(s) - 1
    BY DEF Changed, Untouched
  <1>3. n \in Nat /\ n < Len(s) /\ n <= Len(s)
    BY <1>1, <1>2
  <1>4. After(s, c) = Sphinx!Slice(s, 0, n)
    <2>1. After(s, c) = SubSeq(s, 1, n)
      BY AfterIs
    <2>2. 0 + 1 = 1
      OBVIOUS
    <2> QED
      BY <2>1, <2>2, Zenon DEF Sphinx!Slice
  <1> HIDE DEF n
  <1>5. /\ Len(Sphinx!Slice(s, 0, n)) = n /\ Sphinx!Drop(n, s) \in Str
        /\ Sphinx!Slice(s, 0, n) \o Sphinx!Drop(n, s) = s
    BY <1>3, PartsStr
  <1> QED
    BY <1>1, <1>3, <1>4, <1>5 DEF n

(* An onion that was cut short is not read. *)
LEMMA CutOnionIsShort ==
  ASSUME NEW link \in Links, NEW s \in Str, Len(s) < TooLarge, NEW u \in Str,
         s \o u = serialize(Sent(link)), Len(s) < Len(serialize(Sent(link)))
  PROVE  ~ deserialize(s).ok
  <1> SUFFICES ASSUME deserialize(s).ok PROVE FALSE
    OBVIOUS
  <1>1. PICK h, f, v, g, t :
           /\ Parted(h, f, v, g) /\ t \in Str
           /\ deserialize(s) = [ok |-> TRUE, onion |-> OnionOf(h, f, v, g)]
           /\ serialize(OnionOf(h, f, v, g)) \o t = s
    BY OnionStood
  <1> DEFINE o == OnionOf(h, f, v, g)
             a == serialize(o)
             w == serialize(Sent(link))
  <1>2. a \in Str
    BY <1>1, OnionWritten DEF Written
  <1>3. w \in Str
    BY SentParted
  <1>4. \A x \in Str : deserialize(a \o x) = [ok |-> TRUE, onion |-> o]
    BY <1>1, OnionReadsBack
  <1>5. deserialize(w \o <<>>) = [ok |-> TRUE, onion |-> Sent(link)]
    <2> DEFINE h0 == SentHeader(link)  f0 == SentForward(link)  v0 == SentVec(link)
    <2>1. Parted(h0, f0, v0, SentTag)
      BY SentParted
    <2>2. Sent(link) = OnionOf(h0, f0, v0, SentTag)
      BY SentIs
    <2> HIDE DEF h0, f0, v0
    <2>3. <<>> \in Str
      BY EmptyStr
    <2>4. deserialize(serialize(OnionOf(h0, f0, v0, SentTag)) \o <<>>)
            = [ok |-> TRUE, onion |-> OnionOf(h0, f0, v0, SentTag)]
      BY <2>1, <2>3, OnionReadsBack
    <2> QED
      BY <2>2, <2>4
  <1> HIDE DEF o, a, w
  <1>6. a \o t = s /\ s \o u = w /\ t \in Str
    BY <1>1 DEF a, o, w
  <1>7. Assoc(a, t, u) /\ t \o u \in Str
    BY <1>2, <1>6, AssocOf, CatStr
  <1>8. w \o <<>> = w /\ w = a \o (t \o u)
    <2>1. w \o <<>> = w
      BY <1>3, EmptyStr
    <2>2. (a \o t) \o u = a \o (t \o u)
      BY <1>7 DEF Assoc
    <2> QED
      BY <1>6, <2>1, <2>2
  <1>9. o = Sent(link)
    <2>1. deserialize(w) = [ok |-> TRUE, onion |-> o]
      BY <1>4, <1>7, <1>8
    <2>2. deserialize(w) = [ok |-> TRUE, onion |-> Sent(link)]
      BY <1>5, <1>8
    <2> QED
      BY <2>1, <2>2
  <1>10. a = w
    BY <1>9 DEF a, w
  <1>11. Len(s) = Len(a) + Len(t) /\ Len(a) \in Nat /\ Len(t) \in Nat
    BY <1>2, <1>6, CatStr, LenNat
  <1>12. Len(s) < Len(w)
    BY DEF w
  <1> QED
    BY <1>10, <1>11, <1>12

LEMMA Refused ==
  ASSUME NEW s, ~ deserialize(s).ok
  PROVE  deserialize(s) = Err("SerializationError")
  <1>1. deserialize(s) = Err("SerializationError") \/ deserialize(s).ok
    BY DEF deserialize
  <1> QED
    BY <1>1

LEMMA CutOnion ==
  ASSUME WireInv, Has("onion"), change.kind = "cut"
  PROVE  result = Err("SerializationError") /\ ~ result.ok
  <1> DEFINE link == artefact.link
             s    == Received
             b    == SentBytes(artefact)
  <1>1. /\ link \in Links /\ b = serialize(Sent(link)) /\ b \in Str /\ Changed(b, change)
        /\ s = After(b, change) /\ s \in Str /\ Len(s) < TooLarge
        /\ result = Answer(link, s)
    BY OnionHas
  <1> HIDE DEF link, s, b
  <1>2. PICK u \in Str : After(b, change) \o u = b
    BY <1>1, CutOff
  <1>3. Len(s) < Len(b)
    BY <1>1, CutOff
  <1>4. ~ deserialize(s).ok
    BY <1>1, <1>2, <1>3, CutOnionIsShort
  <1>5. Answer(link, s) = deserialize(s)
    BY <1>4, Zenon DEF Answer
  <1> QED
    BY <1>1, <1>4, <1>5, Refused

(* What stands in front of what was cut off is as it was.                  *)
Stays(s, n, i, j) ==
  Sphinx!Slice(Sphinx!Slice(s, 0, n), i, j) = Sphinx!Slice(s, i, j)

LEMMA FrontStays ==
  ASSUME NEW s \in Str, NEW n \in Nat, n <= Len(s),
         NEW i \in Nat, NEW j \in Nat, i <= j, j <= n
  PROVE  Stays(s, n, i, j)
  <1> DEFINE a == Sphinx!Slice(s, 0, n)
             b == Sphinx!Drop(n, s)
  <1>1. a \in Str /\ b \in Str /\ Len(a) = n /\ a \o b = s
    BY PartsStr
  <1> HIDE DEF a, b
  <1>2. Sphinx!Slice(a \o b, i, j) = Sphinx!Slice(a, i, j)
    <2>1. a \in Seq(Byte) /\ b \in Seq(Byte) /\ j <= Len(a)
      BY <1>1 DEF Str
    <2> QED
      BY <2>1, SliceOfFirst
  <1> QED
    BY <1>1, <1>2 DEF Stays, a

(* What was put in front is found there. *)
LEMMA FoundInFront ==
  ASSUME NEW a \in Str, NEW b \in Str
  PROVE  Sphinx!Slice(a \o b, 0, Len(a)) = a
  BY FirstHalf DEF Str

LEMMA FoundWithin ==
  ASSUME NEW a \in Str, NEW b \in Str, NEW i \in Nat, NEW j \in Nat, i <= j, j <= Len(a)
  PROVE  Sphinx!Slice(a \o b, i, j) = Sphinx!Slice(a, i, j)
  BY SliceOfFirst DEF Str

LEMMA FoundBehind ==
  ASSUME NEW a \in Str, NEW b \in Str, NEW i \in Nat, NEW j \in Nat, i <= j, j <= Len(b)
  PROVE  Sphinx!Slice(a \o b, Len(a) + i, Len(a) + j) = Sphinx!Slice(b, i, j)
  BY SliceOfSecond DEF Str

(* The pieces of a string that was joined from pieces of one length are    *)
(* these.                                                                  *)
PieceOf(ss, k) == Sphinx!Slice(FlattenSeq(ss), (k - 1) * 192, k * 192) = ss[k]

LEMMA PiecesOfJoined ==
  ASSUME NEW ss \in Strs, \A c \in 1 .. Len(ss) : Len(ss[c]) = 192, NEW k \in 1 .. Len(ss)
  PROVE  PieceOf(ss, k)
  <1> DEFINE n  == Len(ss)
             m  == k - 1
             i  == m * 192
             j  == k * 192
             a  == JoinedUpTo(ss, m)
             b  == ss[k]
             c  == JoinedUpTo(ss, k)
             f  == FlattenSeq(ss)
             up == SubSeq(ss, 1, m)
  <1>1. /\ n \in Nat /\ m \in 0 .. n /\ k \in 0 .. n /\ m \in 0 .. n - 1
        /\ m + 1 = k /\ i \in Nat /\ j \in Nat /\ j = i + 192 /\ m \in Nat /\ i = 192 * m
        /\ i <= j
    BY StringsOf
  <1>2. b \in Str
    BY StringsOf
  <1>10. Len(b) = 192
    BY StringsOf
  <1> HIDE DEF m, i, j
  <1>3. a \in Str /\ c \in Str /\ c = a \o b
    <2>1. a \in Str /\ c \in Str
      BY <1>1, JoinedSteps
    <2>2. JoinedUpTo(ss, m + 1) = JoinedUpTo(ss, m) \o ss[m + 1]
      BY <1>1, JoinedSteps
    <2> QED
      BY <1>1, <2>1, <2>2
  <1>4. Len(a) = i
    <2>1. up \in Strs /\ Len(up) = m /\ \A x \in 1 .. m : up[x] = ss[x]
      BY <1>1, FirstStrings
    <2> HIDE DEF up
    <2>2. \A x \in 1 .. Len(up) : Len(up[x]) = 192
      BY <1>1, <2>1
    <2> DEFINE w == 192
    <2>3. w \in Nat /\ \A x \in 1 .. Len(up) : Len(up[x]) = w
      BY <2>2
    <2> HIDE DEF w
    <2>4. Len(FlattenSeq(up)) = w * Len(up)
      BY <2>1, <2>3, FlattenLength
    <2>5. a = FlattenSeq(up)
      BY DEF JoinedUpTo, up
    <2> HIDE DEF a
    <2> QED
      BY <1>1, <2>1, <2>4, <2>5 DEF w
  <1>5. PICK w \in Str : f = c \o w
    <2>1. \E w \in Str : FlattenSeq(ss) = JoinedUpTo(ss, k) \o w
      BY <1>1, JoinedRemainder
    <2> QED
      BY <2>1
  <1> HIDE DEF a, b, c, f
  <1>6. Sphinx!Slice(c, Len(a), Len(a) + Len(b)) = b
    BY <1>2, <1>3, SecondHalf DEF Str
  <1>7. Len(a) + Len(b) = j /\ Len(c) = j
    <2>1. Len(a \o b) = Len(a) + Len(b)
      BY <1>2, <1>3, CatStr, Zenon
    <2>2. Len(c) = Len(a) + Len(b)
      BY <1>3, <2>1, Zenon
    <2>3. Len(a) + Len(b) = j
      BY <1>1, <1>4, <1>10
    <2> QED
      BY <2>2, <2>3
  <1>8. Sphinx!Slice(c \o w, i, j) = Sphinx!Slice(c, i, j)
    <2>1. c \in Str /\ w \in Str /\ i \in Nat /\ j \in Nat /\ i <= j /\ j <= Len(c)
      BY <1>1, <1>3, <1>7
    <2> QED
      BY <2>1, FoundWithin
  <1> QED
    BY <1>4, <1>5, <1>6, <1>7, <1>8 DEF PieceOf, b, f, i, j, m

(* The header in front of a packet or a SURB that was cut short is the one *)
(* that was sent, as long as it is there.                                  *)
LEMMA HeaderStays ==
  ASSUME NEW r \in Str, NEW s \in Str, NEW n \in Nat, Sphinx!HEADER_SIZE <= n, n <= Len(s),
         s = Sphinx!header_to_bytes(SphinxHeader) \o r
  PROVE  Sphinx!header_from_bytes(Sphinx!Slice(Sphinx!Slice(s, 0, n), 0, Sphinx!HEADER_SIZE))
           = Sphinx!Ok(SphinxHeader)
  <1> DEFINE h == Sphinx!header_to_bytes(SphinxHeader)
             m == Sphinx!HEADER_SIZE
  <1>1. h \in Str /\ Len(h) = m /\ m \in Nat /\ 0 \in Nat /\ 0 <= m
    BY ValuesTyped, HeadersAreStrings, Sizes
  <1>2. Sphinx!header_from_bytes(h) = Sphinx!Ok(SphinxHeader)
    BY ValuesTyped, HeaderReadsBack
  <1> HIDE DEF h, m
  <1>3. m <= n /\ s = h \o r
    BY DEF h, m
  <1>4. Sphinx!Slice(Sphinx!Slice(s, 0, n), 0, m) = Sphinx!Slice(s, 0, m)
    <2>1. Stays(s, n, 0, m)
      BY <1>1, <1>3, FrontStays
    <2> QED
      BY <2>1 DEF Stays
  <1>5. Sphinx!Slice(s, 0, m) = h
    BY <1>1, <1>3, FoundInFront
  <1> QED
    BY <1>2, <1>4, <1>5 DEF m

(* A SURB that was cut short and is accepted has lost whole keys.          *)
LEMMA CutSurb ==
  ASSUME NEW s \in Str, NEW n \in Nat, n < Len(s),
         s = Sphinx!header_to_bytes(SphinxHeader) \o Address \o FlattenSeq(SurbKeys),
         Sphinx!surb_from_bytes(Sphinx!Slice(s, 0, n)).ok
  PROVE  LET v == Sphinx!surb_from_bytes(Sphinx!Slice(s, 0, n)).value
         IN  /\ v.header = SphinxHeader /\ v.first_hop = Address
             /\ v.payload_keys # <<>> /\ IsPrefix(v.payload_keys, SurbKeys)
  <1> DEFINE h == Sphinx!header_to_bytes(SphinxHeader)
             m == Sphinx!HEADER_SIZE
             f == FlattenSeq(SurbKeys)
             r == Sphinx!Slice(s, 0, n)
             k == Sphinx!Drop(m + 32, r)
             v == Sphinx!surb_from_bytes(r).value
             p == Len(k) \div 192
             g == Sphinx!header_from_bytes(Sphinx!Slice(r, 0, m))
  <1>1. h \in Str /\ Len(h) = m /\ m \in Nat /\ 0 \in Nat /\ 0 <= m
    BY ValuesTyped, HeadersAreStrings, Sizes
  <1>2. Address \in Str /\ Len(Address) = 32
    BY ValuesTyped DEF Strings, Str, Sphinx!NODE_ADDRESS_LENGTH
  <1>3. f \in Str
    BY SurbKeysTyped, FlattenStr
  <1>4. Len(s) \in Nat /\ n <= Len(s)
    BY LenNat
  <1>5. r \in Str /\ Len(r) = n
    BY <1>4, PartsStr
  <1>6. Sphinx!surb_from_bytes(r).ok
    OBVIOUS
  <1>7. /\ m + 224 <= Len(r) /\ Len(k) % 192 = 0
        /\ Sphinx!surb_from_bytes(r)
             = Sphinx!Ok([header |-> g.value, first_hop |-> Sphinx!Slice(r, m, m + 32),
                          payload_keys |-> Chopped(k)])
    <2> HIDE DEF r
    <2> QED
      BY <1>5, <1>6, SurbGives
  <1> HIDE DEF h, f, r, k, v, p, g, m
  <1>8. v = [header |-> g.value, first_hop |-> Sphinx!Slice(r, m, m + 32),
             payload_keys |-> Chopped(k)]
    BY <1>7 DEF v, Sphinx!Ok
  <1>9. s = h \o Address \o f
    BY DEF h, f
  <1>10. Assoc(h, Address, f) /\ Address \o f \in Str
    BY <1>1, <1>2, <1>3, AssocOf, CatStr
  <1>11. s = h \o (Address \o f)
    BY <1>9, <1>10, Zenon DEF Assoc
  <1>12. v.header = SphinxHeader
    <2>1. m <= n
      BY <1>1, <1>5, <1>7
    <2>2. g = Sphinx!Ok(SphinxHeader)
      BY <1>4, <1>10, <1>11, <2>1, HeaderStays DEF g, h, m, r
    <2> QED
      BY <1>8, <2>2 DEF Sphinx!Ok
  <1>13. m + 32 \in Nat /\ m <= m + 32 /\ m + 32 <= n
    BY <1>1, <1>5, <1>7
  <1>14. v.first_hop = Address
    <2> DEFINE x == Address \o f
    <2>1. Sphinx!Slice(r, m, m + 32) = Sphinx!Slice(s, m, m + 32)
      <3>1. Stays(s, n, m, m + 32)
        BY <1>1, <1>4, <1>13, FrontStays
      <3> QED
        BY <3>1 DEF Stays, r
    <2>2. Sphinx!Slice(x, 0, 32) = Address
      BY <1>2, <1>3, FoundInFront
    <2>3. 0 \in Nat /\ 32 \in Nat /\ 0 <= 32 /\ 32 <= Len(x)
      <3>1. Len(x) = Len(Address) + Len(f) /\ Len(f) \in Nat
        BY <1>2, <1>3, CatStr, LenNat
      <3> HIDE DEF x
      <3> QED
        BY <1>2, <3>1
    <2> HIDE DEF x
    <2>4. Sphinx!Slice(h \o x, Len(h) + 0, Len(h) + 32) = Sphinx!Slice(x, 0, 32)
      <3>1. x \in Str
        BY <1>10 DEF x
      <3> QED
        BY <1>1, <2>3, <3>1, FoundBehind
    <2>5. Len(h) + 0 = m /\ Len(h) + 32 = m + 32 /\ s = h \o x
      BY <1>1, <1>11 DEF x
    <2> QED
      BY <1>8, <2>1, <2>2, <2>4, <2>5
  <1>15. /\ k \in Str /\ Len(k) = n - (m + 32) /\ Len(k) >= 192
    <2>1. k \in Str /\ Len(k) = Len(r) - (m + 32)
      BY <1>5, <1>13, PartsStr DEF k
    <2> QED
      BY <1>1, <1>5, <1>7, <2>1
  <1>16. p \in Nat /\ p >= 1 /\ Len(k) = 192 * p
    <2> DEFINE l == Len(k)
    <2>1. l \in Nat /\ l >= 192 /\ l % 192 = 0
      BY <1>7, <1>15, LenNat
    <2> HIDE DEF l
    <2>2. l \div 192 \in Nat /\ l \div 192 >= 1 /\ l = 192 * (l \div 192)
      BY <2>1, Z3
    <2> QED
      BY <2>2 DEF l, p
  <1>17. Pieces(Chopped(k), k, p)
    BY <1>15, <1>16, ChoppedTyped
  <1> DEFINE a == h \o Address
  <1>18. a \in Str /\ Len(a) = m + 32 /\ s = a \o f
    <2>1. h \o Address \in Str /\ Len(h \o Address) = Len(h) + Len(Address)
      BY <1>1, <1>2, CatStr, Zenon
    <2> QED
      BY <1>1, <1>2, <1>9, <2>1
  <1> HIDE DEF a
  <1>19. Len(s) = Len(a) + Len(f) /\ Len(f) \in Nat
    BY <1>3, <1>18, CatStr, LenNat
  <1>20. Len(k) <= Len(f)
    BY <1>1, <1>4, <1>15, <1>18, <1>19
  <1>21. Len(f) = 192 * MaxPathLength
    <2> DEFINE w == 192
    <2>1. w \in Nat /\ \A c \in 1 .. Len(SurbKeys) : Len(SurbKeys[c]) = w
      BY SurbKeysTyped
    <2> HIDE DEF w
    <2>2. Len(FlattenSeq(SurbKeys)) = w * Len(SurbKeys)
      BY <2>1, SurbKeysTyped, FlattenLength
    <2> QED
      BY <2>2, SurbKeysTyped DEF f, w
  <1>22. p <= MaxPathLength
    BY <1>16, <1>20, <1>21, SurbKeysTyped
  <1>23. ASSUME NEW q \in 1 .. p PROVE Chopped(k)[q] = SurbKeys[q]
    <2> DEFINE i == (q - 1) * 192
               j == q * 192
    <2>1. i \in Nat /\ j \in Nat /\ i <= j /\ j <= 192 * p /\ q \in 1 .. MaxPathLength
      BY <1>16, <1>22, SurbKeysTyped
    <2>2. Chopped(k)[q] = Sphinx!Slice(k, i, j)
      BY <1>17 DEF Pieces
    <2>3. SurbKeys[q] = Sphinx!Slice(f, i, j)
      <3>1. /\ \A c \in 1 .. Len(SurbKeys) : Len(SurbKeys[c]) = 192
            /\ q \in 1 .. Len(SurbKeys) /\ SurbKeys \in Strs
        BY <2>1, SurbKeysTyped
      <3>2. PieceOf(SurbKeys, q)
        BY <3>1, PiecesOfJoined
      <3> QED
        BY <3>2 DEF PieceOf, f
    <2> HIDE DEF i, j
    <2>4. j <= Len(k) /\ j <= Len(f)
      BY <1>16, <1>20, <2>1, <1>15, <1>19, LenNat
    <2>5. k = Sphinx!Slice(f, 0, Len(k))
      <3>1. a \o k = r
        <4>1. Sphinx!Slice(r, 0, m + 32) \o k = r
          BY <1>5, <1>13, PartsStr DEF k
        <4>2. Sphinx!Slice(r, 0, m + 32) = Sphinx!Slice(s, 0, m + 32)
          <5>1. 0 <= m + 32
            BY <1>1
          <5>2. Stays(s, n, 0, m + 32)
            BY <1>1, <1>4, <1>13, <5>1, FrontStays
          <5> QED
            BY <5>2 DEF Stays, r
        <4>3. Sphinx!Slice(s, 0, m + 32) = a
          BY <1>3, <1>18, FoundInFront
        <4> QED
          BY <4>1, <4>2, <4>3
      <3> DEFINE t == Sphinx!Drop(n, s)
      <3>2. t \in Str /\ r \o t = s
        BY <1>4, PartsStr DEF r
      <3> HIDE DEF t
      <3>3. Assoc(a, k, t) /\ k \o t \in Str
        BY <1>15, <1>18, <3>2, AssocOf, CatStr
      <3>4. a \o (k \o t) = a \o f
        BY <1>18, <3>1, <3>2, <3>3, Zenon DEF Assoc
      <3>5. k \o t = f
        BY <1>3, <1>18, <3>3, <3>4, SameRest
      <3>6. Sphinx!Slice(k \o t, 0, Len(k)) = k
        BY <1>15, <3>2, FoundInFront
      <3> QED
        BY <3>5, <3>6
    <2>6. Sphinx!Slice(k, i, j) = Sphinx!Slice(f, i, j)
      <3> DEFINE l == Len(k)
      <3>1. l \in Nat /\ l <= Len(f) /\ j <= l
        BY <1>15, <1>20, <2>4, LenNat
      <3> HIDE DEF l
      <3>2. Stays(f, l, i, j)
        BY <1>3, <2>1, <3>1, FrontStays
      <3> QED
        BY <2>5, <3>2 DEF l, Stays
    <2> QED
      BY <2>2, <2>3, <2>6
  <1>24. /\ v.payload_keys = Chopped(k) /\ Chopped(k) \in Strs /\ Len(Chopped(k)) = p
    BY <1>8, <1>17 DEF Pieces
  <1>25. Chopped(k) # <<>>
    BY <1>16, <1>24, EmptyStr
  <1>26. IsPrefix(Chopped(k), SurbKeys)
    <2> DEFINE c == Chopped(k)
    <2>1. c \in Strs /\ SurbKeys \in Strs /\ Len(c) = p /\ Len(SurbKeys) = MaxPathLength
      BY <1>24, SurbKeysTyped
    <2>2. \A q \in 1 .. p : c[q] = SurbKeys[q]
      BY <1>23
    <2> HIDE DEF c
    <2>3. Len(c) <= Len(SurbKeys)
      BY <1>22, <2>1
    <2>4. SubSeq(c, 1, Len(c)) = SubSeq(SurbKeys, 1, Len(c))
      BY <1>16, <1>22, <2>1, <2>2, SurbKeysTyped DEF Strs
    <2> QED
      BY <2>3, <2>4, Zenon DEF IsPrefix, c
  <1> QED
    BY <1>12, <1>14, <1>24, <1>25, <1>26 DEF v, r

LEMMA CutPacket ==
  ASSUME NEW s \in Str, NEW n \in Nat, n < Len(s),
         s = Sphinx!header_to_bytes(SphinxHeader) \o Field("payload", 0, 33),
         Sphinx!packet_from_bytes(Sphinx!Slice(s, 0, n)).ok
  PROVE  Sphinx!packet_from_bytes(Sphinx!Slice(s, 0, n)).value.header = SphinxHeader
  <1> DEFINE p == Field("payload", 0, 33)
             m == Sphinx!HEADER_SIZE
             r == Sphinx!Slice(s, 0, n)
             g == Sphinx!header_from_bytes(Sphinx!Slice(r, 0, m))
  <1>1. p \in Str
    <2>1. "payload" \in FieldNames
      BY Zenon DEF FieldNames
    <2>2. 0 \in Nat /\ 33 \in Nat
      OBVIOUS
    <2> QED
      BY <2>1, <2>2, FieldStr, Zenon
  <1>2. m \in Nat /\ Len(s) \in Nat /\ n <= Len(s)
    BY Sizes, LenNat
  <1>3. r \in Str /\ Len(r) = n
    BY <1>2, PartsStr
  <1>4. Sphinx!packet_from_bytes(r).ok /\ s = Sphinx!header_to_bytes(SphinxHeader) \o p
    OBVIOUS
  <1> HIDE DEF p, m, r, g
  <1>5. m <= Len(r) /\ Sphinx!packet_from_bytes(r).value.header = g.value
    BY <1>3, <1>4, PacketIsCanonical DEF m, g
  <1>6. m <= n
    BY <1>3, <1>5
  <1>7. g = Sphinx!Ok(SphinxHeader)
    BY <1>1, <1>2, <1>4, <1>6, HeaderStays DEF g, m, r
  <1>8. g.value = SphinxHeader
    BY <1>7 DEF Sphinx!Ok
  <1> QED
    BY <1>5, <1>8 DEF r

(* What has one length only is refused when it is shorter.                 *)
LEMMA CutFixed ==
  ASSUME NEW kind \in {"address", "routing", "header"}, NEW r,
         Len(r) < Len(to_bytes(kind, Values[kind]))
  PROVE  ~ from_bytes(kind, r).ok
  <1> DEFINE n == Len(to_bytes(kind, Values[kind]))
  <1>1. Len(r) # n
    <2>1. n \in Nat
      BY ArtefactStr, KindsOfValues, LenNat
    <2> QED
      BY <2>1
  <1>2. /\ ~ Sphinx!Err("InvalidRouting").ok /\ ~ Sphinx!Err("InvalidHeader").ok
    BY DEF Sphinx!Err
  <1>3. CASE kind = "address"
    <2>1. n = Sphinx!NODE_ADDRESS_LENGTH
      BY <1>3, ArtefactBytes, ValuesTyped DEF Strings
    <2>2. from_bytes(kind, r) = Sphinx!try_from_byte_slice(r)
      BY <1>3 DEF from_bytes
    <2> QED
      BY <1>1, <1>2, <2>1, <2>2 DEF Sphinx!try_from_byte_slice
  <1>4. CASE kind = "routing"
    <2>1. n = Sphinx!ROUTING_SIZE
      BY <1>4, ArtefactBytes, ValuesTyped, RoutingReadsBack DEF Strings
    <2>2. from_bytes(kind, r) = Sphinx!routing_from_bytes(r)
      BY <1>4 DEF from_bytes
    <2> QED
      BY <1>1, <1>2, <2>1, <2>2 DEF Sphinx!routing_from_bytes
  <1>5. CASE kind = "header"
    <2>1. n = Sphinx!HEADER_SIZE
      BY <1>5, ArtefactBytes, ValuesTyped, HeaderReadsBack DEF Strings
    <2>2. from_bytes(kind, r) = Sphinx!header_from_bytes(r)
      BY <1>5 DEF from_bytes
    <2> QED
      BY <1>1, <1>2, <2>1, <2>2 DEF Sphinx!header_from_bytes
  <1> QED
    BY <1>3, <1>4, <1>5

(* Nothing that was cut off goes unnoticed, but for the two cases that the *)
(* property names: whatever the path length, and wherever it was cut.      *)
THEOREM CutsAreNoticed == Spec => []CutIsNoticed
  <1>1. ASSUME WireInv, result # Pending, change.kind = "cut", result.ok
        PROVE  \/ artefact.kind = "packet" /\ result.value.header = SphinxHeader
               \/ /\ artefact.kind = "surb"
                  /\ result.value.header = SphinxHeader /\ result.value.first_hop = Address
                  /\ result.value.payload_keys # <<>>
                  /\ IsPrefix(result.value.payload_keys, Values.surb.payload_keys)
    <2>1. artefact.kind # "layer"
      BY <1>1 DEF WireInv, Untouched
    <2>2. artefact.kind # "onion"
      <3> SUFFICES ASSUME artefact.kind = "onion" PROVE FALSE
        OBVIOUS
      <3>1. Has("onion")
        BY <1>1 DEF Has
      <3> QED
        BY <1>1, <3>1, CutOnion
    <2>3. artefact.kind \in DOMAIN Values
      BY <1>1, <2>1, <2>2, KindsApart DEF WireInv
    <2> DEFINE s == SentBytes(artefact)
               n == change.at
               r == Sphinx!Slice(s, 0, n)
    <2>4. /\ s = to_bytes(artefact.kind, Values[artefact.kind]) /\ s \in Str
          /\ Changed(s, change) /\ Received = After(s, change)
          /\ result = from_bytes(artefact.kind, Received)
      BY <1>1, <2>3, ArtefactHas
    <2>5. n \in Nat /\ n < Len(s) /\ Received = r /\ Len(r) = n
      BY <1>1, <2>4, CutOff
    <2>6. result = from_bytes(artefact.kind, r) /\ result.ok
      BY <1>1, <2>4, <2>5
    <2> HIDE DEF s, n, r
    <2>7. CASE artefact.kind \in {"address", "routing", "header"}
      <3>1. Len(r) < Len(to_bytes(artefact.kind, Values[artefact.kind]))
        BY <2>4, <2>5
      <3> QED
        BY <2>6, <2>7, <3>1, CutFixed
    <2>8. CASE artefact.kind = "packet"
      <3>1. result = Sphinx!packet_from_bytes(r)
        BY <2>6, <2>8 DEF from_bytes
      <3>2. s = Sphinx!header_to_bytes(SphinxHeader) \o Field("payload", 0, 33)
        BY <2>4, <2>8, ArtefactBytes
      <3>3. result.value.header = SphinxHeader
        BY <2>4, <2>5, <2>6, <3>1, <3>2, CutPacket DEF r
      <3> QED
        BY <2>8, <3>3
    <2>9. CASE artefact.kind = "surb"
      <3>1. result = Sphinx!surb_from_bytes(r)
        BY <2>6, <2>9 DEF from_bytes
      <3>2. s = Sphinx!header_to_bytes(SphinxHeader) \o Address \o FlattenSeq(SurbKeys)
        BY <2>4, <2>9, ArtefactBytes
      <3>3. /\ result.value.header = SphinxHeader /\ result.value.first_hop = Address
            /\ result.value.payload_keys # <<>>
            /\ IsPrefix(result.value.payload_keys, SurbKeys)
        BY <2>4, <2>5, <2>6, <3>1, <3>2, CutSurb DEF r
      <3> QED
        BY <2>9, <3>3, ArtefactBytes
    <2> QED
      BY <2>3, <2>7, <2>8, <2>9, KindsOfValues
  <1>2. WireInv => CutIsNoticed
    BY <1>1, Zenon DEF CutIsNoticed
  <1> QED
    BY <1>2, WireInit, WireStep, PTL DEF Spec

-----------------------------------------------------------------------------
(* Altering. *)

(* Two strings that differ in bytes of fields only: the numbers in them    *)
(* are the same and stand at the same places.                              *)
Like(s, t) ==
  /\ s \in Str /\ t \in Str /\ Len(s) = Len(t)
  /\ \A i \in 1 .. Len(s) : s[i] = t[i] \/ (s[i][1] # "#" /\ t[i][1] # "#")

LEMMA AlteredLike ==
  ASSUME NEW s \in Str, NEW c, Changed(s, c), c.kind = "alter", c.byte = altered
  PROVE  Like(s, After(s, c))
  <1> DEFINE t == After(s, c)
             at == c.at
  <1>1. s \in Seq(Byte) /\ DOMAIN s = 1 .. Len(s)
    BY DEF Str
  <1>2. at \in 1 .. Len(s) /\ altered \in Others(s[at])
    BY <1>1 DEF Changed, Untouched
  <1>3. s[at] \in Byte
    BY <1>1, <1>2, BytesOf
  <1>4. s[at][1] # "#"
    BY <1>2, <1>3, OtherBytes
  <1>5. t = [s EXCEPT ![at] = altered]
    BY AfterIs
  <1>6. t \in Str
    BY AfterStr
  <1> HIDE DEF t, at
  <1>7. Len(t) = Len(s)
    BY <1>1, <1>2, <1>5, AlteredIsByte
  <1>8. ASSUME NEW i \in 1 .. Len(s) PROVE s[i] = t[i] \/ (s[i][1] # "#" /\ t[i][1] # "#")
    <2>1. CASE i = at
      <3>1. t[i] = altered
        BY <1>1, <1>5, <2>1
      <3> QED
        BY <1>4, <2>1, <3>1, AlteredIsByte
    <2>2. CASE i # at
      BY <1>1, <1>5, <2>2
    <2> QED
      BY <2>1, <2>2
  <1> QED
    BY <1>6, <1>7, <1>8 DEF Like, t

(* Where a string consists of two, so does one that is like it.            *)
LikeBoth(a, b, t) == \E x, y : Like(a, x) /\ Like(b, y) /\ t = x \o y

LEMMA LikeParts ==
  ASSUME NEW a \in Str, NEW b \in Str, NEW t, Like(a \o b, t)
  PROVE  LikeBoth(a, b, t)
  <1> DEFINE n == Len(a)
             s == a \o b
             x == Sphinx!Slice(t, 0, n)
             y == Sphinx!Drop(n, t)
  <1>1. /\ n \in Nat /\ Len(b) \in Nat /\ s \in Str /\ Len(s) = n + Len(b)
        /\ t \in Str /\ Len(t) = n + Len(b) /\ n <= Len(t)
    BY CatStr, LenNat DEF Like
  <1>2. /\ x \in Str /\ Len(x) = n /\ y \in Str /\ Len(y) = Len(b) /\ t = x \o y
    <2> HIDE DEF n, s
    <2>1. /\ x \in Str /\ Len(x) = n /\ y \in Str /\ Len(y) = Len(t) - n /\ x \o y = t
      BY <1>1, PartsStr
    <2> HIDE DEF x, y
    <2>2. Len(t) - n = Len(b)
      BY <1>1
    <2> QED
      BY <2>1, <2>2
  <1>3. \A i \in 1 .. n + Len(b) : s[i] = t[i] \/ (s[i][1] # "#" /\ t[i][1] # "#")
    BY <1>1 DEF Like
  <1> HIDE DEF s, x, y
  <1>4. /\ \A i \in 1 .. n : s[i] = a[i]
        /\ \A i \in 1 .. Len(b) : s[n + i] = b[i]
    BY DEF Str, s
  <1>5. /\ \A i \in 1 .. n : t[i] = x[i]
        /\ \A i \in 1 .. Len(b) : t[n + i] = y[i]
    BY <1>1, <1>2 DEF Str
  <1> HIDE DEF n
  <1>6. \A i \in 1 .. n : a[i] = x[i] \/ (a[i][1] # "#" /\ x[i][1] # "#")
    <2> TAKE i \in 1 .. n
    <2>1. i \in 1 .. n + Len(b)
      BY <1>1
    <2> QED
      BY <1>3, <1>4, <1>5, <2>1
  <1>7. \A i \in 1 .. Len(b) : b[i] = y[i] \/ (b[i][1] # "#" /\ y[i][1] # "#")
    <2> TAKE i \in 1 .. Len(b)
    <2>1. n + i \in 1 .. n + Len(b)
      BY <1>1
    <2> QED
      BY <1>3, <1>4, <1>5, <2>1
  <1>8. Like(a, x) /\ Like(b, y)
    BY <1>2, <1>6, <1>7 DEF Like, n
  <1> QED
    BY <1>2, <1>8 DEF LikeBoth

(* A number is like itself only. *)
LEMMA LikeNumber ==
  ASSUME NEW v \in Nat, NEW t, Like(LittleEndian(v, 8), t)
  PROVE  t = LittleEndian(v, 8)
  <1> DEFINE s == LittleEndian(v, 8)
  <1>1. s \in Str /\ t \in Str /\ Len(s) = Len(t)
    BY DEF Like
  <1>2. DOMAIN s = 1 .. 8 /\ \A i \in 1 .. 8 : s[i][1] = "#"
    BY DEF LittleEndian, NumberByte
  <1> HIDE DEF s
  <1>3. DOMAIN s = 1 .. Len(s) /\ DOMAIN t = 1 .. Len(t)
    BY <1>1 DEF Str
  <1>4. \A i \in 1 .. Len(s) : s[i] = t[i]
    BY <1>2, <1>3 DEF Like, s
  <1> QED
    BY <1>1, <1>4 DEF Str, s

LEMMA LikeLong == \A s, t : Like(s, t) => s \in Str /\ t \in Str /\ Len(t) = Len(s)
  BY DEF Like

LEMMA LikeVector ==
  ASSUME NEW d \in Str, Len(d) < TooLarge, NEW t, Like(Vector(d), t)
  PROVE  \E x : Like(d, x) /\ Len(x) < TooLarge /\ t = Vector(x)
  <1> DEFINE n == LittleEndian(Len(d), 8)
  <1>1. n \in Str /\ Len(d) \in Nat
    BY LenNat, NumberReadsBack
  <1>2. Like(n \o d, t)
    BY DEF Vector
  <1> HIDE DEF n
  <1>3. PICK m, x : Like(n, m) /\ Like(d, x) /\ t = m \o x
    BY <1>1, <1>2, LikeParts DEF LikeBoth
  <1>4. m = n
    BY <1>1, <1>3, LikeNumber DEF n
  <1>5. Len(x) = Len(d)
    BY <1>3, LikeLong
  <1>6. t = Vector(x)
    BY <1>3, <1>4, <1>5 DEF Vector, n
  <1> QED
    BY <1>3, <1>5, <1>6

(* String by string. *)
AllLike(ss, tt, k) ==
  tt \in Strs /\ Len(tt) = k /\ \A c \in 1 .. k : Like(ss[c], tt[c])

LEMMA AllLikeNext ==
  ASSUME NEW ss, NEW k \in Nat, NEW tt, AllLike(ss, tt, k), NEW x, Like(ss[k + 1], x)
  PROVE  AllLike(ss, Append(tt, x), k + 1)
  <1> DEFINE uu == Append(tt, x)
  <1>1. tt \in Seq(Str) /\ x \in Str /\ Len(tt) = k
    BY LikeLong DEF AllLike, Strs
  <1>2. uu \in Seq(Str) /\ Len(uu) = k + 1 /\ uu[k + 1] = x /\ \A c \in 1 .. k : uu[c] = tt[c]
    BY <1>1
  <1> HIDE DEF uu
  <1>3. \A c \in 1 .. k + 1 : Like(ss[c], uu[c])
    <2> TAKE c \in 1 .. k + 1
    <2>1. CASE c = k + 1
      BY <1>2, <2>1
    <2>2. CASE c # k + 1
      <3>1. c \in 1 .. k
        BY <2>2
      <3> QED
        BY <1>2, <3>1 DEF AllLike
    <2> QED
      BY <2>1, <2>2
  <1> QED
    BY <1>2, <1>3 DEF AllLike, Strs, uu

LEMMA LikeJoined ==
  ASSUME NEW ss, Writable(ss), NEW u, Like(FlattenSeq(Packed(ss)), u)
  PROVE  \E tt : AllLike(ss, tt, Len(ss)) /\ u = FlattenSeq(Packed(tt))
  <1> DEFINE n  == Len(ss)
             pp == Packed(ss)
             P(k) == \A w : Like(JoinedUpTo(pp, k), w)
                              => \E tt : AllLike(ss, tt, k) /\ w = FlattenSeq(Packed(tt))
             T  == {k \in 0 .. n : P(k)}
  <1>1. /\ n \in Nat /\ \A c \in 1 .. n : ss[c] \in Str /\ Len(ss[c]) < TooLarge
        /\ ss \in Strs
    BY StringsOf DEF Writable
  <1>2. pp \in Strs /\ Len(pp) = n
    BY PackedTyped DEF Writable
  <1>3. \A c \in 1 .. n : pp[c] = Vector(ss[c])
    BY <1>1, StringsOf DEF Packed
  <1> HIDE DEF n, pp
  <1>4. /\ \A c \in 0 .. n : JoinedUpTo(pp, c) \in Str
        /\ JoinedUpTo(pp, 0) = <<>> /\ JoinedUpTo(pp, n) = FlattenSeq(pp)
        /\ \A c \in 0 .. n - 1 : JoinedUpTo(pp, c + 1) = JoinedUpTo(pp, c) \o pp[c + 1]
    BY <1>2, JoinedSteps
  <1>5. 0 \in T
    <2>1. ASSUME NEW w, Like(JoinedUpTo(pp, 0), w)
          PROVE  AllLike(ss, <<>>, 0) /\ w = FlattenSeq(Packed(<<>>))
      <3>1. w \in Str /\ Len(w) = 0
        BY <1>4, <2>1, LikeLong, EmptyStr
      <3>2. w = <<>>
        BY <3>1 DEF Str
      <3>3. Packed(<<>>) = <<>>
        BY DEF Packed
      <3>4. AllLike(ss, <<>>, 0)
        BY DEF AllLike, Strs
      <3> QED
        BY <3>2, <3>3, <3>4, FlattenEmpty
    <2>2. P(0)
      BY <2>1
    <2>3. 0 \in 0 .. n
      BY <1>1
    <2> QED
      BY <2>2, <2>3
  <1>6. ASSUME NEW k \in 0 .. n - 1, k \in T PROVE k + 1 \in T
    <2>1. k \in 0 .. n /\ k + 1 \in 0 .. n /\ k + 1 \in 1 .. n /\ k \in Nat
      BY <1>1
    <2> DEFINE a == JoinedUpTo(pp, k)
               d == ss[k + 1]
    <2>2. a \in Str /\ d \in Str /\ Len(d) < TooLarge
      BY <1>1, <1>4, <2>1
    <2>3. JoinedUpTo(pp, k + 1) = a \o Vector(d)
      BY <1>3, <1>4, <2>1
    <2>4. P(k)
      BY <1>6
    <2> HIDE DEF a, d
    <2>5. ASSUME NEW w, Like(a \o Vector(d), w)
          PROVE  \E tt : AllLike(ss, tt, k + 1) /\ w = FlattenSeq(Packed(tt))
      <3>1. Vector(d) \in Str
        BY <2>2, VectorStr
      <3>2. PICK w1, w2 : Like(a, w1) /\ Like(Vector(d), w2) /\ w = w1 \o w2
        <4>1. LikeBoth(a, Vector(d), w)
          BY <2>2, <2>5, <3>1, LikeParts
        <4> QED
          BY <4>1 DEF LikeBoth
      <3>3. PICK tt : AllLike(ss, tt, k) /\ w1 = FlattenSeq(Packed(tt))
        BY <2>4, <3>2 DEF a
      <3>4. PICK x : Like(d, x) /\ Len(x) < TooLarge /\ w2 = Vector(x)
        BY <2>2, <3>2, LikeVector
      <3>5. AllLike(ss, Append(tt, x), k + 1)
        BY <2>1, <3>3, <3>4, AllLikeNext DEF d
      <3>6. tt \in Strs /\ x \in Str /\ Len(tt) = k
        BY <3>3, <3>4, LikeLong DEF AllLike
      <3>7. Packed(Append(tt, x)) = Append(Packed(tt), Vector(x))
        BY <3>6, PackedAppend
      <3>8. \A c \in 1 .. Len(tt) : Len(tt[c]) < TooLarge
        <4> TAKE c \in 1 .. Len(tt)
        <4>1. c \in 1 .. k /\ c \in 1 .. n
          BY <2>1, <3>6, <1>1
        <4>2. Like(ss[c], tt[c])
          BY <3>3, <4>1 DEF AllLike
        <4> QED
          BY <1>1, <4>1, <4>2, LikeLong
      <3>9. Packed(tt) \in Strs
        BY <3>6, <3>8, PackedTyped
      <3>10. Vector(x) \in Str
        BY <3>4, <3>6, VectorStr
      <3>11. FlattenSeq(Append(Packed(tt), Vector(x))) = FlattenSeq(Packed(tt)) \o Vector(x)
        BY <3>9, <3>10, FlattenAppend
      <3>12. w = FlattenSeq(Packed(Append(tt, x)))
        BY <3>2, <3>3, <3>4, <3>7, <3>11
      <3> QED
        BY <3>5, <3>12
    <2>6. P(k + 1)
      BY <2>3, <2>5
    <2> QED
      BY <2>1, <2>6
  <1>7. 0 .. n \subseteq T
    <2> HIDE DEF T
    <2> QED
      BY <1>1, <1>5, <1>6, UpTo
  <1>8. n \in T
    <2>1. n \in 0 .. n
      BY <1>1
    <2> HIDE DEF T
    <2> QED
      BY <1>7, <2>1
  <1>9. P(n)
    BY <1>8
  <1>10. Like(JoinedUpTo(pp, n), u)
    BY <1>4 DEF pp
  <1> QED
    BY <1>9, <1>10 DEF n

LEMMA LikeVectors ==
  ASSUME NEW ss, Writable(ss), NEW t, Like(Vectors(ss), t)
  PROVE  \E tt : AllLike(ss, tt, Len(ss)) /\ Writable(tt) /\ t = Vectors(tt)
  <1> DEFINE n == Len(ss)
             a == LittleEndian(n, 8)
             b == FlattenSeq(Packed(ss))
  <1>1. n \in Nat /\ n < TooLarge
    BY StringsOf DEF Writable
  <1>2. b \in Str /\ Vectors(ss) = a \o b
    BY VectorsStr
  <1>3. a \in Str
    BY <1>1, NumberReadsBack, EmptyStr
  <1> HIDE DEF a, b
  <1>4. PICK m, u : Like(a, m) /\ Like(b, u) /\ t = m \o u
    <2>1. Like(a \o b, t)
      BY <1>2
    <2>2. LikeBoth(a, b, t)
      BY <1>2, <1>3, <2>1, LikeParts
    <2> QED
      BY <2>2 DEF LikeBoth
  <1>5. m = a
    BY <1>1, <1>4, LikeNumber DEF a
  <1>6. PICK tt : AllLike(ss, tt, n) /\ u = FlattenSeq(Packed(tt))
    BY <1>4, LikeJoined DEF b
  <1>7. tt \in Strs /\ Len(tt) = n /\ \A c \in 1 .. n : Like(ss[c], tt[c])
    BY <1>6 DEF AllLike
  <1>8. \A c \in 1 .. n : Len(tt[c]) < TooLarge
    BY <1>7, LikeLong DEF Writable
  <1>9. Writable(tt)
    BY <1>1, <1>7, <1>8 DEF Writable
  <1>10. t = Vectors(tt)
    BY <1>4, <1>5, <1>6, <1>7, <1>9, VectorsStr DEF a
  <1> QED
    BY <1>6, <1>9, <1>10

-----------------------------------------------------------------------------
(* An onion of which a byte of a field was altered. *)

LEMMA LikeOnion ==
  ASSUME NEW link \in Links, NEW t, Like(serialize(Sent(link)), t)
  PROVE  \E h, f, v, g :
           /\ Parted(h, f, v, g) /\ AllLike(SentHeader(link), h, MaxPathLength)
           /\ t = serialize(OnionOf(h, f, v, g))
  <1> DEFINE a == Vectors(SentHeader(link))
             b == Vector(SentForward(link))
             c == Vector(SentVec(link))
             d == SentTag
             x == a \o b
             y == x \o c
  <1>1. Parted(SentHeader(link), SentForward(link), SentVec(link), SentTag)
    BY SentParted
  <1>2. /\ SentForward(link) \in Str /\ Len(SentForward(link)) < TooLarge
        /\ SentVec(link) \in Str /\ Len(SentVec(link)) < TooLarge
        /\ Writable(SentHeader(link)) /\ d \in Str /\ Len(d) = Format!TagBytes
    BY <1>1 DEF Parted
  <1>3. a \in Str /\ b \in Str /\ c \in Str
    BY <1>2, VectorsStr, VectorStr
  <1>4. serialize(Sent(link)) = y \o d
    <2>1. Sent(link) = OnionOf(SentHeader(link), SentForward(link), SentVec(link), SentTag)
      BY SentIs
    <2> QED
      BY <2>1 DEF serialize, OnionOf
  <1> HIDE DEF a, b, c, d
  <1>5. x \in Str
    BY <1>3, CatStr
  <1> HIDE DEF x
  <1>6. y \in Str
    BY <1>3, <1>5, CatStr
  <1> HIDE DEF y
  <1>7. LikeBoth(y, d, t)
    BY <1>2, <1>4, <1>6, LikeParts
  <1>8. PICK y1, d1 : Like(y, y1) /\ Like(d, d1) /\ t = y1 \o d1
    BY <1>7 DEF LikeBoth
  <1>9. LikeBoth(x, c, y1)
    <2>1. Like(x \o c, y1)
      BY <1>8 DEF y
    <2> QED
      BY <1>3, <1>5, <2>1, LikeParts
  <1>10. PICK x1, c1 : Like(x, x1) /\ Like(c, c1) /\ y1 = x1 \o c1
    BY <1>9 DEF LikeBoth
  <1>11. LikeBoth(a, b, x1)
    <2>1. Like(a \o b, x1)
      BY <1>10 DEF x
    <2> QED
      BY <1>3, <2>1, LikeParts
  <1>12. PICK a1, b1 : Like(a, a1) /\ Like(b, b1) /\ x1 = a1 \o b1
    BY <1>11 DEF LikeBoth
  <1>13. PICK h : AllLike(SentHeader(link), h, Len(SentHeader(link))) /\ Writable(h) /\ a1 = Vectors(h)
    BY <1>2, <1>12, LikeVectors DEF a
  <1>14. PICK f : Like(SentForward(link), f) /\ Len(f) < TooLarge /\ b1 = Vector(f)
    BY <1>2, <1>12, LikeVector DEF b
  <1>15. PICK v : Like(SentVec(link), v) /\ Len(v) < TooLarge /\ c1 = Vector(v)
    BY <1>2, <1>10, LikeVector DEF c
  <1>16. f \in Str /\ v \in Str /\ d1 \in Str /\ Len(d1) = Format!TagBytes
    BY <1>2, <1>8, <1>14, <1>15, LikeLong
  <1>17. Parted(h, f, v, d1)
    BY <1>13, <1>14, <1>15, <1>16 DEF Parted
  <1>18. t = serialize(OnionOf(h, f, v, d1))
    <2>1. t = Vectors(h) \o Vector(f) \o Vector(v) \o d1
      BY <1>8, <1>10, <1>12, <1>13, <1>14, <1>15
    <2> QED
      BY <2>1 DEF serialize, OnionOf
  <1>19. Len(SentHeader(link)) = MaxPathLength
    BY SentHeaderTyped
  <1> QED
    BY <1>13, <1>17, <1>18, <1>19

(* A block with a point and a ciphertext of the right lengths is decrypted. *)
LEMMA BlockDecrypts ==
  ASSUME NEW link \in Links, NEW d, Like(ciphertext(link), d)
  PROVE  asymmetric_decrypt(PackMeta(link), d).ok
  <1> DEFINE a == Field("point", 0, 32)
             b == Field("sealed", 0, 52)
             p == PackMeta(link)
  <1>1. /\ a \in Str /\ Len(a) = 32 /\ b \in Str /\ Len(b) = 52
        /\ ciphertext(link) = a \o Vector(b)
    BY CipherTyped
  <1> HIDE DEF a, b, p
  <1>2. Len(b) < TooLarge
    BY <1>1 DEF TooLarge
  <1>3. Vector(b) \in Str
    BY <1>1, <1>2, VectorStr
  <1>4. LikeBoth(a, Vector(b), d)
    BY <1>1, <1>3, LikeParts
  <1>5. PICK x, w : Like(a, x) /\ Like(Vector(b), w) /\ d = x \o w
    BY <1>4 DEF LikeBoth
  <1>6. PICK y : Like(b, y) /\ Len(y) < TooLarge /\ w = Vector(y)
    BY <1>1, <1>2, <1>5, LikeVector
  <1>7. x \in Str /\ Len(x) = 32 /\ w \in Str /\ y \in Str
    BY <1>1, <1>5, <1>6, LikeLong
  <1>8. ReadBytes(32, d) = Got(x, w)
    <2>1. ReadBytes(Len(x), x \o w) = Got(x, w)
      BY <1>7, BytesReadBack
    <2> QED
      BY <1>5, <1>7, <2>1
  <1>9. ReadVector(w) = Got(y, <<>>)
    <2>1. ReadVector(Vector(y) \o <<>>) = Got(y, <<>>)
      BY <1>6, <1>7, EmptyStr, VectorReadsBack
    <2>2. Vector(y) \o <<>> = Vector(y)
      BY <1>6, <1>7, EmptyStr
    <2> QED
      BY <1>6, <2>1, <2>2
  <1> DEFINE point  == ReadBytes(Format!PointBytes, d)
             sealed == ReadVector(point.rest)
  <1>10. point = Got(x, w)
    BY <1>8, Bounds
  <1>11. point.ok /\ point.rest = w
    BY <1>10 DEF Got
  <1>12. sealed = Got(y, <<>>)
    BY <1>9, <1>11
  <1>13. sealed.ok
    BY <1>12 DEF Got
  <1>14. asymmetric_decrypt(p, d)
           = IF ~ point.ok \/ ~ sealed.ok
             THEN IF Len(d) < Format!PointBytes + 8 THEN ShortCiphertext
                  ELSE Got(Garbage, <<>>)
             ELSE Got(IF point.value \o Vector(sealed.value) = asymmetric_encrypt(p)
                      THEN p ELSE Garbage, <<>>)
    BY Zenon DEF asymmetric_decrypt
  <1> HIDE DEF point, sealed
  <1>15. \A z : Got(z, <<>>).ok
    BY DEF Got
  <1> QED
    BY <1>11, <1>13, <1>14, <1>15 DEF p

(* Such an onion fails the tag, if it is refused when it is peeled.        *)
LEMMA LikeUnwraps ==
  ASSUME NEW link \in Links, NEW h, NEW f, NEW v, NEW g, h # <<>>,
         Like(SentHeader(link)[1], h[1])
  PROVE  LET u == unwrap(link, OnionOf(h, f, v, g)) IN u = Err("MacMismatch") \/ u.ok
  <1> DEFINE c == ciphertext(link)
             o == OnionOf(h, f, v, g)
             bwd == ae_unwrap(Section(v, g))
  <1>1. c \in Str /\ Len(c) = 92
    BY CipherTyped
  <1>2. TheTag \in Str /\ Len(TheTag) = 16
    BY SentBlock DEF TheTag
  <1>3. SentHeader(link)[1] = TheTag \o Vector(c)
    BY SentHeaderTyped DEF TheTag, HeaderBlock
  <1> HIDE DEF c, o, bwd
  <1>4. Len(c) < TooLarge
    BY <1>1 DEF TooLarge
  <1>5. Vector(c) \in Str
    BY <1>1, <1>4, VectorStr
  <1>6. LikeBoth(TheTag, Vector(c), h[1])
    BY <1>2, <1>3, <1>5, LikeParts
  <1>7. PICK t, w : Like(TheTag, t) /\ Like(Vector(c), w) /\ h[1] = t \o w
    BY <1>6 DEF LikeBoth
  <1>8. PICK d : Like(c, d) /\ Len(d) < TooLarge /\ w = Vector(d)
    BY <1>1, <1>4, <1>7, LikeVector
  <1>9. t \in Str /\ Len(t) = 16 /\ d \in Str /\ w \in Str
    BY <1>2, <1>7, <1>8, LikeLong
  <1>10. UnpacksTo(h[1], t, d)
    <2>1. UnpacksTo(HeaderBlock(t, d) \o <<>>, t, d)
      BY <1>8, <1>9, EmptyStr, UnpackReadsBack
    <2>2. HeaderBlock(t, d) \in Str
      BY <1>8, <1>9, HeaderBlockStr
    <2>3. HeaderBlock(t, d) \o <<>> = h[1]
      BY <1>7, <1>8, <2>2, EmptyStr DEF HeaderBlock
    <2> QED
      BY <2>1, <2>3
  <1>11. unwrap(link, o) = UnwrapGives(link, t, d, Tail(h), f, Section(v, g))
    BY <1>10, UnwrapIs DEF o
  <1> DEFINE plain == asymmetric_decrypt(PackMeta(link), d)
             meta  == ReadMeta(plain.value)
  <1>12. plain.ok
    BY <1>8, BlockDecrypts DEF c
  <1>13. unwrap(link, o) = IF ~ plain.ok THEN plain
                           ELSE IF ~ meta.ok \/ t # tag(link, MacInput(d, Tail(h), f))
                           THEN Err("MacMismatch")
                           ELSE [ok |-> TRUE, meta |-> meta.value, cells |-> Tail(h),
                                 backward |-> bwd]
    BY <1>11, Zenon DEF UnwrapGives, bwd
  <1> HIDE DEF plain, meta
  <1>14. unwrap(link, o) = Err("MacMismatch") \/ unwrap(link, o).ok
    BY <1>12, <1>13
  <1> QED
    BY <1>14 DEF o

(* An onion that is like the one that was sent is read. *)
LEMMA LikeIsRead ==
  ASSUME NEW link \in Links, NEW s, Like(serialize(Sent(link)), s)
  PROVE  \E h, f, v, g :
           /\ Parted(h, f, v, g) /\ AllLike(SentHeader(link), h, MaxPathLength)
           /\ s = serialize(OnionOf(h, f, v, g)) \o <<>>
           /\ Answer(link, s) = Handled(link, OnionOf(h, f, v, g))
  <1>1. PICK h, f, v, g :
           /\ Parted(h, f, v, g) /\ AllLike(SentHeader(link), h, MaxPathLength)
           /\ s = serialize(OnionOf(h, f, v, g))
    BY LikeOnion
  <1>2. s \in Str /\ s \o <<>> = s /\ <<>> \in Str
    BY EmptyStr, LikeLong
  <1>3. deserialize(serialize(OnionOf(h, f, v, g)) \o <<>>)
          = [ok |-> TRUE, onion |-> OnionOf(h, f, v, g)]
    BY <1>1, <1>2, OnionReadsBack
  <1>4. deserialize(s).ok /\ deserialize(s).onion = OnionOf(h, f, v, g)
    BY <1>1, <1>2, <1>3
  <1>5. Answer(link, s) = Handled(link, OnionOf(h, f, v, g))
    BY <1>4, Zenon DEF Answer
  <1> QED
    BY <1>1, <1>2, <1>5

(* A byte of a field was altered in front of the backward section: the     *)
(* onion is read, and then fails the tag.                                  *)
LEMMA AlteredInFront ==
  ASSUME WireInv, Has("onion"), change.kind = "alter", change.byte = altered,
         ~ InBackward(change.at)
  PROVE  result = Err("MacMismatch")
  <1> DEFINE link == artefact.link
             s    == Received
             b    == SentBytes(artefact)
  <1>1. /\ link \in Links /\ b = serialize(Sent(link)) /\ b \in Str /\ Changed(b, change)
        /\ s = After(b, change) /\ s \in Str
        /\ result = Answer(link, s)
    BY OnionHas
  <1>2. ~ (change.at > Len(InFront(SentHeader(link), SentForward(link))))
    BY <1>1, BackwardIs
  <1> HIDE DEF link, s, b
  <1>3. Like(serialize(Sent(link)), s)
    BY <1>1, AlteredLike
  <1>4. PICK h, f, v, g :
           /\ Parted(h, f, v, g) /\ AllLike(SentHeader(link), h, MaxPathLength)
           /\ s = serialize(OnionOf(h, f, v, g)) \o <<>>
           /\ Answer(link, s) = Handled(link, OnionOf(h, f, v, g))
    BY <1>1, <1>3, LikeIsRead
  <1> DEFINE o == OnionOf(h, f, v, g)
  <1>5. ~ unwrap(link, o).ok
    BY <1>1, <1>2, <1>4, EmptyStr, BordersStand
  <1>6. h # <<>> /\ Like(SentHeader(link)[1], h[1])
    <2>1. Len(h) = MaxPathLength /\ MaxPathLength \in Nat /\ MaxPathLength # 0
      BY <1>1, <1>4, Bounds DEF AllLike
    <2>2. h # <<>> /\ 1 \in 1 .. MaxPathLength
      BY <2>1, EmptyStr
    <2> QED
      BY <1>4, <2>2 DEF AllLike
  <1>7. unwrap(link, o) = Err("MacMismatch")
    BY <1>1, <1>5, <1>6, LikeUnwraps
  <1> HIDE DEF o
  <1>8. Handled(link, o) = Err("MacMismatch")
    BY <1>5, <1>7, HandledUnpeeled
  <1> QED
    BY <1>1, <1>4, <1>8 DEF o

(* What is in front of the place that was altered is read as it was sent.  *)
LEMMA FrontIsRead ==
  ASSUME NEW link \in Links, NEW c, Changed(serialize(Sent(link)), c), c.kind = "alter",
         c.at > Len(InFront(SentHeader(link), SentForward(link))),
         NEW h, NEW f, NEW v, NEW g, Parted(h, f, v, g), NEW t \in Str,
         serialize(OnionOf(h, f, v, g)) \o t = After(serialize(Sent(link)), c)
  PROVE  h = SentHeader(link) /\ f = SentForward(link)
  <1> DEFINE b  == serialize(Sent(link))
             s  == After(b, c)
             sh == SentHeader(link)
             sf == SentForward(link)
             a  == InFront(sh, sf)
             n  == Len(a)
  <1>1. /\ Parted(sh, sf, SentVec(link), SentTag) /\ b \in Str
        /\ b = serialize(OnionOf(sh, sf, SentVec(link), SentTag)) \o <<>>
    <2>1. Parted(sh, sf, SentVec(link), SentTag) /\ b \in Str
      BY SentParted
    <2>2. b = serialize(OnionOf(sh, sf, SentVec(link), SentTag))
      BY SentIs
    <2>3. b \o <<>> = b
      BY <2>1, EmptyStr
    <2> QED
      BY <2>1, <2>2, <2>3
  <1>2. PICK w \in Str : b = a \o w /\ a \in Str /\ Vectors(sh) \in Str /\ Vector(sf) \in Str
    <2> DEFINE e  == <<>>
               v0 == SentVec(link)
               g0 == SentTag
    <2>1. e \in Str
      BY EmptyStr
    <2>2. Parted(sh, sf, v0, g0) /\ b = serialize(OnionOf(sh, sf, v0, g0)) \o e
      BY <1>1
    <2> HIDE DEF b, sh, sf, e, v0, g0
    <2>3. Fronted(sh, sf, v0, g0, e)
      BY <2>1, <2>2, FrontIs
    <2> QED
      BY <2>2, <2>3 DEF Fronted
  <1>3. c.at > n /\ Changed(b, c)
    OBVIOUS
  <1>4. s \in Str /\ s = serialize(OnionOf(h, f, v, g)) \o t
    BY <1>1, AfterStr
  <1> HIDE DEF b, s, sh, sf, a
  <1>5. n \in Nat /\ Len(b) = n + Len(w) /\ Len(w) \in Nat
    BY <1>2, CatStr, LenNat
  <1>6. Sphinx!Slice(s, 0, n) = a
    <2>1. Sphinx!Slice(a \o w, 0, Len(a)) = a
      BY <1>2, FoundInFront
    <2>2. c.at \notin 0 + 1 .. n /\ 0 \in Nat /\ 0 <= n /\ n <= Len(b)
      BY <1>3, <1>5
    <2> HIDE DEF n
    <2>3. Sphinx!Slice(After(b, c), 0, n) = Sphinx!Slice(b, 0, n)
      BY <1>1, <1>3, <1>5, <2>2, Unreached
    <2> QED
      BY <1>2, <2>1, <2>3 DEF n, s
  <1>7. PICK z \in Str : s = a \o z
    <2>1. Len(s) = Len(b)
      BY <1>1, <1>3, OneByte DEF s
    <2>2. n <= Len(s)
      BY <1>5, <2>1
    <2> HIDE DEF n
    <2>3. Sphinx!Drop(n, s) \in Str /\ Sphinx!Slice(s, 0, n) \o Sphinx!Drop(n, s) = s
      BY <1>4, <1>5, <2>2, PartsStr
    <2> QED
      BY <1>6, <2>3
  (* The same bytes, read with both onions in mind. *)
  <1> DEFINE x == Vector(sf) \o z
             y == Vector(f) \o (Vector(v) \o (g \o t))
  <1>8. s = Vectors(sh) \o x /\ x \in Str
    <2>1. Assoc(Vectors(sh), Vector(sf), z) /\ x \in Str
      BY <1>2, AssocOf, CatStr
    <2> QED
      BY <1>7, <2>1 DEF Assoc, a, InFront
  <1>9. s = Vectors(h) \o y /\ y \in Str /\ Vector(v) \o (g \o t) \in Str
    <2>1. Written(h, f, v, g, t)
      BY OnionWritten
    <2> QED
      BY <1>4, <2>1, Zenon DEF Written
  <1>10. Writable(sh) /\ Writable(h)
    BY <1>1 DEF Parted
  <1>11. Got(sh, x) = Got(h, y)
    <2> HIDE DEF x, y
    <2>1. ReadVectors(Vectors(sh) \o x) = Got(sh, x)
      BY <1>8, <1>10, VectorsReadBack
    <2>2. ReadVectors(Vectors(h) \o y) = Got(h, y)
      BY <1>9, <1>10, VectorsReadBack
    <2> QED
      BY <1>8, <1>9, <2>1, <2>2
  <1>12. h = sh /\ x = y
    <2> HIDE DEF x, y
    <2> QED
      BY <1>11 DEF Got
  <1>13. /\ sf \in Str /\ Len(sf) < TooLarge /\ f \in Str /\ Len(f) < TooLarge
    BY <1>1 DEF Parted
  <1> DEFINE u == Vector(v) \o (g \o t)
  <1>14. u \in Str
    BY <1>9
  <1> HIDE DEF u
  <1>15. ReadVector(Vector(sf) \o z) = Got(sf, z)
    BY <1>13, VectorReadsBack
  <1>16. ReadVector(Vector(f) \o u) = Got(f, u)
    BY <1>13, <1>14, VectorReadsBack
  <1>17. f = sf
    <2>1. Got(sf, z) = Got(f, u)
      BY <1>12, <1>15, <1>16 DEF u
    <2> QED
      BY <2>1 DEF Got
  <1> QED
    BY <1>12, <1>17 DEF sh, sf

(* A byte of a field was altered in the backward section: nobody notices   *)
(* but the sender.                                                         *)
LEMMA AlteredBackward ==
  ASSUME WireInv, Has("onion"), change.kind = "alter", change.byte = altered,
         InBackward(change.at)
  PROVE  IF artefact.link.role = "Sender" THEN result = Err("AeError") ELSE result.ok
  <1> DEFINE link == artefact.link
             s    == Received
             b    == SentBytes(artefact)
  <1>1. /\ link \in Links /\ b = serialize(Sent(link)) /\ b \in Str /\ Changed(b, change)
        /\ s = After(b, change) /\ s \in Str
        /\ result = Answer(link, s)
    BY OnionHas
  <1>2. change.at > Len(InFront(SentHeader(link), SentForward(link)))
    BY <1>1, BackwardIs
  <1> HIDE DEF link, s, b
  <1>3. Like(serialize(Sent(link)), s)
    BY <1>1, AlteredLike
  <1>4. PICK h, f, v, g :
           /\ Parted(h, f, v, g)
           /\ s = serialize(OnionOf(h, f, v, g)) \o <<>>
           /\ Answer(link, s) = Handled(link, OnionOf(h, f, v, g))
    BY <1>1, <1>3, LikeIsRead
  <1>5. h = SentHeader(link) /\ f = SentForward(link)
    <2> DEFINE e == <<>>
    <2>1. e \in Str
      BY EmptyStr
    <2>2. Parted(h, f, v, g)
      BY <1>4
    <2>3. link \in Links /\ Changed(serialize(Sent(link)), change)
      BY <1>1
    <2>4. serialize(OnionOf(h, f, v, g)) \o e = After(serialize(Sent(link)), change)
      BY <1>1, <1>4
    <2> HIDE DEF e
    <2> QED
      BY <1>2, <2>1, <2>2, <2>3, <2>4, FrontIsRead
  <1> DEFINE o == OnionOf(SentHeader(link), SentForward(link), v, g)
  <1>6. result = Handled(link, o) /\ s = serialize(o) \o <<>>
    BY <1>1, <1>4, <1>5
  <1>7. unwrap(link, o) = PeeledOf(link, Section(v, g))
    BY <1>1, UnwrapSent
  <1>8. o # Sent(link)
    <2> SUFFICES ASSUME o = Sent(link) PROVE FALSE
      OBVIOUS
    <2>1. s = b
      BY <1>1, <1>6, EmptyStr
    <2>2. s[change.at] # b[change.at]
      BY <1>1, OneByte
    <2> QED
      BY <2>1, <2>2
  <1>9. o.backward # Sent(link).backward /\ packed_header(o) = packed_header(Sent(link))
    <2>1. o.header = Sent(link).header
      BY SentIs DEF OnionOf
    <2>2. packed_header(o) = packed_header(Sent(link))
      BY <2>1, Zenon DEF packed_header
    <2>3. /\ o.backward = [vec |-> v, tag |-> g]
          /\ Sent(link).backward = [vec |-> SentVec(link), tag |-> SentTag]
          /\ Sent(link) = OnionOf(SentHeader(link), SentForward(link), SentVec(link), SentTag)
      BY SentIs DEF OnionOf
    <2>4. o.backward # Sent(link).backward
      <3> SUFFICES ASSUME o.backward = Sent(link).backward PROVE FALSE
        OBVIOUS
      <3> DEFINE y == o.backward
                 v0 == SentVec(link)
                 g0 == SentTag
      <3>1. y = [vec |-> v, tag |-> g] /\ y = [vec |-> v0, tag |-> g0]
        BY <2>3, Zenon
      <3> HIDE DEF y, v0, g0
      <3>2. v = y.vec /\ g = y.tag
        BY <3>1
      <3>3. v0 = y.vec /\ g0 = y.tag
        BY <3>1
      <3>4. v = SentVec(link) /\ g = SentTag
        BY <3>2, <3>3 DEF v0, g0
      <3> QED
        BY <1>8, <2>3, <3>4
    <2> QED
      BY <2>2, <2>4
  <1>10. link.role \in {"Hop", "Receiver", "Sender"}
    BY <1>1, Bounds
  <1> HIDE DEF o
  <1>11. CASE link.role = "Sender"
    <2>1. Handled(link, o) = accept_reply(link, next(link), o)
      BY <1>1, <1>7, <1>11, HandledWhenPeeled
    <2>2. accept_reply(link, next(link), o) = Err("AeError")
      BY <1>1, <1>9, AcceptReply
    <2> QED
      BY <1>6, <1>11, <2>1, <2>2 DEF link
  <1>12. CASE link.role = "Hop"
    <2>1. result = HopGets(link, o.forward, Section(v, g))
      BY <1>1, <1>6, <1>7, <1>12, HandledWhenPeeled
    <2>2. result.ok
      BY <2>1 DEF HopGets
    <2> QED
      BY <1>12, <2>2 DEF link
  <1>13. CASE link.role = "Receiver"
    <2>1. result = ReceiverGets(link, Len(o.forward), Section(v, g))
      BY <1>1, <1>6, <1>7, <1>13, HandledWhenPeeled
    <2>2. result.ok
      BY <2>1 DEF ReceiverGets
    <2> QED
      BY <1>13, <2>2 DEF link
  <1> QED
    BY <1>10, <1>11, <1>12, <1>13

-----------------------------------------------------------------------------
(* Panics. *)

(* An onion that is whole is processed as it was sent. *)
LEMMA WholeOnion ==
  ASSUME WireInv, Has("onion"), change.kind \in {"none", "append"}
  PROVE  result = AsSent
  <1> DEFINE link == artefact.link
             s    == Received
             b    == SentBytes(artefact)
  <1>1. /\ link \in Links /\ b = serialize(Sent(link)) /\ b \in Str /\ Changed(b, change)
        /\ s = After(b, change)
        /\ result = Answer(link, s)
    BY OnionHas
  <1>2. AsSent = Handled(link, Sent(link))
    BY DEF AsSent
  <1> HIDE DEF link, s, b
  <1>3. PICK t \in Str : s = b \o t
    <2>1. CASE change.kind = "none"
      <3>1. s = b \o <<>>
        BY <1>1, <2>1, AfterIs, EmptyStr
      <3> QED
        BY <3>1, EmptyStr
    <2>2. CASE change.kind = "append"
      <3>1. change.byte = altered
        BY <1>1, <2>2 DEF Changed, Untouched
      <3>2. s = Append(b, altered)
        BY <1>1, <2>2, <3>1, AfterIs
      <3>3. <<altered>> \in Str /\ Append(b, altered) = b \o <<altered>>
        BY <1>1, AlteredIsByte DEF Str
      <3> QED
        BY <3>2, <3>3
    <2> QED
      BY <2>1, <2>2
  <1>4. deserialize(s) = [ok |-> TRUE, onion |-> Sent(link)]
    <2> DEFINE h0 == SentHeader(link)  f0 == SentForward(link)  v0 == SentVec(link)
    <2>1. Parted(h0, f0, v0, SentTag)
      BY <1>1, SentParted
    <2>2. Sent(link) = OnionOf(h0, f0, v0, SentTag)
      BY SentIs
    <2> HIDE DEF h0, f0, v0
    <2>3. deserialize(serialize(OnionOf(h0, f0, v0, SentTag)) \o t)
            = [ok |-> TRUE, onion |-> OnionOf(h0, f0, v0, SentTag)]
      BY <2>1, OnionReadsBack
    <2> QED
      BY <1>1, <1>3, <2>2, <2>3
  <1>5. deserialize(s).ok /\ deserialize(s).onion = Sent(link)
    BY <1>4
  <1> QED
    BY <1>1, <1>2, <1>5, Zenon DEF Answer

(* An onion that is peeled makes nothing panic any more.                   *)
LEMMA NoPanicWhenPeeled ==
  ASSUME NEW link \in Links, NEW o, NEW bwd, unwrap(link, o) = PeeledOf(link, bwd)
  PROVE  Handled(link, o) \notin {NoBlock, ShortCiphertext}
  <1>1. /\ Err("UnexpectedReply") \notin {NoBlock, ShortCiphertext}
        /\ Err("AeError") \notin {NoBlock, ShortCiphertext}
        /\ ~ NoBlock.ok /\ ~ ShortCiphertext.ok
    BY DEF Err, NoBlock, ShortCiphertext
  <1>2. link.role \in {"Hop", "Receiver", "Sender"}
    BY Bounds
  <1>3. CASE link.role = "Hop"
    <2>1. Handled(link, o) = HopGets(link, o.forward, bwd)
      BY <1>3, HandledWhenPeeled
    <2>2. HopGets(link, o.forward, bwd).ok
      BY DEF HopGets
    <2> QED
      BY <1>1, <2>1, <2>2
  <1>4. CASE link.role = "Receiver"
    <2>1. Handled(link, o) = ReceiverGets(link, Len(o.forward), bwd)
      BY <1>4, HandledWhenPeeled
    <2>2. ReceiverGets(link, Len(o.forward), bwd).ok
      BY DEF ReceiverGets
    <2> QED
      BY <1>1, <2>1, <2>2
  <1>5. CASE link.role = "Sender"
    <2>1. Handled(link, o) = accept_reply(link, next(link), o)
      BY <1>5, HandledWhenPeeled
    <2>2. \/ accept_reply(link, next(link), o) \in {Err("UnexpectedReply"), Err("AeError")}
          \/ accept_reply(link, next(link), o).ok
      BY DEF accept_reply
    <2> QED
      BY <1>1, <2>1, <2>2
  <1> QED
    BY <1>2, <1>3, <1>4, <1>5

LEMMA SentDoesNotPanic ==
  ASSUME NEW link \in Links
  PROVE  Handled(link, Sent(link)) \notin {NoBlock, ShortCiphertext}
  <1>1. Sent(link) = OnionOf(SentHeader(link), SentForward(link), SentVec(link), SentTag)
    BY SentIs
  <1>2. unwrap(link, Sent(link)) = PeeledOf(link, Section(SentVec(link), SentTag))
    BY <1>1, UnwrapSent
  <1> QED
    BY <1>2, NoPanicWhenPeeled

(* A panic comes from peeling. *)
LEMMA PanicsUnpeeled ==
  ASSUME NEW link \in Links, NEW h, NEW f, NEW v, NEW g, Parted(h, f, v, g),
         Handled(link, OnionOf(h, f, v, g)) \in {NoBlock, ShortCiphertext}
  PROVE  unwrap(link, OnionOf(h, f, v, g)) = Handled(link, OnionOf(h, f, v, g))
  <1> DEFINE o == OnionOf(h, f, v, g)
  <1>1. CASE unwrap(link, o).ok
    <2>1. unwrap(link, o) = PeeledOf(link, Section(v, g))
      BY <1>1, UnwrapSame
    <2>2. Handled(link, o) \notin {NoBlock, ShortCiphertext}
      BY <2>1, NoPanicWhenPeeled
    <2> QED
      BY <2>2
  <1>2. CASE ~ unwrap(link, o).ok
    <2> HIDE DEF o
    <2>1. Handled(link, o) = unwrap(link, o)
      BY <1>2, HandledUnpeeled
    <2> QED
      BY <2>1 DEF o
  <1> QED
    BY <1>1, <1>2

(* There is no block only where there is no cell. *)
LEMMA NoBlockMeans ==
  ASSUME NEW link \in Links, NEW h, NEW f, NEW v, NEW g, Parted(h, f, v, g),
         unwrap(link, OnionOf(h, f, v, g)) = NoBlock
  PROVE  h = <<>>
  <1> SUFFICES ASSUME h # <<>> PROVE FALSE
    OBVIOUS
  <1> DEFINE o == OnionOf(h, f, v, g)
             block == unpack(h[1])
             plain == asymmetric_decrypt(PackMeta(link), block.data)
             meta  == ReadMeta(plain.value)
             t     == tag(link, MacInput(block.data, Tail(h), f))
             bwd   == ae_unwrap(Section(v, g))
  <1>1. o.header = h /\ o.forward = f /\ o.backward = Section(v, g)
    BY DEF OnionOf, Section
  <1> HIDE DEF o
  <1>2. unwrap(link, o) = IF ~ block.ok THEN block
                          ELSE IF ~ plain.ok THEN plain
                          ELSE IF ~ meta.ok \/ block.tag # t THEN Err("MacMismatch")
                          ELSE [ok |-> TRUE, meta |-> meta.value, cells |-> Tail(h),
                                backward |-> bwd]
    BY <1>1, Zenon DEF unwrap
  <1>3. block = Err("SerializationError") \/ block.ok
    BY DEF unpack
  <1>4. plain = ShortCiphertext \/ plain.ok
    <2>1. plain \in {ShortCiphertext, Got(Garbage, <<>>), Got(PackMeta(link), <<>>)}
      BY DecryptGives
    <2>2. \A z : Got(z, <<>>).ok
      BY DEF Got
    <2> HIDE DEF plain
    <2> QED
      BY <2>1, <2>2
  <1>5. /\ Err("SerializationError") # NoBlock /\ ShortCiphertext # NoBlock
        /\ Err("MacMismatch") # NoBlock /\ ~ NoBlock.ok
    BY DEF Err, NoBlock, ShortCiphertext
  <1> HIDE DEF block, plain, meta, t, bwd
  <1>6. unwrap(link, o) # NoBlock
    BY <1>2, <1>3, <1>4, <1>5
  <1> QED
    BY <1>6 DEF o

(* A ciphertext is too short only where its length says so.                *)
LEMMA ShortMeans ==
  ASSUME NEW link \in Links, NEW h, NEW f, NEW v, NEW g, Parted(h, f, v, g),
         unwrap(link, OnionOf(h, f, v, g)) = ShortCiphertext
  PROVE  /\ h # <<>>
         /\ \E t \in Str, d \in Str, r \in Str :
              /\ Len(t) = 16 /\ Len(d) < 40 /\ Len(d) < TooLarge
              /\ HeaderBlock(t, d) \o r = h[1]
  <1> DEFINE o == OnionOf(h, f, v, g)
  <1>0. o.header = h /\ unwrap(link, o) = ShortCiphertext
    BY DEF OnionOf
  <1>1. /\ Err("SerializationError") # ShortCiphertext /\ ShortCiphertext # NoBlock
        /\ Err("MacMismatch") # ShortCiphertext /\ ~ ShortCiphertext.ok
    BY DEF Err, NoBlock, ShortCiphertext
  <1> HIDE DEF o
  <1>2. h # <<>> /\ unpack(h[1]).ok
    <2>1. unwrap(link, o) = IF h = <<>> THEN NoBlock ELSE IF ~ unpack(h[1]).ok THEN unpack(h[1])
                            ELSE unwrap(link, o)
      BY <1>0, Zenon DEF unwrap
    <2>2. unpack(h[1]) = Err("SerializationError") \/ unpack(h[1]).ok
      BY DEF unpack
    <2> QED
      BY <1>0, <1>1, <2>1, <2>2
  <1>3. h[1] \in Str /\ Len(h[1]) < TooLarge
    BY <1>2, TailWritable DEF Parted
  <1>4. PICK t \in Str, d \in Str, r \in Str :
               /\ Len(t) = 16 /\ Len(d) < TooLarge
               /\ UnpacksTo(h[1], t, d) /\ HeaderBlock(t, d) \o r = h[1]
    BY <1>2, <1>3, UnpackStood
  <1>5. unwrap(link, o) = UnwrapGives(link, t, d, Tail(h), f, Section(v, g))
    BY <1>2, <1>4, UnwrapIs DEF o
  <1> DEFINE plain == asymmetric_decrypt(PackMeta(link), d)
             meta  == ReadMeta(plain.value)
             x     == tag(link, MacInput(d, Tail(h), f))
             bwd   == ae_unwrap(Section(v, g))
  <1>6. unwrap(link, o) = IF ~ plain.ok THEN plain
                          ELSE IF ~ meta.ok \/ t # x THEN Err("MacMismatch")
                          ELSE [ok |-> TRUE, meta |-> meta.value, cells |-> Tail(h),
                                backward |-> bwd]
    BY <1>5, Zenon DEF UnwrapGives
  <1>7. plain = ShortCiphertext => Len(d) < Format!PointBytes + 8
    <2> DEFINE point  == ReadBytes(Format!PointBytes, d)
               sealed == ReadVector(point.rest)
               p      == IF point.value \o Vector(sealed.value)
                              = asymmetric_encrypt(PackMeta(link))
                         THEN PackMeta(link) ELSE Garbage
    <2>1. plain = IF ~ point.ok \/ ~ sealed.ok
                  THEN IF Len(d) < Format!PointBytes + 8 THEN ShortCiphertext
                       ELSE Got(Garbage, <<>>)
                  ELSE Got(p, <<>>)
      BY Zenon DEF asymmetric_decrypt
    <2>2. \A z : Got(z, <<>>).ok
      BY DEF Got
    <2> HIDE DEF plain, point, sealed, p
    <2> QED
      BY <1>1, <2>1, <2>2
  <1> HIDE DEF plain, meta, x, bwd
  <1>8. plain = ShortCiphertext
    BY <1>0, <1>1, <1>6
  <1>9. Len(d) < 40
    BY <1>7, <1>8, Bounds
  <1> QED
    BY <1>2, <1>4, <1>9

(* Where an onion has the number of its cells, and the length of the first *)
(* block's ciphertext.                                                     *)
LEMMA CountFound ==
  ASSUME NEW h, NEW f, NEW v, NEW g, Parted(h, f, v, g), NEW t \in Str
  PROVE  Sphinx!Slice(serialize(OnionOf(h, f, v, g)) \o t, 0, 8) = LittleEndian(Len(h), 8)
  <1> DEFINE s == serialize(OnionOf(h, f, v, g)) \o t
             w == Vector(f) \o (Vector(v) \o (g \o t))
             n == LittleEndian(Len(h), 8)
             p == FlattenSeq(Packed(h))
  <1>1. s = Vectors(h) \o w /\ w \in Str
    <2>1. Written(h, f, v, g, t)
      BY OnionWritten
    <2> QED
      BY <2>1, Zenon DEF Written
  <1>2. Vectors(h) = n \o p /\ p \in Str
    BY VectorsStr DEF Parted
  <1>3. n \in Str /\ Len(n) = 8
    <2>1. Len(h) \in Nat /\ Len(h) < TooLarge
      BY StringsOf DEF Parted, Writable
    <2> QED
      BY <2>1, NumberReadsBack, EmptyStr
  <1> HIDE DEF s, w, n, p
  <1>4. Assoc(n, p, w) /\ p \o w \in Str
    BY <1>1, <1>2, <1>3, AssocOf, CatStr
  <1>5. s = n \o (p \o w)
    BY <1>1, <1>2, <1>4, Zenon DEF Assoc
  <1>6. Sphinx!Slice(n \o (p \o w), 0, Len(n)) = n
    BY <1>3, <1>4, FoundInFront
  <1> QED
    BY <1>3, <1>5, <1>6 DEF s, n

(* Behind another string all places are moved by its length.               *)
Moved(a, b, i, j) == Sphinx!Slice(a \o b, Len(a) + i, Len(a) + j) = Sphinx!Slice(b, i, j)

LEMMA MovedBehind ==
  ASSUME NEW a \in Str, NEW b \in Str, NEW i \in Nat, NEW j \in Nat, i <= j, j <= Len(b)
  PROVE  Moved(a, b, i, j)
  BY FoundBehind DEF Moved

(* The first block of a header, and where an onion holds its length.       *)
FirstIs(h, t, d, r) == HeaderBlock(t, d) \o r = h[1]

LengthAt(h, f, v, g, u, d) ==
  Sphinx!Slice(serialize(OnionOf(h, f, v, g)) \o u, 32, 40) = LittleEndian(Len(d), 8)

LEMMA LengthFound ==
  ASSUME NEW h, NEW f, NEW v, NEW g, Parted(h, f, v, g), NEW u \in Str, h # <<>>,
         NEW t \in Str, NEW d \in Str, NEW r \in Str,
         Len(t) = 16, Len(d) < TooLarge, FirstIs(h, t, d, r)
  PROVE  LengthAt(h, f, v, g, u, d)
  <1> DEFINE s  == serialize(OnionOf(h, f, v, g)) \o u
             w  == Vector(f) \o (Vector(v) \o (g \o u))
             n  == LittleEndian(Len(h), 8)
             pp == Packed(h)
             m  == LittleEndian(Len(h[1]), 8)
             l  == LittleEndian(Len(d), 8)
  <1>1. s = Vectors(h) \o w /\ w \in Str
    <2>1. Written(h, f, v, g, u)
      BY OnionWritten
    <2> QED
      BY <2>1, Zenon DEF Written
  <1>2. h \in Strs /\ Len(h) \in Nat /\ Len(h) < TooLarge /\ Len(h) >= 1
        /\ h[1] \in Str /\ Len(h[1]) < TooLarge /\ Writable(h)
    BY StringsOf, TailWritable DEF Parted, Writable
  <1>3. n \in Str /\ Len(n) = 8
    BY <1>2, NumberReadsBack, EmptyStr
  <1>4. m \in Str /\ Len(m) = 8
    BY <1>2, LenNat, NumberReadsBack, EmptyStr
  <1>5. l \in Str /\ Len(l) = 8
    BY LenNat, NumberReadsBack, EmptyStr
  <1>6. \E x \in Str : FlattenSeq(pp) = (m \o h[1]) \o x
    <2>1. pp \in Strs /\ Len(pp) = Len(h)
      BY <1>2, PackedTyped DEF Writable
    <2>2. pp[1] = m \o h[1]
      <3>1. 1 \in DOMAIN h
        BY <1>2, StringsOf
      <3> QED
        BY <3>1 DEF Packed, Vector
    <2> HIDE DEF pp
    <2>3. 0 \in 0 .. Len(pp) - 1 /\ 1 \in 0 .. Len(pp) /\ 0 + 1 = 1
      BY <1>2, <2>1
    <2>4. JoinedUpTo(pp, 1) = <<>> \o pp[1]
      <3>1. JoinedUpTo(pp, 0 + 1) = JoinedUpTo(pp, 0) \o pp[0 + 1]
        BY <2>1, <2>3, JoinedSteps
      <3>2. JoinedUpTo(pp, 0) = <<>>
        BY <2>1, JoinedSteps
      <3> QED
        BY <2>3, <3>1, <3>2
    <2>5. m \o h[1] \in Str
      BY <1>2, <1>4, CatStr
    <2>6. JoinedUpTo(pp, 1) = m \o h[1]
      BY <2>2, <2>4, <2>5, EmptyStr
    <2>7. \E x \in Str : FlattenSeq(pp) = JoinedUpTo(pp, 1) \o x
      BY <2>1, <2>3, JoinedRemainder
    <2> QED
      BY <2>6, <2>7
  <1>7. PICK x \in Str : FlattenSeq(pp) = (m \o h[1]) \o x
    BY <1>6
  <1>8. Vectors(h) = n \o FlattenSeq(pp)
    BY <1>2, VectorsStr
  <1>9. h[1] = (t \o (l \o d)) \o r
    BY DEF HeaderBlock, Vector, FirstIs
  <1> DEFINE c == h[1]
  <1>10. c \in Str /\ c = (t \o (l \o d)) \o r
    BY <1>2, <1>9
  <1> HIDE DEF s, w, n, pp, m, l, c
  <1>11. s = (n \o ((m \o c) \o x)) \o w
    BY <1>1, <1>7, <1>8 DEF c
  (* s = n \o (m \o (t \o (l \o rest))) *)
  <1> DEFINE ld == l \o d
             e1 == r \o (x \o w)
             e2 == d \o e1
             e3 == l \o e2
             e4 == t \o e3
             e5 == m \o e4
  <1>12. ld \in Str /\ x \o w \in Str
    BY <1>1, <1>5, CatStr
  <1>13. e1 \in Str
    BY <1>12, CatStr
  <1> HIDE DEF e1
  <1>14. e2 \in Str
    BY <1>13, CatStr
  <1> HIDE DEF e2
  <1>15. e3 \in Str
    BY <1>5, <1>14, CatStr
  <1> HIDE DEF e3
  <1>16. e4 \in Str
    BY <1>15, CatStr
  <1> HIDE DEF e4
  <1>17. e5 \in Str
    BY <1>4, <1>16, CatStr
  <1> HIDE DEF e5, ld
  <1>18. c \o (x \o w) = e4
    <2> DEFINE z  == x \o w
               tl == t \o ld
    <2>1. tl \in Str /\ z \in Str
      BY <1>12, CatStr
    <2> HIDE DEF z, tl
    <2>2. Assoc(tl, r, z) /\ Assoc(t, ld, e1) /\ Assoc(l, d, e1)
      BY <1>5, <1>12, <1>13, <2>1, AssocOf
    <2>3. c = tl \o r
      BY <1>10 DEF tl, ld
    <2>4. (tl \o r) \o z = tl \o (r \o z)
      BY <2>2 DEF Assoc
    <2>5. (t \o ld) \o e1 = t \o (ld \o e1)
      BY <2>2 DEF Assoc
    <2>6. (l \o d) \o e1 = l \o (d \o e1)
      BY <2>2 DEF Assoc
    <2>7. c \o z = tl \o e1
      BY <2>3, <2>4 DEF e1, z
    <2>8. tl \o e1 = t \o (ld \o e1)
      BY <2>5 DEF tl
    <2>9. ld \o e1 = e3
      BY <2>6 DEF ld, e2, e3
    <2> QED
      BY <2>7, <2>8, <2>9 DEF e4, z
  <1>19. s = n \o e5
    <2> DEFINE mc == m \o c
               y  == mc \o x
    <2>1. mc \in Str
      BY <1>4, <1>10, CatStr
    <2> HIDE DEF mc
    <2>2. y \in Str
      BY <2>1, CatStr
    <2> HIDE DEF y
    <2>3. Assoc(n, y, w) /\ Assoc(mc, x, w) /\ Assoc(m, c, x \o w)
      BY <1>1, <1>3, <1>4, <1>10, <1>12, <2>1, <2>2, AssocOf
    <2>4. s = (n \o y) \o w
      BY <1>11 DEF y, mc
    <2>5. (n \o y) \o w = n \o (y \o w)
      BY <2>3 DEF Assoc
    <2>6. y \o w = mc \o (x \o w)
      BY <2>3 DEF Assoc, y
    <2>7. mc \o (x \o w) = m \o (c \o (x \o w))
      BY <2>3 DEF Assoc, mc
    <2> QED
      BY <1>18, <2>4, <2>5, <2>6, <2>7 DEF e5
  <1>20. Sphinx!Slice(e3, 0, 8) = l
    <2>1. Sphinx!Slice(l \o e2, 0, Len(l)) = l
      BY <1>5, <1>14, FoundInFront
    <2> QED
      BY <1>5, <2>1 DEF e3
  <1>21. Len(e3) >= 8
    <2>1. Len(l \o e2) = Len(l) + Len(e2) /\ Len(e2) \in Nat
      BY <1>5, <1>14, CatStr, LenNat
    <2> QED
      BY <1>5, <2>1 DEF e3
  <1>22. Sphinx!Slice(e4, 16, 24) = Sphinx!Slice(e3, 0, 8)
    <2>1. Moved(t, e3, 0, 8)
      BY <1>15, <1>21, MovedBehind
    <2>2. Len(t) + 0 = 16 /\ Len(t) + 8 = 24
      OBVIOUS
    <2> QED
      BY <2>1, <2>2 DEF Moved, e4
  <1>23. Len(e4) >= 24
    <2>1. Len(t \o e3) = Len(t) + Len(e3) /\ Len(e3) \in Nat
      BY <1>15, CatStr, LenNat
    <2> QED
      BY <1>21, <2>1 DEF e4
  <1>24. Sphinx!Slice(e5, 24, 32) = Sphinx!Slice(e4, 16, 24)
    <2>1. Moved(m, e4, 16, 24)
      BY <1>4, <1>16, <1>23, MovedBehind
    <2>2. Len(m) + 16 = 24 /\ Len(m) + 24 = 32
      BY <1>4
    <2> QED
      BY <2>1, <2>2 DEF Moved, e5
  <1>25. Len(e5) >= 32
    <2>1. Len(m \o e4) = Len(m) + Len(e4) /\ Len(e4) \in Nat
      BY <1>4, <1>16, CatStr, LenNat
    <2> QED
      BY <1>4, <1>23, <2>1 DEF e5
  <1>26. Sphinx!Slice(s, 32, 40) = Sphinx!Slice(e5, 24, 32)
    <2>1. Moved(n, e5, 24, 32)
      BY <1>3, <1>17, <1>25, MovedBehind
    <2>2. Len(n) + 24 = 32 /\ Len(n) + 32 = 40
      BY <1>3
    <2> QED
      BY <1>19, <2>1, <2>2 DEF Moved
  <1>27. Sphinx!Slice(s, 32, 40) = l
    BY <1>20, <1>22, <1>24, <1>26
  <1> QED
    BY <1>27, Zenon DEF s, l, LengthAt

(* An onion that makes a node panic was altered, and read.                 *)
LEMMA PanicsAreRead ==
  ASSUME WireInv, Has("onion"), result \in {NoBlock, ShortCiphertext}
  PROVE  /\ change.kind = "alter"
         /\ \E h, f, v, g, t :
              /\ Parted(h, f, v, g) /\ t \in Str
              /\ Received = serialize(OnionOf(h, f, v, g)) \o t
              /\ unwrap(artefact.link, OnionOf(h, f, v, g)) = result
  <1> DEFINE link == artefact.link
             s    == Received
             b    == SentBytes(artefact)
  <1>1. /\ link \in Links /\ Changed(b, change) /\ s \in Str /\ Len(s) < TooLarge
        /\ result = Answer(link, s)
    BY OnionHas
  <1>2. Err("SerializationError") \notin {NoBlock, ShortCiphertext}
    BY DEF Err, NoBlock, ShortCiphertext
  <1>3. AsSent \notin {NoBlock, ShortCiphertext}
    BY <1>1, SentDoesNotPanic DEF AsSent
  <1> HIDE DEF link, s, b
  <1>4. change.kind \in {"none", "alter", "cut", "append"}
    BY <1>1 DEF Changed, Untouched
  <1>5. change.kind = "alter"
    BY <1>2, <1>3, <1>4, WholeOnion, CutOnion
  <1>6. deserialize(s).ok
    <2> SUFFICES ASSUME ~ deserialize(s).ok PROVE FALSE
      OBVIOUS
    <2>1. Answer(link, s) = deserialize(s)
      BY Zenon DEF Answer
    <2> QED
      BY <1>1, <1>2, <2>1, Refused
  <1>7. PICK h, f, v, g, t :
           /\ Parted(h, f, v, g) /\ t \in Str
           /\ deserialize(s) = [ok |-> TRUE, onion |-> OnionOf(h, f, v, g)]
           /\ serialize(OnionOf(h, f, v, g)) \o t = s
    BY <1>1, <1>6, OnionStood
  <1>8. deserialize(s).onion = OnionOf(h, f, v, g)
    BY <1>7
  <1>9. result = Handled(link, OnionOf(h, f, v, g))
    BY <1>1, <1>6, <1>8, Zenon DEF Answer
  <1>10. unwrap(link, OnionOf(h, f, v, g)) = result
    BY <1>1, <1>7, <1>9, PanicsUnpeeled
  <1> QED
    BY <1>5, <1>7, <1>10 DEF link, s

(* The two lengths of the onion that was sent, where they stand.           *)
LEMMA SentLengths ==
  ASSUME NEW link \in Links
  PROVE  LET s == serialize(Sent(link))
         IN  /\ Sphinx!Slice(s, 0, 8) = LittleEndian(MaxPathLength, 8)
             /\ Sphinx!Slice(s, 32, 40) = LittleEndian(92, 8)
             /\ 40 <= Len(s)
  <1> DEFINE s == serialize(Sent(link))
             h == SentHeader(link)
             f == SentForward(link)
             v == SentVec(link)
             c == ciphertext(link)
  <1>1. /\ Parted(h, f, v, SentTag) /\ s \in Str
        /\ serialize(OnionOf(h, f, v, SentTag)) = s
    BY SentParted, SentIs
  <1>2. /\ h # <<>> /\ h[1] = HeaderBlock(TheTag, c) /\ Len(h) = MaxPathLength
        /\ Writable(h) /\ \A x \in 1 .. Len(h) : Len(h[x]) = 116
    BY SentHeaderTyped DEF TheTag
  <1>3. TheTag \in Str /\ Len(TheTag) = 16
    BY SentBlock DEF TheTag
  <1>4. c \in Str /\ Len(c) = 92
    BY CipherTyped
  <1> HIDE DEF s, h, f, v, c
  <1>5. Len(c) < TooLarge
    BY <1>4 DEF TooLarge
  <1>6. s \o <<>> = s /\ <<>> \in Str
    BY <1>1, EmptyStr
  <1>7. Sphinx!Slice(s, 0, 8) = LittleEndian(MaxPathLength, 8)
    <2>1. Sphinx!Slice(serialize(OnionOf(h, f, v, SentTag)) \o <<>>, 0, 8) = LittleEndian(Len(h), 8)
      BY <1>1, <1>6, CountFound
    <2> QED
      BY <1>1, <1>2, <1>6, <2>1
  <1>8. Sphinx!Slice(s, 32, 40) = LittleEndian(92, 8)
    <2>1. HeaderBlock(TheTag, c) \o <<>> = h[1]
      <3>1. HeaderBlock(TheTag, c) \in Str
        BY <1>3, <1>4, <1>5, HeaderBlockStr
      <3> QED
        BY <1>2, <3>1, EmptyStr
    <2>2. Sphinx!Slice(serialize(OnionOf(h, f, v, SentTag)) \o <<>>, 32, 40) = LittleEndian(Len(c), 8)
      <3>1. FirstIs(h, TheTag, c, <<>>)
        BY <2>1, Zenon DEF FirstIs
      <3>2. LengthAt(h, f, v, SentTag, <<>>, c)
        BY <1>1, <1>2, <1>3, <1>4, <1>5, <1>6, <3>1, LengthFound
      <3> QED
        BY <3>2, Zenon DEF LengthAt
    <2> QED
      BY <1>1, <1>4, <1>6, <2>2
  <1>9. 40 <= Len(s)
    <2> DEFINE w == Vector(f) \o (Vector(v) \o (SentTag \o <<>>))
               m == MaxPathLength
    <2>1. Written(h, f, v, SentTag, <<>>)
      BY <1>1, <1>6, OnionWritten
    <2>2. s = Vectors(h) \o w /\ w \in Str
      BY <1>1, <1>6, <2>1, Zenon DEF Written
    <2> HIDE DEF w
    <2>3. Vectors(h) \in Str
      BY <1>2, VectorsStr
    <2>4. Len(Vectors(h)) = 8 + (8 + 116) * Len(h)
      <3> DEFINE k == 116
      <3>1. k \in Nat /\ \A x \in 1 .. Len(h) : Len(h[x]) = k
        BY <1>2
      <3> HIDE DEF k
      <3>2. Len(Vectors(h)) = 8 + (8 + k) * Len(h)
        BY <1>2, <3>1, VectorsLength
      <3> QED
        BY <3>2 DEF k
    <2>5. Len(s) = Len(Vectors(h)) + Len(w) /\ Len(w) \in Nat
      BY <2>2, <2>3, CatStr, LenNat
    <2>6. m \in Nat /\ m >= 1
      BY WireAssumption
    <2>7. Len(h) = m
      BY <1>2
    <2> HIDE DEF m
    <2> QED
      BY <2>4, <2>5, <2>6, <2>7
  <1> QED
    BY <1>7, <1>8, <1>9 DEF s

(* A number tells two strings of eight bytes apart.                        *)
LEMMA NumbersDiffer ==
  ASSUME NEW v \in Nat, v < TooLarge, NEW w \in Nat, w < TooLarge,
         LittleEndian(v, 8) = LittleEndian(w, 8)
  PROVE  v = w
  BY LittleEndianReadsBack

LEMMA NoBlockWhere ==
  ASSUME WireInv, Has("onion"), result = NoBlock
  PROVE  change.at \in CellCount
  <1> SUFFICES ASSUME change.at \notin 0 + 1 .. 8 PROVE FALSE
    BY DEF CellCount
  <1> DEFINE link == artefact.link
             s    == Received
             b    == SentBytes(artefact)
  <1>1. /\ link \in Links /\ b = serialize(Sent(link)) /\ b \in Str /\ Changed(b, change)
        /\ s = After(b, change)
    BY OnionHas
  <1>2. change.kind = "alter"
    BY PanicsAreRead
  <1>3. PICK h, f, v, g, t :
              /\ Parted(h, f, v, g) /\ t \in Str
              /\ s = serialize(OnionOf(h, f, v, g)) \o t
              /\ unwrap(link, OnionOf(h, f, v, g)) = NoBlock
    BY PanicsAreRead
  <1> HIDE DEF link, s, b
  <1>4. h = <<>>
    BY <1>1, <1>3, NoBlockMeans
  <1>5. Sphinx!Slice(s, 0, 8) = LittleEndian(Len(h), 8)
    BY <1>3, CountFound
  <1>6. Sphinx!Slice(b, 0, 8) = LittleEndian(MaxPathLength, 8) /\ 40 <= Len(b)
    BY <1>1, SentLengths
  <1>7. Sphinx!Slice(s, 0, 8) = Sphinx!Slice(b, 0, 8)
    <2>1. 0 \in Nat /\ 8 \in Nat /\ 0 <= 8 /\ 8 <= Len(b)
      BY <1>1, <1>6, LenNat
    <2> QED
      BY <1>1, <1>2, <2>1, Unreached
  <1>8. /\ Len(h) = 0 /\ MaxPathLength \in Nat /\ MaxPathLength # 0
        /\ MaxPathLength < TooLarge /\ 0 < TooLarge
    <2>1. Len(h) = 0
      BY <1>4, EmptyStr
    <2>2. MaxPathLength \in Nat /\ MaxPathLength # 0
      BY <1>1, Bounds
    <2>3. MaxPathLength < TooLarge
      <3>1. Len(SentHeader(link)) = MaxPathLength /\ Writable(SentHeader(link))
        BY <1>1, SentHeaderTyped
      <3> QED
        BY <3>1 DEF Writable
    <2> QED
      BY <2>1, <2>2, <2>3 DEF TooLarge
  <1>9. LittleEndian(0, 8) = LittleEndian(MaxPathLength, 8)
    BY <1>5, <1>6, <1>7, <1>8
  <1> QED
    BY <1>8, <1>9, NumbersDiffer

LEMMA ShortWhere ==
  ASSUME WireInv, Has("onion"), result = ShortCiphertext
  PROVE  change.at \in CiphertextLength
  <1> SUFFICES ASSUME change.at \notin 32 + 1 .. 40 PROVE FALSE
    BY DEF CiphertextLength
  <1> DEFINE link == artefact.link
             s    == Received
             b    == SentBytes(artefact)
  <1>1. /\ link \in Links /\ b = serialize(Sent(link)) /\ b \in Str /\ Changed(b, change)
        /\ s = After(b, change)
    BY OnionHas
  <1>2. change.kind = "alter"
    BY PanicsAreRead
  <1>3. PICK h, f, v, g, u :
              /\ Parted(h, f, v, g) /\ u \in Str
              /\ s = serialize(OnionOf(h, f, v, g)) \o u
              /\ unwrap(link, OnionOf(h, f, v, g)) = ShortCiphertext
    BY PanicsAreRead
  <1> HIDE DEF link, s, b
  <1>4. h # <<>>
    BY <1>1, <1>3, ShortMeans
  <1>5. PICK t \in Str, d \in Str, r \in Str :
              /\ Len(t) = 16 /\ Len(d) < 40 /\ Len(d) < TooLarge
              /\ HeaderBlock(t, d) \o r = h[1]
    BY <1>1, <1>3, ShortMeans
  <1>6. Sphinx!Slice(s, 32, 40) = LittleEndian(Len(d), 8)
    <2>1. FirstIs(h, t, d, r)
      BY <1>5, Zenon DEF FirstIs
    <2>2. LengthAt(h, f, v, g, u, d)
      BY <1>3, <1>4, <1>5, <2>1, LengthFound
    <2> QED
      BY <1>3, <2>2, Zenon DEF LengthAt
  <1>7. Sphinx!Slice(b, 32, 40) = LittleEndian(92, 8) /\ 40 <= Len(b)
    BY <1>1, SentLengths
  <1>8. Sphinx!Slice(s, 32, 40) = Sphinx!Slice(b, 32, 40)
    <2>1. 32 \in Nat /\ 40 \in Nat /\ 32 <= 40 /\ 40 <= Len(b)
      BY <1>7
    <2> QED
      BY <1>1, <1>2, <2>1, Unreached
  <1> DEFINE n == Len(d)  m == 92
  <1>9. n \in Nat /\ n < TooLarge /\ m \in Nat /\ m < TooLarge /\ n # m
    <2>1. n \in Nat /\ n < TooLarge /\ n < 40
      BY <1>5, LenNat
    <2>2. m \in Nat /\ m < TooLarge
      BY DEF TooLarge
    <2>3. n # m
      <3> HIDE DEF n
      <3> QED
        BY <2>1
    <2> HIDE DEF n, m
    <2> QED
      BY <2>1, <2>2, <2>3
  <1>10. LittleEndian(n, 8) = LittleEndian(m, 8)
    BY <1>6, <1>7, <1>8
  <1> HIDE DEF n, m
  <1> QED
    BY <1>9, <1>10, NumbersDiffer

(* How an onion that was changed is refused, wherever it was changed: only *)
(* two lengths in it can make a node panic, for every length of paths and  *)
(* payload; and of the bytes that are no length, those in front of the     *)
(* backward section fail the tag at once and those in it that of the       *)
(* sender, before whom no node refuses the onion.                          *)
THEOREM RefusalsAreExplained == Spec => []RefusalsExplained
  <1>1. ASSUME WireInv, Has("onion")
        PROVE  /\ change.kind = "cut" => result = Err("SerializationError")
               /\ change.kind \in {"none", "append"} => result = AsSent
               /\ change.byte = altered /\ change.kind = "alter" =>
                    IF ~ InBackward(change.at) THEN result = Err("MacMismatch")
                    ELSE IF artefact.link.role = "Sender" THEN result = Err("AeError")
                    ELSE result.ok
               /\ result = NoBlock => change.at \in CellCount
               /\ result = ShortCiphertext => change.at \in CiphertextLength
    BY <1>1, CutOnion, WholeOnion, AlteredInFront, AlteredBackward, NoBlockWhere, ShortWhere
  <1>2. WireInv => RefusalsExplained
    BY <1>1, Zenon DEF RefusalsExplained
  <1> QED
    BY <1>2, WireInit, WireStep, PTL DEF Spec

(* The sizes that examples/onion_sizes.rs prints grow linearly with the    *)
(* path length and are the same for every role of the node that the onion  *)
(* comes to: a path of length n costs a repliable onion two headers of n   *)
(* cells.                                                                  *)
THEOREM SizesAreLinear ==
  /\ \A link \in Links :
       Len(serialize(Sent(link))) = 2 * (124 * MaxPathLength + link.payload) + 56
  /\ Sphinx!HEADER_SIZE = 60 * MaxPathLength + 48
  <1>1. ASSUME NEW link \in Links
        PROVE  Len(serialize(Sent(link))) = 2 * (124 * MaxPathLength + link.payload) + 56
    <2>1. SizeIs(link)
      BY SentMeasured
    <2> QED
      BY <2>1, Zenon DEF SizeIs
  <1>2. Sphinx!HEADER_SIZE = 60 * MaxPathLength + 48
    BY Sizes, WireAssumption
  <1> QED
    BY <1>1, <1>2
=============================================================================
