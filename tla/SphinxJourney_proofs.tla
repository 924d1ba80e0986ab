------------------------- MODULE SphinxJourney_proofs -------------------------
(***************************************************************************)
(* What the Sphinx format promises for every path length, route and        *)
(* payload size: each node of a route finds the MAC that the sender        *)
(* computed and leaves what the sender reckoned for the next node, and so  *)
(* a packet that nobody altered gets to the end of its route and is read   *)
(* there, and a header that somebody altered gets no further.              *)
(***************************************************************************)
EXTENDS SphinxJourney, Primitives_proofs, FiniteSetTheorems
LOCAL INSTANCE SequencesExt

-----------------------------------------------------------------------------
(* The recursive functions of SphinxFormat satisfy their equations.  Each  *)
(* is shown to exist by induction on its length.                           *)

(* The secret that a node finds follows from the one before it found.      *)
LEMMA AccumulatorsRecur ==
  ASSUME NEW r, NEW s, Len(r) \in Nat
  PROVE  accumulators(r, s)
           = [i \in 1 .. Len(r) |->
                IF i = 1 THEN s
                ELSE accumulators(r, s)[i - 1]
                       \cup derive(diffie_hellman(accumulators(r, s)[i - 1], r[i - 1].pub_key)).blinding_factor]
  <1> DEFINE D(i, x) == x \cup derive(diffie_hellman(x, r[i - 1].pub_key)).blinding_factor
             B == s
             Is(f, k) == f = [i \in 1 .. k |-> IF i = 1 THEN B ELSE D(i, f[i - 1])]
             T == {k \in Nat : \E f : Is(f, k)}
  <1> HIDE DEF D, B
  <1>1. 0 \in T
    <2> DEFINE f == [i \in 1 .. 0 |-> B]
    <2>1. Is(f, 0)
      OBVIOUS
    <2> HIDE DEF f, Is
    <2> QED
      BY <2>1
  <1>2. ASSUME NEW k \in Nat, k \in T PROVE k + 1 \in T
    <2>1. PICK f : Is(f, k)
      BY <1>2
    <2> DEFINE g == [i \in 1 .. k + 1 |-> IF i = 1 THEN B
                                           ELSE IF i = k + 1 THEN D(k + 1, f[k]) ELSE f[i]]
    <2>2. ASSUME NEW i \in 1 .. k + 1
          PROVE  g[i] = IF i = 1 THEN B ELSE D(i, g[i - 1])
      <3>1. CASE i = 1
        BY <3>1
      <3>2. CASE i # 1 /\ i = k + 1
        <4>1. k \in 1 .. k /\ k # k + 1 /\ i - 1 = k
          BY <3>2
        <4>2. g[k] = f[k]
          <5>1. f[k] = IF k = 1 THEN B ELSE D(k, f[k - 1])
            BY <2>1, <4>1
          <5>2. g[k] = IF k = 1 THEN B ELSE f[k]
            BY <4>1
          <5> QED
            BY <5>1, <5>2
        <4> QED
          BY <3>2, <4>1, <4>2
      <3>3. CASE i # 1 /\ i # k + 1
        <4>1. i \in 1 .. k /\ i - 1 \in 1 .. k /\ i - 1 # k + 1
          BY <3>3
        <4>2. f[i - 1] = IF i - 1 = 1 THEN B ELSE D(i - 1, f[i - 1 - 1])
          BY <2>1, <4>1
        <4>3. g[i] = f[i] /\ g[i - 1] = f[i - 1]
          BY <3>3, <4>1, <4>2
        <4>4. f[i] = D(i, f[i - 1])
          BY <2>1, <3>3, <4>1
        <4> QED
          BY <3>3, <4>3, <4>4
      <3> QED
        BY <3>1, <3>2, <3>3
    <2>3. Is(g, k + 1)
      BY <2>2
    <2> HIDE DEF g, Is
    <2> QED
      BY <2>3
  <1>3. Nat \subseteq T
    <2> HIDE DEF T
    <2> QED
      BY <1>1, <1>2, SetInduction
  <1>4. PICK f : Is(f, Len(r))
    BY <1>3
  <1>5. f = [i \in 1 .. Len(r) |->
                IF i = 1 THEN s
                ELSE f[i - 1]
                       \cup derive(diffie_hellman(f[i - 1], r[i - 1].pub_key)).blinding_factor]
    BY <1>4, Zenon DEF D, B
  <1> QED
    BY <1>5, Zenon DEF accumulators

(* The filler after a step follows from the one before it. *)
LEMMA FillersRecur ==
  ASSUME NEW keys, Len(keys) \in Nat
  PROVE  Fillers(keys)
           = [i \in 0 .. Len(keys) |->
                IF i = 0 THEN <<>>
                ELSE filler_step(Fillers(keys)[i - 1], i,
                                 generate_pseudorandom_bytes(keys[i].stream_cipher_key))]
  <1> DEFINE D(i, x) == filler_step(x, i, generate_pseudorandom_bytes(keys[i].stream_cipher_key))
             B == <<>>
             Is(f, k) == f = [i \in 0 .. k |-> IF i = 0 THEN B ELSE D(i, f[i - 1])]
             T == {k \in Nat : \E f : Is(f, k)}
  <1> HIDE DEF D, B
  <1>1. 0 \in T
    <2> DEFINE f == [i \in 0 .. 0 |-> B]
    <2>1. Is(f, 0)
      OBVIOUS
    <2> HIDE DEF f, Is
    <2> QED
      BY <2>1
  <1>2. ASSUME NEW k \in Nat, k \in T PROVE k + 1 \in T
    <2>1. PICK f : Is(f, k)
      BY <1>2
    <2> DEFINE g == [i \in 0 .. k + 1 |-> IF i = 0 THEN B
                                           ELSE IF i = k + 1 THEN D(k + 1, f[k]) ELSE f[i]]
    <2>2. ASSUME NEW i \in 0 .. k + 1
          PROVE  g[i] = IF i = 0 THEN B ELSE D(i, g[i - 1])
      <3>1. CASE i = 0
        BY <3>1
      <3>2. CASE i # 0 /\ i = k + 1
        <4>1. k \in 0 .. k /\ k # k + 1 /\ i - 1 = k
          BY <3>2
        <4>2. g[k] = f[k]
          <5>1. f[k] = IF k = 0 THEN B ELSE D(k, f[k - 1])
            BY <2>1, <4>1
          <5>2. g[k] = IF k = 0 THEN B ELSE f[k]
            BY <4>1
          <5> QED
            BY <5>1, <5>2
        <4> QED
          BY <3>2, <4>1, <4>2
      <3>3. CASE i # 0 /\ i # k + 1
        <4>1. i \in 0 .. k /\ i - 1 \in 0 .. k /\ i - 1 # k + 1
          BY <3>3
        <4>2. f[i - 1] = IF i - 1 = 0 THEN B ELSE D(i - 1, f[i - 1 - 1])
          BY <2>1, <4>1
        <4>3. g[i] = f[i] /\ g[i - 1] = f[i - 1]
          BY <3>3, <4>1, <4>2
        <4>4. f[i] = D(i, f[i - 1])
          BY <2>1, <3>3, <4>1
        <4> QED
          BY <3>3, <4>3, <4>4
      <3> QED
        BY <3>1, <3>2, <3>3
    <2>3. Is(g, k + 1)
      BY <2>2
    <2> HIDE DEF g, Is
    <2> QED
      BY <2>3
  <1>3. Nat \subseteq T
    <2> HIDE DEF T
    <2> QED
      BY <1>1, <1>2, SetInduction
  <1>4. PICK f : Is(f, Len(keys))
    BY <1>3
  <1>5. f = [i \in 0 .. Len(keys) |->
                IF i = 0 THEN <<>>
                ELSE filler_step(f[i - 1], i,
                                 generate_pseudorandom_bytes(keys[i].stream_cipher_key))]
    BY <1>4, Zenon DEF D, B
  <1> QED
    BY <1>5, Zenon DEF Fillers

(* What a node finds follows from what the next one is to find.            *)
LEMMA LayersRecur ==
  ASSUME NEW r, NEW d, NEW ds, NEW keys, NEW filler, NEW coins, Len(r) \in Nat \ {0}
  PROVE  routing_layers(r, d, ds, keys, filler, coins)
           = [i \in 1 .. Len(r) |->
                IF i = Len(r) THEN for_final_hop(d, keys[Len(r)], filler, Len(r), coins)
                ELSE for_forward_hop(r[i + 1].address, ds[i],
                                     routing_layers(r, d, ds, keys, filler, coins)[i + 1],
                                     keys[i])]
  <1> DEFINE n == Len(r)
  <1> DEFINE D(i, x) == for_forward_hop(r[i + 1].address, ds[i], x, keys[i])
             B == for_final_hop(d, keys[n], filler, n, coins)
             Is(f, k) == f = [i \in n - k .. n |-> IF i = n THEN B ELSE D(i, f[i + 1])]
             T == {k \in Nat : \E f : Is(f, k)}
  <1> HIDE DEF D, B
  <1>1. 0 \in T
    <2> DEFINE f == [i \in n - 0 .. n |-> B]
    <2>1. Is(f, 0)
      OBVIOUS
    <2> HIDE DEF f, Is
    <2> QED
      BY <2>1
  <1>2. ASSUME NEW k \in Nat, k \in T PROVE k + 1 \in T
    <2>1. PICK f : Is(f, k)
      BY <1>2
    <2> DEFINE j == n - (k + 1)
               g == [i \in j .. n |-> IF i = j THEN D(j, f[j + 1]) ELSE f[i]]
    <2>2. ASSUME NEW i \in j .. n
          PROVE  g[i] = IF i = n THEN B ELSE D(i, g[i + 1])
      <3>1. CASE i = j
        <4>1. g[i + 1] = f[j + 1] /\ i # n
          BY <3>1
        <4> QED
          BY <3>1, <4>1
      <3>2. CASE i # j
        <4>1. i \in n - k .. n /\ (i # n => i + 1 \in j .. n /\ i + 1 # j)
          BY <3>2
        <4>2. g[i] = f[i] /\ (i # n => g[i + 1] = f[i + 1])
          BY <3>2, <4>1
        <4>3. f[i] = IF i = n THEN B ELSE D(i, f[i + 1])
          BY <2>1, <4>1
        <4> QED
          BY <4>2, <4>3
      <3> QED
        BY <3>1, <3>2
    <2>3. Is(g, k + 1)
      BY <2>2
    <2> HIDE DEF g, Is
    <2> QED
      BY <2>3
  <1>3. Nat \subseteq T
    <2> HIDE DEF T
    <2> QED
      BY <1>1, <1>2, SetInduction
  <1>4. n - 1 \in Nat /\ n - (n - 1) = 1
    OBVIOUS
  <1>5. PICK f : Is(f, n - 1)
    BY <1>3, <1>4
  <1>6. f = [i \in 1 .. n |-> IF i = n THEN B ELSE D(i, f[i + 1])]
    BY <1>4, <1>5
  <1>7. f = [i \in 1 .. Len(r) |->
               IF i = Len(r) THEN for_final_hop(d, keys[Len(r)], filler, Len(r), coins)
               ELSE for_forward_hop(r[i + 1].address, ds[i], f[i + 1], keys[i])]
    BY <1>6, Zenon DEF D, B
  <1> QED
    BY <1>7, Zenon DEF routing_layers

-----------------------------------------------------------------------------
(* Sequences of slots. *)

IsSlot(s)      == s = [base |-> s.base, pads |-> s.pads]
AreSlots(s, n) == /\ s = [j \in 1 .. n |-> s[j]]
                  /\ \A j \in 1 .. n : IsSlot(s[j])

Xored(s, pieces) == [base |-> s.base, pads |-> SymDiff(s.pads, pieces)]

(* A function on 1 .. n is a sequence of its values.                       *)
LEMMA ListIsSeq ==
  ASSUME NEW n \in Nat, NEW s, s = [j \in 1 .. n |-> s[j]],
         NEW S, \A j \in 1 .. n : s[j] \in S
  PROVE  s \in Seq(S) /\ Len(s) = n
  <1>1. s \in [1 .. n -> S]
    OBVIOUS
  <1> QED
    BY <1>1, FunctionIsSeq

(* Two lists, one behind the other. *)
IsList(s, m) == s = [j \in 1 .. m |-> s[j]]

Joined(s, m, t, n) == [j \in 1 .. m + n |-> IF j <= m THEN s[j] ELSE t[j - m]]

LEMMA JoinLists ==
  ASSUME NEW m \in Nat, NEW n \in Nat, NEW s, IsList(s, m), NEW t, IsList(t, n)
  PROVE  s \o t = Joined(s, m, t, n)
  <1> DEFINE S == {s[j] : j \in 1 .. m} \cup {t[j] : j \in 1 .. n}
             g == [j \in 1 .. m + n |-> IF j <= m THEN s[j] ELSE t[j - m]]
  <1>1. (\A j \in 1 .. m : s[j] \in S) /\ (\A j \in 1 .. n : t[j] \in S)
    OBVIOUS
  <1> HIDE DEF S
  <1>2. s \in Seq(S) /\ Len(s) = m
    BY <1>1, ListIsSeq DEF IsList
  <1>3. t \in Seq(S) /\ Len(t) = n
    BY <1>1, ListIsSeq DEF IsList
  <1>4. /\ s \o t \in Seq(S) /\ Len(s \o t) = m + n
        /\ \A j \in 1 .. m + n : (s \o t)[j] = IF j <= m THEN s[j] ELSE t[j - m]
    BY <1>2, <1>3
  <1>5. g \in [1 .. m + n -> S]
    <2>1. ASSUME NEW j \in 1 .. m + n PROVE (IF j <= m THEN s[j] ELSE t[j - m]) \in S
      <3>1. CASE j <= m
        BY <1>1, <3>1
      <3>2. CASE ~ j <= m
        <4>1. j - m \in 1 .. n
          BY <3>2
        <4> QED
          BY <1>1, <3>2, <4>1
      <3> QED
        BY <3>1, <3>2
    <2> QED
      BY <2>1
  <1>6. \A j \in 1 .. m + n : g[j] = IF j <= m THEN s[j] ELSE t[j - m]
    OBVIOUS
  <1> HIDE DEF g
  <1>7. g \in Seq(S) /\ Len(g) = m + n
    <2>1. m + n \in Nat
      OBVIOUS
    <2> QED
      BY <1>5, <2>1, FunctionIsSeq, Zenon
  <1>8. \A j \in 1 .. Len(s \o t) : (s \o t)[j] = g[j]
    BY <1>4, <1>6
  <1>9. s \o t = g
    BY <1>4, <1>7, <1>8, SameSeq
  <1> QED
    BY <1>9 DEF g, Joined

(* One more at the end. *)
LEMMA AppendList ==
  ASSUME NEW n \in Nat, NEW s, s = [j \in 1 .. n |-> s[j]], NEW z
  PROVE  Append(s, z) = [j \in 1 .. n + 1 |-> IF j = n + 1 THEN z ELSE s[j]]
  <1> DEFINE S == {s[j] : j \in 1 .. n} \cup {z}
             g == [j \in 1 .. n + 1 |-> IF j = n + 1 THEN z ELSE s[j]]
  <1>1. (\A j \in 1 .. n : s[j] \in S) /\ z \in S
    OBVIOUS
  <1> HIDE DEF S
  <1>2. s \in Seq(S) /\ Len(s) = n
    BY <1>1, ListIsSeq
  <1>3. /\ Append(s, z) \in Seq(S) /\ Len(Append(s, z)) = n + 1
        /\ \A j \in 1 .. n + 1 : Append(s, z)[j] = IF j = n + 1 THEN z ELSE s[j]
    BY <1>1, <1>2
  <1>4. g \in [1 .. n + 1 -> S]
    BY <1>1
  <1>5. \A j \in 1 .. n + 1 : g[j] = IF j = n + 1 THEN z ELSE s[j]
    OBVIOUS
  <1> HIDE DEF g
  <1>6. g \in Seq(S) /\ Len(g) = n + 1
    <2>1. n + 1 \in Nat
      OBVIOUS
    <2> QED
      BY <1>4, <2>1, FunctionIsSeq, Zenon
  <1>7. \A j \in 1 .. Len(Append(s, z)) : Append(s, z)[j] = g[j]
    BY <1>3, <1>5
  <1>8. Append(s, z) = g
    BY <1>3, <1>6, <1>7, SameSeq
  <1> QED
    BY <1>8 DEF g

(* The first of a list. *)
LEMMA FirstOfList ==
  ASSUME NEW n \in Nat, NEW s, s = [j \in 1 .. n |-> s[j]], NEW m \in 0 .. n
  PROVE  SubSeq(s, 1, m) = [j \in 1 .. m |-> s[j]]
  <1> DEFINE S == {s[j] : j \in 1 .. n}
             g == [j \in 1 .. m |-> s[j]]
  <1>1. \A j \in 1 .. n : s[j] \in S
    OBVIOUS
  <1> HIDE DEF S
  <1>2. s \in Seq(S) /\ Len(s) = n
    BY <1>1, ListIsSeq
  <1>3. /\ SubSeq(s, 1, m) \in Seq(S) /\ Len(SubSeq(s, 1, m)) = m
        /\ \A j \in 1 .. m : SubSeq(s, 1, m)[j] = s[j]
    BY <1>2, Prefix
  <1>4. g \in [1 .. m -> S] /\ m \in Nat
    BY <1>1
  <1>5. \A j \in 1 .. m : g[j] = s[j]
    OBVIOUS
  <1> HIDE DEF g
  <1>6. g \in Seq(S) /\ Len(g) = m
    BY <1>4, FunctionIsSeq, Zenon
  <1>7. SubSeq(s, 1, m) = g
    BY <1>3, <1>5, <1>6, SameSeq
  <1> QED
    BY <1>7 DEF g

(* All but the first of a list. *)
LEMMA TailOfList ==
  ASSUME NEW n \in Nat \ {0}, NEW s, s = [j \in 1 .. n |-> s[j]]
  PROVE  Head(s) = s[1] /\ Tail(s) = [j \in 1 .. n - 1 |-> s[j + 1]]
  <1> DEFINE S == {s[j] : j \in 1 .. n}
             g == [j \in 1 .. n - 1 |-> s[j + 1]]
  <1>1. \A j \in 1 .. n : s[j] \in S
    OBVIOUS
  <1> HIDE DEF S
  <1>2. s \in Seq(S) /\ Len(s) = n
    BY <1>1, ListIsSeq
  <1>3. /\ Tail(s) \in Seq(S) /\ Len(Tail(s)) = n - 1
        /\ \A j \in 1 .. n - 1 : Tail(s)[j] = s[j + 1]
    BY <1>2
  <1>4. g \in [1 .. n - 1 -> S] /\ n - 1 \in Nat
    BY <1>1
  <1>5. \A j \in 1 .. n - 1 : g[j] = s[j + 1]
    OBVIOUS
  <1> HIDE DEF g
  <1>6. g \in Seq(S) /\ Len(g) = n - 1
    BY <1>4, FunctionIsSeq, Zenon
  <1>7. Tail(s) = g
    BY <1>3, <1>5, <1>6, SameSeq
  <1> QED
    BY <1>2, <1>7 DEF g

(* Slots are xored each for itself. *)
LEMMA XorIsByPlace ==
  ASSUME NEW n \in Nat, NEW s, AreSlots(s, n), NEW bytes
  PROVE  /\ xor(s, bytes) = [j \in 1 .. n |-> Xored(s[j], bytes[j])]
         /\ AreSlots(xor(s, bytes), n)
  <1> DEFINE g == [j \in 1 .. n |-> Xored(s[j], bytes[j])]
  <1>1. DOMAIN s = 1 .. n
    BY DEF AreSlots
  <1>2. \A j \in 1 .. n : [s[j] EXCEPT !.pads = SymDiff(@, bytes[j])] = Xored(s[j], bytes[j])
    <2> TAKE j \in 1 .. n
    <2> DEFINE x == s[j]
               p == bytes[j]
    <2>1. x = [base |-> x.base, pads |-> x.pads]
      BY DEF AreSlots, IsSlot
    <2> HIDE DEF x, p
    <2>2. [x EXCEPT !.pads = SymDiff(@, p)] = Xored(x, p)
      BY <2>1 DEF Xored
    <2> QED
      BY <2>2 DEF x, p
  <1>3. xor(s, bytes) = g
    BY <1>1, <1>2 DEF xor
  <1>4. AreSlots(g, n)
    BY DEF AreSlots, IsSlot, Xored
  <1> QED
    BY <1>3, <1>4

(* Xoring twice with the same bytes changes nothing. *)
LEMMA XoredTwice ==
  ASSUME NEW s, IsSlot(s), NEW pieces
  PROVE  Xored(Xored(s, pieces), pieces) = s
  <1>1. SymDiff(SymDiff(s.pads, pieces), pieces) = s.pads
    BY DEF SymDiff
  <1> QED
    BY <1>1 DEF Xored, IsSlot

(* What is xored stays a slot. *)
LEMMA XoredIsSlot ==
  ASSUME NEW s, NEW pieces
  PROVE  IsSlot(Xored(s, pieces)) /\ Xored(s, pieces).base = s.base
         /\ Xored(s, pieces).pads = SymDiff(s.pads, pieces)
  BY DEF Xored, IsSlot

-----------------------------------------------------------------------------
(* The filler, and what the nodes of a route find.                         *)

Piece(key, place) == {[key |-> key, place |-> place]}

(* One slot of a keystream. *)
LEMMA StreamByPlace ==
  ASSUME NEW key
  PROVE  /\ generate_pseudorandom_bytes(key)
              = [j \in 1 .. MAX_PATH_LENGTH + 1 |-> generate_pseudorandom_bytes(key)[j]]
         /\ \A j \in 1 .. MAX_PATH_LENGTH + 1 : generate_pseudorandom_bytes(key)[j] = Piece(key, j)
  BY DEF generate_pseudorandom_bytes, Piece

LEMMA ZeroIsSlot == IsSlot(zero_slot) /\ \A b : IsSlot(Slot(b))
  BY DEF zero_slot, Slot, IsSlot

(* A step of the filler uses the last slots of the keystream.              *)
LEMMA FillerStep ==
  ASSUME NEW i \in 1 .. MAX_PATH_LENGTH + 1, NEW f, AreSlots(f, i - 1), NEW key
  PROVE  LET x == filler_step(f, i, generate_pseudorandom_bytes(key)) IN
         /\ AreSlots(x, i)
         /\ \A j \in 1 .. i : x[j] = Xored(IF j = i THEN zero_slot ELSE f[j],
                                           Piece(key, MAX_PATH_LENGTH + 1 - i + j))
  <1> DEFINE M == MAX_PATH_LENGTH
             b == generate_pseudorandom_bytes(key)
             a == Append(f, zero_slot)
             e == SubSeq(b, Len(b) - i + 1, Len(b))
             x == filler_step(f, i, b)
             S == {b[j] : j \in 1 .. M + 1}
  <1>1. M \in Nat \ {0} /\ i \in Nat \ {0} /\ i - 1 \in Nat /\ (i - 1) + 1 = i /\ M + 1 \in Nat
    BY MaxPathAssumption
  <1>2. a = [j \in 1 .. i |-> IF j = i THEN zero_slot ELSE f[j]]
    <2>1. f = [j \in 1 .. i - 1 |-> f[j]]
      BY DEF AreSlots
    <2>2. a = [j \in 1 .. (i - 1) + 1 |-> IF j = (i - 1) + 1 THEN zero_slot ELSE f[j]]
      BY <1>1, <2>1, AppendList
    <2> HIDE DEF a
    <2> QED
      BY <1>1, <2>2
  <1>3. AreSlots(a, i)
    <2>1. \A j \in 1 .. i : j # i => j \in 1 .. i - 1
      BY <1>1
    <2> QED
      BY <1>2, <2>1, ZeroIsSlot DEF AreSlots
  <1>4. b \in Seq(S) /\ Len(b) = M + 1
    <2>1. \A j \in 1 .. M + 1 : b[j] \in S
      OBVIOUS
    <2>2. b = [j \in 1 .. M + 1 |-> b[j]]
      BY StreamByPlace
    <2> HIDE DEF b, S
    <2> QED
      BY <1>1, <2>1, <2>2, ListIsSeq
  <1>5. \A j \in 1 .. i : e[j] = Piece(key, M + 1 - i + j)
    <2> TAKE j \in 1 .. i
    <2>1. M + 1 - i + j \in 1 .. M + 1 /\ (M + 1) - i + 1 \in 1 .. M + 1
      BY <1>1
    <2>2. e[j] = b[M + 1 - i + j]
      <3> HIDE DEF b, S
      <3> QED
        BY <1>1, <1>4, <2>1
    <2> QED
      BY <2>1, <2>2, StreamByPlace
  <1>6. x = xor(a, e)
    BY DEF filler_step
  <1> HIDE DEF a, e, x, b
  <1>7. AreSlots(x, i) /\ \A j \in 1 .. i : x[j] = Xored(a[j], e[j])
    BY <1>1, <1>3, <1>6, XorIsByPlace
  <1> QED
    BY <1>2, <1>5, <1>7 DEF x, b

(* What a step makes of the filler. *)
IsStep(x, before, key, i) ==
  /\ AreSlots(x, i)
  /\ \A j \in 1 .. i : x[j] = Xored(IF j = i THEN zero_slot ELSE before[j],
                                    Piece(key, MAX_PATH_LENGTH + 1 - i + j))

AreFillers(fillers, keys, m) ==
  /\ \A i \in 0 .. m : AreSlots(fillers[i], i)
  /\ \A i \in 1 .. m : IsStep(fillers[i], fillers[i - 1], keys[i].stream_cipher_key, i)

(* After each step the filler has as many slots as steps were made.        *)
LEMMA FillersShape ==
  ASSUME NEW keys, NEW m \in 0 .. MAX_PATH_LENGTH, Len(keys) = m
  PROVE  AreFillers(Fillers(keys), keys, m)
  <1> DEFINE F == Fillers(keys)
             T == {i \in 0 .. m : AreSlots(F[i], i)}
  <1>1. m \in Nat /\ MAX_PATH_LENGTH \in Nat
    BY MaxPathAssumption
  <1>2. \A i \in 0 .. m : F[i] = IF i = 0 THEN <<>>
                                 ELSE filler_step(F[i - 1], i,
                                        generate_pseudorandom_bytes(keys[i].stream_cipher_key))
    BY <1>1, FillersRecur
  <1> HIDE DEF F
  <1>3. ASSUME NEW i \in 1 .. m, AreSlots(F[i - 1], i - 1)
        PROVE  IsStep(F[i], F[i - 1], keys[i].stream_cipher_key, i)
    <2>1. i \in 1 .. MAX_PATH_LENGTH + 1 /\ i \in 0 .. m /\ i # 0
      BY <1>1
    <2>2. F[i] = filler_step(F[i - 1], i,
                             generate_pseudorandom_bytes(keys[i].stream_cipher_key))
      BY <1>2, <2>1
    <2> DEFINE f   == F[i - 1]
               x   == F[i]
               key == keys[i].stream_cipher_key
    <2>3. AreSlots(f, i - 1)
      BY <1>3
    <2>4. x = filler_step(f, i, generate_pseudorandom_bytes(key))
      BY <2>2
    <2> HIDE DEF f, x, key
    <2>5. /\ AreSlots(x, i)
          /\ \A j \in 1 .. i : x[j] = Xored(IF j = i THEN zero_slot ELSE f[j],
                                            Piece(key, MAX_PATH_LENGTH + 1 - i + j))
      BY <2>1, <2>3, <2>4, FillerStep
    <2>6. IsStep(x, f, key, i)
      BY <2>5 DEF IsStep
    <2> QED
      BY <2>6 DEF f, x, key
  <1>4. 0 \in T
    <2>1. F[0] = <<>>
      BY <1>1, <1>2
    <2>2. AreSlots(<<>>, 0)
      BY DEF AreSlots
    <2> QED
      BY <1>1, <2>1, <2>2
  <1>5. ASSUME NEW i \in 0 .. m - 1, i \in T PROVE i + 1 \in T
    <2>1. i + 1 \in 1 .. m /\ (i + 1) - 1 = i /\ i + 1 \in 0 .. m
      BY <1>1
    <2>2. AreSlots(F[(i + 1) - 1], (i + 1) - 1)
      BY <1>5, <2>1
    <2>3. AreSlots(F[i + 1], i + 1)
      BY <1>3, <2>1, <2>2 DEF IsStep
    <2> QED
      BY <2>1, <2>3
  <1>6. 0 .. m \subseteq T
    <2> HIDE DEF T
    <2>1. 0 \in Int /\ m \in Int
      BY <1>1
    <2> QED
      BY <1>4, <1>5, <2>1, UpFrom
  <1>7. ASSUME NEW i \in 1 .. m PROVE AreSlots(F[i - 1], i - 1)
    <2>1. i - 1 \in 0 .. m
      OBVIOUS
    <2> QED
      BY <1>6, <2>1
  <1> QED
    BY <1>3, <1>6, <1>7 DEF F, AreFillers

-----------------------------------------------------------------------------
(* The layers of a route.                                                  *)

IsRoute(r, ds) == Len(r) \in 1 .. MAX_PATH_LENGTH /\ Len(ds) = Len(r)

IsKeyList(keys, n) == keys = [i \in 1 .. n |-> keys[i]]

LayersOf(r, d, ds, keys, coins) == routing_layers(r, d, ds, keys, Filler(Front(keys)), coins)

(* What is under the layer of the last node, and of any other.             *)
LastSlot(d, coins) ==
  Slot([kind |-> "final", destination |-> d.address, identifier |-> d.identifier,
        padding |-> coins])

HopSlot(r, ds, i, next) ==
  Slot([kind |-> "forward", address |-> r[i + 1].address, delay |-> ds[i],
        mac |-> next.integrity_mac])

(* Slot j of the layer of node i of the route, if inner are the slots of   *)
(* the layer after it and first is what the node is to find.               *)
SlotAround(first, inner, key, j) == Xored(IF j = 1 THEN first ELSE inner[j - 1], Piece(key, j))

IsLayer(x, key) ==
  /\ AreSlots(x.slots, MAX_PATH_LENGTH)
  /\ x = [slots |-> x.slots, integrity_mac |-> compute(key.header_integrity_hmac_key, x.slots)]

IsAround(x, first, inner, key) ==
  \A j \in 1 .. MAX_PATH_LENGTH :
    x.slots[j] = SlotAround(first, inner.slots, key.stream_cipher_key, j)

EndsIn(x, filler, m) == \A j \in 1 .. m : x.slots[MAX_PATH_LENGTH - m + j] = filler[j]

IsInnermost(x, d, coins, key, n) ==
  /\ x.slots[1] = Xored(LastSlot(d, coins), Piece(key.stream_cipher_key, 1))
  /\ \A j \in 2 .. MAX_PATH_LENGTH - (n - 1) :
       x.slots[j] = Xored(Slot([kind |-> "padding", coin |-> coins, place |-> j]),
                          Piece(key.stream_cipher_key, j))

LEMMA FrontOfKeys ==
  ASSUME NEW n \in Nat \ {0}, NEW keys, IsKeyList(keys, n)
  PROVE  /\ Front(keys) = [i \in 1 .. n - 1 |-> keys[i]]
         /\ Len(Front(keys)) = n - 1 /\ Len(keys) = n
  <1> DEFINE S == {keys[i] : i \in 1 .. n}
  <1>1. \A i \in 1 .. n : keys[i] \in S
    OBVIOUS
  <1>2. Len(keys) = n
    <2> HIDE DEF S
    <2> QED
      BY <1>1, ListIsSeq DEF IsKeyList
  <1>3. Front(keys) = SubSeq(keys, 1, n - 1)
    BY <1>2 DEF Front
  <1>4. n - 1 \in 0 .. n
    OBVIOUS
  <1>5. Front(keys) = [i \in 1 .. n - 1 |-> keys[i]]
    BY <1>3, <1>4, FirstOfList DEF IsKeyList
  <1>6. Len(Front(keys)) = n - 1
    <2> DEFINE f == Front(keys)
    <2>1. n - 1 \in Nat /\ \A i \in 1 .. n - 1 : f[i] \in S
      BY <1>5
    <2>2. f = [i \in 1 .. n - 1 |-> f[i]]
      BY <1>5
    <2> HIDE DEF f, S
    <2> QED
      BY <2>1, <2>2, ListIsSeq DEF f
  <1> QED
    BY <1>2, <1>5, <1>6

(* A layer around another one. *)
LEMMA ForwardLayer ==
  ASSUME NEW addr, NEW dl, NEW next, AreSlots(next.slots, MAX_PATH_LENGTH), NEW key
  PROVE  LET x     == for_forward_hop(addr, dl, next, key)
             first == Slot([kind |-> "forward", address |-> addr, delay |-> dl,
                            mac |-> next.integrity_mac])
         IN  IsLayer(x, key) /\ IsAround(x, first, next, key)
  <1> DEFINE M == MAX_PATH_LENGTH
             x == for_forward_hop(addr, dl, next, key)
             first == Slot([kind |-> "forward", address |-> addr, delay |-> dl,
                            mac |-> next.integrity_mac])
             t == truncate(next.slots)
             a == <<first>> \o t
             b == generate_pseudorandom_bytes(key.stream_cipher_key)
  <1>1. M \in Nat \ {0} /\ M - 1 \in Nat /\ 1 + (M - 1) = M /\ M - 1 \in 0 .. M
    BY MaxPathAssumption
  <1>2. t = [j \in 1 .. M - 1 |-> next.slots[j]]
    BY <1>1, FirstOfList DEF truncate, AreSlots
  <1>3. \A j \in 1 .. M - 1 : t[j] = next.slots[j]
    BY <1>2
  <1> HIDE DEF t, first
  <1>4. a = [j \in 1 .. M |-> IF j = 1 THEN first ELSE next.slots[j - 1]]
    <2> DEFINE f == <<first>>
    <2>1. f = [j \in 1 .. 1 |-> f[j]] /\ f[1] = first
      OBVIOUS
    <2>2. t = [j \in 1 .. M - 1 |-> t[j]]
      BY <1>2
    <2> HIDE DEF f
    <2>3. f \o t = [j \in 1 .. 1 + (M - 1) |-> IF j <= 1 THEN f[j] ELSE t[j - 1]]
      <3> DEFINE m == M - 1
      <3>1. 1 \in Nat /\ m \in Nat /\ IsList(f, 1) /\ IsList(t, m)
        BY <1>1, <2>1, <2>2 DEF IsList
      <3> HIDE DEF m
      <3>2. f \o t = Joined(f, 1, t, m)
        BY <3>1, JoinLists
      <3> QED
        BY <3>2 DEF Joined, m
    <2>4. \A j \in 1 .. M : (IF j <= 1 THEN f[j] ELSE t[j - 1])
                              = IF j = 1 THEN first ELSE next.slots[j - 1]
      <3> TAKE j \in 1 .. M
      <3>1. CASE j = 1
        BY <2>1, <3>1
      <3>2. CASE j # 1
        <4>1. j - 1 \in 1 .. M - 1 /\ ~ j <= 1
          BY <1>1, <3>2
        <4> QED
          BY <1>3, <3>2, <4>1
      <3> QED
        BY <3>1, <3>2
    <2> QED
      BY <1>1, <2>3, <2>4 DEF f
  <1>5. AreSlots(a, M)
    <2>1. IsSlot(first)
      BY ZeroIsSlot DEF first
    <2>2. \A j \in 1 .. M : j # 1 => j - 1 \in 1 .. M
      BY <1>1
    <2> QED
      BY <1>4, <2>1, <2>2 DEF AreSlots
  <1>6. x.slots = xor(a, b) /\ x = [slots |-> x.slots,
                     integrity_mac |-> compute(key.header_integrity_hmac_key, x.slots)]
    BY DEF for_forward_hop, encapsulate_with_mac, first, t
  <1> HIDE DEF a, b, x
  <1>7. AreSlots(x.slots, M) /\ \A j \in 1 .. M : x.slots[j] = Xored(a[j], b[j])
    BY <1>1, <1>5, <1>6, XorIsByPlace
  <1>8. \A j \in 1 .. M : b[j] = Piece(key.stream_cipher_key, j)
    BY <1>1, StreamByPlace DEF b
  <1>9. \A j \in 1 .. M : x.slots[j] = SlotAround(first, next.slots, key.stream_cipher_key, j)
    BY <1>4, <1>7, <1>8 DEF SlotAround
  <1> QED
    BY <1>6, <1>7, <1>9 DEF x, first, IsLayer, IsAround

(* The innermost layer: the destination, random padding, and the filler.   *)
LEMMA FinalLayer ==
  ASSUME NEW d, NEW key, NEW n \in 1 .. MAX_PATH_LENGTH, NEW filler, AreSlots(filler, n - 1),
         NEW coins
  PROVE  LET x == for_final_hop(d, key, filler, n, coins) IN
         IsLayer(x, key) /\ EndsIn(x, filler, n - 1) /\ IsInnermost(x, d, coins, key, n)
  <1> DEFINE M == MAX_PATH_LENGTH
             k == M - (n - 1)
             padded == [j \in 1 .. k |->
                          Slot(IF j = 1 THEN [kind |-> "final", destination |-> d.address,
                                              identifier |-> d.identifier, padding |-> coins]
                               ELSE [kind |-> "padding", coin |-> coins, place |-> j])]
             b == generate_pseudorandom_bytes(key.stream_cipher_key)
             p == xor(padded, b)
             x == for_final_hop(d, key, filler, n, coins)
  <1>1. M \in Nat \ {0} /\ k \in Nat \ {0} /\ k <= M /\ n - 1 \in Nat /\ k + (n - 1) = M
    BY MaxPathAssumption
  <1>2. AreSlots(padded, k)
    BY ZeroIsSlot DEF AreSlots
  <1>3. /\ padded[1] = LastSlot(d, coins)
        /\ \A j \in 2 .. k : padded[j] = Slot([kind |-> "padding", coin |-> coins, place |-> j])
    BY <1>1 DEF LastSlot
  <1>4. x.slots = p \o filler
        /\ x = [slots |-> x.slots,
                integrity_mac |-> compute(key.header_integrity_hmac_key, x.slots)]
    BY DEF for_final_hop, encapsulate_with_mac
  <1>5. \A j \in 1 .. k : b[j] = Piece(key.stream_cipher_key, j)
    <2>1. \A j \in 1 .. M + 1 : b[j] = Piece(key.stream_cipher_key, j)
      BY StreamByPlace
    <2> HIDE DEF b, k
    <2> QED
      BY <1>1, <2>1
  <1> HIDE DEF padded, b, x
  <1>6. AreSlots(p, k) /\ \A j \in 1 .. k : p[j] = Xored(padded[j], b[j])
    BY <1>1, <1>2, XorIsByPlace
  <1> HIDE DEF k, p
  <1>7. p \o filler = [j \in 1 .. k + (n - 1) |-> IF j <= k THEN p[j] ELSE filler[j - k]]
    <2>1. p = [j \in 1 .. k |-> p[j]] /\ filler = [j \in 1 .. n - 1 |-> filler[j]]
      BY <1>6 DEF AreSlots
    <2>2. k \in Nat /\ n - 1 \in Nat
      BY <1>1
    <2> DEFINE e == n - 1
    <2> HIDE DEF e
    <2>3. k \in Nat /\ e \in Nat /\ filler = [j \in 1 .. e |-> filler[j]]
      BY <2>1, <2>2 DEF e
    <2>4. p \o filler = Joined(p, k, filler, e)
      <3>1. IsList(p, k) /\ IsList(filler, e)
        BY <2>1, <2>3 DEF IsList
      <3> QED
        BY <2>3, <3>1, JoinLists
    <2> QED
      BY <2>4 DEF Joined, e
  <1>8. \A j \in 1 .. M : x.slots[j] = IF j <= k THEN p[j] ELSE filler[j - k]
    BY <1>1, <1>4, <1>7
  <1>9. AreSlots(x.slots, M)
    <2>1. x.slots = [j \in 1 .. M |-> x.slots[j]]
      BY <1>1, <1>4, <1>7
    <2>2. \A j \in 1 .. M : IsSlot(x.slots[j])
      <3> TAKE j \in 1 .. M
      <3>1. CASE j <= k
        <4>1. x.slots[j] = p[j] /\ j \in 1 .. k
          BY <1>1, <1>8, <3>1
        <4> QED
          BY <1>6, <4>1 DEF AreSlots
      <3>2. CASE ~ j <= k
        <4>1. j - k \in 1 .. n - 1
          BY <1>1, <3>2
        <4> QED
          BY <1>8, <3>2, <4>1 DEF AreSlots
      <3> QED
        BY <3>1, <3>2
    <2> QED
      BY <2>1, <2>2 DEF AreSlots
  <1>10. \A j \in 1 .. n - 1 : x.slots[k + j] = filler[j]
    <2> TAKE j \in 1 .. n - 1
    <2>1. k + j \in 1 .. M /\ ~ (k + j <= k) /\ (k + j) - k = j
      BY <1>1
    <2> QED
      BY <1>8, <2>1
  <1>11. \A j \in 1 .. k : x.slots[j] = Xored(padded[j], Piece(key.stream_cipher_key, j))
    BY <1>1, <1>5, <1>6, <1>8
  <1>12. x.slots[1] = Xored(LastSlot(d, coins), Piece(key.stream_cipher_key, 1))
    BY <1>1, <1>3, <1>11
  <1>13. \A j \in 2 .. k :
           x.slots[j] = Xored(Slot([kind |-> "padding", coin |-> coins, place |-> j]),
                              Piece(key.stream_cipher_key, j))
    BY <1>1, <1>3, <1>11
  <1> QED
    BY <1>4, <1>9, <1>10, <1>12, <1>13 DEF x, k, IsLayer, EndsIn, IsInnermost

-----------------------------------------------------------------------------
(* Every layer has MAX_PATH_LENGTH slots, the last of which are the filler *)
(* that the nodes before it make.                                          *)

(* A layer around one that ends in the filler ends in the filler of one    *)
(* step before.                                                            *)
LEMMA FillerFits ==
  ASSUME NEW n \in 1 .. MAX_PATH_LENGTH, NEW h \in 1 .. n - 1,
         NEW x, NEW inner, NEW first, NEW key, NEW before, NEW filler,
         IsAround(x, first, inner, key), EndsIn(inner, filler, h),
         AreSlots(before, h - 1), IsStep(filler, before, key.stream_cipher_key, h)
  PROVE  EndsIn(x, before, h - 1)
  <1> DEFINE M == MAX_PATH_LENGTH
             q(j) == M - (h - 1) + j
  <1> SUFFICES ASSUME NEW j \in 1 .. h - 1 PROVE x.slots[q(j)] = before[j]
    BY DEF EndsIn
  <1>1. M \in Nat \ {0} /\ h \in Nat /\ h < M
    BY MaxPathAssumption
  <1>2. q(j) \in 1 .. M /\ q(j) # 1 /\ q(j) - 1 = M - h + j
        /\ M + 1 - h + j = q(j) /\ j \in 1 .. h /\ j # h
    BY <1>1
  <1> DEFINE p == Piece(key.stream_cipher_key, q(j))
  <1>3. x.slots[q(j)] = Xored(inner.slots[q(j) - 1], p)
    <2> HIDE DEF q
    <2> QED
      BY <1>2 DEF SlotAround, IsAround
  <1>4. inner.slots[q(j) - 1] = filler[j]
    BY <1>2 DEF EndsIn
  <1>5. filler[j] = Xored(before[j], p)
    <2> HIDE DEF q
    <2> QED
      BY <1>2 DEF IsStep
  <1>6. IsSlot(before[j])
    BY DEF AreSlots
  <1> HIDE DEF q, p
  <1> QED
    BY <1>3, <1>4, <1>5, <1>6, XoredTwice

(* What holds of all the layers of a route. *)
AreLayers(L, r, d, ds, keys, coins) ==
  /\ \A h \in 1 .. Len(r) :
       IsLayer(L[h], keys[h]) /\ EndsIn(L[h], Fillers(Front(keys))[h - 1], h - 1)
  /\ \A h \in 1 .. Len(r) - 1 : IsAround(L[h], HopSlot(r, ds, h, L[h + 1]), L[h + 1], keys[h])
  /\ IsInnermost(L[Len(r)], d, coins, keys[Len(r)], Len(r))

LEMMA LayersShape ==
  ASSUME NEW r, NEW ds, IsRoute(r, ds), NEW keys, IsKeyList(keys, Len(r)), NEW d, NEW coins
  PROVE  AreLayers(LayersOf(r, d, ds, keys, coins), r, d, ds, keys, coins)
  <1> DEFINE M == MAX_PATH_LENGTH
             n == Len(r)
             fk == Front(keys)
             F == Fillers(fk)
             L == LayersOf(r, d, ds, keys, coins)
             T == {h \in 1 .. n : IsLayer(L[h], keys[h]) /\ EndsIn(L[h], F[h - 1], h - 1)}
  <1>1. M \in Nat \ {0} /\ n \in 1 .. M /\ n \in Nat \ {0} /\ n - 1 \in 0 .. M
    BY MaxPathAssumption DEF IsRoute
  <1>2. fk = [i \in 1 .. n - 1 |-> keys[i]] /\ Len(fk) = n - 1 /\ Len(keys) = n
    BY <1>1, FrontOfKeys
  <1>3. \A h \in 1 .. n :
          L[h] = IF h = n THEN for_final_hop(d, keys[n], F[n - 1], n, coins)
                 ELSE for_forward_hop(r[h + 1].address, ds[h], L[h + 1], keys[h])
    <2> DEFINE f == Filler(fk)
    <2>1. f = F[n - 1]
      BY <1>2 DEF Filler
    <2> HIDE DEF f
    <2>2. routing_layers(r, d, ds, keys, f, coins)
           = [i \in 1 .. n |->
                IF i = n THEN for_final_hop(d, keys[n], f, n, coins)
                ELSE for_forward_hop(r[i + 1].address, ds[i],
                                     routing_layers(r, d, ds, keys, f, coins)[i + 1],
                                     keys[i])]
      BY <1>1, LayersRecur
    <2>3. L = routing_layers(r, d, ds, keys, f, coins)
      BY DEF LayersOf, f
    <2> HIDE DEF L, F, n
    <2> QED
      BY <2>1, <2>2, <2>3
  <1>4. AreFillers(F, keys, n - 1)
    <2>1. \A i \in 1 .. n - 1 : fk[i] = keys[i]
      BY <1>2
    <2>2. AreFillers(Fillers(fk), fk, n - 1)
      <3> HIDE DEF fk, n
      <3> QED
        BY <1>1, <1>2, FillersShape
    <2> HIDE DEF fk, n
    <2> QED
      BY <2>1, <2>2 DEF AreFillers
  <1> HIDE DEF F, fk, L
  <1>5. n \in T /\ IsInnermost(L[n], d, coins, keys[n], n)
    <2> DEFINE x == L[n]
               k == keys[n]
               f == F[n - 1]
    <2>1. x = for_final_hop(d, k, f, n, coins)
      BY <1>1, <1>3
    <2>2. AreSlots(f, n - 1)
      BY <1>1, <1>4 DEF AreFillers
    <2> HIDE DEF n, x, k, f
    <2>3. IsLayer(x, k) /\ EndsIn(x, f, n - 1) /\ IsInnermost(x, d, coins, k, n)
      BY <1>1, <2>1, <2>2, FinalLayer
    <2> QED
      BY <1>1, <2>3 DEF x, f, k
  <1>6. ASSUME NEW h \in 1 .. n - 1, h + 1 \in T
        PROVE  h \in T /\ IsAround(L[h], HopSlot(r, ds, h, L[h + 1]), L[h + 1], keys[h])
    <2> DEFINE x     == L[h]
               next  == L[h + 1]
               k     == keys[h]
               first == HopSlot(r, ds, h, next)
    <2>1. h \in 1 .. n /\ h # n /\ h - 1 \in 0 .. n - 1 /\ (h + 1) - 1 = h
      BY <1>1
    <2>2. x = for_forward_hop(r[h + 1].address, ds[h], next, k)
      BY <1>3, <2>1
    <2>3. IsLayer(next, keys[h + 1]) /\ EndsIn(next, F[h], h)
      BY <1>6, <2>1
    <2>4. AreSlots(next.slots, M)
      BY <2>3 DEF IsLayer
    <2>5. IsLayer(x, k) /\ IsAround(x, first, next, k)
      <3> HIDE DEF x, next, k
      <3> QED
        BY <2>2, <2>4, ForwardLayer DEF HopSlot
    <2>6. AreSlots(F[h - 1], h - 1) /\ IsStep(F[h], F[h - 1], k.stream_cipher_key, h)
      BY <1>4, <2>1 DEF AreFillers
    <2>7. EndsIn(x, F[h - 1], h - 1)
      <3> HIDE DEF n, x, next, k, first
      <3> QED
        BY <1>1, <2>3, <2>5, <2>6, FillerFits
    <2> QED
      BY <2>1, <2>5, <2>7
  <1>7. 1 .. n \subseteq T
    <2> HIDE DEF T, n
    <2>1. 1 \in Int /\ n \in Int
      BY <1>1
    <2> QED
      BY <1>5, <1>6, <2>1, DownFrom
  <1>8. \A h \in 1 .. n - 1 : IsAround(L[h], HopSlot(r, ds, h, L[h + 1]), L[h + 1], keys[h])
    <2> TAKE h \in 1 .. n - 1
    <2>1. h + 1 \in 1 .. n
      BY <1>1
    <2> HIDE DEF T, n
    <2> QED
      BY <1>6, <1>7, <2>1
  <1> QED
    BY <1>5, <1>7, <1>8 DEF L, F, fk, AreLayers


(* The last slot of the layer of a node is what the node before shifts in. *)
LEMMA ShiftedIn ==
  ASSUME NEW r, NEW ds, IsRoute(r, ds), NEW keys, IsKeyList(keys, Len(r)), NEW d, NEW coins,
         NEW h \in 1 .. Len(r) - 1
  PROVE  LayersOf(r, d, ds, keys, coins)[h + 1].slots[MAX_PATH_LENGTH]
           = Xored(zero_slot, Piece(keys[h].stream_cipher_key, MAX_PATH_LENGTH + 1))
  <1> DEFINE M == MAX_PATH_LENGTH
             n == Len(r)
             fk == Front(keys)
             F == Fillers(fk)
             L == LayersOf(r, d, ds, keys, coins)
             x == L[h + 1]
  <1>1. M \in Nat \ {0} /\ n \in 1 .. M /\ n \in Nat \ {0} /\ n - 1 \in 0 .. M
        /\ h \in Nat /\ h \in 1 .. n - 1 /\ h + 1 \in 1 .. n
    BY MaxPathAssumption DEF IsRoute
  <1>2. fk = [i \in 1 .. n - 1 |-> keys[i]] /\ Len(fk) = n - 1
    BY <1>1, FrontOfKeys
  <1>3. AreFillers(F, fk, n - 1)
    <2> HIDE DEF fk, n
    <2> QED
      BY <1>1, <1>2, FillersShape
  <1>4. IsStep(F[h], F[h - 1], keys[h].stream_cipher_key, h)
    <2>1. fk[h] = keys[h]
      BY <1>2
    <2> HIDE DEF fk, F, n
    <2> QED
      BY <1>1, <1>3, <2>1 DEF AreFillers
  <1>5. EndsIn(x, F[h], h)
    <2>1. AreLayers(L, r, d, ds, keys, coins)
      BY LayersShape
    <2>2. (h + 1) - 1 = h
      BY <1>1
    <2> HIDE DEF L
    <2> QED
      BY <1>1, <2>1, <2>2 DEF AreLayers
  <1> DEFINE f == F[h]
             g == F[h - 1]
             k == keys[h].stream_cipher_key
  <1> HIDE DEF f, g, k, x
  <1>6. h \in 1 .. h /\ M - h + h = M /\ M + 1 - h + h = M + 1
    BY <1>1
  <1>7. x.slots[M] = f[h]
    BY <1>5, <1>6 DEF EndsIn, f
  <1>8. f[h] = Xored(zero_slot, Piece(k, M + 1))
    <2>1. IsStep(f, g, k, h)
      BY <1>4 DEF f, g, k
    <2> QED
      BY <1>6, <2>1 DEF IsStep
  <1> QED
    BY <1>7, <1>8 DEF x, k

(* A node shifts in a slot of zeroes and xors with the keystream.          *)
IsUnwrapped(y, x, key) ==
  /\ y = [j \in 1 .. MAX_PATH_LENGTH + 1 |-> y[j]]
  /\ \A j \in 1 .. MAX_PATH_LENGTH + 1 :
       y[j] = Xored(IF j = MAX_PATH_LENGTH + 1 THEN zero_slot ELSE x[j], Piece(key, j))

LEMMA UnwrapByPlace ==
  ASSUME NEW x, AreSlots(x, MAX_PATH_LENGTH), NEW key
  PROVE  IsUnwrapped(unwrap(x, key), x, key)
  <1> DEFINE M == MAX_PATH_LENGTH
             a == Append(x, zero_slot)
             b == generate_pseudorandom_bytes(key)
             y == unwrap(x, key)
  <1>1. M \in Nat \ {0} /\ M + 1 \in Nat
    BY MaxPathAssumption
  <1>2. a = [j \in 1 .. M + 1 |-> IF j = M + 1 THEN zero_slot ELSE x[j]]
    BY <1>1, AppendList DEF AreSlots
  <1>3. AreSlots(a, M + 1)
    <2>1. \A j \in 1 .. M + 1 : j # M + 1 => j \in 1 .. M
      BY <1>1
    <2> QED
      BY <1>2, <2>1, ZeroIsSlot DEF AreSlots
  <1>4. y = xor(a, b)
    BY DEF unwrap
  <1> HIDE DEF a, b, y
  <1>5. AreSlots(y, M + 1) /\ \A j \in 1 .. M + 1 : y[j] = Xored(a[j], b[j])
    BY <1>1, <1>3, <1>4, XorIsByPlace
  <1>6. \A j \in 1 .. M + 1 : b[j] = Piece(key, j)
    BY StreamByPlace DEF b
  <1>7. y = [j \in 1 .. M + 1 |-> y[j]]
    BY <1>5 DEF AreSlots
  <1>8. \A j \in 1 .. M + 1 : y[j] = Xored(IF j = M + 1 THEN zero_slot ELSE x[j], Piece(key, j))
    BY <1>2, <1>5, <1>6
  <1> QED
    BY <1>7, <1>8 DEF y, IsUnwrapped

(* So it finds its own part, and behind that the layer of the next node.   *)
LEMMA UnwrapsAround ==
  ASSUME NEW x, NEW inner, NEW first, NEW key, IsSlot(first),
         AreSlots(x.slots, MAX_PATH_LENGTH), AreSlots(inner.slots, MAX_PATH_LENGTH),
         IsAround(x, first, inner, key),
         inner.slots[MAX_PATH_LENGTH]
           = Xored(zero_slot, Piece(key.stream_cipher_key, MAX_PATH_LENGTH + 1))
  PROVE  /\ Head(unwrap(x.slots, key.stream_cipher_key)) = first
         /\ Tail(unwrap(x.slots, key.stream_cipher_key)) = inner.slots
  <1> DEFINE M == MAX_PATH_LENGTH
             s == x.slots
             t == inner.slots
             k == key.stream_cipher_key
             y == unwrap(s, k)
  <1>1. M \in Nat \ {0} /\ M + 1 \in Nat \ {0} /\ (M + 1) - 1 = M
    BY MaxPathAssumption
  <1>2. /\ y = [j \in 1 .. M + 1 |-> y[j]]
        /\ \A j \in 1 .. M + 1 : y[j] = Xored(IF j = M + 1 THEN zero_slot ELSE s[j], Piece(k, j))
    <2>1. IsUnwrapped(y, s, k)
      BY UnwrapByPlace
    <2> HIDE DEF y, s, k
    <2> QED
      BY <2>1 DEF IsUnwrapped
  <1>3. \A j \in 1 .. M : s[j] = Xored(IF j = 1 THEN first ELSE t[j - 1], Piece(k, j))
    BY DEF IsAround, SlotAround
  <1>4. t = [j \in 1 .. M |-> t[j]] /\ \A j \in 1 .. M : IsSlot(t[j])
    BY DEF AreSlots
  <1>5. t[M] = Xored(zero_slot, Piece(k, M + 1))
    OBVIOUS
  <1> HIDE DEF y, s, t, k
  <1>6. ASSUME NEW j \in 1 .. M PROVE y[j] = IF j = 1 THEN first ELSE t[j - 1]
    <2> DEFINE z == IF j = 1 THEN first ELSE t[j - 1]
               p == Piece(k, j)
    <2>1. j \in 1 .. M + 1 /\ j # M + 1
      BY <1>1
    <2>2. IsSlot(z)
      <3>1. j # 1 => j - 1 \in 1 .. M
        BY <1>1
      <3> QED
        BY <1>4, <3>1
    <2>3. y[j] = Xored(s[j], p) /\ s[j] = Xored(z, p)
      BY <1>2, <1>3, <2>1
    <2> HIDE DEF z, p
    <2>4. y[j] = z
      BY <2>2, <2>3, XoredTwice
    <2> QED
      BY <2>4 DEF z
  <1>7. y[1] = first
    BY <1>1, <1>6
  <1>8. \A j \in 1 .. M : y[j + 1] = t[j]
    <2> TAKE j \in 1 .. M
    <2>1. CASE j = M
      BY <1>1, <1>2, <1>5, <2>1
    <2>2. CASE j # M
      <3>1. j + 1 \in 1 .. M /\ j + 1 # 1 /\ (j + 1) - 1 = j
        BY <1>1, <2>2
      <3> QED
        BY <1>6, <3>1
    <2> QED
      BY <2>1, <2>2
  <1>9. Head(y) = y[1] /\ Tail(y) = [j \in 1 .. M |-> y[j + 1]]
    <2>1. Head(y) = y[1] /\ Tail(y) = [j \in 1 .. (M + 1) - 1 |-> y[j + 1]]
      BY <1>1, <1>2, TailOfList
    <2> QED
      BY <1>1, <2>1
  <1>10. Tail(y) = t
    BY <1>4, <1>8, <1>9
  <1> QED
    BY <1>7, <1>9, <1>10 DEF y, s, t, k

(* The last node finds what was meant for it. *)
LEMMA UnwrapsInnermost ==
  ASSUME NEW x, NEW d, NEW coins, NEW key, NEW n \in 1 .. MAX_PATH_LENGTH,
         AreSlots(x.slots, MAX_PATH_LENGTH), IsInnermost(x, d, coins, key, n)
  PROVE  Head(unwrap(x.slots, key.stream_cipher_key)) = LastSlot(d, coins)
  <1> DEFINE M == MAX_PATH_LENGTH
             s == x.slots
             k == key.stream_cipher_key
             y == unwrap(s, k)
             z == LastSlot(d, coins)
             p == Piece(k, 1)
  <1>1. M \in Nat \ {0} /\ M + 1 \in Nat \ {0} /\ 1 \in 1 .. M + 1 /\ 1 # M + 1
    BY MaxPathAssumption
  <1>2. y = [j \in 1 .. M + 1 |-> y[j]] /\ y[1] = Xored(s[1], p)
    <2>1. IsUnwrapped(y, s, k)
      BY UnwrapByPlace
    <2> HIDE DEF y, s, k, p
    <2>2. y = [j \in 1 .. M + 1 |-> y[j]] /\ y[1] = Xored(s[1], Piece(k, 1))
      BY <1>1, <2>1 DEF IsUnwrapped
    <2> QED
      BY <2>2 DEF p
  <1>3. s[1] = Xored(z, p)
    BY DEF IsInnermost
  <1>4. IsSlot(z)
    BY ZeroIsSlot DEF LastSlot
  <1> HIDE DEF y, s, k, z, p
  <1>5. y[1] = z
    BY <1>2, <1>3, <1>4, XoredTwice
  <1>6. Head(y) = y[1]
    BY <1>1, <1>2, TailOfList
  <1> QED
    BY <1>5, <1>6 DEF y, s, k, z

-----------------------------------------------------------------------------
(* Headers. *)

(* What node h of the route is to get, and what it gets out of it.         *)
HeaderFor(r, d, ds, s, coins, h) ==
  [shared_secret |-> accumulators(r, s)[h],
   routing_info  |-> LayersOf(r, d, ds, routing_keys(r, s), coins)[h]]

HandedOn(r, d, ds, s, coins, h) ==
  IF h = Len(r)
  THEN [ok |-> TRUE, hop |-> "FinalHop", destination |-> d.address, identifier |-> d.identifier,
        payload_key |-> routing_keys(r, s)[h].payload_key]
  ELSE [ok |-> TRUE, hop |-> "ForwardHop", header |-> HeaderFor(r, d, ds, s, coins, h + 1),
        address |-> r[h + 1].address, delay |-> ds[h],
        payload_key |-> routing_keys(r, s)[h].payload_key]

(* The keys that the sender derives for a node are those that it derives.  *)
LEMMA KeysAgree ==
  ASSUME NEW r, Len(r) \in Nat, NEW s
  PROVE  /\ IsKeyList(routing_keys(r, s), Len(r))
         /\ \A h \in 1 .. Len(r) :
              /\ routing_keys(r, s)[h] = derive(accumulators(r, s)[h] \cup r[h].pub_key)
              /\ compute_routing_keys(accumulators(r, s)[h], r[h].pub_key) = routing_keys(r, s)[h]
  <1> DEFINE A == accumulators(r, s)
             K == routing_keys(r, s)
  <1>1. K = [i \in 1 .. Len(r) |-> derive(diffie_hellman(A[i], r[i].pub_key))]
    BY DEF routing_keys
  <1> HIDE DEF A, K
  <1>2. \A x, y : diffie_hellman(x, y) = x \cup y /\ diffie_hellman(y, x) = x \cup y
    BY DEF diffie_hellman
  <1>3. \A h \in 1 .. Len(r) : K[h] = derive(A[h] \cup r[h].pub_key)
    BY <1>1, <1>2
  <1>4. \A h \in 1 .. Len(r) : compute_routing_keys(A[h], r[h].pub_key) = K[h]
    BY <1>2, <1>3 DEF compute_routing_keys
  <1> QED
    BY <1>1, <1>3, <1>4 DEF A, K, IsKeyList

(* The secret of the next node is that of this one, blinded.               *)
LEMMA BlindedIsNext ==
  ASSUME NEW r, Len(r) \in Nat, NEW s, NEW h \in 1 .. Len(r) - 1
  PROVE  blind_the_shared_secret(accumulators(r, s)[h], routing_keys(r, s)[h].blinding_factor)
           = accumulators(r, s)[h + 1]
  <1> DEFINE A == accumulators(r, s)
             K == routing_keys(r, s)
  <1>1. h \in 1 .. Len(r) /\ h + 1 \in 1 .. Len(r) /\ h + 1 # 1 /\ (h + 1) - 1 = h
    OBVIOUS
  <1>2. A[h + 1] = A[h] \cup derive(diffie_hellman(A[h], r[h].pub_key)).blinding_factor
    <2>1. A = [i \in 1 .. Len(r) |->
                IF i = 1 THEN s
                ELSE A[i - 1] \cup derive(diffie_hellman(A[i - 1], r[i - 1].pub_key)).blinding_factor]
      BY AccumulatorsRecur
    <2> HIDE DEF A
    <2> QED
      BY <1>1, <2>1
  <1>3. K[h] = derive(diffie_hellman(A[h], r[h].pub_key))
    BY <1>1 DEF routing_keys
  <1> HIDE DEF A, K
  <1> QED
    BY <1>2, <1>3 DEF A, K, blind_the_shared_secret, diffie_hellman

(* What a last and any other node read in the first slot. *)
LEMMA ParsesFinal ==
  ASSUME NEW raw, NEW d, NEW coins, Head(raw) = LastSlot(d, coins)
  PROVE  parse(raw) = [ok |-> TRUE, hop |-> "FinalHop", destination |-> d.address,
                       identifier |-> d.identifier]
  <1> DEFINE first == Head(raw)
  <1>1. /\ first.pads = {} /\ first.base.kind = "final"
        /\ first.base.destination = d.address /\ first.base.identifier = d.identifier
    BY DEF LastSlot, Slot
  <1> HIDE DEF first
  <1> QED
    BY <1>1 DEF parse, first

LEMMA ParsesForward ==
  ASSUME NEW raw, NEW r, NEW ds, NEW i, NEW next, Head(raw) = HopSlot(r, ds, i, next)
  PROVE  parse(raw) = [ok |-> TRUE, hop |-> "ForwardHop", address |-> r[i + 1].address,
                       delay |-> ds[i],
                       routing_info |-> [slots |-> Tail(raw),
                                         integrity_mac |-> next.integrity_mac]]
  <1> DEFINE first == Head(raw)
  <1>1. /\ first.pads = {} /\ first.base.kind = "forward"
        /\ first.base.address = r[i + 1].address /\ first.base.delay = ds[i]
        /\ first.base.mac = next.integrity_mac
    BY DEF HopSlot, Slot
  <1> HIDE DEF first
  <1> QED
    BY <1>1 DEF parse, first

ReadsAs(parsed, r, ds, keys, d, coins, h) ==
  parsed = IF h = Len(r)
           THEN [ok |-> TRUE, hop |-> "FinalHop", destination |-> d.address,
                 identifier |-> d.identifier]
           ELSE [ok |-> TRUE, hop |-> "ForwardHop", address |-> r[h + 1].address,
                 delay |-> ds[h], routing_info |-> LayersOf(r, d, ds, keys, coins)[h + 1]]

LEMMA Parsed ==
  ASSUME NEW r, NEW ds, IsRoute(r, ds), NEW keys, IsKeyList(keys, Len(r)), NEW d, NEW coins,
         NEW h \in 1 .. Len(r)
  PROVE  ReadsAs(parse(unwrap(LayersOf(r, d, ds, keys, coins)[h].slots,
                              keys[h].stream_cipher_key)),
                 r, ds, keys, d, coins, h)
  <1> DEFINE M == MAX_PATH_LENGTH
             n == Len(r)
             L == LayersOf(r, d, ds, keys, coins)
             k == keys[h]
             x == L[h]
             raw == unwrap(x.slots, k.stream_cipher_key)
  <1>1. M \in Nat \ {0} /\ n \in 1 .. M
    BY MaxPathAssumption DEF IsRoute
  <1>2. AreLayers(L, r, d, ds, keys, coins)
    BY LayersShape
  <1> HIDE DEF L
  <1>3. \A i \in 1 .. n : IsLayer(L[i], keys[i])
    BY <1>2 DEF AreLayers
  <1>4. IsLayer(x, k) /\ AreSlots(x.slots, M)
    BY <1>3 DEF IsLayer
  <1>5. CASE h = n
    <2>1. IsInnermost(x, d, coins, k, n)
      BY <1>2, <1>5 DEF AreLayers
    <2> HIDE DEF n, x, k
    <2>2. Head(raw) = LastSlot(d, coins)
      BY <1>1, <1>4, <2>1, UnwrapsInnermost
    <2> HIDE DEF raw
    <2>3. parse(raw) = [ok |-> TRUE, hop |-> "FinalHop", destination |-> d.address,
                        identifier |-> d.identifier]
      BY <2>2, ParsesFinal
    <2> QED
      BY <1>5, <2>3 DEF L, x, k, raw, n, ReadsAs
  <1>6. CASE h # n
    <2> DEFINE inner == L[h + 1]
               first == HopSlot(r, ds, h, inner)
    <2>1. h \in 1 .. n - 1 /\ h + 1 \in 1 .. n
      BY <1>6
    <2>2. IsLayer(inner, keys[h + 1]) /\ AreSlots(inner.slots, M)
      BY <1>3, <2>1 DEF IsLayer
    <2>3. inner = [slots |-> inner.slots, integrity_mac |-> inner.integrity_mac]
      <3> DEFINE m == compute(keys[h + 1].header_integrity_hmac_key, inner.slots)
                 sl == inner.slots
      <3>1. inner = [slots |-> sl, integrity_mac |-> m]
        BY <2>2 DEF IsLayer
      <3> HIDE DEF m, sl, inner
      <3> QED
        BY <3>1 DEF sl
    <2>4. IsAround(x, first, inner, k)
      BY <1>2, <2>1 DEF AreLayers
    <2>5. inner.slots[M] = Xored(zero_slot, Piece(k.stream_cipher_key, M + 1))
      BY <2>1, ShiftedIn DEF L
    <2>6. IsSlot(first)
      BY ZeroIsSlot DEF HopSlot
    <2> HIDE DEF x, k, inner, first
    <2>7. Head(raw) = first /\ Tail(raw) = inner.slots
      BY <1>4, <2>2, <2>4, <2>5, <2>6, UnwrapsAround
    <2> HIDE DEF raw
    <2>8. parse(raw) = [ok |-> TRUE, hop |-> "ForwardHop", address |-> r[h + 1].address,
                        delay |-> ds[h],
                        routing_info |-> [slots |-> Tail(raw),
                                          integrity_mac |-> inner.integrity_mac]]
      <3>1. Head(raw) = HopSlot(r, ds, h, inner)
        BY <2>7 DEF first
      <3> QED
        BY <3>1, ParsesForward
    <2>9. parse(raw) = [ok |-> TRUE, hop |-> "ForwardHop", address |-> r[h + 1].address,
                        delay |-> ds[h], routing_info |-> inner]
      BY <2>3, <2>7, <2>8
    <2> QED
      BY <1>6, <2>9 DEF L, x, k, raw, inner, n, ReadsAs
  <1> QED
    BY <1>5, <1>6

(* What a node may have for the blinded secret, and what it opens with it. *)
MayHave(blinded, r, s, h) ==
  blinded \in {None, Some(blind_the_shared_secret(accumulators(r, s)[h],
                                                  routing_keys(r, s)[h].blinding_factor))}

Opens(unwrapped, r, d, ds, s, coins, h, blinded) ==
  unwrapped = IF h # Len(r) /\ blinded = None THEN Err("InvalidHeader")
              ELSE HandedOn(r, d, ds, s, coins, h)

(* A node that has the keys of its place and, if it needs one, the blinded *)
(* secret, accepts the header and leaves the one for the next node.        *)
LEMMA HeaderOpens ==
  ASSUME NEW r, NEW ds, IsRoute(r, ds), NEW d, NEW s, NEW coins, NEW h \in 1 .. Len(r),
         NEW blinded, MayHave(blinded, r, s, h)
  PROVE  Opens(ProcessedHeader(HeaderFor(r, d, ds, s, coins, h), blinded, routing_keys(r, s)[h]),
               r, d, ds, s, coins, h, blinded)
  <1> DEFINE n  == Len(r)
             A  == accumulators(r, s)
             K  == routing_keys(r, s)
             L  == LayersOf(r, d, ds, K, coins)
             k  == K[h]
             x  == L[h]
             H  == HeaderFor(r, d, ds, s, coins, h)
             pa == parse(unwrap(x.slots, k.stream_cipher_key))
             P  == ProcessedHeader(H, blinded, k)
             b  == blind_the_shared_secret(A[h], k.blinding_factor)
  <1>1. n \in Nat
    BY MaxPathAssumption DEF IsRoute
  <1>2. IsKeyList(K, n)
    BY <1>1, KeysAgree
  <1>3. verify(x.integrity_mac, k.header_integrity_hmac_key, x.slots)
    <2>1. AreLayers(L, r, d, ds, K, coins)
      BY <1>2, LayersShape
    <2> DEFINE sl == x.slots
               m  == compute(k.header_integrity_hmac_key, x.slots)
    <2>2. x = [slots |-> sl, integrity_mac |-> m]
      <3> HIDE DEF L, K
      <3> QED
        BY <2>1 DEF AreLayers, IsLayer
    <2> HIDE DEF L, K, x, m, sl
    <2>3. x.integrity_mac = m
      BY <2>2
    <2> QED
      BY <2>3 DEF m, verify
  <1>4. pa = IF h = n
             THEN [ok |-> TRUE, hop |-> "FinalHop", destination |-> d.address,
                   identifier |-> d.identifier]
             ELSE [ok |-> TRUE, hop |-> "ForwardHop", address |-> r[h + 1].address,
                   delay |-> ds[h], routing_info |-> L[h + 1]]
    <2>1. ReadsAs(pa, r, ds, K, d, coins, h)
      <3> HIDE DEF K
      <3> QED
        BY <1>2, Parsed
    <2> HIDE DEF pa
    <2> QED
      BY <2>1 DEF ReadsAs
  <1>5. H = [shared_secret |-> A[h], routing_info |-> x]
    BY DEF HeaderFor
  <1>6. /\ H.routing_info = x
        /\ P = IF ~ pa.ok THEN pa
               ELSE IF pa.hop = "FinalHop"
               THEN [ok |-> TRUE, hop |-> "FinalHop", destination |-> pa.destination,
                     identifier |-> pa.identifier, payload_key |-> k.payload_key]
               ELSE IF blinded = None THEN Err("InvalidHeader")
               ELSE [ok |-> TRUE, hop |-> "ForwardHop",
                     header |-> [shared_secret |-> CHOOSE z \in blinded : TRUE,
                                 routing_info |-> pa.routing_info],
                     address |-> pa.address, delay |-> pa.delay,
                     payload_key |-> k.payload_key]
    <2>1. H.routing_info = x
      BY <1>5
    <2> HIDE DEF H, x, k
    <2> QED
      BY <1>3, <2>1 DEF ProcessedHeader
  <1> HIDE DEF P, pa
  <1>7. CASE h = n
    <2>1. pa.ok = TRUE /\ pa.hop = "FinalHop" /\ pa.destination = d.address
          /\ pa.identifier = d.identifier
      BY <1>4, <1>7
    <2>2. P = [ok |-> TRUE, hop |-> "FinalHop", destination |-> d.address,
               identifier |-> d.identifier, payload_key |-> k.payload_key]
      BY <1>6, <2>1
    <2> QED
      BY <1>7, <2>2 DEF P, Opens, HandedOn
  <1>8. CASE h # n
    <2>1. pa.ok = TRUE /\ pa.hop = "ForwardHop" /\ pa.address = r[h + 1].address
          /\ pa.delay = ds[h] /\ pa.routing_info = L[h + 1]
      <3> HIDE DEF L
      <3> QED
        BY <1>4, <1>8
    <2>2. CASE blinded = None
      BY <1>6, <1>8, <2>1, <2>2 DEF P, Opens
    <2>3. CASE blinded # None
      <3>1. blinded = {b}
        BY <2>3 DEF Some, MayHave
      <3>2. (CHOOSE z \in blinded : TRUE) = b
        <4> HIDE DEF b
        <4> QED
          BY <3>1
      <3>3. b = A[h + 1]
        <4>1. h \in 1 .. n - 1
          BY <1>1, <1>8
        <4> QED
          BY <1>1, <4>1, BlindedIsNext
      <3>4. P = [ok |-> TRUE, hop |-> "ForwardHop",
                 header |-> [shared_secret |-> A[h + 1], routing_info |-> L[h + 1]],
                 address |-> r[h + 1].address, delay |-> ds[h],
                 payload_key |-> k.payload_key]
        <4> HIDE DEF b, A, L, k
        <4> QED
          BY <1>6, <2>1, <2>3, <3>2, <3>3
      <3> QED
        BY <1>8, <2>3, <3>4 DEF P, Opens, HandedOn, HeaderFor
    <2> QED
      BY <2>2, <2>3
  <1> QED
    BY <1>7, <1>8

(* Every node of a route accepts the header that the sender made for it    *)
(* or the node before it left, finds its own address, delay and keys as    *)
(* the sender meant them, and leaves the header for the next node, slot    *)
(* for slot and MAC for MAC, whatever the length of the route; the last    *)
(* one finds the destination (Filler::new against SphinxHeader::process).  *)
THEOREM NodesOpenTheirHeaders ==
  ASSUME NEW r, NEW ds, IsRoute(r, ds), NEW d, NEW s, NEW coins, NEW h \in 1 .. Len(r)
  PROVE  process_header(HeaderFor(r, d, ds, s, coins, h), r[h].pub_key)
           = HandedOn(r, d, ds, s, coins, h)
  <1> DEFINE A == accumulators(r, s)
             K == routing_keys(r, s)
             H == HeaderFor(r, d, ds, s, coins, h)
             k == K[h]
             b == Some(blind_the_shared_secret(A[h], k.blinding_factor))
  <1>1. Len(r) \in Nat
    BY MaxPathAssumption DEF IsRoute
  <1>2. H.shared_secret = A[h]
    BY DEF HeaderFor
  <1>3. compute_routing_keys(A[h], r[h].pub_key) = k
    BY <1>1, KeysAgree
  <1>4. process_header(H, r[h].pub_key) = ProcessedHeader(H, b, k)
    <2> HIDE DEF H, A, k
    <2> QED
      BY <1>2, <1>3 DEF process_header
  <1>5. ProcessedHeader(H, b, k) = IF h # Len(r) /\ b = None THEN Err("InvalidHeader")
                                   ELSE HandedOn(r, d, ds, s, coins, h)
    <2>1. MayHave(b, r, s, h)
      BY DEF MayHave
    <2>2. Opens(ProcessedHeader(H, b, k), r, d, ds, s, coins, h, b)
      BY <2>1, HeaderOpens
    <2> QED
      BY <2>2 DEF Opens
  <1>6. b # None
    BY DEF Some, None
  <1> QED
    BY <1>4, <1>5, <1>6

(* What the sender makes: the header for the first node, or a panic when   *)
(* the route is empty or too long, or has not a delay for each node.       *)
LEMMA NewHeader ==
  ASSUME NEW r, Len(r) \in Nat, NEW ds, Len(ds) \in Nat, NEW d, NEW s, NEW coins
  PROVE  new_header(s, r, ds, d, coins)
           = IF IsRoute(r, ds)
             THEN [ok |-> TRUE, header |-> HeaderFor(r, d, ds, s, coins, 1),
                   payload_keys |-> [i \in 1 .. Len(r) |-> routing_keys(r, s)[i].payload_key]]
             ELSE Err("panic")
  <1> DEFINE n == Len(r)
             A == accumulators(r, s)
             K == routing_keys(r, s)
             N == new_header(s, r, ds, d, coins)
  <1>1. MAX_PATH_LENGTH \in Nat \ {0} /\ n \in Nat
    BY MaxPathAssumption
  <1>2. HeaderPanics(r, ds) <=> ~ IsRoute(r, ds)
    BY <1>1 DEF HeaderPanics, IsRoute, max_destination_length, padding_length,
                max_padded_destination_identifier_length, DESTINATION_ADDRESS_LENGTH,
                ENCRYPTED_ROUTING_INFO_SIZE, FILLER_STEP_SIZE_INCREASE, NODE_META_INFO_SIZE,
                FINAL_NODE_META_INFO_LENGTH
  <1>3. CASE ~ IsRoute(r, ds)
    BY <1>2, <1>3 DEF new_header
  <1>4. CASE IsRoute(r, ds)
    <2>1. N = [ok |-> TRUE,
               header |-> [shared_secret |-> s,
                           routing_info |->
                             EncapsulatedRoutingInformation(r, d, ds, K, Filler(Front(K)), coins)],
               payload_keys |-> [i \in DOMAIN K |-> K[i].payload_key]]
      BY <1>2, <1>4 DEF new_header
    <2>2. A[1] = s
      <3>1. A = [i \in 1 .. Len(r) |->
                IF i = 1 THEN s
                ELSE A[i - 1] \cup derive(diffie_hellman(A[i - 1], r[i - 1].pub_key)).blinding_factor]
        BY <1>1, AccumulatorsRecur
      <3>2. 1 \in 1 .. Len(r)
        BY <1>4 DEF IsRoute
      <3> HIDE DEF A
      <3> QED
        BY <3>1, <3>2
    <2>3. EncapsulatedRoutingInformation(r, d, ds, K, Filler(Front(K)), coins)
            = LayersOf(r, d, ds, K, coins)[1]
      BY DEF EncapsulatedRoutingInformation, LayersOf
    <2>4. DOMAIN K = 1 .. n
      BY DEF routing_keys
    <2> HIDE DEF N, A, K
    <2>5. HeaderFor(r, d, ds, s, coins, 1)
            = [shared_secret |-> A[1], routing_info |-> LayersOf(r, d, ds, K, coins)[1]]
      BY DEF HeaderFor, A, K
    <2>6. N = [ok |-> TRUE, header |-> HeaderFor(r, d, ds, s, coins, 1),
               payload_keys |-> [i \in 1 .. n |-> K[i].payload_key]]
      BY <2>1, <2>2, <2>3, <2>4, <2>5, Zenon
    <2> QED
      BY <1>4, <2>6 DEF N, K
  <1> QED
    BY <1>3, <1>4

-----------------------------------------------------------------------------
(* Payloads. *)

LEMMA EncryptionRecurs ==
  ASSUME NEW plain, NEW pk, Len(pk) \in Nat
  PROVE  encryption_layers(plain, pk)
           = [i \in 1 .. Len(pk) + 1 |->
                IF i = Len(pk) + 1 THEN plain
                ELSE IF ~ encryption_layers(plain, pk)[i + 1].ok
                THEN encryption_layers(plain, pk)[i + 1]
                ELSE add_encryption_layer(encryption_layers(plain, pk)[i + 1].payload, pk[i])]
  <1> DEFINE m == Len(pk)
             n == m + 1
             D(i, x) == IF ~ x.ok THEN x ELSE add_encryption_layer(x.payload, pk[i])
             B == plain
             Is(f, k) == f = [i \in n - k .. n |-> IF i = n THEN B ELSE D(i, f[i + 1])]
             T == {k \in Nat : \E f : Is(f, k)}
  <1>0. n \in Nat \ {0} /\ m \in Nat
    OBVIOUS
  <1> HIDE DEF D, B, n, m
  <1>1. 0 \in T
    <2> DEFINE f == [i \in n - 0 .. n |-> B]
    <2>1. Is(f, 0)
      BY <1>0
    <2> HIDE DEF f, Is
    <2> QED
      BY <2>1
  <1>2. ASSUME NEW k \in Nat, k \in T PROVE k + 1 \in T
    <2>1. PICK f : Is(f, k)
      BY <1>2
    <2> DEFINE j == n - (k + 1)
               g == [i \in j .. n |-> IF i = j THEN D(j, f[j + 1]) ELSE f[i]]
    <2>2. ASSUME NEW i \in j .. n
          PROVE  g[i] = IF i = n THEN B ELSE D(i, g[i + 1])
      <3>1. CASE i = j
        <4>1. g[i + 1] = f[j + 1] /\ i # n
          BY <1>0, <3>1
        <4> QED
          BY <3>1, <4>1
      <3>2. CASE i # j
        <4>1. i \in n - k .. n /\ (i # n => i + 1 \in j .. n /\ i + 1 # j)
          BY <1>0, <3>2
        <4>2. g[i] = f[i] /\ (i # n => g[i + 1] = f[i + 1])
          BY <3>2, <4>1
        <4>3. f[i] = IF i = n THEN B ELSE D(i, f[i + 1])
          BY <2>1, <4>1
        <4> QED
          BY <4>2, <4>3
      <3> QED
        BY <3>1, <3>2
    <2>3. Is(g, k + 1)
      BY <2>2
    <2> HIDE DEF g, Is
    <2> QED
      BY <2>3
  <1>3. Nat \subseteq T
    <2> HIDE DEF T
    <2> QED
      BY <1>1, <1>2, SetInduction
  <1>4. n - m = 1
    BY <1>0 DEF n
  <1>5. PICK f : Is(f, m)
    BY <1>0, <1>3
  <1>6. f = [i \in 1 .. n |-> IF i = n THEN B ELSE D(i, f[i + 1])]
    BY <1>4, <1>5
  <1>7. f = [i \in 1 .. Len(pk) + 1 |->
               IF i = Len(pk) + 1 THEN plain
               ELSE IF ~ f[i + 1].ok THEN f[i + 1]
               ELSE add_encryption_layer(f[i + 1].payload, pk[i])]
    BY <1>6, Zenon DEF D, B, n, m
  <1> QED
    BY <1>7, Zenon DEF encryption_layers

(* The payload under the layers of the keys from i on. *)
Plain(msg, size) == Bytes([kind |-> "payload", message |-> msg], size)

Under(msg, pk, size) ==
  encryption_layers([ok |-> TRUE, payload |-> Plain(msg, size)], pk)

IsUnder(U, pk, n, msg, size) ==
  /\ \A i \in 1 .. n + 1 :
       /\ U[i] = [ok |-> TRUE, payload |-> U[i].payload]
       /\ IsBlob(U[i].payload) /\ U[i].payload.len = size
  /\ U[n + 1].payload = Plain(msg, size)
  /\ \A i \in 1 .. n : U[i].payload = Cipher("enc", pk[i], "lioness", U[i + 1].payload)

LEMMA UnderLayers ==
  ASSUME NEW pk, Len(pk) \in Nat, NEW msg, NEW size \in Nat, size > 32
  PROVE  IsUnder(Under(msg, pk, size), pk, Len(pk), msg, size)
  <1> DEFINE n == Len(pk)
             U == Under(msg, pk, size)
             Good(i) == /\ U[i] = [ok |-> TRUE, payload |-> U[i].payload]
                        /\ IsBlob(U[i].payload) /\ U[i].payload.len = size
             T == {i \in 1 .. n + 1 : Good(i)}
             B == Plain(msg, size)
             plain == [ok |-> TRUE, payload |-> B]
  <1>1. \A i \in 1 .. n + 1 : U[i] = IF i = n + 1 THEN plain
                                     ELSE IF ~ U[i + 1].ok THEN U[i + 1]
                                     ELSE add_encryption_layer(U[i + 1].payload, pk[i])
    <2>1. U = [i \in 1 .. n + 1 |->
                IF i = n + 1 THEN plain
                ELSE IF ~ U[i + 1].ok THEN U[i + 1]
                ELSE add_encryption_layer(U[i + 1].payload, pk[i])]
      <3>1. U = encryption_layers(plain, pk)
        BY DEF Under
      <3> HIDE DEF plain, U
      <3> QED
        BY <3>1, EncryptionRecurs
    <2> HIDE DEF U, plain
    <2> QED
      BY <2>1
  <1>2. IsBlob(B) /\ B.len = size
    BY BytesIsBlob DEF Plain
  <1> HIDE DEF U, B
  <1>3. n + 1 \in T /\ U[n + 1].payload = B
    <2> DEFINE x == U[n + 1]
    <2>0. n + 1 \in 1 .. n + 1
      OBVIOUS
    <2>1. x = [ok |-> TRUE, payload |-> B]
      <3> HIDE DEF n
      <3> QED
        BY <1>1, <2>0
    <2> HIDE DEF x
    <2>2. x.payload = B /\ x = [ok |-> TRUE, payload |-> x.payload]
      BY <2>1
    <2> QED
      BY <1>2, <2>0, <2>2 DEF x
  <1>4. ASSUME NEW i \in 1 .. n, i + 1 \in T
        PROVE  i \in T /\ U[i].payload = Cipher("enc", pk[i], "lioness", U[i + 1].payload)
    <2> DEFINE x == U[i]
               y == U[i + 1].payload
               c == Cipher("enc", pk[i], "lioness", y)
    <2>1. IsBlob(y) /\ y.len = size /\ U[i + 1].ok
      <3>1. U[i + 1] = [ok |-> TRUE, payload |-> y]
        BY <1>4
      <3>2. U[i + 1].ok = TRUE
        <4> HIDE DEF y
        <4> QED
          BY <3>1
      <3> QED
        BY <1>4, <3>2
    <2>2. x = add_encryption_layer(y, pk[i])
      <3>1. i \in 1 .. n + 1 /\ i # n + 1
        OBVIOUS
      <3> HIDE DEF n
      <3> QED
        BY <1>1, <2>1, <3>1
    <2> HIDE DEF x, y
    <2>3. x = [ok |-> TRUE, payload |-> c]
      BY <2>1, <2>2 DEF add_encryption_layer, Lioness
    <2>4. IsBlob(c) /\ c.len = size
      BY <2>1, CipherKeeps
    <2> HIDE DEF c
    <2>5. x.payload = c /\ x = [ok |-> TRUE, payload |-> x.payload]
      BY <2>3
    <2>6. i \in 1 .. n + 1
      OBVIOUS
    <2> QED
      BY <2>4, <2>5, <2>6 DEF x, y, c
  <1>5. 1 .. n + 1 \subseteq T
    <2> HIDE DEF T
    <2>1. 1 \in Int /\ n + 1 \in Int /\ 1 .. (n + 1) - 1 = 1 .. n
      OBVIOUS
    <2> HIDE DEF n
    <2> QED
      BY <1>3, <1>4, <2>1, DownFrom
  <1>6. \A i \in 1 .. n : U[i].payload = Cipher("enc", pk[i], "lioness", U[i + 1].payload)
    <2> TAKE i \in 1 .. n
    <2>1. i + 1 \in 1 .. n + 1
      OBVIOUS
    <2> HIDE DEF T, n
    <2> QED
      BY <1>4, <1>5, <2>1
  <1> QED
    BY <1>3, <1>5, <1>6 DEF U, B, IsUnder

(* A payload of 32 bytes passes the checks and cannot be encrypted.        *)
LEMMA NoLayerOnShort ==
  ASSUME NEW pk, Len(pk) \in Nat \ {0}, NEW msg, NEW size \in Nat, size <= 32
  PROVE  Under(msg, pk, size)[1] = Err("InvalidPayload")
  <1> DEFINE n == Len(pk)
             U == Under(msg, pk, size)
             E == Err("InvalidPayload")
             T == {i \in 1 .. n : U[i] = E}
             plain == [ok |-> TRUE, payload |-> Plain(msg, size)]
  <1>1. \A i \in 1 .. n + 1 : U[i] = IF i = n + 1 THEN plain
                                     ELSE IF ~ U[i + 1].ok THEN U[i + 1]
                                     ELSE add_encryption_layer(U[i + 1].payload, pk[i])
    <2>1. U = [i \in 1 .. n + 1 |->
                IF i = n + 1 THEN plain
                ELSE IF ~ U[i + 1].ok THEN U[i + 1]
                ELSE add_encryption_layer(U[i + 1].payload, pk[i])]
      <3>1. U = encryption_layers(plain, pk)
        BY DEF Under
      <3> HIDE DEF plain, U
      <3> QED
        BY <3>1, EncryptionRecurs
    <2> HIDE DEF U, plain
    <2> QED
      BY <2>1
  <1> HIDE DEF U
  <1>2. n \in T
    <2> DEFINE x == U[n + 1]
               b == Plain(msg, size)
    <2>1. n \in 1 .. n + 1 /\ n # n + 1 /\ n + 1 \in 1 .. n + 1 /\ n \in 1 .. n
      OBVIOUS
    <2>2. x = [ok |-> TRUE, payload |-> b]
      BY <1>1, <2>1
    <2>3. b.len = size
      BY DEF Plain, Bytes
    <2>4. U[n] = IF ~ x.ok THEN x ELSE add_encryption_layer(x.payload, pk[n])
      BY <1>1, <2>1
    <2> HIDE DEF x, b, n
    <2>5. x.ok = TRUE /\ x.payload = b
      BY <2>2
    <2>6. add_encryption_layer(b, pk[n]) = E
      BY <2>3 DEF add_encryption_layer, Lioness
    <2> QED
      BY <2>1, <2>4, <2>5, <2>6
  <1>3. ASSUME NEW i \in 1 .. n - 1, i + 1 \in T PROVE i \in T
    <2>1. i \in 1 .. n + 1 /\ i # n + 1 /\ i \in 1 .. n
      OBVIOUS
    <2>2. ~ U[i + 1].ok /\ U[i + 1] = E
      BY <1>3 DEF Err
    <2> QED
      BY <1>1, <2>1, <2>2
  <1>4. 1 .. n \subseteq T
    <2> HIDE DEF T
    <2>1. 1 \in Int /\ n \in Int
      OBVIOUS
    <2> QED
      BY <1>2, <1>3, <2>1, DownFrom
  <1> QED
    BY <1>4 DEF U

LEMMA Encapsulated ==
  ASSUME NEW pk, Len(pk) \in Nat \ {0}, NEW msg, msg.len \in Nat, NEW size \in Nat
  PROVE  encapsulate_message(msg, pk, size)
           = IF size > 32 /\ msg.len + 17 <= size
             THEN [ok |-> TRUE, payload |-> Under(msg, pk, size)[1].payload]
             ELSE Err("InvalidPayload")
  <1> DEFINE U == Under(msg, pk, size)
             c == encapsulate_message(msg, pk, size)
  <1>1. c = IF ~ Payload!validate_parameters(size, msg.len) THEN Err("InvalidPayload") ELSE U[1]
    BY DEF encapsulate_message, Under, Plain
  <1>2. Payload!validate_parameters(size, msg.len) <=> size >= 32 /\ msg.len + 17 <= size
    BY DEF Payload!validate_parameters, Payload!PAYLOAD_OVERHEAD_SIZE
  <1> HIDE DEF c
  <1>3. CASE size > 32
    <2>1. IsUnder(U, pk, Len(pk), msg, size)
      BY <1>3, UnderLayers
    <2>2. U[1] = [ok |-> TRUE, payload |-> U[1].payload]
      <3>1. 1 \in 1 .. Len(pk) + 1
        OBVIOUS
      <3> HIDE DEF U
      <3> QED
        BY <2>1, <3>1 DEF IsUnder
    <2> HIDE DEF U
    <2> QED
      BY <1>1, <1>2, <1>3, <2>2 DEF U, c
  <1>4. CASE ~ size > 32
    <2>1. U[1] = Err("InvalidPayload")
      BY <1>4, NoLayerOnShort
    <2> HIDE DEF U
    <2> QED
      BY <1>1, <1>2, <1>4, <2>1 DEF c
  <1> QED
    BY <1>3, <1>4

-----------------------------------------------------------------------------
(* A node and a packet. *)

(* What node h of the route makes of a packet with payload p. *)
LeftAt(r, d, ds, s, coins, h, p) ==
  LET new_payload == Cipher("dec", routing_keys(r, s)[h].payload_key, "lioness", p) IN
  IF h = Len(r)
  THEN [ok |-> TRUE, hop |-> "FinalHop", destination |-> d.address,
        identifier |-> d.identifier, payload |-> new_payload]
  ELSE [ok |-> TRUE, hop |-> "ForwardHop",
        packet |-> [header |-> HeaderFor(r, d, ds, s, coins, h + 1), payload |-> new_payload],
        address |-> r[h + 1].address, delay |-> ds[h]]

Leaves(unwrapped, r, d, ds, s, coins, h, blinded, p) ==
  /\ unwrapped # Err("InvalidRouting")
  /\ ProcessedPacket(unwrapped, p)
       = IF h # Len(r) /\ blinded = None THEN Err("InvalidHeader")
         ELSE IF p.len <= 32 THEN Err("InvalidPayload")
         ELSE LeftAt(r, d, ds, s, coins, h, p)

(* An error is no success, and has its kind. *)
LEMMA ErrIs ==
  ASSUME NEW kind
  PROVE  /\ Err(kind).ok = FALSE /\ Err(kind).err = kind
         /\ \A x : x.ok = TRUE => x # Err(kind)
  BY DEF Err

LEMMA PacketOpens ==
  ASSUME NEW r, NEW ds, IsRoute(r, ds), NEW d, NEW s, NEW coins, NEW h \in 1 .. Len(r),
         NEW blinded, MayHave(blinded, r, s, h),
         NEW p, p.len \in Nat
  PROVE  Leaves(ProcessedHeader(HeaderFor(r, d, ds, s, coins, h), blinded,
                                routing_keys(r, s)[h]),
                r, d, ds, s, coins, h, blinded, p)
  <1> DEFINE u == ProcessedHeader(HeaderFor(r, d, ds, s, coins, h), blinded, routing_keys(r, s)[h])
             k == routing_keys(r, s)[h].payload_key
             g == HandedOn(r, d, ds, s, coins, h)
             c == Cipher("dec", k, "lioness", p)
             last == h = Len(r)
  <1>1. u = IF ~ last /\ blinded = None THEN Err("InvalidHeader") ELSE g
    <2>1. Opens(u, r, d, ds, s, coins, h, blinded)
      BY HeaderOpens
    <2> QED
      BY <2>1 DEF Opens
  <1>2. /\ last => g = [ok |-> TRUE, hop |-> "FinalHop", destination |-> d.address,
                           identifier |-> d.identifier, payload_key |-> k]
        /\ ~ last => g = [ok |-> TRUE, hop |-> "ForwardHop",
                           header |-> HeaderFor(r, d, ds, s, coins, h + 1),
                           address |-> r[h + 1].address, delay |-> ds[h], payload_key |-> k]
    BY DEF HandedOn
  <1>3. LeftAt(r, d, ds, s, coins, h, p)
          = IF last
            THEN [ok |-> TRUE, hop |-> "FinalHop", destination |-> d.address,
                  identifier |-> d.identifier, payload |-> c]
            ELSE [ok |-> TRUE, hop |-> "ForwardHop",
                  packet |-> [header |-> HeaderFor(r, d, ds, s, coins, h + 1), payload |-> c],
                  address |-> r[h + 1].address, delay |-> ds[h]]
    BY DEF LeftAt
  <1> HIDE DEF u, g
  <1>4. g.ok = TRUE /\ g.payload_key = k
    <2> HIDE DEF k, last
    <2> QED
      BY <1>2
  <1>5. u # Err("InvalidRouting")
    <2>1. CASE u = Err("InvalidHeader")
      BY <2>1, ErrIs
    <2>2. CASE u = g
      BY <1>4, <2>2, ErrIs
    <2> QED
      BY <1>1, <2>1, <2>2
  <1>6. CASE ~ last /\ blinded = None
    BY <1>1, <1>5, <1>6 DEF ProcessedPacket, u, Err, Leaves
  <1>7. CASE ~ (~ last /\ blinded = None)
    <2>1. u = g
      BY <1>1, <1>7
    <2> DEFINE w == unwrap_payload(p, u.payload_key)
    <2>2. w = IF p.len <= 32 THEN Err("InvalidPayload") ELSE [ok |-> TRUE, payload |-> c]
      <3> HIDE DEF k
      <3> QED
        BY <1>4, <2>1 DEF unwrap_payload, Lioness
    <2> HIDE DEF c, k
    <2>3. CASE p.len <= 32
      <3>1. ~ w.ok
        BY <2>2, <2>3, ErrIs
      <3> QED
        BY <1>4, <1>5, <1>7, <2>1, <2>2, <2>3, <3>1 DEF ProcessedPacket, u, Leaves
    <2>4. CASE ~ p.len <= 32
      <3>1. w.ok = TRUE /\ w.payload = c
        BY <2>2, <2>4
      <3> HIDE DEF w
      <3>2. ProcessedPacket(u, p) =
              IF u.hop = "ForwardHop"
              THEN [ok |-> TRUE, hop |-> "ForwardHop",
                    packet |-> [header |-> u.header, payload |-> c],
                    address |-> u.address, delay |-> u.delay]
              ELSE [ok |-> TRUE, hop |-> "FinalHop", destination |-> u.destination,
                    identifier |-> u.identifier, payload |-> c]
        BY <1>4, <2>1, <3>1 DEF ProcessedPacket, w
      <3>3. CASE last
        <4>1. u.hop = "FinalHop" /\ u.destination = d.address /\ u.identifier = d.identifier
          <5> HIDE DEF last
          <5> QED
            BY <1>2, <2>1, <3>3
        <4>2. ProcessedPacket(u, p) = [ok |-> TRUE, hop |-> "FinalHop", destination |-> d.address,
                                       identifier |-> d.identifier, payload |-> c]
          BY <3>2, <4>1
        <4> HIDE DEF last
        <4> QED
          BY <1>3, <1>5, <1>7, <2>4, <3>3, <4>2, Zenon DEF u, last, Leaves
      <3>4. CASE ~ last
        <4> DEFINE hd == HeaderFor(r, d, ds, s, coins, h + 1)
        <4>1. u.hop = "ForwardHop" /\ u.header = hd /\ u.address = r[h + 1].address
              /\ u.delay = ds[h]
          <5> HIDE DEF last, hd
          <5>1. g = [ok |-> TRUE, hop |-> "ForwardHop", header |-> hd,
                           address |-> r[h + 1].address, delay |-> ds[h], payload_key |-> k]
            BY <1>2, <3>4 DEF hd
          <5> QED
            BY <2>1, <5>1
        <4>2. ProcessedPacket(u, p) = [ok |-> TRUE, hop |-> "ForwardHop",
                    packet |-> [header |-> hd, payload |-> c],
                    address |-> r[h + 1].address, delay |-> ds[h]]
          BY <3>2, <4>1
        <4> QED
          BY <1>3, <1>5, <1>7, <2>4, <3>4, <4>2 DEF u, Leaves
      <3> QED
        BY <3>3, <3>4
    <2> QED
      BY <2>3, <2>4
  <1> QED
    BY <1>6, <1>7

(* A header whose MAC does not match is refused before anything is read.   *)
LEMMA BadMacRefused ==
  ASSUME NEW hdr, NEW blinded, NEW keys, NEW p,
         ~ verify(hdr.routing_info.integrity_mac, keys.header_integrity_hmac_key,
                  hdr.routing_info.slots)
  PROVE  /\ ProcessedHeader(hdr, blinded, keys) = Err("InvalidHeader")
         /\ process_header_with_derived_keys(hdr, blinded, keys) = Err("InvalidHeader")
         /\ ProcessedPacket(Err("InvalidHeader"), p) = Err("InvalidHeader")
  <1>1. ProcessedHeader(hdr, blinded, keys) = Err("InvalidHeader")
    BY DEF ProcessedHeader
  <1>2. Err("InvalidHeader") # Err("InvalidRouting")
    BY ErrIs
  <1>3. process_header_with_derived_keys(hdr, blinded, keys) = Err("InvalidHeader")
    BY <1>1, <1>2 DEF process_header_with_derived_keys
  <1>4. ProcessedPacket(Err("InvalidHeader"), p) = Err("InvalidHeader")
    BY ErrIs DEF ProcessedPacket
  <1> QED
    BY <1>1, <1>3, <1>4

-----------------------------------------------------------------------------
(* What the network can do to a header. *)

junk_exponent == [secret |-> <<"junk", 0>>]
junk_piece    == [key |-> [stream |-> {}], place |-> 0]

(* No secret of a route has the exponent that the network puts in.         *)
LEMMA NoJunkInSecrets ==
  ASSUME NEW r, Len(r) \in Nat, NEW s, junk_exponent \notin s, NEW h \in 1 .. Len(r)
  PROVE  junk_exponent \notin accumulators(r, s)[h]
  <1> DEFINE n == Len(r)
             A == accumulators(r, s)
             T == {i \in 1 .. n : junk_exponent \notin A[i]}
  <1>1. \A i \in 1 .. n :
          A[i] = IF i = 1 THEN s
                 ELSE A[i - 1] \cup derive(diffie_hellman(A[i - 1], r[i - 1].pub_key)).blinding_factor
    <2>1. A = [i \in 1 .. n |->
                IF i = 1 THEN s
                ELSE A[i - 1] \cup derive(diffie_hellman(A[i - 1], r[i - 1].pub_key)).blinding_factor]
      BY AccumulatorsRecur
    <2> HIDE DEF A
    <2> QED
      BY <2>1
  <1>2. \A x : junk_exponent \notin derive(x).blinding_factor
    <2> TAKE x
    <2>1. derive(x).blinding_factor = {[blinds |-> x]}
      BY DEF derive
    <2>2. DOMAIN [blinds |-> x] = {"blinds"} /\ DOMAIN junk_exponent = {"secret"}
      BY DEF junk_exponent
    <2>3. [blinds |-> x] # junk_exponent
      <3>1. "blinds" # "secret"
        OBVIOUS
      <3> QED
        BY <2>2, <3>1
    <2> QED
      BY <2>1, <2>3
  <1> HIDE DEF A
  <1>3. 1 \in T
    <2>1. 1 \in 1 .. n
      OBVIOUS
    <2> HIDE DEF n
    <2> QED
      BY <1>1, <2>1
  <1>4. ASSUME NEW i \in 1 .. n - 1, i \in T PROVE i + 1 \in T
    <2>1. i + 1 \in 1 .. n /\ i + 1 # 1 /\ (i + 1) - 1 = i
      OBVIOUS
    <2>2. A[i + 1] = A[i] \cup derive(diffie_hellman(A[i], r[i].pub_key)).blinding_factor
      BY <1>1, <2>1
    <2> QED
      BY <1>2, <1>4, <2>1, <2>2
  <1>5. 1 .. n \subseteq T
    <2> HIDE DEF T
    <2>1. 1 \in Int /\ n \in Int
      OBVIOUS
    <2> QED
      BY <1>3, <1>4, <2>1, UpFrom
  <1> QED
    BY <1>5 DEF A

Clean(s) == \A p \in s.pads : p.place # 0

LEMMA XoredClean ==
  ASSUME NEW s, Clean(s), NEW key, NEW j, j # 0
  PROVE  Clean(Xored(s, Piece(key, j)))
  <1>1. Xored(s, Piece(key, j)).pads = SymDiff(s.pads, Piece(key, j))
    BY XoredIsSlot
  <1>2. \A p \in SymDiff(s.pads, Piece(key, j)) : p \in s.pads \/ p = [key |-> key, place |-> j]
    BY DEF SymDiff, Piece
  <1> QED
    BY <1>1, <1>2 DEF Clean

(* Nothing is xored with a piece of keystream that has no place.           *)
LEMMA LayersClean ==
  ASSUME NEW r, NEW ds, IsRoute(r, ds), NEW keys, IsKeyList(keys, Len(r)), NEW d, NEW coins,
         NEW h \in 1 .. Len(r), NEW j \in 1 .. MAX_PATH_LENGTH
  PROVE  Clean(LayersOf(r, d, ds, keys, coins)[h].slots[j])
  <1> DEFINE M == MAX_PATH_LENGTH
             n == Len(r)
             fk == Front(keys)
             F == Fillers(fk)
             L == LayersOf(r, d, ds, keys, coins)
             FT == {i \in 0 .. n - 1 : \A q \in 1 .. i : Clean(F[i][q])}
             T == {i \in 1 .. n : \A q \in 1 .. M : Clean(L[i].slots[q])}
  <1>1. M \in Nat \ {0} /\ n \in 1 .. M /\ n \in Nat \ {0} /\ n - 1 \in 0 .. M
    BY MaxPathAssumption DEF IsRoute
  <1>2. fk = [i \in 1 .. n - 1 |-> keys[i]] /\ Len(fk) = n - 1
    BY <1>1, FrontOfKeys
  <1>3. AreFillers(F, fk, n - 1)
    <2> HIDE DEF fk, n
    <2> QED
      BY <1>1, <1>2, FillersShape
  <1>4. AreLayers(L, r, d, ds, keys, coins)
    BY LayersShape
  <1>5. \A b : Clean(Slot(b)) /\ Clean(zero_slot)
    BY DEF Clean, Slot, zero_slot
  <1> HIDE DEF F, L, fk
  <1>6. 0 .. n - 1 \subseteq FT
    <2>1. 0 \in FT
      BY <1>1
    <2>2. ASSUME NEW i \in 0 .. (n - 1) - 1, i \in FT PROVE i + 1 \in FT
      <3> DEFINE f == F[i + 1]
                 g == F[i]
                 k == fk[i + 1].stream_cipher_key
      <3>1. i + 1 \in 1 .. n - 1 /\ (i + 1) - 1 = i /\ i + 1 \in 0 .. n - 1 /\ i + 1 <= M
        BY <1>1
      <3>2. IsStep(f, g, k, i + 1)
        BY <1>3, <3>1 DEF AreFillers
      <3>3. \A q \in 1 .. i : Clean(g[q])
        BY <2>2
      <3> HIDE DEF f, g, k
      <3>4. ASSUME NEW q \in 1 .. i + 1 PROVE Clean(f[q])
        <4> DEFINE b == IF q = i + 1 THEN zero_slot ELSE g[q]
                   pl == M + 1 - (i + 1) + q
        <4>1. Clean(b)
          <5>1. q # i + 1 => q \in 1 .. i
            OBVIOUS
          <5> QED
            BY <1>5, <3>3, <5>1
        <4>2. pl # 0
          BY <1>1, <3>1
        <4>3. f[q] = Xored(b, Piece(k, pl))
          BY <3>2 DEF IsStep
        <4> HIDE DEF b, pl
        <4> QED
          BY <4>1, <4>2, <4>3, XoredClean
      <3> QED
        BY <3>1, <3>4 DEF f
    <2> HIDE DEF FT
    <2>3. 0 \in Int /\ n - 1 \in Int
      BY <1>1
    <2> QED
      BY <2>1, <2>2, <2>3, UpFrom
  <1>7. n \in T
    <2> DEFINE x == L[n]
               k == keys[n].stream_cipher_key
               f == F[n - 1]
    <2>1. IsInnermost(x, d, coins, keys[n], n) /\ EndsIn(x, f, n - 1)
      BY <1>1, <1>4 DEF AreLayers, L, F, fk
    <2>2. \A q \in 1 .. n - 1 : Clean(f[q])
      BY <1>1, <1>6
    <2> HIDE DEF x, f, n
    <2>3. ASSUME NEW q \in 1 .. M PROVE Clean(x.slots[q])
      <3>1. CASE q = 1
        BY <1>5, <2>1, <3>1, XoredClean DEF IsInnermost, LastSlot
      <3>2. CASE q # 1 /\ q <= M - (n - 1)
        <4>1. q \in 2 .. M - (n - 1) /\ q # 0
          BY <1>1, <3>2
        <4> DEFINE b == Slot([kind |-> "padding", coin |-> coins, place |-> q])
        <4>2. x.slots[q] = Xored(b, Piece(k, q))
          BY <2>1, <4>1 DEF IsInnermost
        <4>3. Clean(b)
          BY <1>5
        <4> HIDE DEF b, k
        <4> QED
          BY <4>1, <4>2, <4>3, XoredClean
      <3>3. CASE ~ q <= M - (n - 1)
        <4> DEFINE e == q - (M - (n - 1))
        <4>1. e \in 1 .. n - 1 /\ M - (n - 1) + e = q
          BY <1>1, <3>3
        <4> HIDE DEF e
        <4>2. x.slots[q] = f[e]
          BY <2>1, <4>1 DEF EndsIn
        <4> QED
          BY <2>2, <4>1, <4>2
      <3> QED
        BY <3>1, <3>2, <3>3
    <2> QED
      BY <1>1, <2>3 DEF x
  <1>8. ASSUME NEW i \in 1 .. n - 1, i + 1 \in T PROVE i \in T
    <2> DEFINE x     == L[i]
               inner == L[i + 1]
               first == HopSlot(r, ds, i, inner)
               k     == keys[i]
    <2>1. IsAround(x, first, inner, k)
      BY <1>4 DEF AreLayers, L
    <2>2. \A q \in 1 .. M : Clean(inner.slots[q])
      BY <1>8
    <2>3. Clean(first)
      BY <1>5 DEF HopSlot
    <2> HIDE DEF x, inner, first, k
    <2>4. ASSUME NEW q \in 1 .. M PROVE Clean(x.slots[q])
      <3> DEFINE b == IF q = 1 THEN first ELSE inner.slots[q - 1]
      <3>1. Clean(b)
        <4>1. q # 1 => q - 1 \in 1 .. M
          BY <1>1
        <4> QED
          BY <2>2, <2>3, <4>1
      <3>2. x.slots[q] = Xored(b, Piece(k.stream_cipher_key, q)) /\ q # 0
        BY <1>1, <2>1 DEF IsAround, SlotAround
      <3> HIDE DEF b
      <3> QED
        BY <3>1, <3>2, XoredClean
    <2>5. i \in 1 .. n
      BY <1>1
    <2> QED
      BY <2>4, <2>5 DEF x
  <1>9. 1 .. n \subseteq T
    <2> HIDE DEF T, n
    <2>1. 1 \in Int /\ n \in Int
      BY <1>1
    <2> QED
      BY <1>7, <1>8, <2>1, DownFrom
  <1> QED
    BY <1>9 DEF L

-----------------------------------------------------------------------------
(* A job of SphinxJourney: its route, and the packet as it should be.      *)

JobType ==
  [surb : BOOLEAN, n : Lengths, fork : 2 .. MAX_PATH_LENGTH + 2, delays : Lengths,
   message : MessageLengths, size : PayloadSizes]

NameOf(j, i)   == <<IF i < j.fork THEN "a" ELSE "b", i>>
RouteOf(j)     == [i \in 1 .. j.n |-> Node(NameOf(j, i))]
DelaysOf(j, k) == [i \in 1 .. j.delays |-> <<k, i>>]
DestOf(k)      == [address |-> "destination", identifier |-> k]
MessageOf(j, k) == [packet |-> k, len |-> j.message]

Routable(j) == j.n \in 1 .. MAX_PATH_LENGTH /\ j.delays = j.n
Fits(j)     == j.size > 32 /\ j.message + 17 <= j.size

HeaderAt(j, k, h) ==
  HeaderFor(RouteOf(j), DestOf(k), DelaysOf(j, k), initial_secret, <<"coins", k>>, h)

KeysAt(j, h) == routing_keys(RouteOf(j), initial_secret)[h]
SecretAt(j, h) == accumulators(RouteOf(j), initial_secret)[h]

(* The payload keys of the first w nodes, and the payload under them. *)
PayloadKeys(j, w) == [i \in 1 .. w |-> KeysAt(j, i).payload_key]
UnderKeys(j, k, w) == Under(MessageOf(j, k), PayloadKeys(j, w), j.size)

LEMMA StateOfJob ==
  /\ route = RouteOf(job) /\ delays = DelaysOf(job, sent) /\ dest = DestOf(sent)
  /\ message = MessageOf(job, sent)
  /\ Valid <=> Routable(job) /\ Fits(job)
  BY DEF route, delays, dest, message, RouteOf, NameOf, DelaysOf, DestOf, MessageOf, Valid,
         Routable, Fits

(* Any list has the length of its domain. *)
LEMMA LenOfList ==
  ASSUME NEW n \in Nat, NEW s, s = [i \in 1 .. n |-> s[i]]
  PROVE  Len(s) = n
  <1> DEFINE S == {s[i] : i \in 1 .. n}
  <1>1. \A i \in 1 .. n : s[i] \in S
    OBVIOUS
  <1> HIDE DEF S
  <1> QED
    BY <1>1, ListIsSeq

IsJobRoute(j, k) ==
  /\ Len(RouteOf(j)) = j.n /\ Len(DelaysOf(j, k)) = j.delays
  /\ j.n \in Nat /\ j.delays \in Nat
  /\ Routable(j) <=> IsRoute(RouteOf(j), DelaysOf(j, k))

LEMMA RouteOfJob ==
  ASSUME NEW j \in JobType, NEW k
  PROVE  IsJobRoute(j, k)
  <1> DEFINE r == RouteOf(j)
             ds == DelaysOf(j, k)
  <1>1. j.n \in Nat /\ j.delays \in Nat
    BY MaxPathAssumption DEF JobType, Lengths
  <1>2. r = [i \in 1 .. j.n |-> r[i]] /\ ds = [i \in 1 .. j.delays |-> ds[i]]
    BY DEF RouteOf, DelaysOf
  <1> HIDE DEF r, ds
  <1>3. Len(r) = j.n
    BY <1>1, <1>2, LenOfList
  <1>4. Len(ds) = j.delays
    BY <1>1, <1>2, LenOfList
  <1>5. Routable(j) <=> IsRoute(r, ds)
    BY <1>1, <1>3, <1>4 DEF Routable, IsRoute
  <1> QED
    BY <1>1, <1>3, <1>4, <1>5 DEF r, ds, IsJobRoute

LEMMA NodeOfJob ==
  ASSUME NEW j \in JobType, NEW h \in 1 .. j.n
  PROVE  /\ RouteOf(j)[h].address = NameOf(j, h)
         /\ RouteOf(j)[h].pub_key = PrivateKey(NameOf(j, h))
         /\ NameOf(j, h) \in Nodes
  <1>1. RouteOf(j)[h] = Node(NameOf(j, h))
    BY DEF RouteOf
  <1>2. Node(NameOf(j, h)).address = NameOf(j, h)
        /\ Node(NameOf(j, h)).pub_key = PrivateKey(NameOf(j, h))
    BY DEF Node
  <1>3. NameOf(j, h) \in Nodes
    <2>1. h \in 1 .. MAX_PATH_LENGTH + 1
      BY MaxPathAssumption DEF JobType, Lengths
    <2> QED
      BY <2>1 DEF NameOf, Nodes, Lines
  <1> QED
    BY <1>1, <1>2, <1>3

(* The keys that a node of the route derives. *)
LEMMA NodeKeys ==
  ASSUME NEW j \in JobType, NEW h \in 1 .. j.n
  PROVE  /\ compute_routing_keys(SecretAt(j, h), PrivateKey(NameOf(j, h))) = KeysAt(j, h)
         /\ KeysAt(j, h) = derive(SecretAt(j, h) \cup PrivateKey(NameOf(j, h)))
  <1> DEFINE r == RouteOf(j)
  <1>1. Len(r) \in Nat /\ Len(r) = j.n
    BY RouteOfJob DEF IsJobRoute
  <1>2. r[h].pub_key = PrivateKey(NameOf(j, h))
    BY NodeOfJob
  <1> HIDE DEF r
  <1>3. /\ compute_routing_keys(accumulators(r, initial_secret)[h], r[h].pub_key)
             = routing_keys(r, initial_secret)[h]
        /\ routing_keys(r, initial_secret)[h]
             = derive(accumulators(r, initial_secret)[h] \cup r[h].pub_key)
    BY <1>1, KeysAgree
  <1> QED
    BY <1>2, <1>3 DEF r, KeysAt, SecretAt

LEMMA PayloadKeysLen ==
  ASSUME NEW j, NEW w \in Nat
  PROVE  Len(PayloadKeys(j, w)) = w
  <1> DEFINE p == PayloadKeys(j, w)
  <1>1. p = [i \in 1 .. w |-> p[i]]
    BY DEF PayloadKeys
  <1> HIDE DEF p
  <1> QED
    BY <1>1, LenOfList DEF p

(* What the sender's calls return. *)
Header1(j, k) == [ok |-> TRUE, header |-> HeaderAt(j, k, 1), payload_keys |-> PayloadKeys(j, j.n)]

NewHeaderIs(x, j, k) == x = IF Routable(j) THEN Header1(j, k) ELSE Err("panic")

LEMMA HeaderOfJob ==
  ASSUME NEW j \in JobType, NEW k
  PROVE  NewHeaderIs(new_header(initial_secret, RouteOf(j), DelaysOf(j, k), DestOf(k),
                                <<"coins", k>>), j, k)
  <1> DEFINE r == RouteOf(j)
             ds == DelaysOf(j, k)
             d == DestOf(k)
             c == <<"coins", k>>
             x == new_header(initial_secret, r, ds, d, c)
  <1>1. Len(r) \in Nat /\ Len(ds) \in Nat /\ Len(r) = j.n
        /\ (Routable(j) <=> IsRoute(r, ds))
    BY RouteOfJob DEF IsJobRoute
  <1> HIDE DEF r, ds, d, c
  <1>2. x = IF IsRoute(r, ds)
            THEN [ok |-> TRUE, header |-> HeaderFor(r, d, ds, initial_secret, c, 1),
                  payload_keys |-> [i \in 1 .. Len(r) |-> routing_keys(r, initial_secret)[i].payload_key]]
            ELSE Err("panic")
    BY <1>1, NewHeader
  <1> HIDE DEF x
  <1>3. HeaderAt(j, k, 1) = HeaderFor(r, d, ds, initial_secret, c, 1)
    BY DEF HeaderAt, r, ds, d, c
  <1>4. PayloadKeys(j, j.n) = [i \in 1 .. Len(r) |-> routing_keys(r, initial_secret)[i].payload_key]
    BY <1>1 DEF PayloadKeys, KeysAt, r
  <1>5. NewHeaderIs(x, j, k)
    BY <1>1, <1>2, <1>3, <1>4, Zenon DEF NewHeaderIs, Header1
  <1> QED
    BY <1>5 DEF x, r, ds, d, c

(* The payload for w whole keys, before it is sent. *)
FirstPayload(j, k, w) == UnderKeys(j, k, w)[1].payload

EncapsulatedIs(x, j, k, w) ==
  x = IF Fits(j) THEN [ok |-> TRUE, payload |-> FirstPayload(j, k, w)] ELSE Err("InvalidPayload")

LEMMA PayloadOfJob ==
  ASSUME NEW j \in JobType, NEW k, NEW w \in Nat \ {0}
  PROVE  EncapsulatedIs(encapsulate_message(MessageOf(j, k), PayloadKeys(j, w), j.size), j, k, w)
  <1> DEFINE m == MessageOf(j, k)
             pk == PayloadKeys(j, w)
             x == encapsulate_message(m, pk, j.size)
  <1>1. Len(pk) \in Nat \ {0}
    BY PayloadKeysLen
  <1>2. j.size \in Nat /\ j.message \in Nat
    BY JourneyAssumption DEF JobType
  <1>3. m.len = j.message
    BY DEF MessageOf
  <1> HIDE DEF m, pk
  <1>4. x = IF j.size > 32 /\ m.len + 17 <= j.size
            THEN [ok |-> TRUE, payload |-> Under(m, pk, j.size)[1].payload]
            ELSE Err("InvalidPayload")
    BY <1>1, <1>2, <1>3, Encapsulated
  <1> HIDE DEF x
  <1>5. FirstPayload(j, k, w) = Under(m, pk, j.size)[1].payload
    BY DEF FirstPayload, UnderKeys, m, pk
  <1>6. EncapsulatedIs(x, j, k, w)
    BY <1>3, <1>4, <1>5 DEF EncapsulatedIs, Fits
  <1> QED
    BY <1>6 DEF x, m, pk

FirstPacket(j, k, w) == [header |-> HeaderAt(j, k, 1), payload |-> FirstPayload(j, k, w)]

BuildIs(x, j, k) ==
  x = IF ~ Routable(j) THEN Err("panic")
      ELSE IF ~ Fits(j) THEN Err("InvalidPayload")
      ELSE [ok |-> TRUE, packet |-> FirstPacket(j, k, j.n)]

LEMMA BuildOfJob ==
  ASSUME job \in JobType
  PROVE  BuildIs(build, job, sent)
  <1> DEFINE j == job
             k == sent
             h == new_header(initial_secret, RouteOf(j), DelaysOf(j, k), DestOf(k), <<"coins", k>>)
             e == encapsulate_message(MessageOf(j, k), h.payload_keys, j.size)
  <1>1. build = IF ~ h.ok THEN h ELSE IF ~ e.ok THEN e
                ELSE [ok |-> TRUE, packet |-> [header |-> h.header, payload |-> e.payload]]
    BY StateOfJob DEF build, build_packet
  <1>2. NewHeaderIs(h, j, k)
    BY HeaderOfJob
  <1> HIDE DEF h
  <1>3. CASE ~ Routable(j)
    <2>1. h = Err("panic")
      BY <1>2, <1>3 DEF NewHeaderIs
    <2> QED
      BY <1>1, <1>3, <2>1, ErrIs DEF BuildIs
  <1>4. CASE Routable(j)
    <2> DEFINE hd == HeaderAt(j, k, 1)
               pk == PayloadKeys(j, j.n)
    <2>1. h = [ok |-> TRUE, header |-> hd, payload_keys |-> pk]
      BY <1>2, <1>4 DEF NewHeaderIs, Header1
    <2> HIDE DEF hd, pk
    <2>2. h.ok = TRUE /\ h.header = hd /\ h.payload_keys = pk
      BY <2>1
    <2>3. j.n \in Nat \ {0}
      BY <1>4, MaxPathAssumption DEF Routable
    <2>4. EncapsulatedIs(e, j, k, j.n)
      BY <2>2, <2>3, PayloadOfJob DEF pk
    <2> HIDE DEF e
    <2>5. CASE ~ Fits(j)
      <3>1. e = Err("InvalidPayload")
        BY <2>4, <2>5 DEF EncapsulatedIs
      <3> QED
        BY <1>1, <1>4, <2>2, <2>5, <3>1, ErrIs DEF BuildIs
    <2>6. CASE Fits(j)
      <3> DEFINE p == FirstPayload(j, k, j.n)
      <3>1. e = [ok |-> TRUE, payload |-> p]
        BY <2>4, <2>6 DEF EncapsulatedIs
      <3> HIDE DEF p
      <3>2. e.ok = TRUE /\ e.payload = p
        BY <3>1
      <3>3. build = [ok |-> TRUE, packet |-> [header |-> hd, payload |-> p]]
        BY <1>1, <2>2, <3>2
      <3> QED
        BY <1>4, <2>6, <3>3 DEF BuildIs, FirstPacket, hd, p
    <2> QED
      BY <2>5, <2>6
  <1> QED
    BY <1>3, <1>4

SurbOf(j, k, w) ==
  [SURB_header |-> HeaderAt(j, k, 1), first_hop_address |-> NameOf(j, 1),
   payload_keys |-> PayloadKeys(j, w)]

MadeIs(x, j, k) ==
  x = IF j.n = 0 \/ j.delays # j.n THEN Err("InvalidSURB")
      ELSE IF ~ Routable(j) THEN Err("panic")
      ELSE [ok |-> TRUE, surb |-> SurbOf(j, k, j.n)]

LEMMA MadeOfJob ==
  ASSUME job \in JobType
  PROVE  MadeIs(make_SURB, job, sent)
  <1> DEFINE j == job
             k == sent
             r == RouteOf(j)
             ds == DelaysOf(j, k)
             h == new_header(initial_secret, r, ds, DestOf(k), <<"coins", k>>)
  <1>1. make_SURB = IF Len(r) = 0 \/ Len(r) # Len(ds) THEN Err("InvalidSURB")
                    ELSE IF ~ h.ok THEN h
                    ELSE [ok |-> TRUE,
                          surb |-> [SURB_header |-> h.header, first_hop_address |-> r[1].address,
                                    payload_keys |-> h.payload_keys]]
    BY StateOfJob DEF make_SURB, new_SURB
  <1>2. NewHeaderIs(h, j, k)
    BY HeaderOfJob
  <1>3. Len(r) = j.n /\ Len(ds) = j.delays
    BY RouteOfJob DEF IsJobRoute
  <1> HIDE DEF h
  <1>4. CASE j.n = 0 \/ j.delays # j.n
    BY <1>1, <1>3, <1>4 DEF MadeIs
  <1>5. CASE ~ (j.n = 0 \/ j.delays # j.n) /\ ~ Routable(j)
    <2>1. h = Err("panic")
      BY <1>2, <1>5 DEF NewHeaderIs
    <2> QED
      BY <1>1, <1>3, <1>5, <2>1, ErrIs DEF MadeIs
  <1>6. CASE ~ (j.n = 0 \/ j.delays # j.n) /\ Routable(j)
    <2> DEFINE hd == HeaderAt(j, k, 1)
               pk == PayloadKeys(j, j.n)
    <2>1. h = [ok |-> TRUE, header |-> hd, payload_keys |-> pk]
      BY <1>2, <1>6 DEF NewHeaderIs, Header1
    <2> HIDE DEF hd, pk
    <2>2. h.ok = TRUE /\ h.header = hd /\ h.payload_keys = pk
      BY <2>1
    <2>3. r[1].address = NameOf(j, 1)
      <3>1. 1 \in 1 .. j.n
        BY <1>6 DEF Routable
      <3> QED
        BY <3>1, NodeOfJob
    <2>4. make_SURB = [ok |-> TRUE,
                       surb |-> [SURB_header |-> hd, first_hop_address |-> NameOf(j, 1),
                                 payload_keys |-> pk]]
      BY <1>1, <1>3, <1>6, <2>2, <2>3
    <2> QED
      BY <1>6, <2>4 DEF MadeIs, SurbOf, hd, pk
  <1> QED
    BY <1>4, <1>5, <1>6

(* A SURB of which w whole keys arrive. *)
ReadIs(x, j, k, w, ragged) ==
  x = IF w = 0 \/ ragged THEN Err("InvalidSURB") ELSE [ok |-> TRUE, surb |-> SurbOf(j, k, w)]

LEMMA ReadOfJob ==
  ASSUME NEW j \in JobType, NEW k, NEW w \in 0 .. j.n, NEW ragged \in BOOLEAN
  PROVE  ReadIs(surb_from_bytes(SurbOf(j, k, j.n), w, ragged), j, k, w, ragged)
  <1> DEFINE s == SurbOf(j, k, j.n)
             pk == PayloadKeys(j, j.n)
  <1>1. j.n \in Nat /\ w \in Nat
    BY RouteOfJob DEF IsJobRoute
  <1>2. SubSeq(pk, 1, w) = PayloadKeys(j, w)
    <2>1. pk = [i \in 1 .. j.n |-> pk[i]]
      BY DEF PayloadKeys
    <2>2. SubSeq(pk, 1, w) = [i \in 1 .. w |-> pk[i]]
      <3> HIDE DEF pk
      <3> QED
        BY <1>1, <2>1, FirstOfList
    <2>3. \A i \in 1 .. w : pk[i] = KeysAt(j, i).payload_key
      BY <1>1 DEF PayloadKeys
    <2> QED
      BY <2>2, <2>3 DEF PayloadKeys
  <1>3. [s EXCEPT !.payload_keys = SubSeq(@, 1, w)] = SurbOf(j, k, w)
    <2> DEFINE h == HeaderAt(j, k, 1)
               a == NameOf(j, 1)
               v == PayloadKeys(j, w)
    <2>1. s = [SURB_header |-> h, first_hop_address |-> a, payload_keys |-> pk]
      BY DEF SurbOf
    <2>2. SurbOf(j, k, w) = [SURB_header |-> h, first_hop_address |-> a, payload_keys |-> v]
      BY DEF SurbOf
    <2>3. SubSeq(pk, 1, w) = v
      BY <1>2
    <2> HIDE DEF h, a, v, pk, s
    <2>4. s.payload_keys = pk
      BY <2>1
    <2>5. [s EXCEPT !.payload_keys = SubSeq(s.payload_keys, 1, w)]
            = [SURB_header |-> h, first_hop_address |-> a, payload_keys |-> v]
      BY <2>1, <2>3, <2>4
    <2> QED
      BY <2>2, <2>5
  <1> QED
    BY <1>3 DEF surb_from_bytes, ReadIs

UsedIs(x, j, k, w) ==
  x = IF Fits(j) THEN [ok |-> TRUE, address |-> NameOf(j, 1), packet |-> FirstPacket(j, k, w)]
      ELSE Err("InvalidPayload")

LEMMA UsedOfJob ==
  ASSUME NEW j \in JobType, NEW k, NEW w \in Nat \ {0}
  PROVE  UsedIs(use_surb(SurbOf(j, k, w), MessageOf(j, k), j.size), j, k, w)
  <1> DEFINE s == SurbOf(j, k, w)
             h == HeaderAt(j, k, 1)
             a == NameOf(j, 1)
             pk == PayloadKeys(j, w)
             m == MessageOf(j, k)
             e == encapsulate_message(m, pk, j.size)
             x == use_surb(s, m, j.size)
             p == FirstPayload(j, k, w)
  <1>1. s = [SURB_header |-> h, first_hop_address |-> a, payload_keys |-> pk]
    BY DEF SurbOf
  <1>2. EncapsulatedIs(e, j, k, w)
    BY PayloadOfJob
  <1>3. FirstPacket(j, k, w) = [header |-> h, payload |-> p]
    BY DEF FirstPacket
  <1> HIDE DEF s, h, a, pk, m, p
  <1>4. s.SURB_header = h /\ s.first_hop_address = a /\ s.payload_keys = pk
    BY <1>1
  <1>5. x = IF ~ e.ok THEN e
            ELSE [ok |-> TRUE, address |-> a, packet |-> [header |-> h, payload |-> e.payload]]
    BY <1>4 DEF use_surb
  <1> HIDE DEF e, x
  <1>6. CASE Fits(j)
    <2>1. e = [ok |-> TRUE, payload |-> p]
      BY <1>2, <1>6 DEF EncapsulatedIs, p
    <2>2. e.ok = TRUE /\ e.payload = p
      BY <2>1
    <2>3. x = [ok |-> TRUE, address |-> a, packet |-> FirstPacket(j, k, w)]
      BY <1>3, <1>5, <2>2
    <2> QED
      BY <1>6, <2>3 DEF UsedIs, x, s, m, a
  <1>7. CASE ~ Fits(j)
    <2>1. e = Err("InvalidPayload")
      BY <1>2, <1>7 DEF EncapsulatedIs
    <2>2. x = Err("InvalidPayload")
      BY <1>5, <2>1, ErrIs
    <2> QED
      BY <1>7, <2>2 DEF UsedIs, x, s, m
  <1> QED
    BY <1>6, <1>7

-----------------------------------------------------------------------------
(* The payload on its way. *)

(* The payload as node h gets it, if the sender had w whole keys: under    *)
(* the layers that are left, or else under those that nobody had put on.   *)
PayloadAt(p, j, k, w, h) ==
  /\ IsBlob(p) /\ p.len = j.size
  /\ h <= w + 1 => p = UnderKeys(j, k, w)[h].payload
  /\ h > w => AllOneWay(p.layers, h - 1 - w, "dec")

Unwrapped(j, h, p) == Cipher("dec", KeysAt(j, h).payload_key, "lioness", p)

JobUnder(j, k, w) ==
  IsUnder(UnderKeys(j, k, w), PayloadKeys(j, w), w, MessageOf(j, k), j.size)

LEMMA UnderOfJob ==
  ASSUME NEW j \in JobType, NEW k, NEW w \in Nat, Fits(j)
  PROVE  JobUnder(j, k, w)
  <1> DEFINE m == MessageOf(j, k)
             pk == PayloadKeys(j, w)
             z == j.size
  <1>1. Len(pk) = w
    BY PayloadKeysLen
  <1>2. z \in Nat /\ z > 32
    BY JourneyAssumption DEF JobType, Fits
  <1> HIDE DEF m, pk, z
  <1>3. IsUnder(Under(m, pk, z), pk, Len(pk), m, z)
    BY <1>1, <1>2, UnderLayers
  <1>4. IsUnder(Under(m, pk, z), pk, w, m, z)
    BY <1>1, <1>3
  <1> QED
    BY <1>4 DEF JobUnder, UnderKeys, m, pk, z

(* Nothing is on the plain payload. *)
LEMMA PlainIs ==
  ASSUME NEW m, NEW z
  PROVE  /\ Plain(m, z).layers = <<>> /\ Plain(m, z).base.kind = "payload"
         /\ Plain(m, z).base.message = m
         /\ AllOneWay(Plain(m, z).layers, 0, "dec")
  BY DEF Plain, Bytes, AllOneWay

LEMMA FirstPayloadAt ==
  ASSUME NEW j \in JobType, NEW k, NEW w \in Nat \ {0}, Fits(j)
  PROVE  PayloadAt(FirstPayload(j, k, w), j, k, w, 1)
  <1> DEFINE U == UnderKeys(j, k, w)
             p == U[1].payload
  <1>1. JobUnder(j, k, w)
    BY UnderOfJob
  <1>2. 1 \in 1 .. w + 1 /\ ~ 1 > w
    OBVIOUS
  <1> HIDE DEF U
  <1>3. IsBlob(p) /\ p.len = j.size
    BY <1>1, <1>2 DEF JobUnder, IsUnder, U
  <1> QED
    BY <1>2, <1>3 DEF PayloadAt, FirstPayload, U

(* A pass in the direction of those before makes one layer more. *)
LEMMA OneLayerMore ==
  ASSUME NEW p, IsBlob(p), p.len # 0, NEW dir \in Directions, NEW key,
         NEW m \in Nat, AllOneWay(p.layers, m, dir)
  PROVE  AllOneWay(Cipher(dir, key, "lioness", p).layers, m + 1, dir)
  <1> DEFINE l == [dir |-> dir, key |-> key, nonce |-> "lioness"]
             x == Cipher(dir, key, "lioness", p).layers
             y == p.layers
  <1>1. x = OnTopOf(y, m, l)
    BY LayerOnTop
  <1>2. \A i \in 1 .. m : y[i].dir = dir
    BY DEF AllOneWay
  <1>3. l.dir = dir
    OBVIOUS
  <1> HIDE DEF x, y, l
  <1>4. x = [i \in 1 .. m + 1 |-> IF i = m + 1 THEN l ELSE y[i]]
    BY <1>1 DEF OnTopOf
  <1>5. \A i \in 1 .. m + 1 : x[i].dir = dir
    <2> TAKE i \in 1 .. m + 1
    <2>1. CASE i = m + 1
      BY <1>3, <1>4, <2>1
    <2>2. CASE i # m + 1
      <3>1. i \in 1 .. m
        BY <2>2
      <3> QED
        BY <1>2, <1>4, <2>2, <3>1
    <2> QED
      BY <2>1, <2>2
  <1>6. x = [i \in 1 .. m + 1 |-> x[i]]
    BY <1>4
  <1>7. AllOneWay(x, m + 1, dir)
    BY <1>5, <1>6 DEF AllOneWay
  <1> QED
    BY <1>7 DEF x

(* Each node takes off its layer, or puts one on that will never go.       *)
LEMMA NextPayloadAt ==
  ASSUME NEW j \in JobType, NEW k, NEW w \in 1 .. j.n, NEW h \in 1 .. j.n, Fits(j),
         NEW p, PayloadAt(p, j, k, w, h)
  PROVE  PayloadAt(Unwrapped(j, h, p), j, k, w, h + 1)
  <1> DEFINE U == UnderKeys(j, k, w)
             key == KeysAt(j, h).payload_key
             c == Cipher("dec", key, "lioness", p)
  <1>1. JobUnder(j, k, w)
    <2>1. w \in Nat
      OBVIOUS
    <2> QED
      BY <2>1, UnderOfJob
  <1>2. j.n \in Nat /\ w \in Nat /\ h \in Nat /\ j.size > 32
    BY RouteOfJob DEF IsJobRoute, Fits
  <1>3. IsBlob(p) /\ p.len = j.size /\ p.len # 0
    BY <1>2, JourneyAssumption DEF PayloadAt, JobType
  <1>4. IsBlob(c) /\ c.len = j.size
    <2> HIDE DEF key
    <2> QED
      BY <1>3, CipherKeeps
  <1>5. CASE h <= w
    <2> DEFINE q == U[h + 1].payload
    <2>1. h \in 1 .. w /\ h + 1 \in 1 .. w + 1 /\ h <= w + 1
      BY <1>2, <1>5
    <2>2. PayloadKeys(j, w)[h] = key
      BY <2>1 DEF PayloadKeys
    <2> HIDE DEF U, key
    <2>3. IsBlob(q)
      BY <1>1, <2>1 DEF JobUnder, IsUnder, U
    <2>4. U[h].payload = Cipher("enc", key, "lioness", q)
      BY <1>1, <2>1, <2>2 DEF JobUnder, IsUnder, U
    <2>5. p = Cipher("enc", key, "lioness", q)
      BY <2>1, <2>4 DEF PayloadAt, U
    <2> HIDE DEF q
    <2>6. c = q
      <3>1. "enc" \in Directions /\ Opposite("enc") = "dec"
        BY DEF Directions, Opposite
      <3>2. Cipher(Opposite("enc"), key, "lioness", Cipher("enc", key, "lioness", q)) = q
        BY <2>3, <3>1, CipherCancels, Zenon
      <3> QED
        BY <2>5, <3>1, <3>2
    <2> HIDE DEF c
    <2>7. h + 1 > w => AllOneWay(c.layers, (h + 1) - 1 - w, "dec")
      <3> SUFFICES ASSUME h + 1 > w PROVE AllOneWay(c.layers, (h + 1) - 1 - w, "dec")
        OBVIOUS
      <3>1. h = w /\ (h + 1) - 1 - w = 0
        BY <1>2, <1>5
      <3>2. q = Plain(MessageOf(j, k), j.size)
        BY <1>1, <3>1 DEF JobUnder, IsUnder, U, q
      <3> QED
        BY <2>6, <3>1, <3>2, PlainIs
    <2>8. h + 1 <= w + 1 => c = UnderKeys(j, k, w)[h + 1].payload
      BY <2>6 DEF q, U
    <2>9. PayloadAt(c, j, k, w, h + 1)
      BY <1>4, <2>7, <2>8 DEF PayloadAt
    <2> QED
      BY <2>9 DEF c, key, Unwrapped
  <1>6. CASE ~ h <= w
    <2> DEFINE m == h - 1 - w
    <2>1. m \in Nat /\ h > w /\ m + 1 = (h + 1) - 1 - w /\ ~ h + 1 <= w + 1
      BY <1>2, <1>6
    <2>2. AllOneWay(p.layers, m, "dec")
      BY <2>1 DEF PayloadAt
    <2>3. "dec" \in Directions
      BY DEF Directions
    <2> HIDE DEF key, m
    <2>5. AllOneWay(c.layers, m + 1, "dec")
      BY <1>3, <2>1, <2>2, <2>3, OneLayerMore
    <2> HIDE DEF c
    <2>6. PayloadAt(c, j, k, w, h + 1)
      BY <1>4, <2>1, <2>5 DEF PayloadAt
    <2> QED
      BY <2>6 DEF c, key, Unwrapped
  <1> QED
    BY <1>5, <1>6

(* Behind the last node the message is there, or an error.                 *)
ReadBackIs(x, j, k, w) ==
  x = IF w = j.n THEN [ok |-> TRUE, plaintext |-> MessageOf(j, k)] ELSE Err("InvalidPayload")

LEMMA LastPayloadAt ==
  ASSUME NEW j \in JobType, NEW k, NEW w \in 1 .. j.n, Fits(j),
         NEW p, PayloadAt(p, j, k, w, j.n + 1)
  PROVE  ReadBackIs(recover_plaintext(p), j, k, w)
  <1> DEFINE n == j.n
  <1>1. n \in Nat /\ w \in Nat
    BY RouteOfJob DEF IsJobRoute
  <1>2. CASE w = n
    <2>1. JobUnder(j, k, w)
      BY <1>1, UnderOfJob
    <2>2. p = Plain(MessageOf(j, k), j.size)
      <3>1. p = UnderKeys(j, k, w)[w + 1].payload
        BY <1>1, <1>2 DEF PayloadAt
      <3> QED
        BY <2>1, <3>1 DEF JobUnder, IsUnder
    <2> QED
      BY <1>2, <2>2, PlainIs DEF recover_plaintext, ReadBackIs
  <1>3. CASE w # n
    <2> DEFINE e == n + 1
               m == e - 1 - w
               x == p.layers
    <2>1. m \in Nat /\ m # 0 /\ e > w
      BY <1>1, <1>3
    <2>2. AllOneWay(x, m, "dec")
      <3>1. PayloadAt(p, j, k, w, e)
        OBVIOUS
      <3> HIDE DEF e
      <3> QED
        BY <2>1, <3>1 DEF PayloadAt
    <2>3. x # <<>>
      <3> HIDE DEF m, x
      <3>1. DOMAIN x = 1 .. m
        BY <2>2 DEF AllOneWay
      <3>2. 1 \in DOMAIN x
        BY <2>1, <3>1
      <3>3. 1 \notin DOMAIN <<>>
        OBVIOUS
      <3> QED
        BY <3>2, <3>3, Zenon
    <2> QED
      BY <1>3, <2>3 DEF recover_plaintext, ReadBackIs
  <1> QED
    BY <1>2, <1>3

(* What the network puts in the place of a payload stays what it is.       *)
IsJunk(p) == IsBlob(p) /\ p.base.kind = "junk"

LEMMA JunkStays ==
  ASSUME NEW p, IsJunk(p), NEW j, NEW h
  PROVE  /\ IsJunk(Unwrapped(j, h, p))
         /\ recover_plaintext(p) = Err("InvalidPayload")
         /\ p.len \in Nat
  <1> DEFINE c == Unwrapped(j, h, p)
  <1>1. IsBlob(c) /\ c.base = p.base
    BY CipherKeeps DEF IsJunk, Unwrapped
  <1>2. p.len \in Nat
    BY DEF IsJunk, IsBlob
  <1>3. recover_plaintext(p) = Err("InvalidPayload")
    <2>1. p.base.kind # "payload"
      BY DEF IsJunk
    <2> QED
      BY <2>1 DEF recover_plaintext
  <1> QED
    BY <1>1, <1>2, <1>3 DEF IsJunk

-----------------------------------------------------------------------------
(* What the network can do to a packet on its way. *)

HeaderFormed(hd, j, h) ==
  LET sl == hd.routing_info.slots IN
  /\ hd = [shared_secret |-> SecretAt(j, h),
           routing_info |-> [slots |-> sl,
                             integrity_mac |-> compute(KeysAt(j, h).header_integrity_hmac_key, sl)]]
  /\ AreSlots(sl, MAX_PATH_LENGTH)
  /\ \A i \in 1 .. MAX_PATH_LENGTH : Clean(sl[i])

LEMMA HeaderForm ==
  ASSUME NEW j \in JobType, NEW k, Routable(j), NEW h \in 1 .. j.n
  PROVE  HeaderFormed(HeaderAt(j, k, h), j, h)
  <1> DEFINE r == RouteOf(j)
             ds == DelaysOf(j, k)
             d == DestOf(k)
             c == <<"coins", k>>
             K == routing_keys(r, initial_secret)
             A == accumulators(r, initial_secret)
             L == LayersOf(r, d, ds, K, c)
             x == L[h]
             sl == x.slots
             m == compute(K[h].header_integrity_hmac_key, sl)
             hd == HeaderAt(j, k, h)
  <1>1. Len(r) = j.n /\ IsRoute(r, ds) /\ j.n \in Nat
    BY RouteOfJob DEF IsJobRoute
  <1>2. h \in 1 .. Len(r) /\ Len(r) \in Nat
    BY <1>1
  <1> HIDE DEF r, ds, d, c
  <1>3. IsKeyList(K, Len(r))
    BY <1>2, KeysAgree
  <1>4. hd = [shared_secret |-> A[h], routing_info |-> x]
    BY DEF HeaderAt, HeaderFor, r, ds, d, c
  <1> HIDE DEF K, A
  <1>5. IsLayer(x, K[h])
    <2>1. AreLayers(L, r, d, ds, K, c)
      BY <1>1, <1>3, LayersShape
    <2> HIDE DEF L
    <2> QED
      BY <1>2, <2>1 DEF AreLayers
  <1>6. \A i \in 1 .. MAX_PATH_LENGTH : Clean(sl[i])
    <2> TAKE i \in 1 .. MAX_PATH_LENGTH
    <2> QED
      BY <1>1, <1>2, <1>3, LayersClean
  <1> HIDE DEF L, x, hd
  <1>7. x = [slots |-> sl, integrity_mac |-> m] /\ AreSlots(sl, MAX_PATH_LENGTH)
    BY <1>5 DEF IsLayer
  <1>8. hd.routing_info = x
    BY <1>4
  <1>9. hd.routing_info.slots = sl
    BY <1>8
  <1>10. SecretAt(j, h) = A[h] /\ KeysAt(j, h) = K[h]
    BY DEF SecretAt, KeysAt, A, K, r
  <1>11. HeaderFormed(hd, j, h)
    <2> HIDE DEF sl
    <2> QED
      BY <1>4, <1>6, <1>7, <1>9, <1>10 DEF HeaderFormed, m
  <1> QED
    BY <1>11 DEF hd

(* The junk is not of the route. *)
LEMMA JunkIsForeign ==
  ASSUME NEW j \in JobType, NEW h \in 1 .. j.n
  PROVE  junk_exponent \notin SecretAt(j, h) \cup PrivateKey(NameOf(j, h))
  <1>1. Len(RouteOf(j)) = j.n /\ j.n \in Nat
    BY RouteOfJob DEF IsJobRoute
  <1>2. \A x : x # <<"junk", 0>> => junk_exponent \notin PrivateKey(x)
    <2> TAKE x
    <2>1. [secret |-> x].secret = x /\ junk_exponent.secret = <<"junk", 0>>
      BY DEF junk_exponent
    <2> QED
      BY <2>1 DEF PrivateKey
  <1>3. junk_exponent \notin initial_secret
    <2>1. <<"sender", 1>> # <<"junk", 0>>
      OBVIOUS
    <2> QED
      BY <1>2, <2>1 DEF initial_secret
  <1>4. junk_exponent \notin SecretAt(j, h)
    <2> DEFINE r == RouteOf(j)
    <2>1. h \in 1 .. Len(r) /\ Len(r) \in Nat
      BY <1>1
    <2> HIDE DEF r
    <2>2. junk_exponent \notin accumulators(r, initial_secret)[h]
      BY <1>3, <2>1, NoJunkInSecrets
    <2> QED
      BY <2>2 DEF SecretAt, r
  <1>5. NameOf(j, h) # <<"junk", 0>>
    <2>1. NameOf(j, h)[1] \in {"a", "b"}
      BY DEF NameOf
    <2>2. <<"junk", 0>>[1] = "junk"
      OBVIOUS
    <2> QED
      BY <2>1, <2>2
  <1> QED
    BY <1>2, <1>4, <1>5

(* Its header does not verify at node h, and has the size it had.          *)
Refusable(q, j, h) ==
  LET hd   == q.header
      keys == compute_routing_keys(hd.shared_secret, PrivateKey(NameOf(j, h)))
  IN  /\ hd.routing_info.slots = [i \in 1 .. MAX_PATH_LENGTH |-> hd.routing_info.slots[i]]
      /\ ~ verify(hd.routing_info.integrity_mac, keys.header_integrity_hmac_key,
                  hd.routing_info.slots)

LEMMA AlteredHeaderRefusable ==
  ASSUME NEW j \in JobType, NEW k, Routable(j), NEW h \in 1 .. j.n,
         NEW y, NEW part \in Parts, part[1] \in HeaderParts
  PROVE  LET q == Altered([header |-> HeaderAt(j, k, h), payload |-> y], part) IN
         /\ q = [header |-> q.header, payload |-> q.payload]
         /\ q.payload = y /\ Refusable(q, j, h)
  <1> DEFINE hd == HeaderAt(j, k, h)
             p == [header |-> hd, payload |-> y]
             q == Altered(p, part)
             S == SecretAt(j, h)
             N == PrivateKey(NameOf(j, h))
             mk == KeysAt(j, h).header_integrity_hmac_key
             sl == hd.routing_info.slots
             m == compute(mk, sl)
             M == MAX_PATH_LENGTH
             Goal == /\ q = [header |-> q.header, payload |-> q.payload]
                     /\ q.payload = y /\ Refusable(q, j, h)
             IsQ(s, t, v) == q = [header |-> [shared_secret |-> s,
                                              routing_info |-> [slots |-> t, integrity_mac |-> v]],
                                  payload |-> y]
             Foreign(s, t, v) == v # [macKey |-> [hmac |-> s \cup N], over |-> t]
             Listed(t) == t = [i \in 1 .. M |-> t[i]]
  <1>1. HeaderFormed(hd, j, h)
    BY HeaderForm
  <1> HIDE DEF hd, m, sl
  <1>2. hd = [shared_secret |-> S, routing_info |-> [slots |-> sl, integrity_mac |-> m]]
        /\ AreSlots(sl, M) /\ \A i \in 1 .. M : Clean(sl[i])
    BY <1>1 DEF HeaderFormed, sl, m
  <1>3. mk = [hmac |-> S \cup N]
    <2>1. KeysAt(j, h) = derive(S \cup N)
      BY NodeKeys
    <2> QED
      BY <2>1 DEF derive
  <1>4. m = [macKey |-> [hmac |-> S \cup N], over |-> sl]
    BY <1>3 DEF m, compute
  <1>5. p = [header |-> [shared_secret |-> S, routing_info |-> [slots |-> sl, integrity_mac |-> m]],
             payload |-> y]
    BY <1>2
  <1>6. Listed(sl)
    BY <1>2 DEF AreSlots
  <1> HIDE DEF p, S, N
  <1>7. ASSUME NEW s, NEW t, NEW v, Listed(t), IsQ(s, t, v),
               Foreign(s, t, v)
        PROVE  Goal
    <2> DEFINE x == q.header
               rk == compute_routing_keys(s, N)
    <2> HIDE DEF q
    <2>1. q.payload = y /\ x = [shared_secret |-> s,
                                routing_info |-> [slots |-> t, integrity_mac |-> v]]
      BY <1>7
    <2>a. q = [header |-> q.header, payload |-> q.payload]
      BY <1>7
    <2> HIDE DEF x
    <2>2. x.shared_secret = s /\ x.routing_info.slots = t /\ x.routing_info.integrity_mac = v
      BY <2>1
    <2>3. rk.header_integrity_hmac_key = [hmac |-> s \cup N]
      <3>1. N \cup s = s \cup N
        OBVIOUS
      <3> QED
        BY <3>1 DEF compute_routing_keys, derive, diffie_hellman
    <2> HIDE DEF rk
    <2>4. ~ verify(v, rk.header_integrity_hmac_key, t)
      BY <1>7, <2>3 DEF verify, compute
    <2>5. Refusable(q, j, h)
      BY <1>7, <2>2, <2>4 DEF Refusable, x, rk, N
    <2> QED
      BY <2>1, <2>5, <2>a
  <1>8. CASE part[1] = "secret"
    <2> DEFINE s == S \cup PrivateKey(<<"junk", 0>>)
    <2>1. IsQ(s, sl, m)
      BY <1>5, <1>8 DEF Altered
    <2>2. Foreign(s, sl, m)
      <3>1. junk_exponent \in s \cup N /\ junk_exponent \notin S \cup N
        BY JunkIsForeign DEF PrivateKey, junk_exponent, S, N
      <3>2. S \cup N # s \cup N
        BY <3>1
      <3> HIDE DEF s
      <3> DEFINE a == S \cup N
                 b == s \cup N
      <3> HIDE DEF a, b
      <3>3. [hmac |-> a] # [hmac |-> b]
        <4>1. [hmac |-> a].hmac = a /\ [hmac |-> b].hmac = b
          OBVIOUS
        <4> QED
          BY <3>2, <4>1 DEF a, b
      <3>4. m.macKey = [hmac |-> a]
        BY <1>4 DEF a
      <3>5. [macKey |-> [hmac |-> b], over |-> sl].macKey = [hmac |-> b]
        OBVIOUS
      <3> QED
        BY <3>3, <3>4, <3>5 DEF b
    <2> HIDE DEF s, IsQ, Goal, Foreign, Listed
    <2>9. Goal
      BY <1>6, <1>7, <2>1, <2>2
    <2> QED
      BY <2>9 DEF Goal, p, hd
  <1>9. CASE part[1] = "mac"
    <2> DEFINE v == [junk |-> m]
    <2>1. IsQ(S, sl, v)
      BY <1>5, <1>9 DEF Altered
    <2>2. Foreign(S, sl, v)
      <3> DEFINE w == [macKey |-> [hmac |-> S \cup N], over |-> sl]
      <3>1. "macKey" \in DOMAIN w /\ "macKey" \notin DOMAIN v
        OBVIOUS
      <3> HIDE DEF v, w
      <3> QED
        BY <3>1 DEF w
    <2> HIDE DEF v, IsQ, Goal, Foreign, Listed
    <2>9. Goal
      BY <1>6, <1>7, <2>1, <2>2
    <2> QED
      BY <2>9 DEF Goal, p, hd
  <1>10. CASE part[1] = "slot"
    <2> DEFINE i == part[2]
               t == [sl EXCEPT ![i].pads = @ \cup {junk_piece}]
    <2>1. i \in 1 .. M
      <3>1. part \notin {<<"secret", 0>>, <<"mac", 0>>, <<"payload", 0>>}
            /\ part \notin {<<"cut", n>> : n \in CutLengths}
        BY <1>10
      <3>2. PICK e \in 1 .. M : part = <<"slot", e>>
        BY <3>1 DEF Parts
      <3> QED
        BY <3>2
    <2>2. IsQ(S, t, m)
      BY <1>5, <1>10 DEF Altered, junk_piece
    <2>3. t[i].pads = sl[i].pads \cup {junk_piece}
      <3> DEFINE a == sl[i]
      <3>1. a = [base |-> a.base, pads |-> a.pads]
        BY <1>2, <2>1 DEF AreSlots, IsSlot
      <3>2. t[i] = [a EXCEPT !.pads = @ \cup {junk_piece}]
        <4> HIDE DEF i
        <4> QED
          BY <1>6, <2>1
      <3> HIDE DEF a, t
      <3> QED
        BY <3>1, <3>2 DEF a
    <2>4. t # sl
      <3>1. junk_piece \notin sl[i].pads
        BY <1>2, <2>1 DEF Clean, junk_piece
      <3> HIDE DEF t
      <3> QED
        BY <2>3, <3>1
    <2>5. Listed(t)
      BY <1>6
    <2>6. Foreign(S, t, m)
      <3> HIDE DEF t
      <3>1. m.over = sl
        BY <1>4
      <3>2. [macKey |-> [hmac |-> S \cup N], over |-> t].over = t
        OBVIOUS
      <3> QED
        BY <2>4, <3>1, <3>2
    <2> HIDE DEF t, IsQ, Goal, Foreign, Listed
    <2>9. Goal
      BY <1>7, <2>2, <2>5, <2>6
    <2> QED
      BY <2>9 DEF Goal, p, hd
  <1>11. part[1] \in {"secret", "mac", "slot"}
    BY DEF HeaderParts
  <1> QED
    BY <1>8, <1>9, <1>10, <1>11 DEF p, hd

LEMMA AlteredPayloadJunk ==
  ASSUME NEW hd, NEW y, y.len \in Nat, NEW part \in Parts, part[1] \notin HeaderParts
  PROVE  LET q == Altered([header |-> hd, payload |-> y], part) IN
         /\ q = [header |-> q.header, payload |-> q.payload]
         /\ q.header = hd /\ IsJunk(q.payload)
  <1> DEFINE p == [header |-> hd, payload |-> y]
             q == Altered(p, part)
             b == [kind |-> "junk", of |-> y]
  <1>1. \A n \in Nat : IsJunk(Bytes(b, n))
    <2> TAKE n \in Nat
    <2>1. IsBlob(Bytes(b, n)) /\ Bytes(b, n).base = b
      <3> HIDE DEF b
      <3> QED
        BY BytesIsBlob
    <2> QED
      BY <2>1 DEF IsJunk
  <1>2. CASE part = <<"payload", 0>>
    <2>1. q = [p EXCEPT !.payload = Bytes(b, y.len)]
      BY <1>2 DEF Altered
    <2>2. /\ q = [header |-> q.header, payload |-> q.payload]
          /\ q.header = hd /\ q.payload = Bytes(b, y.len)
      <3> HIDE DEF b, q
      <3> QED
        BY <2>1
    <2> QED
      BY <1>1, <2>2
  <1>3. CASE part \in {<<"cut", n>> : n \in CutLengths}
    <2>1. PICK n \in CutLengths : part = <<"cut", n>>
      BY <1>3
    <2>2. n \in Nat
      BY JourneyAssumption
    <2>3. q = [p EXCEPT !.payload = Bytes(b, n)]
      BY <2>1 DEF Altered
    <2>4. /\ q = [header |-> q.header, payload |-> q.payload]
          /\ q.header = hd /\ q.payload = Bytes(b, n)
      <3> HIDE DEF b, q
      <3> QED
        BY <2>3
    <2> QED
      BY <1>1, <2>2, <2>4
  <1>4. part = <<"payload", 0>> \/ part \in {<<"cut", n>> : n \in CutLengths}
    <2>1. part # <<"secret", 0>> /\ part # <<"mac", 0>>
          /\ part \notin {<<"slot", i>> : i \in 1 .. MAX_PATH_LENGTH}
      BY DEF HeaderParts
    <2> QED
      BY <2>1 DEF Parts
  <1> QED
    BY <1>2, <1>3, <1>4

-----------------------------------------------------------------------------
(* What a node makes of the packet that it gets.                           *)

(* The packet on the last link: as it should be for this node, or altered  *)
(* in its header on this link, or in its payload on this one or before.    *)
PacketRight(p, j, k, w, h, f) ==
  /\ p = [header |-> p.header, payload |-> p.payload]
  /\ IF f.part[1] \in HeaderParts
     THEN h = f.at /\ Refusable(p, j, h) /\ PayloadAt(p.payload, j, k, w, h)
     ELSE /\ p.header = HeaderAt(j, k, h)
          /\ IF f = NoFault THEN PayloadAt(p.payload, j, k, w, h) ELSE IsJunk(p.payload)

(* What a node remembers is what it would derive. *)
EntryRight(e, a, s) ==
  /\ e.routing_keys = compute_routing_keys(s, PrivateKey(a))
  /\ e.new_blinded_secret \in
       {None, Some(blind_the_shared_secret(s, e.routing_keys.blinding_factor))}

CacheRight(c) ==
  /\ c = [a \in Nodes |-> c[a]]
  /\ \A a \in Nodes : \A s \in DOMAIN c[a] : EntryRight(c[a][s], a, s)

AtNode ==
  /\ job \in JobType /\ Routable(job) /\ Fits(job)
  /\ whole_keys \in 1 .. job.n /\ hop \in 1 .. job.n /\ address = NameOf(job, hop)
  /\ PacketRight(packet, job, sent, whole_keys, hop, fault)
  /\ CacheRight(cache)

Onward(j, k, h, p) ==
  IF h = j.n
  THEN [ok |-> TRUE, hop |-> "FinalHop", destination |-> "destination", identifier |-> k,
        payload |-> Unwrapped(j, h, p)]
  ELSE [ok |-> TRUE, hop |-> "ForwardHop",
        packet |-> [header |-> HeaderAt(j, k, h + 1), payload |-> Unwrapped(j, h, p)],
        address |-> NameOf(j, h + 1), delay |-> <<k, h>>]

LEMMA OnwardIs ==
  ASSUME NEW j \in JobType, NEW k, Routable(j), NEW h \in 1 .. j.n, NEW p
  PROVE  LeftAt(RouteOf(j), DestOf(k), DelaysOf(j, k), initial_secret, <<"coins", k>>, h, p)
           = Onward(j, k, h, p)
  <1> DEFINE r == RouteOf(j)
             ds == DelaysOf(j, k)
             c == <<"coins", k>>
             u == Unwrapped(j, h, p)
             x == LeftAt(r, DestOf(k), ds, initial_secret, c, h, p)
  <1>1. Len(r) = j.n /\ j.n \in Nat
    BY RouteOfJob DEF IsJobRoute
  <1>2. Cipher("dec", routing_keys(r, initial_secret)[h].payload_key, "lioness", p) = u
    BY DEF Unwrapped, KeysAt
  <1>3. DestOf(k).address = "destination" /\ DestOf(k).identifier = k
    BY DEF DestOf
  <1>4. HeaderFor(r, DestOf(k), ds, initial_secret, c, h + 1) = HeaderAt(j, k, h + 1)
    BY DEF HeaderAt
  <1> HIDE DEF u
  <1>5. CASE h = j.n
    <2>1. x = [ok |-> TRUE, hop |-> "FinalHop", destination |-> "destination", identifier |-> k,
               payload |-> u]
      <3> HIDE DEF r, ds, c
      <3> QED
        BY <1>1, <1>2, <1>3, <1>5 DEF LeftAt
    <2> QED
      BY <1>5, <2>1 DEF Onward, u
  <1>6. CASE h # j.n
    <2>1. h + 1 \in 1 .. j.n /\ h \in 1 .. j.delays
      BY <1>1, <1>6 DEF Routable
    <2>2. r[h + 1].address = NameOf(j, h + 1)
      BY <2>1, NodeOfJob
    <2>3. ds[h] = <<k, h>>
      BY <2>1 DEF DelaysOf
    <2>4. x = [ok |-> TRUE, hop |-> "ForwardHop",
               packet |-> [header |-> HeaderAt(j, k, h + 1), payload |-> u],
               address |-> NameOf(j, h + 1), delay |-> <<k, h>>]
      <3> HIDE DEF r, ds, c
      <3> QED
        BY <1>1, <1>2, <1>4, <1>6, <2>2, <2>3 DEF LeftAt
    <2> QED
      BY <1>6, <2>4 DEF Onward, u
  <1> QED
    BY <1>5, <1>6

(* With the keys of its place a node leaves what it should. *)
LeavesAt(unwrapped, j, k, h, blinded, p) ==
  /\ unwrapped # Err("InvalidRouting")
  /\ ProcessedPacket(unwrapped, p)
       = IF h # j.n /\ blinded = None THEN Err("InvalidHeader")
         ELSE IF p.len <= 32 THEN Err("InvalidPayload")
         ELSE Onward(j, k, h, p)

LEMMA JobOpens ==
  ASSUME NEW j \in JobType, NEW k, Routable(j), NEW h \in 1 .. j.n, NEW p, p.len \in Nat,
         NEW blinded,
         blinded \in {None, Some(blind_the_shared_secret(SecretAt(j, h),
                                                         KeysAt(j, h).blinding_factor))}
  PROVE  LeavesAt(ProcessedHeader(HeaderAt(j, k, h), blinded, KeysAt(j, h)), j, k, h, blinded, p)
  <1> DEFINE r == RouteOf(j)
             ds == DelaysOf(j, k)
             d == DestOf(k)
             s == initial_secret
             c == <<"coins", k>>
             u == ProcessedHeader(HeaderFor(r, d, ds, s, c, h), blinded, routing_keys(r, s)[h])
  <1>1. Len(r) = j.n /\ IsRoute(r, ds)
    BY RouteOfJob DEF IsJobRoute
  <1>2. MayHave(blinded, r, s, h)
    BY DEF MayHave, SecretAt, KeysAt
  <1>3. h \in 1 .. Len(r)
    BY <1>1
  <1>4. LeftAt(r, d, ds, s, c, h, p) = Onward(j, k, h, p)
    BY OnwardIs
  <1>5. HeaderAt(j, k, h) = HeaderFor(r, d, ds, s, c, h) /\ KeysAt(j, h) = routing_keys(r, s)[h]
    BY DEF HeaderAt, KeysAt
  <1> HIDE DEF r, ds, d, s, c
  <1>6. Leaves(u, r, d, ds, s, c, h, blinded, p)
    BY <1>1, <1>2, <1>3, PacketOpens
  <1> HIDE DEF u
  <1>7. LeavesAt(u, j, k, h, blinded, p)
    BY <1>1, <1>4, <1>6 DEF Leaves, LeavesAt
  <1> QED
    BY <1>5, <1>7 DEF u

(* With the MAC in place, whether or not the node knows the secret. *)
LEMMA GoodHeaderProcessed ==
  ASSUME AtNode, fault.part[1] \notin HeaderParts
  PROVE  /\ processed = IF packet.payload.len < 17 THEN Err("InvalidPacket")
                        ELSE IF RememberedAsLast THEN Err("InvalidHeader")
                        ELSE IF packet.payload.len <= 32 THEN Err("InvalidPayload")
                        ELSE Onward(job, sent, hop, packet.payload)
         /\ process(packet, PrivateKey(address))
              = IF packet.payload.len <= 32 THEN Err("InvalidPayload")
                ELSE Onward(job, sent, hop, packet.payload)
  <1> DEFINE j == job
             k == sent
             h == hop
             y == packet.payload
             hd == HeaderAt(j, k, h)
             S == SecretAt(j, h)
             K == KeysAt(j, h)
             N == PrivateKey(address)
             b == Some(blind_the_shared_secret(S, K.blinding_factor))
             E == cache[address][secret]
             on == Onward(j, k, h, y)
  <1>1. j \in JobType /\ Routable(j) /\ h \in 1 .. j.n /\ address = NameOf(j, h)
    BY DEF AtNode
  <1>2. packet.header = hd /\ y.len \in Nat
    <2>1. PacketRight(packet, j, k, whole_keys, h, fault)
      BY DEF AtNode
    <2>2. packet.header = hd /\ (PayloadAt(y, j, k, whole_keys, h) \/ IsJunk(y))
      BY <2>1 DEF PacketRight
    <2>3. IsBlob(y)
      BY <2>2 DEF PayloadAt, IsJunk
    <2> QED
      BY <2>2, <2>3 DEF IsBlob
  <1>3. secret = S
    BY <1>2 DEF secret, HeaderAt, HeaderFor, SecretAt
  <1>4. compute_routing_keys(S, N) = K
    BY <1>1, NodeKeys
  <1>5. process(packet, N) = IF y.len <= 32 THEN Err("InvalidPayload") ELSE on
    <2> DEFINE u == ProcessedHeader(hd, b, K)
    <2>1. process(packet, N) = ProcessedPacket(u, y)
      <3>1. hd.shared_secret = S
        BY <1>2, <1>3 DEF secret
      <3> HIDE DEF hd, S, K, N
      <3> QED
        BY <1>2, <1>4, <3>1 DEF process, process_header
    <2>2. b # None
      BY DEF Some, None
    <2>3. LeavesAt(u, j, k, h, b, y)
      <3> HIDE DEF j, k, h, y
      <3>1. b \in {None, b}
        OBVIOUS
      <3> QED
        BY <1>1, <1>2, <3>1, JobOpens
    <2> HIDE DEF u, b, on
    <2> QED
      BY <2>1, <2>2, <2>3 DEF LeavesAt, on
  <1>6. packet_from_bytes(packet).ok <=> ~ y.len < 17
    <2> DEFINE f == packet_from_bytes(packet)
    <2>1. CASE y.len < 17
      <3>1. f = Err("InvalidPacket")
        BY <2>1 DEF packet_from_bytes, Payload!PAYLOAD_OVERHEAD_SIZE
      <3> QED
        BY <2>1, <3>1, ErrIs
    <2>2. CASE ~ y.len < 17
      <3>1. f = [ok |-> TRUE, packet |-> packet]
        BY <2>2 DEF packet_from_bytes, Payload!PAYLOAD_OVERHEAD_SIZE
      <3>2. f.ok = TRUE
        <4> HIDE DEF f, packet
        <4> QED
          BY <3>1
      <3> QED
        BY <2>2, <3>2
    <2> QED
      BY <2>1, <2>2
  <1>7. y.len < 17 => packet_from_bytes(packet) = Err("InvalidPacket")
    BY DEF packet_from_bytes, Payload!PAYLOAD_OVERHEAD_SIZE
  <1>8. CASE y.len < 17
    BY <1>5, <1>6, <1>7, <1>8 DEF processed
  <1>9. CASE ~ y.len < 17 /\ ~ Known
    <2>1. processed = process(packet, N) /\ ~ RememberedAsLast
      BY <1>6, <1>9 DEF processed, RememberedAsLast
    <2> HIDE DEF y, on
    <2> QED
      BY <1>5, <1>9, <2>1 DEF y, on
  <1>10. CASE ~ y.len < 17 /\ Known
    <2> DEFINE e == E.new_blinded_secret
               u == ProcessedHeader(hd, e, K)
    <2>1. EntryRight(E, address, S)
      <3>1. address \in Nodes
        BY <1>1, NodeOfJob
      <3> QED
        BY <1>3, <1>10, <3>1 DEF AtNode, CacheRight, Known
    <2>2. E.routing_keys = K
      BY <1>4, <2>1 DEF EntryRight
    <2>3. e \in {None, b}
      BY <2>1, <2>2 DEF EntryRight
    <2>4. LeavesAt(u, j, k, h, e, y)
      <3> HIDE DEF j, k, h, y, E
      <3> QED
        BY <1>1, <1>2, <2>3, JobOpens
    <2>5. processed = ProcessedPacket(u, y)
      <3>1. processed = process_with_derived_keys(packet, e, K)
        BY <1>6, <1>10, <2>2 DEF processed
      <3>2. u # Err("InvalidRouting")
        BY <2>4 DEF LeavesAt
      <3> HIDE DEF hd, e, K
      <3> QED
        BY <1>2, <3>1, <3>2 DEF process_with_derived_keys, process_header_with_derived_keys
    <2>6. RememberedAsLast <=> h # j.n /\ e = None
      <3>1. h < j.n <=> h # j.n
        BY <1>1, RouteOfJob DEF IsJobRoute
      <3> QED
        BY <1>10, <3>1 DEF RememberedAsLast
    <2>7. processed = IF h # j.n /\ e = None THEN Err("InvalidHeader")
                      ELSE IF y.len <= 32 THEN Err("InvalidPayload") ELSE on
      <3> HIDE DEF u, e, on, y
      <3> QED
        BY <2>4, <2>5 DEF LeavesAt, on
    <2> HIDE DEF y, on, e
    <2> QED
      BY <1>5, <1>10, <2>6, <2>7 DEF y, on
  <1> QED
    BY <1>8, <1>9, <1>10

(* With the MAC out of place. *)
LEMMA BadHeaderProcessed ==
  ASSUME AtNode, fault.part[1] \in HeaderParts
  PROVE  /\ processed = Err("InvalidHeader")
         /\ process(packet, PrivateKey(address)) = Err("InvalidHeader")
  <1> DEFINE y == packet.payload
             hd == packet.header
             N == PrivateKey(address)
             K == compute_routing_keys(hd.shared_secret, N)
             E == cache[address][secret]
             bad == Err("InvalidHeader")
  <1>1. job \in JobType /\ hop \in 1 .. job.n /\ address = NameOf(job, hop)
    BY DEF AtNode
  <1>2. Refusable(packet, job, hop) /\ PayloadAt(y, job, sent, whole_keys, hop)
    BY DEF AtNode, PacketRight
  <1>3. ~ verify(hd.routing_info.integrity_mac, K.header_integrity_hmac_key,
                 hd.routing_info.slots)
    BY <1>1, <1>2 DEF Refusable
  <1>4. packet_from_bytes(packet).ok
    <2>1. y.len = job.size /\ job.size > 32 /\ job.size \in Nat
      BY <1>1, <1>2, JourneyAssumption DEF PayloadAt, AtNode, Fits, JobType
    <2>2. ~ y.len < 17
      BY <2>1
    <2> QED
      BY <2>2 DEF packet_from_bytes, Payload!PAYLOAD_OVERHEAD_SIZE
  <1> HIDE DEF K
  <1>5. \A b : /\ ProcessedHeader(hd, b, K) = bad
               /\ process_header_with_derived_keys(hd, b, K) = bad
    BY <1>3, BadMacRefused
  <1>6. ProcessedPacket(bad, y) = bad
    BY ErrIs DEF ProcessedPacket
  <1>7. process(packet, N) = bad
    <2>1. process_header(hd, N) = bad
      BY <1>5 DEF process_header, K
    <2> QED
      BY <1>6, <2>1 DEF process
  <1>8. Known => E.routing_keys = K
    <2>1. address \in Nodes
      BY <1>1, NodeOfJob
    <2>2. Known => EntryRight(E, address, secret)
      BY <2>1 DEF AtNode, CacheRight, Known
    <2> QED
      BY <2>2 DEF EntryRight, K, secret
  <1>9. Known => processed = bad
    <2> HAVE Known
    <2>1. processed = process_with_derived_keys(packet, E.new_blinded_secret, K)
      BY <1>4, <1>8 DEF processed
    <2> QED
      BY <1>5, <1>6, <2>1 DEF process_with_derived_keys
  <1>10. ~ Known => processed = bad
    BY <1>4, <1>7 DEF processed
  <1> QED
    BY <1>7, <1>9, <1>10

-----------------------------------------------------------------------------
(* The inductive invariant. *)

JobRight ==
  /\ sent \in 1 .. MaxPackets /\ job \in JobType /\ whole_keys \in 0 .. job.n
  /\ address \in Nodes
  /\ sent = 1 => job.fork = MAX_PATH_LENGTH + 2

(* Before a packet was sent: the SURB is what the sender made, and whoever *)
(* gives up has a reason.                                                  *)
AtSender ==
  /\ hop = 1 /\ fault = NoFault /\ received = {}
  /\ outcome \in {"new", "panic", "InvalidSURB", "InvalidPayload"}
  /\ surbs # {} => outcome = "new" /\ job.surb /\ Routable(job)
                   /\ surbs = {SurbOf(job, sent, job.n)}
  /\ outcome # "new" =>
       \/ ~ Valid /\ outcome = Refusal
       \/ CutSURB /\ outcome = "InvalidSURB"
       \/ CutSURB /\ ~ Valid /\ outcome = "InvalidPayload"

Goods(j, k) == [destination |-> "destination", identifier |-> k, plaintext |-> MessageOf(j, k)]

ListedSlots(p) ==
  p.header.routing_info.slots
    = [i \in 1 .. MAX_PATH_LENGTH |-> p.header.routing_info.slots[i]]

LinksRight ==
  /\ links = [l \in 1 .. hop |-> links[l]]
  /\ \A l \in 1 .. hop : ListedSlots(links[l])

(* How a journey can be: under way, at its end, or given up for a reason.  *)
EndsRight ==
  /\ outcome \in {"travels", "delivered", "InvalidHeader", "InvalidPayload", "InvalidPacket"}
  /\ outcome = "delivered" =>
       hop = job.n /\ fault = NoFault /\ whole_keys = job.n /\ received = {Goods(job, sent)}
  /\ outcome # "delivered" => received = {}
  /\ outcome \notin {"travels", "delivered"} =>
       fault # NoFault \/ whole_keys # job.n \/ (RememberedAsLast /\ sent > 1)
  /\ fault.part[1] \in HeaderParts => outcome \in {"travels", "InvalidHeader"}

PlaceRight ==
  /\ Routable(job) /\ Fits(job)
  /\ whole_keys \in 1 .. job.n /\ (~ job.surb => whole_keys = job.n)
  /\ surbs = {}
  /\ hop \in 1 .. job.n /\ address = NameOf(job, hop)
  /\ hop > 1 => delay = <<sent, hop - 1>>

OnTheWay ==
  /\ PlaceRight
  /\ LinksRight
  /\ PacketRight(packet, job, sent, whole_keys, hop, fault)
  /\ EndsRight

(* Under a fresh secret no node knows a secret before the packet is there. *)
FreshSecrets ==
  sent = 1 /\ outcome \in {"new", "travels"} =>
    \A i \in hop .. MAX_PATH_LENGTH + 1 : DOMAIN cache[<<"a", i>>] = {}

IInv ==
  /\ JobRight
  /\ links = <<>> => AtSender
  /\ links # <<>> => OnTheWay
  /\ CacheRight(cache) /\ FreshSecrets

LEMMA InitRight == Init => IInv
  <1> SUFFICES ASSUME Init PROVE IInv
    OBVIOUS
  <1>1. MAX_PATH_LENGTH \in Nat \ {0} /\ MaxPackets \in {1, 2}
    BY MaxPathAssumption, JourneyAssumption
  <1>2. job \in JobType /\ job.fork = MAX_PATH_LENGTH + 2
    <2>1. PICK s \in BOOLEAN, n \in Lengths, d \in Lengths, m \in MessageLengths,
               p \in PayloadSizes :
            job = [surb |-> s, n |-> n, fork |-> MAX_PATH_LENGTH + 2, delays |-> d,
                   message |-> m, size |-> p]
      BY DEF Init, Jobs
    <2>2. MAX_PATH_LENGTH + 2 \in 2 .. MAX_PATH_LENGTH + 2
      BY <1>1
    <2> QED
      BY <2>1, <2>2 DEF JobType
  <1>3. JobRight
    <2>1. job.n \in Nat
      BY <1>2, RouteOfJob DEF IsJobRoute
    <2>2. <<"a", 1>> \in Nodes
      BY <1>1 DEF Nodes, Lines
    <2> QED
      BY <1>1, <1>2, <2>1, <2>2 DEF JobRight, Init
  <1>4. AtSender /\ links = <<>>
    BY DEF Init, AtSender
  <1>5. DOMAIN <<>> = {}
    OBVIOUS
  <1>6. CacheRight(cache)
    BY <1>5 DEF Init, CacheRight
  <1>7. FreshSecrets
    <2>1. \A i \in hop .. MAX_PATH_LENGTH + 1 : <<"a", i>> \in Nodes
      BY <1>1 DEF Init, Nodes, Lines
    <2> QED
      BY <1>5, <2>1 DEF Init, FreshSecrets
  <1> QED
    BY <1>3, <1>4, <1>6, <1>7 DEF IInv

(* Under way, everything is in place for the node. *)
LEMMA UnderWay ==
  ASSUME IInv, outcome = "travels"
  PROVE  AtNode /\ links # <<>>
  <1>1. links # <<>>
    BY DEF IInv, AtSender
  <1> QED
    BY <1>1 DEF IInv, JobRight, OnTheWay, PlaceRight, AtNode

LEMMA AtTheSender ==
  ASSUME IInv, outcome = "new"
  PROVE  links = <<>> /\ AtSender /\ JobRight
  BY DEF IInv, OnTheWay, EndsRight

(* What a node remembers. *)
Entry == [new_blinded_secret |-> shared_secret(processed),
          routing_keys |-> compute_routing_keys(secret, PrivateKey(address))]

LEMMA EntryIsRight ==
  ASSUME AtNode, fault.part[1] \notin HeaderParts, processed.ok
  PROVE  EntryRight(Entry, address, secret)
  <1> DEFINE j == job
             h == hop
             S == SecretAt(j, h)
             K == KeysAt(j, h)
             y == packet.payload
             on == Onward(j, sent, h, y)
             e == shared_secret(processed)
             b == Some(blind_the_shared_secret(S, K.blinding_factor))
  <1>1. j \in JobType /\ Routable(j) /\ h \in 1 .. j.n /\ address = NameOf(j, h)
    BY DEF AtNode
  <1>2. processed = on
    BY GoodHeaderProcessed, ErrIs
  <1>3. secret = S
    <2>1. packet.header = HeaderAt(j, sent, h)
      BY DEF AtNode, PacketRight
    <2> QED
      BY <2>1 DEF secret, HeaderAt, HeaderFor, SecretAt
  <1>4. compute_routing_keys(S, PrivateKey(address)) = K
    BY <1>1, NodeKeys
  <1> HIDE DEF j, h, S, K, y
  <1>5. e \in {None, b}
    <2>1. CASE h = j.n
      <3>1. on.hop = "FinalHop"
        BY <2>1 DEF Onward
      <3> QED
        BY <1>2, <3>1 DEF shared_secret
    <2>2. CASE h # j.n
      <3> DEFINE hd == HeaderAt(j, sent, h + 1)
      <3>1. on.hop = "ForwardHop" /\ on.packet.header = hd
        BY <2>2 DEF Onward
      <3>2. hd.shared_secret = SecretAt(j, h + 1)
        BY DEF HeaderAt, HeaderFor, SecretAt
      <3>3. e = Some(SecretAt(j, h + 1))
        <4> HIDE DEF hd, on
        <4> QED
          BY <1>2, <3>1, <3>2 DEF shared_secret
      <3>4. blind_the_shared_secret(S, K.blinding_factor) = SecretAt(j, h + 1)
        <4> DEFINE r == RouteOf(j)
        <4>1. Len(r) \in Nat /\ h \in 1 .. Len(r) - 1
          BY <1>1, <2>2, RouteOfJob DEF IsJobRoute
        <4> HIDE DEF r
        <4>2. blind_the_shared_secret(accumulators(r, initial_secret)[h],
                                      routing_keys(r, initial_secret)[h].blinding_factor)
                = accumulators(r, initial_secret)[h + 1]
          BY <4>1, BlindedIsNext
        <4> QED
          BY <4>2 DEF r, S, K, SecretAt, KeysAt
      <3> QED
        BY <3>3, <3>4
    <2> QED
      BY <2>1, <2>2
  <1> HIDE DEF e
  <1>6. Entry = [new_blinded_secret |-> e, routing_keys |-> K]
    BY <1>3, <1>4 DEF Entry, e
  <1>7. Entry.new_blinded_secret = e /\ Entry.routing_keys = K
    BY <1>6
  <1> QED
    BY <1>3, <1>4, <1>5, <1>7 DEF EntryRight

LEMMA RememberRight ==
  ASSUME AtNode, fault.part[1] \notin HeaderParts, processed.ok, Remember
  PROVE  CacheRight(cache') /\ \A a \in Nodes : a # address => cache'[a] = cache[a]
  <1>1. CASE Known
    BY <1>1 DEF Remember, AtNode
  <1>2. CASE ~ Known
    <2> DEFINE f == cache[address]
               g == [s \in DOMAIN f \cup {secret} |-> IF s = secret THEN Entry ELSE f[s]]
    <2>1. cache' = [cache EXCEPT ![address] = g]
      BY <1>2 DEF Remember, Learned, Entry
    <2>2. cache = [a \in Nodes |-> cache[a]] /\ address \in Nodes
      BY NodeOfJob DEF AtNode, CacheRight
    <2>4. \A s \in DOMAIN g : \/ s \in DOMAIN f /\ g[s] = f[s]
                              \/ s = secret /\ g[s] = Entry
      <3> HIDE DEF f, Entry
      <3> QED
        OBVIOUS
    <2>5. \A s \in DOMAIN f : EntryRight(f[s], address, s)
      BY <2>2 DEF AtNode, CacheRight
    <2>6. EntryRight(Entry, address, secret)
      BY EntryIsRight
  <2> HIDE DEF f, g, Entry
    <2>7. \A s \in DOMAIN g : EntryRight(g[s], address, s)
      BY <2>4, <2>5, <2>6
    <2>8. \A a \in Nodes : cache'[a] = IF a = address THEN g ELSE cache[a]
      BY <2>1, <2>2
    <2>9. cache' = [a \in Nodes |-> cache'[a]]
      BY <2>1, <2>2
    <2>10. \A a \in Nodes : \A s \in DOMAIN cache'[a] : EntryRight(cache'[a][s], a, s)
      <3> TAKE a \in Nodes
      <3>1. CASE a = address
        BY <2>7, <2>8, <3>1
      <3>2. CASE a # address
        BY <2>8, <3>2 DEF AtNode, CacheRight
      <3> QED
        BY <3>1, <3>2
    <2> QED
      BY <2>8, <2>9, <2>10 DEF CacheRight
  <1> QED
    BY <1>1, <1>2

-----------------------------------------------------------------------------
(* Every step keeps the invariant. *)

(* A packet goes out. *)
LEMMA SentRight ==
  ASSUME IInv, outcome = "new", Routable(job), Fits(job),
         NEW w \in 1 .. job.n, ~ job.surb => w = job.n,
         links' = <<FirstPacket(job, sent, w)>>, address' = NameOf(job, 1),
         whole_keys' = w, outcome' = "travels", surbs' = {},
         UNCHANGED <<sent, job, hop, delay, fault, cache, received>>
  PROVE  IInv'
  <1> DEFINE j == job
             k == sent
             p == FirstPacket(j, k, w)
  <1>1. AtSender /\ JobRight
    BY AtTheSender
  <1>2. j \in JobType /\ hop = 1 /\ fault = NoFault /\ received = {}
    BY <1>1 DEF AtSender, JobRight
  <1>3. j.n \in Nat /\ 1 \in 1 .. j.n /\ w \in Nat \ {0} /\ w \in 0 .. j.n
    BY <1>2, RouteOfJob DEF IsJobRoute
  <1>4. /\ p = [header |-> p.header, payload |-> p.payload]
        /\ p.header = HeaderAt(j, k, 1) /\ p.payload = FirstPayload(j, k, w)
    BY DEF FirstPacket
  <1>5. PayloadAt(p.payload, j, k, w, 1)
    BY <1>2, <1>3, <1>4, FirstPayloadAt
  <1>6. ListedSlots(p)
    <2> DEFINE s == p.header.routing_info.slots
    <2>1. HeaderFormed(p.header, j, 1)
      BY <1>2, <1>3, <1>4, HeaderForm
    <2>2. AreSlots(s, MAX_PATH_LENGTH)
      BY <2>1 DEF HeaderFormed
    <2> QED
      BY <2>2 DEF AreSlots, ListedSlots
  <1> HIDE DEF p
  <1>7. links' = <<p>> /\ links'[1] = p /\ packet' = p
    BY <1>2 DEF packet, p
  <1>8. links' # <<>>
    BY <1>7
  <1>9. JobRight'
    <2>1. NameOf(j, 1) \in Nodes
      BY <1>2, <1>3, NodeOfJob
    <2> QED
      BY <1>1, <1>3, <2>1 DEF JobRight
  <1>10. PlaceRight'
    BY <1>2, <1>3 DEF PlaceRight
  <1>11. LinksRight'
    BY <1>2, <1>6, <1>7 DEF LinksRight
  <1>12. PacketRight(p, j, k, w, 1, NoFault)
    <2>1. NoFault.part[1] \notin HeaderParts
      BY DEF NoFault, HeaderParts
    <2> QED
      BY <1>4, <1>5, <2>1 DEF PacketRight
  <1>13. PacketRight(packet, job, sent, whole_keys, hop, fault)'
    BY <1>2, <1>7, <1>12
  <1>14. EndsRight'
    BY <1>2 DEF EndsRight
  <1>15. CacheRight(cache)' /\ FreshSecrets'
    BY DEF IInv, FreshSecrets
  <1> QED
    BY <1>8, <1>9, <1>10, <1>11, <1>13, <1>14, <1>15 DEF IInv, OnTheWay

(* A sender gives up. *)
LEMMA GivenUpRight ==
  ASSUME IInv, outcome = "new",
         outcome' \in {"panic", "InvalidSURB", "InvalidPayload"}, surbs' = {},
         whole_keys' \in 0 .. job.n,
         \/ ~ Valid /\ outcome' = Refusal
         \/ CutSURB' /\ outcome' = "InvalidSURB",
         UNCHANGED <<sent, job, links, address, hop, delay, fault, cache, received>>
  PROVE  IInv'
  <1>1. links = <<>> /\ AtSender /\ JobRight
    BY AtTheSender
  <1>2. JobRight'
    BY <1>1 DEF JobRight
  <1>3. (Valid <=> Valid') /\ Refusal = Refusal'
    BY DEF Valid, Refusal
  <1>4. AtSender'
    BY <1>1, <1>3 DEF AtSender
  <1>5. CacheRight(cache)' /\ FreshSecrets'
    BY DEF IInv, FreshSecrets
  <1> QED
    BY <1>1, <1>2, <1>4, <1>5 DEF IInv

LEMMA BuildRight == ASSUME IInv, Build PROVE IInv'
  <1> DEFINE j == job
             p == FirstPacket(j, sent, j.n)
  <1>1. AtSender /\ JobRight /\ outcome = "new" /\ ~ job.surb
    BY AtTheSender DEF Build
  <1>2. j \in JobType /\ surbs = {}
    BY <1>1 DEF AtSender, JobRight
  <1>3. BuildIs(build, j, sent)
    BY <1>2, BuildOfJob
  <1> HIDE DEF p
  <1>4. Routable(j) /\ Fits(j)
    BY <1>3, ErrIs DEF Build, BuildIs
  <1>5. build = [ok |-> TRUE, packet |-> p]
    BY <1>3, <1>4 DEF BuildIs, p
  <1>6. build.packet = p
    BY <1>5
  <1>7. j.n \in 1 .. j.n /\ 1 \in 1 .. j.n
    BY <1>2, <1>4, RouteOfJob DEF Routable, IsJobRoute
  <1>8. route[1].address = NameOf(j, 1)
    BY <1>2, <1>7, StateOfJob, NodeOfJob
  <1> QED
    BY <1>1, <1>2, <1>4, <1>6, <1>7, <1>8, SentRight DEF Build, p

LEMMA BuildFailsRight == ASSUME IInv, BuildFails PROVE IInv'
  <1> DEFINE j == job
  <1>1. AtSender /\ JobRight /\ outcome = "new" /\ ~ job.surb
    BY AtTheSender DEF BuildFails
  <1>2. j \in JobType /\ surbs = {} /\ whole_keys \in 0 .. j.n
    BY <1>1 DEF AtSender, JobRight
  <1>3. BuildIs(build, j, sent)
    BY <1>2, BuildOfJob
  <1>4. outcome' = IF ~ Routable(j) THEN "panic" ELSE "InvalidPayload"
    BY <1>3, ErrIs DEF BuildFails, BuildIs
  <1>5. ~ (Routable(j) /\ Fits(j))
    <2> SUFFICES ASSUME Routable(j), Fits(j) PROVE FALSE
      OBVIOUS
    <2>1. build = [ok |-> TRUE, packet |-> FirstPacket(j, sent, j.n)]
      BY <1>3 DEF BuildIs
    <2> QED
      BY <2>1 DEF BuildFails
  <1>6. ~ Valid /\ outcome' = Refusal
    BY <1>1, <1>4, <1>5, StateOfJob DEF Refusal, Routable
  <1> QED
    BY <1>1, <1>2, <1>4, <1>6, GivenUpRight DEF BuildFails

LEMMA MakeSURBRight == ASSUME IInv, MakeSURB PROVE IInv'
  <1> DEFINE j == job
             s == SurbOf(j, sent, j.n)
  <1>1. links = <<>> /\ AtSender /\ JobRight /\ outcome = "new" /\ job.surb
    BY AtTheSender DEF MakeSURB
  <1>2. j \in JobType
    BY <1>1 DEF JobRight
  <1>3. MadeIs(make_SURB, j, sent)
    BY <1>2, MadeOfJob
  <1> HIDE DEF s
  <1>4. Routable(j)
    BY <1>3, ErrIs DEF MakeSURB, MadeIs
  <1>5. make_SURB = [ok |-> TRUE, surb |-> s]
    BY <1>3, <1>4, MaxPathAssumption DEF MadeIs, Routable, s
  <1>6. surbs' = {s}
    BY <1>5 DEF MakeSURB
  <1>7. AtSender'
    BY <1>1, <1>4, <1>6 DEF MakeSURB, AtSender, s
  <1>8. JobRight' /\ FreshSecrets'
    BY <1>1 DEF MakeSURB, JobRight, IInv, FreshSecrets
  <1>9. CacheRight(cache)'
    BY DEF MakeSURB, IInv
  <1> QED
    BY <1>1, <1>7, <1>8, <1>9 DEF IInv, MakeSURB

LEMMA MakeSURBFailsRight == ASSUME IInv, MakeSURBFails PROVE IInv'
  <1> DEFINE j == job
             none == j.n = 0 \/ j.delays # j.n
  <1>1. AtSender /\ JobRight /\ outcome = "new" /\ job.surb /\ surbs = {}
    BY AtTheSender DEF MakeSURBFails
  <1>2. j \in JobType /\ whole_keys \in 0 .. j.n
    BY <1>1 DEF JobRight
  <1>3. MadeIs(make_SURB, j, sent)
    BY <1>2, MadeOfJob
  <1>4. ~ Routable(j)
    <2> SUFFICES ASSUME Routable(j) PROVE FALSE
      OBVIOUS
    <2>1. make_SURB = [ok |-> TRUE, surb |-> SurbOf(j, sent, j.n)]
      BY <1>3, MaxPathAssumption DEF MadeIs, Routable
    <2> QED
      BY <2>1 DEF MakeSURBFails
  <1>5. outcome' = IF none THEN "InvalidSURB" ELSE "panic"
    BY <1>3, <1>4, ErrIs DEF MakeSURBFails, MadeIs
  <1>6. ~ Valid /\ outcome' = Refusal
    BY <1>1, <1>4, <1>5, StateOfJob DEF Refusal, Routable
  <1>7. outcome' \in {"panic", "InvalidSURB", "InvalidPayload"}
    BY <1>5
  <1> QED
    BY <1>1, <1>2, <1>6, <1>7, GivenUpRight DEF MakeSURBFails

(* A SURB makes a packet under the keys that are left, or is of no use.    *)
SurbSent(w) ==
  /\ w \in 1 .. job.n /\ Fits(job)
  /\ links' = <<FirstPacket(job, sent, w)>> /\ address' = NameOf(job, 1) /\ outcome' = "travels"

SurbSpoilt(w) ==
  /\ UNCHANGED <<links, address>>
  /\ \/ w # job.n /\ outcome' = "InvalidSURB"
     \/ ~ Fits(job) /\ outcome' = "InvalidPayload"

LEMMA SurbIsUsed ==
  ASSUME IInv, UseSURB
  PROVE  /\ Routable(job) /\ job.surb /\ whole_keys' \in 0 .. job.n
         /\ SurbSent(whole_keys') \/ SurbSpoilt(whole_keys')
  <1> DEFINE j == job
             s == SurbOf(j, sent, j.n)
             w == whole_keys'
  <1>1. AtSender /\ JobRight /\ outcome = "new"
    BY AtTheSender DEF UseSURB
  <1>2. PICK surb \in surbs, keys \in 0 .. j.n, ragged \in BOOLEAN :
          LET read == surb_from_bytes(surb, keys, ragged)
              used == use_surb(read.surb, message, j.size)
          IN  /\ ragged => keys < j.n
              /\ whole_keys' = keys
              /\ IF read.ok /\ used.ok
                 THEN links' = <<used.packet>> /\ address' = used.address /\ outcome' = "travels"
                 ELSE /\ outcome' = IF read.ok THEN used.err ELSE read.err
                      /\ UNCHANGED <<links, address>>
    BY DEF UseSURB
  <1> DEFINE read == surb_from_bytes(surb, keys, ragged)
             used == use_surb(read.surb, message, j.size)
             t == SurbOf(j, sent, keys)
             p == FirstPacket(j, sent, keys)
  <1>3. j \in JobType /\ Routable(j) /\ j.surb /\ surb = s
    <2>1. surbs # {}
      BY <1>2
    <2> QED
      BY <1>1, <1>2, <2>1 DEF AtSender, JobRight
  <1>4. ReadIs(read, j, sent, keys, ragged)
    BY <1>3, ReadOfJob
  <1>5. j.n \in Nat /\ j.n # 0
    BY <1>3, RouteOfJob DEF IsJobRoute, Routable
  <1> HIDE DEF s, read, p
  <1>6. CASE keys = 0 \/ ragged
    <2>1. read = Err("InvalidSURB")
      BY <1>4, <1>6 DEF ReadIs
    <2>2. ~ read.ok /\ read.err = "InvalidSURB"
      BY <2>1, ErrIs
    <2>3. outcome' = "InvalidSURB" /\ UNCHANGED <<links, address>>
      BY <1>2, <2>2 DEF read
    <2>4. w # j.n /\ w \in 0 .. j.n
      BY <1>2, <1>5, <1>6
    <2> QED
      BY <1>3, <2>3, <2>4 DEF SurbSpoilt
  <1>7. CASE ~ (keys = 0 \/ ragged)
    <2>1. keys \in Nat \ {0} /\ keys \in 1 .. j.n
      BY <1>5, <1>7
    <2>2. read = [ok |-> TRUE, surb |-> t]
      BY <1>4, <1>7 DEF ReadIs
    <2> HIDE DEF t
    <2>3. read.ok = TRUE /\ read.surb = t
      BY <2>2
    <2>4. UsedIs(used, j, sent, keys)
      <3>1. message = MessageOf(j, sent)
        BY StateOfJob
      <3> QED
        BY <1>3, <2>1, <2>3, <3>1, UsedOfJob DEF t
    <2>a. w = keys /\ w \in 0 .. j.n
      BY <1>2
    <2> HIDE DEF used
    <2>5. CASE Fits(j)
      <3>1. used = [ok |-> TRUE, address |-> NameOf(j, 1), packet |-> p]
        BY <2>4, <2>5 DEF UsedIs, p
      <3>2. used.ok = TRUE /\ used.address = NameOf(j, 1) /\ used.packet = p
        BY <3>1
      <3>3. links' = <<p>> /\ address' = NameOf(j, 1) /\ outcome' = "travels"
        BY <1>2, <2>3, <3>2 DEF read, used
      <3> QED
        BY <1>3, <2>1, <2>a, <2>5, <3>3 DEF SurbSent, p
    <2>6. CASE ~ Fits(j)
      <3>1. used = Err("InvalidPayload")
        BY <2>4, <2>6 DEF UsedIs
      <3>2. ~ used.ok /\ used.err = "InvalidPayload"
        BY <3>1, ErrIs
      <3>3. outcome' = "InvalidPayload" /\ UNCHANGED <<links, address>>
        BY <1>2, <2>3, <3>2 DEF read, used
      <3> QED
        BY <1>3, <2>a, <2>6, <3>3 DEF SurbSpoilt
    <2> QED
      BY <2>5, <2>6
  <1> QED
    BY <1>6, <1>7

LEMMA UseSURBRight == ASSUME IInv, UseSURB PROVE IInv'
  <1> DEFINE j == job
             w == whole_keys'
  <1>1. outcome = "new" /\ surbs' = {}
        /\ UNCHANGED <<sent, job, hop, delay, fault, cache, received>>
    BY DEF UseSURB
  <1>2. Routable(j) /\ j.surb /\ w \in 0 .. j.n /\ (SurbSent(w) \/ SurbSpoilt(w))
    BY SurbIsUsed
  <1>3. CASE SurbSent(w)
    BY <1>1, <1>2, <1>3, SentRight DEF SurbSent
  <1>4. CASE SurbSpoilt(w)
    <2>1. w # j.n /\ outcome' = "InvalidSURB" => CutSURB'
      BY <1>1, <1>2 DEF CutSURB
    <2>2. ~ Fits(j) => ~ Valid /\ Refusal = "InvalidPayload"
      BY <1>2, MaxPathAssumption, StateOfJob DEF Refusal, Routable
    <2>3. /\ outcome' \in {"panic", "InvalidSURB", "InvalidPayload"}
          /\ \/ ~ Valid /\ outcome' = Refusal
             \/ CutSURB' /\ outcome' = "InvalidSURB"
      BY <1>4, <2>1, <2>2 DEF SurbSpoilt
    <2>4. UNCHANGED <<links, address>>
      BY <1>4 DEF SurbSpoilt
    <2> QED
      BY <1>1, <1>2, <2>3, <2>4, GivenUpRight
  <1> QED
    BY <1>2, <1>3, <1>4

(* The network alters a packet. *)
LEMMA MaulRight == ASSUME IInv, Maul PROVE IInv'
  <1> DEFINE j == job
             w == whole_keys
             h == hop
             y == packet.payload
             hd == HeaderAt(j, sent, h)
  <1>1. AtNode /\ OnTheWay /\ JobRight /\ links # <<>> /\ outcome = "travels" /\ fault = NoFault
    BY UnderWay DEF Maul, IInv
  <1>2. PICK part \in Parts :
          /\ links' = [links EXCEPT ![h] = Altered(packet, part)]
          /\ fault' = [part |-> part, at |-> h]
    BY DEF Maul, packet
  <1> DEFINE q == Altered(packet, part)
             f == [part |-> part, at |-> h]
  <1>3. j \in JobType /\ Routable(j) /\ h \in 1 .. j.n /\ h \in 1 .. h
    BY <1>1, RouteOfJob DEF AtNode, IsJobRoute
  <1>4. /\ packet = [header |-> hd, payload |-> y]
        /\ PayloadAt(y, j, sent, w, h)
    <2>1. PacketRight(packet, j, sent, w, h, NoFault)
      BY <1>1 DEF AtNode
    <2>2. NoFault.part[1] \notin HeaderParts
      BY DEF NoFault, HeaderParts
    <2> QED
      BY <2>1, <2>2 DEF PacketRight
  <1>5. links = [l \in 1 .. h |-> links[l]] /\ \A l \in 1 .. h : ListedSlots(links[l])
    BY <1>1 DEF OnTheWay, LinksRight
  <1>6. y.len \in Nat
    BY <1>4 DEF PayloadAt, IsBlob
  <1>7. part[1] # "none"
    BY DEF Parts
  <1>8. f # NoFault /\ f.part = part /\ f.at = h
    BY <1>7 DEF NoFault
  <1> HIDE DEF hd, y
  <1>9. /\ q = [header |-> q.header, payload |-> q.payload]
        /\ IF part[1] \in HeaderParts
           THEN q.payload = y /\ Refusable(q, j, h)
           ELSE q.header = hd /\ IsJunk(q.payload)
    <2>1. CASE part[1] \in HeaderParts
      BY <1>3, <1>4, <2>1, AlteredHeaderRefusable DEF hd
    <2>2. CASE part[1] \notin HeaderParts
      BY <1>4, <1>6, <2>2, AlteredPayloadJunk
    <2> QED
      BY <2>1, <2>2
  <1> HIDE DEF q, f
  <1>10. PacketRight(q, j, sent, w, h, f)
    BY <1>4, <1>8, <1>9 DEF PacketRight, hd
  <1>11. ListedSlots(q)
    <2>1. CASE part[1] \in HeaderParts
      BY <1>9, <2>1 DEF Refusable, ListedSlots
    <2>2. CASE part[1] \notin HeaderParts
      <3>1. packet.header = hd
        BY <1>4
      <3>2. ListedSlots(packet)
        BY <1>3, <1>5 DEF packet
      <3> QED
        BY <1>9, <2>2, <3>1, <3>2 DEF ListedSlots
    <2> QED
      BY <2>1, <2>2
  <1>12. hop' = h /\ links' = [l \in 1 .. h |-> IF l = h THEN q ELSE links[l]]
    BY <1>2, <1>3, <1>5 DEF Maul, q
  <1>13. packet' = q
    BY <1>3, <1>12 DEF packet
  <1>14. links' # <<>>
    <2>1. DOMAIN links' = 1 .. h
      BY <1>12
    <2>2. h \in DOMAIN links'
      BY <1>3, <2>1
    <2>3. h \notin DOMAIN <<>>
      OBVIOUS
    <2> QED
      BY <2>2, <2>3, Zenon
  <1>15. LinksRight'
    <2>1. links' = [l \in 1 .. h |-> links'[l]]
      BY <1>12
    <2>2. \A l \in 1 .. h : ListedSlots(links'[l])
      BY <1>5, <1>11, <1>12
    <2> QED
      BY <1>12, <2>1, <2>2 DEF LinksRight
  <1>16. fault' = f
    BY <1>2 DEF f
  <1>17. PacketRight(packet, job, sent, whole_keys, hop, fault)'
    BY <1>10, <1>13, <1>16 DEF Maul
  <1>18. PlaceRight'
    BY <1>1 DEF Maul, OnTheWay, PlaceRight
  <1>19. EndsRight'
    BY <1>1 DEF Maul, OnTheWay, EndsRight
  <1>20. JobRight' /\ FreshSecrets'
    BY <1>1 DEF Maul, JobRight, IInv, FreshSecrets
  <1>21. CacheRight(cache)'
    BY DEF Maul, IInv
  <1> QED
    BY <1>14, <1>15, <1>17, <1>18, <1>19, <1>20, <1>21 DEF IInv, OnTheWay

(* Whoever accepts a packet does with it what it should. *)
LEMMA AcceptedIsOnward ==
  ASSUME IInv, outcome = "travels", processed.ok
  PROVE  /\ fault.part[1] \notin HeaderParts
         /\ processed = Onward(job, sent, hop, packet.payload)
  <1>1. AtNode
    BY UnderWay
  <1>2. fault.part[1] \notin HeaderParts
    BY <1>1, BadHeaderProcessed, ErrIs
  <1> QED
    BY <1>1, <1>2, GoodHeaderProcessed, ErrIs

LEMMA RelayRight == ASSUME IInv, Relay PROVE IInv'
  <1> DEFINE j == job
             k == sent
             w == whole_keys
             h == hop
             y == packet.payload
             z == Unwrapped(j, h, y)
             hd == HeaderAt(j, k, h + 1)
             q == [header |-> hd, payload |-> z]
  <1>1. AtNode /\ OnTheWay /\ JobRight /\ links # <<>> /\ outcome = "travels"
    BY UnderWay DEF Relay, IInv
  <1>2. fault.part[1] \notin HeaderParts /\ processed = Onward(j, k, h, y)
    BY AcceptedIsOnward DEF Relay
  <1>3. /\ j \in JobType /\ Routable(j) /\ Fits(j) /\ w \in 1 .. j.n
        /\ h \in 1 .. j.n /\ j.n \in Nat /\ h \in Nat
    BY <1>1, RouteOfJob DEF AtNode, IsJobRoute
  <1>4. h # j.n
    <2> SUFFICES ASSUME h = j.n PROVE FALSE
      OBVIOUS
    <2>1. processed.hop = "FinalHop"
      BY <1>2 DEF Onward
    <2> QED
      BY <2>1 DEF Relay
  <1>5. h + 1 \in 1 .. j.n
    BY <1>3, <1>4
  <1>6. /\ processed.packet = q /\ processed.address = NameOf(j, h + 1)
        /\ processed.delay = <<k, h>>
    <2> DEFINE a == NameOf(j, h + 1)
    <2> HIDE DEF hd, z, a
    <2>1. processed = [ok |-> TRUE, hop |-> "ForwardHop", packet |-> q, address |-> a,
                       delay |-> <<k, h>>]
      BY <1>2, <1>4 DEF Onward, hd, z, a
    <2> QED
      BY <2>1 DEF a
  <1>7. IF fault = NoFault THEN PayloadAt(y, j, k, w, h) ELSE IsJunk(y)
    <2>1. PacketRight(packet, j, k, w, h, fault)
      BY <1>1 DEF AtNode
    <2> QED
      BY <1>2, <2>1 DEF PacketRight
  <1> HIDE DEF y
  <1>8. IF fault = NoFault THEN PayloadAt(z, j, k, w, h + 1) ELSE IsJunk(z)
    <2>1. CASE fault = NoFault
      BY <1>3, <1>7, <2>1, NextPayloadAt
    <2>2. CASE fault # NoFault
      BY <1>7, <2>2, JunkStays
    <2> QED
      BY <2>1, <2>2
  <1>9. ListedSlots(q)
    <2> DEFINE s == hd.routing_info.slots
    <2>1. HeaderFormed(hd, j, h + 1)
      BY <1>3, <1>5, HeaderForm
    <2>2. AreSlots(s, MAX_PATH_LENGTH)
      BY <2>1 DEF HeaderFormed
    <2>3. q.header = hd
      OBVIOUS
    <2> QED
      BY <2>2, <2>3 DEF AreSlots, ListedSlots
  <1>10. PacketRight(q, j, k, w, h + 1, fault)
    <2>1. q.header = hd /\ q.payload = z
      OBVIOUS
    <2>2. q = [header |-> q.header, payload |-> q.payload]
      BY <2>1
    <2> HIDE DEF q, z
    <2> QED
      BY <1>2, <1>8, <2>1, <2>2 DEF PacketRight
  <1> HIDE DEF q, z
  <1>11. links = [l \in 1 .. h |-> links[l]] /\ \A l \in 1 .. h : ListedSlots(links[l])
    BY <1>1 DEF OnTheWay, LinksRight
  <1>12. hop' = h + 1 /\ links' = [l \in 1 .. h + 1 |-> IF l = h + 1 THEN q ELSE links[l]]
    <2>1. hop' = h + 1 /\ links' = Append(links, q)
      BY <1>6 DEF Relay
    <2> QED
      BY <1>3, <1>11, <2>1, AppendList
  <1>13. packet' = q
    BY <1>3, <1>12 DEF packet
  <1>14. links' # <<>>
    <2>1. DOMAIN links' = 1 .. h + 1
      BY <1>12
    <2>2. h + 1 \in DOMAIN links'
      BY <1>3, <2>1
    <2>3. 1 \in DOMAIN links' /\ 1 \notin DOMAIN <<>>
      BY <1>3, <2>1
    <2> QED
      BY <2>3, Zenon
  <1>15. LinksRight'
    <2>1. links' = [l \in 1 .. h + 1 |-> links'[l]]
      BY <1>12
    <2>2. \A l \in 1 .. h + 1 : ListedSlots(links'[l])
      <3> TAKE l \in 1 .. h + 1
      <3>1. CASE l = h + 1
        BY <1>9, <1>12, <3>1
      <3>2. CASE l # h + 1
        <4>1. l \in 1 .. h
          BY <1>3, <3>2
        <4> QED
          BY <1>11, <1>12, <3>2, <4>1
      <3> QED
        BY <3>1, <3>2
    <2> QED
      BY <1>12, <2>1, <2>2 DEF LinksRight
  <1>16. PacketRight(packet, job, sent, whole_keys, hop, fault)'
    BY <1>10, <1>12, <1>13 DEF Relay
  <1>17. address' = NameOf(j, h + 1) /\ delay' = <<k, h>> /\ outcome' = "travels"
    BY <1>1, <1>6 DEF Relay
  <1>18. PlaceRight'
    <2>1. hop' - 1 = h /\ hop' \in 1 .. j.n
      BY <1>3, <1>5, <1>12
    <2> QED
      BY <1>1, <1>12, <1>17, <2>1 DEF Relay, OnTheWay, PlaceRight
  <1>19. EndsRight'
    BY <1>1, <1>2, <1>17 DEF Relay, OnTheWay, EndsRight
  <1>20. JobRight'
    <2>1. NameOf(j, h + 1) \in Nodes
      BY <1>3, <1>5, NodeOfJob
    <2> QED
      BY <1>1, <1>17, <2>1 DEF Relay, JobRight
  <1>21. CacheRight(cache') /\ \A a \in Nodes : a # address => cache'[a] = cache[a]
    BY <1>1, <1>2, RememberRight DEF Relay
  <1>22. FreshSecrets'
    <2> SUFFICES ASSUME sent = 1, NEW i \in h + 1 .. MAX_PATH_LENGTH + 1
                 PROVE  DOMAIN cache'[<<"a", i>>] = {}
      BY <1>12 DEF FreshSecrets, Relay
    <2>1. MAX_PATH_LENGTH \in Nat /\ h \in 1 .. MAX_PATH_LENGTH
      BY <1>3, MaxPathAssumption DEF Routable
    <2>2. address = <<"a", h>>
      <3>1. h < j.fork
        BY <1>1, <2>1 DEF JobRight
      <3> QED
        BY <1>1, <3>1 DEF AtNode, NameOf
    <2>3. i \in h .. MAX_PATH_LENGTH + 1 /\ i # h /\ i \in 1 .. MAX_PATH_LENGTH + 1
      BY <2>1
    <2>4. <<"a", i>> \in Nodes /\ <<"a", i>> # address
      BY <2>2, <2>3 DEF Nodes, Lines
    <2>5. DOMAIN cache[<<"a", i>>] = {}
      BY <1>1, <2>3 DEF IInv, FreshSecrets
    <2> QED
      BY <1>21, <2>4, <2>5
  <1>23. CacheRight(cache)'
    BY <1>21
  <1> QED
    BY <1>14, <1>15, <1>16, <1>18, <1>19, <1>20, <1>22, <1>23 DEF IInv, OnTheWay

(* The journey ends where the packet is. *)
LEMMA EndedRight ==
  ASSUME IInv, outcome = "travels",
         UNCHANGED <<sent, job, surbs, whole_keys, links, address, hop, delay, fault>>,
         CacheRight(cache'), outcome' \notin {"new", "travels"}, EndsRight'
  PROVE  IInv'
  <1>1. OnTheWay /\ JobRight /\ links # <<>>
    BY UnderWay DEF IInv
  <1>2. JobRight' /\ PlaceRight'
    BY <1>1 DEF OnTheWay, JobRight, PlaceRight
  <1>3. LinksRight'
    BY <1>1 DEF OnTheWay, LinksRight
  <1>4. packet' = packet
    BY DEF packet
  <1>5. PacketRight(packet, job, sent, whole_keys, hop, fault)'
    BY <1>1, <1>4 DEF OnTheWay
  <1>6. FreshSecrets' /\ CacheRight(cache)'
    BY DEF FreshSecrets
  <1> QED
    BY <1>1, <1>2, <1>3, <1>5, <1>6 DEF IInv, OnTheWay

LEMMA ArriveRight == ASSUME IInv, Arrive PROVE IInv'
  <1> DEFINE j == job
             k == sent
             w == whole_keys
             h == hop
             y == packet.payload
             z == Unwrapped(j, h, y)
             read == recover_plaintext(z)
             m == MessageOf(j, k)
  <1>1. AtNode /\ OnTheWay /\ outcome = "travels" /\ received = {}
    BY UnderWay DEF Arrive, IInv, OnTheWay, EndsRight
  <1>2. fault.part[1] \notin HeaderParts /\ processed = Onward(j, k, h, y)
    BY AcceptedIsOnward DEF Arrive
  <1>3. /\ j \in JobType /\ Routable(j) /\ Fits(j) /\ w \in 1 .. j.n
        /\ h \in 1 .. j.n /\ j.n \in Nat
    BY <1>1, RouteOfJob DEF AtNode, IsJobRoute
  <1>4. h = j.n
    <2> SUFFICES ASSUME h # j.n PROVE FALSE
      OBVIOUS
    <2>1. processed.hop = "ForwardHop"
      BY <1>2 DEF Onward
    <2> QED
      BY <2>1 DEF Arrive
  <1>5. /\ processed.destination = "destination" /\ processed.identifier = k
        /\ processed.payload = z
    <2> HIDE DEF z
    <2>1. processed = [ok |-> TRUE, hop |-> "FinalHop", destination |-> "destination",
                       identifier |-> k, payload |-> z]
      BY <1>2, <1>4 DEF Onward, z
    <2> QED
      BY <2>1
  <1>6. IF fault = NoFault THEN PayloadAt(y, j, k, w, h) ELSE IsJunk(y)
    <2>1. PacketRight(packet, j, k, w, h, fault)
      BY <1>1 DEF AtNode
    <2> QED
      BY <1>2, <2>1 DEF PacketRight
  <1>7. CacheRight(cache')
    BY <1>1, <1>2, RememberRight DEF Arrive
  <1> HIDE DEF y, m
  <1>8. read = IF fault = NoFault /\ w = j.n THEN [ok |-> TRUE, plaintext |-> m]
               ELSE Err("InvalidPayload")
    <2>1. CASE fault = NoFault
      <3>1. PayloadAt(z, j, k, w, j.n + 1)
        BY <1>3, <1>4, <1>6, <2>1, NextPayloadAt
      <3> HIDE DEF z
      <3>2. ReadBackIs(read, j, k, w)
        BY <1>3, <3>1, LastPayloadAt
      <3> QED
        BY <2>1, <3>2 DEF ReadBackIs, m
    <2>2. CASE fault # NoFault
      <3>1. IsJunk(z)
        BY <1>6, <2>2, JunkStays
      <3> HIDE DEF z
      <3>2. read = Err("InvalidPayload")
        BY <3>1, JunkStays
      <3> QED
        BY <2>2, <3>2
    <2> QED
      BY <2>1, <2>2
  <1> HIDE DEF z, read
  <1>9. IF read.ok
        THEN /\ received' = {[destination |-> "destination", identifier |-> k,
                              plaintext |-> read.plaintext]}
             /\ outcome' = "delivered"
        ELSE outcome' = read.err /\ UNCHANGED received
    BY <1>5 DEF Arrive, read
  <1>10. EndsRight' /\ outcome' \notin {"new", "travels"}
    <2>1. CASE fault = NoFault /\ w = j.n
      <3>1. read.ok = TRUE /\ read.plaintext = m
        BY <1>8, <2>1
      <3>2. received' = {Goods(j, k)} /\ outcome' = "delivered"
        BY <1>9, <3>1 DEF Goods, m
      <3> QED
        BY <1>2, <1>4, <2>1, <3>2 DEF EndsRight, Arrive
    <2>2. CASE ~ (fault = NoFault /\ w = j.n)
      <3>1. read = Err("InvalidPayload")
        BY <1>8, <2>2
      <3>2. outcome' = "InvalidPayload" /\ received' = {}
        BY <1>1, <1>9, <3>1, ErrIs
      <3> QED
        BY <1>2, <2>2, <3>2 DEF EndsRight, Arrive
    <2> QED
      BY <2>1, <2>2
  <1> QED
    BY <1>1, <1>7, <1>10, EndedRight DEF Arrive

(* A payload that nobody altered is long enough. *)
LEMMA LongEnough ==
  ASSUME AtNode, fault = NoFault
  PROVE  packet.payload.len > 32 /\ packet.payload.len \in Nat
  <1>1. PacketRight(packet, job, sent, whole_keys, hop, NoFault)
    BY DEF AtNode
  <1>2. NoFault.part[1] \notin HeaderParts
    BY DEF NoFault, HeaderParts
  <1>3. PayloadAt(packet.payload, job, sent, whole_keys, hop)
    BY <1>1, <1>2 DEF PacketRight
  <1>4. packet.payload.len = job.size /\ job.size > 32 /\ job.size \in Nat
    BY <1>3, JourneyAssumption DEF PayloadAt, AtNode, Fits, JobType
  <1> QED
    BY <1>4

(* Why a node refuses a packet. *)
LEMMA RefusedFor ==
  ASSUME IInv, outcome = "travels", ~ processed.ok
  PROVE  \/ processed = Err("InvalidHeader") /\ fault # NoFault
         \/ fault.part[1] \notin HeaderParts /\
              \/ processed \in {Err("InvalidPacket"), Err("InvalidPayload")} /\ fault # NoFault
              \/ processed = Err("InvalidHeader") /\ RememberedAsLast /\ sent > 1
  <1> DEFINE y == packet.payload
             z == Onward(job, sent, hop, y)
  <1>1. AtNode /\ JobRight
    BY UnderWay DEF IInv
  <1>2. CASE fault.part[1] \in HeaderParts
    <2>1. fault # NoFault
      BY <1>2 DEF NoFault, HeaderParts
    <2> QED
      BY <1>1, <1>2, <2>1, BadHeaderProcessed
  <1>3. CASE fault.part[1] \notin HeaderParts
    <2>1. processed = IF y.len < 17 THEN Err("InvalidPacket")
                      ELSE IF RememberedAsLast THEN Err("InvalidHeader")
                      ELSE IF y.len <= 32 THEN Err("InvalidPayload")
                      ELSE z
      BY <1>1, <1>3, GoodHeaderProcessed
    <2>2. z.ok = TRUE
      BY DEF Onward
    <2>3. fault = NoFault => y.len > 32 /\ y.len \in Nat
      BY <1>1, LongEnough
    <2> HIDE DEF y, z
    <2>4. fault = NoFault => ~ y.len < 17 /\ ~ y.len <= 32
      BY <2>3
    <2>5. RememberedAsLast => sent > 1
      <3> SUFFICES ASSUME RememberedAsLast, sent = 1 PROVE FALSE
        BY <1>1, JourneyAssumption DEF JobRight
      <3>1. MAX_PATH_LENGTH \in Nat /\ hop \in 1 .. MAX_PATH_LENGTH
        BY <1>1, MaxPathAssumption DEF AtNode, Routable
      <3>2. address = <<"a", hop>>
        <4>1. hop < job.fork
          BY <1>1, <3>1 DEF JobRight
        <4> QED
          BY <1>1, <4>1 DEF AtNode, NameOf
      <3>3. hop \in hop .. MAX_PATH_LENGTH + 1
        BY <3>1
      <3>4. DOMAIN cache[address] = {}
        BY <3>2, <3>3 DEF IInv, FreshSecrets
      <3> QED
        BY <3>4 DEF RememberedAsLast, Known
    <2> QED
      BY <1>3, <2>1, <2>2, <2>4, <2>5
  <1> QED
    BY <1>2, <1>3

LEMMA FailRight == ASSUME IInv, Fail PROVE IInv'
  <1>1. OnTheWay /\ outcome = "travels" /\ received = {} /\ CacheRight(cache)
    BY UnderWay DEF Fail, IInv, OnTheWay, EndsRight
  <1>2. ~ processed.ok /\ outcome' = processed.err /\ received' = {} /\ cache' = cache
    BY <1>1 DEF Fail
  <1>3. RememberedAsLast' = RememberedAsLast /\ sent' = sent /\ fault' = fault
    BY DEF Fail, RememberedAsLast, Known, secret, packet
  <1>4. /\ outcome' \in {"InvalidHeader", "InvalidPayload", "InvalidPacket"}
        /\ fault # NoFault \/ (RememberedAsLast /\ sent > 1)
        /\ fault.part[1] \in HeaderParts => outcome' = "InvalidHeader"
    BY <1>1, <1>2, RefusedFor, ErrIs
  <1>5. EndsRight'
    BY <1>2, <1>3, <1>4 DEF EndsRight
  <1> QED
    BY <1>1, <1>2, <1>4, <1>5, EndedRight DEF Fail

LEMMA AgainRight == ASSUME IInv, Again PROVE IInv'
  <1>1. links # <<>>
    BY DEF Again, IInv, AtSender
  <1>2. OnTheWay /\ JobRight
    BY <1>1 DEF IInv
  <1>3. PICK n \in 1 .. MAX_PATH_LENGTH, fork \in 2 .. MAX_PATH_LENGTH + 1 :
          job' = [job EXCEPT !.n = n, !.fork = fork, !.delays = n]
    BY DEF Again
  <1>4. sent \in Nat \ {0} /\ sent < MaxPackets /\ sent' = sent + 1 /\ MaxPackets \in Nat
    BY <1>2, JourneyAssumption DEF Again, JobRight
  <1>5. sent' \in 1 .. MaxPackets /\ sent' # 1
    BY <1>4
  <1>6. job' \in JobType /\ job'.n \in Nat
    <2>1. n \in Lengths /\ fork \in 2 .. MAX_PATH_LENGTH + 2 /\ n \in Nat
      BY MaxPathAssumption DEF Lengths
    <2>2. job'.n = n
      BY <1>2, <1>3 DEF JobRight, JobType
    <2> QED
      BY <1>2, <1>3, <2>1, <2>2 DEF JobRight, JobType
  <1>7. JobRight'
    BY <1>2, <1>5, <1>6 DEF Again, JobRight
  <1>8. AtSender' /\ links' = <<>>
    BY <1>2 DEF Again, OnTheWay, PlaceRight, AtSender
  <1>9. CacheRight(cache)' /\ FreshSecrets'
    BY <1>5 DEF Again, IInv, FreshSecrets
  <1> QED
    BY <1>7, <1>8, <1>9 DEF IInv

LEMMA IdleRight == ASSUME IInv, UNCHANGED vars PROVE IInv'
  <1>1. JobRight => JobRight'
    BY DEF vars, JobRight
  <1>2. AtSender => AtSender'
    BY DEF vars, AtSender, Valid, Refusal, CutSURB
  <1>3. packet' = packet /\ RememberedAsLast' = RememberedAsLast
    BY DEF vars, packet, RememberedAsLast, Known, secret
  <1>4. OnTheWay => OnTheWay'
    BY <1>3 DEF vars, OnTheWay, PlaceRight, LinksRight, EndsRight
  <1>5. FreshSecrets' /\ CacheRight(cache)'
    BY DEF vars, IInv, FreshSecrets
  <1> QED
    BY <1>1, <1>2, <1>4, <1>5 DEF IInv, vars

LEMMA StepRight == IInv /\ [Next]_vars => IInv'
  <1> SUFFICES ASSUME IInv, [Next]_vars PROVE IInv'
    OBVIOUS
  <1>1. CASE Build          BY <1>1, BuildRight
  <1>2. CASE BuildFails     BY <1>2, BuildFailsRight
  <1>3. CASE MakeSURB       BY <1>3, MakeSURBRight
  <1>4. CASE MakeSURBFails  BY <1>4, MakeSURBFailsRight
  <1>5. CASE UseSURB        BY <1>5, UseSURBRight
  <1>6. CASE Maul           BY <1>6, MaulRight
  <1>7. CASE Relay          BY <1>7, RelayRight
  <1>8. CASE Arrive         BY <1>8, ArriveRight
  <1>9. CASE Fail           BY <1>9, FailRight
  <1>10. CASE Again         BY <1>10, AgainRight
  <1>11. CASE Done          BY <1>11, IdleRight DEF Done
  <1>12. CASE UNCHANGED vars BY <1>12, IdleRight
  <1> QED
    BY <1>1, <1>2, <1>3, <1>4, <1>5, <1>6, <1>7, <1>8, <1>9, <1>10, <1>11, <1>12 DEF Next

LEMMA AlwaysRight == Spec => []IInv
  <1>1. Init => IInv
    BY InitRight
  <1>2. IInv /\ [Next]_vars => IInv'
    BY StepRight
  <1> QED
    BY <1>1, <1>2, PTL DEF Spec

-----------------------------------------------------------------------------
(* What follows for every journey. *)

LEMMA RightIsTyped == IInv => TypeOK
  <1> SUFFICES ASSUME IInv PROVE TypeOK
    OBVIOUS
  <1>1. JobRight /\ job \in JobType /\ job.n \in Nat /\ whole_keys \in 0 .. job.n
    BY RouteOfJob DEF IInv, JobRight, IsJobRoute
  <1>2. MAX_PATH_LENGTH \in Nat \ {0}
    BY MaxPathAssumption
  <1>3. whole_keys \in Lengths
    <2>1. job.n \in 0 .. MAX_PATH_LENGTH + 1
      BY <1>1 DEF JobType, Lengths
    <2> QED
      BY <1>1, <1>2, <2>1 DEF Lengths
  <1>4. Cardinality({}) <= 1 /\ \A x : Cardinality({x}) <= 1
    <2>1. Cardinality({}) = 0
      BY FS_EmptySet
    <2>2. \A x : Cardinality({x}) = 1
      BY FS_Singleton
    <2> QED
      BY <2>1, <2>2
  <1>5. CASE links = <<>>
    <2>1. AtSender
      BY <1>5 DEF IInv
    <2>2. Cardinality(surbs) <= 1 /\ Cardinality(received) <= 1
      BY <1>4, <2>1 DEF AtSender
    <2>3. hop \in 1 .. MAX_PATH_LENGTH
      BY <1>2, <2>1 DEF AtSender
    <2>4. Len(links) = 0 /\ DOMAIN links = {}
      BY <1>5
    <2> QED
      BY <1>1, <1>3, <1>5, <2>1, <2>2, <2>3, <2>4 DEF TypeOK, JobRight, AtSender
  <1>6. CASE links # <<>>
    <2>1. OnTheWay
      BY <1>6 DEF IInv
    <2>2. Cardinality(surbs) <= 1 /\ Cardinality(received) <= 1
      BY <1>4, <2>1 DEF OnTheWay, PlaceRight, EndsRight
    <2>3. hop \in 1 .. MAX_PATH_LENGTH /\ hop \in Nat
      BY <1>2, <2>1 DEF OnTheWay, PlaceRight, Routable
    <2>4. links = [l \in 1 .. hop |-> links[l]] /\ \A l \in 1 .. hop : ListedSlots(links[l])
      BY <2>1 DEF OnTheWay, LinksRight
    <2>5. Len(links) = hop /\ DOMAIN links = 1 .. hop
      BY <2>3, <2>4, LenOfList
    <2>6. \A l \in DOMAIN links : Len(links[l].header.routing_info.slots) = MAX_PATH_LENGTH
      <3> TAKE l \in DOMAIN links
      <3> DEFINE s == links[l].header.routing_info.slots
      <3>1. ListedSlots(links[l])
        BY <2>4, <2>5
      <3>2. s = [i \in 1 .. MAX_PATH_LENGTH |-> s[i]]
        BY <3>1 DEF ListedSlots
      <3> HIDE DEF s
      <3> QED
        BY <1>2, <3>2, LenOfList DEF s
    <2>7. outcome \in {"new", "travels", "delivered", "panic", "InvalidSURB", "InvalidHeader",
                       "InvalidPayload", "InvalidPacket"}
      BY <2>1 DEF OnTheWay, EndsRight
    <2> QED
      BY <1>1, <1>3, <1>6, <2>2, <2>3, <2>5, <2>6, <2>7 DEF TypeOK, JobRight
  <1> QED
    BY <1>5, <1>6

LEMMA RightArrives == IInv => HonestPacketArrives
  <1> SUFFICES ASSUME IInv PROVE HonestPacketArrives
    OBVIOUS
  <1>1. CASE links = <<>>
    <2>1. AtSender
      BY <1>1 DEF IInv
    <2> QED
      BY <1>1, <2>1 DEF HonestPacketArrives, AtSender, Ended
  <1>2. CASE links # <<>>
    <2>1. OnTheWay /\ JobRight
      BY <1>2 DEF IInv
    <2>2. Valid
      BY <2>1, StateOfJob DEF OnTheWay, PlaceRight
    <2>3. job \in JobType /\ hop \in 1 .. job.n /\ job.n \in Nat /\ job.delays = job.n
      BY <2>1, RouteOfJob DEF OnTheWay, PlaceRight, JobRight, IsJobRoute, Routable
    <2>4. address = route[hop].address
      BY <2>1, <2>3, StateOfJob, NodeOfJob DEF OnTheWay, PlaceRight
    <2>5. hop > 1 => delay = delays[hop - 1]
      <3> HAVE hop > 1
      <3>1. hop - 1 \in 1 .. job.delays
        BY <2>3
      <3> QED
        BY <2>1, <3>1 DEF delays, OnTheWay, PlaceRight
    <2>6. fault = NoFault /\ ~ CutSURB /\ ~ RememberedAsLast => outcome \in {"travels", "delivered"}
      BY <2>1 DEF OnTheWay, PlaceRight, EndsRight, CutSURB
    <2>7. outcome = "delivered" => hop = job.n
      BY <2>1 DEF OnTheWay, EndsRight
    <2> QED
      BY <1>2, <2>2, <2>4, <2>5, <2>6, <2>7 DEF HonestPacketArrives
  <1> QED
    BY <1>1, <1>2

LEMMA RightStops == IInv => AlteredHeaderStops
  <1> SUFFICES ASSUME IInv, fault.part[1] \in HeaderParts
               PROVE  hop = fault.at /\ outcome \in {"travels", "InvalidHeader"}
    BY DEF AlteredHeaderStops
  <1>1. links # <<>>
    BY DEF IInv, AtSender, NoFault, HeaderParts
  <1>2. OnTheWay
    BY <1>1 DEF IInv
  <1> QED
    BY <1>2 DEF OnTheWay, PacketRight, EndsRight

LEMMA RightReceives == IInv => OnlyTheMessage
  <1> SUFFICES ASSUME IInv PROVE OnlyTheMessage
    OBVIOUS
  <1>1. CASE links = <<>>
    BY <1>1 DEF IInv, AtSender, OnlyTheMessage
  <1>2. CASE links # <<>>
    <2>1. OnTheWay
      BY <1>2 DEF IInv
    <2>2. CASE outcome # "delivered"
      BY <2>1, <2>2 DEF OnTheWay, EndsRight, OnlyTheMessage
    <2>3. CASE outcome = "delivered"
      <3>1. received = {Goods(job, sent)} /\ fault = NoFault /\ whole_keys = job.n
        BY <2>1, <2>3 DEF OnTheWay, EndsRight
      <3>2. Goods(job, sent) = [destination |-> "destination", identifier |-> sent,
                                plaintext |-> message]
        BY StateOfJob DEF Goods
      <3> QED
        BY <2>3, <3>1, <3>2 DEF OnlyTheMessage, CutSURB
    <2> QED
      BY <2>2, <2>3
  <1> QED
    BY <1>1, <1>2

LEMMA RightAgrees == IInv => CachedAgrees
  <1> SUFFICES ASSUME IInv, outcome = "travels", packet_from_bytes(packet).ok
               PROVE  \/ processed = process(packet, PrivateKey(address))
                      \/ RememberedAsLast /\ processed = Err("InvalidHeader")
    BY DEF CachedAgrees
  <1> DEFINE y == packet.payload
             p == process(packet, PrivateKey(address))
             on == Onward(job, sent, hop, y)
  <1>1. AtNode
    BY UnderWay
  <1>2. CASE fault.part[1] \in HeaderParts
    BY <1>1, <1>2, BadHeaderProcessed
  <1>3. CASE fault.part[1] \notin HeaderParts
    <2>1. ~ y.len < 17
      <3> SUFFICES ASSUME y.len < 17 PROVE FALSE
        OBVIOUS
      <3>1. packet_from_bytes(packet) = Err("InvalidPacket")
        BY DEF packet_from_bytes, Payload!PAYLOAD_OVERHEAD_SIZE
      <3> QED
        BY <3>1, ErrIs
    <2>2. /\ processed = IF y.len < 17 THEN Err("InvalidPacket")
                         ELSE IF RememberedAsLast THEN Err("InvalidHeader")
                         ELSE IF y.len <= 32 THEN Err("InvalidPayload") ELSE on
          /\ p = IF y.len <= 32 THEN Err("InvalidPayload") ELSE on
      BY <1>1, <1>3, GoodHeaderProcessed
    <2> HIDE DEF y, p, on
    <2> QED
      BY <2>1, <2>2 DEF p
  <1> QED
    BY <1>2, <1>3

(* What there is of a packet is of its kind: a SURB or a message at most,  *)
(* a link per node, slots in each header, and the outcomes of the code.    *)
THEOREM JourneysAreTyped == Spec => []TypeOK
  BY AlwaysRight, RightIsTyped, PTL

(* Whatever the length of the route and the sizes of message and payload,  *)
(* the sender refuses a packet exactly when it cannot be built, and every  *)
(* node of the route accepts what nobody altered, learns the next node and *)
(* the delay meant for it, and the last one reads the message: the filler, *)
(* the layers and the MACs of the sender are what the nodes find.          *)
THEOREM HonestPacketsArrive == Spec => []HonestPacketArrives
  BY AlwaysRight, RightArrives, PTL

(* A secret, a MAC or a slot altered on any link makes the next node       *)
(* refuse the packet as invalid, also if it knows the shared secret.       *)
THEOREM AlteredHeadersStop == Spec => []AlteredHeaderStops
  BY AlwaysRight, RightStops, PTL

(* No altered or shortened payload, and no SURB without some of its keys,  *)
(* makes the last node hand out a message.                                 *)
THEOREM OnlyTheMessageIsReceived == Spec => []OnlyTheMessage
  BY AlwaysRight, RightReceives, PTL

(* What the nodes remember of a first packet serves them for a second one  *)
(* under the same secret, wherever its route forks off.                    *)
THEOREM RememberedKeysAgree == Spec => []CachedAgrees
  BY AlwaysRight, RightAgrees, PTL

-----------------------------------------------------------------------------
(* A journey is one of MixPacket. *)

PathOf(j) == [i \in 1 .. j.n |-> NameOf(j, i)]

MixPath == IF links = <<>> THEN <<>> ELSE [i \in 1 .. job.n |-> route[i].address]
MixAt   == IF links = <<>> THEN 0 ELSE hop
MixHere == IF links = <<>> THEN "sender" ELSE address
MixGoods == [destination |-> "destination", identifier |-> sent, plaintext |-> message]

HarmOf == IF fault.part[1] \in HeaderParts THEN "header"
          ELSE IF fault # NoFault \/ whole_keys # job.n THEN "payload" ELSE "none"

LEMMA SenderIs ==
  ASSUME IInv, links = <<>>
  PROVE  /\ MixPath = <<>> /\ MixAt = 0 /\ MixHere = "sender" /\ Damage = "none"
         /\ State = IF outcome = "new" THEN "idle" ELSE "refused"
         /\ received = {}
  <1>1. AtSender
    BY DEF IInv
  <1>2. Damage = "none"
    BY <1>1 DEF AtSender, Damage, NoFault, HeaderParts
  <1>3. State = IF outcome = "new" THEN "idle" ELSE "refused"
    BY <1>1 DEF AtSender, State
  <1> QED
    BY <1>1, <1>2, <1>3 DEF AtSender, MixPath, MixAt, MixHere

LEMMA OnTheWayIs ==
  ASSUME IInv, links # <<>>
  PROVE  /\ MixPath = PathOf(job) /\ MixAt = hop /\ MixHere = PathOf(job)[hop]
         /\ Damage = HarmOf
         /\ State = IF outcome \in {"travels", "delivered"} THEN outcome ELSE "lost"
         /\ Len(MixPath) = job.n /\ job.n \in 1 .. MAX_PATH_LENGTH /\ hop \in 1 .. job.n
  <1>1. OnTheWay /\ JobRight
    BY DEF IInv
  <1>2. job \in JobType /\ hop \in 1 .. job.n /\ job.n \in 1 .. MAX_PATH_LENGTH /\ job.n \in Nat
    BY <1>1, RouteOfJob DEF OnTheWay, PlaceRight, JobRight, Routable, IsJobRoute
  <1>3. MixPath = PathOf(job)
    <2>1. \A i \in 1 .. job.n : route[i].address = NameOf(job, i)
      BY <1>2, StateOfJob, NodeOfJob
    <2> QED
      BY <2>1 DEF MixPath, PathOf
  <1>4. Damage = HarmOf
    BY <1>1 DEF Damage, HarmOf, CutSURB, OnTheWay, PlaceRight, EndsRight
  <1>5. State = IF outcome \in {"travels", "delivered"} THEN outcome ELSE "lost"
    BY <1>1 DEF OnTheWay, EndsRight, State
  <1>6. MixAt = hop /\ MixHere = PathOf(job)[hop]
    BY <1>1, <1>2 DEF MixAt, MixHere, PathOf, OnTheWay, PlaceRight
  <1>7. Len(PathOf(job)) = job.n
    <2> DEFINE p == PathOf(job)
    <2>1. p = [i \in 1 .. job.n |-> p[i]]
      BY DEF PathOf
    <2> HIDE DEF p
    <2> QED
      BY <1>2, <2>1, LenOfList DEF p
  <1> QED
    BY <1>2, <1>3, <1>4, <1>5, <1>6, <1>7

LEMMA PathIsPath ==
  ASSUME NEW j \in JobType, Routable(j)
  PROVE  /\ PathOf(j) \in UNION {[1 .. n -> Nodes] : n \in 1 .. MAX_PATH_LENGTH}
         /\ PathOf(j) # <<>>
  <1>1. \A i \in 1 .. j.n : NameOf(j, i) \in Nodes
    BY NodeOfJob
  <1>2. PathOf(j) \in [1 .. j.n -> Nodes] /\ j.n \in 1 .. MAX_PATH_LENGTH
    BY <1>1 DEF PathOf, Routable
  <1>3. 1 \in DOMAIN PathOf(j) /\ 1 \notin DOMAIN <<>>
    BY <1>2, MaxPathAssumption
  <1> QED
    BY <1>2, <1>3, Zenon

LEMMA GoodsAre ==
  ASSUME JobRight
  PROVE  /\ MixGoods = Goods(job, sent)
         /\ MixGoods \in [destination : {"destination"}, identifier : 1 .. MaxPackets,
                          plaintext : [packet : 1 .. MaxPackets, len : MessageLengths]]
  <1>1. message = [packet |-> sent, len |-> job.message] /\ message = MessageOf(job, sent)
    BY StateOfJob DEF message
  <1>2. sent \in 1 .. MaxPackets /\ job.message \in MessageLengths
    BY DEF JobRight, JobType
  <1> QED
    BY <1>1, <1>2 DEF MixGoods, Goods

(* The same of any state, for both ends of a step. *)
ViewedRight ==
  /\ links = <<>> => /\ MixPath = <<>> /\ MixAt = 0 /\ MixHere = "sender" /\ Damage = "none"
                     /\ State = IF outcome = "new" THEN "idle" ELSE "refused"
  /\ links # <<>> => /\ MixPath = PathOf(job) /\ MixAt = hop /\ MixHere = PathOf(job)[hop]
                     /\ Damage = HarmOf
                     /\ State = IF outcome \in {"travels", "delivered"} THEN outcome ELSE "lost"
                     /\ Len(MixPath) = job.n
  /\ MixGoods = Goods(job, sent)
  /\ MixGoods \in [destination : {"destination"}, identifier : 1 .. MaxPackets,
                    plaintext : [packet : 1 .. MaxPackets, len : MessageLengths]]

LEMMA ViewIsRight == IInv => ViewedRight
  <1> SUFFICES ASSUME IInv PROVE ViewedRight
    OBVIOUS
  <1>1. MixGoods = Goods(job, sent)
        /\ MixGoods \in [destination : {"destination"}, identifier : 1 .. MaxPackets,
                          plaintext : [packet : 1 .. MaxPackets, len : MessageLengths]]
    BY GoodsAre DEF IInv
  <1> QED
    BY <1>1, SenderIs, OnTheWayIs DEF ViewedRight

LEMMA NextViewIsRight == IInv' => ViewedRight'
  BY ViewIsRight, PTL

LEMMA StartsAsPacket == Init => Mix!Init
  <1> SUFFICES ASSUME Init PROVE Mix!Init
    OBVIOUS
  <1>1. ViewedRight
    BY InitRight, ViewIsRight
  <1>2. sent = 1 /\ links = <<>> /\ outcome = "new" /\ received = {}
    BY DEF Init
  <1>3. /\ State = "idle" /\ Damage = "none"
        /\ MixPath = <<>> /\ MixAt = 0 /\ MixHere = "sender"
        /\ MixGoods \in [destination : {"destination"}, identifier : 1 .. MaxPackets,
                         plaintext : [packet : 1 .. MaxPackets, len : MessageLengths]]
    BY <1>1, <1>2 DEF ViewedRight
  <1> QED
    BY <1>2, <1>3 DEF MixPath, MixAt, MixHere, MixGoods, Mix!Init

(* A packet goes out. *)
LEMMA SendIsSend ==
  ASSUME IInv, IInv', links = <<>>, outcome = "new", links' # <<>>, outcome' = "travels",
         UNCHANGED <<sent, job, received, hop, fault>>
  PROVE  Mix!Send
  <1>1. ViewedRight /\ ViewedRight'
    BY ViewIsRight, NextViewIsRight
  <1>2. hop' = 1 /\ fault' = NoFault
    BY DEF IInv, AtSender
  <1>3. State = "idle" /\ State' = "travels"
    BY <1>1 DEF ViewedRight
  <1>4. MixPath' = PathOf(job) /\ MixAt' = 1 /\ MixHere' = PathOf(job)[1] /\ Damage' = HarmOf'
        /\ MixGoods' = MixGoods
    BY <1>1, <1>2 DEF ViewedRight
  <1>5. Damage' \in {"none", "payload"}
    <2>1. NoFault.part[1] \notin HeaderParts
      BY DEF NoFault, HeaderParts
    <2> QED
      BY <1>2, <1>4, <2>1 DEF HarmOf
  <1>6. /\ PathOf(job) \in UNION {[1 .. n -> Nodes] : n \in 1 .. MAX_PATH_LENGTH}
        /\ PathOf(job) # <<>>
    <2>1. job \in JobType /\ Routable(job)
      BY DEF IInv, JobRight, OnTheWay, PlaceRight
    <2> QED
      BY <2>1, PathIsPath
  <1> QED
    BY <1>3, <1>4, <1>5, <1>6 DEF MixPath, MixAt, MixHere, MixGoods, Mix!Send

(* A sender gives up. *)
LEMMA GiveUpIsRefuse ==
  ASSUME IInv, IInv', links = <<>>, outcome = "new", links' = <<>>, outcome' # "new",
         UNCHANGED <<sent, job, received>>
  PROVE  Mix!Refuse
  <1>1. ViewedRight /\ ViewedRight'
    BY ViewIsRight, NextViewIsRight
  <1>2. State = "idle" /\ State' = "refused"
    BY <1>1 DEF ViewedRight
  <1>3. UNCHANGED <<MixPath, MixAt, MixHere, MixGoods, Damage>>
    BY <1>1 DEF ViewedRight
  <1> QED
    BY <1>2, <1>3 DEF MixPath, MixAt, MixHere, MixGoods, Mix!Refuse

(* What stays the same when a packet on its way stays where it is. *)
LEMMA StaysHere ==
  ASSUME IInv, IInv', links # <<>>, links' # <<>>, UNCHANGED <<sent, job, hop>>
  PROVE  UNCHANGED <<MixPath, MixAt, MixHere, MixGoods>>
  <1>1. ViewedRight /\ ViewedRight'
    BY ViewIsRight, NextViewIsRight
  <1> QED
    BY <1>1 DEF ViewedRight

LEMMA MaulIsDamage == ASSUME IInv, IInv', Maul PROVE Mix!Damage
  <1>1. ViewedRight /\ ViewedRight'
    BY ViewIsRight, NextViewIsRight
  <1>2. links # <<>> /\ outcome = "travels" /\ fault = NoFault
    BY UnderWay DEF Maul
  <1>3. links' # <<>> /\ outcome' = "travels"
    BY <1>2 DEF Maul, IInv, AtSender
  <1>4. State = "travels" /\ State' = "travels" /\ Damage = HarmOf /\ Damage' = HarmOf'
    BY <1>1, <1>2, <1>3 DEF ViewedRight
  <1>5. Damage # "header"
    <2>1. NoFault.part[1] \notin HeaderParts
      BY DEF NoFault, HeaderParts
    <2> QED
      BY <1>2, <1>4, <2>1 DEF HarmOf
  <1>6. Damage' \in {"payload", "header"}
    <2>1. PICK part \in Parts : fault' = [part |-> part, at |-> hop]
      BY DEF Maul
    <2>2. fault'.part = part /\ NoFault.part[1] = "none"
      BY <2>1 DEF NoFault
    <2>3. part[1] # "none"
      BY DEF Parts
    <2>4. fault' # NoFault
      BY <2>2, <2>3
    <2> QED
      BY <1>4, <2>4 DEF HarmOf
  <1>7. UNCHANGED <<MixPath, MixAt, MixHere, MixGoods>>
    BY <1>2, <1>3, StaysHere DEF Maul
  <1>8. UNCHANGED <<sent, received>>
    BY DEF Maul
  <1> QED
    BY <1>4, <1>5, <1>6, <1>7, <1>8 DEF MixPath, MixAt, MixHere, MixGoods, Mix!Damage

LEMMA RelayIsMove == ASSUME IInv, IInv', Relay PROVE Mix!Move
  <1>1. ViewedRight /\ ViewedRight'
    BY ViewIsRight, NextViewIsRight
  <1>2. links # <<>> /\ outcome = "travels" /\ fault.part[1] \notin HeaderParts
        /\ outcome' = "travels"
    BY UnderWay, AcceptedIsOnward DEF Relay
  <1>3. links' # <<>> /\ hop' = hop + 1 /\ job' = job /\ sent' = sent
    <2>1. hop' = hop + 1 /\ hop \in Nat \ {0}
      BY <1>2 DEF Relay, IInv, OnTheWay, PlaceRight
    <2>2. hop' # 1
      BY <2>1
    <2> QED
      BY <2>1, <2>2 DEF Relay, IInv, AtSender
  <1>4. /\ State = "travels" /\ State' = "travels" /\ Damage = HarmOf /\ Damage' = HarmOf'
        /\ MixPath = PathOf(job) /\ MixPath' = PathOf(job)
        /\ MixAt = hop /\ MixAt' = hop + 1 /\ MixHere' = PathOf(job)[hop + 1]
        /\ MixGoods' = MixGoods /\ Len(MixPath) = job.n
    BY <1>1, <1>2, <1>3 DEF ViewedRight
  <1>5. Damage' = Damage /\ Damage # "header"
    BY <1>2, <1>4 DEF Relay, HarmOf
  <1>6. hop < job.n
    <2>1. hop + 1 \in 1 .. job.n /\ hop \in 1 .. job.n /\ job.n \in 1 .. MAX_PATH_LENGTH
      BY <1>2, <1>3 DEF IInv, OnTheWay, PlaceRight, Routable
    <2> QED
      BY <2>1, MaxPathAssumption
  <1>7. MixAt < Len(MixPath) /\ MixAt' = MixAt + 1 /\ MixHere' = MixPath[MixAt + 1]
        /\ MixPath' = MixPath
    BY <1>4, <1>6
  <1>8. UNCHANGED <<sent, received>>
    BY DEF Relay
  <1> QED
    BY <1>4, <1>5, <1>7, <1>8 DEF MixPath, MixAt, MixHere, MixGoods, Mix!Move

(* The end of a journey. *)
LEMMA EndIsEnd ==
  ASSUME IInv, IInv', outcome = "travels", outcome' \notin {"new", "travels"},
         UNCHANGED <<sent, job, surbs, whole_keys, links, address, hop, delay, fault>>,
         ~ outcome' = "delivered" =>
           fault # NoFault \/ whole_keys # job.n \/ (hop < job.n /\ sent > 1)
  PROVE  Mix!Deliver \/ Mix!Lose
  <1>1. ViewedRight /\ ViewedRight'
    BY ViewIsRight, NextViewIsRight
  <1>2. links # <<>> /\ links' # <<>> /\ received = {}
    BY UnderWay DEF IInv, OnTheWay, EndsRight
  <1>3. UNCHANGED <<MixPath, MixAt, MixHere, MixGoods>>
    BY <1>2, StaysHere
  <1>4. /\ State = "travels" /\ State' = IF outcome' = "delivered" THEN "delivered" ELSE "lost"
        /\ Damage = HarmOf /\ Damage' = HarmOf'
        /\ MixAt = hop /\ Len(MixPath) = job.n /\ MixGoods = Goods(job, sent)
    BY <1>1, <1>2 DEF ViewedRight
  <1>5. Damage' = Damage
    BY <1>4 DEF HarmOf
  <1>6. OnTheWay'
    BY <1>2 DEF IInv
  <1>7. CASE outcome' = "delivered"
    <2>1. hop = job.n /\ fault = NoFault /\ whole_keys = job.n
          /\ received' = {Goods(job, sent)}
      BY <1>6, <1>7 DEF OnTheWay, EndsRight
    <2>2. NoFault.part[1] \notin HeaderParts
      BY DEF NoFault, HeaderParts
    <2>3. Damage = "none" /\ MixAt = Len(MixPath) /\ received' = {MixGoods}
      BY <1>4, <2>1, <2>2 DEF HarmOf
    <2>4. State' = "delivered"
      BY <1>4, <1>7
    <2>5. Mix!Deliver
      BY <1>3, <1>4, <1>5, <2>3, <2>4 DEF MixPath, MixAt, MixHere, MixGoods, Mix!Deliver
    <2> QED
      BY <2>5
  <1>8. CASE outcome' # "delivered"
    <2>1. Damage # "none" \/ (sent > 1 /\ MixAt < Len(MixPath))
      BY <1>4, <1>8 DEF HarmOf
    <2>2. State' = "lost" /\ received' = received
      BY <1>2, <1>4, <1>6, <1>8 DEF OnTheWay, EndsRight
    <2>3. Mix!Lose
      BY <1>3, <1>4, <1>5, <2>1, <2>2 DEF MixPath, MixAt, MixHere, MixGoods, Mix!Lose
    <2> QED
      BY <2>3
  <1> QED
    BY <1>7, <1>8

LEMMA ArriveIsEnd == ASSUME IInv, IInv', Arrive PROVE Mix!Deliver \/ Mix!Lose
  <1>1. outcome = "travels" /\ processed = Onward(job, sent, hop, packet.payload)
    BY AcceptedIsOnward DEF Arrive
  <1>2. links # <<>> /\ links' = links
    BY <1>1, UnderWay DEF Arrive
  <1>3. OnTheWay' /\ hop' = hop /\ job' = job
    BY <1>2 DEF IInv, Arrive
  <1>4. hop = job.n
    <2> SUFFICES ASSUME hop # job.n PROVE FALSE
      OBVIOUS
    <2>1. processed.hop = "ForwardHop"
      BY <1>1 DEF Onward
    <2> QED
      BY <2>1 DEF Arrive
  <1>5. ~ RememberedAsLast'
    <2>1. job.n \in Nat
      BY RouteOfJob DEF IInv, JobRight, IsJobRoute
    <2> QED
      BY <1>3, <1>4, <2>1 DEF RememberedAsLast
  <1>6. outcome' \notin {"new", "travels"}
    <2> DEFINE read == recover_plaintext(processed.payload)
    <2>1. outcome' = IF read.ok THEN "delivered" ELSE read.err
      BY DEF Arrive
    <2>2. read.ok \/ read = Err("InvalidPayload")
      BY DEF recover_plaintext
    <2> HIDE DEF read
    <2> QED
      BY <2>1, <2>2, ErrIs
  <1>7. outcome' # "delivered" => fault # NoFault \/ whole_keys # job.n
    BY <1>3, <1>5, <1>6 DEF OnTheWay, EndsRight, Arrive
  <1> QED
    BY <1>1, <1>6, <1>7, EndIsEnd DEF Arrive

LEMMA FailIsLose == ASSUME IInv, IInv', Fail PROVE Mix!Deliver \/ Mix!Lose
  <1>1. outcome = "travels" /\ ~ processed.ok /\ outcome' = processed.err
    BY DEF Fail
  <1>2. outcome' \notin {"new", "travels"}
        /\ (fault # NoFault \/ (RememberedAsLast /\ sent > 1))
    BY <1>1, RefusedFor, ErrIs
  <1>3. fault # NoFault \/ (hop < job.n /\ sent > 1)
    BY <1>2 DEF RememberedAsLast
  <1> QED
    BY <1>1, <1>2, <1>3, EndIsEnd DEF Fail

LEMMA AgainIsReuse == ASSUME IInv, IInv', Again PROVE Mix!Reuse
  <1>1. ViewedRight /\ ViewedRight'
    BY ViewIsRight, NextViewIsRight
  <1>2. links # <<>> /\ outcome = "delivered"
    BY DEF Again, IInv, AtSender
  <1>3. links' = <<>> /\ outcome' = "new" /\ sent' = sent + 1 /\ received' = {}
    BY DEF Again
  <1>4. /\ State = "delivered" /\ State' = "idle" /\ Damage' = "none"
        /\ MixPath' = <<>> /\ MixAt' = 0 /\ MixHere' = "sender"
        /\ MixGoods' \in [destination : {"destination"}, identifier : 1 .. MaxPackets,
                          plaintext : [packet : 1 .. MaxPackets, len : MessageLengths]]
    BY <1>1, <1>2, <1>3 DEF ViewedRight
  <1> QED
    BY <1>3, <1>4 DEF MixPath, MixAt, MixHere, MixGoods, Mix!Reuse

(* A SURB that is made, and nothing at all, is nothing for the packet. *)
LEMMA SurbIsNothing == ASSUME IInv, IInv', MakeSURB PROVE UNCHANGED Mix!vars
  <1>1. ViewedRight /\ ViewedRight'
    BY ViewIsRight, NextViewIsRight
  <1>2. links = <<>> /\ outcome = "new" /\ outcome' = outcome /\ links' = links
        /\ UNCHANGED <<sent, job, received>>
    BY AtTheSender DEF MakeSURB
  <1>3. UNCHANGED <<State, Damage, MixPath, MixAt, MixHere, MixGoods>>
    BY <1>1, <1>2 DEF ViewedRight
  <1> QED
    BY <1>2, <1>3 DEF MixPath, MixAt, MixHere, MixGoods, Mix!vars

LEMMA NothingIsNothing == ASSUME UNCHANGED vars PROVE UNCHANGED Mix!vars
  <1>1. UNCHANGED <<State, Damage>>
    BY DEF vars, State, Damage, CutSURB
  <1>2. UNCHANGED <<MixPath, MixAt, MixHere, MixGoods>>
    BY DEF vars, MixPath, MixAt, MixHere, MixGoods, route, message
  <1> QED
    BY <1>1, <1>2 DEF vars, MixPath, MixAt, MixHere, MixGoods, Mix!vars

LEMMA MovesAsPacket ==
  ASSUME IInv, IInv', [Next]_vars
  PROVE  [Mix!Next]_(Mix!vars)
  <1> DEFINE Goal == Mix!Next \/ UNCHANGED Mix!vars
  <1>1. ASSUME Build PROVE Goal
    <2>1. links = <<>> /\ outcome = "new" /\ links' # <<>> /\ outcome' = "travels"
      BY <1>1, AtTheSender DEF Build
    <2>2. Mix!Send
      BY <1>1, <2>1, SendIsSend DEF Build
    <2> QED
      BY <2>2 DEF Mix!Next
  <1>2. ASSUME BuildFails PROVE Goal
    <2>1. links = <<>> /\ outcome = "new"
      BY <1>2, AtTheSender DEF BuildFails
    <2>2. outcome' # "new"
      <3>1. BuildIs(build, job, sent)
        BY BuildOfJob DEF IInv, JobRight
      <3> QED
        BY <1>2, <3>1, ErrIs DEF BuildFails, BuildIs
    <2>3. Mix!Refuse
      BY <1>2, <2>1, <2>2, GiveUpIsRefuse DEF BuildFails
    <2> QED
      BY <2>3 DEF Mix!Next
  <1>3. ASSUME MakeSURB PROVE Goal
    BY <1>3, SurbIsNothing
  <1>4. ASSUME MakeSURBFails PROVE Goal
    <2>1. links = <<>> /\ outcome = "new"
      BY <1>4, AtTheSender DEF MakeSURBFails
    <2>2. outcome' # "new"
      <3>1. MadeIs(make_SURB, job, sent)
        BY MadeOfJob DEF IInv, JobRight
      <3> QED
        BY <1>4, <3>1, ErrIs DEF MakeSURBFails, MadeIs
    <2>3. Mix!Refuse
      BY <1>4, <2>1, <2>2, GiveUpIsRefuse DEF MakeSURBFails
    <2> QED
      BY <2>3 DEF Mix!Next
  <1>5. ASSUME UseSURB PROVE Goal
    <2>1. links = <<>> /\ outcome = "new" /\ UNCHANGED <<sent, job, received, hop, fault>>
      BY <1>5, AtTheSender DEF UseSURB
    <2>2. surbs' = {}
      BY <1>5 DEF UseSURB
    <2>3. CASE links' = <<>>
      <3>1. outcome' # "new"
        BY <1>5, SurbIsUsed DEF SurbSent, SurbSpoilt
      <3>2. Mix!Refuse
        BY <2>1, <2>3, <3>1, GiveUpIsRefuse
      <3> QED
        BY <3>2 DEF Mix!Next
    <2>4. CASE links' # <<>>
      <3>1. outcome' = "travels"
        BY <1>5, <2>1, <2>4 DEF UseSURB
      <3>2. Mix!Send
        BY <2>1, <2>4, <3>1, SendIsSend
      <3> QED
        BY <3>2 DEF Mix!Next
    <2> QED
      BY <2>3, <2>4
  <1>6. ASSUME Maul PROVE Goal
    BY <1>6, MaulIsDamage DEF Mix!Next
  <1>7. ASSUME Relay PROVE Goal
    BY <1>7, RelayIsMove DEF Mix!Next
  <1>8. ASSUME Arrive PROVE Goal
    BY <1>8, ArriveIsEnd DEF Mix!Next
  <1>9. ASSUME Fail PROVE Goal
    BY <1>9, FailIsLose DEF Mix!Next
  <1>10. ASSUME Again PROVE Goal
    BY <1>10, AgainIsReuse DEF Mix!Next
  <1>11. ASSUME Done \/ UNCHANGED vars PROVE Goal
    BY <1>11, NothingIsNothing DEF Done
  <1>12. Goal
    <2> HIDE DEF Goal
    <2> QED
      BY <1>1, <1>2, <1>3, <1>4, <1>5, <1>6, <1>7, <1>8, <1>9, <1>10, <1>11 DEF Next
  <1> QED
    BY <1>12

(* A journey is what MixPacket promises: node for node along the path that *)
(* its sender chose, nothing lost that was not damaged, but a packet under *)
(* a secret used before, nothing damaged that is not lost, and to the last *)
(* node the very message.                                                  *)
THEOREM JourneysAreMixed == Spec => ImplementsMixPacket
  <1>1. Init => Mix!Init
    BY StartsAsPacket
  <1>2. IInv /\ IInv' /\ [Next]_vars => [Mix!Next]_(Mix!vars)
    BY MovesAsPacket
  <1> QED
    BY <1>1, <1>2, AlwaysRight, PTL DEF Spec, ImplementsMixPacket, Mix!Spec

-----------------------------------------------------------------------------
(* Two links of a journey have nothing in common.                          *)

(* What node h of the route shares with the sender. *)
SharedBy(j, h) == SecretAt(j, h) \cup PrivateKey(NameOf(j, h))

(* A secret is the first one, times the blinding factors so far. *)
LEMMA SecretsAre ==
  ASSUME NEW j \in JobType, NEW h \in 1 .. j.n
  PROVE  SecretAt(j, h) = initial_secret \cup {[blinds |-> SharedBy(j, i)] : i \in 1 .. h - 1}
  <1> DEFINE n == j.n
             A(i) == SecretAt(j, i)
             B(i) == [blinds |-> SharedBy(j, i)]
             Blinds(i) == {B(m) : m \in 1 .. i - 1}
             T == {i \in 1 .. n : A(i) = initial_secret \cup Blinds(i)}
  <1>1. n \in Nat /\ 1 \in 1 .. n
    BY RouteOfJob DEF IsJobRoute
  <1>2. \A i \in 1 .. n : A(i) = IF i = 1 THEN initial_secret ELSE A(i - 1) \cup {B(i - 1)}
    <2> DEFINE r == RouteOf(j)
               s == initial_secret
               a == accumulators(r, s)
               f(i) == derive(diffie_hellman(a[i - 1], r[i - 1].pub_key)).blinding_factor
    <2>1. Len(r) = n
      BY RouteOfJob DEF IsJobRoute
    <2>2. \A i \in 1 .. n : a[i] = IF i = 1 THEN s ELSE a[i - 1] \cup f(i)
      <3>1. a = [i \in 1 .. n |-> IF i = 1 THEN s ELSE a[i - 1] \cup f(i)]
        BY <1>1, <2>1, AccumulatorsRecur
      <3> HIDE DEF a, f, s
      <3> QED
        BY <3>1
    <2>3. \A i \in 1 .. n : A(i) = a[i]
      BY DEF SecretAt
    <2>4. ASSUME NEW i \in 1 .. n, i # 1 PROVE f(i) = {B(i - 1)}
      <3>1. i - 1 \in 1 .. j.n
        BY <1>1, <2>4
      <3>2. r[i - 1].pub_key = PrivateKey(NameOf(j, i - 1))
        BY <3>1, NodeOfJob
      <3>3. f(i) = {[blinds |-> a[i - 1] \cup r[i - 1].pub_key]}
        BY DEF derive, diffie_hellman
      <3> QED
        BY <2>3, <3>1, <3>2, <3>3 DEF SharedBy
    <2> HIDE DEF a, f, s, A, B
    <2>5. ASSUME NEW i \in 1 .. n, i # 1 PROVE A(i) = A(i - 1) \cup {B(i - 1)}
      <3>1. i - 1 \in 1 .. n
        BY <1>1, <2>5
      <3> QED
        BY <2>2, <2>3, <2>4, <2>5, <3>1
    <2> QED
      BY <1>1, <2>2, <2>3, <2>5 DEF s
  <1> HIDE DEF A, B, n
  <1>3. 1 \in T
    BY <1>1, <1>2
  <1>4. ASSUME NEW i \in 1 .. n - 1, i \in T PROVE i + 1 \in T
    <2>1. i + 1 \in 1 .. n /\ i + 1 # 1 /\ (i + 1) - 1 = i
      BY <1>1
    <2>2. A(i + 1) = A(i) \cup {B(i)}
      BY <1>2, <2>1
    <2>3. Blinds(i + 1) = Blinds(i) \cup {B(i)}
      <3>1. 1 .. (i + 1) - 1 = (1 .. i - 1) \cup {i}
        BY <1>1
      <3> HIDE DEF B
      <3> QED
        BY <3>1
    <2> HIDE DEF Blinds
    <2>4. A(i) = initial_secret \cup Blinds(i)
      BY <1>4
    <2> QED
      BY <2>1, <2>2, <2>3, <2>4
  <1>5. 1 .. n \subseteq T
    <2> HIDE DEF T
    <2>1. 1 \in Int /\ n \in Int
      BY <1>1
    <2> QED
      BY <1>3, <1>4, <2>1, UpFrom
  <1>6. h \in T
    BY <1>5 DEF n
  <1> QED
    BY <1>6 DEF A, B

(* No node's own exponent is in a secret on the way. *)
LEMMA NoNodeInSecrets ==
  ASSUME NEW j \in JobType, NEW h \in 1 .. j.n, NEW i
  PROVE  [secret |-> NameOf(j, i)] \notin SecretAt(j, h)
  <1> DEFINE e == [secret |-> NameOf(j, i)]
             B(m) == [blinds |-> SharedBy(j, m)]
  <1>1. e \notin initial_secret
    <2> DEFINE d == [secret |-> <<"sender", 1>>]
    <2>1. e.secret[1] \in {"a", "b"}
      BY DEF NameOf
    <2>2. d.secret[1] = "sender"
      OBVIOUS
    <2>3. e # d
      BY <2>1, <2>2
    <2>4. initial_secret = {d}
      BY DEF initial_secret, PrivateKey
    <2> HIDE DEF e, d
    <2> QED
      BY <2>3, <2>4
  <1>2. \A m : e # B(m)
    <2> TAKE m
    <2>1. DOMAIN e = {"secret"} /\ DOMAIN B(m) = {"blinds"}
      OBVIOUS
    <2>2. "secret" # "blinds"
      OBVIOUS
    <2> HIDE DEF e, B
    <2> QED
      BY <2>1, <2>2
  <1>3. SecretAt(j, h) = initial_secret \cup {B(m) : m \in 1 .. h - 1}
    BY SecretsAre
  <1> HIDE DEF e, B
  <1>4. e \notin SecretAt(j, h)
    BY <1>1, <1>2, <1>3
  <1> QED
    BY <1>4 DEF e

(* So no two nodes share the same with the sender. *)
LEMMA SharedDiffer ==
  ASSUME NEW j \in JobType, NEW g \in 1 .. j.n, NEW h \in 1 .. j.n, SharedBy(j, g) = SharedBy(j, h)
  PROVE  g = h
  <1> DEFINE e == [secret |-> NameOf(j, h)]
             d == [secret |-> NameOf(j, g)]
  <1>1. e \in SharedBy(j, g)
    BY DEF SharedBy, PrivateKey
  <1>2. e \notin SecretAt(j, g)
    BY NoNodeInSecrets
  <1>3. e = d
    <2>1. SharedBy(j, g) = SecretAt(j, g) \cup {d}
      BY DEF SharedBy, PrivateKey
    <2> HIDE DEF e, d
    <2> QED
      BY <1>1, <1>2, <2>1
  <1>4. NameOf(j, h) = NameOf(j, g)
    <2>1. e.secret = NameOf(j, h) /\ d.secret = NameOf(j, g)
      OBVIOUS
    <2> HIDE DEF e, d
    <2> QED
      BY <1>3, <2>1
  <1>5. NameOf(j, h)[2] = h /\ NameOf(j, g)[2] = g
    BY DEF NameOf
  <1> QED
    BY <1>4, <1>5

(* Each secret on the way has a factor more than those before it.          *)
LEMMA SecretsDiffer ==
  ASSUME NEW j \in JobType, NEW g \in 1 .. j.n, NEW h \in 1 .. j.n, g < h
  PROVE  SecretAt(j, g) # SecretAt(j, h)
  <1> DEFINE B(m) == [blinds |-> SharedBy(j, m)]
             b == B(g)
             d == [secret |-> <<"sender", 1>>]
  <1>1. j.n \in Nat /\ g \in 1 .. h - 1 /\ g \notin 1 .. g - 1
    BY RouteOfJob DEF IsJobRoute
  <1>2. SecretAt(j, g) = initial_secret \cup {B(m) : m \in 1 .. g - 1}
    BY SecretsAre
  <1>3. SecretAt(j, h) = initial_secret \cup {B(m) : m \in 1 .. h - 1}
    BY SecretsAre
  <1>4. ASSUME NEW m \in 1 .. g - 1 PROVE b # B(m)
    <2>1. m \in 1 .. j.n /\ m # g
      BY <1>1
    <2>2. SharedBy(j, g) # SharedBy(j, m)
      BY <2>1, SharedDiffer
    <2>3. b.blinds = SharedBy(j, g) /\ B(m).blinds = SharedBy(j, m)
      OBVIOUS
    <2> HIDE DEF B
    <2> QED
      BY <2>2, <2>3
  <1>5. b \notin initial_secret
    <2>1. DOMAIN d = {"secret"} /\ DOMAIN b = {"blinds"} /\ "secret" # "blinds"
      OBVIOUS
    <2>2. initial_secret = {d}
      BY DEF initial_secret, PrivateKey
    <2> HIDE DEF b, d
    <2>3. b # d
      BY <2>1
    <2> QED
      BY <2>2, <2>3
  <1>6. b \in SecretAt(j, h)
    <2> HIDE DEF B
    <2> QED
      BY <1>1, <1>3
  <1>7. b \notin SecretAt(j, g)
    <2> HIDE DEF B
    <2> QED
      BY <1>2, <1>4, <1>5
  <1> QED
    BY <1>6, <1>7

-----------------------------------------------------------------------------
(* Slots: what the route put there is under the keystream of the node that *)
(* is to read it, and what the nodes shifted in is under that of the last  *)
(* node that had it.                                                       *)

HasPieceOf(s, key) == \E p \in s.pads : p.key = key

IsZero(s) == s.base = [kind |-> "zero"]

(* Of the nodes of the route, whose keys are given. *)
UnderNode(s, keys, h)  == /\ ~ IsZero(s) /\ HasPieceOf(s, keys[h].stream_cipher_key)
                          /\ \A i \in 1 .. h - 1 : ~ HasPieceOf(s, keys[i].stream_cipher_key)

LeftBy(s, keys, h, n)  == /\ IsZero(s) /\ HasPieceOf(s, keys[h].stream_cipher_key)
                          /\ \A i \in h + 1 .. n : ~ HasPieceOf(s, keys[i].stream_cipher_key)

KeysDiffer(keys, n) ==
  \A g, h \in 1 .. n : keys[g].stream_cipher_key = keys[h].stream_cipher_key => g = h

LEMMA XoredPieces ==
  ASSUME NEW s, NEW key, NEW place, ~ HasPieceOf(s, key)
  PROVE  LET x == Xored(s, Piece(key, place)) IN
         /\ x.base = s.base /\ HasPieceOf(x, key)
         /\ \A k : k # key => (HasPieceOf(x, k) <=> HasPieceOf(s, k))
  <1> DEFINE x == Xored(s, Piece(key, place))
             e == [key |-> key, place |-> place]
  <1>1. x.base = s.base /\ x.pads = SymDiff(s.pads, Piece(key, place))
    BY XoredIsSlot
  <1>2. e.key = key
    OBVIOUS
  <1>3. Piece(key, place) = {e}
    BY DEF Piece
  <1> HIDE DEF x, e
  <1>4. e \notin s.pads
    BY <1>2 DEF HasPieceOf
  <1>5. x.pads = s.pads \cup {e}
    BY <1>1, <1>3, <1>4 DEF SymDiff
  <1>6. HasPieceOf(x, key) /\ \A k : k # key => (HasPieceOf(x, k) <=> HasPieceOf(s, k))
    BY <1>2, <1>5 DEF HasPieceOf
  <1> QED
    BY <1>1, <1>6 DEF x

(* Nothing was xored with a fresh slot. *)
LEMMA FreshSlot ==
  ASSUME NEW b
  PROVE  Slot(b).base = b /\ \A key : ~ HasPieceOf(Slot(b), key)
  BY DEF Slot, HasPieceOf

(* A piece more makes of what is under the next node what is under this.   *)
LEMMA OneMoreUnder ==
  ASSUME NEW n \in Nat, NEW keys, KeysDiffer(keys, n), NEW h \in 1 .. n, NEW s, NEW place,
         ~ IsZero(s), \A i \in 1 .. h : ~ HasPieceOf(s, keys[i].stream_cipher_key)
  PROVE  UnderNode(Xored(s, Piece(keys[h].stream_cipher_key, place)), keys, h)
  <1> DEFINE key == keys[h].stream_cipher_key
             x == Xored(s, Piece(key, place))
  <1>1. ~ HasPieceOf(s, key)
    OBVIOUS
  <1> HIDE DEF key
  <1>2. /\ x.base = s.base /\ HasPieceOf(x, key)
        /\ \A k : k # key => (HasPieceOf(x, k) <=> HasPieceOf(s, k))
    BY <1>1, XoredPieces
  <1> HIDE DEF x
  <1>3. ASSUME NEW i \in 1 .. h - 1 PROVE ~ HasPieceOf(x, keys[i].stream_cipher_key)
    <2>1. i \in 1 .. n /\ i \in 1 .. h /\ i # h
      OBVIOUS
    <2>2. keys[i].stream_cipher_key # key
      BY <2>1 DEF KeysDiffer, key
    <2> QED
      BY <1>2, <2>1, <2>2
  <1>4. ~ IsZero(x)
    BY <1>2 DEF IsZero
  <1>5. UnderNode(x, keys, h)
    BY <1>2, <1>3, <1>4 DEF UnderNode, key
  <1> QED
    BY <1>5 DEF x, key

(* And of what was left by the node before what is left by this one.       *)
LEMMA OneMoreLeft ==
  ASSUME NEW n \in Nat, NEW keys, KeysDiffer(keys, n), NEW h \in 1 .. n, NEW s, NEW place,
         IsZero(s), \A i \in h .. n : ~ HasPieceOf(s, keys[i].stream_cipher_key)
  PROVE  LeftBy(Xored(s, Piece(keys[h].stream_cipher_key, place)), keys, h, n)
  <1> DEFINE key == keys[h].stream_cipher_key
             x == Xored(s, Piece(key, place))
  <1>1. ~ HasPieceOf(s, key)
    OBVIOUS
  <1> HIDE DEF key
  <1>2. /\ x.base = s.base /\ HasPieceOf(x, key)
        /\ \A k : k # key => (HasPieceOf(x, k) <=> HasPieceOf(s, k))
    BY <1>1, XoredPieces
  <1> HIDE DEF x
  <1>3. ASSUME NEW i \in h + 1 .. n PROVE ~ HasPieceOf(x, keys[i].stream_cipher_key)
    <2>1. i \in 1 .. n /\ i \in h .. n /\ i # h
      OBVIOUS
    <2>2. keys[i].stream_cipher_key # key
      BY <2>1 DEF KeysDiffer, key
    <2> QED
      BY <1>2, <2>1, <2>2
  <1>4. IsZero(x)
    BY <1>2 DEF IsZero
  <1>5. LeftBy(x, keys, h, n)
    BY <1>2, <1>3, <1>4 DEF LeftBy, key
  <1> QED
    BY <1>5 DEF x, key

(* The filler after step i is what node i leaves. *)
LEMMA FillersLeft ==
  ASSUME NEW n \in 1 .. MAX_PATH_LENGTH, NEW keys, IsKeyList(keys, n), KeysDiffer(keys, n),
         NEW i \in 0 .. n - 1, NEW q \in 1 .. i
  PROVE  LeftBy(Fillers(Front(keys))[i][q], keys, i, n)
  <1> DEFINE M == MAX_PATH_LENGTH
             fk == Front(keys)
             F == Fillers(fk)
             T == {m \in 0 .. n - 1 : \A e \in 1 .. m : LeftBy(F[m][e], keys, m, n)}
  <1>1. M \in Nat \ {0} /\ n \in Nat \ {0} /\ n - 1 \in 0 .. M
    BY MaxPathAssumption
  <1>2. fk = [m \in 1 .. n - 1 |-> keys[m]] /\ Len(fk) = n - 1
    BY <1>1, FrontOfKeys
  <1>3. AreFillers(F, fk, n - 1)
    <2> HIDE DEF fk
    <2> QED
      BY <1>1, <1>2, FillersShape
  <1>4. IsZero(zero_slot) /\ \A key : ~ HasPieceOf(zero_slot, key)
    BY FreshSlot DEF zero_slot, IsZero
  <1> HIDE DEF F, fk
  <1>5. 0 \in T
    BY <1>1
  <1>6. ASSUME NEW m \in 0 .. (n - 1) - 1, m \in T PROVE m + 1 \in T
    <2> DEFINE f == F[m + 1]
               g == F[m]
               k == keys[m + 1].stream_cipher_key
    <2>1. m + 1 \in 1 .. n - 1 /\ (m + 1) - 1 = m /\ m + 1 \in 0 .. n - 1 /\ m + 1 \in 1 .. n
      BY <1>1
    <2>2. IsStep(f, g, k, m + 1)
      <3>1. fk[m + 1] = keys[m + 1]
        BY <1>2, <2>1
      <3>2. IsStep(F[m + 1], F[(m + 1) - 1], fk[m + 1].stream_cipher_key, m + 1)
        BY <1>3, <2>1 DEF AreFillers
      <3> QED
        BY <2>1, <3>1, <3>2
    <2>3. \A e \in 1 .. m : LeftBy(g[e], keys, m, n)
      BY <1>6
    <2> HIDE DEF f, g
    <2>4. ASSUME NEW e \in 1 .. m + 1 PROVE LeftBy(f[e], keys, m + 1, n)
      <3> DEFINE b == IF e = m + 1 THEN zero_slot ELSE g[e]
                 pl == M + 1 - (m + 1) + e
      <3>1. f[e] = Xored(b, Piece(k, pl))
        BY <2>2 DEF IsStep
      <3>2. IsZero(b) /\ \A x \in m + 1 .. n : ~ HasPieceOf(b, keys[x].stream_cipher_key)
        <4>1. CASE e = m + 1
          BY <1>4, <4>1
        <4>2. CASE e # m + 1
          <5>1. e \in 1 .. m
            BY <4>2
          <5>2. LeftBy(g[e], keys, m, n)
            BY <2>3, <5>1
          <5> QED
            BY <4>2, <5>2 DEF LeftBy
        <4> QED
          BY <4>1, <4>2
      <3> HIDE DEF b, pl
      <3>3. LeftBy(Xored(b, Piece(k, pl)), keys, m + 1, n)
        BY <1>1, <2>1, <3>2, OneMoreLeft
      <3> QED
        BY <3>1, <3>3
    <2> QED
      BY <2>1, <2>4 DEF f
  <1>7. 0 .. n - 1 \subseteq T
    <2> HIDE DEF T
    <2>1. 0 \in Int /\ n - 1 \in Int
      BY <1>1
    <2> QED
      BY <1>5, <1>6, <2>1, UpFrom
  <1>8. i \in T
    BY <1>7
  <1> QED
    BY <1>8 DEF F, fk

(* Slot q of what node h gets. *)
SlotOfNode(s, keys, h, n) == UnderNode(s, keys, h) \/ (h > 1 /\ LeftBy(s, keys, h - 1, n))

LEMMA LayersUnder ==
  ASSUME NEW r, NEW ds, IsRoute(r, ds), NEW keys, IsKeyList(keys, Len(r)),
         KeysDiffer(keys, Len(r)), NEW d, NEW coins,
         NEW h \in 1 .. Len(r), NEW q \in 1 .. MAX_PATH_LENGTH
  PROVE  SlotOfNode(LayersOf(r, d, ds, keys, coins)[h].slots[q], keys, h, Len(r))
  <1> DEFINE M == MAX_PATH_LENGTH
             n == Len(r)
             F == Fillers(Front(keys))
             L == LayersOf(r, d, ds, keys, coins)
             T == {i \in 1 .. n : \A e \in 1 .. M - (i - 1) : UnderNode(L[i].slots[e], keys, i)}
  <1>1. M \in Nat \ {0} /\ n \in 1 .. M /\ n \in Nat \ {0} /\ n \in 1 .. n
    BY MaxPathAssumption DEF IsRoute
  <1>2. AreLayers(L, r, d, ds, keys, coins)
    BY LayersShape
  <1>3. \A b : b.kind # "zero" =>
               ~ IsZero(Slot(b)) /\ \A i \in 1 .. n : ~ HasPieceOf(Slot(b), keys[i].stream_cipher_key)
    <2> TAKE b
    <2> HAVE b.kind # "zero"
    <2>1. Slot(b).base = b /\ \A key : ~ HasPieceOf(Slot(b), key)
      BY FreshSlot
    <2>2. b # [kind |-> "zero"]
      OBVIOUS
    <2> QED
      BY <2>1, <2>2 DEF IsZero
  <1>4. \A e \in 1 .. h - 1 : LeftBy(F[h - 1][e], keys, h - 1, n)
    <2> DEFINE i == h - 1
    <2>1. i \in 0 .. n - 1
      BY <1>1
    <2>2. n \in 1 .. M /\ IsKeyList(keys, n) /\ KeysDiffer(keys, n)
      BY <1>1
    <2> HIDE DEF n, i, F
    <2>3. \A e \in 1 .. i : LeftBy(Fillers(Front(keys))[i][e], keys, i, n)
      BY <2>1, <2>2, FillersLeft
    <2> QED
      BY <2>3 DEF F, i
  <1>5. EndsIn(L[h], F[h - 1], h - 1)
    BY <1>2 DEF AreLayers
  <1> HIDE DEF F, L
  <1>6. n \in T
    <2> DEFINE x == L[n]
               k == keys[n].stream_cipher_key
    <2>1. IsInnermost(x, d, coins, keys[n], n)
      BY <1>2 DEF AreLayers
    <2>2. \A i \in 1 .. n : i \in 1 .. n
      OBVIOUS
    <2> HIDE DEF x, n
    <2>3. ASSUME NEW e \in 1 .. M - (n - 1) PROVE UnderNode(x.slots[e], keys, n)
      <3> DEFINE b == IF e = 1
                      THEN [kind |-> "final", destination |-> d.address,
                            identifier |-> d.identifier, padding |-> coins]
                      ELSE [kind |-> "padding", coin |-> coins, place |-> e]
      <3>1. b.kind # "zero"
        OBVIOUS
      <3>2. x.slots[e] = Xored(Slot(b), Piece(k, e))
        <4>1. CASE e = 1
          BY <2>1, <4>1 DEF IsInnermost, LastSlot
        <4>2. CASE e # 1
          <5>1. e \in 2 .. M - (n - 1)
            BY <1>1, <4>2
          <5> QED
            BY <2>1, <4>2, <5>1 DEF IsInnermost
        <4> QED
          BY <4>1, <4>2
      <3> HIDE DEF b
      <3> DEFINE s == Slot(b)
      <3>3. ~ IsZero(s) /\ \A i \in 1 .. n : ~ HasPieceOf(s, keys[i].stream_cipher_key)
        BY <1>3, <3>1
      <3> HIDE DEF s
      <3>4. UnderNode(Xored(s, Piece(k, e)), keys, n)
        BY <1>1, <3>3, OneMoreUnder DEF n
      <3> QED
        BY <3>2, <3>4 DEF s
    <2> QED
      BY <1>1, <2>3 DEF x
  <1>7. ASSUME NEW i \in 1 .. n - 1, i + 1 \in T PROVE i \in T
    <2> DEFINE x     == L[i]
               inner == L[i + 1]
               first == HopSlot(r, ds, i, inner)
               k     == keys[i].stream_cipher_key
    <2>1. IsAround(x, first, inner, keys[i])
      BY <1>2 DEF AreLayers
    <2>2. \A e \in 1 .. M - ((i + 1) - 1) : UnderNode(inner.slots[e], keys, i + 1)
      BY <1>7
    <2>3. ~ IsZero(first) /\ \A m \in 1 .. n : ~ HasPieceOf(first, keys[m].stream_cipher_key)
      <3> DEFINE b == [kind |-> "forward", address |-> r[i + 1].address, delay |-> ds[i],
                       mac |-> inner.integrity_mac]
      <3>1. b.kind # "zero" /\ first = Slot(b)
        BY DEF HopSlot
      <3> HIDE DEF b, first
      <3> QED
        BY <1>3, <3>1
    <2>4. i \in 1 .. n
      BY <1>1
    <2> HIDE DEF x, inner, first, n
    <2>5. ASSUME NEW e \in 1 .. M - (i - 1) PROVE UnderNode(x.slots[e], keys, i)
      <3> DEFINE s == IF e = 1 THEN first ELSE inner.slots[e - 1]
      <3>1. x.slots[e] = Xored(s, Piece(k, e))
        <4>1. e \in 1 .. M
          BY <1>1, <2>4
        <4> QED
          BY <2>1, <4>1 DEF IsAround, SlotAround
      <3>2. ~ IsZero(s) /\ \A m \in 1 .. i : ~ HasPieceOf(s, keys[m].stream_cipher_key)
        <4>1. CASE e = 1
          <5>1. \A m \in 1 .. i : m \in 1 .. n
            BY <1>1, <2>4
          <5> QED
            BY <2>3, <4>1, <5>1
        <4>2. CASE e # 1
          <5>1. e - 1 \in 1 .. M - ((i + 1) - 1) /\ (i + 1) - 1 = i
            BY <1>1, <2>4, <4>2
          <5>2. UnderNode(inner.slots[e - 1], keys, i + 1)
            BY <2>2, <5>1
          <5> QED
            BY <4>2, <5>1, <5>2 DEF UnderNode
        <4> QED
          BY <4>1, <4>2
      <3> HIDE DEF s
      <3>3. UnderNode(Xored(s, Piece(k, e)), keys, i)
        <4>1. n \in Nat /\ KeysDiffer(keys, n)
          BY <1>1 DEF n
        <4> QED
          BY <2>4, <3>2, <4>1, OneMoreUnder
      <3> QED
        BY <3>1, <3>3
    <2> QED
      BY <2>4, <2>5 DEF x
  <1>8. 1 .. n \subseteq T
    <2> HIDE DEF T, n
    <2>1. 1 \in Int /\ n \in Int
      BY <1>1
    <2> QED
      BY <1>6, <1>7, <2>1, DownFrom
  <1>9. CASE q <= M - (h - 1)
    <2>1. h \in T /\ q \in 1 .. M - (h - 1)
      BY <1>1, <1>8, <1>9
    <2>2. UnderNode(L[h].slots[q], keys, h)
      BY <2>1
    <2> QED
      BY <2>2 DEF SlotOfNode, L
  <1>10. CASE ~ q <= M - (h - 1)
    <2> DEFINE e == q - (M - (h - 1))
    <2>1. e \in 1 .. h - 1 /\ M - (h - 1) + e = q /\ h > 1
      BY <1>1, <1>10
    <2> HIDE DEF e
    <2>2. L[h].slots[q] = F[h - 1][e]
      BY <1>5, <2>1 DEF EndsIn
    <2>3. LeftBy(L[h].slots[q], keys, h - 1, n)
      BY <1>4, <2>1, <2>2
    <2> QED
      BY <2>1, <2>3 DEF SlotOfNode, L
  <1> QED
    BY <1>9, <1>10

(* So no two nodes get the same slot. *)
LEMMA NodesSlotsDiffer ==
  ASSUME NEW n \in Nat, NEW keys, NEW g \in 1 .. n, NEW h \in 1 .. n, g < h,
         NEW s, SlotOfNode(s, keys, g, n), SlotOfNode(s, keys, h, n)
  PROVE  FALSE
  <1>1. g \in 1 .. h - 1 /\ h \in g + 1 .. n /\ (g - 1) + 1 = g
    OBVIOUS
  <1>2. CASE UnderNode(s, keys, g) /\ UnderNode(s, keys, h)
    BY <1>1, <1>2 DEF UnderNode
  <1>3. CASE LeftBy(s, keys, g - 1, n) /\ LeftBy(s, keys, h - 1, n)
    <2>1. h - 1 \in (g - 1) + 1 .. n
      BY <1>1
    <2> QED
      BY <1>3, <2>1 DEF LeftBy
  <1>4. UnderNode(s, keys, g) => ~ IsZero(s)
    BY DEF UnderNode
  <1>5. UnderNode(s, keys, h) => ~ IsZero(s)
    BY DEF UnderNode
  <1>6. LeftBy(s, keys, g - 1, n) \/ LeftBy(s, keys, h - 1, n) => IsZero(s)
    BY DEF LeftBy
  <1> QED
    BY <1>2, <1>3, <1>4, <1>5, <1>6 DEF SlotOfNode

-----------------------------------------------------------------------------
(* The header on one link against that on another.                         *)

HeadersDiffer(p, q) ==
  /\ p.shared_secret # q.shared_secret
  /\ p.routing_info.integrity_mac # q.routing_info.integrity_mac
  /\ \A i, m \in 1 .. MAX_PATH_LENGTH : p.routing_info.slots[i] # q.routing_info.slots[m]

(* The header for node h, but for what the network altered in one place.   *)
HeaderLike(hd, was) ==
  /\ hd.shared_secret = was.shared_secret \/ junk_exponent \in hd.shared_secret
  /\ \/ hd.routing_info.integrity_mac = was.routing_info.integrity_mac
     \/ hd.routing_info.integrity_mac = [junk |-> was.routing_info.integrity_mac]
  /\ \A i \in 1 .. MAX_PATH_LENGTH :
       \/ hd.routing_info.slots[i] = was.routing_info.slots[i]
       \/ ~ Clean(hd.routing_info.slots[i])

LEMMA KeysOfNodes ==
  ASSUME NEW j \in JobType, NEW h \in 1 .. j.n
  PROVE  /\ KeysAt(j, h).stream_cipher_key = [stream |-> SharedBy(j, h)]
         /\ KeysAt(j, h).header_integrity_hmac_key = [hmac |-> SharedBy(j, h)]
  <1> DEFINE s == SharedBy(j, h)
  <1>1. KeysAt(j, h) = derive(s)
    BY NodeKeys DEF SharedBy
  <1> HIDE DEF s
  <1>2. derive(s).stream_cipher_key = [stream |-> s]
        /\ derive(s).header_integrity_hmac_key = [hmac |-> s]
    BY DEF derive
  <1> QED
    BY <1>1, <1>2 DEF s

(* The nodes' keystreams and MAC keys are all different. *)
LEMMA KeysOfNodesDiffer ==
  ASSUME NEW j \in JobType
  PROVE  /\ KeysDiffer(routing_keys(RouteOf(j), initial_secret), j.n)
         /\ \A g, h \in 1 .. j.n : g # h =>
              KeysAt(j, g).header_integrity_hmac_key # KeysAt(j, h).header_integrity_hmac_key
  <1> DEFINE K == routing_keys(RouteOf(j), initial_secret)
  <1>1. \A x, y : [stream |-> x] = [stream |-> y] => x = y
    <2> TAKE x, y
    <2>1. [stream |-> x].stream = x /\ [stream |-> y].stream = y
      OBVIOUS
    <2> QED
      BY <2>1
  <1>2. \A x, y : [hmac |-> x] = [hmac |-> y] => x = y
    <2> TAKE x, y
    <2>1. [hmac |-> x].hmac = x /\ [hmac |-> y].hmac = y
      OBVIOUS
    <2> QED
      BY <2>1
  <1>3. ASSUME NEW g \in 1 .. j.n, NEW h \in 1 .. j.n,
               KeysAt(j, g).stream_cipher_key = KeysAt(j, h).stream_cipher_key
        PROVE  g = h
    <2> DEFINE x == SharedBy(j, g)
               y == SharedBy(j, h)
    <2>1. KeysAt(j, g).stream_cipher_key = [stream |-> x] /\ KeysAt(j, h).stream_cipher_key = [stream |-> y]
      BY KeysOfNodes
    <2> HIDE DEF x, y
    <2>2. [stream |-> x] = [stream |-> y]
      BY <1>3, <2>1
    <2>3. x = y
      BY <1>1, <2>2, Zenon
    <2> QED
      BY <2>3, SharedDiffer DEF x, y
  <1>4. ASSUME NEW g \in 1 .. j.n, NEW h \in 1 .. j.n,
               KeysAt(j, g).header_integrity_hmac_key = KeysAt(j, h).header_integrity_hmac_key
        PROVE  g = h
    <2> DEFINE x == SharedBy(j, g)
               y == SharedBy(j, h)
    <2>1. KeysAt(j, g).header_integrity_hmac_key = [hmac |-> x] /\ KeysAt(j, h).header_integrity_hmac_key = [hmac |-> y]
      BY KeysOfNodes
    <2> HIDE DEF x, y
    <2>2. [hmac |-> x] = [hmac |-> y]
      BY <1>4, <2>1
    <2>3. x = y
      BY <1>2, <2>2, Zenon
    <2> QED
      BY <2>3, SharedDiffer DEF x, y
  <1>5. \A h : KeysAt(j, h) = K[h]
    BY DEF KeysAt
  <1> HIDE DEF K
  <1>6. KeysDiffer(K, j.n)
    BY <1>3, <1>5 DEF KeysDiffer
  <1> QED
    BY <1>4, <1>6 DEF K

LEMMA SlotsOfNodes ==
  ASSUME NEW j \in JobType, NEW k, Routable(j), NEW h \in 1 .. j.n,
         NEW i \in 1 .. MAX_PATH_LENGTH
  PROVE  SlotOfNode(HeaderAt(j, k, h).routing_info.slots[i],
                    routing_keys(RouteOf(j), initial_secret), h, j.n)
  <1> DEFINE r == RouteOf(j)
             ds == DelaysOf(j, k)
             d == DestOf(k)
             c == <<"coins", k>>
             K == routing_keys(r, initial_secret)
             A == accumulators(r, initial_secret)
             x == LayersOf(r, d, ds, K, c)[h]
             hd == HeaderAt(j, k, h)
             n == j.n
  <1>1. Len(r) = n /\ IsRoute(r, ds) /\ n \in Nat
    BY RouteOfJob DEF IsJobRoute
  <1>2. KeysDiffer(K, n)
    BY KeysOfNodesDiffer
  <1>3. hd = [shared_secret |-> A[h], routing_info |-> x]
    BY DEF HeaderAt, HeaderFor
  <1> HIDE DEF r, ds, d, c, A, n
  <1>4. IsKeyList(K, Len(r))
    BY <1>1, KeysAgree
  <1> HIDE DEF K
  <1>5. h \in 1 .. Len(r) /\ KeysDiffer(K, Len(r))
    BY <1>1, <1>2 DEF n
  <1>6. SlotOfNode(x.slots[i], K, h, Len(r))
    BY <1>1, <1>4, <1>5, LayersUnder
  <1> HIDE DEF x, hd
  <1>7. hd.routing_info = x
    BY <1>3
  <1>8. SlotOfNode(hd.routing_info.slots[i], K, h, n)
    BY <1>1, <1>6, <1>7
  <1> QED
    BY <1>8 DEF hd, K, r, n

(* No two of the headers that the sender made have anything in common.     *)
LEMMA NodesHeadersDiffer ==
  ASSUME NEW j \in JobType, NEW k, Routable(j),
         NEW g \in 1 .. j.n, NEW h \in 1 .. j.n, g # h
  PROVE  HeadersDiffer(HeaderAt(j, k, g), HeaderAt(j, k, h))
  <1> DEFINE p == HeaderAt(j, k, g)
             q == HeaderAt(j, k, h)
             K == routing_keys(RouteOf(j), initial_secret)
             n == j.n
             M == MAX_PATH_LENGTH
  <1>1. n \in Nat /\ (g < h \/ h < g)
    BY RouteOfJob DEF IsJobRoute
  <1>2. HeaderFormed(p, j, g) /\ HeaderFormed(q, j, h)
    BY HeaderForm
  <1>3. ASSUME NEW i \in 1 .. M, NEW m \in 1 .. M,
               p.routing_info.slots[i] = q.routing_info.slots[m]
        PROVE  FALSE
    <2> DEFINE s == p.routing_info.slots[i]
               t == q.routing_info.slots[m]
    <2>1. SlotOfNode(s, K, g, n) /\ SlotOfNode(t, K, h, n)
      BY SlotsOfNodes
    <2>2. s = t
      BY <1>3
    <2> HIDE DEF s, t, K, n
    <2>3. SlotOfNode(s, K, h, n) /\ g \in 1 .. n /\ h \in 1 .. n
      BY <2>1, <2>2 DEF n
    <2>4. CASE g < h
      BY <1>1, <2>1, <2>3, <2>4, NodesSlotsDiffer
    <2>5. CASE h < g
      BY <1>1, <2>1, <2>3, <2>5, NodesSlotsDiffer
    <2> QED
      BY <1>1, <2>4, <2>5
  <1>4. SecretAt(j, g) # SecretAt(j, h)
    BY <1>1, SecretsDiffer
  <1>5. KeysAt(j, g).header_integrity_hmac_key # KeysAt(j, h).header_integrity_hmac_key
    BY KeysOfNodesDiffer
  <1> HIDE DEF p, q
  <1>6. p.shared_secret # q.shared_secret
    <2>1. \A hd, i : HeaderFormed(hd, j, i) => hd.shared_secret = SecretAt(j, i)
      BY DEF HeaderFormed
    <2> QED
      BY <1>2, <1>4, <2>1
  <1>7. p.routing_info.integrity_mac # q.routing_info.integrity_mac
    <2>1. \A hd, i : HeaderFormed(hd, j, i) =>
                       hd.routing_info.integrity_mac.macKey = KeysAt(j, i).header_integrity_hmac_key
      <3> TAKE hd, i
      <3> HAVE HeaderFormed(hd, j, i)
      <3> DEFINE sl == hd.routing_info.slots
                 key == KeysAt(j, i).header_integrity_hmac_key
                 m == compute(key, sl)
                 ri == [slots |-> sl, integrity_mac |-> m]
                 S == SecretAt(j, i)
      <3>1. hd = [shared_secret |-> S, routing_info |-> ri]
        BY DEF HeaderFormed
      <3> HIDE DEF ri, S
      <3>2. hd.routing_info = ri
        BY <3>1
      <3> HIDE DEF m, sl
      <3>3. hd.routing_info.integrity_mac = m
        BY <3>2 DEF ri
      <3> HIDE DEF key
      <3>4. m.macKey = key
        BY DEF m, compute
      <3> QED
        BY <3>3, <3>4 DEF key
    <2> QED
      BY <1>2, <1>5, <2>1
  <1>8. HeadersDiffer(p, q)
    BY <1>3, <1>6, <1>7 DEF HeadersDiffer
  <1> QED
    BY <1>8 DEF p, q

(* Nor has one that was altered on its link with one that was not.         *)
LEMMA AlteredHeadersDiffer ==
  ASSUME NEW j \in JobType, NEW k, Routable(j),
         NEW g \in 1 .. j.n, NEW h \in 1 .. j.n, g # h,
         NEW q, HeaderLike(q, HeaderAt(j, k, h))
  PROVE  HeadersDiffer(HeaderAt(j, k, g), q)
  <1> DEFINE p == HeaderAt(j, k, g)
             was == HeaderAt(j, k, h)
             m == was.routing_info.integrity_mac
             M == MAX_PATH_LENGTH
  <1>1. HeadersDiffer(p, was)
    BY NodesHeadersDiffer
  <1>2. HeaderFormed(p, j, g)
    BY HeaderForm
  <1>3. junk_exponent \notin SecretAt(j, g)
    BY JunkIsForeign
  <1> HIDE DEF p, was
  <1>4. p.shared_secret = SecretAt(j, g) /\ \A i \in 1 .. M : Clean(p.routing_info.slots[i])
    BY <1>2 DEF HeaderFormed
  <1>5. p.shared_secret # q.shared_secret
    BY <1>1, <1>3, <1>4 DEF HeadersDiffer, HeaderLike, was
  <1>6. p.routing_info.integrity_mac # [junk |-> m]
    <2> DEFINE sl == p.routing_info.slots
               key == KeysAt(j, g).header_integrity_hmac_key
               c == compute(key, sl)
               ri == [slots |-> sl, integrity_mac |-> c]
               S == SecretAt(j, g)
    <2>1. p = [shared_secret |-> S, routing_info |-> ri]
      BY <1>2 DEF HeaderFormed
    <2> HIDE DEF ri, S
    <2>2. p.routing_info = ri
      BY <2>1
    <2> HIDE DEF c, sl
    <2>3. p.routing_info.integrity_mac = c
      BY <2>2 DEF ri
    <2> HIDE DEF key
    <2>4. "macKey" \in DOMAIN c
      BY DEF c, compute
    <2>5. "macKey" \notin DOMAIN [junk |-> m]
      OBVIOUS
    <2> QED
      BY <2>3, <2>4, <2>5
  <1>7. p.routing_info.integrity_mac # q.routing_info.integrity_mac
    BY <1>1, <1>6 DEF HeadersDiffer, HeaderLike, was
  <1>8. \A i, e \in 1 .. M : p.routing_info.slots[i] # q.routing_info.slots[e]
    BY <1>1, <1>4 DEF HeadersDiffer, HeaderLike, was
  <1>9. HeadersDiffer(p, q)
    BY <1>5, <1>7, <1>8 DEF HeadersDiffer
  <1> QED
    BY <1>9 DEF p

-----------------------------------------------------------------------------
(* The payload on one link against that on another.                        *)

(* What is under the layers, and how many there are: m layers still to be  *)
(* taken off, or - m that were put on by nodes that took none off.         *)
Weighs(p, kind, m) ==
  /\ IsBlob(p) /\ p.base.kind = kind
  /\ m >= 0 => AllOneWay(p.layers, m, "enc")
  /\ m <= 0 => AllOneWay(p.layers, 0 - m, "dec")

LEMMA OneWeight ==
  ASSUME NEW p, NEW a, NEW b, NEW m \in Int, NEW n \in Int, Weighs(p, a, m), Weighs(p, b, n)
  PROVE  a = b /\ m = n
  <1> DEFINE y == p.layers
             D == DOMAIN y
  <1>1. \A e \in Nat : \A d : AllOneWay(y, e, d) => D = 1 .. e /\ \A i \in 1 .. e : y[i].dir = d
    BY DEF AllOneWay
  <1>2. \A e, f \in Nat : 1 .. e = 1 .. f => e = f
    <2> TAKE e, f \in Nat
    <2> HAVE 1 .. e = 1 .. f
    <2>1. CASE e < f
      <3>1. f \in 1 .. f /\ f \notin 1 .. e
        BY <2>1
      <3> QED
        BY <3>1
    <2>2. CASE f < e
      <3>1. e \in 1 .. e /\ e \notin 1 .. f
        BY <2>2
      <3> QED
        BY <3>1
    <2> QED
      BY <2>1, <2>2
  <1>3. a = b
    BY DEF Weighs
  <1>4. /\ m >= 0 => AllOneWay(y, m, "enc")
        /\ m <= 0 => AllOneWay(y, 0 - m, "dec")
        /\ n >= 0 => AllOneWay(y, n, "enc")
        /\ n <= 0 => AllOneWay(y, 0 - n, "dec")
    BY DEF Weighs
  <1> HIDE DEF y, D
  <1>5. CASE m >= 0 /\ n >= 0
    <2>1. m \in Nat /\ n \in Nat
      BY <1>5
    <2> QED
      BY <1>1, <1>2, <1>3, <1>4, <1>5, <2>1
  <1>6. CASE m <= 0 /\ n <= 0
    <2> DEFINE e == 0 - m
               f == 0 - n
    <2>1. e \in Nat /\ f \in Nat /\ (e = f => m = n)
      BY <1>6
    <2>2. AllOneWay(y, e, "dec") /\ AllOneWay(y, f, "dec")
      BY <1>4, <1>6
    <2> HIDE DEF e, f
    <2>3. e = f
      BY <1>1, <1>2, <2>1, <2>2
    <2> QED
      BY <1>3, <2>1, <2>3
  <1>7. \A e \in Nat \ {0}, f \in Nat : ~ (AllOneWay(y, e, "enc") /\ AllOneWay(y, f, "dec"))
    <2> SUFFICES ASSUME NEW e \in Nat \ {0}, NEW f \in Nat,
                        AllOneWay(y, e, "enc"), AllOneWay(y, f, "dec")
                 PROVE  FALSE
      OBVIOUS
    <2>1. 1 .. e = 1 .. f /\ e \in Nat
      BY <1>1
    <2>2. 1 \in 1 .. e
      OBVIOUS
    <2>3. y[1].dir = "enc" /\ y[1].dir = "dec"
      BY <1>1, <2>1, <2>2
    <2> QED
      BY <2>3
  <1>8. CASE m > 0 /\ n < 0
    <2> DEFINE f == 0 - n
    <2>1. m \in Nat \ {0} /\ f \in Nat /\ AllOneWay(y, m, "enc") /\ AllOneWay(y, f, "dec")
      BY <1>4, <1>8
    <2> HIDE DEF f
    <2> QED
      BY <1>7, <2>1
  <1>9. CASE m < 0 /\ n > 0
    <2> DEFINE f == 0 - m
    <2>1. n \in Nat \ {0} /\ f \in Nat /\ AllOneWay(y, n, "enc") /\ AllOneWay(y, f, "dec")
      BY <1>4, <1>9
    <2> HIDE DEF f
    <2> QED
      BY <1>7, <2>1
  <1> QED
    BY <1>5, <1>6, <1>8, <1>9

(* A payload of the sender has the layers of the keys that are left. *)
LEMMA UnderWeighs ==
  ASSUME NEW j \in JobType, NEW k, NEW w \in Nat, Fits(j), NEW h \in 1 .. w + 1
  PROVE  Weighs(UnderKeys(j, k, w)[h].payload, "payload", (w + 1) - h)
  <1> DEFINE U == UnderKeys(j, k, w)
             pk == PayloadKeys(j, w)
             T == {i \in 1 .. w + 1 : /\ U[i].payload.base.kind = "payload"
                                      /\ AllOneWay(U[i].payload.layers, (w + 1) - i, "enc")}
  <1>1. IsUnder(U, pk, w, MessageOf(j, k), j.size)
    BY UnderOfJob DEF JobUnder
  <1>2. j.size > 32 /\ j.size \in Nat
    BY JourneyAssumption DEF Fits, JobType
  <1> HIDE DEF U, pk
  <1>3. w + 1 \in T
    <2> DEFINE p == Plain(MessageOf(j, k), j.size)
    <2>1. U[w + 1].payload = p
      BY <1>1 DEF IsUnder
    <2>2. p.layers = <<>> /\ p.base.kind = "payload"
      BY PlainIs
    <2>3. w + 1 \in 1 .. w + 1 /\ (w + 1) - (w + 1) = 0
      OBVIOUS
    <2>4. AllOneWay(<<>>, 0, "enc")
      BY DEF AllOneWay
    <2> HIDE DEF p
    <2> QED
      BY <2>1, <2>2, <2>3, <2>4
  <1>4. ASSUME NEW i \in 1 .. (w + 1) - 1, i + 1 \in T PROVE i \in T
    <2> DEFINE p == U[i + 1].payload
               m == (w + 1) - (i + 1)
               c == Cipher("enc", pk[i], "lioness", p)
    <2>1. i \in 1 .. w /\ i + 1 \in 1 .. w + 1 /\ m \in Nat /\ m + 1 = (w + 1) - i
          /\ i \in 1 .. w + 1
      OBVIOUS
    <2>2. p.base.kind = "payload" /\ AllOneWay(p.layers, m, "enc")
      BY <1>4
    <2>3. IsBlob(p) /\ p.len # 0
      <3>1. IsBlob(p) /\ p.len = j.size
        BY <1>1, <2>1 DEF IsUnder
      <3> HIDE DEF p
      <3> QED
        BY <1>2, <3>1
    <2>4. U[i].payload = c
      BY <1>1, <2>1 DEF IsUnder
    <2>5. "enc" \in Directions
      BY DEF Directions
    <2> HIDE DEF p, m
    <2>6. AllOneWay(c.layers, m + 1, "enc")
      BY <2>1, <2>2, <2>3, <2>5, OneLayerMore
    <2>7. c.base = p.base
      BY <2>3, CipherKeeps
    <2> HIDE DEF c
    <2> QED
      BY <2>1, <2>2, <2>4, <2>6, <2>7
  <1>5. 1 .. w + 1 \subseteq T
    <2> HIDE DEF T
    <2>1. 1 \in Int /\ w + 1 \in Int
      OBVIOUS
    <2> QED
      BY <1>3, <1>4, <2>1, DownFrom
  <1> DEFINE p == U[h].payload
             m == (w + 1) - h
  <1>6. p.base.kind = "payload" /\ AllOneWay(p.layers, m, "enc")
    BY <1>5
  <1>7. IsBlob(p)
    BY <1>1 DEF IsUnder
  <1>8. m \in Nat
    OBVIOUS
  <1> HIDE DEF p, m
  <1>9. m <= 0 => AllOneWay(p.layers, 0 - m, "dec")
    <2> HAVE m <= 0
    <2>1. m = 0 /\ 0 - m = 0
      BY <1>8
    <2>2. AllOneWay(p.layers, 0, "enc")
      BY <1>6, <2>1
    <2>3. AllOneWay(p.layers, 0, "dec")
      BY <2>2 DEF AllOneWay
    <2> QED
      BY <2>1, <2>3
  <1>10. Weighs(p, "payload", m)
    BY <1>6, <1>7, <1>9 DEF Weighs
  <1> QED
    BY <1>10 DEF p, m, U

LEMMA PayloadWeighs ==
  ASSUME NEW j \in JobType, NEW k, NEW w \in Nat, Fits(j), NEW h \in Nat \ {0},
         NEW p, PayloadAt(p, j, k, w, h), p.base.kind = "payload"
  PROVE  Weighs(p, "payload", (w + 1) - h)
  <1>1. CASE h <= w + 1
    <2>1. h \in 1 .. w + 1
      BY <1>1
    <2>2. p = UnderKeys(j, k, w)[h].payload
      BY <1>1 DEF PayloadAt
    <2> QED
      BY <2>1, <2>2, UnderWeighs
  <1>2. CASE h > w + 1
    <2> DEFINE m == (w + 1) - h
               e == h - 1 - w
    <2>1. h > w /\ m \in Int /\ ~ m >= 0 /\ 0 - m = e
      BY <1>2
    <2>2. IsBlob(p) /\ AllOneWay(p.layers, e, "dec")
      BY <2>1 DEF PayloadAt
    <2> HIDE DEF m, e
    <2>3. Weighs(p, "payload", m)
      BY <2>1, <2>2 DEF Weighs
    <2> QED
      BY <2>3 DEF m
  <1> QED
    BY <1>1, <1>2

(* Junk gets heavier the other way. *)
LEMMA JunkWeighs ==
  ASSUME NEW p, NEW kind, NEW m \in Int, m <= 0, Weighs(p, kind, m), p.len # 0, NEW j, NEW h
  PROVE  Weighs(Unwrapped(j, h, p), kind, m - 1)
  <1> DEFINE key == KeysAt(j, h).payload_key
             c == Cipher("dec", key, "lioness", p)
             e == 0 - m
  <1>1. IsBlob(p) /\ p.base.kind = kind /\ AllOneWay(p.layers, e, "dec")
    BY DEF Weighs
  <1>2. e \in Nat /\ e + 1 = 0 - (m - 1) /\ ~ m - 1 >= 0
    OBVIOUS
  <1>3. "dec" \in Directions
    BY DEF Directions
  <1> HIDE DEF key, e
  <1>4. AllOneWay(c.layers, e + 1, "dec")
    BY <1>1, <1>2, <1>3, OneLayerMore
  <1>5. IsBlob(c) /\ c.base = p.base
    BY <1>1, CipherKeeps
  <1> HIDE DEF c
  <1>6. Weighs(c, kind, m - 1)
    BY <1>1, <1>2, <1>4, <1>5 DEF Weighs
  <1> QED
    BY <1>6 DEF c, key, Unwrapped

(* What the network puts in has no layer yet. *)
LEMMA NewJunkWeighs ==
  ASSUME NEW y, NEW n \in Nat
  PROVE  LET p == Bytes([kind |-> "junk", of |-> y], n) IN Weighs(p, "junk", 0) /\ p.len = n
  <1> DEFINE b == [kind |-> "junk", of |-> y]
             p == Bytes(b, n)
  <1>1. b.kind = "junk"
    OBVIOUS
  <1> HIDE DEF b
  <1>2. IsBlob(p) /\ p.base = b /\ p.len = n /\ p.layers = <<>>
    BY BytesIsBlob
  <1> HIDE DEF p
  <1>3. \A d : AllOneWay(<<>>, 0, d)
    BY DEF AllOneWay
  <1>4. Weighs(p, "junk", 0)
    BY <1>1, <1>2, <1>3 DEF Weighs
  <1> QED
    BY <1>2, <1>4 DEF p, b

-----------------------------------------------------------------------------
(* All links of a journey, and not only the last.                          *)

Junked(f, l) == f # NoFault /\ f.part[1] \notin HeaderParts /\ f.at <= l

LinkRight(p, j, k, w, l, f) ==
  /\ IF f.part[1] \in HeaderParts /\ l = f.at
     THEN HeaderLike(p.header, HeaderAt(j, k, l))
     ELSE p.header = HeaderAt(j, k, l)
  /\ IF Junked(f, l)
     THEN Weighs(p.payload, "junk", f.at - l)
     ELSE Weighs(p.payload, "payload", (w + 1) - l)
  /\ p.payload.len = IF Junked(f, l) /\ f.part[1] = "cut" THEN f.part[2] ELSE j.size

AllLinks ==
  links # <<>> =>
    /\ fault # NoFault => fault.at \in 1 .. hop
    /\ \A l \in 1 .. hop : LinkRight(links[l], job, sent, whole_keys, l, fault)

(* A packet goes out. *)
LEMMA SentLinks ==
  ASSUME IInv, outcome = "new", Routable(job), Fits(job),
         NEW w \in 1 .. job.n, links' = <<FirstPacket(job, sent, w)>>, whole_keys' = w,
         UNCHANGED <<sent, job, hop, fault>>
  PROVE  AllLinks'
  <1> DEFINE j == job
             k == sent
             p == FirstPacket(j, k, w)
             y == FirstPayload(j, k, w)
  <1>1. AtSender /\ JobRight
    BY AtTheSender
  <1>2. j \in JobType /\ hop = 1 /\ fault = NoFault
    BY <1>1 DEF AtSender, JobRight
  <1>3. j.n \in Nat /\ w \in Nat \ {0} /\ w \in Nat /\ 1 \in 1 .. w + 1
    BY <1>2, RouteOfJob DEF IsJobRoute
  <1>4. p.header = HeaderAt(j, k, 1) /\ p.payload = y
    BY DEF FirstPacket
  <1>5. Weighs(y, "payload", (w + 1) - 1)
    BY <1>2, <1>3, UnderWeighs DEF FirstPayload
  <1>6. y.len = j.size
    <2>1. PayloadAt(y, j, k, w, 1)
      BY <1>2, <1>3, FirstPayloadAt
    <2> QED
      BY <2>1 DEF PayloadAt
  <1> HIDE DEF p, y
  <1>7. ~ Junked(NoFault, 1) /\ NoFault.part[1] \notin HeaderParts
    BY DEF Junked, NoFault, HeaderParts
  <1>8. LinkRight(p, j, k, w, 1, NoFault)
    BY <1>4, <1>5, <1>6, <1>7 DEF LinkRight
  <1>9. links'[1] = p /\ hop' = 1 /\ fault' = NoFault /\ whole_keys' = w /\ job' = j /\ sent' = k
    BY <1>2 DEF p
  <1>10. \A l \in 1 .. 1 : l = 1
    OBVIOUS
  <1> QED
    BY <1>8, <1>9, <1>10 DEF AllLinks

LEMMA BuildLinks == ASSUME IInv, Build PROVE AllLinks'
  <1> DEFINE j == job
             p == FirstPacket(j, sent, j.n)
  <1>1. j \in JobType
    BY DEF IInv, JobRight
  <1>2. BuildIs(build, j, sent)
    BY <1>1, BuildOfJob
  <1> HIDE DEF p
  <1>3. Routable(j) /\ Fits(j)
    BY <1>2, ErrIs DEF Build, BuildIs
  <1>4. build = [ok |-> TRUE, packet |-> p]
    BY <1>2, <1>3 DEF BuildIs, p
  <1>5. build.packet = p
    BY <1>4
  <1>6. j.n \in 1 .. j.n
    BY <1>1, <1>3, RouteOfJob DEF Routable, IsJobRoute
  <1> QED
    BY <1>3, <1>5, <1>6, SentLinks DEF Build, p

(* The header's altered on this link, or the payload from this link on.    *)
LEMMA AlteredHeaderLike ==
  ASSUME NEW j \in JobType, NEW k, Routable(j), NEW h \in 1 .. j.n,
         NEW y, NEW part \in Parts, part[1] \in HeaderParts
  PROVE  LET q == Altered([header |-> HeaderAt(j, k, h), payload |-> y], part) IN
         q.payload = y /\ HeaderLike(q.header, HeaderAt(j, k, h))
  <1> DEFINE hd == HeaderAt(j, k, h)
             p == [header |-> hd, payload |-> y]
             q == Altered(p, part)
             S == SecretAt(j, h)
             sl == hd.routing_info.slots
             m == compute(KeysAt(j, h).header_integrity_hmac_key, sl)
             M == MAX_PATH_LENGTH
             Goal == q.payload = y /\ HeaderLike(q.header, hd)
             IsQ(s, t, v) == q = [header |-> [shared_secret |-> s,
                                              routing_info |-> [slots |-> t, integrity_mac |-> v]],
                                  payload |-> y]
             Near(s, t, v) == /\ s = S \/ junk_exponent \in s
                              /\ v = m \/ v = [junk |-> m]
                              /\ \A i \in 1 .. M : t[i] = sl[i] \/ ~ Clean(t[i])
  <1>1. HeaderFormed(hd, j, h)
    BY HeaderForm
  <1> HIDE DEF hd, m, sl
  <1>2. hd = [shared_secret |-> S, routing_info |-> [slots |-> sl, integrity_mac |-> m]]
        /\ AreSlots(sl, M)
    BY <1>1 DEF HeaderFormed, sl, m
  <1>3. p = [header |-> [shared_secret |-> S, routing_info |-> [slots |-> sl, integrity_mac |-> m]],
             payload |-> y]
    BY <1>2
  <1>4. sl = [i \in 1 .. M |-> sl[i]]
    BY <1>2 DEF AreSlots
  <1> HIDE DEF p, S
  <1>5. hd.shared_secret = S /\ hd.routing_info.slots = sl /\ hd.routing_info.integrity_mac = m
    <2> DEFINE ri == [slots |-> sl, integrity_mac |-> m]
    <2>1. hd.shared_secret = S /\ hd.routing_info = ri
      BY <1>2
    <2>2. ri.slots = sl /\ ri.integrity_mac = m
      OBVIOUS
    <2> HIDE DEF ri
    <2> QED
      BY <2>1, <2>2
  <1>6. ASSUME NEW s, NEW t, NEW v, IsQ(s, t, v), Near(s, t, v)
        PROVE  Goal
    <2> DEFINE x == q.header
    <2> HIDE DEF q
    <2>1. q.payload = y /\ x = [shared_secret |-> s,
                                routing_info |-> [slots |-> t, integrity_mac |-> v]]
      BY <1>6
    <2> HIDE DEF x
    <2>2. x.shared_secret = s /\ x.routing_info.slots = t /\ x.routing_info.integrity_mac = v
      BY <2>1
    <2>3. HeaderLike(x, hd)
      BY <1>5, <1>6, <2>2 DEF HeaderLike
    <2> QED
      BY <2>1, <2>3 DEF x
  <1>7. CASE part[1] = "secret"
    <2> DEFINE s == S \cup PrivateKey(<<"junk", 0>>)
    <2>1. IsQ(s, sl, m)
      BY <1>3, <1>7 DEF Altered
    <2>2. Near(s, sl, m)
      BY DEF PrivateKey, junk_exponent
    <2> HIDE DEF s, IsQ, Goal, Near
    <2>9. Goal
      BY <1>6, <2>1, <2>2
    <2> QED
      BY <2>9 DEF Goal, p, hd
  <1>8. CASE part[1] = "mac"
    <2> DEFINE v == [junk |-> m]
    <2>1. IsQ(S, sl, v)
      BY <1>3, <1>8 DEF Altered
    <2>2. Near(S, sl, v)
      OBVIOUS
    <2> HIDE DEF v, IsQ, Goal, Near
    <2>9. Goal
      BY <1>6, <2>1, <2>2
    <2> QED
      BY <2>9 DEF Goal, p, hd
  <1>9. CASE part[1] = "slot"
    <2> DEFINE i == part[2]
               t == [sl EXCEPT ![i].pads = @ \cup {junk_piece}]
    <2>1. IsQ(S, t, m)
      BY <1>3, <1>9 DEF Altered, junk_piece
    <2>2. ASSUME NEW e \in 1 .. M PROVE t[e] = sl[e] \/ ~ Clean(t[e])
      <3>1. CASE e # i
        BY <1>4, <3>1
      <3>2. CASE e = i
        <4> DEFINE a == sl[e]
                   b == t[e]
        <4>1. a = [base |-> a.base, pads |-> a.pads]
          BY <1>2 DEF AreSlots, IsSlot
        <4>2. b = [a EXCEPT !.pads = @ \cup {junk_piece}]
          <5> HIDE DEF i
          <5> QED
            BY <1>4, <3>2
        <4> HIDE DEF a, b
        <4>3. b.pads = a.pads \cup {junk_piece}
          BY <4>1, <4>2
        <4>4. junk_piece.place = 0
          BY DEF junk_piece
        <4>5. ~ Clean(b)
          BY <4>3, <4>4 DEF Clean
        <4> QED
          BY <4>5 DEF b
      <3> QED
        BY <3>1, <3>2
    <2> HIDE DEF t
    <2>3. Near(S, t, m)
      BY <2>2
    <2> HIDE DEF IsQ, Goal, Near
    <2>9. Goal
      BY <1>6, <2>1, <2>3
    <2> QED
      BY <2>9 DEF Goal, p, hd
  <1>10. part[1] \in {"secret", "mac", "slot"}
    BY DEF HeaderParts
  <1> QED
    BY <1>7, <1>8, <1>9, <1>10 DEF p, hd

LEMMA AlteredPayloadWeighs ==
  ASSUME NEW hd, NEW y, y.len \in Nat, NEW part \in Parts, part[1] \notin HeaderParts
  PROVE  LET q == Altered([header |-> hd, payload |-> y], part) IN
         /\ q.header = hd /\ Weighs(q.payload, "junk", 0)
         /\ q.payload.len = IF part[1] = "cut" THEN part[2] ELSE y.len
  <1> DEFINE p == [header |-> hd, payload |-> y]
             q == Altered(p, part)
             b == [kind |-> "junk", of |-> y]
  <1>1. \A n \in Nat : Weighs(Bytes(b, n), "junk", 0) /\ Bytes(b, n).len = n
    BY NewJunkWeighs
  <1>2. CASE part = <<"payload", 0>>
    <2>1. q = [p EXCEPT !.payload = Bytes(b, y.len)]
      BY <1>2 DEF Altered
    <2>2. q.header = hd /\ q.payload = Bytes(b, y.len)
      <3> HIDE DEF b, q
      <3> QED
        BY <2>1
    <2>3. part[1] # "cut"
      BY <1>2
    <2> QED
      BY <1>1, <2>2, <2>3
  <1>3. CASE part \in {<<"cut", n>> : n \in CutLengths}
    <2>1. PICK n \in CutLengths : part = <<"cut", n>>
      BY <1>3
    <2>2. n \in Nat
      BY JourneyAssumption
    <2>3. q = [p EXCEPT !.payload = Bytes(b, n)]
      BY <2>1 DEF Altered
    <2>4. q.header = hd /\ q.payload = Bytes(b, n)
      <3> HIDE DEF b, q
      <3> QED
        BY <2>3
    <2>5. part[1] = "cut" /\ part[2] = n
      BY <2>1
    <2> QED
      BY <1>1, <2>2, <2>4, <2>5
  <1>4. part = <<"payload", 0>> \/ part \in {<<"cut", n>> : n \in CutLengths}
    <2>1. part # <<"secret", 0>> /\ part # <<"mac", 0>>
          /\ part \notin {<<"slot", i>> : i \in 1 .. MAX_PATH_LENGTH}
      BY DEF HeaderParts
    <2> QED
      BY <2>1 DEF Parts
  <1> QED
    BY <1>2, <1>3, <1>4

LEMMA UseSURBLinks == ASSUME IInv, AllLinks, UseSURB PROVE AllLinks'
  <1> DEFINE w == whole_keys'
  <1>1. links = <<>> /\ outcome = "new" /\ UNCHANGED <<sent, job, hop, fault>>
    BY AtTheSender DEF UseSURB
  <1>2. Routable(job) /\ (SurbSent(w) \/ SurbSpoilt(w))
    BY SurbIsUsed
  <1>3. CASE SurbSent(w)
    BY <1>1, <1>2, <1>3, SentLinks DEF SurbSent
  <1>4. CASE SurbSpoilt(w)
    <2>1. links' = <<>>
      BY <1>1, <1>4 DEF SurbSpoilt
    <2> QED
      BY <2>1 DEF AllLinks
  <1> QED
    BY <1>2, <1>3, <1>4

LEMMA MaulLinks == ASSUME IInv, AllLinks, Maul PROVE AllLinks'
  <1> DEFINE j == job
             k == sent
             w == whole_keys
             h == hop
             y == packet.payload
             hd == HeaderAt(j, k, h)
  <1>1. AtNode /\ OnTheWay /\ links # <<>> /\ fault = NoFault
    BY UnderWay DEF Maul, IInv
  <1>2. PICK part \in Parts :
          /\ links' = [links EXCEPT ![h] = Altered(packet, part)]
          /\ fault' = [part |-> part, at |-> h]
    BY DEF Maul, packet
  <1> DEFINE q == Altered(packet, part)
             f == [part |-> part, at |-> h]
  <1>3. j \in JobType /\ Routable(j) /\ h \in 1 .. j.n /\ h \in 1 .. h /\ h \in Nat
    BY <1>1, RouteOfJob DEF AtNode, IsJobRoute
  <1>4. links = [l \in 1 .. h |-> links[l]]
    BY <1>1 DEF OnTheWay, LinksRight
  <1>5. \A l \in 1 .. h : LinkRight(links[l], j, k, w, l, NoFault)
    BY <1>1 DEF AllLinks
  <1>6. \A l : ~ Junked(NoFault, l) /\ NoFault.part[1] \notin HeaderParts
    BY DEF Junked, NoFault, HeaderParts
  <1>7. \A l \in 1 .. h : /\ links[l].header = HeaderAt(j, k, l)
                          /\ Weighs(links[l].payload, "payload", (w + 1) - l)
                          /\ links[l].payload.len = j.size
    BY <1>5, <1>6 DEF LinkRight
  <1>8. packet = [header |-> hd, payload |-> y]
    <2>1. PacketRight(packet, j, k, w, h, NoFault)
      BY <1>1 DEF AtNode
    <2> QED
      BY <1>6, <2>1 DEF PacketRight
  <1>9. Weighs(y, "payload", (w + 1) - h) /\ y.len = j.size /\ y.len \in Nat
    <2>1. Weighs(y, "payload", (w + 1) - h) /\ y.len = j.size
      BY <1>3, <1>7 DEF packet
    <2> QED
      BY <2>1 DEF Weighs, IsBlob
  <1>10. f # NoFault /\ f.part = part /\ f.at = h
    <2>1. part[1] # "none"
      BY DEF Parts
    <2> QED
      BY <2>1 DEF NoFault
  <1> HIDE DEF y, hd, f
  <1>11. LinkRight(q, j, k, w, h, f)
    <2>1. CASE part[1] \in HeaderParts
      <3>1. q.payload = y /\ HeaderLike(q.header, hd)
        BY <1>3, <1>8, <2>1, AlteredHeaderLike DEF hd
      <3>2. ~ Junked(f, h)
        BY <1>10, <2>1 DEF Junked
      <3> HIDE DEF q
      <3> QED
        BY <1>9, <1>10, <2>1, <3>1, <3>2 DEF LinkRight, hd
    <2>2. CASE part[1] \notin HeaderParts
      <3>1. /\ q.header = hd /\ Weighs(q.payload, "junk", 0)
            /\ q.payload.len = IF part[1] = "cut" THEN part[2] ELSE y.len
        BY <1>8, <1>9, <2>2, AlteredPayloadWeighs
      <3>2. Junked(f, h) /\ h - h = 0
        BY <1>3, <1>10, <2>2 DEF Junked
      <3> HIDE DEF q
      <3> QED
        BY <1>9, <1>10, <2>2, <3>1, <3>2 DEF LinkRight, hd
    <2> QED
      BY <2>1, <2>2
  <1>12. ASSUME NEW l \in 1 .. h, l # h PROVE LinkRight(links[l], j, k, w, l, f)
    <2>1. ~ Junked(f, l) /\ l # f.at
      BY <1>3, <1>10, <1>12 DEF Junked
    <2> QED
      BY <1>7, <2>1 DEF LinkRight
  <1> HIDE DEF q
  <1>13. \A l \in 1 .. h : links'[l] = IF l = h THEN q ELSE links[l]
    BY <1>2, <1>3, <1>4 DEF q
  <1>14. \A l \in 1 .. h : LinkRight(links'[l], j, k, w, l, f)
    BY <1>11, <1>12, <1>13
  <1>15. fault' = f /\ UNCHANGED <<job, sent, whole_keys, hop>>
    BY <1>2 DEF Maul, f
  <1> QED
    BY <1>3, <1>10, <1>14, <1>15 DEF AllLinks

LEMMA RelayLinks == ASSUME IInv, AllLinks, Relay PROVE AllLinks'
  <1> DEFINE j == job
             k == sent
             w == whole_keys
             h == hop
             f == fault
             y == packet.payload
             z == Unwrapped(j, h, y)
             hd == HeaderAt(j, k, h + 1)
             q == [header |-> hd, payload |-> z]
  <1>1. AtNode /\ OnTheWay /\ links # <<>>
    BY UnderWay DEF Relay, IInv
  <1>2. f.part[1] \notin HeaderParts /\ processed = Onward(j, k, h, y)
    BY AcceptedIsOnward DEF Relay
  <1>3. /\ j \in JobType /\ Routable(j) /\ Fits(j) /\ w \in 1 .. j.n
        /\ h \in 1 .. j.n /\ j.n \in Nat /\ h \in Nat /\ w \in Nat
    BY <1>1, RouteOfJob DEF AtNode, IsJobRoute
  <1>4. processed.packet = q
    <2>1. h # j.n
      <3> SUFFICES ASSUME h = j.n PROVE FALSE
        OBVIOUS
      <3>1. processed.hop = "FinalHop"
        BY <1>2 DEF Onward
      <3> QED
        BY <3>1 DEF Relay
    <2> DEFINE a == NameOf(j, h + 1)
    <2> HIDE DEF hd, z, a
    <2>2. processed = [ok |-> TRUE, hop |-> "ForwardHop", packet |-> q, address |-> a,
                       delay |-> <<k, h>>]
      BY <1>2, <2>1 DEF Onward, hd, z, a
    <2> QED
      BY <2>2
  <1>5. links = [l \in 1 .. h |-> links[l]]
    BY <1>1 DEF OnTheWay, LinksRight
  <1>6. hop' = h + 1 /\ links' = [l \in 1 .. h + 1 |-> IF l = h + 1 THEN q ELSE links[l]]
    <2>1. hop' = h + 1 /\ links' = Append(links, q)
      BY <1>4 DEF Relay
    <2> QED
      BY <1>3, <1>5, <2>1, AppendList
  <1>7. f # NoFault => f.at \in 1 .. h
    BY <1>1 DEF AllLinks
  <1>8. \A l \in 1 .. h : LinkRight(links[l], j, k, w, l, f)
    BY <1>1 DEF AllLinks
  <1>9. LinkRight(packet, j, k, w, h, f)
    <2>1. h \in 1 .. h
      BY <1>3
    <2> QED
      BY <1>8, <2>1 DEF packet
  <1>10. y.len # 0
    <2>1. processed.ok /\ processed = IF y.len < 17 THEN Err("InvalidPacket")
                                      ELSE IF RememberedAsLast THEN Err("InvalidHeader")
                                      ELSE IF y.len <= 32 THEN Err("InvalidPayload")
                                      ELSE Onward(j, k, h, y)
      BY <1>1, <1>2, GoodHeaderProcessed DEF Relay
    <2> SUFFICES ASSUME y.len = 0 PROVE FALSE
      OBVIOUS
    <2>2. processed = Err("InvalidPacket")
      BY <2>1
    <2> QED
      BY <2>1, <2>2, ErrIs
  <1>11. z.len = y.len /\ z.base = y.base
    <2>1. IsBlob(y)
      BY <1>9 DEF LinkRight, Weighs
    <2> QED
      BY <2>1, CipherKeeps DEF Unwrapped
  <1> HIDE DEF hd, y
  <1>12. LinkRight(q, j, k, w, h + 1, f)
    <2>1. q.header = hd /\ q.payload = z
      OBVIOUS
    <2>2. y.len = IF Junked(f, h) /\ f.part[1] = "cut" THEN f.part[2] ELSE j.size
      BY <1>9 DEF LinkRight, y
    <2>3. CASE Junked(f, h)
      <3>1. f.at \in 1 .. h /\ f # NoFault
        BY <1>7, <2>3 DEF Junked
      <3>2. Weighs(y, "junk", f.at - h)
        BY <1>9, <2>3 DEF LinkRight, y
      <3>3. f.at - h \in Int /\ f.at - h <= 0 /\ (f.at - h) - 1 = f.at - (h + 1)
            /\ f.at <= h + 1
        BY <1>3, <3>1
      <3> DEFINE m == f.at - h
      <3> HIDE DEF m
      <3>4. Weighs(z, "junk", m - 1)
        BY <1>10, <3>2, <3>3, JunkWeighs DEF m
      <3>5. Weighs(z, "junk", f.at - (h + 1))
        BY <3>3, <3>4 DEF m
      <3>6. Junked(f, h + 1)
        BY <1>2, <3>1, <3>3 DEF Junked
      <3> HIDE DEF q, z
      <3> QED
        BY <1>2, <1>11, <2>1, <2>2, <2>3, <3>5, <3>6 DEF LinkRight, hd
    <2>4. CASE ~ Junked(f, h)
      <3>1. f = NoFault
        BY <1>2, <1>7, <2>4 DEF Junked
      <3>2. ~ Junked(f, h + 1)
        BY <3>1 DEF Junked
      <3>3. y.base.kind = "payload"
        BY <1>9, <2>4 DEF LinkRight, Weighs, y
      <3>4. PayloadAt(y, j, k, w, h)
        <4>1. PacketRight(packet, j, k, w, h, f)
          BY <1>1 DEF AtNode
        <4> QED
          BY <1>2, <3>1, <4>1 DEF PacketRight, y
      <3>5. PayloadAt(z, j, k, w, h + 1)
        BY <1>3, <3>4, NextPayloadAt
      <3>6. z.base.kind = "payload" /\ h + 1 \in Nat \ {0}
        BY <1>3, <1>11, <3>3
      <3> HIDE DEF z, q
      <3>7. Weighs(z, "payload", (w + 1) - (h + 1))
        BY <1>3, <3>5, <3>6, PayloadWeighs
      <3> QED
        BY <1>2, <1>11, <2>1, <2>2, <2>4, <3>2, <3>7 DEF LinkRight, hd
    <2> QED
      BY <2>3, <2>4
  <1> HIDE DEF q, z
  <1>13. \A l \in 1 .. h + 1 : LinkRight(links'[l], j, k, w, l, f)
    <2> TAKE l \in 1 .. h + 1
    <2>1. CASE l = h + 1
      <3>1. links'[l] = q
        BY <1>6, <2>1
      <3> QED
        BY <1>12, <2>1, <3>1
    <2>2. CASE l # h + 1
      <3>1. l \in 1 .. h
        BY <1>3, <2>2
      <3>2. links'[l] = links[l]
        BY <1>6, <2>2
      <3> QED
        BY <1>8, <3>1, <3>2
    <2> QED
      BY <2>1, <2>2
  <1>14. UNCHANGED <<job, sent, whole_keys, fault>>
    BY DEF Relay
  <1>15. f # NoFault => f.at \in 1 .. h + 1
    BY <1>3, <1>7
  <1> QED
    BY <1>6, <1>13, <1>14, <1>15 DEF AllLinks

LEMMA StepLinks == IInv /\ AllLinks /\ [Next]_vars => AllLinks'
  <1> SUFFICES ASSUME IInv, AllLinks, [Next]_vars PROVE AllLinks'
    OBVIOUS
  <1>1. CASE Build          BY <1>1, BuildLinks
  <1>2. CASE BuildFails     BY <1>2 DEF BuildFails, AllLinks
  <1>3. CASE MakeSURB       BY <1>3 DEF MakeSURB, AllLinks
  <1>4. CASE MakeSURBFails  BY <1>4 DEF MakeSURBFails, AllLinks
  <1>5. CASE UseSURB        BY <1>5, UseSURBLinks
  <1>6. CASE Maul           BY <1>6, MaulLinks
  <1>7. CASE Relay          BY <1>7, RelayLinks
  <1>8. CASE Arrive         BY <1>8 DEF Arrive, AllLinks
  <1>9. CASE Fail           BY <1>9 DEF Fail, AllLinks
  <1>10. CASE Again         BY <1>10 DEF Again, AllLinks
  <1>11. CASE Done \/ UNCHANGED vars BY <1>11 DEF Done, vars, AllLinks
  <1> QED
    BY <1>1, <1>2, <1>3, <1>4, <1>5, <1>6, <1>7, <1>8, <1>9, <1>10, <1>11 DEF Next

LEMMA AlwaysLinks == Spec => []AllLinks
  <1>1. Init => AllLinks
    BY DEF Init, AllLinks
  <1>2. IInv /\ AllLinks /\ [Next]_vars => AllLinks'
    BY StepLinks
  <1> QED
    BY <1>1, <1>2, AlwaysRight, PTL DEF Spec

LEMMA LinksDiffer == IInv /\ AllLinks => LinksUnrelated
  <1> SUFFICES ASSUME IInv, AllLinks, NEW a \in DOMAIN links, NEW b \in DOMAIN links, a < b
               PROVE  /\ HeadersDiffer(links[a].header, links[b].header)
                      /\ links[a].payload # links[b].payload
                      /\ \/ links[a].payload.len = links[b].payload.len
                         \/ fault.part[1] = "cut" /\ a < fault.at /\ fault.at <= b
    BY DEF LinksUnrelated, HeadersDiffer
  <1> DEFINE j == job
             k == sent
             w == whole_keys
             f == fault
             p == links[a]
             q == links[b]
  <1>1. links # <<>>
    <2>1. a \notin DOMAIN <<>>
      OBVIOUS
    <2> QED
      BY <2>1, Zenon
  <1>2. OnTheWay /\ JobRight
    BY <1>1 DEF IInv
  <1>3. a \in 1 .. hop /\ b \in 1 .. hop
    <2>1. links = [l \in 1 .. hop |-> links[l]]
      BY <1>2 DEF OnTheWay, LinksRight
    <2>2. DOMAIN links = 1 .. hop
      BY <2>1
    <2> QED
      BY <2>2
  <1>4. /\ j \in JobType /\ Routable(j) /\ a \in 1 .. j.n /\ b \in 1 .. j.n
        /\ a \in Nat /\ b \in Nat /\ w \in Nat /\ a # b
    <2>1. j \in JobType /\ Routable(j) /\ hop \in 1 .. j.n /\ w \in 1 .. j.n
      BY <1>2 DEF OnTheWay, PlaceRight, JobRight
    <2>2. j.n \in Nat
      BY <2>1, RouteOfJob DEF IsJobRoute
    <2> HIDE DEF j, w
    <2> QED
      BY <1>3, <2>1, <2>2
  <1>5. LinkRight(p, j, k, w, a, f) /\ LinkRight(q, j, k, w, b, f)
    BY <1>1, <1>3 DEF AllLinks
  <1>6. f # NoFault => f.at \in Nat
    BY <1>1 DEF AllLinks
  <1> HIDE DEF p, q
  <1>7. HeadersDiffer(p.header, q.header)
    <2> DEFINE At(l) == HeaderAt(j, k, l)
               s == p.header
               t == q.header
    <2>1. /\ IF f.part[1] \in HeaderParts /\ a = f.at THEN HeaderLike(s, At(a)) ELSE s = At(a)
          /\ IF f.part[1] \in HeaderParts /\ b = f.at THEN HeaderLike(t, At(b)) ELSE t = At(b)
      BY <1>5 DEF LinkRight
    <2> HIDE DEF s, t
    <2>2. HeadersDiffer(At(a), At(b))
      BY <1>4, NodesHeadersDiffer
    <2>3. \A v : HeaderLike(v, At(b)) => HeadersDiffer(At(a), v)
      BY <1>4, AlteredHeadersDiffer
    <2>4. \A v : HeaderLike(v, At(a)) => HeadersDiffer(v, At(b))
      <3> TAKE v
      <3> HAVE HeaderLike(v, At(a))
      <3>1. HeadersDiffer(At(b), v)
        BY <1>4, AlteredHeadersDiffer
      <3> HIDE DEF At
      <3> QED
        BY <3>1 DEF HeadersDiffer
    <2> HIDE DEF At
    <2>5. (s = At(a) \/ t = At(b)) /\ (s = At(a) \/ HeaderLike(s, At(a)))
          /\ (t = At(b) \/ HeaderLike(t, At(b)))
      BY <1>4, <2>1
    <2>6. HeadersDiffer(s, t)
      BY <2>2, <2>3, <2>4, <2>5
    <2> QED
      BY <2>6 DEF s, t
  <1>8. p.payload # q.payload
    <2> SUFFICES ASSUME p.payload = q.payload PROVE FALSE
      OBVIOUS
    <2> DEFINE x == p.payload
               m == IF Junked(f, a) THEN f.at - a ELSE (w + 1) - a
               n == IF Junked(f, b) THEN f.at - b ELSE (w + 1) - b
               c == IF Junked(f, a) THEN "junk" ELSE "payload"
               d == IF Junked(f, b) THEN "junk" ELSE "payload"
    <2>1. Weighs(x, c, m) /\ Weighs(x, d, n)
      BY <1>5 DEF LinkRight
    <2>2. m \in Int /\ n \in Int
      BY <1>4, <1>6 DEF Junked
    <2>3. c = d => m # n
      BY <1>4, <1>6 DEF Junked
    <2> HIDE DEF x, c, d, m, n
    <2> QED
      BY <2>1, <2>2, <2>3, OneWeight
  <1>9. \/ p.payload.len = q.payload.len
        \/ f.part[1] = "cut" /\ a < f.at /\ f.at <= b
    <2> DEFINE x == p.payload.len
               y == q.payload.len
    <2>1. /\ x = IF Junked(f, a) /\ f.part[1] = "cut" THEN f.part[2] ELSE j.size
          /\ y = IF Junked(f, b) /\ f.part[1] = "cut" THEN f.part[2] ELSE j.size
      BY <1>5 DEF LinkRight
    <2> HIDE DEF x, y
    <2>2. x = y \/ (f.part[1] = "cut" /\ a < f.at /\ f.at <= b)
      BY <1>4, <1>6, <2>1 DEF Junked
    <2> QED
      BY <2>2 DEF x, y
  <1> QED
    BY <1>7, <1>8, <1>9 DEF p, q

(* No two links have a secret, a MAC, a slot or a payload in common, for   *)
(* routes and packets of all sizes, whatever the network altered: no node  *)
(* shares its keys with another, each layer of the sender, or of a node    *)
(* that found none, is one more or one less, and what nodes shift into a   *)
(* header is under the keystream of the last one that had it.              *)
THEOREM LinksAreUnrelated == Spec => []LinksUnrelated
  BY AlwaysRight, AlwaysLinks, LinksDiffer, PTL
=============================================================================
