-------------------------- MODULE Primitives_proofs --------------------------
(***************************************************************************)
(* Facts that the proofs about onions rest on: induction over intervals    *)
(* of integers, and what the cipher of Primitives keeps and undoes.        *)
(***************************************************************************)
EXTENDS Primitives, SequenceTheorems, WellFoundedInduction, TLAPS

-----------------------------------------------------------------------------
(* Induction over a set instead of a predicate: a set that holds 0 and,    *)
(* with every number, the next one, holds them all.  It follows from the   *)
(* least element that every set of numbers has.                            *)

(* Induction over the natural numbers. *)
LEMMA SetInduction ==
  ASSUME NEW T, 0 \in T, \A n \in Nat : n \in T => n + 1 \in T
  PROVE  Nat \subseteq T
  <1> DEFINE R == OpToRel(<, Nat)
             U == Nat \ T
  <1>1. IsWellFoundedOn(R, Nat)
    BY NatLessThanWellFounded, Zenon
  <1>2. \A m, n \in Nat : m < n => <<m, n>> \in R
    BY DEF OpToRel
  <1> HIDE DEF R
  <1>3. SUFFICES ASSUME U # {} PROVE FALSE
    OBVIOUS
  <1>4. PICK x \in U : \A y \in U : <<y, x>> \notin R
    BY <1>1, <1>3, WFMin
  <1>5. x \in Nat /\ x # 0
    OBVIOUS
  <1>6. x - 1 \in Nat /\ x - 1 < x /\ (x - 1) + 1 = x
    BY <1>5
  <1>7. x - 1 \in T
    BY <1>2, <1>4, <1>5, <1>6
  <1> QED
    BY <1>5, <1>6, <1>7

(* Upward induction over an interval. *)
LEMMA UpFrom ==
  ASSUME NEW m \in Int, NEW n \in Int, NEW T, m \in T,
         \A k \in m .. n - 1 : k \in T => k + 1 \in T
  PROVE  m .. n \subseteq T
  <1> DEFINE U == {k \in Nat : m + k <= n => m + k \in T}
  <1>1. 0 \in U
    OBVIOUS
  <1>2. ASSUME NEW k \in Nat, k \in U PROVE k + 1 \in U
    <2> SUFFICES ASSUME m + (k + 1) <= n PROVE m + (k + 1) \in T
      OBVIOUS
    <2>1. m + k \in m .. n - 1 /\ m + k <= n
      OBVIOUS
    <2>2. m + k \in T
      BY <1>2, <2>1
    <2>3. (m + k) + 1 \in T
      BY <2>1, <2>2
    <2> QED
      BY <2>3
  <1> HIDE DEF U
  <1>3. Nat \subseteq U
    BY <1>1, <1>2, SetInduction
  <1>4. ASSUME NEW i \in m .. n PROVE i \in T
    <2>1. i - m \in Nat /\ m + (i - m) = i /\ i <= n
      OBVIOUS
    <2>2. i - m \in U
      BY <1>3, <2>1
    <2> QED
      BY <2>1, <2>2 DEF U
  <1> QED
    BY <1>4

(* Downward induction over an interval. *)
LEMMA DownFrom ==
  ASSUME NEW m \in Int, NEW n \in Int, NEW T, n \in T,
         \A k \in m .. n - 1 : k + 1 \in T => k \in T
  PROVE  m .. n \subseteq T
  <1> DEFINE U == {k \in Nat : m <= n - k => n - k \in T}
  <1>1. 0 \in U
    OBVIOUS
  <1>2. ASSUME NEW k \in Nat, k \in U PROVE k + 1 \in U
    <2> SUFFICES ASSUME m <= n - (k + 1) PROVE n - (k + 1) \in T
      OBVIOUS
    <2>1. n - (k + 1) \in m .. n - 1 /\ m <= n - k /\ (n - (k + 1)) + 1 = n - k
      OBVIOUS
    <2>2. n - k \in T
      BY <1>2, <2>1
    <2> QED
      BY <2>1, <2>2
  <1> HIDE DEF U
  <1>3. Nat \subseteq U
    BY <1>1, <1>2, SetInduction
  <1>4. ASSUME NEW i \in m .. n PROVE i \in T
    <2>1. n - i \in Nat /\ n - (n - i) = i /\ m <= i
      OBVIOUS
    <2>2. n - i \in U
      BY <1>3, <2>1
    <2> QED
      BY <2>1, <2>2 DEF U
  <1> QED
    BY <1>4

-----------------------------------------------------------------------------
(* Sequences. *)

(* A sequence without its last elements. *)
LEMMA Prefix ==
  ASSUME NEW S, NEW s \in Seq(S), NEW m \in 0 .. Len(s)
  PROVE  /\ SubSeq(s, 1, m) \in Seq(S)
         /\ Len(SubSeq(s, 1, m)) = m
         /\ \A i \in 1 .. m : SubSeq(s, 1, m)[i] = s[i]
  <1>1. CASE m = 0
    <2>1. SubSeq(s, 1, m) = <<>>
      BY <1>1, SubSeqEmpty
    <2> QED
      BY <1>1, <2>1
  <1>2. CASE m # 0
    <2>1. /\ SubSeq(s, 1, m) \in Seq(S)
          /\ Len(SubSeq(s, 1, m)) = IF 1 <= m THEN m - 1 + 1 ELSE 0
          /\ \A i \in 1 .. m - 1 + 1 : SubSeq(s, 1, m)[i] = s[1 + i - 1]
      BY <1>2, SubSeqProperties
    <2> QED
      BY <1>2, <2>1
  <1> QED
    BY <1>1, <1>2

(* A function on 1 .. m is a sequence. *)
LEMMA FunctionIsSeq ==
  ASSUME NEW m \in Nat, NEW S, NEW f \in [1 .. m -> S]
  PROVE  f \in Seq(S) /\ Len(f) = m
  <1>1. f \in Seq(S)
    BY SeqDef
  <1>2. Len(f) \in Nat /\ DOMAIN f = 1 .. Len(f)
    BY <1>1, LenProperties
  <1>3. 1 .. Len(f) = 1 .. m
    BY <1>2
  <1>4. Len(f) = m
    BY <1>2, <1>3
  <1> QED
    BY <1>1, <1>4

(* Two sequences with the same elements are equal. *)
LEMMA SameSeq ==
  ASSUME NEW S, NEW s \in Seq(S), NEW t \in Seq(S), Len(s) = Len(t),
         \A i \in 1 .. Len(s) : s[i] = t[i]
  PROVE  s = t
  BY SeqEqual

-----------------------------------------------------------------------------
(* Blobs as the cipher makes them: no layer lies on its own inverse. *)

InverseOf(l) == [dir |-> Opposite(l.dir), key |-> l.key, nonce |-> l.nonce]

Reduced(layers) == \A i \in 1 .. Len(layers) - 1 : layers[i] # InverseOf(layers[i + 1])

IsBlob(b) ==
  /\ \E B, S : b \in [base : B, len : Nat, layers : Seq(S)]
  /\ Reduced(b.layers)

Directions == {"enc", "dec"}

(* A byte string that no cipher was applied to is such a blob. *)
LEMMA BytesIsBlob ==
  ASSUME NEW base, NEW len \in Nat
  PROVE  /\ IsBlob(Bytes(base, len))
         /\ Bytes(base, len).base = base
         /\ Bytes(base, len).len = len
         /\ Bytes(base, len).layers = <<>>
  <1>1. Bytes(base, len) \in [base : {base}, len : Nat, layers : Seq({})]
    BY DEF Bytes
  <1>2. Reduced(Bytes(base, len).layers)
    BY DEF Bytes, Reduced
  <1>3. IsBlob(Bytes(base, len))
    BY <1>1, <1>2, Zenon DEF IsBlob
  <1> QED
    BY <1>3 DEF Bytes

(* The cipher keeps the length and what was ciphered. *)
LEMMA CipherKeeps ==
  ASSUME NEW b, IsBlob(b), NEW dir, NEW key, NEW nonce
  PROVE  /\ IsBlob(Cipher(dir, key, nonce, b))
         /\ Cipher(dir, key, nonce, b).base = b.base
         /\ Cipher(dir, key, nonce, b).len = b.len
  <1> DEFINE l   == [dir |-> dir, key |-> key, nonce |-> nonce]
             inv == [dir |-> Opposite(dir), key |-> key, nonce |-> nonce]
             n   == Len(b.layers)
             c   == Cipher(dir, key, nonce, b)
  <1>1. PICK B, S : b \in [base : B, len : Nat, layers : Seq(S)]
    BY Zenon DEF IsBlob
  <1>2. n \in Nat
    BY <1>1
  <1>3. InverseOf(l) = inv
    BY DEF InverseOf
  <1>4. CASE b.len = 0
    BY <1>4 DEF Cipher
  <1>5. CASE b.len # 0 /\ n > 0 /\ b.layers[n] = inv
    <2>1. c = [b EXCEPT !.layers = SubSeq(b.layers, 1, n - 1)]
      BY <1>5 DEF Cipher
    <2>2. SubSeq(b.layers, 1, n - 1) \in Seq(S)
      BY <1>1, <1>2
    <2>3. c \in [base : B, len : Nat, layers : Seq(S)] /\ c.base = b.base /\ c.len = b.len
          /\ c.layers = SubSeq(b.layers, 1, n - 1)
      BY <1>1, <2>1, <2>2
    <2>a. b.layers \in Seq(S) /\ n - 1 \in 0 .. Len(b.layers)
      BY <1>1, <1>2, <1>5
    <2>b. /\ Len(SubSeq(b.layers, 1, n - 1)) = n - 1
          /\ \A i \in 1 .. n - 1 : SubSeq(b.layers, 1, n - 1)[i] = b.layers[i]
      BY <2>a, Prefix, Zenon
    <2>4. Len(c.layers) = n - 1 /\ \A i \in 1 .. n - 1 : c.layers[i] = b.layers[i]
      BY <2>3, <2>b
    <2>c. ASSUME NEW i \in 1 .. (n - 1) - 1 PROVE c.layers[i] # InverseOf(c.layers[i + 1])
      <3>1. i \in 1 .. n - 1 /\ i + 1 \in 1 .. n - 1
        BY <1>2
      <3>2. c.layers[i] = b.layers[i] /\ c.layers[i + 1] = b.layers[i + 1]
        BY <2>4, <3>1
      <3> QED
        BY <3>1, <3>2 DEF IsBlob, Reduced
    <2>5. Reduced(c.layers)
      BY <2>4, <2>c, Zenon DEF Reduced
    <2> QED
      BY <2>3, <2>5, Zenon DEF IsBlob
  <1>6. CASE b.len # 0 /\ ~ (n > 0 /\ b.layers[n] = inv)
    <2>1. c = [b EXCEPT !.layers = Append(b.layers, l)]
      BY <1>6 DEF Cipher
    <2>2. b.layers \in Seq(S \cup {l}) /\ Append(b.layers, l) \in Seq(S \cup {l})
      BY <1>1
    <2>3. c \in [base : B, len : Nat, layers : Seq(S \cup {l})] /\ c.base = b.base
          /\ c.len = b.len /\ c.layers = Append(b.layers, l)
      BY <1>1, <2>1, <2>2
    <2>4. /\ Len(c.layers) = n + 1 /\ c.layers[n + 1] = l
          /\ \A i \in 1 .. n : c.layers[i] = b.layers[i]
      BY <1>1, <1>2, <2>2, <2>3
    <2>5. ASSUME NEW i \in 1 .. n PROVE c.layers[i] # InverseOf(c.layers[i + 1])
      <3>1. CASE i = n
        BY <1>2, <1>3, <1>6, <2>4, <3>1
      <3>2. CASE i # n
        BY <1>2, <2>4, <3>2 DEF IsBlob, Reduced
      <3> QED
        BY <3>1, <3>2
    <2>6. Reduced(c.layers)
      BY <1>2, <2>4, <2>5 DEF Reduced
    <2> QED
      BY <2>3, <2>6, Zenon DEF IsBlob
  <1> QED
    BY <1>4, <1>5, <1>6

(* The inverse of a cipher undoes it, whichever of the two is applied      *)
(* first.                                                                  *)
LEMMA CipherCancels ==
  ASSUME NEW b, IsBlob(b), NEW dir \in Directions, NEW key, NEW nonce
  PROVE  Cipher(Opposite(dir), key, nonce, Cipher(dir, key, nonce, b)) = b
  <1> DEFINE l   == [dir |-> dir, key |-> key, nonce |-> nonce]
             inv == [dir |-> Opposite(dir), key |-> key, nonce |-> nonce]
             n   == Len(b.layers)
             c   == Cipher(dir, key, nonce, b)
             d   == Cipher(Opposite(dir), key, nonce, c)
  <1>1. PICK B, S : b \in [base : B, len : Nat, layers : Seq(S)]
    BY Zenon DEF IsBlob
  <1>2. n \in Nat
    BY <1>1
  <1>3. Opposite(Opposite(dir)) = dir
    BY DEF Directions, Opposite
  <1>4. CASE b.len = 0
    BY <1>4 DEF Cipher
  <1>5. CASE b.len # 0 /\ n > 0 /\ b.layers[n] = inv
    <2>1. c = [b EXCEPT !.layers = SubSeq(b.layers, 1, n - 1)]
      BY <1>5 DEF Cipher
    <2>2. SubSeq(b.layers, 1, n - 1) \in Seq(S)
      BY <1>1, <1>2
    <2>3. c.len # 0 /\ c.layers = SubSeq(b.layers, 1, n - 1) /\ c.layers \in Seq(S)
      BY <1>1, <1>5, <2>1, <2>2
    <2>a. b.layers \in Seq(S) /\ n - 1 \in 0 .. Len(b.layers)
      BY <1>1, <1>2, <1>5
    <2>b. /\ Len(SubSeq(b.layers, 1, n - 1)) = n - 1
          /\ \A i \in 1 .. n - 1 : SubSeq(b.layers, 1, n - 1)[i] = b.layers[i]
      BY <2>a, Prefix, Zenon
    <2>4. Len(c.layers) = n - 1 /\ \A i \in 1 .. n - 1 : c.layers[i] = b.layers[i]
      BY <2>3, <2>b
    <2>5. InverseOf(inv) = l
      BY <1>3 DEF InverseOf
    <2>6. ~ (n - 1 > 0 /\ c.layers[n - 1] = l)
      BY <1>2, <1>5, <2>4, <2>5 DEF IsBlob, Reduced
    <2>7. d = [c EXCEPT !.layers = Append(c.layers, inv)]
      BY <1>3, <2>3, <2>4, <2>6 DEF Cipher
    <2>8. inv \in S
      BY <1>1, <1>2, <1>5
    <2>9. Append(c.layers, inv) = b.layers
      BY <1>1, <1>2, <1>5, <2>3, <2>4, <2>8
    <2> QED
      BY <1>1, <2>1, <2>7, <2>9
  <1>6. CASE b.len # 0 /\ ~ (n > 0 /\ b.layers[n] = inv)
    <2>1. c = [b EXCEPT !.layers = Append(b.layers, l)]
      BY <1>6 DEF Cipher
    <2>2. b.layers \in Seq(S \cup {l}) /\ Append(b.layers, l) \in Seq(S \cup {l})
      BY <1>1
    <2>3. c.len # 0 /\ c.layers = Append(b.layers, l) /\ c.layers \in Seq(S \cup {l})
      BY <1>1, <1>6, <2>1, <2>2
    <2>4. /\ Len(c.layers) = n + 1 /\ c.layers[n + 1] = l
          /\ \A i \in 1 .. n : c.layers[i] = b.layers[i]
      BY <1>1, <1>2, <2>2, <2>3
    <2>a. /\ Len(c.layers) > 0 /\ Len(c.layers) - 1 = n
          /\ c.layers[Len(c.layers)] =
               [dir |-> Opposite(Opposite(dir)), key |-> key, nonce |-> nonce]
      BY <1>2, <1>3, <2>4
    <2>b. d = [c EXCEPT !.layers = SubSeq(c.layers, 1, Len(c.layers) - 1)]
      <3> HIDE DEF c
      <3> QED
        BY <2>3, <2>a DEF Cipher
    <2>5. d = [c EXCEPT !.layers = SubSeq(c.layers, 1, n)]
      BY <2>a, <2>b
    <2>6. SubSeq(c.layers, 1, n) = b.layers
      BY <1>1, <1>2, <2>2, <2>3, <2>4
    <2> QED
      BY <1>1, <2>1, <2>5, <2>6
  <1> QED
    BY <1>4, <1>5, <1>6

(* Decryption undoes encryption. *)
LEMMA DecryptEncrypt ==
  ASSUME NEW b, IsBlob(b), NEW key, NEW nonce
  PROVE  symmetric_decrypt(key, nonce, symmetric_encrypt(key, nonce, b)) = b
  <1>1. "enc" \in Directions /\ Opposite("enc") = "dec"
    BY DEF Directions, Opposite
  <1>2. Cipher(Opposite("enc"), key, nonce, Cipher("enc", key, nonce, b)) = b
    BY <1>1, CipherCancels, Zenon
  <1> QED
    BY <1>1, <1>2, Zenon DEF symmetric_decrypt, symmetric_encrypt

(* Encryption undoes decryption. *)
LEMMA EncryptDecrypt ==
  ASSUME NEW b, IsBlob(b), NEW key, NEW nonce
  PROVE  symmetric_encrypt(key, nonce, symmetric_decrypt(key, nonce, b)) = b
  <1>1. "dec" \in Directions /\ Opposite("dec") = "enc"
    BY DEF Directions, Opposite
  <1>2. Cipher(Opposite("dec"), key, nonce, Cipher("dec", key, nonce, b)) = b
    BY <1>1, CipherCancels, Zenon
  <1> QED
    BY <1>1, <1>2, Zenon DEF symmetric_decrypt, symmetric_encrypt

AllOneWay(layers, m, dir) ==
  /\ layers = [i \in 1 .. m |-> layers[i]]
  /\ \A i \in 1 .. m : layers[i].dir = dir

OnTopOf(layers, m, l) == [i \in 1 .. m + 1 |-> IF i = m + 1 THEN l ELSE layers[i]]

(* A pass of the cipher in the direction of the last one adds a layer.     *)
LEMMA LayerOnTop ==
  ASSUME NEW b, IsBlob(b), b.len # 0, NEW dir \in Directions, NEW key, NEW nonce,
         NEW m \in Nat, AllOneWay(b.layers, m, dir)
  PROVE  Cipher(dir, key, nonce, b).layers
           = OnTopOf(b.layers, m, [dir |-> dir, key |-> key, nonce |-> nonce])
  <1> DEFINE l   == [dir |-> dir, key |-> key, nonce |-> nonce]
             inv == [dir |-> Opposite(dir), key |-> key, nonce |-> nonce]
             c   == Cipher(dir, key, nonce, b)
             s   == b.layers
             S   == {s[i] : i \in 1 .. m} \cup {l}
             g   == [i \in 1 .. m + 1 |-> IF i = m + 1 THEN l ELSE s[i]]
  <1>1. PICK B, R : b \in [base : B, len : Nat, layers : Seq(R)]
    BY Zenon DEF IsBlob
  <1>2. s \in [1 .. m -> S] /\ l \in S
    <2>1. s = [i \in 1 .. m |-> s[i]]
      BY DEF AllOneWay
    <2> HIDE DEF s, l
    <2> QED
      BY <2>1
  <1>3. g \in [1 .. m + 1 -> S]
    <2> HIDE DEF s, l
    <2> QED
      OBVIOUS
  <1>4. inv.dir # dir /\ l.dir = dir
    BY DEF Opposite, Directions
  <1> HIDE DEF S, s, l, inv
  <1>5. s \in Seq(S) /\ Len(s) = m
    BY <1>2, FunctionIsSeq
  <1>6. g \in Seq(S) /\ Len(g) = m + 1
    <2> HIDE DEF g
    <2>1. m + 1 \in Nat
      OBVIOUS
    <2> QED
      BY <1>3, <2>1, FunctionIsSeq
  <1>7. ~ (m > 0 /\ s[m] = inv)
    <2> SUFFICES ASSUME m > 0, s[m] = inv PROVE FALSE
      OBVIOUS
    <2>1. m \in 1 .. m
      OBVIOUS
    <2>2. s[m].dir = dir
      BY <2>1 DEF s, AllOneWay
    <2> QED
      BY <1>4, <2>2
  <1>8. c = [b EXCEPT !.layers = Append(s, l)]
    BY <1>5, <1>7 DEF Cipher, l, inv, s
  <1>9. c.layers = Append(s, l)
    BY <1>1, <1>8
  <1>10. /\ Append(s, l) \in Seq(S) /\ Len(Append(s, l)) = m + 1
         /\ \A i \in 1 .. m + 1 : Append(s, l)[i] = IF i = m + 1 THEN l ELSE s[i]
    BY <1>2, <1>5
  <1>11. \A i \in 1 .. m + 1 : Append(s, l)[i] = g[i]
    BY <1>10
  <1> HIDE DEF g
  <1>12. Append(s, l) = g
    BY <1>6, <1>10, <1>11, SameSeq
  <1> QED
    BY <1>9, <1>12 DEF c, g, s, l, OnTopOf
=============================================================================
