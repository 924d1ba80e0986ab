-------------------------- MODULE OnionFormat_proofs --------------------------
(***************************************************************************)
(* What the format of src/src/lib.rs promises, for every MaxPathLength and *)
(* every path: each hop that peels its layer off an onion finds the tag    *)
(* that the sender computed, and leaves exactly what the sender reckoned   *)
(* that the next hop would receive; and the sender, who puts the layers of *)
(* the reply path back on, recovers what the receiver answered.            *)
(***************************************************************************)
EXTENDS OnionFormat, Primitives_proofs

-----------------------------------------------------------------------------
(* The recursive functions of the model satisfy their equations.  Each is  *)
(* shown to exist by induction on its length.                              *)

(* How many bytes the first c cells of a header take. *)
ByteCounts(header, upto) ==
  [c \in 0 .. Len(header) |->
     IF c = 0 THEN VecLengthBytes ELSE upto[c - 1] + VecLengthBytes + header[c].len]

(* The length of a header is the last of the counts. *)
LEMMA HeaderBytesRecur ==
  ASSUME NEW header, Len(header) \in Nat
  PROVE  \E upto : /\ upto = ByteCounts(header, upto)
                   /\ HeaderBytes(header) = upto[Len(header)]
  <1> DEFINE D(i, x) == x + VecLengthBytes + header[i].len
             Is(f, k) == f = [i \in 0 .. k |-> IF i = 0 THEN VecLengthBytes ELSE D(i, f[i - 1])]
             T == {k \in Nat : \E f : Is(f, k)}
  <1> HIDE DEF D
  <1>1. 0 \in T
    <2> DEFINE f == [i \in 0 .. 0 |-> VecLengthBytes]
    <2>1. Is(f, 0)
      OBVIOUS
    <2> HIDE DEF f, Is
    <2> QED
      BY <2>1
  <1>2. ASSUME NEW k \in Nat, k \in T PROVE k + 1 \in T
    <2>1. PICK f : Is(f, k)
      BY <1>2
    <2> DEFINE g == [i \in 0 .. k + 1 |-> IF i = k + 1 THEN D(k + 1, f[k]) ELSE f[i]]
    <2>2. ASSUME NEW i \in 0 .. k + 1
          PROVE  g[i] = IF i = 0 THEN VecLengthBytes ELSE D(i, g[i - 1])
      <3>1. CASE i = k + 1
        <4>1. g[i - 1] = f[k] /\ i # 0
          BY <3>1
        <4> QED
          BY <3>1, <4>1
      <3>2. CASE i # k + 1
        <4>1. i \in 0 .. k /\ (i # 0 => i - 1 \in 0 .. k + 1 /\ i - 1 # k + 1)
          BY <3>2
        <4>2. g[i] = f[i] /\ (i # 0 => g[i - 1] = f[i - 1])
          BY <3>2, <4>1
        <4>3. f[i] = IF i = 0 THEN VecLengthBytes ELSE D(i, f[i - 1])
          BY <2>1, <4>1
        <4> QED
          BY <4>2, <4>3
      <3> QED
        BY <3>1, <3>2
    <2>3. Is(g, k + 1)
      BY <2>2
    <2> HIDE DEF g, Is
    <2> QED
      BY <2>3
  <1>3. Nat \subseteq T
    <2> HIDE DEF T
    <2> QED
      BY <1>1, <1>2, SetInduction
  <1>4. PICK f : Is(f, Len(header))
    BY <1>3
  <1>5. f = ByteCounts(header, f)
    BY <1>4, Zenon DEF ByteCounts, D
  <1> DEFINE u == CHOOSE u : u = ByteCounts(header, u)
  <1>6. u = ByteCounts(header, u)
    BY <1>5, Zenon
  <1>7. HeaderBytes(header) = u[Len(header)]
    BY Zenon DEF HeaderBytes, ByteCounts
  <1> QED
    BY <1>6, <1>7

(* The rows of the cells below the blocks of the path. *)
RowAfter(keys, h, before) ==
  [c \in (MaxPathLength - h + 2) .. MaxPathLength |->
     symmetric_decrypt(derive_key(SymEnc, keys[h - 1]), c + 1,
       IF c = MaxPathLength THEN zero_header ELSE before[c + 1])]

(* Each row follows from the one before it. *)
LEMMA GarbageRowsRecur ==
  ASSUME NEW keys, Len(keys) \in Nat
  PROVE  garbage_rows(keys)
           = [h \in 1 .. Len(keys) |-> RowAfter(keys, h, garbage_rows(keys)[h - 1])]
  <1> DEFINE D(h, x) == RowAfter(keys, h, x)
             Is(f, k) == f = [h \in 1 .. k |-> D(h, f[h - 1])]
             T == {k \in Nat : \E f : Is(f, k)}
  <1>0. \A x, y : D(1, x) = D(1, y)
    <2>1. (MaxPathLength - 1 + 2) .. MaxPathLength = {}
      BY MaxPathLengthAssumption
    <2> QED
      BY <2>1 DEF RowAfter
  <1> HIDE DEF D
  <1>1. 0 \in T
    <2> DEFINE f == [h \in 1 .. 0 |-> 0]
    <2>1. Is(f, 0)
      OBVIOUS
    <2> HIDE DEF f, Is
    <2> QED
      BY <2>1
  <1>2. ASSUME NEW k \in Nat, k \in T PROVE k + 1 \in T
    <2>1. PICK f : Is(f, k)
      BY <1>2
    <2> DEFINE g == [h \in 1 .. k + 1 |-> IF h = k + 1 THEN D(k + 1, f[k]) ELSE f[h]]
    <2>2. ASSUME NEW h \in 1 .. k + 1
          PROVE  g[h] = D(h, g[h - 1])
      <3>1. CASE h = 1
        <4>1. g[1] = D(1, f[0])
          BY <2>1, <3>1
        <4> QED
          BY <1>0, <3>1, <4>1
      <3>2. CASE h # 1 /\ h = k + 1
        <4>1. g[h - 1] = f[k]
          BY <3>2
        <4> QED
          BY <3>2, <4>1
      <3>3. CASE h # 1 /\ h # k + 1
        <4>1. h \in 1 .. k /\ h - 1 \in 1 .. k + 1 /\ h - 1 # k + 1
          BY <3>3
        <4>2. g[h] = f[h] /\ g[h - 1] = f[h - 1]
          BY <3>3, <4>1
        <4>3. f[h] = D(h, f[h - 1])
          BY <2>1, <4>1
        <4> QED
          BY <4>2, <4>3
      <3> QED
        BY <3>1, <3>2, <3>3
    <2>3. Is(g, k + 1)
      BY <2>2
    <2> HIDE DEF g, Is
    <2> QED
      BY <2>3
  <1>3. Nat \subseteq T
    <2> HIDE DEF T
    <2> QED
      BY <1>1, <1>2, SetInduction
  <1>4. PICK f : Is(f, Len(keys))
    BY <1>3
  <1>5. f = [h \in 1 .. Len(keys) |-> RowAfter(keys, h, f[h - 1])]
    BY <1>4, Zenon DEF D
  <1> QED
    BY <1>5, Zenon DEF garbage_rows, RowAfter

(* The forward section of a reply as each hop leaves it follows from what  *)
(* the hop before it left.                                                 *)
LEMMA ForwardSectionsRecur ==
  ASSUME NEW keys, NEW data, Len(keys) \in Nat
  PROVE  forward_sections(keys, data)
           = [i \in 0 .. Len(keys) |->
                IF i = 0 THEN data
                ELSE symmetric_decrypt(derive_key(SymEnc, keys[i]), NONCE_FWD,
                                       forward_sections(keys, data)[i - 1])]
  <1> DEFINE D(i, x) == symmetric_decrypt(derive_key(SymEnc, keys[i]), NONCE_FWD, x)
             Is(f, k) == f = [i \in 0 .. k |-> IF i = 0 THEN data ELSE D(i, f[i - 1])]
             T == {k \in Nat : \E f : Is(f, k)}
  <1> HIDE DEF D
  <1>1. 0 \in T
    <2> DEFINE f == [i \in 0 .. 0 |-> data]
    <2>1. Is(f, 0)
      OBVIOUS
    <2> HIDE DEF f, Is
    <2> QED
      BY <2>1
  <1>2. ASSUME NEW k \in Nat, k \in T PROVE k + 1 \in T
    <2>1. PICK f : Is(f, k)
      BY <1>2
    <2> DEFINE g == [i \in 0 .. k + 1 |-> IF i = k + 1 THEN D(k + 1, f[k]) ELSE f[i]]
    <2>2. ASSUME NEW i \in 0 .. k + 1
          PROVE  g[i] = IF i = 0 THEN data ELSE D(i, g[i - 1])
      <3>1. CASE i = k + 1
        <4>1. g[i - 1] = f[k] /\ i # 0
          BY <3>1
        <4> QED
          BY <3>1, <4>1
      <3>2. CASE i # k + 1
        <4>1. i \in 0 .. k /\ (i # 0 => i - 1 \in 0 .. k + 1 /\ i - 1 # k + 1)
          BY <3>2
        <4>2. g[i] = f[i] /\ (i # 0 => g[i - 1] = f[i - 1])
          BY <3>2, <4>1
        <4>3. f[i] = IF i = 0 THEN data ELSE D(i, f[i - 1])
          BY <2>1, <4>1
        <4> QED
          BY <4>2, <4>3
      <3> QED
        BY <3>1, <3>2
    <2>3. Is(g, k + 1)
      BY <2>2
    <2> HIDE DEF g, Is
    <2> QED
      BY <2>3
  <1>3. Nat \subseteq T
    <2> HIDE DEF T
    <2> QED
      BY <1>1, <1>2, SetInduction
  <1>4. PICK f : Is(f, Len(keys))
    BY <1>3
  <1>5. f = [i \in 0 .. Len(keys) |->
               IF i = 0 THEN data
               ELSE symmetric_decrypt(derive_key(SymEnc, keys[i]), NONCE_FWD, f[i - 1])]
    BY <1>4, Zenon DEF D
  <1> QED
    BY <1>5, Zenon DEF forward_sections

(* The backward section as each hop leaves it follows from what the hop    *)
(* before it left.                                                         *)
LEMMA BackwardSectionsRecur ==
  ASSUME NEW keys, NEW bwd_1, Len(keys) \in Nat
  PROVE  backward_sections(keys, bwd_1)
           = [i \in 0 .. Len(keys) |->
                IF i = 0 THEN bwd_1
                ELSE ae_unwrap(keys[i], backward_sections(keys, bwd_1)[i - 1])]
  <1> DEFINE D(i, x) == ae_unwrap(keys[i], x)
             Is(f, k) == f = [i \in 0 .. k |-> IF i = 0 THEN bwd_1 ELSE D(i, f[i - 1])]
             T == {k \in Nat : \E f : Is(f, k)}
  <1> HIDE DEF D
  <1>1. 0 \in T
    <2> DEFINE f == [i \in 0 .. 0 |-> bwd_1]
    <2>1. Is(f, 0)
      OBVIOUS
    <2> HIDE DEF f, Is
    <2> QED
      BY <2>1
  <1>2. ASSUME NEW k \in Nat, k \in T PROVE k + 1 \in T
    <2>1. PICK f : Is(f, k)
      BY <1>2
    <2> DEFINE g == [i \in 0 .. k + 1 |-> IF i = k + 1 THEN D(k + 1, f[k]) ELSE f[i]]
    <2>2. ASSUME NEW i \in 0 .. k + 1
          PROVE  g[i] = IF i = 0 THEN bwd_1 ELSE D(i, g[i - 1])
      <3>1. CASE i = k + 1
        <4>1. g[i - 1] = f[k] /\ i # 0
          BY <3>1
        <4> QED
          BY <3>1, <4>1
      <3>2. CASE i # k + 1
        <4>1. i \in 0 .. k /\ (i # 0 => i - 1 \in 0 .. k + 1 /\ i - 1 # k + 1)
          BY <3>2
        <4>2. g[i] = f[i] /\ (i # 0 => g[i - 1] = f[i - 1])
          BY <3>2, <4>1
        <4>3. f[i] = IF i = 0 THEN bwd_1 ELSE D(i, f[i - 1])
          BY <2>1, <4>1
        <4> QED
          BY <4>2, <4>3
      <3> QED
        BY <3>1, <3>2
    <2>3. Is(g, k + 1)
      BY <2>2
    <2> HIDE DEF g, Is
    <2> QED
      BY <2>3
  <1>3. Nat \subseteq T
    <2> HIDE DEF T
    <2> QED
      BY <1>1, <1>2, SetInduction
  <1>4. PICK f : Is(f, Len(keys))
    BY <1>3
  <1>5. f = [i \in 0 .. Len(keys) |->
               IF i = 0 THEN bwd_1 ELSE ae_unwrap(keys[i], f[i - 1])]
    BY <1>4, Zenon DEF D
  <1> QED
    BY <1>5, Zenon DEF backward_sections

(* The innermost layer, and a layer around another one. *)
LastLayer(keys, data, cells, fwd_n) ==
  [headers |-> <<HeaderBlock(tag(derive_key(Mac, keys[Len(keys)]),
                                 Sealed(data[Len(keys)], cells, fwd_n)),
                             data[Len(keys)])>> \o cells,
   forward |-> fwd_n]

LayerAround(keys, data, i, inner) ==
  wrap(keys[i], data[i], SubSeq(inner.headers, 1, MaxPathLength - 1), inner.forward)

(* Each layer follows from the one inside it. *)
LEMMA OnionLayersRecur ==
  ASSUME NEW keys, NEW data, NEW cells, NEW fwd_n, Len(keys) \in Nat \ {0}
  PROVE  onion_layers(keys, data, cells, fwd_n)
           = [i \in 1 .. Len(keys) |->
                IF i = Len(keys) THEN LastLayer(keys, data, cells, fwd_n)
                ELSE LayerAround(keys, data, i,
                                 onion_layers(keys, data, cells, fwd_n)[i + 1])]
  <1> DEFINE n == Len(keys)
  <1> DEFINE D(i, x) == LayerAround(keys, data, i, x)
             B == LastLayer(keys, data, cells, fwd_n)
             Is(f, k) == f = [i \in n - k .. n |->
                                IF i = n THEN B ELSE D(i, f[i + 1])]
             T == {k \in Nat : \E f : Is(f, k)}
  <1> HIDE DEF D, B
  <1>1. 0 \in T
    <2> DEFINE f == [i \in n - 0 .. n |-> B]
    <2>1. Is(f, 0)
      OBVIOUS
    <2> HIDE DEF f, Is
    <2> QED
      BY <2>1
  <1>2. ASSUME NEW k \in Nat, k \in T PROVE k + 1 \in T
    <2>1. PICK f : Is(f, k)
      BY <1>2
    <2> DEFINE j == n - (k + 1)
               g == [i \in j .. n |-> IF i = j THEN D(j, f[j + 1]) ELSE f[i]]
    <2>2. ASSUME NEW i \in j .. n
          PROVE  g[i] = IF i = n THEN B ELSE D(i, g[i + 1])
      <3>1. CASE i = j
        <4>1. g[i + 1] = f[j + 1] /\ i # n
          BY <3>1
        <4> QED
          BY <3>1, <4>1
      <3>2. CASE i # j
        <4>1. i \in n - k .. n /\ (i # n => i + 1 \in j .. n /\ i + 1 # j)
          BY <3>2
        <4>2. g[i] = f[i] /\ (i # n => g[i + 1] = f[i + 1])
          BY <3>2, <4>1
        <4>3. f[i] = IF i = n THEN B ELSE D(i, f[i + 1])
          BY <2>1, <4>1
        <4> QED
          BY <4>2, <4>3
      <3> QED
        BY <3>1, <3>2
    <2>3. Is(g, k + 1)
      BY <2>2
    <2> HIDE DEF g, Is
    <2> QED
      BY <2>3
  <1>3. Nat \subseteq T
    <2> HIDE DEF T
    <2> QED
      BY <1>1, <1>2, SetInduction
  <1>4. n - 1 \in Nat /\ n - (n - 1) = 1
    OBVIOUS
  <1>5. PICK f : Is(f, n - 1)
    BY <1>3, <1>4
  <1>6. f = [i \in 1 .. n |-> IF i = n THEN B ELSE D(i, f[i + 1])]
    BY <1>4, <1>5
  <1>7. f = [i \in 1 .. Len(keys) |->
               IF i = Len(keys) THEN LastLayer(keys, data, cells, fwd_n)
               ELSE LayerAround(keys, data, i, f[i + 1])]
    BY <1>6, Zenon DEF D, B
  <1> QED
    BY <1>7, Zenon DEF onion_layers, LastLayer, LayerAround

(* The backward section before a hop unwrapped it follows from what that   *)
(* hop left.                                                               *)
LEMMA RewrappedRecur ==
  ASSUME NEW master, NEW n_backward \in Nat \ {0}, NEW bwd
  PROVE  rewrapped_sections(master, n_backward, bwd)
           = [i \in 0 .. n_backward - 1 |->
                IF i = n_backward - 1 THEN bwd
                ELSE ae_wrap(backward_key(master, i),
                             rewrapped_sections(master, n_backward, bwd)[i + 1])]
  <1> DEFINE n == n_backward - 1
  <1> DEFINE D(i, x) == ae_wrap(backward_key(master, i), x)
             B == bwd
             Is(f, k) == f = [i \in n - k .. n |->
                                IF i = n THEN B ELSE D(i, f[i + 1])]
             T == {k \in Nat : \E f : Is(f, k)}
  <1> HIDE DEF D, B
  <1>1. 0 \in T
    <2> DEFINE f == [i \in n - 0 .. n |-> B]
    <2>1. Is(f, 0)
      OBVIOUS
    <2> HIDE DEF f, Is
    <2> QED
      BY <2>1
  <1>2. ASSUME NEW k \in Nat, k \in T PROVE k + 1 \in T
    <2>1. PICK f : Is(f, k)
      BY <1>2
    <2> DEFINE j == n - (k + 1)
               g == [i \in j .. n |-> IF i = j THEN D(j, f[j + 1]) ELSE f[i]]
    <2>2. ASSUME NEW i \in j .. n
          PROVE  g[i] = IF i = n THEN B ELSE D(i, g[i + 1])
      <3>1. CASE i = j
        <4>1. g[i + 1] = f[j + 1] /\ i # n
          BY <3>1
        <4> QED
          BY <3>1, <4>1
      <3>2. CASE i # j
        <4>1. i \in n - k .. n /\ (i # n => i + 1 \in j .. n /\ i + 1 # j)
          BY <3>2
        <4>2. g[i] = f[i] /\ (i # n => g[i + 1] = f[i + 1])
          BY <3>2, <4>1
        <4>3. f[i] = IF i = n THEN B ELSE D(i, f[i + 1])
          BY <2>1, <4>1
        <4> QED
          BY <4>2, <4>3
      <3> QED
        BY <3>1, <3>2
    <2>3. Is(g, k + 1)
      BY <2>2
    <2> HIDE DEF g, Is
    <2> QED
      BY <2>3
  <1>3. Nat \subseteq T
    <2> HIDE DEF T
    <2> QED
      BY <1>1, <1>2, SetInduction
  <1>4. n \in Nat /\ n - n = 0
    OBVIOUS
  <1>5. PICK f : Is(f, n)
    BY <1>3, <1>4
  <1>6. f = [i \in 0 .. n |-> IF i = n THEN B ELSE D(i, f[i + 1])]
    BY <1>4, <1>5
  <1>7. f = [i \in 0 .. n_backward - 1 |->
               IF i = n_backward - 1 THEN bwd
               ELSE ae_wrap(backward_key(master, i), f[i + 1])]
    BY <1>6, Zenon DEF D, B
  <1> QED
    BY <1>7, Zenon DEF rewrapped_sections

-----------------------------------------------------------------------------
(* Cells and headers. *)

(* A cell has the one length of all cells. *)
IsCell(b) == IsBlob(b) /\ b.len = single_header_length

IsHeader(header, m) ==
  /\ header = [c \in 1 .. m |-> header[c]]
  /\ \A c \in 1 .. m : IsCell(header[c])

(* The lengths are numbers, and the block of a hop, as the serializer      *)
(* writes it, is as long as the code reckons.                              *)
LEMMA BlockFillsCell ==
  /\ single_header_length \in Nat \ {0}
  /\ BlockBytes = single_header_length
  /\ TagBytes \in Nat \ {0}
  /\ VecLengthBytes \in Nat
  BY DEF single_header_length, BlockBytes, TagBytes, VecLengthBytes, CipherBytes,
         PointBytes, SYMMETRIC_KEY_LENGTH, RoleBytes, ADDRESS_LENGTH

(* What the sender draws or computes for a cell is one. *)
LEMMA FreshCells ==
  /\ IsCell(zero_header)
  /\ \A rng : IsCell(random_header(rng))
  /\ \A t, data : IsCell(HeaderBlock(t, data))
  <1>1. single_header_length \in Nat /\ BlockBytes = single_header_length
    BY BlockFillsCell
  <1>2. \A base : IsBlob(Bytes(base, single_header_length))
                  /\ Bytes(base, single_header_length).len = single_header_length
    BY <1>1, BytesIsBlob, Zenon
  <1> QED
    BY <1>1, <1>2, Zenon DEF IsCell, zero_header, random_header, HeaderBlock

(* A cipher turns a cell into a cell. *)
LEMMA CipherKeepsCell ==
  ASSUME NEW b, IsCell(b), NEW key, NEW nonce
  PROVE  IsCell(symmetric_encrypt(key, nonce, b)) /\ IsCell(symmetric_decrypt(key, nonce, b))
  <1>1. ASSUME NEW dir PROVE IsCell(Cipher(dir, key, nonce, b))
    BY CipherKeeps, Zenon DEF IsCell
  <1> QED
    BY <1>1, Zenon DEF symmetric_encrypt, symmetric_decrypt

(* A block put before the cells of a header. *)
LEMMA Prepend ==
  ASSUME NEW b, NEW m \in Nat, NEW cells, cells = [i \in 1 .. m |-> cells[i]]
  PROVE  /\ <<b>> \o cells = [c \in 1 .. m + 1 |-> IF c = 1 THEN b ELSE cells[c - 1]]
         /\ Len(<<b>> \o cells) = m + 1
         /\ Tail(<<b>> \o cells) = cells
  <1> DEFINE S == {b} \cup {cells[i] : i \in 1 .. m}
             g == [c \in 1 .. m + 1 |-> IF c = 1 THEN b ELSE cells[c - 1]]
             s == <<b>> \o cells
  <1>1. cells \in Seq(S) /\ Len(cells) = m
    <2>1. \A i \in 1 .. m : cells[i] \in S
      OBVIOUS
    <2> HIDE DEF S
    <2>2. cells \in [1 .. m -> S]
      BY <2>1
    <2> QED
      BY <2>2, FunctionIsSeq, Zenon
  <1>2. <<b>> \in Seq(S) /\ Len(<<b>>) = 1 /\ <<b>>[1] = b
    OBVIOUS
  <1>3. g \in Seq(S) /\ Len(g) = m + 1 /\ \A c \in 1 .. m + 1 : g[c] = IF c = 1 THEN b ELSE cells[c - 1]
    <2>1. \A c \in 1 .. m + 1 : (IF c = 1 THEN b ELSE cells[c - 1]) \in S
      <3> SUFFICES ASSUME NEW c \in 1 .. m + 1, c # 1 PROVE cells[c - 1] \in S
        OBVIOUS
      <3>1. c - 1 \in 1 .. m
        OBVIOUS
      <3> QED
        BY <3>1
    <2> HIDE DEF S
    <2>2. g \in [1 .. m + 1 -> S]
      BY <2>1
    <2>3. \A c \in 1 .. m + 1 : g[c] = IF c = 1 THEN b ELSE cells[c - 1]
      OBVIOUS
    <2>4. m + 1 \in Nat
      OBVIOUS
    <2> HIDE DEF g
    <2>5. g \in Seq(S) /\ Len(g) = m + 1
      BY <2>2, <2>4, FunctionIsSeq, Zenon
    <2> QED
      BY <2>3, <2>5
  <1> HIDE DEF S
  <1>4. s \in Seq(S) /\ Len(s) = m + 1
    BY <1>1, <1>2
  <1>5. ASSUME NEW c \in 1 .. m + 1 PROVE s[c] = g[c]
    BY <1>1, <1>2, <1>3
  <1> HIDE DEF s, g
  <1>6. s = g
    BY <1>3, <1>4, <1>5, SameSeq
  <1>7. Tail(s) \in Seq(S) /\ Len(Tail(s)) = m /\ \A i \in 1 .. m : Tail(s)[i] = s[i + 1]
    BY <1>4
  <1>8. \A i \in 1 .. m : s[i + 1] = cells[i]
    <2> SUFFICES ASSUME NEW i \in 1 .. m PROVE s[i + 1] = cells[i]
      OBVIOUS
    <2>1. i + 1 \in 1 .. m + 1 /\ i + 1 # 1 /\ (i + 1) - 1 = i
      OBVIOUS
    <2>2. s[i + 1] = cells[(i + 1) - 1]
      BY <1>3, <1>6, <2>1, Zenon
    <2> QED
      BY <2>1, <2>2
  <1>9. Tail(s) = cells
    BY <1>1, <1>7, <1>8, SameSeq
  <1> QED
    BY <1>4, <1>6, <1>9 DEF s, g

-----------------------------------------------------------------------------
(* The layers of an onion, for n keys and whatever its metas, its coins    *)
(* and its innermost forward section are.                                  *)

IsPathKeys(keys) == Len(keys) \in 1 .. MaxPathLength

(* The cells that the hops of a path shift in are cells. *)
LEMMA GarbageRowsAreCells ==
  ASSUME NEW keys, IsPathKeys(keys)
  PROVE  \A h \in 1 .. Len(keys) : \A c \in (MaxPathLength - h + 2) .. MaxPathLength :
           IsCell(garbage_rows(keys)[h][c])
  <1> DEFINE n == Len(keys)
             N == MaxPathLength
             rows == garbage_rows(keys)
             T == {h \in 1 .. n : \A c \in (N - h + 2) .. N : IsCell(rows[h][c])}
  <1>1. n \in 1 .. N /\ N \in Nat \ {0}
    BY MaxPathLengthAssumption DEF IsPathKeys
  <1>2. \A h \in 1 .. n : rows[h] = RowAfter(keys, h, rows[h - 1])
    <2>1. n \in Nat
      BY <1>1
    <2> QED
      BY <2>1, GarbageRowsRecur
  <1> HIDE DEF n, N, rows
  <1>3. 1 \in T
    <2>1. (N - 1 + 2) .. N = {}
      BY <1>1
    <2> QED
      BY <1>1, <2>1
  <1>4. ASSUME NEW h \in 1 .. n - 1, h \in T PROVE h + 1 \in T
    <2>1. h + 1 \in 1 .. n /\ (h + 1) - 1 = h
      BY <1>1
    <2>2. rows[h + 1] = RowAfter(keys, h + 1, rows[h])
      BY <1>2, <2>1
    <2>3. ASSUME NEW c \in (N - (h + 1) + 2) .. N PROVE IsCell(rows[h + 1][c])
      <3> DEFINE x == IF c = N THEN zero_header ELSE rows[h][c + 1]
      <3>1. IsCell(x)
        <4>1. CASE c = N
          BY <4>1, FreshCells
        <4>2. CASE c # N
          <5>1. c + 1 \in (N - h + 2) .. N
            BY <1>1, <4>2
          <5> QED
            BY <1>4, <4>2, <5>1
        <4> QED
          BY <4>1, <4>2
      <3>2. rows[h + 1][c] = symmetric_decrypt(derive_key(SymEnc, keys[(h + 1) - 1]), c + 1, x)
        BY <2>2 DEF RowAfter, N
      <3> HIDE DEF x
      <3> QED
        BY <3>1, <3>2, CipherKeepsCell
    <2> QED
      BY <2>1, <2>3
  <1> HIDE DEF T
  <1>5. 1 .. n \subseteq T
    <2>1. n \in Int
      BY <1>1
    <2> QED
      BY <1>3, <1>4, <2>1, UpFrom
  <1> QED
    BY <1>5 DEF T, n, N, rows

(* So are those that the sender fills the innermost header with. *)
LEMMA LastCellsAreHeader ==
  ASSUME NEW rng, NEW keys, IsPathKeys(keys)
  PROVE  IsHeader(last_cells(rng, keys), MaxPathLength - 1)
  <1> DEFINE n == Len(keys)
             N == MaxPathLength
  <1>1. n \in 1 .. N /\ N \in Nat \ {0}
    BY MaxPathLengthAssumption DEF IsPathKeys
  <1>2. ASSUME NEW i \in 1 .. N - 1 PROVE IsCell(last_cells(rng, keys)[i])
    <2>1. CASE i + 1 <= N - n + 1
      BY <2>1, FreshCells DEF last_cells
    <2>2. CASE ~ (i + 1 <= N - n + 1)
      <3>1. last_cells(rng, keys)[i] = garbage_rows(keys)[n][i + 1]
        BY <2>2 DEF last_cells, garbage_cells
      <3>2. i + 1 \in (N - n + 2) .. N /\ n \in 1 .. n
        BY <1>1, <2>2
      <3> QED
        BY <3>1, <3>2, GarbageRowsAreCells
    <2> QED
      BY <2>1, <2>2
  <1>3. last_cells(rng, keys) = [i \in 1 .. N - 1 |-> last_cells(rng, keys)[i]]
    BY DEF last_cells
  <1> QED
    BY <1>2, <1>3 DEF IsHeader

(* The first block of every layer is sealed over the rest of it.           *)
IsSealed(key, data, headers, forward) ==
  headers[1] = HeaderBlock(tag(derive_key(Mac, key), Sealed(data, Tail(headers), forward)),
                           data)

(* A header of cells behind a block. *)
LEMMA BlockBeforeCells ==
  ASSUME NEW cells, IsHeader(cells, MaxPathLength - 1), NEW t, NEW data
  PROVE  /\ IsHeader(<<HeaderBlock(t, data)>> \o cells, MaxPathLength)
         /\ Len(<<HeaderBlock(t, data)>> \o cells) = MaxPathLength
         /\ (<<HeaderBlock(t, data)>> \o cells)[1] = HeaderBlock(t, data)
         /\ \A c \in 1 .. MaxPathLength - 1 :
              (<<HeaderBlock(t, data)>> \o cells)[c + 1] = cells[c]
         /\ Tail(<<HeaderBlock(t, data)>> \o cells) = cells
  <1> DEFINE N == MaxPathLength
             b == HeaderBlock(t, data)
             s == <<b>> \o cells
  <1>1. N \in Nat \ {0} /\ N - 1 \in Nat /\ (N - 1) + 1 = N
    BY MaxPathLengthAssumption
  <1>2. IsCell(b)
    BY FreshCells
  <1>3. cells = [i \in 1 .. N - 1 |-> cells[i]] /\ \A c \in 1 .. N - 1 : IsCell(cells[c])
    BY DEF IsHeader
  <1> HIDE DEF b
  <1>4. /\ s = [c \in 1 .. (N - 1) + 1 |-> IF c = 1 THEN b ELSE cells[c - 1]]
        /\ Len(s) = (N - 1) + 1
        /\ Tail(s) = cells
    <2>1. N - 1 \in Nat
      BY <1>1
    <2> HIDE DEF N
    <2> QED
      BY <1>3, <2>1, Prepend
  <1> HIDE DEF s
  <1>5. s = [c \in 1 .. N |-> IF c = 1 THEN b ELSE cells[c - 1]]
    BY <1>1, <1>4
  <1>6. s[1] = b
    BY <1>1, <1>5
  <1>7. \A c \in 1 .. N - 1 : s[c + 1] = cells[c]
    BY <1>1, <1>5
  <1>8. ASSUME NEW c \in 1 .. N PROVE IsCell(s[c])
    <2>1. CASE c = 1
      BY <1>2, <1>6, <2>1
    <2>2. CASE c # 1
      <3>1. c - 1 \in 1 .. N - 1 /\ (c - 1) + 1 = c
        BY <1>1, <2>2
      <3> QED
        BY <1>3, <1>7, <3>1
    <2> QED
      BY <2>1, <2>2
  <1>9. s = [c \in 1 .. N |-> s[c]]
    BY <1>5
  <1>10. Len(s) = N
    BY <1>1, <1>4
  <1> QED
    BY <1>4, <1>6, <1>7, <1>8, <1>9, <1>10 DEF IsHeader, s, b, N

(* One call of wrap. *)
LEMMA WrapShape ==
  ASSUME NEW key, NEW data, NEW inner, IsHeader(inner, MaxPathLength), NEW payload,
         IsBlob(payload)
  PROVE  LET w == wrap(key, data, SubSeq(inner, 1, MaxPathLength - 1), payload) IN
         /\ IsHeader(w.headers, MaxPathLength)
         /\ Len(w.headers) = MaxPathLength
         /\ IsSealed(key, data, w.headers, w.forward)
         /\ \A c \in 1 .. MaxPathLength - 1 :
              w.headers[c + 1] = symmetric_encrypt(derive_key(SymEnc, key), c + 1, inner[c])
         /\ w.forward = symmetric_encrypt(derive_key(SymEnc, key), NONCE_FWD, payload)
         /\ IsBlob(w.forward) /\ w.forward.len = payload.len
  <1> DEFINE N == MaxPathLength
             ks == derive_key(SymEnc, key)
             short == SubSeq(inner, 1, N - 1)
             cells == [i \in DOMAIN short |-> symmetric_encrypt(ks, i + 1, short[i])]
             forward == symmetric_encrypt(ks, NONCE_FWD, payload)
             mac == tag(derive_key(Mac, key), Sealed(data, cells, forward))
             w == wrap(key, data, short, payload)
  <1>1. N \in Nat \ {0}
    BY MaxPathLengthAssumption
  <1>2. DOMAIN short = 1 .. N - 1 /\ \A i \in 1 .. N - 1 : short[i] = inner[i]
    <2> DEFINE S == {inner[c] : c \in 1 .. N}
    <2>1. inner \in [1 .. N -> S]
      BY DEF IsHeader
    <2>2. N \in Nat
      BY <1>1
    <2> HIDE DEF S
    <2>3. inner \in Seq(S) /\ Len(inner) = N
      BY <2>1, <2>2, FunctionIsSeq, Zenon
    <2>4. N - 1 \in 0 .. Len(inner)
      BY <1>1, <2>3
    <2>5. short \in Seq(S) /\ Len(short) = N - 1 /\ \A i \in 1 .. N - 1 : short[i] = inner[i]
      BY <2>3, <2>4, Prefix, Zenon
    <2> QED
      BY <2>5, LenProperties
  <1>3. w = [headers |-> <<HeaderBlock(mac, data)>> \o cells, forward |-> forward]
    BY DEF wrap
  <1>4. cells = [i \in 1 .. N - 1 |-> symmetric_encrypt(ks, i + 1, inner[i])]
    BY <1>2
  <1>5. IsHeader(cells, N - 1)
    <2>1. \A i \in 1 .. N - 1 : IsCell(inner[i])
      BY <1>1 DEF IsHeader
    <2>2. \A i \in 1 .. N - 1 : IsCell(symmetric_encrypt(ks, i + 1, inner[i]))
      BY <2>1, CipherKeepsCell
    <2> QED
      BY <1>4, <2>2 DEF IsHeader
  <1>6. IsBlob(forward) /\ forward.len = payload.len
    BY CipherKeeps, Zenon DEF symmetric_encrypt
  <1> HIDE DEF w, cells, forward, short
  <1>7. w.headers = <<HeaderBlock(mac, data)>> \o cells /\ w.forward = forward
    BY <1>3
  <1>8. /\ IsHeader(w.headers, N)
        /\ Len(w.headers) = N
        /\ w.headers[1] = HeaderBlock(mac, data)
        /\ \A c \in 1 .. N - 1 : w.headers[c + 1] = cells[c]
        /\ Tail(w.headers) = cells
    <2> HIDE DEF mac
    <2> QED
      BY <1>5, <1>7, BlockBeforeCells
  <1>9. IsSealed(key, data, w.headers, w.forward)
    BY <1>7, <1>8, Zenon DEF IsSealed
  <1>10. \A c \in 1 .. N - 1 : w.headers[c + 1] = symmetric_encrypt(ks, c + 1, inner[c])
    BY <1>4, <1>8
  <1> QED
    BY <1>6, <1>7, <1>8, <1>9, <1>10 DEF w, short, forward

(* What a layer is, and how it follows from the next one. *)
IsLayer(key, data, layer, len) ==
  /\ IsHeader(layer.headers, MaxPathLength)
  /\ Len(layer.headers) = MaxPathLength
  /\ IsSealed(key, data, layer.headers, layer.forward)
  /\ IsBlob(layer.forward) /\ layer.forward.len = len

IsWrapped(key, layer, inner) ==
  /\ \A c \in 1 .. MaxPathLength - 1 :
       layer.headers[c + 1]
         = symmetric_encrypt(derive_key(SymEnc, key), c + 1, inner.headers[c])
  /\ layer.forward = symmetric_encrypt(derive_key(SymEnc, key), NONCE_FWD, inner.forward)

(* Every layer is sealed for its hop and wraps the next one; the innermost *)
(* one holds the given cells and the given forward section.                *)
AreLayers(keys, data, cells, fwd_n, layer) ==
  LET n == Len(keys)
  IN  /\ \A i \in 1 .. n : IsLayer(keys[i], data[i], layer[i], fwd_n.len)
      /\ \A i \in 1 .. n - 1 : IsWrapped(keys[i], layer[i], layer[i + 1])
      /\ \A c \in 1 .. MaxPathLength - 1 : layer[n].headers[c + 1] = cells[c]
      /\ layer[n].forward = fwd_n

(* The layers that onionize builds are such layers. *)
LEMMA LayersShape ==
  ASSUME NEW keys, IsPathKeys(keys), NEW data, NEW cells,
         IsHeader(cells, MaxPathLength - 1), NEW fwd_n, IsBlob(fwd_n)
  PROVE  AreLayers(keys, data, cells, fwd_n, onion_layers(keys, data, cells, fwd_n))
  <1> DEFINE n == Len(keys)
             N == MaxPathLength
             layer == onion_layers(keys, data, cells, fwd_n)
             T == {i \in 1 .. n : IsLayer(keys[i], data[i], layer[i], fwd_n.len)}
  <1>1. n \in 1 .. N /\ N \in Nat \ {0} /\ n \in Nat \ {0}
    BY MaxPathLengthAssumption DEF IsPathKeys
  <1>2. \A i \in 1 .. n : layer[i] = IF i = n THEN LastLayer(keys, data, cells, fwd_n)
                                     ELSE LayerAround(keys, data, i, layer[i + 1])
    BY <1>1, OnionLayersRecur
  <1> HIDE DEF layer, n
  <1>3. /\ IsLayer(keys[n], data[n], layer[n], fwd_n.len)
        /\ \A c \in 1 .. N - 1 : layer[n].headers[c + 1] = cells[c]
        /\ layer[n].forward = fwd_n
    <2> DEFINE mac == tag(derive_key(Mac, keys[n]), Sealed(data[n], cells, fwd_n))
               s == <<HeaderBlock(mac, data[n])>> \o cells
    <2>1. layer[n].headers = s /\ layer[n].forward = fwd_n
      BY <1>1, <1>2 DEF LastLayer, n
    <2>2. /\ IsHeader(s, N) /\ Len(s) = N /\ s[1] = HeaderBlock(mac, data[n])
          /\ \A c \in 1 .. N - 1 : s[c + 1] = cells[c]
          /\ Tail(s) = cells
      <3> HIDE DEF mac
      <3> QED
        BY BlockBeforeCells
    <2> HIDE DEF s
    <2>3. IsSealed(keys[n], data[n], layer[n].headers, layer[n].forward)
      BY <2>1, <2>2, Zenon DEF IsSealed
    <2> QED
      BY <2>1, <2>2, <2>3 DEF IsLayer
  <1>4. ASSUME NEW i \in 1 .. n - 1, IsLayer(keys[i + 1], data[i + 1], layer[i + 1], fwd_n.len)
        PROVE  /\ IsLayer(keys[i], data[i], layer[i], fwd_n.len)
               /\ IsWrapped(keys[i], layer[i], layer[i + 1])
    <2> DEFINE inner == layer[i + 1].headers
               payload == layer[i + 1].forward
               w == wrap(keys[i], data[i], SubSeq(inner, 1, N - 1), payload)
    <2>1. layer[i] = w
      BY <1>1, <1>2 DEF LayerAround
    <2>2. IsHeader(inner, N) /\ IsBlob(payload) /\ payload.len = fwd_n.len
      BY <1>4 DEF IsLayer
    <2>3. /\ IsHeader(w.headers, N)
          /\ Len(w.headers) = N
          /\ IsSealed(keys[i], data[i], w.headers, w.forward)
          /\ \A c \in 1 .. N - 1 :
               w.headers[c + 1] = symmetric_encrypt(derive_key(SymEnc, keys[i]), c + 1, inner[c])
          /\ w.forward = symmetric_encrypt(derive_key(SymEnc, keys[i]), NONCE_FWD, payload)
          /\ IsBlob(w.forward) /\ w.forward.len = payload.len
      <3> HIDE DEF inner, payload
      <3> QED
        BY <2>2, WrapShape
    <2> QED
      BY <2>1, <2>2, <2>3, Zenon DEF IsLayer, IsWrapped
  <1>5. 1 .. n \subseteq T
    <2>1. n \in T
      BY <1>1, <1>3
    <2>2. \A i \in 1 .. n - 1 : i + 1 \in T => i \in T
      BY <1>1, <1>4
    <2> HIDE DEF T
    <2> QED
      BY <1>1, <2>1, <2>2, DownFrom
  <1>6. \A i \in 1 .. n : IsLayer(keys[i], data[i], layer[i], fwd_n.len)
    BY <1>5
  <1>7. \A i \in 1 .. n - 1 : IsWrapped(keys[i], layer[i], layer[i + 1])
    <2> SUFFICES ASSUME NEW i \in 1 .. n - 1 PROVE IsWrapped(keys[i], layer[i], layer[i + 1])
      OBVIOUS
    <2>1. i + 1 \in 1 .. n
      BY <1>1
    <2> QED
      BY <1>4, <1>6, <2>1
  <1> QED
    BY <1>3, <1>6, <1>7 DEF n, N, layer, AreLayers

(* The header that reaches hop h ends with the cells that the hops before  *)
(* it have shifted in: on the way out from the last layer, each of them is *)
(* encrypted by the hop that will decrypt it.                              *)
LEMMA GarbageInPlace ==
  ASSUME NEW rng, NEW keys, IsPathKeys(keys), NEW data, NEW fwd_n, IsBlob(fwd_n)
  PROVE  LET layer == onion_layers(keys, data, last_cells(rng, keys), fwd_n) IN
         \A h \in 1 .. Len(keys) : \A c \in (MaxPathLength - h + 2) .. MaxPathLength :
           layer[h].headers[c] = garbage_rows(keys)[h][c]
  <1> DEFINE n == Len(keys)
             N == MaxPathLength
             cells == last_cells(rng, keys)
             rows == garbage_rows(keys)
             layer == onion_layers(keys, data, cells, fwd_n)
             T == {h \in 1 .. n : \A c \in (N - h + 2) .. N : layer[h].headers[c] = rows[h][c]}
  <1>1. n \in 1 .. N /\ N \in Nat \ {0} /\ n \in Nat
    BY MaxPathLengthAssumption DEF IsPathKeys
  <1>2. \A h \in 1 .. n : rows[h] = RowAfter(keys, h, rows[h - 1])
    BY <1>1, GarbageRowsRecur
  <1>3. IsHeader(cells, N - 1)
    BY LastCellsAreHeader
  <1>4. /\ \A i \in 1 .. n : IsLayer(keys[i], data[i], layer[i], fwd_n.len)
        /\ \A i \in 1 .. n - 1 : IsWrapped(keys[i], layer[i], layer[i + 1])
        /\ \A c \in 1 .. N - 1 : layer[n].headers[c + 1] = cells[c]
        /\ layer[n].forward = fwd_n
    <2>1. AreLayers(keys, data, cells, fwd_n, layer)
      BY <1>3, LayersShape, Zenon
    <2> QED
      BY <2>1, Zenon DEF AreLayers
  <1>5. \A h \in 1 .. n : \A c \in (N - h + 2) .. N : IsCell(rows[h][c])
    BY GarbageRowsAreCells
  <1> HIDE DEF layer, rows, n, N
  <1>6. n \in T
    <2> SUFFICES ASSUME NEW c \in (N - n + 2) .. N PROVE layer[n].headers[c] = rows[n][c]
      BY <1>1
    <2>1. c - 1 \in 1 .. N - 1 /\ (c - 1) + 1 = c /\ ~ ((c - 1) + 1 <= N - n + 1)
      BY <1>1
    <2>2. layer[n].headers[c] = cells[c - 1]
      BY <1>4, <2>1
    <2>3. cells[c - 1] = rows[n][c]
      BY <2>1 DEF last_cells, garbage_cells, n, N, rows
    <2> QED
      BY <2>2, <2>3
  <1> HIDE DEF cells
  <1>7. ASSUME NEW h \in 1 .. n - 1, h + 1 \in T PROVE h \in T
    <2>1. h + 1 \in 1 .. n /\ (h + 1) - 1 = h /\ h \in 1 .. n
      BY <1>1
    <2>2. ASSUME NEW c \in (N - h + 2) .. N PROVE layer[h].headers[c] = rows[h][c]
      <3> DEFINE ks == derive_key(SymEnc, keys[h])
                 d == c - 1
      <3>1. d \in 1 .. N - 1 /\ d + 1 = c /\ d \in (N - (h + 1) + 2) .. N /\ d # N
        BY <1>1
      <3>2. layer[h].headers[c] = symmetric_encrypt(ks, c, layer[h + 1].headers[d])
        BY <1>4, <3>1 DEF IsWrapped, N
      <3>3. layer[h + 1].headers[d] = rows[h + 1][d]
        BY <1>7, <3>1
      <3>4. rows[h + 1] = RowAfter(keys, h + 1, rows[h])
        BY <1>2, <2>1
      <3>5. rows[h + 1][d] = symmetric_decrypt(ks, c, rows[h][c])
        BY <2>1, <3>1, <3>4 DEF RowAfter, N
      <3>6. IsCell(rows[h][c])
        BY <1>5, <2>1
      <3>7. symmetric_encrypt(ks, c, symmetric_decrypt(ks, c, rows[h][c])) = rows[h][c]
        BY <3>6, EncryptDecrypt, Zenon DEF IsCell
      <3> QED
        BY <3>2, <3>3, <3>5, <3>7
    <2> QED
      BY <2>1, <2>2
  <1>8. 1 .. n \subseteq T
    <2> HIDE DEF T
    <2>1. n \in Int
      BY <1>1
    <2> QED
      BY <1>6, <1>7, <2>1, DownFrom
  <1> QED
    BY <1>8 DEF layer, rows, cells, n, N

(* What a hop shifts its header to is the header of the next hop, cell by  *)
(* cell: the cells that it decrypts are those that the sender encrypted    *)
(* for it, and the zero cell that it shifts in is the one the sender       *)
(* reckoned with.                                                          *)
LEMMA ShiftedIsNext ==
  ASSUME NEW rng, NEW keys, IsPathKeys(keys), NEW data, NEW fwd_n, IsBlob(fwd_n),
         NEW h \in 1 .. Len(keys) - 1
  PROVE  LET layer == onion_layers(keys, data, last_cells(rng, keys), fwd_n) IN
         shifted(MaxPathLength, derive_key(SymEnc, keys[h]), layer[h].headers)
           = layer[h + 1].headers
  <1> DEFINE n == Len(keys)
             N == MaxPathLength
             cells == last_cells(rng, keys)
             rows == garbage_rows(keys)
             layer == onion_layers(keys, data, cells, fwd_n)
             ks == derive_key(SymEnc, keys[h])
             s == shifted(N, ks, layer[h].headers)
  <1>1. n \in 1 .. N /\ N \in Nat \ {0} /\ n \in Nat /\ h \in 1 .. n /\ h + 1 \in 1 .. n
        /\ (h + 1) - 1 = h
    BY MaxPathLengthAssumption DEF IsPathKeys
  <1>2. rows[h + 1] = RowAfter(keys, h + 1, rows[h])
    BY <1>1, GarbageRowsRecur
  <1>3. IsHeader(cells, N - 1)
    BY LastCellsAreHeader
  <1>4. /\ \A i \in 1 .. n : IsLayer(keys[i], data[i], layer[i], fwd_n.len)
        /\ IsWrapped(keys[h], layer[h], layer[h + 1])
    <2>1. AreLayers(keys, data, cells, fwd_n, layer)
      BY <1>3, LayersShape, Zenon
    <2> QED
      BY <1>1, <2>1, Zenon DEF AreLayers
  <1>5. layer[h + 1].headers[N] = rows[h + 1][N]
    <2>1. N \in (N - (h + 1) + 2) .. N
      BY <1>1
    <2> QED
      BY <1>1, <2>1, GarbageInPlace
  <1> HIDE DEF layer, rows, n, cells
  <1>6. /\ IsHeader(layer[h].headers, N) /\ Len(layer[h].headers) = N
        /\ IsHeader(layer[h + 1].headers, N)
    BY <1>1, <1>4 DEF IsLayer
  <1>7. s = [c \in 1 .. N |->
               IF c = N THEN symmetric_decrypt(ks, N + 1, zero_header)
               ELSE IF c < N THEN symmetric_decrypt(ks, c + 1, layer[h].headers[c + 1])
               ELSE layer[h].headers[c]]
    <2>1. DOMAIN layer[h].headers = 1 .. N
      BY <1>6 DEF IsHeader
    <2> QED
      BY <1>6, <2>1 DEF shifted
  <1>8. ASSUME NEW c \in 1 .. N PROVE s[c] = layer[h + 1].headers[c]
    <2>1. CASE c = N
      <3>1. s[c] = symmetric_decrypt(ks, N + 1, zero_header)
        BY <1>7, <2>1
      <3>2. N \in (N - (h + 1) + 2) .. N
        BY <1>1
      <3>3. rows[h + 1][N] = symmetric_decrypt(derive_key(SymEnc, keys[(h + 1) - 1]), N + 1, zero_header)
        BY <1>2, <3>2 DEF RowAfter
      <3> QED
        BY <1>1, <1>5, <2>1, <3>1, <3>3
    <2>2. CASE c # N
      <3>1. c \in 1 .. N - 1 /\ c < N
        BY <1>1, <2>2
      <3>2. s[c] = symmetric_decrypt(ks, c + 1, layer[h].headers[c + 1])
        BY <1>7, <2>2, <3>1
      <3>3. layer[h].headers[c + 1] = symmetric_encrypt(ks, c + 1, layer[h + 1].headers[c])
        BY <1>4, <3>1 DEF IsWrapped
      <3>4. IsBlob(layer[h + 1].headers[c])
        BY <1>6 DEF IsHeader, IsCell
      <3>5. symmetric_decrypt(ks, c + 1, symmetric_encrypt(ks, c + 1, layer[h + 1].headers[c]))
              = layer[h + 1].headers[c]
        BY <3>4, DecryptEncrypt, Zenon
      <3> QED
        BY <3>2, <3>3, <3>5
    <2> QED
      BY <2>1, <2>2
  <1>9. s = [c \in 1 .. N |-> s[c]]
    BY <1>7
  <1>10. layer[h + 1].headers = [c \in 1 .. N |-> layer[h + 1].headers[c]]
    BY <1>6 DEF IsHeader
  <1> HIDE DEF s
  <1>11. s = layer[h + 1].headers
    BY <1>8, <1>9, <1>10
  <1> QED
    BY <1>11 DEF s, layer, cells, N, ks

-----------------------------------------------------------------------------
(* Peeling a layer. *)

(* The fields of a block, as its hop parses it. *)
LEMMA BlockFields ==
  ASSUME NEW t, NEW data
  PROVE  /\ IsPlain(HeaderBlock(t, data), "block")
         /\ HeaderBlock(t, data).base.cipher = data
         /\ HeaderBlock(t, data).base.blockTag = t
  BY DEF IsPlain, HeaderBlock, Bytes

(* A hop's own private key opens what was encrypted for it, and no other   *)
(* does.                                                                   *)
LEMMA OwnKeyOpens ==
  ASSUME NEW public, NEW msg, NEW private
  PROVE  asymmetric_decrypt(private, asymmetric_encrypt(public, msg))
           = IF private = public THEN msg ELSE Garbage
  BY DEF asymmetric_decrypt, asymmetric_encrypt

(* A key and a meta are not what decrypting with a wrong key leaves. *)
LEMMA MetaIsNotGarbage ==
  ASSUME NEW key, NEW meta
  PROVE  [key |-> key, meta |-> meta] # Garbage
  <1>1. DOMAIN [key |-> key, meta |-> meta] = {"key", "meta"} /\ DOMAIN Garbage = {"kind"}
    BY DEF Garbage
  <1>2. "kind" \notin {"key", "meta"}
    OBVIOUS
  <1> QED
    BY <1>1, <1>2

(* What unwrap returns of an onion that it accepts. *)
Unwrapped(width, key, meta, headers, forward, backward) ==
  IF width > Len(headers) THEN Err("panic: header[i + 1]")
  ELSE [ok |-> TRUE, key |-> key, meta |-> meta,
        onion |->
          [header   |-> shifted(width, derive_key(SymEnc, key), headers),
           forward  |-> symmetric_decrypt(derive_key(SymEnc, key), NONCE_FWD, forward),
           backward |-> ae_unwrap(key, backward)]]

(* An onion whose first block is sealed is accepted by the node that the   *)
(* block is for, if the node's header has no more cells than the onion's.  *)
LEMMA UnwrapSealed ==
  ASSUME NEW width, NEW private, NEW key, NEW meta, NEW headers, NEW forward, NEW backward,
         IsSealed(key, asymmetric_encrypt(private, [key |-> key, meta |-> meta]),
                  headers, forward)
  PROVE  unwrap(width, private,
                [header |-> headers, forward |-> forward, backward |-> backward])
         = Unwrapped(width, key, meta, headers, forward, backward)
  <1> DEFINE msg == [key |-> key, meta |-> meta]
             data == asymmetric_encrypt(private, msg)
             mac == tag(derive_key(Mac, key), Sealed(data, Tail(headers), forward))
             onion == [header |-> headers, forward |-> forward, backward |-> backward]
             first == headers[1]
  <1>1. /\ IsPlain(first, "block")
        /\ first.base.cipher = data
        /\ first.base.blockTag = mac
    <2>1. first = HeaderBlock(mac, data)
      BY Zenon DEF IsSealed
    <2> HIDE DEF mac, data, first
    <2> QED
      BY <2>1, BlockFields
  <1>2. asymmetric_decrypt(private, data) = msg
    <2> HIDE DEF msg
    <2> QED
      BY OwnKeyOpens
  <1>3. msg # Garbage /\ msg.key = key /\ msg.meta = meta
    BY MetaIsNotGarbage
  <1>4. onion.header = headers /\ onion.forward = forward /\ onion.backward = backward
    OBVIOUS
  <1> HIDE DEF msg, data, onion
  <1>5. unwrap(width, private, onion)
          = Unwrapped(width, key, meta, headers, forward, backward)
    BY <1>1, <1>2, <1>3, <1>4, Zenon DEF unwrap, Unwrapped
  <1> QED
    BY <1>5 DEF onion

(* The same for the layers of onionize. *)
LEMMA LayerIsSealedForHop ==
  ASSUME NEW rng, NEW pki, NEW keys, IsPathKeys(keys), NEW hops, NEW meta, NEW fwd_n,
         IsBlob(fwd_n), NEW h \in 1 .. Len(keys)
  PROVE  LET layer == onion_layers(keys, meta_ciphers(pki, keys, hops, meta),
                                   last_cells(rng, keys), fwd_n)
         IN  IsSealed(keys[h],
                      asymmetric_encrypt(pki[hops[h]],
                        [key |-> keys[h],
                         meta |-> IF h = Len(keys) THEN meta ELSE HopMeta(hops[h + 1])]),
                      layer[h].headers, layer[h].forward)
  <1> DEFINE data == meta_ciphers(pki, keys, hops, meta)
             cells == last_cells(rng, keys)
             layer == onion_layers(keys, data, cells, fwd_n)
  <1>1. data[h] = asymmetric_encrypt(pki[hops[h]],
                    [key |-> keys[h],
                     meta |-> IF h = Len(keys) THEN meta ELSE HopMeta(hops[h + 1])])
    BY DEF meta_ciphers
  <1>2. IsHeader(cells, MaxPathLength - 1)
    BY LastCellsAreHeader
  <1>3. AreLayers(keys, data, cells, fwd_n, layer)
    BY <1>2, LayersShape, Zenon
  <1>4. IsSealed(keys[h], data[h], layer[h].headers, layer[h].forward)
    BY <1>3, Zenon DEF AreLayers, IsLayer
  <1> QED
    BY <1>1, <1>4, Zenon

(* The heart of the format: hop h of a path, given the onion that the      *)
(* sender reckoned with, accepts it, learns its key and the meta meant for *)
(* it, and, unless it is the last, leaves precisely the header and the     *)
(* forward section that the sender reckoned the next hop would see.  That  *)
(* holds for all paths up to MaxPathLength and whatever the sender's       *)
(* coins, the addresses and the contents are.                              *)
THEOREM HopPeelsItsLayer ==
  ASSUME NEW rng, NEW pki, NEW keys, IsPathKeys(keys), NEW hops, NEW meta, NEW fwd_n,
         IsBlob(fwd_n), NEW h \in 1 .. Len(keys) - 1, NEW backward
  PROVE  LET layer == onion_layers(keys, meta_ciphers(pki, keys, hops, meta),
                                   last_cells(rng, keys), fwd_n)
         IN  unwrap(MaxPathLength, pki[hops[h]],
                    [header |-> layer[h].headers, forward |-> layer[h].forward,
                     backward |-> backward])
             = [ok |-> TRUE, key |-> keys[h], meta |-> HopMeta(hops[h + 1]),
                onion |-> [header |-> layer[h + 1].headers,
                           forward |-> layer[h + 1].forward,
                           backward |-> ae_unwrap(keys[h], backward)]]
  <1> DEFINE n == Len(keys)
             N == MaxPathLength
             data == meta_ciphers(pki, keys, hops, meta)
             cells == last_cells(rng, keys)
             layer == onion_layers(keys, data, cells, fwd_n)
             ks == derive_key(SymEnc, keys[h])
  <1>1. n \in 1 .. N /\ N \in Nat \ {0} /\ h \in 1 .. n /\ h # n /\ h + 1 \in 1 .. n
    BY MaxPathLengthAssumption DEF IsPathKeys
  <1>2. IsHeader(cells, N - 1)
    BY LastCellsAreHeader
  <1>3. AreLayers(keys, data, cells, fwd_n, layer)
    BY <1>2, LayersShape, Zenon
  <1>4. IsLayer(keys[h], data[h], layer[h], fwd_n.len)
        /\ IsLayer(keys[h + 1], data[h + 1], layer[h + 1], fwd_n.len)
        /\ IsWrapped(keys[h], layer[h], layer[h + 1])
    BY <1>1, <1>3, Zenon DEF AreLayers
  <1>5. IsSealed(keys[h], asymmetric_encrypt(pki[hops[h]],
                            [key |-> keys[h], meta |-> HopMeta(hops[h + 1])]),
                 layer[h].headers, layer[h].forward)
    <2> HIDE DEF layer
    <2>1. data[h] = asymmetric_encrypt(pki[hops[h]],
                      [key |-> keys[h], meta |-> HopMeta(hops[h + 1])])
      BY <1>1 DEF meta_ciphers
    <2> QED
      BY <1>4, <2>1 DEF IsLayer
  <1>6. shifted(N, ks, layer[h].headers) = layer[h + 1].headers
    BY ShiftedIsNext
  <1> HIDE DEF layer
  <1>7. symmetric_decrypt(ks, NONCE_FWD, layer[h].forward) = layer[h + 1].forward
    <2>1. IsBlob(layer[h + 1].forward)
      BY <1>4 DEF IsLayer
    <2> QED
      BY <1>4, <2>1, DecryptEncrypt DEF IsWrapped
  <1>8. ~ (N > Len(layer[h].headers))
    BY <1>1, <1>4 DEF IsLayer
  <1>9. unwrap(N, pki[hops[h]],
               [header |-> layer[h].headers, forward |-> layer[h].forward,
                backward |-> backward])
         = Unwrapped(N, keys[h], HopMeta(hops[h + 1]), layer[h].headers, layer[h].forward,
                     backward)
    <2> DEFINE p == pki[hops[h]]
               k == keys[h]
               m == HopMeta(hops[h + 1])
               H == layer[h].headers
               F == layer[h].forward
    <2>1. IsSealed(k, asymmetric_encrypt(p, [key |-> k, meta |-> m]), H, F)
      BY <1>5
    <2> HIDE DEF p, k, m, H, F, N
    <2>2. unwrap(N, p, [header |-> H, forward |-> F, backward |-> backward])
            = Unwrapped(N, k, m, H, F, backward)
      BY <2>1, UnwrapSealed
    <2> QED
      BY <2>2 DEF p, k, m, H, F
  <1> QED
    BY <1>6, <1>7, <1>8, <1>9, Zenon DEF layer, Unwrapped

-----------------------------------------------------------------------------
(* The backward section.  Join and Split are each other's inverse on the   *)
(* wide blocks that stem from a vector and a tag which are not the two     *)
(* halves of a block themselves.                                           *)

Halves(vec, t) == \E b : t = HeadTag(b) /\ vec = TailVec(b)

IsOriginal(vec, t) == vec.len \in Nat /\ ~ Halves(vec, t)

IsWide(x, vec, t) ==
  /\ IsBlob(x)
  /\ x.base = [kind |-> "pair", vec |-> vec, pairTag |-> t]
  /\ x.len = TagBytes + vec.len

IsSection(s, vec, t) == \E x : IsWide(x, vec, t) /\ s = Split(x)

(* The halves of a block are joined to it. *)
LEMMA JoinHalves ==
  ASSUME NEW b
  PROVE  Join([vec |-> TailVec(b), tag |-> HeadTag(b)]) = b
  <1> DEFINE a == [kind |-> "head", whole |-> b]
             bwd == [vec |-> TailVec(b), tag |-> HeadTag(b)]
             whole == {z \in bwd.tag : z.kind = "head"}
             halves == {z.whole : z \in whole}
  <1>1. bwd.tag = HeadTag(b) /\ bwd.vec = TailVec(b) /\ HeadTag(b) = {a}
    BY DEF HeadTag
  <1>2. a.kind = "head" /\ a.whole = b
    OBVIOUS
  <1> HIDE DEF a, bwd
  <1>3. whole = {a}
    BY <1>1, <1>2
  <1>4. halves = {b}
    BY <1>2, <1>3
  <1> HIDE DEF whole, halves
  <1>5. \E z \in halves : bwd.tag = HeadTag(z) /\ bwd.vec = TailVec(z)
    BY <1>1, <1>4
  <1>6. (CHOOSE z \in halves : bwd.tag = HeadTag(z)) = b
    BY <1>1, <1>4
  <1>7. Join(bwd) = CHOOSE z \in halves : bwd.tag = HeadTag(z)
    BY <1>5, Zenon DEF Join, halves, whole
  <1> QED
    BY <1>6, <1>7 DEF bwd

(* Anything else is joined to a pair. *)
LEMMA JoinOriginal ==
  ASSUME NEW bwd, ~ Halves(bwd.vec, bwd.tag)
  PROVE  Join(bwd) = Bytes([kind |-> "pair", vec |-> bwd.vec, pairTag |-> bwd.tag],
                           TagBytes + bwd.vec.len)
  BY Zenon DEF Join, Halves

(* A vector and a tag that are no halves are a section, the first one. *)
LEMMA OriginalIsSection ==
  ASSUME NEW vec, NEW t, IsOriginal(vec, t)
  PROVE  IsSection([vec |-> vec, tag |-> t], vec, t)
  <1> DEFINE base == [kind |-> "pair", vec |-> vec, pairTag |-> t]
             x == Bytes(base, TagBytes + vec.len)
  <1>1. TagBytes + vec.len \in Nat
    BY BlockFillsCell DEF IsOriginal
  <1>2. IsBlob(x) /\ x.base = base /\ x.len = TagBytes + vec.len /\ x.layers = <<>>
    <2> HIDE DEF base
    <2> QED
      BY <1>1, BytesIsBlob
  <1>3. IsWide(x, vec, t)
    BY <1>2, Zenon DEF IsWide
  <1>4. base.kind = "pair" /\ base.vec = vec /\ base.pairTag = t
    OBVIOUS
  <1> HIDE DEF base, x
  <1>5. Split(x) = [vec |-> vec, tag |-> t]
    BY <1>2, <1>4, Zenon DEF Split, IsPlain
  <1> QED
    BY <1>3, <1>5, Zenon DEF IsSection

(* A section is joined to the block that it was split from. *)
LEMMA JoinSplit ==
  ASSUME NEW vec, NEW t, IsOriginal(vec, t), NEW x, IsWide(x, vec, t)
  PROVE  Join(Split(x)) = x
  <1>1. CASE IsPlain(x, "pair")
    <2>1. Split(x) = [vec |-> vec, tag |-> t]
      BY <1>1 DEF Split, IsWide
    <2>2. Join(Split(x)) = Bytes([kind |-> "pair", vec |-> vec, pairTag |-> t],
                                 TagBytes + vec.len)
      <3> DEFINE s == Split(x)
      <3>1. s.vec = vec /\ s.tag = t
        BY <2>1
      <3> HIDE DEF s
      <3>2. Join(s) = Bytes([kind |-> "pair", vec |-> s.vec, pairTag |-> s.tag],
                            TagBytes + s.vec.len)
        BY <3>1, JoinOriginal DEF IsOriginal
      <3> QED
        BY <3>1, <3>2 DEF s
    <2>3. x = [base |-> x.base, len |-> x.len, layers |-> x.layers]
      BY DEF IsWide, IsBlob
    <2> QED
      BY <1>1, <2>2, <2>3 DEF IsWide, IsPlain, Bytes
  <1>2. CASE ~ IsPlain(x, "pair")
    <2>1. Split(x) = [vec |-> TailVec(x), tag |-> HeadTag(x)]
      BY <1>2 DEF Split
    <2> QED
      BY <2>1, JoinHalves
  <1> QED
    BY <1>1, <1>2

(* A cipher turns a wide block into a wide block. *)
LEMMA CipherKeepsWide ==
  ASSUME NEW vec, NEW t, NEW x, IsWide(x, vec, t), NEW key, NEW nonce
  PROVE  /\ IsWide(symmetric_decrypt(key, nonce, x), vec, t)
         /\ IsWide(symmetric_encrypt(key, nonce, x), vec, t)
  <1>1. ASSUME NEW dir PROVE IsWide(Cipher(dir, key, nonce, x), vec, t)
    <2>1. /\ IsBlob(Cipher(dir, key, nonce, x))
          /\ Cipher(dir, key, nonce, x).base = x.base
          /\ Cipher(dir, key, nonce, x).len = x.len
      BY CipherKeeps DEF IsWide
    <2> QED
      BY <2>1, Zenon DEF IsWide
  <1> QED
    BY <1>1, Zenon DEF symmetric_decrypt, symmetric_encrypt

(* A node that unwraps a section leaves a section of the same origin.      *)
LEMMA UnwrapKeepsSection ==
  ASSUME NEW vec, NEW t, IsOriginal(vec, t), NEW s, IsSection(s, vec, t), NEW key
  PROVE  IsSection(ae_unwrap(key, s), vec, t)
  <1> DEFINE ks == derive_key(SymEnc, key)
  <1>1. PICK x : IsWide(x, vec, t) /\ s = Split(x)
    BY Zenon DEF IsSection
  <1>2. ae_unwrap(key, s) = Split(symmetric_decrypt(ks, NONCE_BWD, x))
    BY <1>1, JoinSplit DEF ae_unwrap
  <1>3. IsWide(symmetric_decrypt(ks, NONCE_BWD, x), vec, t)
    BY <1>1, CipherKeepsWide
  <1> QED
    BY <1>2, <1>3, Zenon DEF IsSection

(* Wrapping it again gives what the node was given. *)
LEMMA WrapUndoesUnwrap ==
  ASSUME NEW vec, NEW t, IsOriginal(vec, t), NEW s, IsSection(s, vec, t), NEW key
  PROVE  ae_wrap(key, ae_unwrap(key, s)) = s
  <1> DEFINE ks == derive_key(SymEnc, key)
  <1>1. PICK x : IsWide(x, vec, t) /\ s = Split(x)
    BY Zenon DEF IsSection
  <1> DEFINE y == symmetric_decrypt(ks, NONCE_BWD, x)
  <1>2. ae_unwrap(key, s) = Split(y)
    BY <1>1, JoinSplit DEF ae_unwrap
  <1>3. IsWide(y, vec, t)
    BY <1>1, CipherKeepsWide
  <1>4. symmetric_encrypt(ks, NONCE_BWD, y) = x
    BY <1>1, EncryptDecrypt DEF IsWide
  <1> HIDE DEF y
  <1>5. Join(Split(y)) = y
    BY <1>3, JoinSplit
  <1> QED
    BY <1>1, <1>2, <1>4, <1>5 DEF ae_wrap

(* All sections of one origin have vectors of one length. *)
LEMMA SectionLength ==
  ASSUME NEW vec, NEW t, IsOriginal(vec, t), NEW s, IsSection(s, vec, t)
  PROVE  s.vec.len = vec.len
  <1>1. PICK x : IsWide(x, vec, t) /\ s = Split(x)
    BY Zenon DEF IsSection
  <1>2. vec.len \in Nat /\ TagBytes \in Nat \ {0} /\ x.len = TagBytes + vec.len
    BY <1>1, BlockFillsCell DEF IsOriginal, IsWide
  <1>3. CASE IsPlain(x, "pair")
    BY <1>1, <1>3 DEF Split, IsWide
  <1>4. CASE ~ IsPlain(x, "pair")
    <2>1. s.vec = TailVec(x)
      BY <1>1, <1>4 DEF Split
    <2>2. CASE x.len = TagBytes
      BY <1>2, <2>1, <2>2 DEF TailVec, Empty, Bytes
    <2>3. CASE x.len # TagBytes
      <3>1. s.vec.len = x.len - TagBytes
        BY <2>1, <2>3 DEF TailVec, Bytes
      <3> QED
        BY <1>2, <3>1
    <2> QED
      BY <2>2, <2>3
  <1> QED
    BY <1>3, <1>4

(* The tag of a section is the original one, or half of a block. *)
LEMMA SectionTag ==
  ASSUME NEW vec, NEW t, NEW s, IsSection(s, vec, t)
  PROVE  s.tag = t \/ \E b : s.tag = HeadTag(b)
  <1>1. PICK x : IsWide(x, vec, t) /\ s = Split(x)
    BY Zenon DEF IsSection
  <1>2. CASE IsPlain(x, "pair")
    BY <1>1, <1>2 DEF Split, IsWide
  <1>3. CASE ~ IsPlain(x, "pair")
    <2>1. s.tag = HeadTag(x)
      BY <1>1, <1>3 DEF Split
    <2> QED
      BY <2>1, Zenon
  <1> QED
    BY <1>2, <1>3

(* Along a whole path. *)
LEMMA SectionsAlongPath ==
  ASSUME NEW vec, NEW t, IsOriginal(vec, t), NEW keys, Len(keys) \in Nat
  PROVE  \A i \in 0 .. Len(keys) :
           IsSection(backward_sections(keys, [vec |-> vec, tag |-> t])[i], vec, t)
  <1> DEFINE n == Len(keys)
             B == backward_sections(keys, [vec |-> vec, tag |-> t])
             T == {i \in 0 .. n : IsSection(B[i], vec, t)}
  <1>1. \A i \in 0 .. n : B[i] = IF i = 0 THEN [vec |-> vec, tag |-> t]
                                 ELSE ae_unwrap(keys[i], B[i - 1])
    BY BackwardSectionsRecur
  <1> HIDE DEF B, n
  <1>2. n \in Nat
    BY DEF n
  <1>3. 0 \in T
    BY <1>1, <1>2, OriginalIsSection
  <1>4. ASSUME NEW i \in 0 .. n - 1, i \in T PROVE i + 1 \in T
    <2>1. i + 1 \in 0 .. n /\ i + 1 # 0 /\ (i + 1) - 1 = i
      BY <1>2
    <2>2. B[i + 1] = ae_unwrap(keys[i + 1], B[i])
      BY <1>1, <2>1
    <2>3. IsSection(ae_unwrap(keys[i + 1], B[i]), vec, t)
      BY <1>4, UnwrapKeepsSection
    <2> QED
      BY <2>1, <2>2, <2>3
  <1>5. 0 .. n \subseteq T
    <2> HIDE DEF T
    <2> QED
      BY <1>2, <1>3, <1>4, UpFrom
  <1> QED
    BY <1>5 DEF B, n

(* The keys of a reply path, as the sender derives them again: that of the *)
(* last hop, its own, is the master key.                                   *)
IsReplyKeys(keys, master) ==
  /\ Len(keys) \in Nat \ {0}
  /\ \A i \in 1 .. Len(keys) - 1 : keys[i] = backward_key(master, i - 1)

(* What the sender makes of the section that reaches it.                   *)
Recovers(master, keys, bwd, first) == rewrapped_sections(master, Len(keys), bwd)[0] = first

(* The sender puts back on what the hops of the reply path took off: from  *)
(* the section that reaches it, it computes the one that the receiver      *)
(* sent, for every length of that path.                                    *)
THEOREM RewrappingUndoesThePath ==
  ASSUME NEW vec, NEW t, IsOriginal(vec, t), NEW keys, NEW master,
         IsReplyKeys(keys, master)
  PROVE  Recovers(master, keys,
                  backward_sections(keys, [vec |-> vec, tag |-> t])[Len(keys) - 1],
                  [vec |-> vec, tag |-> t])
  <1> DEFINE n_backward == Len(keys)
             n == n_backward - 1
             s == [vec |-> vec, tag |-> t]
             B == backward_sections(keys, s)
             R == rewrapped_sections(master, n_backward, B[n])
             T == {i \in 0 .. n : R[i] = B[i]}
  <1>0. n_backward \in Nat \ {0} /\ n_backward \in Nat
        /\ \A i \in 1 .. n_backward - 1 : keys[i] = backward_key(master, i - 1)
    BY DEF IsReplyKeys
  <1>1. \A i \in 0 .. n_backward : B[i] = IF i = 0 THEN s
                                          ELSE ae_unwrap(keys[i], B[i - 1])
    <2>1. Len(keys) \in Nat
      BY <1>0
    <2>2. B = [i \in 0 .. Len(keys) |->
                 IF i = 0 THEN s ELSE ae_unwrap(keys[i], B[i - 1])]
      BY <2>1, BackwardSectionsRecur
    <2> HIDE DEF B
    <2> QED
      BY <2>2
  <1>2. \A i \in 0 .. n_backward : IsSection(B[i], vec, t)
    BY <1>0, SectionsAlongPath
  <1> HIDE DEF B
  <1>3. \A i \in 0 .. n : R[i] = IF i = n THEN B[n]
                                 ELSE ae_wrap(backward_key(master, i), R[i + 1])
    BY <1>0, RewrappedRecur
  <1>4. n \in Nat /\ n_backward = n + 1
    BY <1>0
  <1> HIDE DEF R, n, n_backward, s
  <1>5. n \in T
    BY <1>3, <1>4
  <1>6. ASSUME NEW i \in 0 .. n - 1, i + 1 \in T PROVE i \in T
    <2>1. /\ i \in 0 .. n /\ i # n /\ i + 1 \in 1 .. n_backward - 1 /\ (i + 1) - 1 = i
          /\ i \in 0 .. n_backward /\ i + 1 \in 0 .. n_backward /\ i + 1 # 0
      BY <1>4
    <2>2. R[i] = ae_wrap(backward_key(master, i), B[i + 1])
      BY <1>3, <1>6, <2>1
    <2>3. keys[i + 1] = backward_key(master, i)
      BY <1>0, <2>1
    <2>4. B[i + 1] = ae_unwrap(keys[i + 1], B[i])
      BY <1>1, <2>1
    <2>5. ae_wrap(keys[i + 1], ae_unwrap(keys[i + 1], B[i])) = B[i]
      BY <1>2, <2>1, WrapUndoesUnwrap
    <2> QED
      BY <2>1, <2>2, <2>3, <2>4, <2>5
  <1>7. 0 .. n \subseteq T
    <2>1. 0 \in Int /\ n \in Int /\ \A i \in 0 .. n - 1 : i + 1 \in T => i \in T
      BY <1>4, <1>6
    <2> HIDE DEF T
    <2> QED
      BY <1>5, <2>1, DownFrom
  <1>8. R[0] = B[0]
    BY <1>4, <1>7
  <1>9. B[0] = s
    BY <1>1, <1>4
  <1> QED
    BY <1>8, <1>9, Zenon DEF R, B, n, n_backward, s, Recovers

(* A payload comes back from its encryption under the same key and tag. *)
LEMMA DecReturnsPayload ==
  ASSUME NEW key, NEW ad, NEW payload, IsBlob(payload)
  PROVE  ae_dec(key, ad, ae_enc(key, ad, payload)) = [ok |-> TRUE, payload |-> payload]
  <1> DEFINE ks == derive_key(SymEnc, key)
             ct == symmetric_encrypt(ks, NONCE_AE, payload)
             t == xor_tag(tag(derive_key(Mac, key), [reply |-> ct]), ad)
             bwd == [vec |-> ct, tag |-> t]
  <1>1. ae_enc(key, ad, payload) = bwd
    BY DEF ae_enc
  <1>2. symmetric_decrypt(ks, NONCE_AE, ct) = payload
    BY DecryptEncrypt
  <1>3. bwd.vec = ct /\ bwd.tag = t
    OBVIOUS
  <1> HIDE DEF bwd, ct
  <1> QED
    BY <1>1, <1>2, <1>3, Zenon DEF ae_dec

(* What the receiver encrypts is no pair of halves: its tag holds a MAC,   *)
(* if the tag that was xored into it holds none.                           *)
LEMMA ReplyIsOriginal ==
  ASSUME NEW key, NEW ad, NEW payload, IsBlob(payload),
         \A a \in ad : a.kind # "mac"
  PROVE  LET s == ae_enc(key, ad, payload)
         IN  /\ s = [vec |-> s.vec, tag |-> s.tag]
             /\ IsOriginal(s.vec, s.tag)
             /\ s.vec.len = payload.len
  <1> DEFINE ks == derive_key(SymEnc, key)
             ct == symmetric_encrypt(ks, NONCE_AE, payload)
             a == [kind |-> "mac", macKey |-> derive_key(Mac, key), over |-> [reply |-> ct]]
             s == ae_enc(key, ad, payload)
  <1>1. IsBlob(ct) /\ ct.len = payload.len
    BY CipherKeeps, Zenon DEF symmetric_encrypt
  <1>2. ct.len \in Nat
    BY <1>1 DEF IsBlob
  <1>3. a.kind = "mac"
    OBVIOUS
  <1>4. s = [vec |-> ct, tag |-> ({a} \ ad) \cup (ad \ {a})]
    BY DEF ae_enc, tag, xor_tag
  <1> HIDE DEF a, ct, s
  <1>5. s.vec = ct /\ a \in s.tag
    BY <1>3, <1>4
  <1>6. ASSUME NEW b, s.tag = HeadTag(b) PROVE FALSE
    <2>1. a = [kind |-> "head", whole |-> b]
      BY <1>5, <1>6 DEF HeadTag
    <2>2. a.kind = "head"
      BY <2>1
    <2> QED
      BY <1>3, <2>2
  <1>7. ~ Halves(s.vec, s.tag)
    BY <1>6, Zenon DEF Halves
  <1>8. s = [vec |-> s.vec, tag |-> s.tag]
    BY <1>4
  <1> QED
    BY <1>1, <1>2, <1>5, <1>7, <1>8 DEF IsOriginal, s

(* Nor is the random section that the sender puts into an onion, nor the   *)
(* tag that it leaves free of MACs.                                        *)
LEMMA RandomIsOriginal ==
  ASSUME NEW vec, vec.len \in Nat, NEW rng
  PROVE  IsOriginal(vec, random_tag(rng))
  <1> DEFINE a == [kind |-> "randomTag", coin |-> rng]
  <1>1. random_tag(rng) = {a} /\ a.kind = "randomTag"
    BY DEF random_tag
  <1> HIDE DEF a
  <1>2. ASSUME NEW b, {a} = HeadTag(b) PROVE FALSE
    <2>1. a = [kind |-> "head", whole |-> b]
      BY <1>2 DEF HeadTag
    <2>2. a.kind = "head"
      BY <2>1
    <2> QED
      BY <1>1, <2>2
  <1> QED
    BY <1>1, <1>2 DEF IsOriginal, Halves

(* The tag that unwrapping a random section leaves holds no MAC. *)
LEMMA NoMacInRandomSection ==
  ASSUME NEW vec, NEW rng, NEW s, IsSection(s, vec, random_tag(rng))
  PROVE  \A a \in s.tag : a.kind # "mac"
  <1>1. s.tag = random_tag(rng) \/ \E b : s.tag = HeadTag(b)
    BY SectionTag
  <1>2. CASE s.tag = random_tag(rng)
    BY <1>2 DEF random_tag
  <1>3. CASE \E b : s.tag = HeadTag(b)
    BY <1>3 DEF HeadTag
  <1> QED
    BY <1>1, <1>2, <1>3

-----------------------------------------------------------------------------
(* Lengths. *)

(* A header of MaxPathLength cells is serialized to total_header_length    *)
(* bytes.                                                                  *)
LEMMA HeaderTakesItsLength ==
  ASSUME NEW header, Len(header) = MaxPathLength,
         \A c \in 1 .. MaxPathLength : header[c].len = single_header_length
  PROVE  HeaderBytes(header) = total_header_length
  <1> DEFINE N == MaxPathLength
  <1>1. N \in Nat \ {0}
    BY MaxPathLengthAssumption
  <1>2. PICK upto : upto = ByteCounts(header, upto) /\ HeaderBytes(header) = upto[Len(header)]
    BY <1>1, HeaderBytesRecur
  <1>3. \A c \in 0 .. N : upto[c] = IF c = 0 THEN VecLengthBytes
                                    ELSE upto[c - 1] + VecLengthBytes + header[c].len
    BY <1>2 DEF ByteCounts
  <1>4. VecLengthBytes = 8 /\ single_header_length = 116
    BY DEF VecLengthBytes, single_header_length, SYMMETRIC_KEY_LENGTH, ADDRESS_LENGTH
  <1>5. \A c \in 1 .. N : header[c].len = 116
    BY <1>4
  <1> DEFINE T == {c \in 0 .. N : upto[c] = 8 + 124 * c}
  <1> HIDE DEF N
  <1>6. 0 \in T
    BY <1>1, <1>3, <1>4
  <1>7. ASSUME NEW c \in 0 .. N - 1, c \in T PROVE c + 1 \in T
    <2>1. c + 1 \in 0 .. N /\ c + 1 \in 1 .. N /\ c + 1 # 0 /\ (c + 1) - 1 = c
      BY <1>1
    <2>2. upto[c + 1] = upto[c] + VecLengthBytes + header[c + 1].len
      BY <1>3, <2>1
    <2>3. upto[c + 1] = (8 + 124 * c) + 8 + 116
      BY <1>4, <1>5, <1>7, <2>1, <2>2
    <2> QED
      BY <2>1, <2>3
  <1>8. 0 .. N \subseteq T
    <2> HIDE DEF T
    <2> QED
      BY <1>1, <1>6, <1>7, UpFrom
  <1>9. upto[N] = 8 + 124 * N
    BY <1>1, <1>8
  <1>10. total_header_length = 8 + N * 124
    BY <1>4 DEF total_header_length, N
  <1> QED
    BY <1>1, <1>2, <1>9, <1>10 DEF N

(* The plaintext of the forward section is as long as the header of the    *)
(* reply and the payload that it packs.                                    *)
LEMMA MessageLength ==
  ASSUME NEW header, IsHeader(header, MaxPathLength), Len(header) = MaxPathLength,
         NEW payload, payload.len \in Nat
  PROVE  LET m == PackMessage(header, payload)
         IN  /\ IsBlob(m)
             /\ m.len = total_header_length + 8 + payload.len
             /\ IsPlain(m, "message")
             /\ m.base.replyHeader = header
             /\ m.base.payload = payload
  <1> DEFINE base == [kind |-> "message", replyHeader |-> header, payload |-> payload]
             len == HeaderBytes(header) + VecLengthBytes + payload.len
             m == Bytes(base, len)
  <1>1. HeaderBytes(header) = total_header_length /\ VecLengthBytes = 8
    BY HeaderTakesItsLength DEF VecLengthBytes, IsHeader, IsCell
  <1>2. total_header_length \in Nat
    BY MaxPathLengthAssumption DEF total_header_length, single_header_length,
         SYMMETRIC_KEY_LENGTH, ADDRESS_LENGTH
  <1>3. len \in Nat /\ len = total_header_length + 8 + payload.len
    BY <1>1, <1>2
  <1>4. base.kind = "message" /\ base.replyHeader = header /\ base.payload = payload
    OBVIOUS
  <1> HIDE DEF base, len
  <1>5. IsBlob(m) /\ m.base = base /\ m.len = len /\ m.layers = <<>>
    BY <1>3, BytesIsBlob
  <1>6. IsPlain(m, "message")
    BY <1>4, <1>5, Zenon DEF IsPlain
  <1>7. PackMessage(header, payload) = m
    BY Zenon DEF PackMessage, base, len
  <1> QED
    BY <1>3, <1>4, <1>5, <1>6, <1>7

-----------------------------------------------------------------------------
(* The forward section of a reply, and headers that were shifted wrongly.  *)

(* What the hops of the reply path make of the filler is a byte string of  *)
(* the filler's length.                                                    *)
LEMMA ForwardSectionsAreBlobs ==
  ASSUME NEW keys, Len(keys) \in Nat, NEW data, IsBlob(data)
  PROVE  \A i \in 0 .. Len(keys) : /\ IsBlob(forward_sections(keys, data)[i])
                                   /\ forward_sections(keys, data)[i].len = data.len
  <1> DEFINE n == Len(keys)
             A == forward_sections(keys, data)
             T == {i \in 0 .. n : IsBlob(A[i]) /\ A[i].len = data.len}
  <1>1. \A i \in 0 .. n : A[i] = IF i = 0 THEN data
                                 ELSE symmetric_decrypt(derive_key(SymEnc, keys[i]),
                                                        NONCE_FWD, A[i - 1])
    BY ForwardSectionsRecur
  <1> HIDE DEF A, n
  <1>2. n \in Nat
    BY DEF n
  <1>3. 0 \in T
    BY <1>1, <1>2
  <1>4. ASSUME NEW i \in 0 .. n - 1, i \in T PROVE i + 1 \in T
    <2>1. i + 1 \in 0 .. n /\ i + 1 # 0 /\ (i + 1) - 1 = i
      BY <1>2
    <2>2. A[i + 1] = symmetric_decrypt(derive_key(SymEnc, keys[i + 1]), NONCE_FWD, A[i])
      BY <1>1, <2>1
    <2>3. /\ IsBlob(symmetric_decrypt(derive_key(SymEnc, keys[i + 1]), NONCE_FWD, A[i]))
          /\ symmetric_decrypt(derive_key(SymEnc, keys[i + 1]), NONCE_FWD, A[i]).len = A[i].len
      BY <1>4, CipherKeeps DEF symmetric_decrypt
    <2> QED
      BY <1>4, <2>1, <2>2, <2>3
  <1>5. 0 .. n \subseteq T
    <2> HIDE DEF T
    <2> QED
      BY <1>2, <1>3, <1>4, UpFrom
  <1> QED
    BY <1>5 DEF A, n

(* Each layer holds the forward section as the hops before it leave it.    *)
HoldsSections(layer, after, n) == \A h \in 1 .. n : layer[h].forward = after[h - 1]

(* The sender reckons with the filler as it will be at the last hop, and   *)
(* wraps it; every hop is reckoned to receive what the hops before it      *)
(* really make of the filler.                                              *)
LEMMA FillerInPlace ==
  ASSUME NEW rng, NEW keys, IsPathKeys(keys), NEW data, NEW first, IsBlob(first)
  PROVE  HoldsSections(onion_layers(keys, data, last_cells(rng, keys),
                                    forward_sections(keys, first)[Len(keys) - 1]),
                       forward_sections(keys, first), Len(keys))
  <1> DEFINE n == Len(keys)
             cells == last_cells(rng, keys)
             after == forward_sections(keys, first)
             layer == onion_layers(keys, data, cells, after[n - 1])
             T == {h \in 1 .. n : layer[h].forward = after[h - 1]}
  <1>1. n \in Nat \ {0}
    BY MaxPathLengthAssumption DEF IsPathKeys
  <1>2. \A i \in 0 .. n : after[i] = IF i = 0 THEN first
                                 ELSE symmetric_decrypt(derive_key(SymEnc, keys[i]),
                                                        NONCE_FWD, after[i - 1])
    BY <1>1, ForwardSectionsRecur
  <1>3. \A i \in 0 .. n : IsBlob(after[i])
    BY <1>1, ForwardSectionsAreBlobs
  <1> HIDE DEF after, cells
  <1>4. AreLayers(keys, data, cells, after[n - 1], layer)
    <2>1. IsHeader(cells, MaxPathLength - 1)
      BY LastCellsAreHeader DEF cells
    <2>2. IsBlob(after[n - 1])
      BY <1>1, <1>3
    <2> QED
      BY <2>1, <2>2, LayersShape
  <1>5. /\ \A i \in 1 .. n - 1 : IsWrapped(keys[i], layer[i], layer[i + 1])
        /\ layer[n].forward = after[n - 1]
    BY <1>4, Zenon DEF AreLayers
  <1> HIDE DEF n, layer
  <1>6. n \in T
    BY <1>1, <1>5
  <1>7. ASSUME NEW h \in 1 .. n - 1, h + 1 \in T PROVE h \in T
    <2> DEFINE ks == derive_key(SymEnc, keys[h])
    <2>1. h \in 1 .. n /\ h \in 0 .. n /\ h # 0 /\ (h + 1) - 1 = h /\ h - 1 \in 0 .. n
      BY <1>1
    <2>2. layer[h].forward = symmetric_encrypt(ks, NONCE_FWD, after[h])
      BY <1>5, <1>7, <2>1 DEF IsWrapped
    <2>3. after[h] = symmetric_decrypt(ks, NONCE_FWD, after[h - 1])
      BY <1>2, <2>1
    <2>4. symmetric_encrypt(ks, NONCE_FWD, symmetric_decrypt(ks, NONCE_FWD, after[h - 1])) = after[h - 1]
      BY <1>3, <2>1, EncryptDecrypt
    <2> QED
      BY <2>1, <2>2, <2>3, <2>4
  <1>8. 1 .. n \subseteq T
    <2>1. n \in Int
      BY <1>1
    <2> HIDE DEF T
    <2> QED
      BY <1>6, <1>7, <2>1, DownFrom
  <1> QED
    BY <1>8 DEF n, layer, after, cells, HoldsSections

(* Ciphering a zero cell with two nonces gives two cells. *)
LEMMA NoncesTell ==
  ASSUME NEW key, NEW i \in Nat, NEW j \in Nat,
         symmetric_decrypt(key, i, zero_header) = symmetric_decrypt(key, j, zero_header)
  PROVE  i = j
  <1>1. single_header_length # 0
    BY BlockFillsCell
  <1>2. ASSUME NEW k \in Nat
        PROVE  symmetric_decrypt(key, k, zero_header).layers
                 = <<[dir |-> "dec", key |-> key, nonce |-> k]>>
    <2>1. zero_header.len # 0 /\ zero_header.layers = <<>>
      BY <1>1 DEF zero_header, Bytes
    <2>2. Cipher("dec", key, k, zero_header)
            = [zero_header EXCEPT !.layers =
                 Append(zero_header.layers, [dir |-> "dec", key |-> key, nonce |-> k])]
      BY <2>1 DEF Cipher
    <2>3. zero_header = [base |-> [kind |-> "zero"], len |-> single_header_length, layers |-> <<>>]
      BY DEF zero_header, Bytes
    <2>4. Cipher("dec", key, k, zero_header).layers
            = Append(<<>>, [dir |-> "dec", key |-> key, nonce |-> k])
      BY <2>1, <2>2, <2>3
    <2> DEFINE l == [dir |-> "dec", key |-> key, nonce |-> k]
    <2>5. Append(<<>>, l) = <<l>>
      <3> HIDE DEF l
      <3> QED
        OBVIOUS
    <2> QED
      BY <2>4, <2>5 DEF symmetric_decrypt
  <1> DEFINE a == [dir |-> "dec", key |-> key, nonce |-> i]
             b == [dir |-> "dec", key |-> key, nonce |-> j]
  <1>3. <<a>> = <<b>>
    BY <1>2
  <1>4. a = b
    <2> HIDE DEF a, b
    <2> QED
      BY <1>3
  <1> QED
    BY <1>4

(* A tag tells headers apart. *)
LEMMA TagTells ==
  ASSUME NEW key, NEW data, NEW forward, NEW cells, NEW others, cells # others
  PROVE  tag(key, Sealed(data, cells, forward)) # tag(key, Sealed(data, others, forward))
  <1> DEFINE x == Sealed(data, cells, forward)
             y == Sealed(data, others, forward)
             a == [kind |-> "mac", macKey |-> key, over |-> x]
             b == [kind |-> "mac", macKey |-> key, over |-> y]
  <1>1. x # y
    BY DEF Sealed
  <1> HIDE DEF x, y
  <1>2. a # b
    BY <1>1
  <1>3. tag(key, x) = {a} /\ tag(key, y) = {b}
    BY DEF tag
  <1> HIDE DEF a, b
  <1> QED
    BY <1>2, <1>3 DEF x, y

(* A hop that shifts fewer cells than the sender reckoned with passes on a *)
(* header that the next hop refuses: if it shifts at all, the next hop     *)
(* finds its own block, but the zero cell has been deciphered with another *)
(* nonce; if it does not, the next hop finds a block of somebody else.     *)
THEOREM MisshiftedIsRefused ==
  ASSUME NEW rng, NEW pki, NEW keys, IsPathKeys(keys), NEW hops, NEW meta, NEW fwd_n,
         IsBlob(fwd_n), NEW h \in 1 .. Len(keys) - 1, NEW w \in 1 .. MaxPathLength - 1,
         pki[hops[h]] # pki[hops[h + 1]], NEW width, NEW backward
  PROVE  LET layer == onion_layers(keys, meta_ciphers(pki, keys, hops, meta),
                                   last_cells(rng, keys), fwd_n)
         IN  unwrap(width, pki[hops[h + 1]],
                    [header |-> shifted(w, derive_key(SymEnc, keys[h]), layer[h].headers),
                     forward |-> layer[h + 1].forward, backward |-> backward])
             = Err("MacMismatch")
  <1> DEFINE n == Len(keys)
             N == MaxPathLength
             data == meta_ciphers(pki, keys, hops, meta)
             cells == last_cells(rng, keys)
             layer == onion_layers(keys, data, cells, fwd_n)
             ks == derive_key(SymEnc, keys[h])
             H == layer[h].headers
             next == layer[h + 1].headers
             forward == layer[h + 1].forward
             s == shifted(w, ks, H)
             private == pki[hops[h + 1]]
             onion == [header |-> s, forward |-> forward, backward |-> backward]
  <1>1. n \in 1 .. N /\ N \in Nat \ {0} /\ h \in 1 .. n /\ h # n /\ h + 1 \in 1 .. n
        /\ N >= 2 /\ 1 \in 1 .. N /\ N \in 1 .. N
    BY MaxPathLengthAssumption DEF IsPathKeys
  <1>2. AreLayers(keys, data, cells, fwd_n, layer)
    BY LastCellsAreHeader, LayersShape, Zenon
  <1>3. /\ IsLayer(keys[h], data[h], layer[h], fwd_n.len)
        /\ IsLayer(keys[h + 1], data[h + 1], layer[h + 1], fwd_n.len)
    BY <1>1, <1>2, Zenon DEF AreLayers
  <1>4. shifted(N, ks, H) = next
    BY ShiftedIsNext
  <1>5. /\ data[h] = asymmetric_encrypt(pki[hops[h]],
                       [key |-> keys[h], meta |-> HopMeta(hops[h + 1])])
        /\ \E m : data[h + 1] = asymmetric_encrypt(private, [key |-> keys[h + 1], meta |-> m])
    <2>1. data[h + 1] = asymmetric_encrypt(private,
                          [key |-> keys[h + 1],
                           meta |-> IF h + 1 = n THEN meta ELSE HopMeta(hops[(h + 1) + 1])])
      BY <1>1 DEF meta_ciphers
    <2>2. data[h] = asymmetric_encrypt(pki[hops[h]],
                      [key |-> keys[h], meta |-> HopMeta(hops[h + 1])])
      BY <1>1 DEF meta_ciphers
    <2> QED
      BY <2>1, <2>2, Zenon
  <1>6. /\ H[1] = HeaderBlock(tag(derive_key(Mac, keys[h]),
                                  Sealed(data[h], Tail(H), layer[h].forward)), data[h])
        /\ next[1] = HeaderBlock(tag(derive_key(Mac, keys[h + 1]),
                                     Sealed(data[h + 1], Tail(next), forward)), data[h + 1])
    BY <1>3, Zenon DEF IsLayer, IsSealed
  <1> HIDE DEF layer, n, data, cells
  <1>7. /\ IsHeader(H, N) /\ Len(H) = N /\ IsHeader(next, N) /\ Len(next) = N
    BY <1>3 DEF IsLayer
  <1> HIDE DEF H, next, forward, private
  <1>8. /\ s = [c \in 1 .. N |->
                  IF c = N THEN symmetric_decrypt(ks, w + 1, zero_header)
                  ELSE IF c < w THEN symmetric_decrypt(ks, c + 1, H[c + 1])
                  ELSE H[c]]
        /\ next = [c \in 1 .. N |->
                     IF c = N THEN symmetric_decrypt(ks, N + 1, zero_header)
                     ELSE IF c < N THEN symmetric_decrypt(ks, c + 1, H[c + 1])
                     ELSE H[c]]
    <2>1. DOMAIN H = 1 .. N
      BY <1>7 DEF IsHeader
    <2> QED
      BY <1>4, <1>7, <2>1 DEF shifted
  <1>9. onion.header = s /\ onion.forward = forward
    OBVIOUS
  <1>10. CASE w = 1
    <2>1. s[1] = H[1]
      BY <1>1, <1>8, <1>10
    <2>2. IsPlain(s[1], "block") /\ s[1].base.cipher = data[h]
      BY <1>6, <2>1, BlockFields
    <2>3. asymmetric_decrypt(private, data[h]) = Garbage
      BY <1>5, OwnKeyOpens DEF private
    <2> HIDE DEF s, onion
    <2>4. unwrap(width, private, onion) = Err("MacMismatch")
      BY <1>9, <2>2, <2>3, Zenon DEF unwrap
    <2> QED
      BY <2>4 DEF private, onion, s, H, forward, layer, data, cells
  <1>11. CASE w # 1
    <2>1. s[1] = next[1]
      BY <1>1, <1>8, <1>11
    <2>2. s[N] # next[N]
      <3>1. s[N] = symmetric_decrypt(ks, w + 1, zero_header)
            /\ next[N] = symmetric_decrypt(ks, N + 1, zero_header)
        BY <1>1, <1>8
      <3>2. w + 1 \in Nat /\ N + 1 \in Nat /\ w + 1 # N + 1
        BY <1>1
      <3> HIDE DEF s
      <3> QED
        BY <3>1, <3>2, NoncesTell
    <2>3. Tail(s) # Tail(next)
      <3> DEFINE S == {s[c] : c \in 1 .. N} \cup {next[c] : c \in 1 .. N}
      <3>1. s = [c \in 1 .. N |-> s[c]] /\ next = [c \in 1 .. N |-> next[c]]
        BY <1>8
      <3> HIDE DEF s
      <3>2. s \in [1 .. N -> S] /\ next \in [1 .. N -> S]
        BY <3>1
      <3> HIDE DEF S
      <3>3. N \in Nat
        BY <1>1
      <3>4. s \in Seq(S) /\ Len(s) = N /\ next \in Seq(S) /\ Len(next) = N
        BY <3>2, <3>3, FunctionIsSeq
      <3>5. Tail(s)[N - 1] = s[N] /\ Tail(next)[N - 1] = next[N]
        BY <1>1, <3>4
      <3> QED
        BY <2>2, <3>5
    <2>4. PICK m : data[h + 1] = asymmetric_encrypt(private, [key |-> keys[h + 1], meta |-> m])
      BY <1>5
    <2> DEFINE msg == [key |-> keys[h + 1], meta |-> m]
               mac == tag(derive_key(Mac, keys[h + 1]), Sealed(data[h + 1], Tail(next), forward))
               found == tag(derive_key(Mac, keys[h + 1]), Sealed(data[h + 1], Tail(s), forward))
    <2>5. /\ IsPlain(s[1], "block") /\ s[1].base.cipher = data[h + 1]
          /\ s[1].base.blockTag = mac
      <3> HIDE DEF mac, s
      <3>1. s[1] = HeaderBlock(mac, data[h + 1])
        BY <1>6, <2>1 DEF mac
      <3> QED
        BY <3>1, BlockFields
    <2>6. asymmetric_decrypt(private, data[h + 1]) = msg
      <3> HIDE DEF msg
      <3> QED
        BY <2>4, OwnKeyOpens DEF msg
    <2>7. msg.key = keys[h + 1]
      OBVIOUS
    <2> HIDE DEF s, onion, msg
    <2>8. mac # found
      BY <2>3, TagTells
    <2>9. unwrap(width, private, onion) = Err("MacMismatch")
      <3> HIDE DEF mac
      <3> QED
        BY <1>9, <2>5, <2>6, <2>7, <2>8, Zenon DEF unwrap
    <2> QED
      BY <2>9 DEF private, onion, s, H, forward, layer, data, cells
  <1> QED
    BY <1>10, <1>11

-----------------------------------------------------------------------------
(* A repliable onion on its way.  An order o names the coins, the key      *)
(* store, the two paths and the payload that form_onion is called with;    *)
(* ForthOnion(o, h) is the onion that hop h of the first path receives,    *)
(* and BackOnion(o, reply, h) the one that hop h of the reply path does.   *)

IsOrder(o) ==
  /\ Len(o.hops_forward) \in 1 .. MaxPathLength
  /\ Len(o.hops_backward) \in 1 .. MaxPathLength
  /\ \A i \in 1 .. Len(o.hops_forward) : o.hops_forward[i] \in DOMAIN o.pki
  /\ \A i \in 1 .. Len(o.hops_backward) : o.hops_backward[i] \in DOMAIN o.pki
  /\ IsBlob(o.payload)

n_forward(o)  == Len(o.hops_forward)
n_backward(o) == Len(o.hops_backward)

keys_forward(o) == [i \in 1 .. n_forward(o) |-> forward_key(random_key(o.rng), i - 1)]
keys_backward(o) ==
  [i \in 1 .. n_backward(o) |->
     IF i = n_backward(o) THEN random_key(o.rng)
     ELSE backward_key(random_key(o.rng), i - 1)]

filler(o) ==
  prng(derive_key(PrngRole, keys_forward(o)[n_forward(o)]),
       total_header_length + 8 + o.payload.len)

ciphers_backward(o) ==
  meta_ciphers(o.pki, keys_backward(o), o.hops_backward,
               SenderMeta(n_forward(o), n_backward(o)))

layers_backward(o) ==
  onion_layers(keys_backward(o), ciphers_backward(o),
               last_cells([rng |-> o.rng, leg |-> "backward"], keys_backward(o)),
               forward_sections(keys_backward(o), filler(o))[n_backward(o) - 1])

message(o) == PackMessage(layers_backward(o)[1].headers, o.payload)

ciphers_forward(o) ==
  meta_ciphers(o.pki, keys_forward(o), o.hops_forward, ReceiverMeta(o.hops_backward[1]))

layers_forward(o) ==
  onion_layers(keys_forward(o), ciphers_forward(o),
               last_cells([rng |-> o.rng, leg |-> "forward"], keys_forward(o)),
               symmetric_encrypt(derive_key(SymEnc, keys_forward(o)[n_forward(o)]),
                                 NONCE_FWD, message(o)))

random_bytes(rng, len) ==
  IF len = 0 THEN Empty ELSE Bytes([kind |-> "random", coin |-> rng], len)

random_pair(rng, len) == [vec |-> random_bytes(rng, len), tag |-> random_tag(rng)]

random_vec(o) == random_bytes([rng |-> o.rng, leg |-> "forward"], o.payload.len)

random_section(o) == random_pair([rng |-> o.rng, leg |-> "forward"], o.payload.len)

sections_forward(o) == backward_sections(keys_forward(o), random_section(o))

ForthOnion(o, h) ==
  [header |-> layers_forward(o)[h].headers, forward |-> layers_forward(o)[h].forward,
   backward |-> sections_forward(o)[h - 1]]

first_section(o, reply) ==
  ae_enc(keys_forward(o)[n_forward(o)], sections_forward(o)[n_forward(o)].tag, reply)

sections_backward(o, reply) == backward_sections(keys_backward(o), first_section(o, reply))

BackOnion(o, reply, h) ==
  [header |-> layers_backward(o)[h].headers, forward |-> layers_backward(o)[h].forward,
   backward |-> sections_backward(o, reply)[h - 1]]

(* What the sender expects the reply to carry. *)
identifier(o)  == layers_backward(o)[n_backward(o)].headers
awaited_tag(o) == sections_forward(o)[n_forward(o)].tag

(* The lengths and the innermost sections are what the lemmas above ask    *)
(* for.                                                                    *)
LEMMA OrderFacts ==
  ASSUME NEW o, IsOrder(o)
  PROVE  /\ Len(keys_forward(o)) = n_forward(o) /\ n_forward(o) \in Nat \ {0}
         /\ Len(keys_backward(o)) = n_backward(o) /\ n_backward(o) \in Nat \ {0}
         /\ IsPathKeys(keys_forward(o)) /\ IsPathKeys(keys_backward(o))
         /\ IsBlob(filler(o))
         /\ filler(o).len = total_header_length + 8 + o.payload.len
         /\ o.payload.len \in Nat
         /\ \A i \in 0 .. n_backward(o) : IsBlob(forward_sections(keys_backward(o), filler(o))[i])
  <1> DEFINE S == {keys_forward(o)[i] : i \in 1 .. n_forward(o)}
             B == {keys_backward(o)[i] : i \in 1 .. n_backward(o)}
  <1>1. /\ n_forward(o) \in Nat \ {0} /\ n_backward(o) \in Nat \ {0}
        /\ n_forward(o) \in 1 .. MaxPathLength /\ n_backward(o) \in 1 .. MaxPathLength
    BY MaxPathLengthAssumption DEF IsOrder, n_forward, n_backward
  <1>2. keys_forward(o) \in [1 .. n_forward(o) -> S]
        /\ keys_backward(o) \in [1 .. n_backward(o) -> B]
    BY DEF keys_forward, keys_backward
  <1>3. n_forward(o) \in Nat /\ n_backward(o) \in Nat
    BY <1>1
  <1> HIDE DEF S, B
  <1>4. Len(keys_forward(o)) = n_forward(o) /\ Len(keys_backward(o)) = n_backward(o)
    BY <1>2, <1>3, FunctionIsSeq
  <1>5. IsPathKeys(keys_forward(o)) /\ IsPathKeys(keys_backward(o))
    BY <1>1, <1>4 DEF IsPathKeys
  <1>6. o.payload.len \in Nat
    BY DEF IsOrder, IsBlob
  <1>7. total_header_length + 8 + o.payload.len \in Nat
    BY <1>6, MaxPathLengthAssumption DEF total_header_length, single_header_length,
         SYMMETRIC_KEY_LENGTH, ADDRESS_LENGTH
  <1>8. IsBlob(filler(o)) /\ filler(o).len = total_header_length + 8 + o.payload.len
    BY <1>7, BytesIsBlob, Zenon DEF filler, prng
  <1>9. \A i \in 0 .. n_backward(o) : IsBlob(forward_sections(keys_backward(o), filler(o))[i])
    BY <1>3, <1>4, <1>8, ForwardSectionsAreBlobs
  <1> QED
    BY <1>1, <1>4, <1>5, <1>6, <1>8, <1>9

(* The layers of the reply path: headers of cells, and the filler as each  *)
(* hop makes it.                                                           *)
LEMMA BackwardLayers ==
  ASSUME NEW o, IsOrder(o), NEW h \in 1 .. n_backward(o)
  PROVE  /\ IsHeader(layers_backward(o)[h].headers, MaxPathLength)
         /\ Len(layers_backward(o)[h].headers) = MaxPathLength
         /\ IsBlob(layers_backward(o)[h].forward)
         /\ layers_backward(o)[h].forward.len = filler(o).len
         /\ layers_backward(o)[1].forward = filler(o)
  <1> DEFINE keys == keys_backward(o)
             n == n_backward(o)
             rng == [rng |-> o.rng, leg |-> "backward"]
             cells == last_cells(rng, keys)
             A == forward_sections(keys, filler(o))
             data == ciphers_backward(o)
             layer == onion_layers(keys, data, cells, A[n - 1])
  <1>1. Len(keys) = n /\ IsPathKeys(keys) /\ n \in Nat \ {0} /\ IsBlob(filler(o))
        /\ IsBlob(A[n - 1])
    BY OrderFacts
  <1>2. A[n - 1].len = filler(o).len /\ A[0] = filler(o)
    <2> DEFINE f == filler(o)
    <2>1. Len(keys) \in Nat /\ n - 1 \in 0 .. Len(keys) /\ 0 \in 0 .. Len(keys) /\ IsBlob(f)
      BY <1>1
    <2>2. \A i \in 0 .. Len(keys) : forward_sections(keys, f)[i].len = f.len
      <3> HIDE DEF keys, f
      <3> QED
        BY <2>1, ForwardSectionsAreBlobs
    <2>3. forward_sections(keys, f)[0] = f
      <3> HIDE DEF keys, f
      <3> QED
        BY <2>1, ForwardSectionsRecur
    <2> QED
      BY <2>1, <2>2, <2>3
  <1>3. layers_backward(o) = layer
    BY DEF layers_backward
  <1> HIDE DEF rng, data
  <1>4. AreLayers(keys, data, cells, A[n - 1], layer)
    BY <1>1, LastCellsAreHeader, LayersShape, Zenon
  <1>5. HoldsSections(layer, A, n)
    <2> DEFINE f == filler(o)
    <2>1. IsBlob(f) /\ IsPathKeys(keys) /\ Len(keys) = n
      BY <1>1
    <2> HIDE DEF f, keys
    <2>2. HoldsSections(onion_layers(keys, data, last_cells(rng, keys),
                                     forward_sections(keys, f)[Len(keys) - 1]),
                        forward_sections(keys, f), Len(keys))
      BY <2>1, FillerInPlace, Zenon
    <2> QED
      BY <2>1, <2>2, Zenon DEF f
  <1> HIDE DEF layer, A, cells, keys, n
  <1>6. IsLayer(keys[h], data[h], layer[h], A[n - 1].len)
    BY <1>1, <1>4 DEF AreLayers, n
  <1>7. layer[1].forward = filler(o)
    BY <1>1, <1>2, <1>5 DEF HoldsSections
  <1> QED
    BY <1>2, <1>3, <1>6, <1>7 DEF IsLayer

(* The message packs a whole header, so that it has the length of the      *)
(* filler.                                                                 *)
LEMMA MessageFacts ==
  ASSUME NEW o, IsOrder(o)
  PROVE  /\ IsBlob(message(o))
         /\ message(o).len = total_header_length + 8 + o.payload.len
         /\ IsPlain(message(o), "message")
         /\ message(o).base.replyHeader = layers_backward(o)[1].headers
         /\ message(o).base.payload = o.payload
  <1> DEFINE H == layers_backward(o)[1].headers
  <1>1. 1 \in 1 .. n_backward(o)
    BY OrderFacts
  <1>2. IsHeader(H, MaxPathLength) /\ Len(H) = MaxPathLength
    BY <1>1, BackwardLayers
  <1>3. o.payload.len \in Nat
    BY OrderFacts
  <1> HIDE DEF H
  <1> DEFINE m == PackMessage(H, o.payload)
  <1>4. /\ IsBlob(m)
        /\ m.len = total_header_length + 8 + o.payload.len
        /\ IsPlain(m, "message")
        /\ m.base.replyHeader = H
        /\ m.base.payload = o.payload
    BY <1>2, <1>3, MessageLength
  <1>5. message(o) = m
    BY DEF message, H
  <1> QED
    BY <1>4, <1>5 DEF H

(* The layers of the forward path. *)
LEMMA ForwardLayers ==
  ASSUME NEW o, IsOrder(o), NEW h \in 1 .. n_forward(o)
  PROVE  /\ IsHeader(layers_forward(o)[h].headers, MaxPathLength)
         /\ Len(layers_forward(o)[h].headers) = MaxPathLength
         /\ IsBlob(layers_forward(o)[h].forward)
         /\ layers_forward(o)[h].forward.len = message(o).len
         /\ layers_forward(o)[n_forward(o)].forward
              = symmetric_encrypt(derive_key(SymEnc, keys_forward(o)[n_forward(o)]),
                                  NONCE_FWD, message(o))
  <1> DEFINE keys == keys_forward(o)
             n == n_forward(o)
             rng == [rng |-> o.rng, leg |-> "forward"]
             cells == last_cells(rng, keys)
             f == symmetric_encrypt(derive_key(SymEnc, keys[n]), NONCE_FWD, message(o))
             data == ciphers_forward(o)
             layer == onion_layers(keys, data, cells, f)
  <1>1. Len(keys) = n /\ IsPathKeys(keys) /\ n \in Nat \ {0}
    BY OrderFacts
  <1>2. IsBlob(f) /\ f.len = message(o).len
    BY MessageFacts, CipherKeeps DEF symmetric_encrypt
  <1>3. layers_forward(o) = layer
    BY DEF layers_forward
  <1> HIDE DEF rng, data, f
  <1>4. AreLayers(keys, data, cells, f, layer)
    BY <1>1, <1>2, LastCellsAreHeader, LayersShape, Zenon
  <1> HIDE DEF layer, cells, keys, n
  <1>5. IsLayer(keys[h], data[h], layer[h], f.len) /\ layer[n].forward = f
    BY <1>1, <1>4 DEF AreLayers, n
  <1> QED
    BY <1>2, <1>3, <1>5 DEF IsLayer, f, keys, n

(* The sections of both directions are of one origin each. *)
LEMMA ForwardSectionsShape ==
  ASSUME NEW o, IsOrder(o)
  PROVE  /\ IsOriginal(random_vec(o), random_tag([rng |-> o.rng, leg |-> "forward"]))
         /\ random_vec(o).len = o.payload.len
         /\ \A i \in 0 .. n_forward(o) :
              /\ IsSection(sections_forward(o)[i], random_vec(o),
                           random_tag([rng |-> o.rng, leg |-> "forward"]))
              /\ sections_forward(o)[i].vec.len = o.payload.len
         /\ \A a \in awaited_tag(o) : a.kind # "mac"
  <1> DEFINE rng == [rng |-> o.rng, leg |-> "forward"]
             vec == random_vec(o)
             t == random_tag(rng)
             B == sections_forward(o)
             n == n_forward(o)
  <1>1. Len(keys_forward(o)) = n /\ n \in Nat \ {0} /\ o.payload.len \in Nat
    BY OrderFacts
  <1>2. vec.len = o.payload.len
    BY DEF random_vec, random_bytes, Empty, Bytes
  <1> HIDE DEF vec, rng
  <1>3. IsOriginal(vec, t)
    BY <1>1, <1>2, RandomIsOriginal
  <1>4. B = backward_sections(keys_forward(o), [vec |-> vec, tag |-> t])
    BY DEF sections_forward, random_section, random_pair, random_vec, vec, rng
  <1> HIDE DEF B, t, n
  <1>5. \A i \in 0 .. n : IsSection(B[i], vec, t)
    BY <1>1, <1>3, <1>4, SectionsAlongPath
  <1>6. \A i \in 0 .. n : B[i].vec.len = o.payload.len
    BY <1>2, <1>3, <1>5, SectionLength
  <1>7. \A a \in B[n].tag : a.kind # "mac"
    <2>1. IsSection(B[n], vec, random_tag(rng))
      BY <1>1, <1>5 DEF t
    <2> QED
      BY <2>1, NoMacInRandomSection
  <1> QED
    BY <1>2, <1>3, <1>5, <1>6, <1>7 DEF rng, vec, t, B, n, awaited_tag

(* The reply's sections. *)
LEMMA BackwardSectionsShape ==
  ASSUME NEW o, IsOrder(o), NEW reply, IsBlob(reply)
  PROVE  LET s == first_section(o, reply)
         IN  /\ s = [vec |-> s.vec, tag |-> s.tag]
             /\ IsOriginal(s.vec, s.tag)
             /\ \A i \in 0 .. n_backward(o) : sections_backward(o, reply)[i].vec.len = reply.len
  <1> DEFINE s == first_section(o, reply)
             key == keys_forward(o)[n_forward(o)]
             ad == awaited_tag(o)
             n == n_backward(o)
             B == sections_backward(o, reply)
  <1>1. s = ae_enc(key, ad, reply)
    BY DEF first_section, awaited_tag
  <1>2. \A a \in ad : a.kind # "mac"
    BY ForwardSectionsShape
  <1> HIDE DEF key, ad
  <1>3. s = [vec |-> s.vec, tag |-> s.tag] /\ IsOriginal(s.vec, s.tag) /\ s.vec.len = reply.len
    BY <1>1, <1>2, ReplyIsOriginal
  <1>4. B = backward_sections(keys_backward(o), s)
    BY DEF sections_backward
  <1>5. Len(keys_backward(o)) = n /\ n \in Nat \ {0}
    BY OrderFacts
  <1> HIDE DEF s, B, n
  <1> DEFINE v == s.vec
             t == s.tag
  <1>6. s = [vec |-> v, tag |-> t] /\ IsOriginal(v, t) /\ v.len = reply.len
    BY <1>3
  <1> HIDE DEF v, t
  <1>7. \A i \in 0 .. n : IsSection(B[i], v, t)
    BY <1>4, <1>5, <1>6, SectionsAlongPath
  <1>8. \A i \in 0 .. n : B[i].vec.len = reply.len
    BY <1>6, <1>7, SectionLength
  <1> QED
    BY <1>3, <1>8 DEF s, B, n

-----------------------------------------------------------------------------
(* Forming an onion. *)

(* What onionize returns where the path is not too long and its keys are   *)
(* known.                                                                  *)
LEMMA OnionizeBackward ==
  ASSUME NEW rng, NEW pki, NEW keys, IsPathKeys(keys), NEW hops,
         \A i \in 1 .. Len(keys) : hops[i] \in DOMAIN pki,
         NEW meta, NEW payload, payload.dir = "backward", NEW len
  PROVE  LET layer == onion_layers(keys, meta_ciphers(pki, keys, hops, meta),
                                   last_cells(rng, keys),
                                   forward_sections(keys, payload.data)[Len(keys) - 1])
             result == onionize(rng, pki, keys, hops, meta, payload, len)
         IN  /\ result.ok
             /\ result.onion_1.header = layer[1].headers
             /\ result.onion_n.header = layer[Len(keys)].headers
  <1> DEFINE n == Len(keys)
             fwd_n == forward_sections(keys, payload.data)[n - 1]
             layer == onion_layers(keys, meta_ciphers(pki, keys, hops, meta),
                                   last_cells(rng, keys), fwd_n)
             bwd == [i \in 0 .. n |-> [vec |-> Empty, tag |-> ZeroTag]]
             result == onionize(rng, pki, keys, hops, meta, payload, len)
  <1>1. ~ (n > MaxPathLength) /\ ~ \E i \in 1 .. n : hops[i] \notin DOMAIN pki
    BY MaxPathLengthAssumption DEF IsPathKeys
  <1>2. result = [ok |-> TRUE,
                  onion_1 |-> [header |-> layer[1].headers, forward |-> layer[1].forward,
                               backward |-> bwd[0]],
                  onion_n |-> [header |-> layer[n].headers, forward |-> layer[n].forward,
                               backward |-> bwd[n - 1]],
                  expected_tag |-> ZeroTag]
    BY <1>1, Zenon DEF onionize
  <1> HIDE DEF result, layer, bwd, n
  <1> QED
    BY <1>2 DEF result, layer, n

Onionized(layer, n, bwd) ==
  [ok |-> TRUE,
   onion_1 |-> [header |-> layer[1].headers, forward |-> layer[1].forward,
                backward |-> bwd[0]],
   onion_n |-> [header |-> layer[n].headers, forward |-> layer[n].forward,
                backward |-> bwd[n - 1]],
   expected_tag |-> bwd[n].tag]

(* The same for the onion of the forward path.                             *)
LEMMA OnionizeForward ==
  ASSUME NEW rng, NEW pki, NEW keys, IsPathKeys(keys), NEW hops,
         \A i \in 1 .. Len(keys) : hops[i] \in DOMAIN pki,
         NEW meta, NEW payload, payload.dir = "forward", NEW len
  PROVE  LET n == Len(keys)
             layer == onion_layers(keys, meta_ciphers(pki, keys, hops, meta),
                                   last_cells(rng, keys),
                                   symmetric_encrypt(derive_key(SymEnc, keys[n]),
                                                     NONCE_FWD, payload.data))
             bwd == backward_sections(keys, random_pair(rng, len))
         IN  onionize(rng, pki, keys, hops, meta, payload, len) = Onionized(layer, n, bwd)
  <1>1. ~ (Len(keys) > MaxPathLength)
        /\ ~ \E i \in 1 .. Len(keys) : hops[i] \notin DOMAIN pki
    BY MaxPathLengthAssumption DEF IsPathKeys
  <1>2. payload.dir # "backward"
    OBVIOUS
  <1> QED
    BY <1>1, <1>2, Zenon DEF onionize, Onionized, random_pair, random_bytes

(* form_onion succeeds for every order, and returns the onion for the      *)
(* first hop and what the sender has to know about the reply.              *)
THEOREM FormOnionIsOk ==
  ASSUME NEW o, IsOrder(o)
  PROVE  form_onion(o.rng, o.pki, o.hops_forward, o.hops_backward, o.payload)
           = [ok |-> TRUE, onion |-> ForthOnion(o, 1),
              expected |-> [identifier |-> identifier(o),
                            onion |-> ForthOnion(o, n_forward(o)),
                            tag |-> awaited_tag(o)]]
  <1> DEFINE n_f == Len(o.hops_forward)
             n_b == Len(o.hops_backward)
             master == random_key(o.rng)
             keys_f == keys_forward(o)
             keys_b == keys_backward(o)
             pay_b == [dir |-> "backward", data |-> filler(o)]
             back == onionize([rng |-> o.rng, leg |-> "backward"], o.pki, keys_b,
                              o.hops_backward, SenderMeta(n_f, n_b), pay_b, 0)
             pay_f == [dir |-> "forward",
                       data |-> PackMessage(back.onion_1.header, o.payload)]
             forth == onionize([rng |-> o.rng, leg |-> "forward"], o.pki, keys_f,
                               o.hops_forward, ReceiverMeta(o.hops_backward[1]), pay_f,
                               o.payload.len)
  <1>1. /\ n_forward(o) = n_f /\ n_backward(o) = n_b
        /\ Len(keys_f) = n_f /\ Len(keys_b) = n_b
        /\ IsPathKeys(keys_f) /\ IsPathKeys(keys_b)
    BY OrderFacts DEF n_forward, n_backward
  <1>2. /\ ~ (n_f > MaxPathLength \/ n_b > MaxPathLength)
        /\ ~ (n_f = 0 \/ n_b = 0)
    BY MaxPathLengthAssumption DEF IsOrder
  <1>3. /\ \A i \in 1 .. Len(keys_f) : o.hops_forward[i] \in DOMAIN o.pki
        /\ \A i \in 1 .. Len(keys_b) : o.hops_backward[i] \in DOMAIN o.pki
    BY <1>1 DEF IsOrder
  <1>4. /\ back.ok
        /\ back.onion_1.header = layers_backward(o)[1].headers
        /\ back.onion_n.header = layers_backward(o)[n_backward(o)].headers
    <2> DEFINE rng == [rng |-> o.rng, leg |-> "backward"]
               pki == o.pki
               hops == o.hops_backward
               meta == SenderMeta(n_f, n_b)
    <2>1. pay_b.dir = "backward" /\ pay_b.data = filler(o)
      OBVIOUS
    <2>2. /\ IsPathKeys(keys_b)
          /\ \A i \in 1 .. Len(keys_b) : hops[i] \in DOMAIN pki
      BY <1>1, <1>3
    <2>3. layers_backward(o)
            = onion_layers(keys_b, meta_ciphers(pki, keys_b, hops, meta),
                           last_cells(rng, keys_b),
                           forward_sections(keys_b, pay_b.data)[Len(keys_b) - 1])
      BY <1>1 DEF layers_backward, ciphers_backward
    <2> HIDE DEF rng, pki, hops, meta, keys_b, pay_b
    <2>4. LET layer == onion_layers(keys_b, meta_ciphers(pki, keys_b, hops, meta),
                           last_cells(rng, keys_b),
                           forward_sections(keys_b, pay_b.data)[Len(keys_b) - 1])
              result == onionize(rng, pki, keys_b, hops, meta, pay_b, 0)
          IN  /\ result.ok
              /\ result.onion_1.header = layer[1].headers
              /\ result.onion_n.header = layer[Len(keys_b)].headers
      BY <2>1, <2>2, OnionizeBackward
    <2>5. back = onionize(rng, pki, keys_b, hops, meta, pay_b, 0)
      BY DEF rng, pki, hops, meta
    <2> HIDE DEF back
    <2> QED
      BY <1>1, <2>3, <2>4, <2>5
  <1>5. PackMessage(back.onion_1.header, o.payload) = message(o)
    BY <1>4 DEF message
  <1> HIDE DEF back
  <1>6. forth = [ok |-> TRUE, onion_1 |-> ForthOnion(o, 1),
                 onion_n |-> ForthOnion(o, n_forward(o)),
                 expected_tag |-> awaited_tag(o)]
    <2> DEFINE rng == [rng |-> o.rng, leg |-> "forward"]
               pki == o.pki
               hops == o.hops_forward
               meta == ReceiverMeta(o.hops_backward[1])
               len == o.payload.len
               n == Len(keys_f)
               layer == onion_layers(keys_f, meta_ciphers(pki, keys_f, hops, meta),
                          last_cells(rng, keys_f),
                          symmetric_encrypt(derive_key(SymEnc, keys_f[n]),
                                            NONCE_FWD, pay_f.data))
               bwd == backward_sections(keys_f, random_pair(rng, len))
    <2>1. pay_f.dir = "forward" /\ pay_f.data = message(o)
      BY <1>5
    <2>2. /\ IsPathKeys(keys_f)
          /\ \A i \in 1 .. Len(keys_f) : hops[i] \in DOMAIN pki
      BY <1>1, <1>3
    <2> HIDE DEF pay_f
    <2>3. layers_forward(o) = layer
      BY <1>1, <2>1 DEF layers_forward, ciphers_forward
    <2>4. sections_forward(o) = bwd
      BY DEF sections_forward, random_section
    <2> HIDE DEF rng, pki, hops, meta, keys_f, len
    <2>5. onionize(rng, pki, keys_f, hops, meta, pay_f, len) = Onionized(layer, n, bwd)
      BY <2>1, <2>2, OnionizeForward
    <2>6. forth = onionize(rng, pki, keys_f, hops, meta, pay_f, len)
      BY DEF rng, pki, hops, meta, len
    <2> HIDE DEF forth, layer, bwd
    <2>7. 1 - 1 = 0 /\ n = n_forward(o)
      BY <1>1
    <2> QED
      BY <2>3, <2>4, <2>5, <2>6, <2>7 DEF Onionized, ForthOnion, awaited_tag
  <1> DEFINE kf == [i \in 1 .. n_f |-> forward_key(master, i - 1)]
             kb == [i \in 1 .. n_b |->
                      IF i = n_b THEN master ELSE backward_key(master, i - 1)]
             fill == prng(derive_key(PrngRole, kf[n_f]),
                          total_header_length + 8 + o.payload.len)
  <1>7. keys_f = kf /\ keys_b = kb
    BY <1>1 DEF keys_forward, keys_backward
  <1>8. filler(o) = fill
    BY <1>1, <1>7 DEF filler
  <1> HIDE DEF keys_f, keys_b, forth
  <1>9. form_onion(o.rng, o.pki, o.hops_forward, o.hops_backward, o.payload)
          = [ok |-> TRUE, onion |-> forth.onion_1,
             expected |-> [identifier |-> back.onion_n.header,
                           onion |-> forth.onion_n, tag |-> forth.expected_tag]]
    <2>1. forth.ok
      BY <1>6
    <2> QED
      BY <1>2, <1>4, <1>7, <1>8, <2>1, ZenonT(30) DEF form_onion, forth, back, fill, kf, kb, master
  <1> QED
    BY <1>4, <1>6, <1>9 DEF identifier

-----------------------------------------------------------------------------
(* An onion at its hops. *)

(* What proc_onion makes of what unwrap returns. *)
LEMMA ProcRoles ==
  ASSUME NEW w, NEW private, NEW expected_tag, NEW onion, NEW peeled,
         unwrap(w, private, onion) = peeled
  PROVE  /\ ~ peeled.ok => proc_onion(w, private, expected_tag, onion) = peeled
         /\ peeled.ok /\ peeled.meta.role = "Hop" =>
              proc_onion(w, private, expected_tag, onion)
                = [ok |-> TRUE, role |-> "Hop", next_address |-> peeled.meta.next,
                   next_onion |-> peeled.onion]
         /\ peeled.ok /\ peeled.meta.role = "Receiver"
            /\ IsPlain(peeled.onion.forward, "message") =>
              proc_onion(w, private, expected_tag, onion)
                = [ok |-> TRUE, role |-> "Receiver",
                   payload |-> peeled.onion.forward.base.payload]
         /\ peeled.ok /\ peeled.meta.role = "Sender" =>
              proc_onion(w, private, expected_tag, onion)
                = accept_reply(peeled.key, peeled.meta.next, onion, expected_tag)
  BY DEF proc_onion

(* The block of a layer opens for the hop that it is meant for, which      *)
(* learns its key and its part.                                            *)
PartOf(hops, h, meta) == IF h = Len(hops) THEN meta ELSE HopMeta(hops[h + 1])

(* For any layers of onionize. *)
LEMMA LayerOpens ==
  ASSUME NEW rng, NEW pki, NEW keys, IsPathKeys(keys), NEW hops, Len(hops) = Len(keys),
         NEW meta, NEW fwd_n, IsBlob(fwd_n), NEW h \in 1 .. Len(keys), NEW w, NEW backward,
         NEW layer,
         layer = onion_layers(keys, meta_ciphers(pki, keys, hops, meta),
                              last_cells(rng, keys), fwd_n)
  PROVE  unwrap(w, pki[hops[h]],
                [header |-> layer[h].headers, forward |-> layer[h].forward,
                 backward |-> backward])
         = Unwrapped(w, keys[h], PartOf(hops, h, meta), layer[h].headers,
                     layer[h].forward, backward)
  <1> DEFINE p == pki[hops[h]]
             k == keys[h]
             m == PartOf(hops, h, meta)
             H == layer[h].headers
             F == layer[h].forward
  <1>1. IsSealed(k, asymmetric_encrypt(p, [key |-> k, meta |-> m]), H, F)
    BY LayerIsSealedForHop DEF PartOf
  <1> HIDE DEF p, k, m, H, F
  <1>2. unwrap(w, p, [header |-> H, forward |-> F, backward |-> backward])
          = Unwrapped(w, k, m, H, F, backward)
    BY <1>1, UnwrapSealed
  <1> QED
    BY <1>2 DEF p, k, m, H, F

(* On the forward path. *)
LEMMA ForthOpens ==
  ASSUME NEW o, IsOrder(o), NEW h \in 1 .. n_forward(o), NEW w
  PROVE  unwrap(w, o.pki[o.hops_forward[h]], ForthOnion(o, h))
         = Unwrapped(w, keys_forward(o)[h],
                     PartOf(o.hops_forward, h, ReceiverMeta(o.hops_backward[1])),
                     layers_forward(o)[h].headers, layers_forward(o)[h].forward,
                     sections_forward(o)[h - 1])
  <1> DEFINE rng == [rng |-> o.rng, leg |-> "forward"]
             pki == o.pki
             keys == keys_forward(o)
             hops == o.hops_forward
             meta == ReceiverMeta(o.hops_backward[1])
             fwd_n == symmetric_encrypt(derive_key(SymEnc, keys[n_forward(o)]), NONCE_FWD,
                                        message(o))
             layer == layers_forward(o)
             backward == sections_forward(o)[h - 1]
  <1>1. Len(hops) = Len(keys) /\ IsPathKeys(keys) /\ h \in 1 .. Len(keys)
    BY OrderFacts DEF n_forward
  <1>2. IsBlob(fwd_n)
    BY MessageFacts, CipherKeeps DEF symmetric_encrypt
  <1> HIDE DEF fwd_n
  <1>3. layer = onion_layers(keys, meta_ciphers(pki, keys, hops, meta),
                             last_cells(rng, keys), fwd_n)
    BY DEF layers_forward, ciphers_forward, fwd_n
  <1> HIDE DEF rng, pki, keys, hops, meta, layer, backward
  <1>4. unwrap(w, pki[hops[h]],
               [header |-> layer[h].headers, forward |-> layer[h].forward,
                backward |-> backward])
         = Unwrapped(w, keys[h], PartOf(hops, h, meta), layer[h].headers,
                     layer[h].forward, backward)
    BY <1>1, <1>2, <1>3, LayerOpens
  <1> QED
    BY <1>4 DEF pki, keys, hops, meta, layer, backward, ForthOnion

(* On the reply path. *)
LEMMA BackOpens ==
  ASSUME NEW o, IsOrder(o), NEW reply, NEW h \in 1 .. n_backward(o), NEW w
  PROVE  unwrap(w, o.pki[o.hops_backward[h]], BackOnion(o, reply, h))
         = Unwrapped(w, keys_backward(o)[h],
                     PartOf(o.hops_backward, h, SenderMeta(n_forward(o), n_backward(o))),
                     layers_backward(o)[h].headers, layers_backward(o)[h].forward,
                     sections_backward(o, reply)[h - 1])
  <1> DEFINE rng == [rng |-> o.rng, leg |-> "backward"]
             pki == o.pki
             keys == keys_backward(o)
             hops == o.hops_backward
             meta == SenderMeta(n_forward(o), n_backward(o))
             fwd_n == forward_sections(keys, filler(o))[n_backward(o) - 1]
             layer == layers_backward(o)
             backward == sections_backward(o, reply)[h - 1]
  <1>1. Len(hops) = Len(keys) /\ IsPathKeys(keys) /\ h \in 1 .. Len(keys)
    BY OrderFacts DEF n_backward
  <1>2. IsBlob(fwd_n)
    BY OrderFacts
  <1> HIDE DEF fwd_n
  <1>3. layer = onion_layers(keys, meta_ciphers(pki, keys, hops, meta),
                             last_cells(rng, keys), fwd_n)
    BY DEF layers_backward, ciphers_backward, fwd_n
  <1> HIDE DEF rng, pki, keys, hops, meta, layer, backward
  <1>4. unwrap(w, pki[hops[h]],
               [header |-> layer[h].headers, forward |-> layer[h].forward,
                backward |-> backward])
         = Unwrapped(w, keys[h], PartOf(hops, h, meta), layer[h].headers,
                     layer[h].forward, backward)
    BY <1>1, <1>2, <1>3, LayerOpens
  <1> QED
    BY <1>4 DEF pki, keys, hops, meta, layer, backward, BackOnion

(* What a hop leaves is what the sender reckoned that the next hop would   *)
(* receive.                                                                *)
LeavesNext(key, headers, forward, backward, next) ==
  /\ shifted(MaxPathLength, derive_key(SymEnc, key), headers) = next.header
  /\ symmetric_decrypt(derive_key(SymEnc, key), NONCE_FWD, forward) = next.forward
  /\ ae_unwrap(key, backward) = next.backward

(* For any layers of onionize and any sections. *)
LEMMA LayerLeavesNext ==
  ASSUME NEW rng, NEW keys, IsPathKeys(keys), NEW data, NEW fwd_n, IsBlob(fwd_n),
         NEW h \in 1 .. Len(keys) - 1, NEW layer,
         layer = onion_layers(keys, data, last_cells(rng, keys), fwd_n),
         NEW bwd_1, NEW bwd, bwd = backward_sections(keys, bwd_1)
  PROVE  LeavesNext(keys[h], layer[h].headers, layer[h].forward, bwd[h - 1],
                    [header |-> layer[h + 1].headers, forward |-> layer[h + 1].forward,
                     backward |-> bwd[(h + 1) - 1]])
  <1> DEFINE n == Len(keys)
             cells == last_cells(rng, keys)
             ks == derive_key(SymEnc, keys[h])
  <1>1. n \in Nat \ {0} /\ h \in 1 .. n /\ h + 1 \in 1 .. n /\ h \in 0 .. n /\ h # 0
        /\ (h + 1) - 1 = h
    BY MaxPathLengthAssumption DEF IsPathKeys
  <1>2. shifted(MaxPathLength, ks, layer[h].headers) = layer[h + 1].headers
    BY ShiftedIsNext
  <1>3. symmetric_decrypt(ks, NONCE_FWD, layer[h].forward) = layer[h + 1].forward
    <2>1. AreLayers(keys, data, cells, fwd_n, onion_layers(keys, data, cells, fwd_n))
      BY LastCellsAreHeader, LayersShape, Zenon
    <2>2. AreLayers(keys, data, cells, fwd_n, layer)
      BY <2>1, Zenon
    <2>3. IsLayer(keys[h + 1], data[h + 1], layer[h + 1], fwd_n.len)
          /\ IsWrapped(keys[h], layer[h], layer[h + 1])
      BY <1>1, <2>2, Zenon DEF AreLayers
    <2>4. IsBlob(layer[h + 1].forward)
      BY <2>3 DEF IsLayer
    <2> QED
      BY <2>3, <2>4, DecryptEncrypt DEF IsWrapped
  <1>4. ae_unwrap(keys[h], bwd[h - 1]) = bwd[h]
    BY <1>1, BackwardSectionsRecur
  <1> QED
    BY <1>1, <1>2, <1>3, <1>4 DEF LeavesNext

(* On the forward path. *)
LEMMA ForthLeavesNext ==
  ASSUME NEW o, IsOrder(o), NEW h \in 1 .. n_forward(o) - 1
  PROVE  LeavesNext(keys_forward(o)[h], layers_forward(o)[h].headers,
                    layers_forward(o)[h].forward, sections_forward(o)[h - 1],
                    ForthOnion(o, h + 1))
  <1> DEFINE rng == [rng |-> o.rng, leg |-> "forward"]
             keys == keys_forward(o)
             data == ciphers_forward(o)
             fwd_n == symmetric_encrypt(derive_key(SymEnc, keys[n_forward(o)]), NONCE_FWD,
                                        message(o))
             layer == layers_forward(o)
             bwd_1 == random_section(o)
             bwd == sections_forward(o)
  <1>1. IsPathKeys(keys) /\ h \in 1 .. Len(keys) - 1
    BY OrderFacts
  <1>2. IsBlob(fwd_n)
    BY MessageFacts, CipherKeeps DEF symmetric_encrypt
  <1> HIDE DEF fwd_n
  <1>3. layer = onion_layers(keys, data, last_cells(rng, keys), fwd_n)
    BY DEF layers_forward, fwd_n
  <1>4. bwd = backward_sections(keys, bwd_1)
    BY DEF sections_forward
  <1> HIDE DEF rng, keys, data, layer, bwd_1, bwd
  <1>5. LeavesNext(keys[h], layer[h].headers, layer[h].forward, bwd[h - 1],
                    [header |-> layer[h + 1].headers, forward |-> layer[h + 1].forward,
                     backward |-> bwd[(h + 1) - 1]])
    BY <1>1, <1>2, <1>3, <1>4, LayerLeavesNext
  <1> QED
    BY <1>5 DEF ForthOnion, keys, layer, bwd

(* On the reply path. *)
LEMMA BackLeavesNext ==
  ASSUME NEW o, IsOrder(o), NEW reply, NEW h \in 1 .. n_backward(o) - 1
  PROVE  LeavesNext(keys_backward(o)[h], layers_backward(o)[h].headers,
                    layers_backward(o)[h].forward, sections_backward(o, reply)[h - 1],
                    BackOnion(o, reply, h + 1))
  <1> DEFINE rng == [rng |-> o.rng, leg |-> "backward"]
             keys == keys_backward(o)
             data == ciphers_backward(o)
             fwd_n == forward_sections(keys, filler(o))[n_backward(o) - 1]
             layer == layers_backward(o)
             bwd_1 == first_section(o, reply)
             bwd == sections_backward(o, reply)
  <1>1. IsPathKeys(keys) /\ h \in 1 .. Len(keys) - 1
    BY OrderFacts
  <1>2. IsBlob(fwd_n)
    BY OrderFacts
  <1> HIDE DEF fwd_n
  <1>3. layer = onion_layers(keys, data, last_cells(rng, keys), fwd_n)
    BY DEF layers_backward, fwd_n
  <1>4. bwd = backward_sections(keys, bwd_1)
    BY DEF sections_backward
  <1> HIDE DEF rng, keys, data, layer, bwd_1, bwd
  <1>5. LeavesNext(keys[h], layer[h].headers, layer[h].forward, bwd[h - 1],
                    [header |-> layer[h + 1].headers, forward |-> layer[h + 1].forward,
                     backward |-> bwd[(h + 1) - 1]])
    BY <1>1, <1>2, <1>3, <1>4, LayerLeavesNext
  <1> QED
    BY <1>5 DEF BackOnion, keys, layer, bwd

-----------------------------------------------------------------------------
(* The journey of an onion, hop by hop. *)

(* What hop h passes on if its width is w: the next onion, but with the    *)
(* header as that hop shifts it.                                           *)
ForthShifted(o, h, w) ==
  [header   |-> shifted(w, derive_key(SymEnc, keys_forward(o)[h]),
                        layers_forward(o)[h].headers),
   forward  |-> layers_forward(o)[h + 1].forward,
   backward |-> sections_forward(o)[(h + 1) - 1]]

BackShifted(o, reply, h, w) ==
  [header   |-> shifted(w, derive_key(SymEnc, keys_backward(o)[h]),
                        layers_backward(o)[h].headers),
   forward  |-> layers_backward(o)[h + 1].forward,
   backward |-> sections_backward(o, reply)[(h + 1) - 1]]

(* What unwrap returns to a node that is to pass the onion on, and what    *)
(* proc_onion then returns.                                                *)
Opened(key, address, passed) ==
  [ok |-> TRUE, key |-> key, meta |-> HopMeta(address), onion |-> passed]

PassedOn(address, passed) ==
  [ok |-> TRUE, role |-> "Hop", next_address |-> address, next_onion |-> passed]

(* A node that accepts an onion and is to pass it on does so.              *)
LEMMA PassesOn ==
  ASSUME NEW w, NEW private, NEW expected_tag, NEW onion, NEW key, NEW address, NEW passed,
         unwrap(w, private, onion) = Opened(key, address, passed)
  PROVE  proc_onion(w, private, expected_tag, onion) = PassedOn(address, passed)
  <1> DEFINE peeled == Opened(key, address, passed)
  <1>1. /\ peeled.ok /\ peeled.onion = passed
        /\ peeled.meta.role = "Hop" /\ peeled.meta.next = address
    BY DEF HopMeta, Opened
  <1> HIDE DEF peeled
  <1>2. unwrap(w, private, onion) = peeled
    BY DEF peeled
  <1>3. proc_onion(w, private, expected_tag, onion)
          = [ok |-> TRUE, role |-> "Hop", next_address |-> peeled.meta.next,
             next_onion |-> peeled.onion]
    BY <1>1, <1>2, ProcRoles
  <1> QED
    BY <1>1, <1>3 DEF PassedOn

(* A node of a width up to the sender's passes the onion on to the next    *)
(* address of the forward path.                                            *)
LEMMA ForthPassesOn ==
  ASSUME NEW o, IsOrder(o), NEW h \in 1 .. n_forward(o) - 1, NEW w \in 1 .. MaxPathLength,
         NEW expected_tag
  PROVE  proc_onion(w, o.pki[o.hops_forward[h]], expected_tag, ForthOnion(o, h))
           = [ok |-> TRUE, role |-> "Hop", next_address |-> o.hops_forward[h + 1],
              next_onion |-> ForthShifted(o, h, w)]
  <1> DEFINE private == o.pki[o.hops_forward[h]]
             onion == ForthOnion(o, h)
             key == keys_forward(o)[h]
             hops == o.hops_forward
             meta == ReceiverMeta(o.hops_backward[1])
             headers == layers_forward(o)[h].headers
             forward == layers_forward(o)[h].forward
             backward == sections_forward(o)[h - 1]
             next == ForthOnion(o, h + 1)
  <1>1. n_forward(o) \in Nat \ {0} /\ h \in 1 .. n_forward(o) /\ h # Len(hops)
    BY OrderFacts DEF n_forward
  <1>2. Len(headers) = MaxPathLength
    BY <1>1, ForwardLayers
  <1>3. ~ (w > Len(headers))
    BY <1>2, MaxPathLengthAssumption
  <1>4. unwrap(w, private, onion)
          = Unwrapped(w, key, PartOf(hops, h, meta), headers, forward, backward)
    BY <1>1, ForthOpens
  <1>5. LeavesNext(key, headers, forward, backward, next)
    BY ForthLeavesNext
  <1>6. /\ next.forward = layers_forward(o)[h + 1].forward
        /\ next.backward = sections_forward(o)[(h + 1) - 1]
    BY DEF ForthOnion
  <1> DEFINE passed == [header   |-> shifted(w, derive_key(SymEnc, key), headers),
                        forward  |-> next.forward, backward |-> next.backward]
  <1>7. passed = ForthShifted(o, h, w)
    BY <1>6 DEF ForthShifted
  <1> HIDE DEF private, onion, key, hops, meta, headers, forward, backward, next
  <1>8. unwrap(w, private, onion) = Opened(key, hops[h + 1], passed)
    BY <1>1, <1>3, <1>4, <1>5, Zenon DEF Unwrapped, LeavesNext, PartOf, Opened
  <1> HIDE DEF passed
  <1>9. proc_onion(w, private, expected_tag, onion) = PassedOn(hops[h + 1], passed)
    BY <1>8, PassesOn
  <1> QED
    BY <1>7, <1>9 DEF private, onion, hops, PassedOn

(* The same on the reply path.                                             *)
LEMMA BackPassesOn ==
  ASSUME NEW o, IsOrder(o), NEW reply, NEW h \in 1 .. n_backward(o) - 1,
         NEW w \in 1 .. MaxPathLength, NEW expected_tag
  PROVE  proc_onion(w, o.pki[o.hops_backward[h]], expected_tag, BackOnion(o, reply, h))
           = [ok |-> TRUE, role |-> "Hop", next_address |-> o.hops_backward[h + 1],
              next_onion |-> BackShifted(o, reply, h, w)]
  <1> DEFINE private == o.pki[o.hops_backward[h]]
             onion == BackOnion(o, reply, h)
             key == keys_backward(o)[h]
             hops == o.hops_backward
             meta == SenderMeta(n_forward(o), n_backward(o))
             headers == layers_backward(o)[h].headers
             forward == layers_backward(o)[h].forward
             backward == sections_backward(o, reply)[h - 1]
             next == BackOnion(o, reply, h + 1)
  <1>1. n_backward(o) \in Nat \ {0} /\ h \in 1 .. n_backward(o) /\ h # Len(hops)
    BY OrderFacts DEF n_backward
  <1>2. Len(headers) = MaxPathLength
    BY <1>1, BackwardLayers
  <1>3. ~ (w > Len(headers))
    BY <1>2, MaxPathLengthAssumption
  <1>4. unwrap(w, private, onion)
          = Unwrapped(w, key, PartOf(hops, h, meta), headers, forward, backward)
    BY <1>1, BackOpens
  <1>5. LeavesNext(key, headers, forward, backward, next)
    BY BackLeavesNext
  <1>6. /\ next.forward = layers_backward(o)[h + 1].forward
        /\ next.backward = sections_backward(o, reply)[(h + 1) - 1]
    BY DEF BackOnion
  <1> DEFINE passed == [header   |-> shifted(w, derive_key(SymEnc, key), headers),
                        forward  |-> next.forward, backward |-> next.backward]
  <1>7. passed = BackShifted(o, reply, h, w)
    BY <1>6 DEF BackShifted
  <1> HIDE DEF private, onion, key, hops, meta, headers, forward, backward, next
  <1>8. unwrap(w, private, onion) = Opened(key, hops[h + 1], passed)
    BY <1>1, <1>3, <1>4, <1>5, Zenon DEF Unwrapped, LeavesNext, PartOf, Opened
  <1> HIDE DEF passed
  <1>9. proc_onion(w, private, expected_tag, onion) = PassedOn(hops[h + 1], passed)
    BY <1>8, PassesOn
  <1> QED
    BY <1>7, <1>9 DEF private, onion, hops, PassedOn

(* With the sender's width, what is passed on is the onion that the sender *)
(* reckoned with.                                                          *)
LEMMA FullWidthIsNext ==
  ASSUME NEW o, IsOrder(o)
  PROVE  /\ \A h \in 1 .. n_forward(o) - 1 :
              ForthShifted(o, h, MaxPathLength) = ForthOnion(o, h + 1)
         /\ \A h \in 1 .. n_backward(o) - 1 : \A reply :
              BackShifted(o, reply, h, MaxPathLength) = BackOnion(o, reply, h + 1)
  <1>1. ASSUME NEW h \in 1 .. n_forward(o) - 1
        PROVE  ForthShifted(o, h, MaxPathLength) = ForthOnion(o, h + 1)
    <2>1. shifted(MaxPathLength, derive_key(SymEnc, keys_forward(o)[h]),
                  layers_forward(o)[h].headers) = ForthOnion(o, h + 1).header
      BY ForthLeavesNext DEF LeavesNext
    <2>2. ForthOnion(o, h + 1).header = layers_forward(o)[h + 1].headers
      BY DEF ForthOnion
    <2> QED
      BY <2>1, <2>2, Zenon DEF ForthShifted, ForthOnion
  <1>2. ASSUME NEW h \in 1 .. n_backward(o) - 1, NEW reply
        PROVE  BackShifted(o, reply, h, MaxPathLength) = BackOnion(o, reply, h + 1)
    <2>1. shifted(MaxPathLength, derive_key(SymEnc, keys_backward(o)[h]),
                  layers_backward(o)[h].headers) = BackOnion(o, reply, h + 1).header
      BY BackLeavesNext DEF LeavesNext
    <2>2. BackOnion(o, reply, h + 1).header = layers_backward(o)[h + 1].headers
      BY DEF BackOnion
    <2> QED
      BY <2>1, <2>2, Zenon DEF BackShifted, BackOnion
  <1> QED
    BY <1>1, <1>2

(* Every hop of the forward path but the last passes the onion on to the   *)
(* next, as the sender reckoned that it would be.                          *)
THEOREM ForthHop ==
  ASSUME NEW o, IsOrder(o), NEW h \in 1 .. n_forward(o) - 1, NEW expected_tag
  PROVE  proc_onion(MaxPathLength, o.pki[o.hops_forward[h]], expected_tag,
                    ForthOnion(o, h))
           = [ok |-> TRUE, role |-> "Hop", next_address |-> o.hops_forward[h + 1],
              next_onion |-> ForthOnion(o, h + 1)]
  <1>1. MaxPathLength \in 1 .. MaxPathLength
    BY MaxPathLengthAssumption
  <1>2. ForthShifted(o, h, MaxPathLength) = ForthOnion(o, h + 1)
    BY FullWidthIsNext
  <1> QED
    BY <1>1, <1>2, ForthPassesOn

(* So does every hop of the reply path but the last, whatever the reply.   *)
THEOREM BackHop ==
  ASSUME NEW o, IsOrder(o), NEW reply, NEW h \in 1 .. n_backward(o) - 1, NEW expected_tag
  PROVE  proc_onion(MaxPathLength, o.pki[o.hops_backward[h]], expected_tag,
                    BackOnion(o, reply, h))
           = [ok |-> TRUE, role |-> "Hop", next_address |-> o.hops_backward[h + 1],
              next_onion |-> BackOnion(o, reply, h + 1)]
  <1>1. MaxPathLength \in 1 .. MaxPathLength
    BY MaxPathLengthAssumption
  <1>2. BackShifted(o, reply, h, MaxPathLength) = BackOnion(o, reply, h + 1)
    BY FullWidthIsNext
  <1> QED
    BY <1>1, <1>2, BackPassesOn

(* The receiver finds the payload that was sent.  Its answer goes to the   *)
(* first address of the reply path, with the header that the sender built  *)
(* for it, and looks to that hop like any onion on its way.  A receiver    *)
(* may expect fewer cells than there are.                                  *)
THEOREM ReceiverAnswers ==
  ASSUME NEW o, IsOrder(o), NEW w \in 1 .. MaxPathLength, NEW expected_tag, NEW reply
  PROVE  LET private == o.pki[o.hops_forward[n_forward(o)]]
             onion   == ForthOnion(o, n_forward(o))
         IN  /\ proc_onion(w, private, expected_tag, onion)
                  = [ok |-> TRUE, role |-> "Receiver", payload |-> o.payload]
             /\ reply_onion(w, private, onion, reply)
                  = [ok |-> TRUE, next |-> o.hops_backward[1],
                     onion |-> BackOnion(o, reply, 1)]
  <1> DEFINE n == n_forward(o)
             private == o.pki[o.hops_forward[n]]
             onion == ForthOnion(o, n)
             key == keys_forward(o)[n]
             hops == o.hops_forward
             meta == ReceiverMeta(o.hops_backward[1])
             headers == layers_forward(o)[n].headers
             forward == layers_forward(o)[n].forward
             backward == sections_forward(o)[n - 1]
             passed == [header |-> shifted(w, derive_key(SymEnc, key), headers),
                        forward |-> message(o), backward |-> ae_unwrap(key, backward)]
             peeled == [ok |-> TRUE, key |-> key, meta |-> meta, onion |-> passed]
  <1>1. n \in Nat \ {0} /\ n \in 1 .. n /\ n = Len(hops) /\ Len(keys_forward(o)) = n
    BY OrderFacts DEF n_forward
  <1>2. Len(headers) = MaxPathLength /\ forward.len = message(o).len
    BY <1>1, ForwardLayers
  <1>3. ~ (w > Len(headers))
    BY <1>2, MaxPathLengthAssumption
  <1>4. unwrap(w, private, onion)
          = Unwrapped(w, key, PartOf(hops, n, meta), headers, forward, backward)
    BY <1>1, ForthOpens
  <1>5. symmetric_decrypt(derive_key(SymEnc, key), NONCE_FWD, forward) = message(o)
    BY <1>1, ForwardLayers, MessageFacts, DecryptEncrypt
  <1>6. unwrap(w, private, onion) = peeled
    <2> HIDE DEF private, onion, key, hops, meta, headers, forward, backward
    <2> QED
      BY <1>1, <1>3, <1>4, <1>5, Zenon DEF Unwrapped, PartOf
  <1>7. /\ peeled.ok /\ peeled.key = key /\ peeled.onion = passed
        /\ peeled.meta.role = "Receiver" /\ peeled.meta.next = o.hops_backward[1]
    BY DEF ReceiverMeta
  <1>8. passed.forward = message(o) /\ passed.backward = ae_unwrap(key, backward)
    OBVIOUS
  <1>9. /\ IsPlain(message(o), "message")
        /\ message(o).base.replyHeader = layers_backward(o)[1].headers
        /\ message(o).base.payload = o.payload
    BY MessageFacts
  <1>10. passed.backward.tag = awaited_tag(o)
    <2>1. sections_forward(o)[n] = ae_unwrap(key, backward)
      BY <1>1, BackwardSectionsRecur DEF sections_forward
    <2> QED
      BY <1>8, <2>1 DEF awaited_tag
  <1>11. onion.forward = forward
    BY DEF ForthOnion
  <1> HIDE DEF peeled, passed, private, onion, key, forward, backward
  <1>12. proc_onion(w, private, expected_tag, onion)
           = [ok |-> TRUE, role |-> "Receiver", payload |-> o.payload]
    <2>1. IsPlain(peeled.onion.forward, "message")
      BY <1>7, <1>8, <1>9
    <2>2. proc_onion(w, private, expected_tag, onion)
            = [ok |-> TRUE, role |-> "Receiver", payload |-> peeled.onion.forward.base.payload]
      BY <1>6, <1>7, <2>1, ProcRoles
    <2> QED
      BY <1>7, <1>8, <1>9, <2>2
  <1>13. prng(derive_key(PrngRole, key), onion.forward.len) = filler(o)
    BY <1>2, <1>11, MessageFacts DEF filler, key
  <1>14. ae_enc(key, passed.backward.tag, reply) = first_section(o, reply)
    BY <1>10 DEF first_section, key, awaited_tag
  <1>15. reply_onion(w, private, onion, reply)
           = [ok |-> TRUE, next |-> o.hops_backward[1],
              onion |-> [header |-> layers_backward(o)[1].headers, forward |-> filler(o),
                         backward |-> first_section(o, reply)]]
    <2>1. peeled.meta.role = "Receiver"
      BY <1>7
    <2> QED
      BY <1>6, <1>7, <1>8, <1>9, <1>13, <1>14, <2>1, Zenon DEF reply_onion
  <1>16. BackOnion(o, reply, 1)
           = [header |-> layers_backward(o)[1].headers, forward |-> filler(o),
              backward |-> first_section(o, reply)]
    <2>1. n_backward(o) \in Nat \ {0} /\ 1 \in 1 .. n_backward(o) /\ 1 - 1 = 0
          /\ Len(keys_backward(o)) = n_backward(o)
      BY OrderFacts
    <2>2. layers_backward(o)[1].forward = filler(o)
      BY <2>1, BackwardLayers
    <2>3. sections_backward(o, reply)[0] = first_section(o, reply)
      BY <2>1, BackwardSectionsRecur DEF sections_backward
    <2> QED
      BY <2>1, <2>2, <2>3 DEF BackOnion
  <1> QED
    BY <1>12, <1>15, <1>16 DEF private, onion, n

(* The sender, at the end of the reply path, puts back the layers that the *)
(* hops before it have taken off, finds the tag that it has kept, and      *)
(* reads what the receiver answered.                                       *)
THEOREM SenderReadsReply ==
  ASSUME NEW o, IsOrder(o), NEW reply, IsBlob(reply), NEW expected_tag,
         identifier(o) \in DOMAIN expected_tag,
         expected_tag[identifier(o)] = awaited_tag(o)
  PROVE  proc_onion(MaxPathLength, o.pki[o.hops_backward[n_backward(o)]], expected_tag,
                    BackOnion(o, reply, n_backward(o)))
           = [ok |-> TRUE, role |-> "Sender", payload |-> reply]
  <1> DEFINE n == n_backward(o)
             private == o.pki[o.hops_backward[n]]
             onion == BackOnion(o, reply, n)
             keys == keys_backward(o)
             key == keys[n]
             hops == o.hops_backward
             lengths == [n_forward |-> n_forward(o), n_backward |-> n]
             meta == SenderMeta(n_forward(o), n)
             headers == layers_backward(o)[n].headers
             forward == layers_backward(o)[n].forward
             B == sections_backward(o, reply)
             backward == B[n - 1]
             passed == [header |-> shifted(MaxPathLength, derive_key(SymEnc, key), headers),
                        forward |-> symmetric_decrypt(derive_key(SymEnc, key), NONCE_FWD,
                                                      forward),
                        backward |-> ae_unwrap(key, backward)]
             peeled == [ok |-> TRUE, key |-> key, meta |-> meta, onion |-> passed]
             master == random_key(o.rng)
             s == first_section(o, reply)
  <1>1. n \in Nat \ {0} /\ n \in 1 .. n /\ n = Len(hops) /\ Len(keys) = n
        /\ n_forward(o) \in Nat \ {0} /\ n_forward(o) \in 1 .. n_forward(o)
    BY OrderFacts DEF n_backward
  <1>2. Len(headers) = MaxPathLength
    BY <1>1, BackwardLayers
  <1>3. ~ (MaxPathLength > Len(headers))
    BY <1>2, MaxPathLengthAssumption
  <1>4. unwrap(MaxPathLength, private, onion)
          = Unwrapped(MaxPathLength, key, PartOf(hops, n, meta), headers, forward, backward)
    BY <1>1, BackOpens, ZenonT(30)
  <1>5. unwrap(MaxPathLength, private, onion) = peeled
    <2> HIDE DEF private, onion, key, hops, meta, headers, forward, backward
    <2> QED
      BY <1>1, <1>3, <1>4, Zenon DEF Unwrapped, PartOf
  <1>6. /\ peeled.ok /\ peeled.key = key
        /\ peeled.meta.role = "Sender" /\ peeled.meta.next = lengths
    BY DEF SenderMeta
  <1>7. key = master
    BY <1>1 DEF keys_backward
  <1>8. onion.header = identifier(o) /\ onion.backward = backward
    BY DEF BackOnion, identifier
  <1>9. forward_key(master, lengths.n_forward - 1) = keys_forward(o)[n_forward(o)]
    BY <1>1 DEF keys_forward
  <1>10. rewrapped_sections(master, lengths.n_backward, onion.backward)[0] = s
    <2> DEFINE v == s.vec
               t == s.tag
    <2>1. s = [vec |-> v, tag |-> t] /\ IsOriginal(v, t)
      BY BackwardSectionsShape
    <2>2. IsReplyKeys(keys, master)
      <3> SUFFICES ASSUME NEW i \in 1 .. n - 1 PROVE keys[i] = backward_key(master, i - 1)
        BY <1>1 DEF IsReplyKeys
      <3>1. i \in 1 .. n /\ i # n
        BY <1>1
      <3> QED
        BY <3>1 DEF keys_backward
    <2>3. B = backward_sections(keys, s)
      BY DEF sections_backward
    <2>4. lengths.n_backward = Len(keys)
      BY <1>1
    <2> HIDE DEF s, v, t, keys, master
    <2>5. Recovers(master, keys,
                   backward_sections(keys, [vec |-> v, tag |-> t])[Len(keys) - 1],
                   [vec |-> v, tag |-> t])
      BY <2>1, <2>2, RewrappingUndoesThePath, Zenon
    <2> QED
      BY <1>1, <1>8, <2>1, <2>3, <2>4, <2>5 DEF Recovers
  <1>11. ae_dec(keys_forward(o)[n_forward(o)], awaited_tag(o), s)
           = [ok |-> TRUE, payload |-> reply]
    BY DecReturnsPayload DEF first_section, awaited_tag
  <1> HIDE DEF peeled, private, onion, key, lengths, master, s
  <1>12. accept_reply(master, lengths, onion, expected_tag)
           = [ok |-> TRUE, role |-> "Sender", payload |-> reply]
    <2> DEFINE result == [ok |-> TRUE, payload |-> reply]
    <2>1. result.ok /\ result.payload = reply
      OBVIOUS
    <2>2. ae_dec(forward_key(master, lengths.n_forward - 1), expected_tag[onion.header],
                 rewrapped_sections(master, lengths.n_backward, onion.backward)[0]) = result
      BY <1>8, <1>9, <1>10, <1>11
    <2>3. onion.header \in DOMAIN expected_tag
      BY <1>8
    <2> HIDE DEF result
    <2> QED
      BY <2>1, <2>2, <2>3, Zenon DEF accept_reply
  <1>13. proc_onion(MaxPathLength, private, expected_tag, onion)
           = accept_reply(peeled.key, peeled.meta.next, onion, expected_tag)
    BY <1>5, <1>6, ProcRoles
  <1> QED
    BY <1>6, <1>7, <1>12, <1>13 DEF private, onion, n

(* A node whose OnionFormat has more cells than the sender's runs past the *)
(* end of the header, wherever it stands.                                  *)
THEOREM TooWideFails ==
  ASSUME NEW o, IsOrder(o), NEW reply, NEW w \in Nat, w > MaxPathLength, NEW expected_tag
  PROVE  /\ \A h \in 1 .. n_forward(o) :
              proc_onion(w, o.pki[o.hops_forward[h]], expected_tag, ForthOnion(o, h))
                = Err("panic: header[i + 1]")
         /\ \A h \in 1 .. n_backward(o) :
              proc_onion(w, o.pki[o.hops_backward[h]], expected_tag, BackOnion(o, reply, h))
                = Err("panic: header[i + 1]")
  <1> DEFINE e == Err("panic: header[i + 1]")
  <1>0. ~ e.ok
    BY DEF Err
  <1> HIDE DEF e
  <1>1. ASSUME NEW h \in 1 .. n_forward(o)
        PROVE  proc_onion(w, o.pki[o.hops_forward[h]], expected_tag, ForthOnion(o, h)) = e
    <2>1. Len(layers_forward(o)[h].headers) = MaxPathLength
      BY ForwardLayers
    <2>2. w > Len(layers_forward(o)[h].headers)
      BY <2>1
    <2>3. unwrap(w, o.pki[o.hops_forward[h]], ForthOnion(o, h)) = e
      BY <2>2, ForthOpens, Zenon DEF Unwrapped, e
    <2> QED
      BY <1>0, <2>3, ProcRoles
  <1>2. ASSUME NEW h \in 1 .. n_backward(o)
        PROVE  proc_onion(w, o.pki[o.hops_backward[h]], expected_tag, BackOnion(o, reply, h)) = e
    <2>1. Len(layers_backward(o)[h].headers) = MaxPathLength
      BY BackwardLayers
    <2>2. w > Len(layers_backward(o)[h].headers)
      BY <2>1
    <2>3. unwrap(w, o.pki[o.hops_backward[h]], BackOnion(o, reply, h)) = e
      BY <2>2, BackOpens, Zenon DEF Unwrapped, e
    <2> QED
      BY <1>0, <2>3, ProcRoles
  <1> QED
    BY <1>1, <1>2 DEF e

(* A node that shifts fewer cells than the sender reckoned with passes on  *)
(* an onion that the next hop refuses.                                     *)
THEOREM TooNarrowIsRefused ==
  ASSUME NEW o, IsOrder(o), NEW reply, NEW w \in 1 .. MaxPathLength - 1, NEW width,
         NEW expected_tag
  PROVE  /\ \A h \in 1 .. n_forward(o) - 1 :
              o.pki[o.hops_forward[h]] # o.pki[o.hops_forward[h + 1]] =>
                proc_onion(width, o.pki[o.hops_forward[h + 1]], expected_tag,
                           ForthShifted(o, h, w)) = Err("MacMismatch")
         /\ \A h \in 1 .. n_backward(o) - 1 :
              o.pki[o.hops_backward[h]] # o.pki[o.hops_backward[h + 1]] =>
                proc_onion(width, o.pki[o.hops_backward[h + 1]], expected_tag,
                           BackShifted(o, reply, h, w)) = Err("MacMismatch")
  <1> DEFINE e == Err("MacMismatch")
  <1>0. ~ e.ok
    BY DEF Err
  <1>1. ASSUME NEW h \in 1 .. n_forward(o) - 1,
               o.pki[o.hops_forward[h]] # o.pki[o.hops_forward[h + 1]]
        PROVE  proc_onion(width, o.pki[o.hops_forward[h + 1]], expected_tag,
                          ForthShifted(o, h, w)) = e
    <2> DEFINE rng == [rng |-> o.rng, leg |-> "forward"]
               pki == o.pki
               keys == keys_forward(o)
               hops == o.hops_forward
               meta == ReceiverMeta(o.hops_backward[1])
               fwd_n == symmetric_encrypt(derive_key(SymEnc, keys[n_forward(o)]), NONCE_FWD,
                                          message(o))
               layer == onion_layers(keys, meta_ciphers(pki, keys, hops, meta),
                                     last_cells(rng, keys), fwd_n)
               backward == sections_forward(o)[(h + 1) - 1]
    <2>1. IsPathKeys(keys) /\ h \in 1 .. Len(keys) - 1
      BY OrderFacts
    <2>2. IsBlob(fwd_n)
      BY MessageFacts, CipherKeeps DEF symmetric_encrypt
    <2> HIDE DEF fwd_n
    <2>3. layers_forward(o) = layer
      BY DEF layers_forward, ciphers_forward, fwd_n
    <2>4. pki[hops[h]] # pki[hops[h + 1]]
      BY <1>1
    <2> HIDE DEF rng, pki, keys, hops, meta, backward, e
    <2>5. unwrap(width, pki[hops[h + 1]],
                 [header |-> shifted(w, derive_key(SymEnc, keys[h]), layer[h].headers),
                  forward |-> layer[h + 1].forward, backward |-> backward])
          = Err("MacMismatch")
      BY <2>1, <2>2, <2>4, MisshiftedIsRefused
    <2> HIDE DEF layer
    <2>6. unwrap(width, pki[hops[h + 1]], ForthShifted(o, h, w)) = e
      BY <2>3, <2>5 DEF ForthShifted, keys, backward, e
    <2> QED
      BY <1>0, <2>6, ProcRoles DEF pki, hops
  <1>2. ASSUME NEW h \in 1 .. n_backward(o) - 1,
               o.pki[o.hops_backward[h]] # o.pki[o.hops_backward[h + 1]]
        PROVE  proc_onion(width, o.pki[o.hops_backward[h + 1]], expected_tag,
                          BackShifted(o, reply, h, w)) = e
    <2> DEFINE rng == [rng |-> o.rng, leg |-> "backward"]
               pki == o.pki
               keys == keys_backward(o)
               hops == o.hops_backward
               meta == SenderMeta(n_forward(o), n_backward(o))
               fwd_n == forward_sections(keys, filler(o))[n_backward(o) - 1]
               layer == onion_layers(keys, meta_ciphers(pki, keys, hops, meta),
                                     last_cells(rng, keys), fwd_n)
               backward == sections_backward(o, reply)[(h + 1) - 1]
    <2>1. IsPathKeys(keys) /\ h \in 1 .. Len(keys) - 1
      BY OrderFacts
    <2>2. IsBlob(fwd_n)
      BY OrderFacts
    <2> HIDE DEF fwd_n
    <2>3. layers_backward(o) = layer
      BY DEF layers_backward, ciphers_backward, fwd_n
    <2>4. pki[hops[h]] # pki[hops[h + 1]]
      BY <1>2
    <2> HIDE DEF rng, pki, keys, hops, meta, backward, e
    <2>5. unwrap(width, pki[hops[h + 1]],
                 [header |-> shifted(w, derive_key(SymEnc, keys[h]), layer[h].headers),
                  forward |-> layer[h + 1].forward, backward |-> backward])
          = Err("MacMismatch")
      BY <2>1, <2>2, <2>4, MisshiftedIsRefused
    <2> HIDE DEF layer
    <2>6. unwrap(width, pki[hops[h + 1]], BackShifted(o, reply, h, w)) = e
      BY <2>3, <2>5 DEF BackShifted, keys, backward, e
    <2> QED
      BY <1>0, <2>6, ProcRoles DEF pki, hops
  <1> HIDE DEF e
  <1>3. \A h \in 1 .. n_forward(o) - 1 :
              o.pki[o.hops_forward[h]] # o.pki[o.hops_forward[h + 1]] =>
                proc_onion(width, o.pki[o.hops_forward[h + 1]], expected_tag,
                           ForthShifted(o, h, w)) = e
    BY <1>1
  <1>4. \A h \in 1 .. n_backward(o) - 1 :
              o.pki[o.hops_backward[h]] # o.pki[o.hops_backward[h + 1]] =>
                proc_onion(width, o.pki[o.hops_backward[h + 1]], expected_tag,
                           BackShifted(o, reply, h, w)) = e
    BY <1>2
  <1> QED
    BY <1>3, <1>4 DEF e

(* A header has the size of all headers, the sections have those given. *)
HasSizes(onion, forward_len, backward_len) ==
  /\ Len(onion.header) = MaxPathLength
  /\ \A c \in 1 .. MaxPathLength : onion.header[c].len = single_header_length
  /\ onion.forward.len = forward_len
  /\ onion.backward.vec.len = backward_len

(* How a header is shifted does not show in the lengths of its cells. *)
LEMMA ShiftedSizes ==
  ASSUME NEW headers, IsHeader(headers, MaxPathLength), Len(headers) = MaxPathLength,
         NEW w \in 1 .. MaxPathLength, NEW ks, NEW c \in 1 .. MaxPathLength
  PROVE  /\ Len(shifted(w, ks, headers)) = MaxPathLength
         /\ shifted(w, ks, headers)[c].len = single_header_length
  <1> DEFINE s == shifted(w, ks, headers)
             N == MaxPathLength
  <1>1. N \in Nat \ {0}
    BY MaxPathLengthAssumption
  <1>2. DOMAIN headers = 1 .. N
    BY DEF IsHeader
  <1>3. s[c] = IF c = N THEN symmetric_decrypt(ks, w + 1, zero_header)
               ELSE IF c < w THEN symmetric_decrypt(ks, c + 1, headers[c + 1])
               ELSE headers[c]
    BY <1>2 DEF shifted
  <1>7. Len(s) = N
    <2>1. DOMAIN s = 1 .. N
      BY <1>2 DEF shifted
    <2>2. s = [i \in 1 .. N |-> s[i]]
      BY <2>1 DEF shifted
    <2> HIDE DEF s
    <2> QED
      BY <1>1, <2>2
  <1> HIDE DEF s
  <1>4. ASSUME NEW b, IsCell(b), NEW nonce PROVE symmetric_decrypt(ks, nonce, b).len = single_header_length
    BY <1>4, CipherKeepsCell DEF IsCell
  <1>5. ASSUME c = N PROVE s[c].len = single_header_length
    BY <1>3, <1>4, <1>5, FreshCells
  <1>6. ASSUME c # N PROVE s[c].len = single_header_length
    <2>1. c + 1 \in 1 .. N
      BY <1>1, <1>6
    <2>2. IsCell(headers[c]) /\ IsCell(headers[c + 1])
      BY <2>1 DEF IsHeader
    <2> QED
      BY <1>3, <1>4, <1>6, <2>2 DEF IsCell
  <1> QED
    BY <1>5, <1>6, <1>7 DEF s

(* An onion has one size on all links of the forward path and one on those *)
(* of the reply path: those of the lengths of the payloads, and of nothing *)
(* else.  That holds for headers that were shifted wrongly, too.           *)
THEOREM OnionsHaveOneSize ==
  ASSUME NEW o, IsOrder(o), NEW reply, IsBlob(reply)
  PROVE  LET len == total_header_length + 8 + o.payload.len IN
         /\ \A h \in 1 .. n_forward(o) : HasSizes(ForthOnion(o, h), len, o.payload.len)
         /\ \A h \in 1 .. n_backward(o) : HasSizes(BackOnion(o, reply, h), len, reply.len)
         /\ \A h \in 1 .. n_forward(o) - 1 : \A w \in 1 .. MaxPathLength :
              HasSizes(ForthShifted(o, h, w), len, o.payload.len)
         /\ \A h \in 1 .. n_backward(o) - 1 : \A w \in 1 .. MaxPathLength :
              HasSizes(BackShifted(o, reply, h, w), len, reply.len)
  <1> DEFINE len == total_header_length + 8 + o.payload.len
  <1>0. n_forward(o) \in Nat \ {0} /\ n_backward(o) \in Nat \ {0} /\ filler(o).len = len
        /\ message(o).len = len
    BY OrderFacts, MessageFacts
  <1> HIDE DEF len
  <1>1. ASSUME NEW h \in 1 .. n_forward(o)
        PROVE  /\ IsHeader(layers_forward(o)[h].headers, MaxPathLength)
               /\ Len(layers_forward(o)[h].headers) = MaxPathLength
               /\ layers_forward(o)[h].forward.len = len
               /\ sections_forward(o)[h - 1].vec.len = o.payload.len
    <2>1. h - 1 \in 0 .. n_forward(o)
      BY <1>0
    <2> QED
      BY <1>0, <2>1, ForwardLayers, ForwardSectionsShape
  <1>2. ASSUME NEW h \in 1 .. n_backward(o)
        PROVE  /\ IsHeader(layers_backward(o)[h].headers, MaxPathLength)
               /\ Len(layers_backward(o)[h].headers) = MaxPathLength
               /\ layers_backward(o)[h].forward.len = len
               /\ sections_backward(o, reply)[h - 1].vec.len = reply.len
    <2>1. h - 1 \in 0 .. n_backward(o)
      BY <1>0
    <2> QED
      BY <1>0, <2>1, BackwardLayers, BackwardSectionsShape
  <1>3. ASSUME NEW h \in 1 .. n_forward(o)
        PROVE  HasSizes(ForthOnion(o, h), len, o.payload.len)
    BY <1>1 DEF HasSizes, ForthOnion, IsHeader, IsCell
  <1>4. ASSUME NEW h \in 1 .. n_backward(o)
        PROVE  HasSizes(BackOnion(o, reply, h), len, reply.len)
    BY <1>2 DEF HasSizes, BackOnion, IsHeader, IsCell
  <1>5. ASSUME NEW h \in 1 .. n_forward(o) - 1, NEW w \in 1 .. MaxPathLength
        PROVE  HasSizes(ForthShifted(o, h, w), len, o.payload.len)
    <2>1. h \in 1 .. n_forward(o) /\ h + 1 \in 1 .. n_forward(o)
      BY <1>0
    <2>2. /\ Len(ForthShifted(o, h, w).header) = MaxPathLength
          /\ \A c \in 1 .. MaxPathLength :
               ForthShifted(o, h, w).header[c].len = single_header_length
      BY <1>1, <2>1, ShiftedSizes, MaxPathLengthAssumption DEF ForthShifted
    <2>3. /\ ForthShifted(o, h, w).forward = layers_forward(o)[h + 1].forward
          /\ ForthShifted(o, h, w).backward = sections_forward(o)[(h + 1) - 1]
      BY DEF ForthShifted
    <2> QED
      BY <1>1, <2>1, <2>2, <2>3 DEF HasSizes
  <1>6. ASSUME NEW h \in 1 .. n_backward(o) - 1, NEW w \in 1 .. MaxPathLength
        PROVE  HasSizes(BackShifted(o, reply, h, w), len, reply.len)
    <2>1. h \in 1 .. n_backward(o) /\ h + 1 \in 1 .. n_backward(o)
      BY <1>0
    <2>2. /\ Len(BackShifted(o, reply, h, w).header) = MaxPathLength
          /\ \A c \in 1 .. MaxPathLength :
               BackShifted(o, reply, h, w).header[c].len = single_header_length
      BY <1>2, <2>1, ShiftedSizes, MaxPathLengthAssumption DEF BackShifted
    <2>3. /\ BackShifted(o, reply, h, w).forward = layers_backward(o)[h + 1].forward
          /\ BackShifted(o, reply, h, w).backward = sections_backward(o, reply)[(h + 1) - 1]
      BY DEF BackShifted
    <2> QED
      BY <1>2, <2>1, <2>2, <2>3 DEF HasSizes
  <1> QED
    BY <1>3, <1>4, <1>5, <1>6 DEF len

-----------------------------------------------------------------------------
(* Where the cells of a header come from, and which layers are on them, in *)
(* closed form.                                                            *)

(* The layers of hops first - 1, first - 2, ..., each put on by the sender *)
(* with the nonce of the cell's place at that hop.                         *)
enc_layers(keys, first, m, nonce) ==
  [i \in 1 .. m |->
     [dir |-> "enc", key |-> derive_key(SymEnc, keys[first - i]), nonce |-> nonce + i]]

(* The layers that hops first, first + 1, ... have put on by decrypting.   *)
dec_layers(keys, first, m) ==
  [i \in 1 .. m |->
     [dir |-> "dec", key |-> derive_key(SymEnc, keys[first + i - 1]),
      nonce |-> MaxPathLength + 2 - i]]

(* The block of hop b, a zero cell that hop z shifted in, and padding cell *)
(* d that the sender drew, under m layers.                                 *)
IsBlockOf(cell, keys, data, b, m) ==
  /\ cell.base.kind = "block" /\ cell.base.cipher = data[b]
  /\ cell.layers = enc_layers(keys, b, m, 1)

IsZeroOf(cell, keys, z, m) ==
  cell.base = [kind |-> "zero"] /\ cell.layers = dec_layers(keys, z, m)

IsDrawn(cell, rng, keys, d, m) ==
  /\ cell.base = [kind |-> "random", coin |-> [rng |-> rng, cell |-> d]]
  /\ cell.layers = enc_layers(keys, Len(keys), m, d)

(* What cell c of the header that reaches hop h is.                        *)
IsCellAt(rng, keys, data, h, c, cell) ==
  IF h + c - 1 <= Len(keys) THEN IsBlockOf(cell, keys, data, h + c - 1, c - 1)
  ELSE IF h + c - MaxPathLength - 1 >= 1
  THEN IsZeroOf(cell, keys, h + c - MaxPathLength - 1, MaxPathLength + 1 - c)
  ELSE IsDrawn(cell, rng, keys, h + c - Len(keys), Len(keys) - h)

(* One more hop that the sender wraps a cell for. *)
LEMMA EncryptAdds ==
  ASSUME NEW keys, NEW b, IsCell(b), NEW first, NEW m \in Nat, NEW nonce \in Int,
         b.layers = enc_layers(keys, first, m, nonce),
         NEW h, first - (m + 1) = h, NEW c, nonce + (m + 1) = c
  PROVE  LET x == symmetric_encrypt(derive_key(SymEnc, keys[h]), c, b) IN
         x.base = b.base /\ x.layers = enc_layers(keys, first, m + 1, nonce)
  <1> DEFINE k == derive_key(SymEnc, keys[h])
             l == [dir |-> "enc", key |-> k, nonce |-> c]
             x == symmetric_encrypt(k, c, b)
             L == b.layers
  <1>1. IsBlob(b) /\ b.len # 0
    BY BlockFillsCell DEF IsCell
  <1>2. AllOneWay(L, m, "enc")
    BY DEF enc_layers, AllOneWay
  <1>3. "enc" \in Directions
    BY DEF Directions
  <1>4. x.base = b.base
    BY <1>1, CipherKeeps, ZenonT(30) DEF symmetric_encrypt
  <1>5. x.layers = OnTopOf(L, m, l)
    <2> HIDE DEF k
    <2> QED
      BY <1>1, <1>2, <1>3, LayerOnTop, Zenon DEF symmetric_encrypt
  <1>6. ASSUME NEW i \in 1 .. m + 1
        PROVE  (IF i = m + 1 THEN l ELSE L[i]) = enc_layers(keys, first, m + 1, nonce)[i]
    <2>1. CASE i = m + 1
      BY <2>1 DEF enc_layers
    <2>2. CASE i # m + 1
      <3>1. i \in 1 .. m
        BY <2>2
      <3> QED
        BY <2>2, <3>1 DEF enc_layers
    <2> QED
      BY <2>1, <2>2
  <1>7. enc_layers(keys, first, m + 1, nonce)
          = [i \in 1 .. m + 1 |-> enc_layers(keys, first, m + 1, nonce)[i]]
    BY DEF enc_layers
  <1> HIDE DEF x, l, L
  <1> QED
    BY <1>4, <1>5, <1>6, <1>7 DEF x, k, OnTopOf

(* One more hop that decrypts a zero cell. *)
LEMMA DecryptAdds ==
  ASSUME NEW keys, NEW b, IsCell(b), NEW first \in Int, NEW m \in Nat,
         b.layers = dec_layers(keys, first, m),
         NEW h, first + m = h, NEW c, MaxPathLength + 1 - m = c
  PROVE  LET x == symmetric_decrypt(derive_key(SymEnc, keys[h]), c, b) IN
         x.base = b.base /\ x.layers = dec_layers(keys, first, m + 1)
  <1> DEFINE k == derive_key(SymEnc, keys[h])
             l == [dir |-> "dec", key |-> k, nonce |-> c]
             x == symmetric_decrypt(k, c, b)
             L == b.layers
  <1>1. IsBlob(b) /\ b.len # 0
    BY BlockFillsCell DEF IsCell
  <1>2. AllOneWay(L, m, "dec")
    BY DEF dec_layers, AllOneWay
  <1>3. "dec" \in Directions
    BY DEF Directions
  <1>4. x.base = b.base
    BY <1>1, CipherKeeps, ZenonT(30) DEF symmetric_decrypt
  <1>5. x.layers = OnTopOf(L, m, l)
    <2> HIDE DEF k
    <2> QED
      BY <1>1, <1>2, <1>3, LayerOnTop, Zenon DEF symmetric_decrypt
  <1>6. ASSUME NEW i \in 1 .. m + 1
        PROVE  (IF i = m + 1 THEN l ELSE L[i]) = dec_layers(keys, first, m + 1)[i]
    <2>1. CASE i = m + 1
      <3>1. first + (m + 1) - 1 = h /\ MaxPathLength + 2 - (m + 1) = c
        BY MaxPathLengthAssumption
      <3> QED
        BY <2>1, <3>1 DEF dec_layers
    <2>2. CASE i # m + 1
      <3>1. i \in 1 .. m
        BY <2>2
      <3> QED
        BY <2>2, <3>1 DEF dec_layers
    <2> QED
      BY <2>1, <2>2
  <1>7. dec_layers(keys, first, m + 1)
          = [i \in 1 .. m + 1 |-> dec_layers(keys, first, m + 1)[i]]
    BY DEF dec_layers
  <1> HIDE DEF x, l, L
  <1> QED
    BY <1>4, <1>5, <1>6, <1>7 DEF x, k, OnTopOf

(* Nothing is on a cell that is fresh. *)
LEMMA NoLayersYet ==
  ASSUME NEW keys, NEW first, NEW nonce
  PROVE  /\ \A t, d : HeaderBlock(t, d).layers = enc_layers(keys, first, 0, nonce)
         /\ \A rng : random_header(rng).layers = enc_layers(keys, first, 0, nonce)
         /\ zero_header.layers = dec_layers(keys, first, 0)
  BY DEF Bytes, enc_layers, dec_layers, HeaderBlock, random_header, zero_header

(* The cells that the hops before hop h have shifted in. *)
LEMMA GarbageIsZeroes ==
  ASSUME NEW keys, IsPathKeys(keys)
  PROVE  \A h \in 1 .. Len(keys) : \A c \in (MaxPathLength - h + 2) .. MaxPathLength :
           IsZeroOf(garbage_rows(keys)[h][c], keys, h + c - MaxPathLength - 1,
                    MaxPathLength + 1 - c)
  <1> DEFINE n == Len(keys)
             N == MaxPathLength
             rows == garbage_rows(keys)
             Ok(h) == \A c \in (N - h + 2) .. N :
                        IsZeroOf(rows[h][c], keys, h + c - N - 1, N + 1 - c)
             T == {h \in 1 .. n : Ok(h)}
  <1>1. n \in 1 .. N /\ N \in Nat \ {0} /\ n \in Nat
    BY MaxPathLengthAssumption DEF IsPathKeys
  <1>2. \A h \in 1 .. n : rows[h] = RowAfter(keys, h, rows[h - 1])
    BY <1>1, GarbageRowsRecur
  <1>3. \A h \in 1 .. n : \A c \in (N - h + 2) .. N : IsCell(rows[h][c])
    BY GarbageRowsAreCells
  <1> HIDE DEF n, N, rows
  <1>4. 1 \in T
    <2>1. (N - 1 + 2) .. N = {}
      BY <1>1
    <2> QED
      BY <1>1, <2>1
  <1>5. ASSUME NEW h \in 1 .. n - 1, h \in T PROVE h + 1 \in T
    <2>1. h + 1 \in 1 .. n /\ (h + 1) - 1 = h /\ h \in 1 .. n
      BY <1>1
    <2>2. rows[h + 1] = RowAfter(keys, h + 1, rows[h])
      BY <1>2, <2>1
    <2>3. ASSUME NEW c \in (N - (h + 1) + 2) .. N
          PROVE  IsZeroOf(rows[h + 1][c], keys, (h + 1) + c - N - 1, N + 1 - c)
      <3> DEFINE x == IF c = N THEN zero_header ELSE rows[h][c + 1]
                 z == (h + 1) + c - N - 1
                 m == N - c
                 k == derive_key(SymEnc, keys[h])
      <3>1. /\ z \in Int /\ m \in Nat /\ z + m = h /\ N + 1 - m = c + 1
            /\ m + 1 = N + 1 - c
        BY <1>1
      <3>2. rows[h + 1][c] = symmetric_decrypt(k, c + 1, x)
        BY <2>1, <2>2 DEF RowAfter, N
      <3>3. IsCell(x) /\ IsZeroOf(x, keys, z, m)
        <4>1. CASE c = N
          <5>1. m = 0 /\ x = zero_header
            BY <1>1, <4>1
          <5>2. zero_header.base = [kind |-> "zero"]
                /\ zero_header.layers = dec_layers(keys, z, 0)
            <6> HIDE DEF z
            <6>1. zero_header.layers = dec_layers(keys, z, 0)
              BY NoLayersYet, Zenon
            <6> QED
              BY <6>1 DEF zero_header, Bytes
          <5> HIDE DEF x, z, m
          <5> QED
            BY <5>1, <5>2, FreshCells DEF IsZeroOf
        <4>2. CASE c # N
          <5>1. c + 1 \in (N - h + 2) .. N /\ h + (c + 1) - N - 1 = z /\ N + 1 - (c + 1) = m
            BY <1>1, <4>2
          <5>2. x = rows[h][c + 1]
            BY <4>2
          <5>3. IsCell(rows[h][c + 1])
            BY <1>3, <2>1, <5>1
          <5>4. IsZeroOf(rows[h][c + 1], keys, h + (c + 1) - N - 1, N + 1 - (c + 1))
            BY <1>5, <5>1
          <5> HIDE DEF x, z, m
          <5> QED
            BY <5>1, <5>2, <5>3, <5>4
        <4> QED
          BY <4>1, <4>2
      <3> HIDE DEF x, z, m
      <3>4. /\ symmetric_decrypt(k, c + 1, x).base = x.base
            /\ symmetric_decrypt(k, c + 1, x).layers = dec_layers(keys, z, m + 1)
        BY <3>1, <3>3, DecryptAdds DEF IsZeroOf, N
      <3>5. IsZeroOf(rows[h + 1][c], keys, z, N + 1 - c)
        BY <3>1, <3>2, <3>3, <3>4 DEF IsZeroOf
      <3> QED
        BY <3>5 DEF z
    <2> QED
      BY <2>1, <2>3
  <1> HIDE DEF T
  <1>6. 1 .. n \subseteq T
    <2>1. n \in Int /\ 1 \in Int
      BY <1>1
    <2> QED
      BY <1>4, <1>5, <2>1, UpFrom
  <1> QED
    BY <1>6 DEF T, n, N, rows

(* Every cell of every layer of an onion is the right one, under the right *)
(* layers.                                                                 *)
LEMMA CellsAreInPlace ==
  ASSUME NEW rng, NEW keys, IsPathKeys(keys), NEW data, NEW fwd_n, IsBlob(fwd_n)
  PROVE  LET layer == onion_layers(keys, data, last_cells(rng, keys), fwd_n) IN
         \A h \in 1 .. Len(keys) : \A c \in 1 .. MaxPathLength :
           IsCellAt(rng, keys, data, h, c, layer[h].headers[c])
  <1> DEFINE n == Len(keys)
             N == MaxPathLength
             cells == last_cells(rng, keys)
             layer == onion_layers(keys, data, cells, fwd_n)
             At(h, c) == IsCellAt(rng, keys, data, h, c, layer[h].headers[c])
             T == {h \in 1 .. n : \A c \in 1 .. N : At(h, c)}
  <1>1. n \in 1 .. N /\ N \in Nat \ {0} /\ n \in Nat \ {0}
    BY MaxPathLengthAssumption DEF IsPathKeys
  <1>2. AreLayers(keys, data, cells, fwd_n, layer)
    BY LastCellsAreHeader, LayersShape, Zenon
  <1>3. \A h \in 1 .. n : \A c \in (N - h + 2) .. N :
          IsZeroOf(layer[h].headers[c], keys, h + c - N - 1, N + 1 - c)
    <2>1. \A h \in 1 .. n : \A c \in (N - h + 2) .. N :
            layer[h].headers[c] = garbage_rows(keys)[h][c]
      BY GarbageInPlace
    <2>2. \A h \in 1 .. n : \A c \in (N - h + 2) .. N :
            IsZeroOf(garbage_rows(keys)[h][c], keys, h + c - N - 1, N + 1 - c)
      BY GarbageIsZeroes
    <2> HIDE DEF layer, n, N
    <2> QED
      BY <2>1, <2>2
  <1> HIDE DEF layer
  <1>4. /\ \A i \in 1 .. n : IsLayer(keys[i], data[i], layer[i], fwd_n.len)
        /\ \A i \in 1 .. n - 1 : IsWrapped(keys[i], layer[i], layer[i + 1])
        /\ \A c \in 1 .. N - 1 : layer[n].headers[c + 1] = cells[c]
    BY <1>2, Zenon DEF AreLayers
  <1> HIDE DEF n, N
  (* The first cell is the hop's own block. *)
  <1>5. ASSUME NEW h \in 1 .. n PROVE At(h, 1)
    <2> DEFINE t == tag(derive_key(Mac, keys[h]),
                        Sealed(data[h], Tail(layer[h].headers), layer[h].forward))
    <2>1. layer[h].headers[1] = HeaderBlock(t, data[h])
      BY <1>4 DEF IsLayer, IsSealed
    <2> DEFINE u == h + 1 - 1
               v == 1 - 1
    <2>2. u = h /\ u <= n /\ v = 0
      BY <1>1
    <2> HIDE DEF t, u, v
    <2>3. IsBlockOf(HeaderBlock(t, data[h]), keys, data, h, 0)
      <3>1. HeaderBlock(t, data[h]).layers = enc_layers(keys, h, 0, 1)
        BY DEF HeaderBlock, Bytes, enc_layers
      <3> QED
        BY <3>1 DEF HeaderBlock, Bytes, IsBlockOf
    <2>4. IsBlockOf(layer[h].headers[1], keys, data, u, v) /\ u <= n
      BY <2>1, <2>2, <2>3
    <2> QED
      BY <2>4, Zenon DEF IsCellAt, n, u, v
  (* The last cells are those that the hops before have shifted in. *)
  <1>6. ASSUME NEW h \in 1 .. n, NEW c \in 1 .. N, h + c - N - 1 >= 1 PROVE At(h, c)
    <2>1. c \in (N - h + 2) .. N /\ ~ (h + c - 1 <= n)
      BY <1>1, <1>6
    <2>2. IsZeroOf(layer[h].headers[c], keys, h + c - N - 1, N + 1 - c)
      BY <1>3, <2>1
    <2> QED
      BY <1>6, <2>1, <2>2 DEF IsCellAt, n, N
  (* Between them, at the last hop, there is what the sender drew. *)
  <1>7. n \in T
    <2> SUFFICES ASSUME NEW c \in 1 .. N, c # 1, ~ (n + c - N - 1 >= 1) PROVE At(n, c)
      BY <1>1, <1>5, <1>6
    <2>1. /\ c - 1 \in 1 .. N - 1 /\ (c - 1) + 1 = c /\ (c - 1) + 1 <= N - n + 1
          /\ ~ (n + c - 1 <= n) /\ n + c - n = c /\ n - n = 0
      BY <1>1
    <2>2. layer[n].headers[c] = random_header([rng |-> rng, cell |-> c])
      <3>1. layer[n].headers[c] = cells[c - 1]
        BY <1>4, <2>1
      <3>2. cells[c - 1] = random_header([rng |-> rng, cell |-> (c - 1) + 1])
        BY <2>1 DEF last_cells, n, N
      <3> QED
        BY <2>1, <3>1, <3>2
    <2>3. IsDrawn(random_header([rng |-> rng, cell |-> c]), rng, keys, c, 0)
      <3>1. random_header([rng |-> rng, cell |-> c]).layers = enc_layers(keys, Len(keys), 0, c)
        BY NoLayersYet, Zenon
      <3> QED
        BY <3>1 DEF random_header, Bytes, IsDrawn
    <2>4. IsDrawn(layer[n].headers[c], rng, keys, n + c - n, n - n)
      BY <2>1, <2>2, <2>3
    <2> QED
      BY <2>1, <2>4 DEF IsCellAt, n, N
  (* Every hop before it has one more layer on the others. *)
  <1>8. ASSUME NEW h \in 1 .. n - 1, h + 1 \in T PROVE h \in T
    <2>1. h \in 1 .. n /\ h + 1 \in 1 .. n
      BY <1>1
    <2> SUFFICES ASSUME NEW c \in 1 .. N, c # 1, ~ (h + c - N - 1 >= 1) PROVE At(h, c)
      BY <1>5, <1>6, <2>1
    <2> DEFINE d == c - 1
               b == layer[h + 1].headers[d]
               x == symmetric_encrypt(derive_key(SymEnc, keys[h]), c, b)
    <2>2. /\ d \in 1 .. N - 1 /\ d \in 1 .. N /\ d + 1 = c /\ (h + 1) + d - 1 = h + c - 1
          /\ (h + 1) + d - N - 1 = h + c - N - 1 /\ (h + 1) + d - n = h + c - n
      BY <1>1
    <2>3. layer[h].headers[c] = x
      BY <1>4, <2>2 DEF IsWrapped, N
    <2>4. IsCell(b)
      BY <1>4, <2>1, <2>2 DEF IsLayer, IsHeader, N
    <2>5. IsCellAt(rng, keys, data, h + 1, d, b)
      BY <1>8, <2>2
    <2> HIDE DEF d, b
    <2>6. CASE h + c - 1 <= n
      <3>1. IsBlockOf(b, keys, data, h + c - 1, d - 1)
        BY <2>2, <2>5, <2>6 DEF IsCellAt, n
      <3>2. /\ d - 1 \in Nat /\ (h + c - 1) - ((d - 1) + 1) = h /\ 1 + ((d - 1) + 1) = c
            /\ (d - 1) + 1 = c - 1
        BY <1>1, <2>2
      <3>3. x.base = b.base /\ x.layers = enc_layers(keys, h + c - 1, (d - 1) + 1, 1)
        BY <2>4, <3>1, <3>2, EncryptAdds DEF IsBlockOf
      <3>4. IsBlockOf(x, keys, data, h + c - 1, c - 1)
        BY <3>1, <3>2, <3>3 DEF IsBlockOf
      <3> QED
        BY <2>3, <2>6, <3>4 DEF IsCellAt, n
    <2>7. CASE ~ (h + c - 1 <= n)
      <3>1. IsDrawn(b, rng, keys, h + c - n, n - (h + 1))
        BY <2>2, <2>5, <2>7 DEF IsCellAt, n, N
      <3>2. /\ n - (h + 1) \in Nat /\ n - ((n - (h + 1)) + 1) = h
            /\ (h + c - n) + ((n - (h + 1)) + 1) = c /\ (n - (h + 1)) + 1 = n - h
            /\ h + c - n \in Int
        BY <1>1, <2>2
      <3>3. x.base = b.base /\ x.layers = enc_layers(keys, n, (n - (h + 1)) + 1, h + c - n)
        <4>1. b.layers = enc_layers(keys, n, n - (h + 1), h + c - n)
          BY <3>1 DEF IsDrawn, n
        <4> QED
          BY <2>4, <3>2, <4>1, EncryptAdds
      <3>4. IsDrawn(x, rng, keys, h + c - n, n - h)
        BY <3>1, <3>2, <3>3 DEF IsDrawn, n
      <3> QED
        BY <2>3, <2>7, <3>4 DEF IsCellAt, n, N
    <2> QED
      BY <2>6, <2>7
  <1>9. 1 .. n \subseteq T
    <2> HIDE DEF T
    <2>1. n \in Int /\ 1 \in Int
      BY <1>1
    <2> QED
      BY <1>7, <1>8, <2>1, DownFrom
  <1> QED
    BY <1>9 DEF layer, cells, n, N

(* The cells of an onion on its way, and of its reply: those of the header *)
(* come from the three places that CellIsRight of OnionJourney names, on   *)
(* both paths, whatever the paths' lengths are.                            *)
ForthCellsAt(o, h) ==
  \A c \in 1 .. MaxPathLength :
    IsCellAt([rng |-> o.rng, leg |-> "forward"], keys_forward(o), ciphers_forward(o), h, c,
             layers_forward(o)[h].headers[c])

BackCellsAt(o, h) ==
  \A c \in 1 .. MaxPathLength :
    IsCellAt([rng |-> o.rng, leg |-> "backward"], keys_backward(o), ciphers_backward(o), h, c,
             layers_backward(o)[h].headers[c])

(* A hop finds its own block first, and behind it the blocks of the hops   *)
(* ahead, the sender's padding and the zero cells of the hops behind, each *)
(* under exactly the layers that are still to come off.                    *)
THEOREM HeadersAreRight ==
  ASSUME NEW o, IsOrder(o)
  PROVE  /\ \A h \in 1 .. n_forward(o) : ForthCellsAt(o, h)
         /\ \A h \in 1 .. n_backward(o) : BackCellsAt(o, h)
  <1>1. \A h \in 1 .. n_forward(o) : ForthCellsAt(o, h)
    <2> DEFINE keys == keys_forward(o)
               rng == [rng |-> o.rng, leg |-> "forward"]
               f == symmetric_encrypt(derive_key(SymEnc, keys[n_forward(o)]), NONCE_FWD,
                                      message(o))
               data == ciphers_forward(o)
    <2>1. IsPathKeys(keys) /\ Len(keys) = n_forward(o)
      BY OrderFacts
    <2>2. IsBlob(f)
      BY MessageFacts, CipherKeeps DEF symmetric_encrypt
    <2>3. layers_forward(o) = onion_layers(keys, data, last_cells(rng, keys), f)
      BY DEF layers_forward
    <2> HIDE DEF keys, rng, f, data
    <2>4. \A h \in 1 .. Len(keys) : \A c \in 1 .. MaxPathLength :
            IsCellAt(rng, keys, data, h, c, layers_forward(o)[h].headers[c])
      BY <2>1, <2>2, <2>3, CellsAreInPlace
    <2> QED
      BY <2>1, <2>4 DEF ForthCellsAt, keys, rng, data
  <1>2. \A h \in 1 .. n_backward(o) : BackCellsAt(o, h)
    <2> DEFINE keys == keys_backward(o)
               rng == [rng |-> o.rng, leg |-> "backward"]
               f == forward_sections(keys, filler(o))[n_backward(o) - 1]
               data == ciphers_backward(o)
    <2>1. IsPathKeys(keys) /\ Len(keys) = n_backward(o) /\ n_backward(o) \in Nat \ {0}
      BY OrderFacts
    <2>2. IsBlob(f)
      <3>1. n_backward(o) - 1 \in 0 .. n_backward(o)
        BY <2>1
      <3> QED
        BY <3>1, OrderFacts
    <2>3. layers_backward(o) = onion_layers(keys, data, last_cells(rng, keys), f)
      BY DEF layers_backward
    <2> HIDE DEF keys, rng, f, data
    <2>4. \A h \in 1 .. Len(keys) : \A c \in 1 .. MaxPathLength :
            IsCellAt(rng, keys, data, h, c, layers_backward(o)[h].headers[c])
      BY <2>1, <2>2, <2>3, CellsAreInPlace
    <2> QED
      BY <2>1, <2>4 DEF BackCellsAt, keys, rng, data
  <1> QED
    BY <1>1, <1>2
=============================================================================
