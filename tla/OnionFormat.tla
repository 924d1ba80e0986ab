---------------------------- MODULE OnionFormat -----------------------------
(***************************************************************************)
(* The onion format of src/src/lib.rs: how a repliable onion is built      *)
(* (onionize, form_onion), peeled by the nodes of a path (unwrap,          *)
(* proc_onion) and answered by its receiver (reply_onion).                 *)
(*                                                                         *)
(* An onion is a record [header, forward, backward].  The header is a      *)
(* sequence of cells, all blobs, whether the code holds them as Raw or as  *)
(* Parsed: the two compare and serialize by their bytes.  Cells are        *)
(* numbered from 1 here and from 0 in the code, so the code's nonce i + 2  *)
(* for cell i + 1 is the number of the cell.  The backward section is the  *)
(* pair [vec, tag].  A result is [ok |-> TRUE, ...] or Err(name).          *)
(***************************************************************************)
EXTENDS Primitives

CONSTANT MaxPathLength     \* OnionFormat.max_path_length

ASSUME MaxPathLengthAssumption == MaxPathLength \in Nat \ {0}

Err(e) == [ok |-> FALSE, err |-> e]

NONCE_BWD == "bwd"
NONCE_FWD == "fwd"
NONCE_AE  == "ae"

-----------------------------------------------------------------------------
(* Lengths.  TagBytes, PointBytes and the other lengths of the primitives  *)
(* are what the serializer writes; single_header_length is what the code   *)
(* reckons, with the 16 and the 32 it writes out by hand.                  *)

TagBytes             == 16
PointBytes           == 32
SYMMETRIC_KEY_LENGTH == 16
ADDRESS_LENGTH       == 32
RoleBytes            == 4
VecLengthBytes       == 8

CipherBytes ==      \* a PKE ciphertext of pack((key, Meta))
  PointBytes + VecLengthBytes + SYMMETRIC_KEY_LENGTH + RoleBytes + ADDRESS_LENGTH

BlockBytes  == TagBytes + VecLengthBytes + CipherBytes

(* Mutant: the vector length inside the PKE ciphertext is forgotten. *)
single_header_length_8_short ==
  16 + SYMMETRIC_KEY_LENGTH + ADDRESS_LENGTH + 4 + 32 + 8

single_header_length ==
  16 + SYMMETRIC_KEY_LENGTH + ADDRESS_LENGTH + 4 + 32 + 8 + 8

total_header_length == 8 + MaxPathLength * (8 + single_header_length)

-----------------------------------------------------------------------------
(* Header cells and messages. *)

HeaderBlock(t, data) ==
  Bytes([kind |-> "block", blockTag |-> t, cipher |-> data], BlockBytes)

zero_header == Bytes([kind |-> "zero"], single_header_length)

random_header(rng) == Bytes([kind |-> "random", coin |-> rng], single_header_length)

(* The length of a serialized header, a vector of vectors. *)
HeaderBytes(header) ==
  LET upto[c \in 0 .. Len(header)] ==
        IF c = 0 THEN VecLengthBytes
        ELSE upto[c - 1] + VecLengthBytes + header[c].len
  IN  upto[Len(header)]

(* pack((header, payload)), the plaintext of the forward section. *)
PackMessage(header, payload) ==
  Bytes([kind |-> "message", replyHeader |-> header, payload |-> payload],
        HeaderBytes(header) + VecLengthBytes + payload.len)

IsPlain(blob, kind) == blob.layers = <<>> /\ blob.base.kind = kind

-----------------------------------------------------------------------------
(* The backward section.  ae_unwrap and ae_wrap cipher tag and vector as   *)
(* one wide block: each output byte depends on every input byte, so half   *)
(* of the block says nothing of the other half.  Join and Split are the    *)
(* buffer.extend and the two slices around the cipher.                     *)

HeadTag(b) == {[kind |-> "head", whole |-> b]}

TailVec(b) ==
  IF b.len = TagBytes THEN Empty
  ELSE Bytes([kind |-> "tail", whole |-> b], b.len - TagBytes)

Join(bwd) ==
  LET whole == {a \in bwd.tag : a.kind = "head"}
      halves == {a.whole : a \in whole}
  IN  IF \E b \in halves : bwd.tag = HeadTag(b) /\ bwd.vec = TailVec(b)
      THEN CHOOSE b \in halves : bwd.tag = HeadTag(b)
      ELSE Bytes([kind |-> "pair", vec |-> bwd.vec, pairTag |-> bwd.tag],
                 TagBytes + bwd.vec.len)

Split(b) ==
  IF IsPlain(b, "pair") THEN [vec |-> b.base.vec, tag |-> b.base.pairTag]
  ELSE [vec |-> TailVec(b), tag |-> HeadTag(b)]

ae_unwrap(key, bwd) ==
  Split(symmetric_decrypt(derive_key(SymEnc, key), NONCE_BWD, Join(bwd)))

ae_wrap(key, bwd) ==
  Split(symmetric_encrypt(derive_key(SymEnc, key), NONCE_BWD, Join(bwd)))

(* Encrypt-then-MAC, with the associated tag ad xored into the MAC. *)
ae_enc(key, ad, payload) ==
  LET ciphertext == symmetric_encrypt(derive_key(SymEnc, key), NONCE_AE, payload)
      mac == tag(derive_key(Mac, key), [reply |-> ciphertext])
  IN  [vec |-> ciphertext, tag |-> xor_tag(mac, ad)]

(* Mutant: the tag is not compared. *)
ae_dec_unchecked(key, ad, bwd) ==
  [ok |-> TRUE,
   payload |-> symmetric_decrypt(derive_key(SymEnc, key), NONCE_AE, bwd.vec)]

ae_dec(key, ad, bwd) ==
  IF bwd.tag = xor_tag(tag(derive_key(Mac, key), [reply |-> bwd.vec]), ad)
  THEN [ok |-> TRUE,
        payload |-> symmetric_decrypt(derive_key(SymEnc, key), NONCE_AE, bwd.vec)]
  ELSE Err("AeError")

-----------------------------------------------------------------------------
(* Layers of the header and of the forward section. *)

Sealed(data, cells, forward) == [cipher |-> data, cells |-> cells, forward |-> forward]

(* Mutant: the nonces are those of the cells' places before the shift. *)
wrap_nonce_unshifted(key, ciphertext, headers, payload) ==
  LET ks      == derive_key(SymEnc, key)
      cells   == [i \in DOMAIN headers |-> symmetric_encrypt(ks, i, headers[i])]
      forward == symmetric_encrypt(ks, NONCE_FWD, payload)
      mac     == tag(derive_key(Mac, key), Sealed(ciphertext, cells, forward))
  IN  [headers |-> <<HeaderBlock(mac, ciphertext)>> \o cells, forward |-> forward]

(* Adds a layer for key around headers (one cell short) and payload. *)
wrap(key, ciphertext, headers, payload) ==
  LET ks      == derive_key(SymEnc, key)
      cells   == [i \in DOMAIN headers |-> symmetric_encrypt(ks, i + 1, headers[i])]
      forward == symmetric_encrypt(ks, NONCE_FWD, payload)
      mac     == tag(derive_key(Mac, key), Sealed(ciphertext, cells, forward))
  IN  [headers |-> <<HeaderBlock(mac, ciphertext)>> \o cells, forward |-> forward]

(* Mutant: no zero cell is shifted in at the end. *)
unwrap_without_padding(width, private, onion) ==
  LET first == onion.header[1]
      plain == asymmetric_decrypt(private, first.base.cipher)
      ks    == derive_key(SymEnc, plain.key)
  IN  IF ~ IsPlain(first, "block") THEN Err("SerializationError")
      ELSE IF plain = Garbage THEN Err("MacMismatch")
      ELSE [ok |-> TRUE, key |-> plain.key, meta |-> plain.meta,
            onion |->
              [header   |-> [c \in 1 .. Len(onion.header) - 1 |->
                               symmetric_decrypt(ks, c + 1, onion.header[c + 1])],
               forward  |-> symmetric_decrypt(ks, NONCE_FWD, onion.forward),
               backward |-> ae_unwrap(plain.key, onion.backward)]]

(* Mutant: the header says how many cells there are. *)
shifted_by_header(width, ks, header) ==
  [c \in DOMAIN header |->
     symmetric_decrypt(ks, c + 1, IF c = Len(header) THEN zero_header ELSE header[c + 1])]

(* The header of a node with max_path_length width: one cell is shifted    *)
(* out and a zero cell in.  A header of more cells than that keeps those   *)
(* that the loop does not reach, but for the last one.                     *)
shifted(width, ks, header) ==
  [c \in DOMAIN header |->
     IF c = Len(header) THEN symmetric_decrypt(ks, width + 1, zero_header)
     ELSE IF c < width THEN symmetric_decrypt(ks, c + 1, header[c + 1])
     ELSE header[c]]

(* Removes the layer of the node that owns private and whose OnionFormat   *)
(* has max_path_length width: MaxPathLength, where all nodes agree.        *)
unwrap(width, private, onion) ==
  LET first == onion.header[1]
      data  == first.base.cipher
      plain == asymmetric_decrypt(private, data)
      key   == plain.key
      ks    == derive_key(SymEnc, key)
      mac   == tag(derive_key(Mac, key), Sealed(data, Tail(onion.header), onion.forward))
  IN  IF ~ IsPlain(first, "block") THEN Err("SerializationError")
      ELSE IF plain = Garbage \/ first.base.blockTag # mac THEN Err("MacMismatch")
      ELSE IF width > Len(onion.header) THEN Err("panic: header[i + 1]")
      ELSE [ok |-> TRUE, key |-> key, meta |-> plain.meta,
            onion |->
              [header   |-> shifted(width, ks, onion.header),
               forward  |-> symmetric_decrypt(ks, NONCE_FWD, onion.forward),
               backward |-> ae_unwrap(key, onion.backward)]]
-----------------------------------------------------------------------------
(* Building onions.  rng stands for the coins of one call. *)

HopMeta(next)           == [role |-> "Hop", next |-> next]
ReceiverMeta(next)      == [role |-> "Receiver", next |-> next]
SenderMeta(n_fwd, n_bwd) ==
  [role |-> "Sender", next |-> [n_forward |-> n_fwd, n_backward |-> n_bwd]]

(* Mutant: the nonces of the garbage cells are one too low. *)
garbage_cells_nonce_c(keys) ==
  LET row[h \in 1 .. Len(keys)] ==
        [c \in (MaxPathLength - h + 2) .. MaxPathLength |->
           symmetric_decrypt(derive_key(SymEnc, keys[h - 1]), c,
             IF c = MaxPathLength THEN zero_header ELSE row[h - 1][c + 1])]
  IN  row[Len(keys)]

(* The cells that hop h of a path receives below the blocks of the path:   *)
(* each hop before it has decrypted a zero cell into the last place and    *)
(* shifted those of the hops before.                                       *)
garbage_rows(keys) ==
  LET row[h \in 1 .. Len(keys)] ==
        [c \in (MaxPathLength - h + 2) .. MaxPathLength |->
           symmetric_decrypt(derive_key(SymEnc, keys[h - 1]), c + 1,
             IF c = MaxPathLength THEN zero_header ELSE row[h - 1][c + 1])]
  IN  row

garbage_cells(keys) == garbage_rows(keys)[Len(keys)]

(* Every cell but the first of the header that the last hop receives. *)
last_cells(rng, keys) ==
  LET n == Len(keys) IN
  [i \in 1 .. MaxPathLength - 1 |->
     IF i + 1 <= MaxPathLength - n + 1 THEN random_header([rng |-> rng, cell |-> i + 1])
     ELSE garbage_cells(keys)[i + 1]]

(* What each hop of the path is to learn, under its public key. *)
meta_ciphers(pki, keys, hops, meta) ==
  LET n == Len(keys) IN
  [i \in 1 .. n |->
     asymmetric_encrypt(pki[hops[i]],
       [key |-> keys[i], meta |-> IF i = n THEN meta ELSE HopMeta(hops[i + 1])])]

(* backward_n and the tag that ae_unwrap leaves once hop i has unwrapped:  *)
(* entry 0 is the section as it is sent.                                   *)
backward_sections(keys, bwd_1) ==
  LET after[i \in 0 .. Len(keys)] ==
        IF i = 0 THEN bwd_1 ELSE ae_unwrap(keys[i], after[i - 1])
  IN  after

(* The forward section of an onion whose first hop is to receive data, as  *)
(* hop i leaves it.                                                        *)
forward_sections(keys, data) ==
  LET after[i \in 0 .. Len(keys)] ==
        IF i = 0 THEN data
        ELSE symmetric_decrypt(derive_key(SymEnc, keys[i]), NONCE_FWD, after[i - 1])
  IN  after

(* Header and forward section as they reach each hop: the last hop's are   *)
(* given, but for its block, and wrapped once for every hop before it.     *)
onion_layers(keys, data, cells, fwd_n) ==
  LET n     == Len(keys)
      mac_n == tag(derive_key(Mac, keys[n]), Sealed(data[n], cells, fwd_n))
      layer[i \in 1 .. n] ==
        IF i = n THEN [headers |-> <<HeaderBlock(mac_n, data[n])>> \o cells,
                       forward |-> fwd_n]
        ELSE wrap(keys[i], data[i],
                  SubSeq(layer[i + 1].headers, 1, MaxPathLength - 1),
                  layer[i + 1].forward)
  IN  layer

(* The onion for hops, as it leaves the sender (onion_1) and as it arrives *)
(* at the last hop (onion_n), and the tag the last hop finds in bwd.       *)
onionize(rng, pki, keys, hops, meta, payload, backward_payload_length) ==
  LET n     == Len(keys)
      bwd   == IF payload.dir = "backward"
               THEN [i \in 0 .. n |-> [vec |-> Empty, tag |-> ZeroTag]]
               ELSE backward_sections(keys,
                      [vec |-> IF backward_payload_length = 0 THEN Empty
                               ELSE Bytes([kind |-> "random", coin |-> rng],
                                          backward_payload_length),
                       tag |-> random_tag(rng)])
      fwd_n == IF payload.dir = "backward"
               THEN forward_sections(keys, payload.data)[n - 1]
               ELSE symmetric_encrypt(derive_key(SymEnc, keys[n]), NONCE_FWD,
                                      payload.data)
      layer == onion_layers(keys, meta_ciphers(pki, keys, hops, meta),
                            last_cells(rng, keys), fwd_n)
  IN  IF n > MaxPathLength THEN Err("PathTooLong")
      ELSE IF \E i \in 1 .. n : hops[i] \notin DOMAIN pki THEN Err("KeyNotFound")
      ELSE [ok |-> TRUE,
            onion_1 |-> [header |-> layer[1].headers, forward |-> layer[1].forward,
                         backward |-> bwd[0]],
            onion_n |-> [header |-> layer[n].headers, forward |-> layer[n].forward,
                         backward |-> bwd[n - 1]],
            expected_tag |-> IF payload.dir = "backward" THEN ZeroTag
                             ELSE bwd[n].tag]

forward_key(master, i)  == derive_key(Forward(i), master)    \* hop i, from 0
backward_key(master, i) == derive_key(Backward(i), master)

(* A fresh repliable onion, and what its sender keeps to accept the reply. *)
form_onion(rng, pki, hops_forward, hops_backward, payload) ==
  LET n_f    == Len(hops_forward)
      n_b    == Len(hops_backward)
      master == random_key(rng)
      keys_f == [i \in 1 .. n_f |-> forward_key(master, i - 1)]
      keys_b == [i \in 1 .. n_b |->
                   IF i = n_b THEN master ELSE backward_key(master, i - 1)]
      filler == prng(derive_key(PrngRole, keys_f[n_f]),
                     total_header_length + 8 + payload.len)
      back   == onionize([rng |-> rng, leg |-> "backward"], pki, keys_b, hops_backward,
                         SenderMeta(n_f, n_b),
                         [dir |-> "backward", data |-> filler], 0)
      forth  == onionize([rng |-> rng, leg |-> "forward"], pki, keys_f, hops_forward,
                         ReceiverMeta(hops_backward[1]),
                         [dir |-> "forward",
                          data |-> PackMessage(back.onion_1.header, payload)],
                         payload.len)
  IN  IF n_f > MaxPathLength \/ n_b > MaxPathLength THEN Err("PathTooLong")
      ELSE IF n_f = 0 \/ n_b = 0 THEN Err("panic")
      ELSE IF ~ back.ok THEN back
      ELSE IF ~ forth.ok THEN forth
      ELSE [ok |-> TRUE, onion |-> forth.onion_1,
            expected |-> [identifier |-> back.onion_n.header,
                          onion |-> forth.onion_n, tag |-> forth.expected_tag]]

-----------------------------------------------------------------------------
(* Processing and answering onions. *)

(* The backward section as it was before each hop of the reply path but    *)
(* the last, the sender, unwrapped it.                                     *)
rewrapped_sections(master, n_backward, bwd) ==
  LET before[i \in 0 .. n_backward - 1] ==
        IF i = n_backward - 1 THEN bwd
        ELSE ae_wrap(backward_key(master, i), before[i + 1])
  IN  before

(* Mutant: the layer of the first hop of the reply path is left on. *)
accept_reply_one_short(master, lengths, onion, expected_tag) ==
  LET rewrapped == rewrapped_sections(master, lengths.n_backward, onion.backward)
      last == IF lengths.n_backward = 1 THEN 0 ELSE 1
      result == ae_dec(forward_key(master, lengths.n_forward - 1),
                       expected_tag[onion.header], rewrapped[last])
  IN  IF onion.header \notin DOMAIN expected_tag THEN Err("UnexpectedReply")
      ELSE IF ~ result.ok THEN result
      ELSE [ok |-> TRUE, role |-> "Sender", payload |-> result.payload]

(* The sender's side of a reply: meta.next holds the two path lengths, and *)
(* the caller's closure expected_tag is a function on the identifiers that *)
(* it knows, here those of the onions it formed.                           *)
accept_reply(master, lengths, onion, expected_tag) ==
  LET rewrapped == rewrapped_sections(master, lengths.n_backward, onion.backward)
      key_forward == forward_key(master, lengths.n_forward - 1)
      result == ae_dec(key_forward, expected_tag[onion.header], rewrapped[0])
  IN  IF onion.header \notin DOMAIN expected_tag THEN Err("UnexpectedReply")
      ELSE IF ~ result.ok THEN result
      ELSE [ok |-> TRUE, role |-> "Sender", payload |-> result.payload]

proc_onion(width, private, expected_tag, onion) ==
  LET peeled  == unwrap(width, private, onion)
      meta    == peeled.meta
      forward == peeled.onion.forward
  IN  IF ~ peeled.ok THEN peeled
      ELSE CASE meta.role = "Hop" ->
                  [ok |-> TRUE, role |-> "Hop", next_address |-> meta.next,
                   next_onion |-> peeled.onion]
             [] meta.role = "Receiver" ->
                  IF IsPlain(forward, "message")
                  THEN [ok |-> TRUE, role |-> "Receiver",
                        payload |-> forward.base.payload]
                  ELSE Err("SerializationError")
             [] meta.role = "Sender" ->
                  accept_reply(peeled.key, meta.next, onion, expected_tag)

proc_onion_without_reply(width, private, onion) ==
  proc_onion(width, private, [identifier \in {} |-> ZeroTag], onion)

(* Mutant: the forward section is reused instead of refilled. *)
reply_onion_same_forward(width, private, onion, payload) ==
  LET peeled == unwrap(width, private, onion) IN
  IF ~ peeled.ok THEN peeled
  ELSE [ok |-> TRUE, next |-> peeled.meta.next,
        onion |-> [header   |-> peeled.onion.forward.base.replyHeader,
                   forward  |-> onion.forward,
                   backward |-> ae_enc(peeled.key, peeled.onion.backward.tag, payload)]]

(* Mutant: the forward section is as long as the reply needs. *)
reply_onion_short_forward(width, private, onion, payload) ==
  LET peeled == unwrap(width, private, onion) IN
  IF ~ peeled.ok THEN peeled
  ELSE [ok |-> TRUE, next |-> peeled.meta.next,
        onion |-> [header   |-> peeled.onion.forward.base.replyHeader,
                   forward  |-> prng(derive_key(PrngRole, peeled.key),
                                     total_header_length + 8 + payload.len),
                   backward |-> ae_enc(peeled.key, peeled.onion.backward.tag, payload)]]

(* The reply to an onion the receiver kept as it arrived. *)
reply_onion(width, private, onion, payload) ==
  LET peeled  == unwrap(width, private, onion)
      message == peeled.onion.forward
  IN  IF ~ peeled.ok THEN peeled
      ELSE IF peeled.meta.role # "Receiver" THEN Err("NotTheReceiver")
      ELSE IF ~ IsPlain(message, "message") THEN Err("SerializationError")
      ELSE [ok |-> TRUE, next |-> peeled.meta.next,
            onion |-> [header   |-> message.base.replyHeader,
                       forward  |-> prng(derive_key(PrngRole, peeled.key),
                                         onion.forward.len),
                       backward |-> ae_enc(peeled.key, peeled.onion.backward.tag,
                                           payload)]]
=============================================================================
