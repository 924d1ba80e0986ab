----------------------------- MODULE SphinxFormat -----------------------------
(***************************************************************************)
(* The Sphinx packet format of sphinx/src: how a header, a packet and a    *)
(* single use reply block are built, and what a node does with a packet.   *)
(*                                                                         *)
(* Points of the curve and scalars are products of exponents, here sets of *)
(* them: a private key and its public key are both {the key's own          *)
(* exponent}, and diffie_hellman joins two sets.  (No product multiplies   *)
(* twice by the same exponent: a blinding factor is made of all that went  *)
(* into the point it blinds.)  Keys derived from a point, MACs and         *)
(* keystreams are terms, equal iff they are computed alike.                *)
(*                                                                         *)
(* Routing information is a sequence of slots of FILLER_STEP_SIZE_INCREASE *)
(* bytes: what was written there, and the set of keystream pieces it was   *)
(* xored with, where the same piece twice cancels.  All lengths that the   *)
(* code cuts, shifts or pads by are multiples of a slot.                   *)
(***************************************************************************)
EXTENDS Primitives
LOCAL INSTANCE SequencesExt
LOCAL INSTANCE FiniteSetsExt

CONSTANT MAX_PATH_LENGTH

ASSUME MaxPathAssumption == MAX_PATH_LENGTH \in Nat \ {0}

Err(kind) == [ok |-> FALSE, err |-> kind]

Payload == INSTANCE SphinxPayload WITH SECURITY_PARAMETER <- 16, DIGEST_RESULT_SIZE <- 32

-----------------------------------------------------------------------------
(* Lengths in bytes. *)

DESTINATION_ADDRESS_LENGTH  == 2 * 16
NODE_META_INFO_SIZE         == 2 * 16 + 1 + 8 + 3
FINAL_NODE_META_INFO_LENGTH == DESTINATION_ADDRESS_LENGTH + 16 + 1 + 3
FILLER_STEP_SIZE_INCREASE   == NODE_META_INFO_SIZE + 16
ENCRYPTED_ROUTING_INFO_SIZE == FILLER_STEP_SIZE_INCREASE * MAX_PATH_LENGTH

max_destination_length(route_len) == (3 * (MAX_PATH_LENGTH - route_len) + 2) * 16

max_padded_destination_identifier_length(route_len) ==
  ENCRYPTED_ROUTING_INFO_SIZE - FILLER_STEP_SIZE_INCREASE * (route_len - 1)

padding_length(route_len) ==
  max_padded_destination_identifier_length(route_len) - FINAL_NODE_META_INFO_LENGTH

-----------------------------------------------------------------------------
(* Points and keys. *)

PrivateKey(owner) == {[secret |-> owner]}

diffie_hellman(private, point) == private \cup point

(* Mutant: the blinding factor is one. *)
derive_unblinded(shared_key) ==
  [stream_cipher_key         |-> [stream |-> shared_key],
   header_integrity_hmac_key |-> [hmac |-> shared_key],
   payload_key               |-> [lioness |-> shared_key],
   blinding_factor           |-> {}]

(* RoutingKeys::derive. *)
derive(shared_key) ==
  [stream_cipher_key         |-> [stream |-> shared_key],
   header_integrity_hmac_key |-> [hmac |-> shared_key],
   payload_key               |-> [lioness |-> shared_key],
   blinding_factor           |-> {[blinds |-> shared_key]}]

(* The secret that each node of the route finds.  KeyMaterial::derive      *)
(* blinds the accumulator after the last node, too: the test               *)
(* i != route.len() + 1 always holds, and the last product is not used.    *)
accumulators(route, initial_secret) ==
  LET accumulator[i \in 1 .. Len(route)] ==
        IF i = 1 THEN initial_secret
        ELSE accumulator[i - 1]
               \cup derive(diffie_hellman(accumulator[i - 1], route[i - 1].pub_key)).blinding_factor
  IN  accumulator

(* The routing keys of KeyMaterial::derive. *)
routing_keys(route, initial_secret) ==
  LET accumulator == accumulators(route, initial_secret)
  IN  [i \in 1 .. Len(route) |-> derive(diffie_hellman(accumulator[i], route[i].pub_key))]

blind_the_shared_secret(shared_secret, blinding_factor) ==
  diffie_hellman(blinding_factor, shared_secret)

-----------------------------------------------------------------------------
(* Slots. *)

Slot(base) == [base |-> base, pads |-> {}]

zero_slot == Slot([kind |-> "zero"])

(* The keystream that every step uses has one slot more than a header. *)
generate_pseudorandom_bytes(key) ==
  [place \in 1 .. MAX_PATH_LENGTH + 1 |-> {[key |-> key, place |-> place]}]

xor(slots, pseudorandom_bytes) ==
  [j \in DOMAIN slots |->
     [slots[j] EXCEPT !.pads = SymDiff(@, pseudorandom_bytes[j])]]

(* Mutant: the step uses the first i slots of the keystream. *)
filler_step_from_start(filler, i, pseudorandom_bytes) ==
  xor(Append(filler, zero_slot), SubSeq(pseudorandom_bytes, 1, i))

filler_step(filler, i, pseudorandom_bytes) ==
  xor(Append(filler, zero_slot),
      SubSeq(pseudorandom_bytes, Len(pseudorandom_bytes) - i + 1, Len(pseudorandom_bytes)))

(* The filler after each step of Filler::new. *)
Fillers(keys) ==
  LET after[i \in 0 .. Len(keys)] ==
        IF i = 0 THEN <<>>
        ELSE filler_step(after[i - 1], i,
                         generate_pseudorandom_bytes(keys[i].stream_cipher_key))
  IN  after

(* Filler::new, for the keys of all nodes but the last. *)
Filler(keys) == Fillers(keys)[Len(keys)]

-----------------------------------------------------------------------------
(* Routing information: its slots and their MAC. *)

(* Mutant: the last slot, which is never read as such, is left out. *)
compute_truncated(key, slots) == [macKey |-> key, over |-> Front(slots)]

compute(key, slots) == [macKey |-> key, over |-> slots]

encapsulate_with_mac(keys, slots) ==
  [slots |-> slots, integrity_mac |-> compute(keys.header_integrity_hmac_key, slots)]

(* The last node's part.  Its padding is random, and may share the slot of *)
(* the destination.                                                        *)
for_final_hop(dest, keys, filler, route_len, rng) ==
  LET padded == [j \in 1 .. MAX_PATH_LENGTH - (route_len - 1) |->
                   Slot(IF j = 1 THEN [kind |-> "final", destination |-> dest.address,
                                       identifier |-> dest.identifier, padding |-> rng]
                        ELSE [kind |-> "padding", coin |-> rng, place |-> j])]
  IN  encapsulate_with_mac(keys,
        xor(padded, generate_pseudorandom_bytes(keys.stream_cipher_key)) \o filler)

truncate(slots) == SubSeq(slots, 1, MAX_PATH_LENGTH - 1)

for_forward_hop(address, delay, next, keys) ==
  LET first == Slot([kind |-> "forward", address |-> address, delay |-> delay,
                     mac |-> next.integrity_mac])
  IN  encapsulate_with_mac(keys,
        xor(<<first>> \o truncate(next.slots),
            generate_pseudorandom_bytes(keys.stream_cipher_key)))

(* What each node of the route finds, from the inside out. *)
routing_layers(route, dest, delays, keys, filler, rng) ==
  LET n == Len(route)
      from[i \in 1 .. n] ==
        IF i = n THEN for_final_hop(dest, keys[n], filler, n, rng)
        ELSE for_forward_hop(route[i + 1].address, delays[i], from[i + 1], keys[i])
  IN  from

(* EncapsulatedRoutingInformation::new. *)
EncapsulatedRoutingInformation(route, dest, delays, keys, filler, rng) ==
  routing_layers(route, dest, delays, keys, filler, rng)[1]

(* Mutant: no slot of zeroes is added, and nothing is shifted in. *)
unwrap_unpadded(slots, stream_cipher_key) ==
  xor(slots, generate_pseudorandom_bytes(stream_cipher_key))

(* add_zero_padding and decrypt. *)
unwrap(slots, stream_cipher_key) ==
  xor(Append(slots, zero_slot), generate_pseudorandom_bytes(stream_cipher_key))

(* What the flag of the decrypted first slot says; a slot that is still    *)
(* under some keystream has no flag the code knows.                        *)
parse(raw) ==
  LET first == Head(raw) IN
  IF first.pads # {} \/ first.base.kind \notin {"forward", "final"}
  THEN Err("InvalidRouting")
  ELSE IF first.base.kind = "forward"
  THEN [ok |-> TRUE, hop |-> "ForwardHop", address |-> first.base.address,
        delay |-> first.base.delay,
        routing_info |-> [slots |-> Tail(raw), integrity_mac |-> first.base.mac]]
  ELSE [ok |-> TRUE, hop |-> "FinalHop", destination |-> first.base.destination,
        identifier |-> first.base.identifier]
=============================================================================
