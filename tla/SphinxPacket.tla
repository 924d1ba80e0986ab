----------------------------- MODULE SphinxPacket -----------------------------
(***************************************************************************)
(* Sphinx packets and single use reply blocks: what sphinx/src/packet,     *)
(* sphinx/src/surb and sphinx/src/header/mod.rs do with the parts of       *)
(* SphinxFormat.  A result is [ok |-> TRUE, ...] or Err(ErrorKind), and    *)
(* Err("panic") where the code panics; Option<T> is a set of at most one.  *)
(* The bytes of a packet travel as the packet, those of a SURB as the      *)
(* SURB: only lengths can make from_bytes fail.                            *)
(***************************************************************************)
EXTENDS SphinxFormat
LOCAL INSTANCE SequencesExt

Some(x) == {x}
None    == {}

-----------------------------------------------------------------------------
(* Headers. *)

(* A failed assertion of Filler::new, of EncapsulatedRoutingInformation or *)
(* of FinalRoutingInformation, or a difference of lengths below zero; with *)
(* wrapping arithmetic the padding's size is beyond any allocation.        *)
HeaderPanics(route, delays) ==
  LET n == Len(route) IN
  \/ n = 0
  \/ n - 1 > MAX_PATH_LENGTH
  \/ Len(delays) # n
  \/ DESTINATION_ADDRESS_LENGTH > max_destination_length(n)
  \/ padding_length(n) < 0

(* SphinxHeader::new; rng stands for the coins of the padding. *)
new_header(initial_secret, route, delays, dest, rng) ==
  LET keys == routing_keys(route, initial_secret)
  IN  IF HeaderPanics(route, delays) THEN Err("panic")
      ELSE [ok |-> TRUE,
            header |-> [shared_secret |-> initial_secret,
                        routing_info |->
                          EncapsulatedRoutingInformation(route, dest, delays, keys,
                                                         Filler(Front(keys)), rng)],
            payload_keys |-> [i \in DOMAIN keys |-> keys[i].payload_key]]

compute_routing_keys(shared_secret, node_secret_key) ==
  derive(diffie_hellman(node_secret_key, shared_secret))

verify(integrity_mac, key, slots) == integrity_mac = compute(key, slots)

(* What both ways of processing do once they have the keys. *)
ProcessedHeader(header, new_blinded_secret, keys) ==
  LET info   == header.routing_info
      parsed == parse(unwrap(info.slots, keys.stream_cipher_key))
  IN  IF ~ verify(info.integrity_mac, keys.header_integrity_hmac_key, info.slots)
      THEN Err("InvalidHeader")
      ELSE IF ~ parsed.ok THEN parsed
      ELSE IF parsed.hop = "FinalHop"
      THEN [ok |-> TRUE, hop |-> "FinalHop", destination |-> parsed.destination,
            identifier |-> parsed.identifier, payload_key |-> keys.payload_key]
      ELSE IF new_blinded_secret = None THEN Err("InvalidHeader")
      ELSE [ok |-> TRUE, hop |-> "ForwardHop",
            header |-> [shared_secret |-> CHOOSE s \in new_blinded_secret : TRUE,
                        routing_info |-> parsed.routing_info],
            address |-> parsed.address, delay |-> parsed.delay,
            payload_key |-> keys.payload_key]

(* SphinxHeader::process. *)
process_header(header, node_secret_key) ==
  LET keys == compute_routing_keys(header.shared_secret, node_secret_key)
  IN  ProcessedHeader(header,
        Some(blind_the_shared_secret(header.shared_secret, keys.blinding_factor)), keys)

(* Mutant: the MAC is not verified again. *)
process_header_with_derived_keys_unverified(header, new_blinded_secret, keys) ==
  LET info == header.routing_info
      mac  == compute(keys.header_integrity_hmac_key, info.slots)
  IN  ProcessedHeader([header EXCEPT !.routing_info.integrity_mac = mac],
                      new_blinded_secret, keys)

(* SphinxHeader::process_with_derived_keys, which panics where process     *)
(* reports that the flag is unknown.                                       *)
process_header_with_derived_keys(header, new_blinded_secret, keys) ==
  LET processed == ProcessedHeader(header, new_blinded_secret, keys)
  IN  IF processed = Err("InvalidRouting") THEN Err("panic") ELSE processed

-----------------------------------------------------------------------------
(* Payloads: a wide-block cipher over the whole payload. *)

(* Lioness refuses what is no longer than its digest. *)
Lioness(dir, key, payload) ==
  IF payload.len <= 32 THEN Err("InvalidPayload")
  ELSE [ok |-> TRUE, payload |-> Cipher(dir, key, "lioness", payload)]

add_encryption_layer(payload, key) == Lioness("enc", key, payload)
unwrap_payload(payload, key)       == Lioness("dec", key, payload)

(* The payload with the layers of the keys from i on; no layer, no payload. *)
encryption_layers(plain, payload_keys) ==
  LET n == Len(payload_keys)
      under[i \in 1 .. n + 1] ==
        IF i = n + 1 THEN plain
        ELSE IF ~ under[i + 1].ok THEN under[i + 1]
        ELSE add_encryption_layer(under[i + 1].payload, payload_keys[i])
  IN  under

encapsulate_message(message, payload_keys, payload_size) ==
  LET plain == [ok |-> TRUE,
                payload |-> Bytes([kind |-> "payload", message |-> message], payload_size)]
  IN  IF ~ Payload!validate_parameters(payload_size, message.len)
      THEN Err("InvalidPayload")
      ELSE encryption_layers(plain, payload_keys)[1]

(* Mutant: the leading zeroes are not looked at. *)
recover_plaintext_unchecked(payload) ==
  [ok |-> TRUE, plaintext |-> IF payload.layers = <<>> THEN payload.base.message ELSE payload]

(* Bytes that are no payload do not begin with 16 zeroes.                  *)
recover_plaintext(payload) ==
  IF payload.layers = <<>> /\ payload.base.kind = "payload"
  THEN [ok |-> TRUE, plaintext |-> payload.base.message]
  ELSE Err("InvalidPayload")

-----------------------------------------------------------------------------
(* Packets. *)

(* SphinxPacketBuilder::build_packet. *)
build_packet(message, payload_size, initial_secret, route, dest, delays, rng) ==
  LET built   == new_header(initial_secret, route, delays, dest, rng)
      payload == encapsulate_message(message, built.payload_keys, payload_size)
  IN  IF ~ built.ok THEN built
      ELSE IF ~ payload.ok THEN payload
      ELSE [ok |-> TRUE, packet |-> [header |-> built.header, payload |-> payload.payload]]

(* Both ways of processing a packet, from the processed header on. *)
ProcessedPacket(unwrapped_header, payload) ==
  LET new_payload == unwrap_payload(payload, unwrapped_header.payload_key)
  IN  IF ~ unwrapped_header.ok THEN unwrapped_header
      ELSE IF ~ new_payload.ok THEN new_payload
      ELSE IF unwrapped_header.hop = "ForwardHop"
      THEN [ok |-> TRUE, hop |-> "ForwardHop",
            packet |-> [header |-> unwrapped_header.header, payload |-> new_payload.payload],
            address |-> unwrapped_header.address, delay |-> unwrapped_header.delay]
      ELSE [ok |-> TRUE, hop |-> "FinalHop", destination |-> unwrapped_header.destination,
            identifier |-> unwrapped_header.identifier, payload |-> new_payload.payload]

process(packet, node_secret_key) ==
  ProcessedPacket(process_header(packet.header, node_secret_key), packet.payload)

process_with_derived_keys(packet, new_blinded_secret, keys) ==
  ProcessedPacket(
    process_header_with_derived_keys(packet.header, new_blinded_secret, keys), packet.payload)

(* ProcessedPacket::shared_secret: what a node may remember for the next   *)
(* packet under the same secret.                                           *)
shared_secret(processed) ==
  IF processed.hop = "ForwardHop" THEN Some(processed.packet.header.shared_secret) ELSE None

(* SphinxPacket::from_bytes on the bytes of packet, which may be cut short. *)
packet_from_bytes(packet) ==
  IF packet.payload.len < Payload!PAYLOAD_OVERHEAD_SIZE THEN Err("InvalidPacket")
  ELSE [ok |-> TRUE, packet |-> packet]

-----------------------------------------------------------------------------
(* Single use reply blocks. *)

(* SURB::new. *)
new_SURB(initial_secret, route, delays, dest, rng) ==
  LET built == new_header(initial_secret, route, delays, dest, rng)
  IN  IF Len(route) = 0 \/ Len(route) # Len(delays) THEN Err("InvalidSURB")
      ELSE IF ~ built.ok THEN built
      ELSE [ok |-> TRUE,
            surb |-> [SURB_header |-> built.header, first_hop_address |-> route[1].address,
                      payload_keys |-> built.payload_keys]]

use_surb(surb, plaintext_message, payload_size) ==
  LET payload == encapsulate_message(plaintext_message, surb.payload_keys, payload_size)
  IN  IF ~ payload.ok THEN payload
      ELSE [ok |-> TRUE, address |-> surb.first_hop_address,
            packet |-> [header |-> surb.SURB_header, payload |-> payload.payload]]

(* SURB::from_bytes on the bytes of surb cut after some of its keys, with  *)
(* or without a part of the next key.                                      *)
surb_from_bytes(surb, whole_keys, ragged) ==
  IF whole_keys = 0 \/ ragged THEN Err("InvalidSURB")
  ELSE [ok |-> TRUE,
        surb |-> [surb EXCEPT !.payload_keys = SubSeq(@, 1, whole_keys)]]
=============================================================================
