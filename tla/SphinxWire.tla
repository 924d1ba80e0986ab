----------------------------- MODULE SphinxWire -----------------------------
(***************************************************************************)
(* The bytes of the Sphinx format: how headers, routing information, SURBs *)
(* and packets are written and read back, each slice at the offset the     *)
(* code gives it.  All fields have fixed places; only a SURB and a packet  *)
(* have a length of their own.  SphinxFormat counts in slots of 60 bytes   *)
(* and leaves the layout of a slot to this module.                         *)
(***************************************************************************)
EXTENDS WireBytes

CONSTANT MAX_PATH_LENGTH

Format == INSTANCE SphinxFormat

Err(kind) == [ok |-> FALSE, err |-> kind]
Ok(value) == [ok |-> TRUE, value |-> value]

HEADER_INTEGRITY_MAC_SIZE == 16
NODE_ADDRESS_LENGTH       == 32
IDENTIFIER_LENGTH         == 16
PAYLOAD_KEY_SIZE          == 192
DELAY_LENGTH              == 8
VERSION_LENGTH            == 3
SHARED_SECRET_LENGTH      == 32

FORWARD_HOP == 1
FINAL_HOP   == 2

ROUTING_SIZE == HEADER_INTEGRITY_MAC_SIZE + Format!ENCRYPTED_ROUTING_INFO_SIZE
HEADER_SIZE  == SHARED_SECRET_LENGTH + ROUTING_SIZE

(* bytes[from .. to], in the code's numbering. *)
Slice(bytes, from, to) == SubSeq(bytes, from + 1, to)

BigEndian(v, width) == Reverse(LittleEndian(v, width))

Zeroes(n) == [i \in 1 .. n |-> NumberByte(0)]

-----------------------------------------------------------------------------
(* Addresses.  The base58 decoder is another crate's: its result is the    *)
(* bytes it found, or an error.                                            *)

try_from_byte_slice(bytes) ==
  IF Len(bytes) # NODE_ADDRESS_LENGTH THEN Err("InvalidRouting") ELSE Ok(bytes)

try_from_base58_string(decoded) ==
  IF ~ decoded.ok THEN Err("InvalidRouting") ELSE try_from_byte_slice(decoded.value)

-----------------------------------------------------------------------------
(* What is under a layer of the header.  The version is that of the crate. *)

Version == <<NumberByte(0), NumberByte(1), NumberByte(0)>>

truncate(enc) ==
  Slice(enc, 0, Format!ENCRYPTED_ROUTING_INFO_SIZE - Format!FILLER_STEP_SIZE_INCREASE)

(* RoutingInformation::new and concatenate_components. *)
RoutingInformation(address, delay, next) ==
  <<NumberByte(FORWARD_HOP)>> \o Version \o address \o BigEndian(delay, DELAY_LENGTH)
    \o next.mac \o truncate(next.enc)

(* FinalRoutingInformation::add_padding, and combine_with_filler. *)
FinalRoutingInformation(destination, identifier, route_len) ==
  <<NumberByte(FINAL_HOP)>> \o Version \o destination \o identifier
    \o Field("padding", 0, Format!padding_length(route_len))
    \o Field("filler", 0, Format!FILLER_STEP_SIZE_INCREASE * (route_len - 1))

add_zero_padding(enc) == enc \o Zeroes(Format!FILLER_STEP_SIZE_INCREASE)

ReadBigEndian(bytes) == ReadLittleEndian(Reverse(bytes))

(* Mutant: the version, which nothing uses, is not skipped. *)
parse_as_forward_hop_unversioned(raw) ==
  LET address == 1
      delay   == address + NODE_ADDRESS_LENGTH
      mac     == delay + DELAY_LENGTH
      enc     == mac + HEADER_INTEGRITY_MAC_SIZE
  IN  [hop     |-> "ForwardHop",
       address |-> Slice(raw, address, delay),
       delay   |-> ReadBigEndian(Slice(raw, delay, mac)),
       mac     |-> Slice(raw, mac, enc),
       enc     |-> Slice(raw, enc, enc + Format!ENCRYPTED_ROUTING_INFO_SIZE)]

parse_as_forward_hop(raw) ==
  LET address == 1 + VERSION_LENGTH
      delay   == address + NODE_ADDRESS_LENGTH
      mac     == delay + DELAY_LENGTH
      enc     == mac + HEADER_INTEGRITY_MAC_SIZE
  IN  [hop     |-> "ForwardHop",
       address |-> Slice(raw, address, delay),
       delay   |-> ReadBigEndian(Slice(raw, delay, mac)),
       mac     |-> Slice(raw, mac, enc),
       enc     |-> Slice(raw, enc, enc + Format!ENCRYPTED_ROUTING_INFO_SIZE)]

parse_as_final_hop(raw) ==
  LET destination == 1 + VERSION_LENGTH
      identifier  == destination + Format!DESTINATION_ADDRESS_LENGTH
  IN  [hop         |-> "FinalHop",
       destination |-> Slice(raw, destination, identifier),
       identifier  |-> Slice(raw, identifier, identifier + HEADER_INTEGRITY_MAC_SIZE)]

parse(raw) ==
  IF raw[1] = NumberByte(FORWARD_HOP) THEN Ok(parse_as_forward_hop(raw))
  ELSE IF raw[1] = NumberByte(FINAL_HOP) THEN Ok(parse_as_final_hop(raw))
  ELSE Err("InvalidRouting")

-----------------------------------------------------------------------------
(* Headers. *)

routing_to_bytes(routing) == routing.mac \o routing.enc

(* Mutant: both parts are read from the start. *)
routing_from_bytes_overlapping(bytes) ==
  IF Len(bytes) # ROUTING_SIZE THEN Err("InvalidRouting")
  ELSE Ok([mac |-> Slice(bytes, 0, HEADER_INTEGRITY_MAC_SIZE),
           enc |-> Slice(bytes, 0, Format!ENCRYPTED_ROUTING_INFO_SIZE)])

routing_from_bytes(bytes) ==
  IF Len(bytes) # ROUTING_SIZE THEN Err("InvalidRouting")
  ELSE Ok([mac |-> Slice(bytes, 0, HEADER_INTEGRITY_MAC_SIZE),
           enc |-> Slice(bytes, HEADER_INTEGRITY_MAC_SIZE, ROUTING_SIZE)])

header_to_bytes(header) == header.shared_secret \o routing_to_bytes(header.routing)

header_from_bytes(bytes) ==
  LET routing == routing_from_bytes(Slice(bytes, SHARED_SECRET_LENGTH, HEADER_SIZE))
  IN  IF Len(bytes) # HEADER_SIZE THEN Err("InvalidHeader")
      ELSE IF ~ routing.ok THEN routing
      ELSE Ok([shared_secret |-> Slice(bytes, 0, SHARED_SECRET_LENGTH),
               routing |-> routing.value])

-----------------------------------------------------------------------------
(* SURBs and packets. *)

surb_to_bytes(surb) ==
  header_to_bytes(surb.header) \o surb.first_hop \o FlattenSeq(surb.payload_keys)

(* Mutant: a SURB may be without keys. *)
surb_from_bytes_keyless(bytes) ==
  LET keys      == Drop(HEADER_SIZE + NODE_ADDRESS_LENGTH, bytes)
      header    == header_from_bytes(Slice(bytes, 0, HEADER_SIZE))
      first_hop == try_from_byte_slice(
                     Slice(bytes, HEADER_SIZE, HEADER_SIZE + NODE_ADDRESS_LENGTH))
  IN  IF Len(bytes) < HEADER_SIZE + NODE_ADDRESS_LENGTH \/ Len(keys) % PAYLOAD_KEY_SIZE # 0
      THEN Err("InvalidSURB")
      ELSE Ok([header |-> header.value, first_hop |-> first_hop.value,
               payload_keys |->
                 [k \in 1 .. Len(keys) \div PAYLOAD_KEY_SIZE |->
                    Slice(keys, (k - 1) * PAYLOAD_KEY_SIZE, k * PAYLOAD_KEY_SIZE)]])

surb_from_bytes(bytes) ==
  LET keys      == Drop(HEADER_SIZE + NODE_ADDRESS_LENGTH, bytes)
      header    == header_from_bytes(Slice(bytes, 0, HEADER_SIZE))
      first_hop == try_from_byte_slice(
                     Slice(bytes, HEADER_SIZE, HEADER_SIZE + NODE_ADDRESS_LENGTH))
  IN  IF Len(bytes) < HEADER_SIZE + NODE_ADDRESS_LENGTH + PAYLOAD_KEY_SIZE
         \/ Len(keys) % PAYLOAD_KEY_SIZE # 0
      THEN Err("InvalidSURB")
      ELSE IF ~ header.ok THEN header
      ELSE IF ~ first_hop.ok THEN first_hop
      ELSE Ok([header |-> header.value, first_hop |-> first_hop.value,
               payload_keys |->
                 [k \in 1 .. Len(keys) \div PAYLOAD_KEY_SIZE |->
                    Slice(keys, (k - 1) * PAYLOAD_KEY_SIZE, k * PAYLOAD_KEY_SIZE)]])

packet_to_bytes(packet) == header_to_bytes(packet.header) \o packet.payload

packet_from_bytes(bytes) ==
  LET header  == header_from_bytes(Slice(bytes, 0, HEADER_SIZE))
      payload == Format!Payload!from_bytes(Drop(HEADER_SIZE, bytes))
  IN  IF Len(bytes) < HEADER_SIZE + Format!Payload!PAYLOAD_OVERHEAD_SIZE
      THEN Err("InvalidPacket")
      ELSE IF ~ header.ok THEN header
      ELSE IF ~ payload.ok THEN payload
      ELSE Ok([header |-> header.value, payload |-> payload.payload])
=============================================================================
