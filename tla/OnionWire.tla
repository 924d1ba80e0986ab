------------------------------ MODULE OnionWire ------------------------------
(***************************************************************************)
(* The bytes of an onion: how lib.rs serializes it, what a node reads back *)
(* from bytes that may have been altered on the way, and what it then does *)
(* with them.  OnionFormat takes header cells and sections as given; here  *)
(* their borders are themselves read from the bytes.                       *)
(*                                                                         *)
(* A link is [role, payload, lengths]: the role of the node at its end,    *)
(* the length of the payload the onion was formed with, and for a sender   *)
(* the lengths of the two paths that its meta holds.  It determines what   *)
(* was sent.  Ciphers and MACs are ideal: bytes that are not the ones that *)
(* were made decrypt to garbage, or have another tag.                      *)
(***************************************************************************)
EXTENDS WireBytes

CONSTANT MaxPathLength     \* OnionFormat.max_path_length

Format == INSTANCE OnionFormat

Err(e) == [ok |-> FALSE, err |-> e]

(* Slices out of bounds, told apart by where they are. *)
NoBlock         == Err("panic: header[0]")
ShortCiphertext == Err("panic: data[..32]")

-----------------------------------------------------------------------------
(* The meta of a hop: pack((key, Meta)), and what deserializing it gives.  *)

Role == <<"Sender", "Receiver", "Hop">>     \* numbered from 0 on the wire

next(link) ==
  IF link.role = "Sender"
  THEN LittleEndian(link.lengths.n_forward, 8) \o LittleEndian(link.lengths.n_backward, 8)
         \o LittleEndian(0, Format!ADDRESS_LENGTH - 16)
  ELSE Field("next", 0, Format!ADDRESS_LENGTH)

RoleNumber(role) == CHOOSE r \in 0 .. 2 : Role[r + 1] = role

PackMeta(link) ==
  Field("key", 0, Format!SYMMETRIC_KEY_LENGTH) \o LittleEndian(RoleNumber(link.role), 4)
    \o next(link)

ReadMeta(bytes) ==
  LET key  == ReadBytes(Format!SYMMETRIC_KEY_LENGTH, bytes)
      role == ReadBytes(4, key.rest)
      addr == ReadBytes(Format!ADDRESS_LENGTH, role.rest)
  IN  IF ~ key.ok \/ ~ role.ok \/ ~ addr.ok \/ ReadLittleEndian(role.value) > 2 THEN Short
      ELSE Got([role |-> Role[ReadLittleEndian(role.value) + 1], next |-> addr.value],
               addr.rest)

-----------------------------------------------------------------------------
(* The public-key ciphertext in a block: a point, and a vector. *)

asymmetric_encrypt(plain) ==
  Field("point", 0, Format!PointBytes) \o Vector(Field("sealed", 0, Len(plain)))

Garbage == <<>>

(* Mutant: the result of deserializing is unwrapped. *)
asymmetric_decrypt_unwrapping(plain, data) ==
  LET point  == ReadBytes(Format!PointBytes, data)
      sealed == ReadVector(point.rest)
  IN  IF ~ point.ok \/ ~ sealed.ok THEN ShortCiphertext
      ELSE Got(IF point.value \o Vector(sealed.value) = asymmetric_encrypt(plain)
               THEN plain ELSE Garbage, <<>>)

(* Bytes that are no point and a vector are hashed and sliced instead.  An *)
(* altered point may or may not be one; both ways lead to garbage.         *)
asymmetric_decrypt(plain, data) ==
  LET point  == ReadBytes(Format!PointBytes, data)
      sealed == ReadVector(point.rest)
  IN  IF ~ point.ok \/ ~ sealed.ok
      THEN IF Len(data) < Format!PointBytes + 8 THEN ShortCiphertext
           ELSE Got(Garbage, <<>>)
      ELSE Got(IF point.value \o Vector(sealed.value) = asymmetric_encrypt(plain)
               THEN plain ELSE Garbage, <<>>)

(* Header::structured, into_bytes and HeaderBlock::unpack: a tag and a     *)
(* vector.  A cell may go on after its block.                              *)
HeaderBlock(tag, data) == tag \o Vector(data)

unpack(cell) ==
  LET tag  == ReadBytes(Format!TagBytes, cell)
      data == ReadVector(tag.rest)
  IN  IF ~ tag.ok \/ ~ data.ok THEN Err("SerializationError")
      ELSE [ok |-> TRUE, tag |-> tag.value, data |-> data.value]

-----------------------------------------------------------------------------
(* What is sent over a link. *)

Cell(name, c) == Field(name, c, Format!single_header_length)

(* pack((header, payload)): what the forward section is in plain. *)
Message(link) ==
  Vectors([c \in 1 .. MaxPathLength |-> Cell("reply", c)])
    \o Vector(Field("payload", 0, link.payload))

(* On the way back the forward section is filler of a reckoned length. *)
ForwardLength(link) ==
  IF link.role = "Sender" THEN Format!total_header_length + 8 + link.payload
  ELSE Len(Message(link))

ciphertext(link) == asymmetric_encrypt(PackMeta(link))

Sent(link) ==
  [header   |-> <<HeaderBlock(Field("tag", 0, Format!TagBytes), ciphertext(link))>>
                  \o [c \in 1 .. MaxPathLength - 1 |-> Cell("cell", c + 1)],
   forward  |-> Field("forward", 0, ForwardLength(link)),
   backward |-> [vec |-> Field("backward", 0, link.payload),
                 tag |-> Field("backwardTag", 0, Format!TagBytes)]]

serialize(onion) ==
  Vectors(onion.header) \o Vector(onion.forward) \o Vector(onion.backward.vec)
    \o onion.backward.tag

deserialize(bytes) ==
  LET header  == ReadVectors(bytes)
      forward == ReadVector(header.rest)
      vec     == ReadVector(forward.rest)
      tag     == ReadBytes(Format!TagBytes, vec.rest)
  IN  IF ~ header.ok \/ ~ forward.ok \/ ~ vec.ok \/ ~ tag.ok THEN Err("SerializationError")
      ELSE [ok |-> TRUE,
            onion |-> [header |-> header.value, forward |-> forward.value,
                       backward |-> [vec |-> vec.value, tag |-> tag.value]]]

-----------------------------------------------------------------------------
(* What the node at the end of the link does. *)

(* Mutant: the MAC covers the header only. *)
MacInput_header_only(data, cells, forward) == Vector(data) \o Vectors(cells)

(* pack((header.data, &onion.header[1..], &onion.forward)). *)
MacInput(data, cells, forward) == Vector(data) \o Vectors(cells) \o Vector(forward)

tag(link, input) ==
  LET sent == Sent(link)
  IN  IF input = MacInput(ciphertext(link), Tail(sent.header), sent.forward)
      THEN Field("tag", 0, Format!TagBytes) ELSE Field("otherTag", 0, Format!TagBytes)

(* The wide-block cipher takes the tag and the section in front of which   *)
(* it stands as one block: each byte that comes out depends on all that    *)
(* went in, and there are as many.                                         *)
ae_unwrap(bwd) ==
  LET buffer == bwd.tag \o bwd.vec
      plain  == Field("unwrapped", buffer, Len(buffer))
  IN  [vec |-> Drop(Format!TagBytes, plain), tag |-> SubSeq(plain, 1, Format!TagBytes)]

(* The cells of the result stand for themselves after decryption. *)
unwrap(link, onion) ==
  LET block == unpack(onion.header[1])
      plain == asymmetric_decrypt(PackMeta(link), block.data)
      meta  == ReadMeta(plain.value)
      cells == Tail(onion.header)
  IN  IF onion.header = <<>> THEN NoBlock
      ELSE IF ~ block.ok THEN block
      ELSE IF ~ plain.ok THEN plain
      ELSE IF ~ meta.ok \/ block.tag # tag(link, MacInput(block.data, cells, onion.forward))
      THEN Err("MacMismatch")
      ELSE [ok |-> TRUE, meta |-> meta.value, cells |-> cells,
            backward |-> ae_unwrap(onion.backward)]

split_reply_header(message) ==
  LET header  == ReadVectors(message)
      payload == ReadVector(header.rest)
  IN  IF ~ header.ok \/ ~ payload.ok THEN Err("SerializationError")
      ELSE [ok |-> TRUE, header |-> header.value, payload |-> payload.value]

(* Onion::packed_header: no borders between the cells. *)
packed_header(onion) == FlattenSeq(onion.header)

accept_reply(link, lengths, onion) ==
  IF packed_header(onion) # packed_header(Sent(link)) THEN Err("UnexpectedReply")
  ELSE IF onion.backward # Sent(link).backward THEN Err("AeError")
  ELSE [ok |-> TRUE, role |-> "Sender",
        lengths |-> [n_forward  |-> ReadLittleEndian(SubSeq(lengths, 1, 8)),
                     n_backward |-> ReadLittleEndian(SubSeq(lengths, 9, 16))]]

proc_onion(link, onion) ==
  LET peeled  == unwrap(link, onion)
      meta    == peeled.meta
      message == split_reply_header(Message(link))
  IN  IF ~ peeled.ok THEN peeled
      ELSE CASE meta.role = "Hop" ->
                  [ok |-> TRUE, role |-> "Hop", next |-> meta.next, cells |-> peeled.cells,
                   forward |-> onion.forward, backward |-> peeled.backward]
             [] meta.role = "Receiver" ->
                  IF ~ message.ok THEN message
                  ELSE [ok |-> TRUE, role |-> "Receiver", payload |-> message.payload]
             [] meta.role = "Sender" -> accept_reply(link, meta.next, onion)

(* The MAC of the reply's ciphertext, combined with the tag mu.            *)
ae_enc(mu, payload) ==
  [vec |-> Field("encrypted", payload, Len(payload)),
   tag |-> Field("combined", <<mu, payload>>, Format!TagBytes)]

reply_onion(link, onion, payload) ==
  LET peeled  == unwrap(link, onion)
      message == split_reply_header(Message(link))
  IN  IF ~ peeled.ok THEN peeled
      ELSE IF peeled.meta.role # "Receiver" THEN Err("NotTheReceiver")
      ELSE IF ~ message.ok THEN message
      ELSE [ok |-> TRUE, next |-> peeled.meta.next, header |-> message.header,
            forward |-> Field("filler", 0, Len(onion.forward)),
            backward |-> ae_enc(peeled.backward.tag, payload)]
=============================================================================
