------------------------------ MODULE WireTrip ------------------------------
(***************************************************************************)
(* Something is serialized, sent, and read by whoever gets it.  On the way *)
(* one byte may be altered, the end cut off, or a byte appended.  An onion *)
(* is read and processed by the node at the end of its link; the artefacts *)
(* of the Sphinx format are read back with their from_bytes.  A layer is   *)
(* what a Sphinx node finds under its layer of the header: it does not     *)
(* cross the network.  As in examples/create_onion.rs a receiver answers   *)
(* at once.                                                                *)
(***************************************************************************)
EXTENDS OnionWire

CONSTANTS
  PayloadLengths,     \* of onions
  AlteredValues       \* bound: the values a byte of a number may change to,
                      \* besides one more and one less

ASSUME WireAssumption ==
  /\ MaxPathLength \in Nat \ {0}
  /\ PayloadLengths \subseteq Nat /\ AlteredValues \subseteq 0 .. 255

(* The bound that WireBytes puts on lengths: an onion is shorter, with a   *)
(* byte appended as well.                                                  *)
ASSUME LengthsAssumption ==
  \A p \in PayloadLengths : 2 * (Format!total_header_length + p) + 41 < TooLarge

Sphinx == INSTANCE SphinxWire WITH MAX_PATH_LENGTH <- MaxPathLength

VARIABLES
  artefact,     \* what is sent
  change,       \* what happened to it: [kind, at, byte]
  result        \* what the reader makes of it

vars == <<artefact, change, result>>

-----------------------------------------------------------------------------
Links ==
  [role : {"Hop", "Receiver", "Sender"}, payload : PayloadLengths,
   lengths : {[n_forward |-> 1, n_backward |-> MaxPathLength]}]

Routing ==
  [mac |-> Field("mac", 0, Sphinx!HEADER_INTEGRITY_MAC_SIZE),
   enc |-> Field("enc", 0, Sphinx!Format!ENCRYPTED_ROUTING_INFO_SIZE)]

SphinxHeader ==
  [shared_secret |-> Field("secret", 0, Sphinx!SHARED_SECRET_LENGTH), routing |-> Routing]

Address == Field("address", 0, Sphinx!NODE_ADDRESS_LENGTH)

Values ==
  [address |-> Address,
   routing |-> Routing,
   header  |-> SphinxHeader,
   surb    |-> [header |-> SphinxHeader, first_hop |-> Address,
                payload_keys |-> [k \in 1 .. MaxPathLength |->
                                    Field("key", k, Sphinx!PAYLOAD_KEY_SIZE)]],
   packet  |-> [header |-> SphinxHeader, payload |-> Field("payload", 0, 33)]]

to_bytes(kind, value) ==
  CASE kind = "address" -> value
    [] kind = "routing" -> Sphinx!routing_to_bytes(value)
    [] kind = "header"  -> Sphinx!header_to_bytes(value)
    [] kind = "surb"    -> Sphinx!surb_to_bytes(value)
    [] kind = "packet"  -> Sphinx!packet_to_bytes(value)

from_bytes(kind, bytes) ==
  CASE kind = "address" -> Sphinx!try_from_byte_slice(bytes)
    [] kind = "routing" -> Sphinx!routing_from_bytes(bytes)
    [] kind = "header"  -> Sphinx!header_from_bytes(bytes)
    [] kind = "surb"    -> Sphinx!surb_from_bytes(bytes)
    [] kind = "packet"  -> Sphinx!packet_from_bytes(bytes)

Onions    == [kind : {"onion"}, link : Links]
Artefacts == [kind : DOMAIN Values]

Delay == 70000

(* What a node of the route, or its last one, finds under its layer. *)
Layers ==
  {l \in [kind : {"layer"}, route_len : 1 .. MaxPathLength, hop : 1 .. MaxPathLength] :
     l.hop <= l.route_len}

Identifier == Field("id", 0, Sphinx!IDENTIFIER_LENGTH)

layer(l) ==
  IF l.hop < l.route_len THEN Sphinx!RoutingInformation(Address, Delay, Routing)
  ELSE Sphinx!FinalRoutingInformation(Address, Identifier, l.route_len)

-----------------------------------------------------------------------------
replyy == Field("replyy", 0, 6)

(* One turn of the example's loop: a receiver gives reply_onion the onion  *)
(* that it has given proc_onion.                                           *)
Handled(link, onion) ==
  LET processed == proc_onion(link, onion)
      reply     == reply_onion(link, onion, replyy)
  IN  IF ~ processed.ok \/ processed.role # "Receiver" THEN processed
      ELSE IF ~ reply.ok THEN reply
      ELSE [ok |-> TRUE, role |-> "Receiver", payload |-> processed.payload, reply |-> reply]

SentBytes(a) ==
  IF a.kind = "onion" THEN serialize(Sent(a.link)) ELSE to_bytes(a.kind, Values[a.kind])

Received ==
  LET bytes == SentBytes(artefact) IN
  CASE change.kind = "none"   -> bytes
    [] change.kind = "alter"  -> [bytes EXCEPT ![change.at] = change.byte]
    [] change.kind = "cut"    -> SubSeq(bytes, 1, change.at)
    [] change.kind = "append" -> Append(bytes, change.byte)

altered == <<"altered", 0, 0>>

(* What byte can become. *)
Others(byte) ==
  IF byte[1] # "#" THEN {altered} \ {byte}
  ELSE {NumberByte(v) : v \in (AlteredValues \cup {byte[3] - 1, byte[3] + 1}) \ {byte[3]}}
         \ {NumberByte(-1), NumberByte(256)}

Untouched == [kind |-> "none", at |-> 0, byte |-> altered]
Pending   == [pending |-> TRUE]

OnTheWire ==
  artefact.kind \in {"onion"} \cup DOMAIN Values /\ change = Untouched /\ result = Pending

Init ==
  /\ artefact \in Onions \cup Artefacts \cup Layers
  /\ change = Untouched /\ result = Pending

Alter ==
  /\ OnTheWire
  /\ LET bytes == SentBytes(artefact)
     IN  \E i \in DOMAIN bytes : \E b \in Others(bytes[i]) :
           change' = [kind |-> "alter", at |-> i, byte |-> b]
  /\ UNCHANGED <<artefact, result>>

Cut ==
  /\ OnTheWire
  /\ \E n \in 0 .. Len(SentBytes(artefact)) - 1 :
       change' = [kind |-> "cut", at |-> n, byte |-> altered]
  /\ UNCHANGED <<artefact, result>>

Extend ==
  /\ OnTheWire
  /\ change' = [kind |-> "append", at |-> 0, byte |-> altered]
  /\ UNCHANGED <<artefact, result>>

ReadOnion ==
  /\ result = Pending /\ artefact.kind = "onion"
  /\ LET read == deserialize(Received)
     IN  result' = IF read.ok THEN Handled(artefact.link, read.onion) ELSE read
  /\ UNCHANGED <<artefact, change>>

ReadArtefact ==
  /\ result = Pending /\ artefact.kind \in DOMAIN Values
  /\ result' = from_bytes(artefact.kind, Received)
  /\ UNCHANGED <<artefact, change>>

(* An address may come as text.  What is no base58 any more is no address. *)
ReadAddressString ==
  /\ result = Pending /\ artefact.kind = "address"
  /\ \E decoded \in {Sphinx!Ok(Received)}
                     \cup {failed \in {Sphinx!Err("bs58")} : change # Untouched} :
       result' = Sphinx!try_from_base58_string(decoded)
  /\ UNCHANGED <<artefact, change>>

ReadLayer ==
  /\ result = Pending /\ artefact.kind = "layer"
  /\ result' = Sphinx!parse(Sphinx!add_zero_padding(layer(artefact)))
  /\ UNCHANGED <<artefact, change>>

Done == result # Pending /\ UNCHANGED vars

Next ==
  \/ Alter \/ Cut \/ Extend
  \/ ReadOnion \/ ReadArtefact \/ ReadAddressString
  \/ ReadLayer \/ Done

Spec == Init /\ [][Next]_vars

-----------------------------------------------------------------------------
Has(kind) == artefact.kind = kind /\ result # Pending

AsSent == Handled(artefact.link, Sent(artefact.link))

(* The bytes of the backward section, with the length in front of them.    *)
InBackward(i) ==
  LET sent == Sent(artefact.link)
  IN  i > Len(Vectors(sent.header) \o Vector(sent.forward))

(* Whatever byte of an onion was altered, borders between its parts        *)
(* included, and whatever was cut off or appended: a node that does not    *)
(* refuse it does with it what it would have done with the onion sent, but *)
(* that it takes the backward section as it reads it.  For the tag covers  *)
(* the other parts and their borders, and nobody but the sender can check  *)
(* that section or its length: a hop passes an altered one on, a receiver  *)
(* works it into its reply, and a sender accepts nothing that was altered. *)
(* (The test test_backward_payload_tagging.)                               *)
ProcessedAsSent ==
  Has("onion") /\ result.ok =>
    /\ result = Handled(artefact.link,
                        [Sent(artefact.link) EXCEPT
                           !.backward = deserialize(Received).onion.backward])
    /\ change.kind = "alter" => InBackward(change.at) /\ artefact.link.role # "Sender"

(* Where the onion's bytes have a length that the reader goes by before    *)
(* the tag is checked: the number of cells, and the length of the first    *)
(* block's ciphertext.                                                     *)
CellCount        == 1 .. 8
CiphertextLength == 33 .. 40

(* How an onion that was changed is refused.  One that was cut short is    *)
(* never taken apart; one that goes on is taken as it was sent; and        *)
(* altered bytes that are no length fail the tag of this node or, in the   *)
(* backward section, that of the sender and of nobody before.  Only the    *)
(* two lengths above can make a node read out of bounds, the point and the *)
(* ciphertext itself can not.                                              *)
RefusalsExplained ==
  Has("onion") =>
    /\ change.kind = "cut" => result = Err("SerializationError")
    /\ change.kind \in {"none", "append"} => result = AsSent
    /\ change.byte = altered /\ change.kind = "alter" =>
         IF ~ InBackward(change.at) THEN result = Err("MacMismatch")
         ELSE IF artefact.link.role = "Sender" THEN result = Err("AeError")
         ELSE result.ok
    /\ result = NoBlock => change.at \in CellCount
    /\ result = ShortCiphertext => change.at \in CiphertextLength

(* What a reader accepts is no more and no less than what it was given:    *)
(* written out again it is, for Sphinx, the same bytes and, for an onion,  *)
(* the same bytes up to where the onion ends.  No field is read from       *)
(* another's place and none is dropped.                                    *)
AcceptedIsCanonical ==
  /\ Has("onion") =>
       LET read == deserialize(Received)
       IN  read.ok => IsPrefix(serialize(read.onion), Received)
  /\ result # Pending /\ artefact.kind \in DOMAIN Values /\ result.ok =>
       to_bytes(artefact.kind, result.value) = Received

(* Something that was cut off is noticed, but for two cases: a packet that *)
(* has lost bytes of its payload only, and a SURB that has lost whole keys *)
(* and still has one.                                                      *)
CutIsNoticed ==
  result # Pending /\ change.kind = "cut" /\ result.ok =>
    \/ artefact.kind = "packet" /\ result.value.header = SphinxHeader
    \/ /\ artefact.kind = "surb"
       /\ result.value.header = SphinxHeader /\ result.value.first_hop = Address
       /\ result.value.payload_keys # <<>>
       /\ IsPrefix(result.value.payload_keys, Values.surb.payload_keys)

(* Under its layer a node finds what was written for it and, behind it,    *)
(* the next node's part, one slot shorter and filled up with zeroes; the   *)
(* last node finds the destination, wherever the route ends.  Its own part *)
(* is one slot, as SphinxFormat has it.                                    *)
HopReadsItsOwn ==
  Has("layer") =>
    /\ Len(layer(artefact)) = Sphinx!Format!ENCRYPTED_ROUTING_INFO_SIZE
    /\ result.value =
         IF artefact.hop < artefact.route_len
         THEN [hop |-> "ForwardHop", address |-> Address, delay |-> Delay,
               mac |-> Routing.mac,
               enc |-> Sphinx!add_zero_padding(Sphinx!truncate(Routing.enc))]
         ELSE [hop |-> "FinalHop", destination |-> Address, identifier |-> Identifier]

-----------------------------------------------------------------------------
(* A comment of primitives.rs, taken at its word.                          *)

(* asymmetric_decrypt is commented with: if we get bytes that do not       *)
(* represent a valid point we do not want to crash, and return garbage.    *)
GarbageNotCrash == Has("onion") => result # ShortCiphertext
=============================================================================
