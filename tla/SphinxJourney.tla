---------------------------- MODULE SphinxJourney ----------------------------
(***************************************************************************)
(* Sphinx packets on their way: a sender builds a packet, or hands out a   *)
(* SURB with which another builds it, and node after node takes the bytes  *)
(* and processes them, as the tests in sphinx/tests/integration_test.rs do *)
(* step by step.  Once per packet, the network may alter it in one place.  *)
(*                                                                         *)
(* A sender may use its initial secret for a second packet, over a route   *)
(* that forks off the first one anywhere.  Nodes remember, by the shared   *)
(* secret of the packet, the routing keys and the blinded secret, for      *)
(* process_with_derived_keys: the use that its comment suggests.           *)
(***************************************************************************)
EXTENDS SphinxPacket

CONSTANTS
  MessageLengths, PayloadSizes,    \* what callers try
  CutLengths,                      \* to how many bytes a payload may be cut
  MaxPackets                       \* bound: packets under one initial secret

ASSUME JourneyAssumption ==
  /\ MessageLengths \subseteq Nat /\ PayloadSizes \subseteq Nat /\ CutLengths \subseteq Nat
  /\ MaxPackets \in {1, 2}

VARIABLES
  sent,          \* which packet it is
  job,           \* [surb, n, fork, delays, message, size]: what its sender asks for
  surbs,         \* the SURB that was handed out, as a set of at most one
  whole_keys,    \* how many payload keys the packet was built with
  links,         \* the packet as it was on each link so far
  address, hop,  \* where it is, and the how manieth node that is
  delay,         \* the delay the node before was told
  fault,         \* [part, at]: what the network altered, on which link
  cache,         \* what each node remembers, by shared secret
  received,      \* what the last node handed out, as a set of at most one
  outcome        \* "new", "travels", "delivered" or an ErrorKind

vars == <<sent, job, surbs, whole_keys, links, address, hop, delay, fault, cache,
          received, outcome>>

-----------------------------------------------------------------------------
Lines == {"a", "b"}
Nodes == Lines \X (1 .. MAX_PATH_LENGTH + 1)

Node(name) == [address |-> name, pub_key |-> PrivateKey(name)]

(* The route leaves line a for line b at its fork. *)
route == [i \in 1 .. job.n |-> Node(<<IF i < job.fork THEN "a" ELSE "b", i>>)]

delays  == [i \in 1 .. job.delays |-> <<sent, i>>]
dest    == [address |-> "destination", identifier |-> sent]
message == [packet |-> sent, len |-> job.message]

initial_secret == PrivateKey(<<"sender", 1>>)

Lengths == 0 .. MAX_PATH_LENGTH + 1

Jobs ==
  {[surb |-> s, n |-> n, fork |-> MAX_PATH_LENGTH + 2, delays |-> d, message |-> m,
    size |-> p] :
     s \in BOOLEAN, n \in Lengths, d \in Lengths, m \in MessageLengths, p \in PayloadSizes}

NoFault == [part |-> <<"none", 0>>, at |-> 0]

packet == links[hop]

Init ==
  /\ sent = 1
  /\ job \in {j \in Jobs : j.delays \in {j.n - 1, j.n}}
  /\ surbs = {} /\ whole_keys = 0 /\ links = <<>>
  /\ address = <<"a", 1>> /\ hop = 1 /\ delay = <<0, 0>>
  /\ fault = NoFault
  /\ cache = [n \in Nodes |-> <<>>]
  /\ received = {}
  /\ outcome = "new"

-----------------------------------------------------------------------------
(* Building packets. *)

build ==
  build_packet(message, job.size, initial_secret, route, dest, delays, <<"coins", sent>>)

Build ==
  /\ outcome = "new" /\ ~ job.surb
  /\ build.ok
  /\ links' = <<build.packet>>
  /\ address' = route[1].address
  /\ whole_keys' = job.n
  /\ outcome' = "travels"
  /\ UNCHANGED <<sent, job, surbs, hop, delay, fault, cache, received>>

BuildFails ==
  /\ outcome = "new" /\ ~ job.surb
  /\ ~ build.ok
  /\ outcome' = build.err
  /\ UNCHANGED <<sent, job, surbs, whole_keys, links, address, hop, delay, fault, cache, received>>

make_SURB == new_SURB(initial_secret, route, delays, dest, <<"coins", sent>>)

MakeSURB ==
  /\ outcome = "new" /\ job.surb /\ surbs = {}
  /\ make_SURB.ok
  /\ surbs' = {make_SURB.surb}
  /\ UNCHANGED <<sent, job, whole_keys, links, address, hop, delay, fault, cache, received, outcome>>

MakeSURBFails ==
  /\ outcome = "new" /\ job.surb /\ surbs = {}
  /\ ~ make_SURB.ok
  /\ outcome' = make_SURB.err
  /\ UNCHANGED <<sent, job, surbs, whole_keys, links, address, hop, delay, fault, cache, received>>

(* The SURB travels as bytes, whose end may get lost, and is used once. *)
UseSURB ==
  /\ outcome = "new"
  /\ \E surb \in surbs, keys \in 0 .. job.n, ragged \in BOOLEAN :
       LET read == surb_from_bytes(surb, keys, ragged)
           used == use_surb(read.surb, message, job.size)
       IN  /\ ragged => keys < job.n
           /\ whole_keys' = keys
           /\ IF read.ok /\ used.ok
              THEN links' = <<used.packet>> /\ address' = used.address /\ outcome' = "travels"
              ELSE /\ outcome' = IF read.ok THEN used.err ELSE read.err
                   /\ UNCHANGED <<links, address>>
  /\ surbs' = {}
  /\ UNCHANGED <<sent, job, hop, delay, fault, cache, received>>

-----------------------------------------------------------------------------
(* The network. *)

Parts ==
  {<<"secret", 0>>, <<"mac", 0>>, <<"payload", 0>>}
    \cup {<<"slot", j>> : j \in 1 .. MAX_PATH_LENGTH}
    \cup {<<"cut", n>> : n \in CutLengths}

Altered(p, part) ==
  LET junk == [key |-> [stream |-> {}], place |-> 0] IN
  CASE part[1] = "secret"  -> [p EXCEPT !.header.shared_secret = @ \cup PrivateKey(<<"junk", 0>>)]
    [] part[1] = "mac"     -> [p EXCEPT !.header.routing_info.integrity_mac = [junk |-> @]]
    [] part[1] = "slot"    -> [p EXCEPT !.header.routing_info.slots[part[2]].pads = @ \cup {junk}]
    [] part[1] = "payload" -> [p EXCEPT !.payload = Bytes([kind |-> "junk", of |-> @], @.len)]
    [] part[1] = "cut"     -> [p EXCEPT !.payload = Bytes([kind |-> "junk", of |-> @], part[2])]

Maul ==
  /\ outcome = "travels" /\ fault = NoFault
  /\ \E part \in Parts :
       /\ part[1] = "cut" => part[2] < packet.payload.len
       /\ links' = [links EXCEPT ![hop] = Altered(@, part)]
       /\ fault' = [part |-> part, at |-> hop]
  /\ UNCHANGED <<sent, job, surbs, whole_keys, address, hop, delay, cache, received, outcome>>

-----------------------------------------------------------------------------
(* A node. *)

secret == packet.header.shared_secret

Known == secret \in DOMAIN cache[address]

processed ==
  IF ~ packet_from_bytes(packet).ok THEN packet_from_bytes(packet)
  ELSE IF Known
  THEN process_with_derived_keys(packet, cache[address][secret].new_blinded_secret,
                                 cache[address][secret].routing_keys)
  ELSE process(packet, PrivateKey(address))

(* A node remembers what it processed and did not know. *)
Learned ==
  [s \in DOMAIN cache[address] \cup {secret} |->
     IF s = secret
     THEN [new_blinded_secret |-> shared_secret(processed),
           routing_keys |-> compute_routing_keys(secret, PrivateKey(address))]
     ELSE cache[address][s]]

Remember == cache' = IF Known THEN cache ELSE [cache EXCEPT ![address] = Learned]

Relay ==
  /\ outcome = "travels"
  /\ processed.ok /\ processed.hop = "ForwardHop"
  /\ links' = Append(links, processed.packet)
  /\ address' = processed.address
  /\ delay' = processed.delay
  /\ hop' = hop + 1
  /\ Remember
  /\ UNCHANGED <<sent, job, surbs, whole_keys, fault, received, outcome>>

(* The last node reads the payload. *)
Arrive ==
  /\ outcome = "travels"
  /\ processed.ok /\ processed.hop = "FinalHop"
  /\ LET read == recover_plaintext(processed.payload)
     IN  IF read.ok
         THEN /\ received' = {[destination |-> processed.destination,
                               identifier |-> processed.identifier,
                               plaintext |-> read.plaintext]}
              /\ outcome' = "delivered"
         ELSE outcome' = read.err /\ UNCHANGED received
  /\ Remember
  /\ UNCHANGED <<sent, job, surbs, whole_keys, links, address, hop, delay, fault>>

Fail ==
  /\ outcome = "travels"
  /\ ~ processed.ok
  /\ outcome' = processed.err
  /\ UNCHANGED <<sent, job, surbs, whole_keys, links, address, hop, delay, fault, cache, received>>

-----------------------------------------------------------------------------
Ended == outcome \notin {"new", "travels"}

(* A second packet under the same secret, with a route that forks off. *)
Again ==
  /\ outcome = "delivered" /\ sent < MaxPackets /\ ~ job.surb
  /\ sent' = sent + 1
  /\ \E n \in 1 .. MAX_PATH_LENGTH, fork \in 2 .. MAX_PATH_LENGTH + 1 :
       /\ fork <= n + 1
       /\ job' = [job EXCEPT !.n = n, !.fork = fork, !.delays = n]
  /\ links' = <<>> /\ hop' = 1 /\ delay' = <<0, 0>> /\ whole_keys' = 0
  /\ fault' = NoFault /\ received' = {} /\ outcome' = "new"
  /\ UNCHANGED <<surbs, address, cache>>

Done == Ended /\ UNCHANGED vars

Next ==
  \/ Build \/ BuildFails
  \/ MakeSURB \/ MakeSURBFails \/ UseSURB
  \/ Maul
  \/ Relay \/ Arrive \/ Fail
  \/ Again \/ Done

Spec == Init /\ [][Next]_vars

-----------------------------------------------------------------------------
(* What can be asked for: a route that is not empty nor too long, a delay  *)
(* for each of its nodes, and room for the message and for Lioness, which  *)
(* wants more than the 32 bytes that the parameters are checked against.   *)
Valid ==
  /\ job.n \in 1 .. MAX_PATH_LENGTH
  /\ job.delays = job.n
  /\ job.size > 32
  /\ job.message + 17 <= job.size

Refusal ==
  IF job.surb /\ (job.n = 0 \/ job.delays # job.n) THEN "InvalidSURB"
  ELSE IF job.n \notin 1 .. MAX_PATH_LENGTH \/ job.delays # job.n THEN "panic"
  ELSE "InvalidPayload"

CutSURB == job.surb /\ surbs = {} /\ outcome # "new" /\ whole_keys # job.n

(* A node that was the last one for the first packet remembers no blinded  *)
(* secret, and cannot pass on a second packet under the same secret.       *)
RememberedAsLast ==
  Known /\ hop < job.n /\ cache[address][secret].new_blinded_secret = None

HeaderParts == {"secret", "mac", "slot"}

TypeOK ==
  /\ sent \in 1 .. MaxPackets
  /\ whole_keys \in Lengths /\ hop \in 1 .. MAX_PATH_LENGTH
  /\ address \in Nodes
  /\ Cardinality(surbs) <= 1 /\ Cardinality(received) <= 1
  /\ Len(links) = (IF links = <<>> THEN 0 ELSE hop)
  /\ \A l \in DOMAIN links :
       Len(links[l].header.routing_info.slots) = MAX_PATH_LENGTH
  /\ outcome \in {"new", "travels", "delivered", "panic", "InvalidSURB", "InvalidHeader",
                  "InvalidPayload", "InvalidPacket"}

(* A packet, or the use of a SURB, is refused by its sender exactly when   *)
(* it cannot be built, with the error or the panic the code has for that.  *)
(* Otherwise every node of the route accepts it, sends it to the next node *)
(* of the route after the delay meant for it, and the last one reads it:   *)
(* the filler that the sender reckoned is what the nodes make of it.       *)
HonestPacketArrives ==
  /\ Ended /\ links = <<>> =>
       \/ ~ Valid /\ outcome = Refusal
       \/ CutSURB /\ outcome = "InvalidSURB"
       \/ CutSURB /\ ~ Valid /\ outcome = "InvalidPayload"
  /\ links # <<>> =>
       /\ Valid
       /\ address = route[hop].address
       /\ hop > 1 => delay = delays[hop - 1]
       /\ fault = NoFault /\ ~ CutSURB /\ ~ RememberedAsLast =>
            outcome \in {"travels", "delivered"}
       /\ outcome = "delivered" => hop = job.n

(* Whatever is altered in a header, the next node refuses it as invalid,   *)
(* and hands nothing on.                                                   *)
AlteredHeaderStops ==
  fault.part[1] \in HeaderParts =>
    hop = fault.at /\ outcome \in {"travels", "InvalidHeader"}

(* What a last node hands out is the message of this very packet, with its *)
(* destination and identifier: an altered or shortened payload, or a SURB  *)
(* that lost some of its keys, yields an error and never another message.  *)
OnlyTheMessage ==
  /\ received \subseteq {[destination |-> "destination", identifier |-> sent,
                          plaintext |-> message]}
  /\ received # {} => outcome = "delivered" /\ fault = NoFault /\ ~ CutSURB

(* No two links of a journey carry the same slot, MAC, shared secret or    *)
(* payload, and all packets have the same size, whatever was altered in    *)
(* between (a payload that was cut stays as long as it was cut).           *)
LinksUnrelated ==
  \A k, l \in DOMAIN links :
    LET p == links[k].header
        q == links[l].header
    IN  k < l =>
          /\ p.shared_secret # q.shared_secret
          /\ p.routing_info.integrity_mac # q.routing_info.integrity_mac
          /\ \A i, m \in 1 .. MAX_PATH_LENGTH :
               p.routing_info.slots[i] # q.routing_info.slots[m]
          /\ links[k].payload # links[l].payload
          /\ \/ links[k].payload.len = links[l].payload.len
             \/ fault.part[1] = "cut" /\ k < fault.at /\ fault.at <= l

(* What a node does with what it remembers is what it would do without,    *)
(* for honest and for altered packets, whichever way the second route      *)
(* goes; except that a node that was the last one refuses to pass on.      *)
CachedAgrees ==
  outcome = "travels" /\ packet_from_bytes(packet).ok =>
    \/ processed = process(packet, PrivateKey(address))
    \/ RememberedAsLast /\ processed = Err("InvalidHeader")

(* The last bytes of a SURB are payload keys, and a payload with a layer   *)
(* too few is damaged from the start.                                      *)
Damage ==
  IF fault.part[1] \in HeaderParts THEN "header"
  ELSE IF links # <<>> /\ (fault # NoFault \/ CutSURB) THEN "payload"
  ELSE "none"

State ==
  CASE outcome = "new" -> "idle"
    [] outcome \in {"travels", "delivered"} -> outcome
    [] OTHER -> IF links = <<>> THEN "refused" ELSE "lost"

Mix == INSTANCE MixPacket WITH
  Paths     <- UNION {[1 .. n -> Nodes] : n \in 1 .. MAX_PATH_LENGTH},
  Goods     <- [destination : {"destination"}, identifier : 1 .. MaxPackets,
                plaintext : [packet : 1 .. MaxPackets, len : MessageLengths]],
  goods     <- [destination |-> "destination", identifier |-> sent, plaintext |-> message],
  number    <- sent,
  state     <- State,
  path      <- IF links = <<>> THEN <<>> ELSE [i \in 1 .. job.n |-> route[i].address],
  at        <- IF links = <<>> THEN 0 ELSE hop,
  here      <- IF links = <<>> THEN "sender" ELSE address,
  damage    <- Damage,
  delivered <- received

(* Keys, layers, filler and MACs, remembered or derived anew, amount to    *)
(* what MixPacket says: node for node along the path, nothing lost that    *)
(* was not damaged, nothing damaged that is not lost, and each packet's    *)
(* own message at the end of its own route.                                *)
ImplementsMixPacket == Mix!Spec

-----------------------------------------------------------------------------
(* The comment on max_padded_destination_identifier_length, taken at its   *)
(* word: "this should evaluate to ...".                                    *)
PaddedLengthAsCommented ==
  links # <<>> =>
    max_padded_destination_identifier_length(job.n) =
      (3 * (MAX_PATH_LENGTH - job.n) + 3) * 16
=============================================================================
