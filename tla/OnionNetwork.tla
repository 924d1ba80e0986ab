---------------------------- MODULE OnionNetwork ----------------------------
(***************************************************************************)
(* Nodes that run src/src/lib.rs over a network that may lose, repeat and  *)
(* alter onions: the driver of examples/create_onion.rs, for any number of *)
(* senders at once.  The onions are the terms of OnionFormat, and what a   *)
(* step does is what the operators of OnionFormat return for them.         *)
(*                                                                         *)
(* An item on the wire is [to, onion, packet].  The packet is a history    *)
(* variable: no step reads it to decide anything.  It says where the item  *)
(* comes from, in the words of RelayPath, so that the two can be compared. *)
(***************************************************************************)
EXTENDS OnionFormat
LOCAL INSTANCE Functions

CONSTANTS Nodes, Sessions, Orders, Replies, NoReply, Listed, Bound

(* As in RelayPath. *)
FaultKinds == {"corrupt", "lose", "repeat", "rotate", "forget"}

VARIABLES
  sk,         \* sk[n]: generation of the private key node n uses
  pki,        \* pki[n][m]: generation of m's key in n's Pki, 0 if none
  formed,     \* formed[s]: how the call of form_onion for s ended
  expected,   \* expected[n]: the [session, response] records n holds
  wire,       \* items on their way to item.to
  kept,       \* onions a receiver has kept as they arrived: [at, onion, packet]
  received,   \* payloads handed to receivers
  replied,    \* packets that were answers when they were sent
  answered,   \* payloads handed to senders
  failures,   \* errors returned by proc_onion and reply_onion
  spent       \* how many faults of each kind have happened

vars == <<sk, pki, formed, expected, wire, kept, received, replied, answered,
          failures, spent>>

Packets(items) == {item.packet : item \in items}

(* A payload is a name and a length; as bytes it is a blob. *)
Plain(payload) ==
  IF payload.len = 0 THEN Empty
  ELSE Bytes([kind |-> "plain", text |-> payload.text], payload.len)

Payloads == {o.payload : o \in Orders} \cup Replies

(* The bytes a payload has are its own. *)
ASSUME PayloadAssumption ==
  /\ \A p \in Payloads : p.len \in Nat
  /\ \A p, q \in Payloads : Plain(p) = Plain(q) => p = q
ASSUME OrderAssumption ==
  \A o \in Orders : /\ o.sender \in Nodes
                    /\ o.forward \in Seq(Nodes)
                    /\ o.backward \in Seq(Nodes)
ASSUME ReplyAssumption == NoReply \notin Replies
ASSUME ListedAssumption == Listed \subseteq Nodes
ASSUME BoundAssumption == Bound \in [FaultKinds -> Nat]

(* The log of payloads handed out, each read as the payload it came from. *)
Meant(log) ==
  {[d EXCEPT !.payload =
      IF \E p \in Payloads : Plain(p) = d.payload
      THEN CHOOSE p \in Payloads : Plain(p) = d.payload ELSE @] : d \in log}

Relays == INSTANCE RelayPath WITH
  expected <- [n \in Nodes |-> {e.session : e \in expected[n]}],
  wire     <- Packets(wire),
  kept     <- Packets(kept),
  received <- Meant(received),
  answered <- Meant(answered)

CanSpend(k) == spent[k] < Bound[k]
Spend(k)    == spent' = [spent EXCEPT ![k] = @ + 1]

-----------------------------------------------------------------------------
(* Keys.  The key store a sender was given with OnionFormat::new is a      *)
(* copy: it changes only when a key is inserted into it.                   *)

private_key(n) == KeyPair(n, sk[n])

StoreOf(keys) == [m \in {m \in Nodes : keys[m] # 0} |-> KeyPair(m, keys[m])]

Store(n) == StoreOf(pki[n])

Rotate(n) ==
  /\ CanSpend("rotate") /\ Spend("rotate")
  /\ sk' = [sk EXCEPT ![n] = @ + 1]
  /\ UNCHANGED <<pki, formed, expected, wire, kept, received, replied, answered,
                 failures>>

Publish(n, m) ==
  /\ pki[n][m] # sk[m]
  /\ pki' = [pki EXCEPT ![n][m] = sk[m]]
  /\ UNCHANGED <<sk, formed, expected, wire, kept, received, replied, answered,
                 failures, spent>>

-----------------------------------------------------------------------------
(* The sender. *)

Result(s, o) ==
  form_onion(s, Store(o.sender), o.forward, o.backward, Plain(o.payload))

Form(s, o) ==
  /\ formed[s].state = "new"
  /\ LET result == Result(s, o) IN
       /\ result.ok
       /\ expected' = [expected EXCEPT ![o.sender] =
                         @ \cup {[session |-> s, response |-> result.expected]}]
       /\ wire' = wire \cup {[to |-> o.forward[1], onion |-> result.onion,
                              packet |-> Relays!FirstPacket(s)]}
  /\ formed' = [formed EXCEPT ![s] =
                  [state |-> "formed", order |-> o, keys |-> pki[o.sender]]]
  /\ UNCHANGED <<sk, pki, kept, received, replied, answered, failures, spent>>

FormFails(s, o) ==
  /\ formed[s].state = "new"
  /\ LET result == Result(s, o) IN
       /\ ~ result.ok
       /\ formed' = [formed EXCEPT ![s] =
                       [state |-> "failed", order |-> o, err |-> result.err]]
  /\ UNCHANGED <<sk, pki, expected, wire, kept, received, replied, answered,
                 failures, spent>>

(* The sender's process ends: what it expected was never written down. *)
Forget(n) ==
  /\ CanSpend("forget") /\ Spend("forget")
  /\ expected[n] # {}
  /\ expected' = [expected EXCEPT ![n] = {}]
  /\ UNCHANGED <<sk, pki, formed, wire, kept, received, replied, answered, failures>>

-----------------------------------------------------------------------------
(* The nodes. *)

(* Mutant: an identifier that is known gets the tag of any entry. *)
RememberedAny(n) ==
  [identifier \in {e.response.identifier : e \in expected[n]} |->
     (CHOOSE e \in expected[n] : TRUE).response.tag]

(* The closure that the caller of proc_onion passes for node n. *)
Remembered(n) ==
  [identifier \in {e.response.identifier : e \in expected[n]} |->
     (CHOOSE e \in expected[n] : e.response.identifier = identifier).response.tag]

Processed(item) ==
  LET n == item.to
  IN  IF expected[n] = {} THEN proc_onion_without_reply(MaxPathLength, private_key(n), item.onion)
      ELSE proc_onion(MaxPathLength, private_key(n), Remembered(n), item.onion)

Take(item, again, more) ==
  /\ wire' = (IF again THEN wire ELSE wire \ {item}) \cup more
  /\ IF again THEN CanSpend("repeat") /\ Spend("repeat") ELSE UNCHANGED spent

Relay(item, again) ==
  LET result == Processed(item) IN
  /\ result.ok /\ result.role = "Hop"
  /\ Take(item, again,
          {[to |-> result.next_address, onion |-> result.next_onion,
            packet |-> [item.packet EXCEPT !.hop = @ + 1]]})
  /\ UNCHANGED <<sk, pki, formed, expected, kept, received, replied, answered,
                 failures>>

Receive(item, again) ==
  LET result == Processed(item) IN
  /\ result.ok /\ result.role = "Receiver"
  /\ Take(item, again, {})
  /\ kept' = kept \cup {[at |-> item.to, onion |-> item.onion, packet |-> item.packet]}
  /\ received' = received \cup
       {[at |-> item.to, payload |-> result.payload, packet |-> item.packet]}
  /\ UNCHANGED <<sk, pki, formed, expected, replied, answered, failures>>

Accept(item, again) ==
  LET result == Processed(item) IN
  /\ result.ok /\ result.role = "Sender"
  /\ Take(item, again, {})
  /\ answered' = answered \cup
       {[at |-> item.to, payload |-> result.payload, packet |-> item.packet]}
  /\ UNCHANGED <<sk, pki, formed, expected, kept, received, replied, failures>>

(* Mutant: the error is swallowed. *)
RejectSilently(item, again) ==
  /\ ~ Processed(item).ok
  /\ Take(item, again, {})
  /\ UNCHANGED <<sk, pki, formed, expected, kept, received, replied, answered, failures>>

Reject(item, again) ==
  LET result == Processed(item) IN
  /\ ~ result.ok
  /\ Take(item, again, {})
  /\ failures' = failures \cup
       {[at |-> item.to, err |-> result.err, packet |-> item.packet]}
  /\ UNCHANGED <<sk, pki, formed, expected, kept, received, replied, answered>>

(* The receiver answers an onion it kept; it gives each answer once. *)
Reply(item, r) ==
  LET result == reply_onion(MaxPathLength, private_key(item.at), item.onion, Plain(r))
      packet == Relays!ReplyPacket(item.packet, r)
  IN
  /\ packet \notin replied
  /\ result.ok
  /\ wire' = wire \cup {[to |-> result.next, onion |-> result.onion, packet |-> packet]}
  /\ replied' = replied \cup {packet}
  /\ UNCHANGED <<sk, pki, formed, expected, kept, received, answered, failures, spent>>

ReplyFails(item, r) ==
  LET result == reply_onion(MaxPathLength, private_key(item.at), item.onion, Plain(r)) IN
  /\ ~ result.ok
  /\ failures' = failures \cup
       {[at |-> item.at, err |-> result.err, packet |-> item.packet]}
  /\ UNCHANGED <<sk, pki, formed, expected, wire, kept, received, replied, answered,
                 spent>>
-----------------------------------------------------------------------------
(* The network. *)

Lose(item) ==
  /\ CanSpend("lose") /\ Spend("lose")
  /\ wire' = wire \ {item}
  /\ UNCHANGED <<sk, pki, formed, expected, kept, received, replied, answered,
                 failures>>

(* Altered bytes: as long as before, and no longer what any cipher or hash *)
(* was computed over.  A second alteration does not restore the first.     *)
Maul(blob) == Bytes([kind |-> "mauled", original |-> blob], blob.len)
MaulTag(t) == {[kind |-> "mauled", original |-> t]}

(* The onions that differ from onion in one place, and the part it is in.  *)
(* A length field in front of the first ciphertext that exceeds the cell   *)
(* is an unreadable block.                                                 *)
Alterations(onion) ==
  LET first  == onion.header[1]
      block  == first.base
      with_first(base) == [onion EXCEPT !.header[1].base = base]
  IN  {[part |-> "framing", onion |-> [onion EXCEPT !.header[1] = Maul(first)]]}
      \cup {[part |-> "sealed", onion |-> x] : x \in
              {[onion EXCEPT !.forward = Maul(@)]}
              \cup {[onion EXCEPT !.header[c] = Maul(@)] : c \in 2 .. MaxPathLength}
              \cup (IF ~ IsPlain(first, "block") THEN {}
                    ELSE {with_first([block EXCEPT !.blockTag = MaulTag(@)]),
                          with_first([block EXCEPT !.cipher =
                                        [kind |-> "mauled", original |-> @]])})}
      \cup {[part |-> "backward", onion |-> x] : x \in
              {[onion EXCEPT !.backward.tag = MaulTag(@)]}
              \cup (IF onion.backward.vec.len = 0 THEN {}
                    ELSE {[onion EXCEPT !.backward.vec = Maul(@)]})}

Corrupt(item, altered) ==
  /\ CanSpend("corrupt") /\ Spend("corrupt")
  /\ wire' = (wire \ {item}) \cup
       {[item EXCEPT !.onion = altered.onion,
                     !.packet = Relays!AlteredPacket(@, altered.part)]}
  /\ UNCHANGED <<sk, pki, formed, expected, kept, received, replied, answered,
                 failures>>

-----------------------------------------------------------------------------
Init ==
  /\ sk = [n \in Nodes |-> 1]
  /\ pki = [n \in Nodes |-> [m \in Nodes |-> IF m \in Listed THEN 1 ELSE 0]]
  /\ formed = [s \in Sessions |-> [state |-> "new"]]
  /\ expected = [n \in Nodes |-> {}]
  /\ wire = {} /\ kept = {} /\ received = {} /\ replied = {} /\ answered = {}
  /\ failures = {}
  /\ spent = [k \in FaultKinds |-> 0]

Process(item, again) ==
  \/ Relay(item, again) \/ Receive(item, again)
  \/ Accept(item, again) \/ Reject(item, again)

Answer(item, r) == Reply(item, r) \/ ReplyFails(item, r)

Next ==
  \/ \E n \in Nodes : Rotate(n)
  \/ \E n, m \in Nodes : Publish(n, m)
  \/ \E s \in Sessions, o \in Orders : Form(s, o)
  \/ \E s \in Sessions, o \in Orders : FormFails(s, o)
  \/ \E n \in Nodes : Forget(n)
  \/ \E item \in wire, again \in BOOLEAN : Process(item, again)
  \/ \E item \in kept, r \in Replies : Answer(item, r)
  \/ \E item \in wire : Lose(item)
  \/ \E item \in wire : \E altered \in Alterations(item.onion) : Corrupt(item, altered)

Spec == Init /\ [][Next]_vars

(* As in RelayPath: the driver processes what arrives, and answers. *)
Fairness ==
  \A s \in Sessions :
    /\ WF_vars(\E item \in wire : item.packet.session = s /\ Process(item, FALSE))
    /\ WF_vars(\E item \in kept, r \in Replies :
                 item.packet.session = s /\ Answer(item, r))

FairSpec == Spec /\ Fairness
-----------------------------------------------------------------------------
(* Types. *)

IsByteString(b) == DOMAIN b = {"base", "len", "layers"} /\ b.len \in Nat

IsOnion(onion) ==
  /\ DOMAIN onion.header = 1 .. MaxPathLength
  /\ \A c \in DOMAIN onion.header : IsByteString(onion.header[c])
  /\ IsByteString(onion.forward) /\ IsByteString(onion.backward.vec)

(* Every variable has its type. *)
TypeOK ==
  /\ sk \in [Nodes -> Nat] /\ pki \in [Nodes -> [Nodes -> Nat]]
  /\ \A n \in Nodes : \A e \in expected[n] :
       e.session \in Sessions /\ IsOnion(e.response.onion)
  /\ \A item \in wire :
       item.to \in Nodes /\ IsOnion(item.onion) /\ item.packet \in Relays!Packet
  /\ \A item \in kept :
       item.at \in Nodes /\ IsOnion(item.onion) /\ item.packet \in Relays!Packet
  /\ \A d \in received \cup answered : d.at \in Nodes /\ IsByteString(d.payload)
  /\ \A f \in failures : f.at \in Nodes
  /\ spent \in [FaultKinds -> Nat]

-----------------------------------------------------------------------------
(* Safety. *)

(* Bytes that a packet's sections hold besides the payload it carries. *)
CarriedBytes(packet) ==
  IF packet.leg = "forward" THEN Relays!Order(packet).payload.len ELSE packet.reply.len

(* Neither the lengths of the paths nor the hops behind or ahead can be    *)
(* told from the sizes on a link, in whatever order onions are processed:  *)
(* the header is MaxPathLength cells of one length, the forward section    *)
(* has the length that the formed payload gave it, on both legs, and the   *)
(* backward section that of the payload or, on the way back, of the reply: *)
(* a reply of another length shows which leg an onion is on.  (The tests   *)
(* test_size_independent_of_path and test_reply_same_size, where the reply *)
(* is as long as the payload.)                                             *)
UniformSize ==
  \A item \in wire :
    /\ \A c \in DOMAIN item.onion.header :
         item.onion.header[c].len = single_header_length
    /\ item.onion.forward.len =
         total_header_length + 8 + Relays!Order(item.packet).payload.len
    /\ item.onion.backward.vec.len = CarriedBytes(item.packet)

(* An onion nobody altered arrives at the last hop as the very bytes that  *)
(* form_onion predicted in ExpectedResponse.onion, garbage cells included, *)
(* and the header of its reply as the identifier the sender looks it up    *)
(* by.  (The test test_final_onion_as_expected, on every interleaving.)    *)
ArrivesAsPredicted ==
  \A n \in Nodes : \A e \in expected[n] : \A item \in wire :
    (/\ item.packet.session = e.session /\ item.packet.mauled = {}
     /\ Relays!AtEnd(item.packet)) =>
    IF item.packet.leg = "forward" THEN item.onion = e.response.onion
                                   ELSE item.onion.header = e.response.identifier

(* The byte strings of an item that an observer of two links could compare. *)
Visible(item) ==
  Range(item.onion.header) \cup {item.onion.forward, item.onion.backward.vec}

(* No two links show the same bytes: an onion has no cell, forward section *)
(* or (non-empty) backward section in common with what it was or will be   *)
(* on another hop or leg, nor with the onion of another session.           *)
NothingRecurs ==
  \A x, y \in wire :
    (\/ x.packet.session # y.packet.session
     \/ x.packet.leg # y.packet.leg
     \/ x.packet.hop # y.packet.hop) => Visible(x) \cap Visible(y) \subseteq {Empty}

-----------------------------------------------------------------------------
(* What the nodes do to onions is what RelayPath says they do to packets:  *)
(* the cryptography lets through, and refuses, exactly what it should.     *)
ImplementsRelays == Relays!Spec

(* An onion that was formed is answered, refused with an error or lost. *)
EveryOnionSettles == Relays!EveryOnionSettles
=============================================================================
