----------------------------- MODULE RelayPath ------------------------------
(***************************************************************************)
(* What the nodes of the network do with an onion, decided from where the  *)
(* onion stands on its path instead of from its bytes: the step of         *)
(* proc_onion that is taken at a hop, and the error that is returned, when *)
(* the cryptography works.  A packet records the session it belongs to,    *)
(* the leg and hop it has reached, the reply it carries, which of its      *)
(* parts were altered on the way, and the number of the alteration that    *)
(* made it what it is: copies that were altered differently are different  *)
(* packets.  OnionNetwork runs the same actions on real onions and         *)
(* implements this module.                                                 *)
(***************************************************************************)
EXTENDS Integers, Sequences, FiniteSets

CONSTANTS
  Nodes,             \* the addresses of the network
  Sessions,          \* calls of form_onion: each makes one repliable onion
  Orders,            \* what a call may ask for: see OrderAssumption
  Replies,           \* payloads a receiver may answer with
  NoReply,           \* the reply field of a packet on its forward leg
  MaxPathLength,     \* OnionFormat.max_path_length
  Listed,            \* the nodes whose first key every key store holds
  Bound              \* how often each kind of fault may happen

FaultKinds == {"corrupt", "lose", "repeat", "rotate", "forget"}

ASSUME OrderAssumption ==
  \A o \in Orders : /\ o.sender \in Nodes
                    /\ o.forward \in Seq(Nodes)
                    /\ o.backward \in Seq(Nodes)
ASSUME ReplyAssumption == NoReply \notin Replies
ASSUME LengthAssumption == MaxPathLength \in Nat \ {0}
ASSUME ListedAssumption == Listed \subseteq Nodes
ASSUME BoundAssumption == Bound \in [FaultKinds -> Nat]

VARIABLES
  sk,         \* sk[n]: generation of the private key node n uses
  pki,        \* pki[n][m]: generation of m's key in n's Pki, 0 if none
  formed,     \* formed[s]: how the call of form_onion for s ended
  expected,   \* expected[n]: sessions whose ExpectedResponse n holds
  wire,       \* packets on their way to At(p)
  kept,       \* packets a receiver has received and can answer
  received,   \* payloads handed to receivers
  replied,    \* packets that were answers when they were sent
  answered,   \* payloads handed to senders
  failures,   \* errors returned by proc_onion and reply_onion
  spent       \* how many faults of each kind have happened

vars == <<sk, pki, formed, expected, wire, kept, received, replied, answered,
          failures, spent>>

-----------------------------------------------------------------------------
(* Packets and paths. *)

Order(t)   == formed[t.session].order
Path(t)    == IF t.leg = "forward" THEN Order(t).forward ELSE Order(t).backward
At(t)      == Path(t)[t.hop]
AtEnd(t)   == t.hop = Len(Path(t))

(* The key pair the onion was built for is the one its node still uses. *)
Fresh(t)   == formed[t.session].keys[At(t)] = sk[At(t)]

(* The parts of an onion that can be altered: the length field in front of *)
(* the header's first ciphertext, anything else that the tag covers, and   *)
(* the backward section, which no node can check.                          *)
Parts      == {"framing", "sealed", "backward"}
Altered(t) == "framing" \in t.mauled \/ "sealed" \in t.mauled

(* unwrap succeeds: the node's key opens the header block, and everything  *)
(* the block's tag covers is as it was built.                              *)
Opens(t)   == Fresh(t) /\ ~ Altered(t)

FirstPacket(s) ==
  [session |-> s, leg |-> "forward", hop |-> 1, reply |-> NoReply, mauled |-> {},
   version |-> 0]

(* Mutant: hops of the reply are numbered from 0. *)
ReplyPacketFromZero(t, r) ==
  [session |-> t.session, leg |-> "backward", hop |-> 0, reply |-> r,
   mauled |-> t.mauled, version |-> t.version]

ReplyPacket(t, r) ==
  [session |-> t.session, leg |-> "backward", hop |-> 1, reply |-> r,
   mauled |-> t.mauled, version |-> t.version]

CanSpend(k) == spent[k] < Bound[k]
Spend(k)    == spent' = [spent EXCEPT ![k] = @ + 1]

-----------------------------------------------------------------------------
(* Keys. *)

(* Node n generates a new key pair and uses it from now on. *)
Rotate(n) ==
  /\ CanSpend("rotate") /\ Spend("rotate")
  /\ sk' = [sk EXCEPT ![n] = @ + 1]
  /\ UNCHANGED <<pki, formed, expected, wire, kept, received, replied, answered,
                 failures>>

(* The key store of n takes the current key of m, in place of an older one. *)
Publish(n, m) ==
  /\ pki[n][m] # sk[m]
  /\ pki' = [pki EXCEPT ![n][m] = sk[m]]
  /\ UNCHANGED <<sk, formed, expected, wire, kept, received, replied, answered,
                 failures, spent>>

-----------------------------------------------------------------------------
(* The sender. *)

Hops(o) == {o.forward[i] : i \in 1 .. Len(o.forward)} \cup
           {o.backward[i] : i \in 1 .. Len(o.backward)}

FormError(o) ==
  IF Len(o.forward) > MaxPathLength \/ Len(o.backward) > MaxPathLength
  THEN "PathTooLong"
  ELSE IF o.forward = <<>> \/ o.backward = <<>> THEN "panic"
  ELSE IF \E n \in Hops(o) : pki[o.sender][n] = 0 THEN "KeyNotFound"
  ELSE "none"

Form(s, o) ==
  /\ formed[s].state = "new" /\ FormError(o) = "none"
  /\ formed' = [formed EXCEPT ![s] =
                  [state |-> "formed", order |-> o, keys |-> pki[o.sender]]]
  /\ expected' = [expected EXCEPT ![o.sender] = @ \cup {s}]
  /\ wire' = wire \cup {FirstPacket(s)}
  /\ UNCHANGED <<sk, pki, kept, received, replied, answered, failures, spent>>

FormFails(s, o) ==
  /\ formed[s].state = "new" /\ FormError(o) # "none"
  /\ formed' = [formed EXCEPT ![s] =
                  [state |-> "failed", order |-> o, err |-> FormError(o)]]
  /\ UNCHANGED <<sk, pki, expected, wire, kept, received, replied, answered,
                 failures, spent>>

(* The sender's process ends: what it expected was never written down. *)
Forget(n) ==
  /\ CanSpend("forget") /\ Spend("forget")
  /\ expected[n] # {}
  /\ expected' = [expected EXCEPT ![n] = {}]
  /\ UNCHANGED <<sk, pki, formed, wire, kept, received, replied, answered, failures>>

-----------------------------------------------------------------------------
(* The nodes.  A packet may be processed and still be on the wire: the     *)
(* network delivered a copy of it.                                         *)

Take(t, again, more) ==
  /\ wire' = (IF again THEN wire ELSE wire \ {t}) \cup more
  /\ IF again THEN CanSpend("repeat") /\ Spend("repeat") ELSE UNCHANGED spent

Relay(t, again) ==
  /\ Opens(t) /\ ~ AtEnd(t)
  /\ Take(t, again, {[t EXCEPT !.hop = @ + 1]})
  /\ UNCHANGED <<sk, pki, formed, expected, kept, received, replied, answered,
                 failures>>

Receive(t, again) ==
  /\ Opens(t) /\ AtEnd(t) /\ t.leg = "forward"
  /\ Take(t, again, {})
  /\ kept' = kept \cup {t}
  /\ received' = received \cup
       {[at |-> At(t), payload |-> Order(t).payload, packet |-> t]}
  /\ UNCHANGED <<sk, pki, formed, expected, replied, answered, failures>>

(* Mutant: the payload is not authenticated. *)
AcceptUnchecked(t, again) ==
  /\ Opens(t) /\ AtEnd(t) /\ t.leg = "backward"
  /\ t.session \in expected[At(t)]
  /\ Take(t, again, {})
  /\ answered' = answered \cup {[at |-> At(t), payload |-> t.reply, packet |-> t]}
  /\ UNCHANGED <<sk, pki, formed, expected, kept, received, replied, failures>>

(* Mutant: a reply is accepted by whoever it reaches. *)
AcceptAnywhere(t, again) ==
  /\ Opens(t) /\ AtEnd(t) /\ t.leg = "backward" /\ "backward" \notin t.mauled
  /\ Take(t, again, {})
  /\ answered' = answered \cup {[at |-> At(t), payload |-> t.reply, packet |-> t]}
  /\ UNCHANGED <<sk, pki, formed, expected, kept, received, replied, failures>>

Accept(t, again) ==
  /\ Opens(t) /\ AtEnd(t) /\ t.leg = "backward"
  /\ t.session \in expected[At(t)] /\ "backward" \notin t.mauled
  /\ Take(t, again, {})
  /\ answered' = answered \cup {[at |-> At(t), payload |-> t.reply, packet |-> t]}
  /\ UNCHANGED <<sk, pki, formed, expected, kept, received, replied, failures>>

(* Mutant: a missing entry is taken for a tag that does not match. *)
ProcErrorNoLookup(t) ==
  IF "framing" \in t.mauled THEN "SerializationError"
  ELSE IF ~ Opens(t) THEN "MacMismatch"
  ELSE IF ~ AtEnd(t) \/ t.leg = "forward" THEN "none"
  ELSE IF t.session \notin expected[At(t)] \/ "backward" \in t.mauled THEN "AeError"
  ELSE "none"

ProcError(t) ==
  IF "framing" \in t.mauled THEN "SerializationError"
  ELSE IF ~ Opens(t) THEN "MacMismatch"
  ELSE IF ~ AtEnd(t) \/ t.leg = "forward" THEN "none"
  ELSE IF t.session \notin expected[At(t)] THEN "UnexpectedReply"
  ELSE IF "backward" \in t.mauled THEN "AeError"
  ELSE "none"

(* Mutant: the error is swallowed. *)
RejectSilently(t, again) ==
  /\ ProcError(t) # "none"
  /\ Take(t, again, {})
  /\ UNCHANGED <<sk, pki, formed, expected, kept, received, replied, answered, failures>>

Reject(t, again) ==
  /\ ProcError(t) # "none"
  /\ Take(t, again, {})
  /\ failures' = failures \cup {[at |-> At(t), err |-> ProcError(t), packet |-> t]}
  /\ UNCHANGED <<sk, pki, formed, expected, kept, received, replied, answered>>

(* The receiver answers an onion it kept.  reply_onion peels the onion     *)
(* again, with the key the node has by then.                               *)
Reply(t, r) ==
  /\ Opens(t)
  /\ ReplyPacket(t, r) \notin replied
  /\ replied' = replied \cup {ReplyPacket(t, r)}
  /\ wire' = wire \cup {ReplyPacket(t, r)}
  /\ UNCHANGED <<sk, pki, formed, expected, kept, received, answered, failures, spent>>

ReplyFails(t, r) ==
  /\ ~ Opens(t)
  /\ failures' = failures \cup {[at |-> At(t), err |-> "MacMismatch", packet |-> t]}
  /\ UNCHANGED <<sk, pki, formed, expected, wire, kept, received, replied, answered,
                 spent>>
-----------------------------------------------------------------------------
(* The network. *)

Lose(t) ==
  /\ CanSpend("lose") /\ Spend("lose")
  /\ wire' = wire \ {t}
  /\ UNCHANGED <<sk, pki, formed, expected, kept, received, replied, answered,
                 failures>>

AlteredPacket(t, part) ==
  [t EXCEPT !.mauled = @ \cup {part}, !.version = spent["corrupt"] + 1]

(* Some byte of one part of the onion is altered. *)
Corrupt(t, part) ==
  /\ CanSpend("corrupt") /\ Spend("corrupt")
  /\ wire' = (wire \ {t}) \cup {AlteredPacket(t, part)}
  /\ UNCHANGED <<sk, pki, formed, expected, kept, received, replied, answered,
                 failures>>

-----------------------------------------------------------------------------
Init ==
  /\ sk = [n \in Nodes |-> 1]
  /\ pki = [n \in Nodes |-> [m \in Nodes |-> IF m \in Listed THEN 1 ELSE 0]]
  /\ formed = [s \in Sessions |-> [state |-> "new"]]
  /\ expected = [n \in Nodes |-> {}]
  /\ wire = {} /\ kept = {} /\ received = {} /\ replied = {} /\ answered = {}
  /\ failures = {}
  /\ spent = [k \in FaultKinds |-> 0]

Process(t, again) ==
  Relay(t, again) \/ Receive(t, again) \/ Accept(t, again) \/ Reject(t, again)

Answer(t, r) == Reply(t, r) \/ ReplyFails(t, r)

Next ==
  \/ \E n \in Nodes : Rotate(n)
  \/ \E n, m \in Nodes : Publish(n, m)
  \/ \E s \in Sessions, o \in Orders : Form(s, o)
  \/ \E s \in Sessions, o \in Orders : FormFails(s, o)
  \/ \E n \in Nodes : Forget(n)
  \/ \E t \in wire, again \in BOOLEAN : Process(t, again)
  \/ \E t \in kept, r \in Replies : Answer(t, r)
  \/ \E t \in wire : Lose(t)
  \/ \E t \in wire, part \in Parts : Corrupt(t, part)

Spec == Init /\ [][Next]_vars

(* The loop of examples/create_onion.rs: an onion that is not lost is      *)
(* processed by the node it is addressed to, and a receiver answers.       *)
Fairness ==
  \A s \in Sessions :
    /\ WF_vars(\E t \in wire : t.session = s /\ Process(t, FALSE))
    /\ WF_vars(\E t \in kept, r \in Replies : t.session = s /\ Answer(t, r))

FairSpec == Spec /\ Fairness

-----------------------------------------------------------------------------
(* Types. *)

Packet == [session : Sessions, leg : {"forward", "backward"}, hop : Nat \ {0},
           reply : Replies \cup {NoReply}, mauled : SUBSET Parts, version : Nat]

FormState ==
  [state : {"new"}] \cup
  [state : {"formed"}, order : Orders, keys : [Nodes -> Nat]] \cup
  [state : {"failed"}, order : Orders, err : {"PathTooLong", "panic", "KeyNotFound"}]

Payloads == {o.payload : o \in Orders}

(* Every variable has its type. *)
TypeOK ==
  /\ sk \in [Nodes -> Nat]
  /\ pki \in [Nodes -> [Nodes -> Nat]]
  /\ formed \in [Sessions -> FormState]
  /\ expected \in [Nodes -> SUBSET Sessions]
  /\ wire \subseteq Packet /\ kept \subseteq Packet /\ replied \subseteq Packet
  /\ received \subseteq [at : Nodes, payload : Payloads, packet : Packet]
  /\ answered \subseteq [at : Nodes, payload : Replies, packet : Packet]
  /\ failures \subseteq
       [at : Nodes, packet : Packet,
        err : {"SerializationError", "MacMismatch", "UnexpectedReply", "AeError"}]
  /\ spent \in [FaultKinds -> Nat]

-----------------------------------------------------------------------------
(* Safety. *)

(* An error has its cause: a node cannot read an onion only if its framing *)
(* was altered; it refuses one only if someone altered what the tag covers *)
(* or the onion was made for a key that the node has since replaced; a     *)
(* sender finds no entry only if the entry was dropped or the reply path   *)
(* ends at another node; and it refuses a payload only if the backward     *)
(* section was altered.  So honest onions are never refused.               *)
FailuresExplained ==
  \A f \in failures :
    /\ f.err = "SerializationError" => "framing" \in f.packet.mauled
    /\ f.err = "MacMismatch" =>
         "sealed" \in f.packet.mauled \/ formed[f.packet.session].keys[f.at] < sk[f.at]
    /\ f.err = "UnexpectedReply" =>
         spent["forget"] > 0 \/ f.at # Order(f.packet).sender
    /\ f.err = "AeError" => "backward" \in f.packet.mauled

(* What a sender accepts is what the receiver of that onion answered, byte *)
(* for byte: on both legs nothing was altered, the onion had been received *)
(* unaltered before, and the node that accepts is the one that formed it.  *)
AnswersGenuine ==
  \A a \in answered :
    /\ a.packet.mauled = {}
    /\ a.at = Order(a.packet).sender
    /\ \E q \in replied : q.session = a.packet.session /\ q.reply = a.payload
    /\ \E d \in received : d.packet.session = a.packet.session /\ d.packet.mauled = {}

(* A payload is handed out only at the end of the forward path, of an      *)
(* onion whose header and payload nobody altered.  Of these packets that   *)
(* follows from the guard of Receive; it is stated for OnionNetwork_proofs,*)
(* where it is a theorem about real onions.                                *)
ReceiptsGenuine ==
  \A d \in received :
    /\ d.at = Order(d.packet).forward[Len(Order(d.packet).forward)]
    /\ d.payload = Order(d.packet).payload
    /\ ~ Altered(d.packet)

(* An altered header or forward payload goes no further than the next      *)
(* node: no step but the alteration itself puts such a packet on the wire. *)
(* Again a statement for real onions: a packet that was altered is refused *)
(* here because Opens says so.                                             *)
SealedStops ==
  [][\A t \in wire' \ wire :
       Altered(t) => spent'["corrupt"] > spent["corrupt"]]_vars

(* Nothing vanishes in silence: an onion that was formed is answered, or   *)
(* some node returns an error for it, or the network lost it.              *)
Settled(s) ==
  \/ \E a \in answered : a.packet.session = s
  \/ \E f \in failures : f.packet.session = s
  \/ spent["lose"] > 0
EveryOnionSettles ==
  \A s \in Sessions : formed[s].state = "formed" ~> Settled(s)

-----------------------------------------------------------------------------
(* What all of this amounts to: RepliableChannel. *)

Deed(t) == [session |-> t.session, reply |-> t.reply]

Channel == INSTANCE RepliableChannel WITH
  sent      <- [s \in Sessions |-> IF formed[s].state = "formed"
                                   THEN <<formed[s].order>> ELSE <<>>],
  delivered <- {[session |-> d.packet.session, at |-> d.at, payload |-> d.payload] :
                  d \in received},
  replies   <- {Deed(q) : q \in replied},
  returned  <- {[session |-> a.packet.session, at |-> a.at, reply |-> a.payload] :
                  a \in answered}

(* Sending onions over the relays implements the repliable channel. *)
ImplementsChannel == Channel!Spec
=============================================================================
