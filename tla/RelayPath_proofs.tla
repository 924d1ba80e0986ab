-------------------------- MODULE RelayPath_proofs --------------------------
(***************************************************************************)
(* Proofs about RelayPath, for any nodes, sessions, orders, replies, path  *)
(* length and fault bounds that satisfy the assumptions of the module.     *)
(***************************************************************************)
EXTENDS RelayPath, TLAPS

-----------------------------------------------------------------------------
(* The inductive invariant, part by part. *)

(* The session is formed, the packet stands on a hop of its path, and it   *)
(* carries a reply on its way back.                                        *)
Placed(t) ==
  /\ formed[t.session].state = "formed"
  /\ t.hop \in 1 .. Len(Path(t))
  /\ t.leg = "backward" => t.reply \in Replies

InvPlaced == \A t \in wire \cup kept \cup replied : Placed(t)

(* Only an order with two paths is ever formed. *)
InvFormed ==
  \A s \in Sessions : formed[s].state = "formed" =>
    formed[s].order.forward # <<>> /\ formed[s].order.backward # <<>>

TypeInv == TypeOK /\ InvPlaced /\ InvFormed

-----------------------------------------------------------------------------
(* Facts about states. *)

(* The paths of an order lead over nodes. *)
LEMMA OrderPaths ==
  ASSUME NEW o \in Orders
  PROVE  /\ o.sender \in Nodes
         /\ o.forward \in Seq(Nodes) /\ Len(o.forward) \in Nat
         /\ o.backward \in Seq(Nodes) /\ Len(o.backward) \in Nat
         /\ o.forward # <<>> => Len(o.forward) >= 1
         /\ o.backward # <<>> => Len(o.backward) >= 1
  BY OrderAssumption

(* What the type invariant says of a session that is formed. *)
LEMMA FormedType ==
  ASSUME TypeOK, NEW s \in Sessions, formed[s].state = "formed"
  PROVE  formed[s].order \in Orders /\ formed[s].keys \in [Nodes -> Nat]
  <1>1. formed[s] \in FormState
    BY DEF TypeOK
  <1> QED
    BY <1>1 DEF FormState

(* A packet that is placed is addressed to a node. *)
LEMMA PlacedAtNode ==
  ASSUME TypeOK, NEW t \in Packet, Placed(t)
  PROVE  /\ Order(t) \in Orders
         /\ Path(t) \in Seq(Nodes) /\ Len(Path(t)) \in Nat
         /\ At(t) \in Nodes
  <1>1. t.session \in Sessions /\ t.hop \in Nat \ {0}
    BY DEF Packet
  <1>2. Order(t) \in Orders
    BY <1>1, FormedType DEF Placed, Order
  <1>3. Path(t) \in Seq(Nodes) /\ Len(Path(t)) \in Nat
    BY <1>2, OrderPaths DEF Path
  <1>4. At(t) \in Nodes
    BY <1>1, <1>3 DEF Placed, At
  <1> QED
    BY <1>2, <1>3, <1>4

(* The packets the actions make are packets. *)
LEMMA PacketTypes ==
  /\ \A s \in Sessions : FirstPacket(s) \in Packet
  /\ \A t \in Packet, r \in Replies : ReplyPacket(t, r) \in Packet
  /\ \A t \in Packet : [t EXCEPT !.hop = @ + 1] \in Packet
  /\ spent["corrupt"] \in Nat =>
       \A t \in Packet, part \in Parts : AlteredPacket(t, part) \in Packet
  <1>1. \A s \in Sessions : FirstPacket(s) \in Packet
    BY DEF FirstPacket, Packet
  <1>2. \A t \in Packet, r \in Replies : ReplyPacket(t, r) \in Packet
    BY DEF ReplyPacket, Packet
  <1>3. \A t \in Packet : [t EXCEPT !.hop = @ + 1] \in Packet
    BY DEF Packet
  <1>4. spent["corrupt"] \in Nat =>
          \A t \in Packet, part \in Parts : AlteredPacket(t, part) \in Packet
    <2> SUFFICES ASSUME spent["corrupt"] \in Nat, NEW t \in Packet, NEW part \in Parts
                 PROVE  AlteredPacket(t, part) \in Packet
      OBVIOUS
    <2>1. spent["corrupt"] + 1 \in Nat /\ t.mauled \cup {part} \in SUBSET Parts
      BY DEF Packet
    <2> QED
      BY <2>1 DEF AlteredPacket, Packet
  <1> QED
    BY <1>1, <1>2, <1>3, <1>4
-----------------------------------------------------------------------------
(* Facts about steps. *)

(* An order for which form_onion returns no error has two paths, made of   *)
(* hops that the sender's store lists.                                     *)
LEMMA FormedOrder ==
  ASSUME NEW o \in Orders, FormError(o) = "none"
  PROVE  /\ o.forward # <<>> /\ o.backward # <<>>
         /\ Len(o.forward) \in 1 .. MaxPathLength
         /\ Len(o.backward) \in 1 .. MaxPathLength
  <1>1. /\ ~ (Len(o.forward) > MaxPathLength \/ Len(o.backward) > MaxPathLength)
        /\ o.forward # <<>> /\ o.backward # <<>>
    BY DEF FormError
  <1> QED
    BY <1>1, OrderPaths, LengthAssumption

(* form_onion is called once for a session: what it made does not change. *)
LEMMA FormedStable ==
  ASSUME TypeOK, Next, NEW s \in Sessions, formed[s].state = "formed"
  PROVE  formed'[s] = formed[s]
  <1>1. ASSUME NEW x \in Sessions, NEW o \in Orders, Form(x, o) \/ FormFails(x, o)
        PROVE  formed'[s] = formed[s]
    <2>1. formed[x].state = "new" /\ x # s
      BY <1>1 DEF Form, FormFails
    <2> QED
      BY <1>1, <2>1 DEF Form, FormFails, TypeOK
  <1>2. ASSUME UNCHANGED formed
        PROVE  formed'[s] = formed[s]
    BY <1>2
  <1>3. (\E x \in Sessions, o \in Orders : Form(x, o) \/ FormFails(x, o))
        \/ UNCHANGED formed
    BY DEF Next, Rotate, Publish, Forget, Process, Relay, Receive, Accept, Reject,
           Answer, Reply, ReplyFails, Lose, Corrupt
  <1> QED
    BY <1>1, <1>2, <1>3

(* A packet keeps its place, and its session its order and keys. *)
LEMMA PlacedStable ==
  ASSUME TypeOK, Next, NEW t \in Packet, Placed(t)
  PROVE  /\ Placed(t)' /\ Order(t)' = Order(t) /\ Path(t)' = Path(t) /\ At(t)' = At(t)
         /\ formed'[t.session] = formed[t.session]
  <1>1. t.session \in Sessions
    BY DEF Packet
  <1>2. formed'[t.session] = formed[t.session]
    BY <1>1, FormedStable DEF Placed
  <1>3. Order(t)' = Order(t) /\ Path(t)' = Path(t) /\ At(t)' = At(t)
    BY <1>2 DEF Order, Path, At
  <1> QED
    BY <1>2, <1>3 DEF Placed

-----------------------------------------------------------------------------
(* Type correctness. *)

(* Taking a packet from the wire and sending well-typed ones. *)
LEMMA TakeType ==
  ASSUME TypeOK, NEW t \in wire, NEW again \in BOOLEAN, NEW more \in SUBSET Packet,
         Take(t, again, more)
  PROVE  /\ wire' \subseteq wire \cup more /\ wire' \subseteq Packet
         /\ spent' \in [FaultKinds -> Nat]
  <1>1. wire' \subseteq wire \cup more
    BY DEF Take
  <1>2. spent' \in [FaultKinds -> Nat]
    BY DEF Take, Spend, TypeOK, FaultKinds
  <1> QED
    BY <1>1, <1>2 DEF TypeOK

(* Every action keeps the types.                                           *)
LEMMA TypeStep ==
  ASSUME TypeInv, Next
  PROVE  TypeOK'
  <1> USE DEF TypeInv
  <1>1. ASSUME NEW n \in Nodes, Rotate(n) PROVE TypeOK'
    BY <1>1 DEF Rotate, Spend, TypeOK, FaultKinds
  <1>2. ASSUME NEW n \in Nodes, NEW m \in Nodes, Publish(n, m) PROVE TypeOK'
    BY <1>2 DEF Publish, TypeOK
  <1>3. ASSUME NEW s \in Sessions, NEW o \in Orders, Form(s, o) PROVE TypeOK'
    <2>1. o.sender \in Nodes /\ FirstPacket(s) \in Packet
      BY OrderPaths, PacketTypes
    <2>2. [state |-> "formed", order |-> o, keys |-> pki[o.sender]] \in FormState
      BY <2>1 DEF FormState, TypeOK
    <2> QED
      BY <1>3, <2>1, <2>2 DEF Form, TypeOK
  <1>4. ASSUME NEW s \in Sessions, NEW o \in Orders, FormFails(s, o) PROVE TypeOK'
    <2>1. FormError(o) \in {"PathTooLong", "panic", "KeyNotFound"}
      BY <1>4 DEF FormFails, FormError
    <2>2. [state |-> "failed", order |-> o, err |-> FormError(o)] \in FormState
      BY <2>1 DEF FormState
    <2> QED
      BY <1>4, <2>2 DEF FormFails, TypeOK
  <1>5. ASSUME NEW n \in Nodes, Forget(n) PROVE TypeOK'
    BY <1>5 DEF Forget, Spend, TypeOK, FaultKinds
  <1>6. ASSUME NEW t \in wire, NEW again \in BOOLEAN, Process(t, again) PROVE TypeOK'
    <2>1. t \in Packet /\ Placed(t) /\ Order(t) \in Orders /\ At(t) \in Nodes
      BY PlacedAtNode DEF TypeOK, InvPlaced
    <2>2. CASE Relay(t, again)
      <3>1. {[t EXCEPT !.hop = @ + 1]} \in SUBSET Packet
        BY <2>1, PacketTypes
      <3> QED
        BY <2>2, <3>1, TakeType DEF Relay, TypeOK
    <2>3. CASE Receive(t, again)
      <3>1. [at |-> At(t), payload |-> Order(t).payload, packet |-> t]
              \in [at : Nodes, payload : Payloads, packet : Packet]
        BY <2>1 DEF Payloads
      <3> QED
        BY <2>1, <2>3, <3>1, TakeType DEF Receive, TypeOK
    <2>4. CASE Accept(t, again)
      <3>1. [at |-> At(t), payload |-> t.reply, packet |-> t]
              \in [at : Nodes, payload : Replies, packet : Packet]
        BY <2>1, <2>4 DEF Accept, Placed
      <3> QED
        BY <2>4, <3>1, TakeType DEF Accept, TypeOK
    <2>5. CASE Reject(t, again)
      <3>1. ProcError(t) \in
              {"SerializationError", "MacMismatch", "UnexpectedReply", "AeError"}
        BY <2>5 DEF Reject, ProcError
      <3> QED
        BY <2>1, <2>5, <3>1, TakeType DEF Reject, TypeOK
    <2> QED
      BY <1>6, <2>2, <2>3, <2>4, <2>5 DEF Process
  <1>7. ASSUME NEW t \in kept, NEW r \in Replies, Answer(t, r) PROVE TypeOK'
    <2>1. t \in Packet /\ At(t) \in Nodes /\ ReplyPacket(t, r) \in Packet
      BY PlacedAtNode, PacketTypes DEF TypeOK, InvPlaced
    <2>2. CASE Reply(t, r)
      BY <2>1, <2>2 DEF Reply, TypeOK
    <2>3. CASE ReplyFails(t, r)
      BY <2>1, <2>3 DEF ReplyFails, TypeOK
    <2> QED
      BY <1>7, <2>2, <2>3 DEF Answer
  <1>8. ASSUME NEW t \in wire, Lose(t) PROVE TypeOK'
    BY <1>8 DEF Lose, Spend, TypeOK, FaultKinds
  <1>9. ASSUME NEW t \in wire, NEW part \in Parts, Corrupt(t, part) PROVE TypeOK'
    <2>1. AlteredPacket(t, part) \in Packet
      BY PacketTypes DEF TypeOK, FaultKinds
    <2>2. wire' \subseteq Packet
      BY <1>9, <2>1 DEF Corrupt, TypeOK
    <2>3. spent' \in [FaultKinds -> Nat]
      BY <1>9 DEF Corrupt, Spend, TypeOK, FaultKinds
    <2> QED
      BY <1>9, <2>2, <2>3 DEF Corrupt, TypeOK
  <1> QED
    BY <1>1, <1>2, <1>3, <1>4, <1>5, <1>6, <1>7, <1>8, <1>9 DEF Next
(* Every action keeps formed orders with two non-empty paths.              *)
LEMMA FormedStep ==
  ASSUME TypeInv, Next
  PROVE  InvFormed'
  <1> SUFFICES ASSUME NEW s \in Sessions, formed'[s].state = "formed"
               PROVE  formed'[s].order.forward # <<>> /\ formed'[s].order.backward # <<>>
    BY DEF InvFormed
  <1>1. CASE formed[s].state = "formed"
    BY <1>1, FormedStable DEF TypeInv, InvFormed
  <1>2. CASE formed[s].state # "formed"
    <2>1. ~ UNCHANGED formed
      BY <1>2
    <2>2. PICK x \in Sessions, o \in Orders : Form(x, o) \/ FormFails(x, o)
      BY <2>1 DEF Next, Rotate, Publish, Forget, Process, Relay, Receive, Accept,
                  Reject, Answer, Reply, ReplyFails, Lose, Corrupt
    <2>3. x = s /\ Form(x, o)
      BY <1>2, <2>2 DEF Form, FormFails, TypeInv, TypeOK
    <2>4. formed'[s].order = o
      BY <2>3 DEF Form, TypeInv, TypeOK
    <2> QED
      BY <2>3, <2>4, FormedOrder DEF Form
  <1> QED
    BY <1>1, <1>2

(* Every packet of the next state is one of this state, one hop further on *)
(* its path at most, or the first packet of a leg.                         *)
LEMMA PlacedStep ==
  ASSUME TypeInv, Next
  PROVE  InvPlaced'
  <1> USE DEF TypeInv
  <1>1. \A t \in wire \cup kept \cup replied : t \in Packet /\ Placed(t) /\ Placed(t)'
    BY PlacedStable DEF TypeOK, InvPlaced
  <1>2. ASSUME NEW s \in Sessions, NEW o \in Orders, Form(s, o)
        PROVE  InvPlaced'
    <2>1. formed'[s] = [state |-> "formed", order |-> o, keys |-> pki[o.sender]]
      BY <1>2 DEF Form, TypeOK
    <2>2. 1 \in 1 .. Len(o.forward)
      BY <1>2, FormedOrder, OrderPaths, LengthAssumption DEF Form
    <2>3. Placed(FirstPacket(s))'
      BY <2>1, <2>2 DEF Placed, Path, Order, FirstPacket
    <2> QED
      BY <1>1, <1>2, <2>3 DEF Form, InvPlaced
  <1>3. ASSUME NEW t \in wire, NEW again \in BOOLEAN, Process(t, again)
        PROVE  InvPlaced'
    <2>1. CASE Relay(t, again)
      <3> DEFINE u == [t EXCEPT !.hop = @ + 1]
      <3>1. t \in Packet /\ Placed(t) /\ Placed(t)' /\ Path(t)' = Path(t)
            /\ Len(Path(t)) \in Nat
        BY <1>1, PlacedStable, PlacedAtNode
      <3>2. /\ u.session = t.session /\ u.leg = t.leg /\ u.reply = t.reply
            /\ u.hop = t.hop + 1
        BY <3>1 DEF Packet
      <3>3. u.hop \in 1 .. Len(Path(t)')
        BY <2>1, <3>1, <3>2 DEF Relay, AtEnd, Placed
      <3>4. Path(u)' = Path(t)'
        BY <3>2 DEF Path, Order
      <3>5. Placed(u)'
        BY <3>1, <3>2, <3>3, <3>4 DEF Placed
      <3>6. wire' \subseteq wire \cup {u} /\ UNCHANGED <<kept, replied>>
        BY <2>1 DEF Relay, Take
      <3> QED
        BY <1>1, <3>5, <3>6 DEF InvPlaced
    <2>2. CASE ~ Relay(t, again)
      <3>1. wire' \subseteq wire /\ kept' \subseteq kept \cup {t} /\ replied' = replied
        BY <1>3, <2>2 DEF Process, Receive, Accept, Reject, Take
      <3> QED
        BY <1>1, <3>1 DEF InvPlaced
    <2> QED
      BY <2>1, <2>2
  <1>4. ASSUME NEW t \in kept, NEW r \in Replies, Answer(t, r)
        PROVE  InvPlaced'
    <2> DEFINE q == ReplyPacket(t, r)
    <2>1. t \in Packet /\ Placed(t)' /\ Order(t) \in Orders /\ t.session \in Sessions
      BY <1>1, PlacedAtNode DEF Packet
    <2>2. Order(t)' = Order(t) /\ Order(t).backward # <<>>
      BY <1>1, <2>1, PlacedStable DEF Placed, InvFormed, Order
    <2>3. q.session = t.session /\ q.leg = "backward" /\ q.hop = 1 /\ q.reply = r
      BY DEF ReplyPacket
    <2>4. Path(q)' = Order(t).backward
      BY <2>2, <2>3 DEF Path, Order
    <2>5. 1 \in 1 .. Len(Order(t).backward)
      BY <2>1, <2>2, OrderPaths
    <2>6. Placed(q)'
      BY <2>1, <2>3, <2>4, <2>5 DEF Placed
    <2>7. /\ wire' \subseteq wire \cup {q} /\ kept' = kept
          /\ replied' \subseteq replied \cup {q}
      BY <1>4 DEF Answer, Reply, ReplyFails
    <2> QED
      BY <1>1, <2>6, <2>7 DEF InvPlaced
  <1>5. ASSUME NEW t \in wire, NEW part \in Parts, Corrupt(t, part)
        PROVE  InvPlaced'
    <2>1. t \in Packet /\ Placed(t)'
      BY <1>1
    <2> PICK u : u = AlteredPacket(t, part)
      OBVIOUS
    <2>2. u.session = t.session /\ u.leg = t.leg /\ u.reply = t.reply /\ u.hop = t.hop
      BY <2>1 DEF AlteredPacket, Packet
    <2>3. Placed(u)'
      BY <2>1, <2>2 DEF Placed, Path, Order
    <2>4. wire' \subseteq wire \cup {u} /\ UNCHANGED <<kept, replied>>
      BY <1>5 DEF Corrupt
    <2> QED
      BY <1>1, <2>3, <2>4 DEF InvPlaced
  <1>6. ASSUME wire' \subseteq wire, UNCHANGED <<kept, replied>>
        PROVE  InvPlaced'
    BY <1>1, <1>6 DEF InvPlaced
  <1> QED
    BY <1>2, <1>3, <1>4, <1>5, <1>6
       DEF Next, Rotate, Publish, FormFails, Forget, Lose

(* The first inductive invariant holds at the start.                       *)
LEMMA TypeInit ==
  ASSUME Init
  PROVE  TypeInv
  <1>1. TypeOK
    BY ListedAssumption DEF Init, TypeOK, FormState, FaultKinds
  <1>2. InvPlaced /\ InvFormed
    BY DEF Init, InvPlaced, InvFormed
  <1> QED
    BY <1>1, <1>2 DEF TypeInv

(* It survives steps that change nothing.                                  *)
LEMMA TypeStutter ==
  ASSUME TypeInv, UNCHANGED vars
  PROVE  TypeInv'
  BY DEF TypeInv, TypeOK, InvPlaced, InvFormed, Placed, Path, Order, vars

(* Hence it always holds.                                                  *)
LEMMA TypeInvariant == Spec => []TypeInv
  <1>1. Init => TypeInv
    BY TypeInit
  <1>2. TypeInv /\ [Next]_vars => TypeInv'
    BY TypeStep, PlacedStep, FormedStep, TypeStutter DEF TypeInv
  <1> QED
    BY <1>1, <1>2, PTL DEF Spec

(* Every variable has its type: in particular a packet is always addressed *)
(* to a node of a formed session's path, so that proc_onion is never run   *)
(* for an onion that has left its path.                                    *)
THEOREM TypeCorrect == Spec => []TypeOK
  <1>1. TypeInv => TypeOK
    BY DEF TypeInv
  <1> QED
    BY <1>1, TypeInvariant, PTL
-----------------------------------------------------------------------------
(* Where things come from. *)

(* A receiver keeps, and was handed the payload of, an unaltered onion at  *)
(* the end of its forward path.                                            *)
Delivered(d) ==
  /\ Placed(d.packet) /\ d.packet.leg = "forward" /\ AtEnd(d.packet)
  /\ ~ Altered(d.packet)
  /\ d.at = At(d.packet) /\ d.payload = Order(d.packet).payload

InvReceived == \A d \in received : Delivered(d)

InvKept == \A t \in kept : \E d \in received : d.packet = t

(* A reply was given to an onion received in the same state of alteration. *)
InvReplied ==
  \A q \in replied :
    /\ q.leg = "backward"
    /\ \E d \in received : d.packet.session = q.session /\ d.packet.mauled = q.mauled

(* An onion on its way back is a reply that was given, altered or not. *)
Given(t) ==
  \E q \in replied :
    q.session = t.session /\ q.reply = t.reply /\ q.mauled \subseteq t.mauled

InvWire == \A t \in wire : t.leg = "backward" => Given(t)

(* Only the sender of a formed session waits for its reply. *)
InvExpected ==
  \A n \in Nodes : \A s \in expected[n] :
    formed[s].state = "formed" /\ formed[s].order.sender = n

InvAnswered ==
  \A a \in answered :
    /\ Placed(a.packet) /\ a.packet.mauled = {} /\ a.payload = a.packet.reply
    /\ a.at = Order(a.packet).sender
    /\ Given(a.packet)

OriginInv ==
  InvReceived /\ InvKept /\ InvReplied /\ InvWire /\ InvExpected /\ InvAnswered

(* The logs only grow. *)
LEMMA Growth ==
  ASSUME Next
  PROVE  received \subseteq received' /\ replied \subseteq replied'
  BY DEF Next, Rotate, Publish, Form, FormFails, Forget, Process, Relay, Receive,
         Accept, Reject, Answer, Reply, ReplyFails, Lose, Corrupt

(* What is on the wire is on its way forward, or was there with the same   *)
(* reply and no more alterations, or is a reply just given.                *)
LEMMA WireSources ==
  ASSUME TypeInv, Next, NEW t \in wire', t.leg = "backward"
  PROVE  \/ \E u \in wire : /\ u.session = t.session /\ u.leg = t.leg
                            /\ u.reply = t.reply /\ u.mauled \subseteq t.mauled
         \/ t \in replied'
  <1> DEFINE Source == \E u \in wire : /\ u.session = t.session /\ u.leg = t.leg
                                       /\ u.reply = t.reply /\ u.mauled \subseteq t.mauled
  <1> SUFFICES Source \/ t \in replied'
    OBVIOUS
  <1>1. CASE t \in wire
    BY <1>1
  <1>2. ASSUME NEW s \in Sessions, NEW o \in Orders, Form(s, o), t \notin wire
        PROVE  FALSE
    BY <1>2 DEF Form, FirstPacket
  <1>3. ASSUME NEW u \in wire, NEW again \in BOOLEAN, Process(u, again), t \notin wire
        PROVE  Source
    <2>1. Relay(u, again) /\ t = [u EXCEPT !.hop = @ + 1]
      BY <1>3 DEF Process, Relay, Receive, Accept, Reject, Take
    <2> QED
      BY <2>1 DEF TypeInv, TypeOK, Packet
  <1>4. ASSUME NEW u \in kept, NEW r \in Replies, Answer(u, r), t \notin wire
        PROVE  t \in replied'
    BY <1>4 DEF Answer, Reply, ReplyFails
  <1>5. ASSUME NEW u \in wire, NEW part \in Parts, Corrupt(u, part), t \notin wire
        PROVE  Source
    <2>1. t = AlteredPacket(u, part)
      BY <1>5 DEF Corrupt
    <2> QED
      BY <2>1 DEF AlteredPacket, TypeInv, TypeOK, Packet
  <1> QED
    BY <1>1, <1>2, <1>3, <1>4, <1>5
       DEF Next, Rotate, Publish, FormFails, Forget, Lose

(* A payload that was rightly handed out stays so.                         *)
LEMMA DeliveredStable ==
  ASSUME TypeInv, Next, NEW d \in received, Delivered(d)
  PROVE  Delivered(d)'
  <1>1. d.packet \in Packet
    BY DEF TypeInv, TypeOK
  <1>2. Placed(d.packet)' /\ Order(d.packet)' = Order(d.packet)
        /\ Path(d.packet)' = Path(d.packet) /\ At(d.packet)' = At(d.packet)
    BY <1>1, PlacedStable DEF Delivered, TypeInv
  <1> QED
    BY <1>2 DEF Delivered, AtEnd, Altered

(* Only Receive hands out a payload or keeps an onion. *)
LEMMA ReceivedStep ==
  ASSUME TypeInv, InvReceived, InvKept, Next
  PROVE  InvReceived' /\ InvKept'
  <1>1. ASSUME NEW t \in wire, NEW again \in BOOLEAN, Receive(t, again)
        PROVE  InvReceived' /\ InvKept'
    <2> DEFINE e == [at |-> At(t), payload |-> Order(t).payload, packet |-> t]
    <2>1. t \in Packet /\ Placed(t)
      BY DEF TypeInv, TypeOK, InvPlaced
    <2>2. Placed(t)' /\ Order(t)' = Order(t) /\ Path(t)' = Path(t) /\ At(t)' = At(t)
      BY <2>1, PlacedStable DEF TypeInv
    <2>3. \A d : d = e => Delivered(d)'
      BY <1>1, <2>2 DEF Delivered, Receive, AtEnd, Opens, Altered
    <2>4. received' = received \cup {e} /\ kept' = kept \cup {t}
      BY <1>1 DEF Receive
    <2>5. e.packet = t
      OBVIOUS
    <2> HIDE DEF e
    <2>6. InvReceived'
      BY <2>3, <2>4, DeliveredStable DEF InvReceived
    <2>7. InvKept'
      BY <2>4, <2>5 DEF InvKept
    <2> QED
      BY <2>6, <2>7
  <1>2. ASSUME UNCHANGED <<received, kept>>
        PROVE  InvReceived' /\ InvKept'
    BY <1>2, DeliveredStable DEF InvReceived, InvKept
  <1> QED
    BY <1>1, <1>2
       DEF Next, Rotate, Publish, Form, FormFails, Forget, Process, Relay, Accept,
           Reject, Answer, Reply, ReplyFails, Lose, Corrupt

(* Only Reply gives a reply, to an onion that is kept. *)
LEMMA RepliedStep ==
  ASSUME TypeInv, InvKept, InvReplied, Next
  PROVE  InvReplied'
  <1>1. ASSUME NEW t \in kept, NEW r \in Replies, Reply(t, r)
        PROVE  InvReplied'
    <2>1. PICK d \in received : d.packet = t
      BY DEF InvKept
    <2>2. replied' = replied \cup {ReplyPacket(t, r)} /\ received' = received
      BY <1>1 DEF Reply
    <2>3. /\ ReplyPacket(t, r).leg = "backward"
          /\ ReplyPacket(t, r).session = t.session /\ ReplyPacket(t, r).mauled = t.mauled
      BY DEF ReplyPacket
    <2> QED
      BY <2>1, <2>2, <2>3 DEF InvReplied
  <1>2. ASSUME replied' = replied
        PROVE  InvReplied'
    BY <1>2, Growth DEF InvReplied
  <1> QED
    BY <1>1, <1>2
       DEF Next, Rotate, Publish, Form, FormFails, Forget, Process, Relay, Receive,
           Accept, Reject, Answer, ReplyFails, Lose, Corrupt

(* After every action a packet on its way back is a reply that was given.  *)
LEMMA WireStep ==
  ASSUME TypeInv, InvWire, Next
  PROVE  InvWire'
  <1> SUFFICES ASSUME NEW t \in wire', t.leg = "backward"
               PROVE  Given(t)'
    BY DEF InvWire
  <1>1. CASE t \in replied'
    BY <1>1 DEF Given
  <1>2. ASSUME NEW u \in wire, u.session = t.session, u.leg = t.leg, u.reply = t.reply,
               u.mauled \subseteq t.mauled
        PROVE  Given(t)'
    <2>1. Given(u)
      BY <1>2 DEF InvWire
    <2> QED
      BY <1>2, <2>1, Growth DEF Given
  <1> QED
    BY <1>1, <1>2, WireSources

(* Form adds one entry, for the sender of the order. *)
LEMMA ExpectedStep ==
  ASSUME TypeInv, InvExpected, Next
  PROVE  InvExpected'
  <1> SUFFICES ASSUME NEW n \in Nodes, NEW s \in expected'[n]
               PROVE  formed'[s].state = "formed" /\ formed'[s].order.sender = n
    BY DEF InvExpected
  <1>1. CASE s \in expected[n]
    <2>1. s \in Sessions /\ formed[s].state = "formed" /\ formed[s].order.sender = n
      BY <1>1 DEF InvExpected, TypeInv, TypeOK
    <2> QED
      BY <2>1, FormedStable DEF TypeInv
  <1>2. CASE s \notin expected[n]
    <2>1. expected' # expected
      BY <1>2
    <2>2. ASSUME NEW m \in Nodes, Forget(m)
          PROVE  FALSE
      BY <1>2, <2>2 DEF Forget, TypeInv, TypeOK
    <2>3. PICK x \in Sessions, o \in Orders : Form(x, o)
      BY <2>1, <2>2
         DEF Next, Rotate, Publish, FormFails, Process, Relay, Receive, Accept,
             Reject, Answer, Reply, ReplyFails, Lose, Corrupt
    <2>4. expected' = [expected EXCEPT ![o.sender] = @ \cup {x}] /\ o.sender \in Nodes
      BY <2>3, OrderPaths DEF Form
    <2>5. s = x /\ o.sender = n
      BY <1>2, <2>4 DEF TypeInv, TypeOK
    <2>6. formed'[s] = [state |-> "formed", order |-> o, keys |-> pki[o.sender]]
      BY <2>3, <2>5 DEF Form, TypeInv, TypeOK
    <2> QED
      BY <2>5, <2>6
  <1> QED
    BY <1>1, <1>2
(* Only Accept hands out a reply, at the node that waits for it. *)
LEMMA AnsweredStep ==
  ASSUME TypeInv, InvWire, InvExpected, InvAnswered, Next
  PROVE  InvAnswered'
  <1>1. ASSUME NEW a \in answered
        PROVE  /\ Placed(a.packet)' /\ a.packet.mauled = {} /\ a.payload = a.packet.reply
               /\ a.at = Order(a.packet)'.sender
               /\ Given(a.packet)'
    <2>1. a.packet \in Packet /\ Placed(a.packet)
      BY DEF TypeInv, TypeOK, InvAnswered
    <2>2. Placed(a.packet)' /\ Order(a.packet)' = Order(a.packet)
      BY <2>1, PlacedStable DEF TypeInv
    <2>3. Given(a.packet)'
      BY Growth DEF InvAnswered, Given
    <2> QED
      BY <2>2, <2>3 DEF InvAnswered
  <1>2. ASSUME NEW t \in wire, NEW again \in BOOLEAN, Accept(t, again)
        PROVE  InvAnswered'
    <2> DEFINE e == [at |-> At(t), payload |-> t.reply, packet |-> t]
    <2>1. t \in Packet /\ Placed(t) /\ At(t) \in Nodes
      BY PlacedAtNode DEF TypeInv, TypeOK, InvPlaced
    <2>2. Placed(t)' /\ Order(t)' = Order(t)
      BY <2>1, PlacedStable DEF TypeInv
    <2>3. t.mauled = {}
      BY <1>2, <2>1 DEF Accept, Opens, Altered, Packet, Parts
    <2>4. At(t) = Order(t).sender
      BY <1>2, <2>1 DEF Accept, InvExpected, Order
    <2>5. Given(t)'
      BY <1>2, Growth DEF Accept, InvWire, Given
    <2>6. answered' = answered \cup {e}
      BY <1>2 DEF Accept
    <2> QED
      BY <1>1, <2>2, <2>3, <2>4, <2>5, <2>6 DEF InvAnswered
  <1>3. ASSUME answered' = answered
        PROVE  InvAnswered'
    BY <1>1, <1>3 DEF InvAnswered
  <1> QED
    BY <1>2, <1>3
       DEF Next, Rotate, Publish, Form, FormFails, Forget, Process, Relay, Receive,
           Reject, Answer, Reply, ReplyFails, Lose, Corrupt

(* Nothing has an origin to explain at the start.                          *)
LEMMA OriginInit ==
  ASSUME Init
  PROVE  OriginInv
  BY DEF Init, OriginInv, InvReceived, InvKept, InvReplied, InvWire, InvExpected,
         InvAnswered

(* Steps that change nothing keep every origin.                            *)
LEMMA OriginStutter ==
  ASSUME OriginInv, UNCHANGED vars
  PROVE  OriginInv'
  BY SMTT(30) DEF vars, OriginInv, InvReceived, InvKept, InvReplied, InvWire, InvExpected,
         InvAnswered, Delivered, Given, Placed, AtEnd, Altered, At, Path, Order

(* Hence payloads, kept onions, replies and answers always have their      *)
(* origin.                                                                 *)
LEMMA OriginInvariant == Spec => [](TypeInv /\ OriginInv)
  <1>1. Init => OriginInv
    BY OriginInit
  <1>2. TypeInv /\ OriginInv /\ [Next]_vars => OriginInv'
    BY ReceivedStep, RepliedStep, WireStep, ExpectedStep, AnsweredStep, OriginStutter
       DEF OriginInv
  <1> QED
    BY <1>1, <1>2, TypeInvariant, PTL DEF Spec

(* A payload is handed out only by the last node of the forward path, and  *)
(* only if no byte of the header or the payload was altered on the way:    *)
(* what OnionReceiptsAreGenuine carries over to real onions.               *)
LEMMA ReceiptsAreGenuine == Spec => []ReceiptsGenuine
  <1>1. TypeInv /\ OriginInv => ReceiptsGenuine
    BY DEF OriginInv, InvReceived, Delivered, AtEnd, At, Path, ReceiptsGenuine
  <1> QED
    BY <1>1, OriginInvariant, PTL

(* A sender accepts only a reply that the receiver of its own onion gave,  *)
(* when nothing was altered on either leg, whatever is lost, repeated,     *)
(* altered, forgotten or keyed anew.                                       *)
THEOREM AnswersAreGenuine == Spec => []AnswersGenuine
  <1>1. TypeInv /\ OriginInv => AnswersGenuine
    <2> SUFFICES ASSUME TypeInv, OriginInv, NEW a \in answered
                 PROVE  /\ a.packet.mauled = {}
                        /\ a.at = Order(a.packet).sender
                        /\ \E q \in replied : q.session = a.packet.session
                                              /\ q.reply = a.payload
                        /\ \E d \in received : d.packet.session = a.packet.session
                                               /\ d.packet.mauled = {}
      BY DEF AnswersGenuine
    <2>1. /\ a.packet.mauled = {} /\ a.payload = a.packet.reply
          /\ a.at = Order(a.packet).sender /\ Given(a.packet)
      BY DEF OriginInv, InvAnswered
    <2>2. PICK q \in replied : /\ q.session = a.packet.session
                               /\ q.reply = a.packet.reply /\ q.mauled = {}
      BY <2>1 DEF Given
    <2>3. PICK d \in received : d.packet.session = q.session /\ d.packet.mauled = q.mauled
      BY DEF OriginInv, InvReplied
    <2> QED
      BY <2>1, <2>2, <2>3
  <1> QED
    BY <1>1, OriginInvariant, PTL

(* No step but the alteration itself puts an altered header or payload on  *)
(* the wire: what a node sends on was intact when it came in.              *)
(* AlteredOnionsStop carries this over to real onions.                     *)
LEMMA SealedStopsAtNextHop == Spec => SealedStops
  <1>1. ASSUME TypeInv, OriginInv, [Next]_vars, NEW t \in wire' \ wire, Altered(t)
        PROVE  spent'["corrupt"] > spent["corrupt"]
    <2>1. Next
      BY <1>1 DEF vars
    <2>2. ASSUME NEW s \in Sessions, NEW o \in Orders, Form(s, o)
          PROVE  FALSE
      BY <1>1, <2>2 DEF Form, FirstPacket, Altered
    <2>3. ASSUME NEW u \in wire, NEW again \in BOOLEAN, Process(u, again)
          PROVE  FALSE
      <3>1. Relay(u, again) /\ t = [u EXCEPT !.hop = @ + 1]
        BY <1>1, <2>3 DEF Process, Relay, Receive, Accept, Reject, Take
      <3>2. t.mauled = u.mauled
        BY <1>1, <3>1 DEF TypeInv, TypeOK, Packet
      <3> QED
        BY <1>1, <3>1, <3>2 DEF Relay, Opens, Altered
    <2>4. ASSUME NEW u \in kept, NEW r \in Replies, Answer(u, r)
          PROVE  FALSE
      <3>1. ~ Altered(u)
        BY <1>1 DEF OriginInv, InvKept, InvReceived, Delivered
      <3>2. t = ReplyPacket(u, r)
        BY <1>1, <2>4 DEF Answer, Reply, ReplyFails
      <3> QED
        BY <1>1, <3>1, <3>2 DEF ReplyPacket, Altered
    <2>5. ASSUME NEW u \in wire, NEW part \in Parts, Corrupt(u, part)
          PROVE  spent'["corrupt"] > spent["corrupt"]
      BY <1>1, <2>5 DEF Corrupt, Spend, TypeInv, TypeOK, FaultKinds
    <2> QED
      BY <1>1, <2>1, <2>2, <2>3, <2>4, <2>5
         DEF Next, Rotate, Publish, FormFails, Forget, Lose
  <1>2. TypeInv /\ OriginInv /\ [Next]_vars =>
          [\A t \in wire' \ wire : Altered(t) => spent'["corrupt"] > spent["corrupt"]]_vars
    BY <1>1
  <1> QED
    BY <1>2, OriginInvariant, PTL DEF Spec, SealedStops

-----------------------------------------------------------------------------
(* Why nodes refuse onions. *)

(* No store and no onion has a key its node has not had yet. *)
InvKeys ==
  /\ \A n, m \in Nodes : pki[n][m] <= sk[m]
  /\ \A s \in Sessions : formed[s].state = "formed" =>
       \A n \in Nodes : formed[s].keys[n] <= sk[n]

(* The sender of a formed session waits for its reply, or has forgotten. *)
InvWaiting ==
  \A s \in Sessions : formed[s].state = "formed" =>
    s \in expected[formed[s].order.sender] \/ spent["forget"] > 0

InvFailures ==
  \A f \in failures :
    /\ Placed(f.packet)
    /\ f.err = "SerializationError" => "framing" \in f.packet.mauled
    /\ f.err = "MacMismatch" =>
         "sealed" \in f.packet.mauled \/ formed[f.packet.session].keys[f.at] < sk[f.at]
    /\ f.err = "UnexpectedReply" =>
         spent["forget"] > 0 \/ f.at # Order(f.packet).sender
    /\ f.err = "AeError" => "backward" \in f.packet.mauled

CauseInv == InvKeys /\ InvWaiting /\ InvFailures

(* Generations and counts of faults only grow. *)
LEMMA Monotone ==
  ASSUME TypeOK, Next
  PROVE  /\ \A n \in Nodes : sk'[n] >= sk[n]
         /\ spent["forget"] > 0 => spent'["forget"] > 0
  <1>1. ASSUME NEW k \in FaultKinds, Spend(k)
        PROVE  spent["forget"] > 0 => spent'["forget"] > 0
    BY <1>1 DEF Spend, TypeOK, FaultKinds
  <1>2. spent["forget"] > 0 => spent'["forget"] > 0
    BY <1>1 DEF Next, Rotate, Publish, Form, FormFails, Forget, Process, Relay,
                Receive, Accept, Reject, Take, Answer, Reply, ReplyFails, Lose,
                Corrupt, FaultKinds
  <1>3. \A n \in Nodes : sk'[n] >= sk[n]
    <2>1. ASSUME NEW m \in Nodes, Rotate(m), NEW n \in Nodes
          PROVE  sk'[n] >= sk[n]
      BY <2>1 DEF Rotate, TypeOK
    <2>2. ASSUME sk' = sk, NEW n \in Nodes
          PROVE  sk'[n] >= sk[n]
      BY <2>2 DEF TypeOK
    <2> QED
      BY <2>1, <2>2
         DEF Next, Publish, Form, FormFails, Forget, Process, Relay, Receive, Accept,
             Reject, Answer, Reply, ReplyFails, Lose, Corrupt
  <1> QED
    BY <1>2, <1>3

(* Every action keeps the bounds on the generations of keys.               *)
LEMMA KeysStep ==
  ASSUME TypeInv, TypeOK', InvKeys, Next
  PROVE  InvKeys'
  <1> USE DEF TypeInv
  <1>1. ASSUME NEW n \in Nodes, NEW m \in Nodes
        PROVE  pki'[n][m] <= sk'[m]
    <2>1. CASE pki' = pki
      <3>1. pki[n][m] \in Nat /\ sk[m] \in Nat /\ sk'[m] \in Nat
        BY DEF TypeOK
      <3> QED
        BY <2>1, <3>1, Monotone DEF InvKeys
    <2>2. ASSUME NEW x \in Nodes, NEW y \in Nodes, Publish(x, y)
          PROVE  pki'[n][m] <= sk'[m]
      BY <2>2 DEF Publish, InvKeys, TypeOK
    <2> QED
      BY <2>1, <2>2
         DEF Next, Rotate, Form, FormFails, Forget, Process, Relay, Receive, Accept,
             Reject, Answer, Reply, ReplyFails, Lose, Corrupt
  <1>2. ASSUME NEW s \in Sessions, formed'[s].state = "formed", NEW n \in Nodes
        PROVE  formed'[s].keys[n] <= sk'[n]
    <2>1. CASE formed[s].state = "formed"
      <3>1. formed'[s] = formed[s] /\ formed[s].keys[n] <= sk[n]
        BY <2>1, FormedStable DEF InvKeys
      <3>2. formed[s].keys[n] \in Nat /\ sk[n] \in Nat /\ sk'[n] \in Nat
        BY <2>1, FormedType DEF TypeOK
      <3> QED
        BY <3>1, <3>2, Monotone
    <2>2. CASE formed[s].state # "formed"
      <3>1. ~ UNCHANGED formed
        BY <1>2, <2>2
      <3>2. PICK x \in Sessions, o \in Orders : Form(x, o) \/ FormFails(x, o)
        BY <3>1 DEF Next, Rotate, Publish, Forget, Process, Relay, Receive, Accept,
                    Reject, Answer, Reply, ReplyFails, Lose, Corrupt
      <3>3. x = s /\ Form(x, o)
        BY <1>2, <2>2, <3>2, SMTT(30) DEF Form, FormFails, TypeOK
      <3>4. formed'[s].keys = pki[o.sender] /\ sk' = sk /\ o.sender \in Nodes
        BY <3>3, OrderPaths DEF Form, TypeOK
      <3> QED
        BY <3>4 DEF InvKeys
    <2> QED
      BY <2>1, <2>2
  <1> QED
    BY <1>1, <1>2 DEF InvKeys

(* Every action keeps senders waiting, unless some node has forgotten.     *)
LEMMA WaitingStep ==
  ASSUME TypeInv, InvWaiting, Next
  PROVE  InvWaiting'
  <1> USE DEF TypeInv
  <1>1. ASSUME NEW n \in Nodes, Forget(n)
        PROVE  InvWaiting'
    <2>1. spent'["forget"] > 0
      BY <1>1 DEF Forget, Spend, TypeOK, FaultKinds
    <2> QED
      BY <2>1 DEF InvWaiting
  <1>2. ASSUME NEW x \in Sessions, NEW o \in Orders, Form(x, o)
        PROVE  InvWaiting'
    <2>1. /\ expected' = [expected EXCEPT ![o.sender] = @ \cup {x}]
          /\ formed' = [formed EXCEPT ![x] =
               [state |-> "formed", order |-> o, keys |-> pki[o.sender]]]
          /\ spent' = spent /\ o.sender \in Nodes
      BY <1>2, OrderPaths DEF Form
    <2>2. ASSUME NEW s \in Sessions, formed'[s].state = "formed"
          PROVE  s \in expected'[formed'[s].order.sender] \/ spent'["forget"] > 0
      <3>1. CASE s = x
        BY <2>1, <3>1 DEF TypeOK
      <3>2. CASE s # x
        <4>1. formed'[s] = formed[s]
          BY <2>1, <3>2 DEF TypeOK
        <4>2. formed[s].order.sender \in Nodes
          BY <2>2, <4>1, FormedType, OrderPaths
        <4> QED
          BY <2>1, <2>2, <4>1, <4>2 DEF InvWaiting, TypeOK
      <3> QED
        BY <3>1, <3>2
    <2> QED
      BY <2>2 DEF InvWaiting
  <1>3. ASSUME NEW x \in Sessions, NEW o \in Orders, FormFails(x, o)
        PROVE  InvWaiting'
    BY <1>3 DEF FormFails, InvWaiting, TypeOK
  <1>4. ASSUME UNCHANGED <<formed, expected>>
        PROVE  InvWaiting'
    BY <1>4, Monotone DEF InvWaiting
  <1> QED
    BY <1>1, <1>2, <1>3, <1>4
       DEF Next, Rotate, Publish, Process, Relay, Receive, Accept, Reject, Answer,
           Reply, ReplyFails, Lose, Corrupt

(* What the actions that return an error know of its cause. *)
LEMMA ErrorCause ==
  ASSUME TypeInv, InvKeys, InvWaiting, NEW t \in Packet, Placed(t)
  PROVE  /\ ProcError(t) = "SerializationError" => "framing" \in t.mauled
         /\ ~ Opens(t) /\ "framing" \notin t.mauled =>
              \/ "sealed" \in t.mauled
              \/ formed[t.session].keys[At(t)] < sk[At(t)]
         /\ ProcError(t) = "MacMismatch" => ~ Opens(t) /\ "framing" \notin t.mauled
         /\ ProcError(t) = "UnexpectedReply" =>
              spent["forget"] > 0 \/ At(t) # Order(t).sender
         /\ ProcError(t) = "AeError" => "backward" \in t.mauled
  <1> USE DEF TypeInv
  <1>1. At(t) \in Nodes /\ t.session \in Sessions /\ formed[t.session].state = "formed"
    BY PlacedAtNode DEF Packet, Placed
  <1>2. formed[t.session].keys[At(t)] \in Nat /\ sk[At(t)] \in Nat
    BY <1>1, FormedType DEF TypeOK
  <1>3. ~ Fresh(t) => formed[t.session].keys[At(t)] < sk[At(t)]
    BY <1>1, <1>2 DEF Fresh, InvKeys
  <1>4. ProcError(t) = "UnexpectedReply" => t.session \notin expected[At(t)]
    BY DEF ProcError
  <1> QED
    BY <1>1, <1>3, <1>4 DEF ProcError, Opens, Altered, InvWaiting, Order

(* After every action each failure has the cause its error names.          *)
LEMMA FailuresStep ==
  ASSUME TypeInv, TypeOK', OriginInv, InvKeys, InvWaiting, InvFailures, Next
  PROVE  InvFailures'
  <1> USE DEF TypeInv
  <1> DEFINE Explained(f) ==
        /\ Placed(f.packet)
        /\ f.err = "SerializationError" => "framing" \in f.packet.mauled
        /\ f.err = "MacMismatch" =>
             "sealed" \in f.packet.mauled \/ formed[f.packet.session].keys[f.at] < sk[f.at]
        /\ f.err = "UnexpectedReply" =>
             spent["forget"] > 0 \/ f.at # Order(f.packet).sender
        /\ f.err = "AeError" => "backward" \in f.packet.mauled
  <1>1. ASSUME NEW f, f.packet \in Packet, f.at \in Nodes, Explained(f)
        PROVE  Explained(f)'
    <2>1. /\ Placed(f.packet)' /\ Order(f.packet)' = Order(f.packet)
          /\ formed'[f.packet.session] = formed[f.packet.session]
      BY <1>1, PlacedStable
    <2>2. f.packet.session \in Sessions
      BY <1>1 DEF Packet
    <2>3. /\ formed[f.packet.session].keys[f.at] \in Nat
          /\ sk[f.at] \in Nat /\ sk'[f.at] \in Nat /\ sk'[f.at] >= sk[f.at]
      BY <1>1, <2>2, FormedType, Monotone DEF Placed, TypeOK
    <2>4. spent["forget"] > 0 => spent'["forget"] > 0
      BY Monotone
    <2> QED
      BY <1>1, <2>1, <2>3, <2>4
  <1>2. ASSUME NEW f \in failures
        PROVE  Explained(f)'
    BY <1>1 DEF TypeOK, InvFailures
  <1>3. ASSUME NEW t \in wire, NEW again \in BOOLEAN, Reject(t, again)
        PROVE  InvFailures'
    <2>1. t \in Packet /\ Placed(t) /\ At(t) \in Nodes
      BY PlacedAtNode DEF TypeOK, InvPlaced
    <2>2. ASSUME NEW f, f = [at |-> At(t), err |-> ProcError(t), packet |-> t]
          PROVE  Explained(f)'
      <3>1. f.packet = t /\ f.at = At(t) /\ f.err = ProcError(t)
        BY <2>2
      <3>2. Explained(f)
        BY <2>1, <3>1, ErrorCause
      <3> QED
        BY <1>1, <2>1, <3>1, <3>2
    <2>3. failures' = failures \cup {[at |-> At(t), err |-> ProcError(t), packet |-> t]}
      BY <1>3 DEF Reject
    <2> QED
      BY <1>2, <2>2, <2>3 DEF InvFailures
  <1>4. ASSUME NEW t \in kept, NEW r \in Replies, ReplyFails(t, r)
        PROVE  InvFailures'
    <2>1. t \in Packet /\ Placed(t) /\ At(t) \in Nodes
      BY PlacedAtNode DEF TypeOK, InvPlaced
    <2>2. ~ Altered(t)
      BY DEF OriginInv, InvKept, InvReceived, Delivered
    <2>3. ASSUME NEW f, f = [at |-> At(t), err |-> "MacMismatch", packet |-> t]
          PROVE  Explained(f)'
      <3>1. f.packet = t /\ f.at = At(t) /\ f.err = "MacMismatch"
        BY <2>3
      <3>2. Explained(f)
        BY <1>4, <2>1, <2>2, <3>1, ErrorCause DEF ReplyFails, Altered
      <3> QED
        BY <1>1, <2>1, <3>1, <3>2
    <2>4. failures' = failures \cup {[at |-> At(t), err |-> "MacMismatch", packet |-> t]}
      BY <1>4 DEF ReplyFails
    <2> QED
      BY <1>2, <2>3, <2>4 DEF InvFailures
  <1>5. ASSUME failures' = failures
        PROVE  InvFailures'
    BY <1>2, <1>5 DEF InvFailures
  <1> QED
    BY <1>3, <1>4, <1>5
       DEF Next, Rotate, Publish, Form, FormFails, Forget, Process, Relay, Receive,
           Accept, Answer, Reply, Lose, Corrupt

(* Nothing has failed at the start.                                        *)
LEMMA CauseInit ==
  ASSUME Init
  PROVE  CauseInv
  BY ListedAssumption DEF Init, CauseInv, InvKeys, InvWaiting, InvFailures

(* Steps that change nothing keep every cause.                             *)
LEMMA CauseStutter ==
  ASSUME CauseInv, UNCHANGED vars
  PROVE  CauseInv'
  BY DEF vars, CauseInv, InvKeys, InvWaiting, InvFailures, Placed, Path, Order

(* A node refuses an onion only for a cause: honest onions, made for keys  *)
(* that are still in use, are refused by no node, and honest replies by no *)
(* sender that still waits for them.                                       *)
THEOREM FailuresHaveCauses == Spec => []FailuresExplained
  <1>1. Init => CauseInv
    BY CauseInit
  <1>2. TypeInv /\ TypeInv' /\ OriginInv /\ CauseInv /\ [Next]_vars => CauseInv'
    BY KeysStep, WaitingStep, FailuresStep, CauseStutter DEF CauseInv, TypeInv
  <1>3. CauseInv => FailuresExplained
    BY DEF CauseInv, InvFailures, FailuresExplained
  <1> QED
    BY <1>1, <1>2, <1>3, OriginInvariant, PTL DEF Spec

-----------------------------------------------------------------------------
(* RelayPath implements RepliableChannel: whatever the network loses,      *)
(* repeats or alters, whichever keys change and whoever forgets what it    *)
(* sent, users see a channel that hands out a payload only where it was    *)
(* sent to and an answer only where it is expected.                        *)

(* The channel's variables, read off the state of the relays. *)
Sent        == [s \in Sessions |-> IF formed[s].state = "formed"
                                   THEN <<formed[s].order>> ELSE <<>>]
Handed(d)   == [session |-> d.packet.session, at |-> d.at, payload |-> d.payload]
HandedOut   == {Handed(d) : d \in received}
Deeds       == {Deed(q) : q \in replied}
Came(a)     == [session |-> a.packet.session, at |-> a.at, reply |-> a.payload]
CameBack    == {Came(a) : a \in answered}
channel     == <<Sent, HandedOut, Deeds, CameBack>>

(* What was sent in a session that is formed. *)
LEMMA SentOrder ==
  ASSUME NEW s \in Sessions, formed[s].state = "formed"
  PROVE  Sent[s] = <<formed[s].order>> /\ Sent[s] # <<>> /\ Sent[s][1] = formed[s].order
  BY DEF Sent

(* The channel begins with nothing sent and nothing received. *)
LEMMA ChannelInit ==
  ASSUME Init
  PROVE  Channel!Init
  <1>1. Sent = [s \in Sessions |-> <<>>]
    BY DEF Init, Sent
  <1>2. HandedOut = {} /\ Deeds = {} /\ CameBack = {}
    BY DEF Init, HandedOut, Deeds, CameBack
  <1> QED
    BY <1>1, <1>2
       DEF Channel!Init, Sent, HandedOut, Handed, Deeds, Deed, CameBack, Came

(* Forming an onion sends its order. *)
LEMMA FormSends ==
  ASSUME TypeInv, NEW s \in Sessions, NEW o \in Orders, Form(s, o)
  PROVE  Channel!Send(s, o)
  <1>1. formed[s].state = "new" /\ DOMAIN formed = Sessions
    BY DEF Form, TypeInv, TypeOK
  <1>2. formed' = [formed EXCEPT ![s] = [state |-> "formed", order |-> o,
                                         keys |-> pki[o.sender]]]
        /\ UNCHANGED <<received, replied, answered>>
    BY DEF Form
  <1>3. Sent[s] = <<>>
    BY <1>1 DEF Sent
  <1>4. Sent' = [Sent EXCEPT ![s] = <<o>>]
    BY <1>1, <1>2 DEF Sent
  <1>5. UNCHANGED <<HandedOut, Deeds, CameBack>>
    BY <1>2 DEF HandedOut, Handed, Deeds, Deed, CameBack, Came
  <1> QED
    BY <1>3, <1>4, <1>5
       DEF Channel!Send, Sent, HandedOut, Handed, Deeds, Deed, CameBack, Came

(* Receiving an onion delivers the payload that was sent. *)
LEMMA ReceiveDelivers ==
  ASSUME TypeInv, NEW t \in wire, NEW again \in BOOLEAN, Receive(t, again)
  PROVE  Channel!Deliver(t.session)
  <1>1. t \in Packet /\ t.session \in Sessions /\ formed[t.session].state = "formed"
    BY DEF TypeInv, TypeOK, Packet, InvPlaced, Placed
  <1>2. Sent[t.session] # <<>> /\ Sent[t.session][1] = Order(t)
    BY <1>1, SentOrder DEF Order
  <1>3. At(t) = Channel!Receiver(Sent[t.session][1])
    BY <1>2 DEF Receive, At, AtEnd, Path, Channel!Receiver
  <1>4. received' = received \cup {[at |-> At(t), payload |-> Order(t).payload,
                                    packet |-> t]}
        /\ UNCHANGED <<formed, replied, answered>>
    BY DEF Receive
  <1>5. HandedOut' = HandedOut \cup
          {[session |-> t.session, at |-> At(t), payload |-> Order(t).payload]}
    <2> DEFINE e == [at |-> At(t), payload |-> Order(t).payload, packet |-> t]
    <2>1. HandedOut' = {Handed(d) : d \in received \cup {e}}
      BY <1>4 DEF HandedOut, Handed
    <2>2. Handed(e) = [session |-> t.session, at |-> At(t), payload |-> Order(t).payload]
      BY DEF Handed
    <2> HIDE DEF e
    <2>3. {Handed(d) : d \in received \cup {e}} = HandedOut \cup {Handed(e)}
      BY DEF HandedOut
    <2> QED
      BY <2>1, <2>2, <2>3
  <1>6. UNCHANGED <<Sent, Deeds, CameBack>>
    BY <1>4 DEF Sent, Deeds, Deed, CameBack, Came
  <1> QED
    BY <1>2, <1>3, <1>5, <1>6
       DEF Channel!Deliver, Sent, HandedOut, Handed, Deeds, Deed, CameBack, Came

(* A reply answers a payload that was delivered. *)
LEMMA ReplyAnswers ==
  ASSUME TypeInv, OriginInv, NEW t \in kept, NEW r \in Replies, Reply(t, r)
  PROVE  Channel!Reply(t.session, r)
  <1>1. PICK d \in received : d.packet = t
    BY DEF OriginInv, InvKept
  <1>2. \E h \in HandedOut : h.session = t.session
    <2>1. Handed(d) \in HandedOut
      BY DEF HandedOut
    <2>2. Handed(d).session = t.session
      BY <1>1 DEF Handed
    <2> QED
      BY <2>1, <2>2
  <1>3. replied' = replied \cup {ReplyPacket(t, r)}
        /\ UNCHANGED <<formed, received, answered>>
    BY DEF Reply
  <1>4. Deed(ReplyPacket(t, r)) = [session |-> t.session, reply |-> r]
    BY DEF Deed, ReplyPacket
  <1>5. Deeds' = Deeds \cup {[session |-> t.session, reply |-> r]}
    BY <1>3, <1>4 DEF Deeds, Deed
  <1>6. UNCHANGED <<Sent, HandedOut, CameBack>>
    BY <1>3 DEF Sent, HandedOut, Handed, CameBack, Came
  <1> QED
    BY <1>2, <1>5, <1>6
       DEF Channel!Reply, Sent, HandedOut, Handed, Deeds, Deed, CameBack, Came

(* An answer that is accepted was given, and comes back to the sender. *)
LEMMA AcceptReturns ==
  ASSUME TypeInv, OriginInv, NEW t \in wire, NEW again \in BOOLEAN, Accept(t, again)
  PROVE  \E q \in Deeds : Channel!Return(q)
  <1>1. t \in Packet /\ t.session \in Sessions /\ formed[t.session].state = "formed"
        /\ At(t) \in Nodes /\ Placed(t)
    BY PlacedAtNode DEF TypeInv, TypeOK, Packet, InvPlaced, Placed
  <1>2. PICK p \in replied : p.session = t.session /\ p.reply = t.reply
    BY DEF Accept, OriginInv, InvWire, Given
  <1> DEFINE q == [session |-> t.session, reply |-> t.reply]
  <1>3. q \in Deeds
    BY <1>2 DEF Deeds, Deed
  <1>4. At(t) = formed[t.session].order.sender
    BY <1>1 DEF Accept, OriginInv, InvExpected
  <1>5. Sent[q.session][1].sender = At(t)
    BY <1>1, <1>4, SentOrder
  <1>6. answered' = answered \cup {[at |-> At(t), payload |-> t.reply, packet |-> t]}
        /\ UNCHANGED <<formed, received, replied>>
    BY DEF Accept
  <1>7. CameBack' = CameBack \cup
          {[session |-> q.session, at |-> Sent[q.session][1].sender, reply |-> q.reply]}
    <2> DEFINE e == [at |-> At(t), payload |-> t.reply, packet |-> t]
    <2>1. CameBack' = {Came(a) : a \in answered \cup {e}}
      BY <1>6 DEF CameBack, Came
    <2>2. Came(e) = [session |-> q.session, at |-> Sent[q.session][1].sender,
                     reply |-> q.reply]
      BY <1>5 DEF Came
    <2> HIDE DEF e, q
    <2>3. {Came(a) : a \in answered \cup {e}} = CameBack \cup {Came(e)}
      BY DEF CameBack
    <2> QED
      BY <2>1, <2>2, <2>3
  <1>8. UNCHANGED <<Sent, HandedOut, Deeds>>
    BY <1>6 DEF Sent, HandedOut, Handed, Deeds, Deed
  <1>9. Channel!Return(q)
    BY <1>3, <1>7, <1>8
       DEF Channel!Return, Sent, HandedOut, Handed, Deeds, Deed, CameBack, Came
  <1> QED
    BY <1>3, <1>9

(* Every other step leaves the channel as it is. *)
LEMMA QuietStep ==
  ASSUME UNCHANGED <<Sent, received, replied, answered>>
  PROVE  UNCHANGED channel
  BY DEF channel, HandedOut, Handed, Deeds, Deed, CameBack, Came

(* An onion that cannot be formed leaves the channel as it is.             *)
LEMMA QuietFailure ==
  ASSUME TypeInv, NEW s \in Sessions, NEW o \in Orders, FormFails(s, o)
  PROVE  UNCHANGED <<Sent, received, replied, answered>>
  <1>1. formed' = [formed EXCEPT ![s] = [state |-> "failed", order |-> o,
                                         err |-> FormError(o)]]
        /\ formed[s].state = "new" /\ DOMAIN formed = Sessions
    BY DEF FormFails, TypeInv, TypeOK
  <1>2. Sent' = Sent
    BY <1>1 DEF Sent
  <1> QED
    BY <1>2 DEF FormFails

(* A step of the relays is a step of the channel or leaves it as it is. *)
LEMMA ChannelStep ==
  ASSUME TypeInv, OriginInv, [Next]_vars
  PROVE  Channel!Next \/ UNCHANGED channel
  <1> SUFFICES ASSUME ~ UNCHANGED channel
               PROVE  Channel!Next
    OBVIOUS
  <1>1. ASSUME NEW s \in Sessions, NEW o \in Orders, Form(s, o)
        PROVE  Channel!Next
    BY <1>1, FormSends DEF Channel!Next
  <1>2. ASSUME NEW s \in Sessions, NEW o \in Orders, FormFails(s, o)
        PROVE  FALSE
    BY <1>2, QuietFailure, QuietStep
  <1>3. ASSUME NEW t \in wire, NEW again \in BOOLEAN, Process(t, again)
        PROVE  Channel!Next
    <2>1. CASE Receive(t, again)
      <3>1. t.session \in Sessions
        BY DEF TypeInv, TypeOK, Packet
      <3> QED
        BY <2>1, <3>1, ReceiveDelivers DEF Channel!Next
    <2>2. CASE Accept(t, again)
      <3>1. PICK q \in Deeds : Channel!Return(q)
        BY <2>2, AcceptReturns
      <3> QED
        BY <3>1 DEF Channel!Next, Deeds
    <2>3. CASE Relay(t, again) \/ Reject(t, again)
      <3>1. UNCHANGED <<Sent, received, replied, answered>>
        BY <2>3 DEF Relay, Reject, Sent
      <3> QED
        BY <3>1, QuietStep
    <2> QED
      BY <1>3, <2>1, <2>2, <2>3 DEF Process
  <1>4. ASSUME NEW t \in kept, NEW r \in Replies, Answer(t, r)
        PROVE  Channel!Next
    <2>1. CASE Reply(t, r)
      <3>1. t.session \in Sessions
        BY DEF TypeInv, TypeOK, Packet
      <3> QED
        BY <2>1, <3>1, ReplyAnswers DEF Channel!Next
    <2>2. CASE ReplyFails(t, r)
      <3>1. UNCHANGED <<Sent, received, replied, answered>>
        BY <2>2 DEF ReplyFails, Sent
      <3> QED
        BY <3>1, QuietStep
    <2> QED
      BY <1>4, <2>1, <2>2 DEF Answer
  <1>5. ASSUME UNCHANGED <<formed, received, replied, answered>>
        PROVE  FALSE
    BY <1>5, QuietStep DEF Sent
  <1>6. ASSUME \/ \E n \in Nodes : Rotate(n) \/ Forget(n)
               \/ \E n, m \in Nodes : Publish(n, m)
               \/ \E t \in wire : Lose(t)
               \/ \E t \in wire, part \in Parts : Corrupt(t, part)
        PROVE  FALSE
    BY <1>5, <1>6 DEF Rotate, Forget, Publish, Lose, Corrupt
  <1>7. CASE UNCHANGED vars
    BY <1>5, <1>7 DEF vars
  <1> QED
    BY <1>1, <1>2, <1>3, <1>4, <1>6, <1>7 DEF Next

(* Relaying onions, with every fault the network and the nodes may have,   *)
(* implements the channel that the format promises its users.              *)
THEOREM RelaysImplementChannel == Spec => ImplementsChannel
  <1>1. Init => Channel!Init
    BY ChannelInit
  <1>2. TypeInv /\ OriginInv /\ [Next]_vars => [Channel!Next]_(Channel!vars)
    BY ChannelStep DEF Channel!vars, channel, Sent, HandedOut, Handed, Deeds, Deed, CameBack, Came
  <1> QED
    BY <1>1, <1>2, OriginInvariant, PTL DEF Spec, ImplementsChannel, Channel!Spec
=============================================================================
