------------------------- MODULE OnionJourney_proofs -------------------------
(***************************************************************************)
(* The loop of examples/create_onion.rs, for every max_path_length, every  *)
(* two paths, every two payloads and every width of the node that may have *)
(* been set up differently: the onion visits its path and comes back with  *)
(* the reply, all onions of a leg have one size, and a node of another     *)
(* width ends the journey where OddWidthEndsIt says.                       *)
(***************************************************************************)
EXTENDS OnionJourney, OnionFormat_proofs

Routes == [n_f : Lengths, n_b : Lengths, payload : PayloadLengths, reply : ReplyLengths]

Odds(r) == {[at |-> 0, width |-> MaxPathLength]}
           \cup [at : 1 .. r.n_f + r.n_b - 1, width : OddWidths]

(* The order that form_onion is called with. *)
Order(r) ==
  [rng |-> "coins", pki |-> private_keys, hops_forward |-> forward_path(r.n_f),
   hops_backward |-> backward_path(r.n_b), payload |-> Text("payload", r.payload)]

Reply(r) == Text("reply", r.reply)

(* The state of the loop as a function of the route r, the odd node d, the *)
(* leg l and the hop h.                                                    *)
LengthOf(r, l) == IF l = "forward" THEN r.n_f ELSE r.n_b

PathOf(r, l) == IF l = "forward" THEN forward_path(r.n_f) ELSE backward_path(r.n_b)

TurnOf(r, l, h) == IF l = "forward" THEN h ELSE r.n_f + h

WidthOf(r, d, l, h) == IF TurnOf(r, l, h) = d.at THEN d.width ELSE MaxPathLength

MisshiftedAt(r, d, l, h) == d.at \notin {0, r.n_f} /\ TurnOf(r, l, h) > d.at

OnionOf(r, d, l, h) ==
  IF l = "forward"
  THEN IF MisshiftedAt(r, d, l, h) THEN ForthShifted(Order(r), h - 1, d.width)
       ELSE ForthOnion(Order(r), h)
  ELSE IF MisshiftedAt(r, d, l, h) THEN BackShifted(Order(r), Reply(r), h - 1, d.width)
       ELSE BackOnion(Order(r), Reply(r), h)

ExpectedTag(r) == [i \in {identifier(Order(r))} |-> awaited_tag(Order(r))]

ProcOf(r, d, l, h) ==
  proc_onion(WidthOf(r, d, l, h), private_keys[PathOf(r, l)[h]], ExpectedTag(r),
             OnionOf(r, d, l, h))

(* Where and how the journey ends. *)
EndingOf(r, d) ==
  IF d.at = 0 THEN <<r.n_f + r.n_b, "answered">>
  ELSE IF d.width > MaxPathLength THEN <<d.at, "panic: header[i + 1]">>
  ELSE IF d.at = r.n_f THEN <<r.n_f + r.n_b, "answered">>
  ELSE <<d.at + 1, "MacMismatch">>

(* A place that the onion can get to: it does not pass a node that expects *)
(* more cells, nor the node after one that shifts fewer.                   *)
IsPlace(r, d, l, h) ==
  /\ r \in Routes /\ d \in Odds(r)
  /\ l \in {"forward", "backward"} /\ h \in 1 .. LengthOf(r, l)
  /\ d.at # 0 /\ TurnOf(r, l, h) > d.at => d.width < MaxPathLength
  /\ MisshiftedAt(r, d, l, h) => TurnOf(r, l, h) = d.at + 1

(* The inductive invariant: the onion is the one that the sender reckoned  *)
(* with, or has just been shifted by the odd node.                         *)
JourneyInv ==
  /\ IsPlace(route, odd, leg, hop)
  /\ current_address = PathOf(route, leg)[hop]
  /\ current_onion = OnionOf(route, odd, leg, hop)
  /\ expected_reply.identifier = identifier(Order(route))
  /\ expected_reply.tag = awaited_tag(Order(route))
  /\ received = IF leg = "forward" THEN <<>> ELSE <<Text("payload", route.payload)>>
  /\ outcome # "running" =>
       <<TurnOf(route, leg, hop), outcome>> = EndingOf(route, odd)

-----------------------------------------------------------------------------
(* The example's texts are byte strings of their lengths. *)
LEMMA TextIsBlob ==
  ASSUME NEW text, NEW len \in Nat
  PROVE  IsBlob(Text(text, len)) /\ Text(text, len).len = len
  <1>1. CASE len = 0
    <2> DEFINE e == [kind |-> "empty"]
    <2>1. Text(text, len) = Bytes(e, 0)
      BY <1>1 DEF Text, Empty
    <2> HIDE DEF e
    <2> QED
      BY <1>1, <2>1, BytesIsBlob
  <1>2. CASE len # 0
    <2> DEFINE b == [kind |-> "plain", text |-> text]
    <2>1. Text(text, len) = Bytes(b, len)
      BY <1>2 DEF Text
    <2> HIDE DEF b
    <2> QED
      BY <2>1, BytesIsBlob
  <1> QED
    BY <1>1, <1>2

(* The addresses of the paths. *)
LEMMA PathFacts ==
  ASSUME NEW n \in Lengths
  PROVE  /\ Len(forward_path(n)) = n /\ Len(backward_path(n)) = n
         /\ \A i \in 1 .. n : forward_path(n)[i] = <<"forward", i>>
         /\ \A i \in 1 .. n : backward_path(n)[i] = <<"backward", i>>
         /\ \A i \in 1 .. n : forward_path(n)[i] \in addresses
         /\ \A i \in 1 .. n : backward_path(n)[i] \in addresses
  <1>1. n \in Nat /\ n \in 1 .. MaxPathLength
    BY MaxPathLengthAssumption DEF Lengths
  <1>2. \A i \in 1 .. n : forward_path(n)[i] = <<"forward", i>>
    BY DEF forward_path
  <1>3. \A i \in 1 .. n : backward_path(n)[i] = <<"backward", i>>
    BY DEF backward_path
  <1>4. \A i \in 1 .. n : <<"forward", i>> \in addresses /\ <<"backward", i>> \in addresses
    <2> SUFFICES ASSUME NEW i \in 1 .. n
                 PROVE  <<"forward", i>> \in addresses /\ <<"backward", i>> \in addresses
      OBVIOUS
    <2>1. i \in Lengths
      BY <1>1, MaxPathLengthAssumption DEF Lengths
    <2> QED
      BY <2>1, Zenon DEF addresses
  <1>5. forward_path(n) \in [1 .. n -> addresses] /\ backward_path(n) \in [1 .. n -> addresses]
    BY <1>4 DEF forward_path, backward_path
  <1> HIDE DEF addresses
  <1>6. Len(forward_path(n)) = n /\ Len(backward_path(n)) = n
    BY <1>1, <1>5, FunctionIsSeq
  <1> QED
    BY <1>2, <1>3, <1>4, <1>6

(* The example's call is an order, and neighbours on a path have different *)
(* keys.                                                                   *)
LEMMA OrderIsOne ==
  ASSUME NEW r \in Routes
  PROVE  /\ IsOrder(Order(r))
         /\ n_forward(Order(r)) = r.n_f /\ n_backward(Order(r)) = r.n_b
         /\ r.n_f \in Lengths /\ r.n_b \in Lengths
         /\ IsBlob(Reply(r)) /\ Reply(r).len = r.reply
         /\ Order(r).payload = Text("payload", r.payload)
         /\ Order(r).payload.len = r.payload
  <1>1. /\ r.n_f \in Lengths /\ r.n_b \in Lengths
        /\ r.payload \in Nat /\ r.reply \in Nat
    BY LengthsAssumption DEF Routes
  <1>2. IsBlob(Reply(r)) /\ Reply(r).len = r.reply
    BY <1>1, TextIsBlob DEF Reply
  <1>3. IsBlob(Text("payload", r.payload)) /\ Text("payload", r.payload).len = r.payload
    BY <1>1, TextIsBlob
  <1>4. /\ Order(r).pki = private_keys
        /\ Order(r).hops_forward = forward_path(r.n_f)
        /\ Order(r).hops_backward = backward_path(r.n_b)
        /\ Order(r).payload = Text("payload", r.payload)
    BY DEF Order
  <1>5. DOMAIN private_keys = addresses
    BY DEF private_keys
  <1>6. n_forward(Order(r)) = r.n_f /\ n_backward(Order(r)) = r.n_b
    BY <1>1, <1>4, PathFacts DEF n_forward, n_backward
  <1>7. IsOrder(Order(r))
    BY <1>1, <1>3, <1>4, <1>5, PathFacts DEF IsOrder, Lengths
  <1> QED
    BY <1>1, <1>2, <1>3, <1>4, <1>6, <1>7

(* Neighbours on a path have keys of their own. *)
LEMMA NeighboursDiffer ==
  ASSUME NEW n \in Lengths, NEW h \in 1 .. n - 1
  PROVE  /\ private_keys[forward_path(n)[h]] # private_keys[forward_path(n)[h + 1]]
         /\ private_keys[backward_path(n)[h]] # private_keys[backward_path(n)[h + 1]]
  <1>1. n \in Nat /\ h \in 1 .. n /\ h + 1 \in 1 .. n /\ h # h + 1
    BY MaxPathLengthAssumption DEF Lengths
  <1>2. \A a \in addresses : private_keys[a] = KeyPair(a, 1)
    BY DEF private_keys
  <1>3. \A a, b : KeyPair(a, 1) = KeyPair(b, 1) => a = b
    BY DEF KeyPair
  <1>4. forward_path(n)[h] # forward_path(n)[h + 1] /\ backward_path(n)[h] # backward_path(n)[h + 1]
    BY <1>1, PathFacts
  <1> QED
    BY <1>1, <1>2, <1>3, <1>4, PathFacts

(* How far a place is from the ends of the paths. *)
LEMMA PlaceFacts ==
  ASSUME NEW r, NEW d, NEW l, NEW h, IsPlace(r, d, l, h)
  PROVE  /\ r \in Routes
         /\ r.n_f \in Nat \ {0} /\ r.n_b \in Nat \ {0}
         /\ r.n_f \in Lengths /\ r.n_b \in Lengths
         /\ h \in Nat \ {0} /\ h <= LengthOf(r, l)
         /\ d.at \in Nat /\ d.width \in Nat \ {0}
         /\ d.at < r.n_f + r.n_b
         /\ d.at = 0 => d.width = MaxPathLength
         /\ d.at # 0 => d.width # MaxPathLength
         /\ WidthOf(r, d, l, h) \in Nat \ {0}
  <1>1. r \in Routes /\ r.n_f \in Lengths /\ r.n_b \in Lengths /\ d \in Odds(r)
    BY DEF IsPlace, Routes
  <1>2. r.n_f \in Nat \ {0} /\ r.n_b \in Nat \ {0}
    BY <1>1, MaxPathLengthAssumption DEF Lengths
  <1>3. LengthOf(r, l) \in Nat /\ h \in 1 .. LengthOf(r, l)
    BY <1>2 DEF IsPlace, LengthOf
  <1>4. CASE d = [at |-> 0, width |-> MaxPathLength]
    BY <1>1, <1>2, <1>3, <1>4, MaxPathLengthAssumption DEF WidthOf
  <1>5. CASE d \in [at : 1 .. r.n_f + r.n_b - 1, width : OddWidths]
    <2>1. d.at \in 1 .. r.n_f + r.n_b - 1 /\ d.width \in OddWidths
      BY <1>5
    <2>2. d.width \in Nat \ {0} /\ d.width # MaxPathLength
      BY <2>1, LengthsAssumption
    <2> QED
      BY <1>1, <1>2, <1>3, <2>1, <2>2, MaxPathLengthAssumption DEF WidthOf
  <1> QED
    BY <1>1, <1>4, <1>5 DEF Odds

(* A node of the path that can read its header passes it on. *)
LEMMA PassingOn ==
  ASSUME NEW r, NEW d, NEW l, NEW h, IsPlace(r, d, l, h), ~ MisshiftedAt(r, d, l, h),
         h < LengthOf(r, l), WidthOf(r, d, l, h) <= MaxPathLength
  PROVE  /\ IsPlace(r, d, l, h + 1)
         /\ ProcOf(r, d, l, h) = PassedOn(PathOf(r, l)[h + 1], OnionOf(r, d, l, h + 1))
  <1> DEFINE w == WidthOf(r, d, l, h)
             o == Order(r)
             N == MaxPathLength
             t == ExpectedTag(r)
  <1>1. /\ r \in Routes /\ r.n_f \in Nat \ {0} /\ r.n_b \in Nat \ {0}
        /\ h \in Nat \ {0} /\ d.at \in Nat /\ d.width \in Nat \ {0}
        /\ (d.at # 0 => d.width # N) /\ w \in Nat \ {0} /\ N \in Nat \ {0}
    BY PlaceFacts, MaxPathLengthAssumption
  <1>2. w \in 1 .. N
    BY <1>1
  <1>3. TurnOf(r, l, h + 1) = TurnOf(r, l, h) + 1 /\ TurnOf(r, l, h) \in Nat \ {0}
        /\ TurnOf(r, l, h + 1) \in Nat
    BY <1>1 DEF TurnOf
  <1>4. h + 1 \in 1 .. LengthOf(r, l)
    BY <1>1 DEF LengthOf
  <1>5. IsPlace(r, d, l, h + 1)
    <2>1. d.at # 0 /\ TurnOf(r, l, h + 1) > d.at => d.width < N
      <3>1. CASE TurnOf(r, l, h) = d.at
        BY <1>1, <1>2, <3>1 DEF WidthOf
      <3>2. CASE TurnOf(r, l, h) # d.at
        BY <1>1, <1>3, <3>2 DEF IsPlace
      <3> QED
        BY <3>1, <3>2
    <2>2. MisshiftedAt(r, d, l, h + 1) => TurnOf(r, l, h + 1) = d.at + 1
      BY <1>1, <1>3 DEF MisshiftedAt
    <2> QED
      BY <1>4, <2>1, <2>2 DEF IsPlace
  <1>6. /\ IsOrder(o) /\ n_forward(o) = r.n_f /\ n_backward(o) = r.n_b
        /\ o.pki = private_keys
        /\ o.hops_forward = PathOf(r, "forward") /\ o.hops_backward = PathOf(r, "backward")
    BY <1>1, OrderIsOne DEF Order, PathOf
  <1>7. (h + 1) - 1 = h
    BY <1>1
  <1>8. MisshiftedAt(r, d, l, h + 1) => w = d.width
    BY <1>1, <1>3 DEF MisshiftedAt, WidthOf
  <1>9. ~ MisshiftedAt(r, d, l, h + 1) => w = N \/ (d.at = r.n_f /\ TurnOf(r, l, h) = r.n_f)
    BY <1>1, <1>3 DEF MisshiftedAt, WidthOf
  <1>10. ~ (h < r.n_f /\ l = "forward" /\ TurnOf(r, l, h) = r.n_f)
         /\ ~ (l = "backward" /\ TurnOf(r, l, h) = r.n_f)
    BY <1>1 DEF TurnOf
  <1>11. CASE l = "forward"
    <2>1. h \in 1 .. n_forward(o) - 1 /\ h < r.n_f
      BY <1>1, <1>6, <1>11 DEF LengthOf
    <2>2. proc_onion(w, o.pki[o.hops_forward[h]], t, ForthOnion(o, h))
           = [ok |-> TRUE, role |-> "Hop", next_address |-> o.hops_forward[h + 1],
              next_onion |-> ForthShifted(o, h, w)]
      BY <1>2, <1>6, <2>1, ForthPassesOn
    <2>3. ForthShifted(o, h, N) = ForthOnion(o, h + 1)
      BY <1>6, <2>1, FullWidthIsNext
    <2>4. OnionOf(r, d, l, h + 1) = ForthShifted(o, h, w)
      BY <1>7, <1>8, <1>9, <1>10, <1>11, <2>1, <2>3 DEF OnionOf
    <2>5. OnionOf(r, d, l, h) = ForthOnion(o, h)
      BY <1>11 DEF OnionOf
    <2>6. ProcOf(r, d, l, h) = proc_onion(w, o.pki[o.hops_forward[h]], t, ForthOnion(o, h))
      BY <1>6, <1>11, <2>5 DEF ProcOf
    <2> QED
      BY <1>5, <1>6, <1>11, <2>2, <2>4, <2>6 DEF PassedOn
  <1>12. CASE l = "backward"
    <2>1. h \in 1 .. n_backward(o) - 1
      BY <1>1, <1>6, <1>12 DEF LengthOf
    <2>2. proc_onion(w, o.pki[o.hops_backward[h]], t, BackOnion(o, Reply(r), h))
           = [ok |-> TRUE, role |-> "Hop", next_address |-> o.hops_backward[h + 1],
              next_onion |-> BackShifted(o, Reply(r), h, w)]
      BY <1>2, <1>6, <2>1, BackPassesOn
    <2>3. BackShifted(o, Reply(r), h, N) = BackOnion(o, Reply(r), h + 1)
      BY <1>6, <2>1, FullWidthIsNext
    <2>4. OnionOf(r, d, l, h + 1) = BackShifted(o, Reply(r), h, w)
      BY <1>7, <1>8, <1>9, <1>10, <1>12, <2>3 DEF OnionOf
    <2>5. OnionOf(r, d, l, h) = BackOnion(o, Reply(r), h)
      BY <1>12 DEF OnionOf
    <2>6. ProcOf(r, d, l, h) = proc_onion(w, o.pki[o.hops_backward[h]], t, BackOnion(o, Reply(r), h))
      BY <1>6, <1>12, <2>5 DEF ProcOf
    <2> QED
      BY <1>5, <1>6, <1>12, <2>2, <2>4, <2>6 DEF PassedOn
  <1> QED
    BY <1>11, <1>12 DEF IsPlace

(* The receiver at the end of the forward path. *)
LEMMA AtReceiver ==
  ASSUME NEW r, NEW d, NEW h, IsPlace(r, d, "forward", h), ~ MisshiftedAt(r, d, "forward", h),
         h = r.n_f, WidthOf(r, d, "forward", h) <= MaxPathLength
  PROVE  /\ IsPlace(r, d, "backward", 1)
         /\ ProcOf(r, d, "forward", h)
              = [ok |-> TRUE, role |-> "Receiver", payload |-> Text("payload", r.payload)]
         /\ reply_onion(WidthOf(r, d, "forward", h), private_keys[PathOf(r, "forward")[h]],
                        OnionOf(r, d, "forward", h), Reply(r))
              = [ok |-> TRUE, next |-> PathOf(r, "backward")[1],
                 onion |-> OnionOf(r, d, "backward", 1)]
  <1> DEFINE w == WidthOf(r, d, "forward", h)
             o == Order(r)
             N == MaxPathLength
             t == ExpectedTag(r)
  <1>1. /\ r \in Routes /\ r.n_f \in Nat \ {0} /\ r.n_b \in Nat \ {0}
        /\ h \in Nat \ {0} /\ d.at \in Nat /\ d.width \in Nat \ {0}
        /\ (d.at # 0 => d.width # N) /\ w \in Nat \ {0} /\ N \in Nat \ {0}
    BY PlaceFacts, MaxPathLengthAssumption
  <1>2. w \in 1 .. N
    BY <1>1
  <1>3. TurnOf(r, "forward", h) = h /\ TurnOf(r, "backward", 1) = h + 1
    BY <1>1 DEF TurnOf
  <1>4. ~ MisshiftedAt(r, d, "backward", 1)
    BY <1>1, <1>3 DEF MisshiftedAt
  <1>5. IsPlace(r, d, "backward", 1)
    <2>1. d.at # 0 /\ TurnOf(r, "backward", 1) > d.at => d.width < N
      BY <1>1, <1>2, <1>3 DEF WidthOf, MisshiftedAt
    <2>2. 1 \in 1 .. LengthOf(r, "backward")
      BY <1>1 DEF LengthOf
    <2> QED
      BY <1>4, <2>1, <2>2 DEF IsPlace
  <1>6. /\ IsOrder(o) /\ n_forward(o) = h
        /\ o.pki = private_keys
        /\ o.hops_forward = PathOf(r, "forward") /\ o.hops_backward = PathOf(r, "backward")
        /\ o.payload = Text("payload", r.payload)
    BY <1>1, OrderIsOne DEF Order, PathOf
  <1>7. /\ proc_onion(w, o.pki[o.hops_forward[n_forward(o)]], t, ForthOnion(o, n_forward(o)))
             = [ok |-> TRUE, role |-> "Receiver", payload |-> o.payload]
        /\ reply_onion(w, o.pki[o.hops_forward[n_forward(o)]], ForthOnion(o, n_forward(o)), Reply(r))
             = [ok |-> TRUE, next |-> o.hops_backward[1], onion |-> BackOnion(o, Reply(r), 1)]
    BY <1>2, <1>6, ReceiverAnswers
  <1>8. /\ OnionOf(r, d, "forward", h) = ForthOnion(o, h)
        /\ OnionOf(r, d, "backward", 1) = BackOnion(o, Reply(r), 1)
    BY <1>4 DEF OnionOf
  <1>9. ProcOf(r, d, "forward", h)
          = proc_onion(w, o.pki[o.hops_forward[n_forward(o)]], t, ForthOnion(o, n_forward(o)))
    BY <1>6, <1>8 DEF ProcOf
  <1> QED
    BY <1>5, <1>6, <1>7, <1>8, <1>9

(* The sender at the end of the reply path. *)
LEMMA AtSender ==
  ASSUME NEW r, NEW d, NEW h, IsPlace(r, d, "backward", h),
         ~ MisshiftedAt(r, d, "backward", h), h = r.n_b
  PROVE  /\ ProcOf(r, d, "backward", h)
              = [ok |-> TRUE, role |-> "Sender", payload |-> Reply(r)]
         /\ EndingOf(r, d) = <<TurnOf(r, "backward", h), "answered">>
  <1> DEFINE o == Order(r)
             N == MaxPathLength
             t == ExpectedTag(r)
  <1>1. /\ r \in Routes /\ r.n_f \in Nat \ {0} /\ r.n_b \in Nat \ {0}
        /\ h \in Nat \ {0} /\ d.at \in Nat /\ d.width \in Nat \ {0} /\ d.at < r.n_f + r.n_b
        /\ N \in Nat \ {0}
    BY PlaceFacts, MaxPathLengthAssumption
  <1>2. TurnOf(r, "backward", h) = r.n_f + r.n_b
    BY DEF TurnOf
  <1>3. WidthOf(r, d, "backward", h) = N
    BY <1>1, <1>2 DEF WidthOf
  <1>4. EndingOf(r, d) = <<TurnOf(r, "backward", h), "answered">>
    <2>1. CASE d.at = 0
      BY <1>2, <2>1 DEF EndingOf
    <2>2. CASE d.at # 0
      <3>1. d.at = r.n_f /\ ~ (d.width > N)
        BY <1>1, <1>2, <2>2 DEF IsPlace, MisshiftedAt
      <3> QED
        BY <1>2, <2>2, <3>1, Zenon DEF EndingOf
    <2> QED
      BY <2>1, <2>2
  <1>5. /\ IsOrder(o) /\ n_backward(o) = h /\ IsBlob(Reply(r))
        /\ o.pki = private_keys /\ o.hops_backward = PathOf(r, "backward")
    BY <1>1, OrderIsOne DEF Order, PathOf
  <1>6. identifier(o) \in DOMAIN t /\ t[identifier(o)] = awaited_tag(o)
    BY DEF ExpectedTag
  <1>7. proc_onion(N, o.pki[o.hops_backward[n_backward(o)]], t,
                   BackOnion(o, Reply(r), n_backward(o)))
          = [ok |-> TRUE, role |-> "Sender", payload |-> Reply(r)]
    BY <1>5, <1>6, SenderReadsReply
  <1>8. OnionOf(r, d, "backward", h) = BackOnion(o, Reply(r), h)
    BY DEF OnionOf
  <1>9. ProcOf(r, d, "backward", h)
          = proc_onion(N, o.pki[o.hops_backward[n_backward(o)]], t,
                       BackOnion(o, Reply(r), n_backward(o)))
    BY <1>3, <1>5, <1>8 DEF ProcOf
  <1> QED
    BY <1>4, <1>7, <1>9

(* The node after one that shifts fewer cells. *)
LEMMA AfterNarrow ==
  ASSUME NEW r, NEW d, NEW l, NEW h, IsPlace(r, d, l, h), MisshiftedAt(r, d, l, h)
  PROVE  /\ ProcOf(r, d, l, h) = Err("MacMismatch")
         /\ EndingOf(r, d) = <<TurnOf(r, l, h), "MacMismatch">>
         /\ h - 1 \in 1 .. LengthOf(r, l) - 1
         /\ d.width \in 1 .. MaxPathLength - 1
  <1> DEFINE w == WidthOf(r, d, l, h)
             o == Order(r)
             N == MaxPathLength
             t == ExpectedTag(r)
  <1>1. /\ r \in Routes /\ r.n_f \in Nat \ {0} /\ r.n_b \in Nat \ {0}
        /\ h \in Nat \ {0} /\ h <= LengthOf(r, l) /\ d.at \in Nat /\ d.width \in Nat \ {0}
        /\ N \in Nat \ {0}
        /\ r.n_f \in Lengths /\ r.n_b \in Lengths
    BY PlaceFacts, MaxPathLengthAssumption
  <1>2. TurnOf(r, l, h) = d.at + 1 /\ d.at # 0 /\ d.at # r.n_f /\ TurnOf(r, l, h) > d.at
    BY <1>1 DEF IsPlace, MisshiftedAt
  <1>3. d.width < N /\ d.width \in 1 .. N - 1
    BY <1>1, <1>2 DEF IsPlace
  <1>4. EndingOf(r, d) = <<TurnOf(r, l, h), "MacMismatch">>
    <2>1. ~ (d.width > N)
      BY <1>1, <1>3
    <2> QED
      BY <1>2, <2>1, Zenon DEF EndingOf
  <1>5. h # 1
    BY <1>1, <1>2 DEF TurnOf
  <1>6. h - 1 \in 1 .. LengthOf(r, l) - 1 /\ (h - 1) + 1 = h
    BY <1>1, <1>5 DEF LengthOf
  <1>7. /\ IsOrder(o) /\ n_forward(o) = r.n_f /\ n_backward(o) = r.n_b
        /\ o.pki = private_keys
        /\ o.hops_forward = forward_path(r.n_f) /\ o.hops_backward = backward_path(r.n_b)
    BY <1>1, OrderIsOne DEF Order
  <1>8. CASE l = "forward"
    <2>1. h - 1 \in 1 .. n_forward(o) - 1
      BY <1>6, <1>7, <1>8 DEF LengthOf
    <2>2. o.pki[o.hops_forward[h - 1]] # o.pki[o.hops_forward[(h - 1) + 1]]
      BY <1>1, <1>7, <2>1, NeighboursDiffer
    <2>3. proc_onion(w, o.pki[o.hops_forward[(h - 1) + 1]], t, ForthShifted(o, h - 1, d.width))
            = Err("MacMismatch")
      BY <1>3, <1>7, <2>1, <2>2, TooNarrowIsRefused
    <2>4. OnionOf(r, d, l, h) = ForthShifted(o, h - 1, d.width)
      BY <1>8 DEF OnionOf
    <2>5. ProcOf(r, d, l, h)
            = proc_onion(w, o.pki[o.hops_forward[(h - 1) + 1]], t, ForthShifted(o, h - 1, d.width))
      BY <1>6, <1>7, <1>8, <2>4 DEF ProcOf, PathOf
    <2> QED
      BY <1>3, <1>4, <1>6, <2>3, <2>5
  <1>9. CASE l = "backward"
    <2>1. h - 1 \in 1 .. n_backward(o) - 1
      BY <1>6, <1>7, <1>9 DEF LengthOf
    <2>2. o.pki[o.hops_backward[h - 1]] # o.pki[o.hops_backward[(h - 1) + 1]]
      BY <1>1, <1>7, <2>1, NeighboursDiffer
    <2>3. proc_onion(w, o.pki[o.hops_backward[(h - 1) + 1]], t,
                     BackShifted(o, Reply(r), h - 1, d.width))
            = Err("MacMismatch")
      BY <1>3, <1>7, <2>1, <2>2, TooNarrowIsRefused
    <2>4. OnionOf(r, d, l, h) = BackShifted(o, Reply(r), h - 1, d.width)
      BY <1>9 DEF OnionOf
    <2>5. ProcOf(r, d, l, h)
            = proc_onion(w, o.pki[o.hops_backward[(h - 1) + 1]], t,
                         BackShifted(o, Reply(r), h - 1, d.width))
      BY <1>6, <1>7, <1>9, <2>4 DEF ProcOf, PathOf
    <2> QED
      BY <1>3, <1>4, <1>6, <2>3, <2>5
  <1> QED
    BY <1>8, <1>9 DEF IsPlace

(* A node that expects more cells than there are. *)
LEMMA AtTooWide ==
  ASSUME NEW r, NEW d, NEW l, NEW h, IsPlace(r, d, l, h), ~ MisshiftedAt(r, d, l, h),
         ~ (WidthOf(r, d, l, h) <= MaxPathLength)
  PROVE  /\ ProcOf(r, d, l, h) = Err("panic: header[i + 1]")
         /\ EndingOf(r, d) = <<TurnOf(r, l, h), "panic: header[i + 1]">>
  <1> DEFINE w == WidthOf(r, d, l, h)
             o == Order(r)
             N == MaxPathLength
             t == ExpectedTag(r)
  <1>1. /\ r \in Routes /\ r.n_f \in Nat \ {0} /\ r.n_b \in Nat \ {0}
        /\ h \in Nat \ {0} /\ h <= LengthOf(r, l) /\ d.at \in Nat /\ d.width \in Nat \ {0}
        /\ N \in Nat \ {0} /\ (d.at = 0 => d.width = N) /\ w \in Nat
    BY PlaceFacts, MaxPathLengthAssumption
  <1>2. w = d.width /\ TurnOf(r, l, h) = d.at /\ d.at # 0 /\ w > N
    BY <1>1 DEF WidthOf
  <1>3. EndingOf(r, d) = <<TurnOf(r, l, h), "panic: header[i + 1]">>
    BY <1>1, <1>2 DEF EndingOf
  <1>4. /\ IsOrder(o) /\ n_forward(o) = r.n_f /\ n_backward(o) = r.n_b
        /\ o.pki = private_keys
        /\ o.hops_forward = forward_path(r.n_f) /\ o.hops_backward = backward_path(r.n_b)
    BY <1>1, OrderIsOne DEF Order
  <1>5. CASE l = "forward"
    <2>1. h \in 1 .. n_forward(o)
      BY <1>1, <1>4, <1>5 DEF LengthOf
    <2>2. proc_onion(w, o.pki[o.hops_forward[h]], t, ForthOnion(o, h)) = Err("panic: header[i + 1]")
      BY <1>1, <1>2, <1>4, <2>1, TooWideFails
    <2> QED
      BY <1>3, <1>4, <1>5, <2>2 DEF ProcOf, PathOf, OnionOf
  <1>6. CASE l = "backward"
    <2>1. h \in 1 .. n_backward(o)
      BY <1>1, <1>4, <1>6 DEF LengthOf
    <2>2. proc_onion(w, o.pki[o.hops_backward[h]], t, BackOnion(o, Reply(r), h))
            = Err("panic: header[i + 1]")
      BY <1>1, <1>2, <1>4, <2>1, TooWideFails
    <2> QED
      BY <1>3, <1>4, <1>6, <2>2 DEF ProcOf, PathOf, OnionOf
  <1> QED
    BY <1>5, <1>6 DEF IsPlace

-----------------------------------------------------------------------------
(* The invariant. *)

(* The state's own names for its place. *)
LEMMA StateNames ==
  ASSUME JourneyInv
  PROVE  /\ Turn = TurnOf(route, leg, hop)
         /\ width = WidthOf(route, odd, leg, hop)
         /\ Path = PathOf(route, leg)
         /\ reply_payload = Reply(route)
         /\ sent_payload = Text("payload", route.payload)
         /\ proc = ProcOf(route, odd, leg, hop)
  <1>1. /\ Turn = TurnOf(route, leg, hop)
        /\ Path = PathOf(route, leg)
        /\ reply_payload = Reply(route)
        /\ sent_payload = Text("payload", route.payload)
    BY DEF Turn, TurnOf, Path, PathOf, reply_payload, Reply, sent_payload
  <1>2. width = WidthOf(route, odd, leg, hop)
    BY <1>1 DEF width, WidthOf
  <1>3. [i \in {expected_reply.identifier} |-> expected_reply.tag] = ExpectedTag(route)
    BY DEF JourneyInv, ExpectedTag
  <1>4. proc = ProcOf(route, odd, leg, hop)
    BY <1>2, <1>3, Zenon DEF JourneyInv, proc, ProcOf
  <1> QED
    BY <1>1, <1>2, <1>4

(* The loop starts in it. *)
LEMMA JourneyStarts == Init => JourneyInv
  <1> SUFFICES ASSUME Init PROVE JourneyInv
    OBVIOUS
  <1> DEFINE o == Order(route)
             formed == form_onion("coins", private_keys, forward_path(route.n_f),
                                  backward_path(route.n_b), sent_payload)
  <1>1. route \in Routes /\ odd \in Odds(route)
    BY DEF Init, Routes, Odds
  <1>2. IsOrder(o) /\ route.n_f \in Lengths
    BY <1>1, OrderIsOne
  <1>3. formed = form_onion(o.rng, o.pki, o.hops_forward, o.hops_backward, o.payload)
    BY DEF Order, sent_payload
  <1>4. formed = [ok |-> TRUE, onion |-> ForthOnion(o, 1),
                  expected |-> [identifier |-> identifier(o),
                                onion |-> ForthOnion(o, n_forward(o)),
                                tag |-> awaited_tag(o)]]
    BY <1>2, <1>3, FormOnionIsOk
  <1>5. current_onion = formed.onion /\ expected_reply = formed.expected
    BY Zenon DEF Init
  <1> HIDE DEF formed
  <1>6. /\ current_onion = ForthOnion(o, 1)
        /\ expected_reply.identifier = identifier(o)
        /\ expected_reply.tag = awaited_tag(o)
    BY <1>4, <1>5
  <1>7. /\ leg = "forward" /\ hop = 1 /\ received = <<>> /\ outcome = "running"
        /\ current_address = forward_path(route.n_f)[1]
    BY DEF Init
  <1>8. route.n_f \in Nat \ {0} /\ route.n_b \in Nat \ {0} /\ odd.at \in Nat
        /\ (odd.at # 0 => odd.at >= 1)
    <2>1. route.n_f \in Nat \ {0} /\ route.n_b \in Nat \ {0}
      BY <1>1, MaxPathLengthAssumption DEF Routes, Lengths
    <2> QED
      BY <1>1, <2>1 DEF Odds
  <1>9. ~ MisshiftedAt(route, odd, leg, hop) /\ ~ (odd.at # 0 /\ TurnOf(route, leg, hop) > odd.at)
    BY <1>7, <1>8 DEF MisshiftedAt, TurnOf
  <1>10. IsPlace(route, odd, leg, hop)
    <2>1. hop \in 1 .. LengthOf(route, leg)
      BY <1>7, <1>8 DEF LengthOf
    <2> QED
      BY <1>1, <1>7, <1>9, <2>1 DEF IsPlace
  <1>11. current_onion = OnionOf(route, odd, leg, hop)
    BY <1>6, <1>7, <1>9 DEF OnionOf
  <1>12. current_address = PathOf(route, leg)[hop]
    BY <1>7 DEF PathOf
  <1> QED
    BY <1>6, <1>7, <1>10, <1>11, <1>12 DEF JourneyInv

(* What proc is at any place. *)
LEMMA ProcAtPlace ==
  ASSUME JourneyInv
  PROVE  LET T == TurnOf(route, leg, hop) IN
         \/ /\ hop < LengthOf(route, leg)
            /\ proc = PassedOn(PathOf(route, leg)[hop + 1], OnionOf(route, odd, leg, hop + 1))
            /\ IsPlace(route, odd, leg, hop + 1)
         \/ /\ leg = "forward" /\ hop = route.n_f
            /\ proc = [ok |-> TRUE, role |-> "Receiver",
                       payload |-> Text("payload", route.payload)]
            /\ IsPlace(route, odd, "backward", 1)
            /\ reply_onion(width, private_keys[current_address], current_onion, reply_payload)
                 = [ok |-> TRUE, next |-> PathOf(route, "backward")[1],
                    onion |-> OnionOf(route, odd, "backward", 1)]
         \/ /\ leg = "backward" /\ hop = route.n_b
            /\ proc = [ok |-> TRUE, role |-> "Sender", payload |-> reply_payload]
            /\ EndingOf(route, odd) = <<T, "answered">>
         \/ /\ proc = Err("MacMismatch")
            /\ EndingOf(route, odd) = <<T, "MacMismatch">>
         \/ /\ proc = Err("panic: header[i + 1]")
            /\ EndingOf(route, odd) = <<T, "panic: header[i + 1]">>
  <1> DEFINE T == TurnOf(route, leg, hop)
  <1>1. IsPlace(route, odd, leg, hop) /\ proc = ProcOf(route, odd, leg, hop)
    BY StateNames DEF JourneyInv
  <1>2. leg \in {"forward", "backward"} /\ hop \in Nat /\ LengthOf(route, leg) \in Nat
        /\ hop <= LengthOf(route, leg)
    BY <1>1, PlaceFacts DEF IsPlace, LengthOf
  <1>3. CASE MisshiftedAt(route, odd, leg, hop)
    BY <1>1, <1>3, AfterNarrow
  <1>4. CASE ~ MisshiftedAt(route, odd, leg, hop) /\ ~ (WidthOf(route, odd, leg, hop) <= MaxPathLength)
    BY <1>1, <1>4, AtTooWide
  <1>5. CASE /\ ~ MisshiftedAt(route, odd, leg, hop)
             /\ WidthOf(route, odd, leg, hop) <= MaxPathLength
             /\ hop < LengthOf(route, leg)
    BY <1>1, <1>5, PassingOn
  <1>6. CASE /\ ~ MisshiftedAt(route, odd, leg, hop)
             /\ WidthOf(route, odd, leg, hop) <= MaxPathLength
             /\ leg = "forward" /\ hop = LengthOf(route, leg)
    <2>1. hop = route.n_f
      BY <1>6 DEF LengthOf
    <2>2. /\ IsPlace(route, odd, "backward", 1)
          /\ ProcOf(route, odd, "forward", hop)
               = [ok |-> TRUE, role |-> "Receiver", payload |-> Text("payload", route.payload)]
          /\ reply_onion(WidthOf(route, odd, "forward", hop),
                         private_keys[PathOf(route, "forward")[hop]],
                         OnionOf(route, odd, "forward", hop), Reply(route))
               = [ok |-> TRUE, next |-> PathOf(route, "backward")[1],
                  onion |-> OnionOf(route, odd, "backward", 1)]
      BY <1>1, <1>6, <2>1, AtReceiver
    <2>3. /\ width = WidthOf(route, odd, "forward", hop) /\ reply_payload = Reply(route)
          /\ current_address = PathOf(route, "forward")[hop]
          /\ current_onion = OnionOf(route, odd, "forward", hop)
      BY <1>6, StateNames DEF JourneyInv
    <2> QED
      BY <1>1, <1>6, <2>1, <2>2, <2>3
  <1>7. CASE /\ ~ MisshiftedAt(route, odd, leg, hop)
             /\ leg = "backward" /\ hop = LengthOf(route, leg)
    <2>1. hop = route.n_b
      BY <1>7 DEF LengthOf
    <2>2. /\ ProcOf(route, odd, "backward", hop)
               = [ok |-> TRUE, role |-> "Sender", payload |-> Reply(route)]
          /\ EndingOf(route, odd) = <<TurnOf(route, "backward", hop), "answered">>
      BY <1>1, <1>7, <2>1, AtSender
    <2>3. reply_payload = Reply(route)
      BY StateNames
    <2> QED
      BY <1>1, <1>7, <2>1, <2>2, <2>3
  <1>8. /\ hop < LengthOf(route, leg) \/ hop = LengthOf(route, leg)
        /\ leg = "forward" \/ leg = "backward"
    BY <1>2
  <1> QED
    BY <1>3, <1>4, <1>5, <1>6, <1>7, <1>8, Zenon

(* Every step of the loop keeps it. *)
LEMMA JourneyGoesOn == JourneyInv /\ [Next]_vars => JourneyInv'
  <1> SUFFICES ASSUME JourneyInv, [Next]_vars PROVE JourneyInv'
    OBVIOUS
  <1> DEFINE T == TurnOf(route, leg, hop)
  <1>1. IsPlace(route, odd, leg, hop) /\ leg \in {"forward", "backward"}
    BY DEF JourneyInv, IsPlace
  <1>2. CASE Hop
    <2>1. /\ proc.ok /\ proc.role = "Hop"
          /\ current_onion' = proc.next_onion /\ current_address' = proc.next_address
          /\ hop' = hop + 1 /\ outcome = "running"
          /\ route' = route /\ odd' = odd /\ expected_reply' = expected_reply
          /\ leg' = leg /\ received' = received /\ outcome' = outcome
      BY <1>2, Zenon DEF Hop
    <2>2. /\ IsPlace(route, odd, leg, hop + 1)
          /\ proc = PassedOn(PathOf(route, leg)[hop + 1], OnionOf(route, odd, leg, hop + 1))
      <3> DEFINE rcv == [ok |-> TRUE, role |-> "Receiver",
                         payload |-> Text("payload", route.payload)]
                 snd == [ok |-> TRUE, role |-> "Sender", payload |-> reply_payload]
                 there == /\ IsPlace(route, odd, leg, hop + 1)
                          /\ proc = PassedOn(PathOf(route, leg)[hop + 1],
                                             OnionOf(route, odd, leg, hop + 1))
      <3>1. rcv.role # "Hop" /\ snd.role # "Hop" /\ \A e : ~ Err(e).ok
        BY DEF Err
      <3> HIDE DEF rcv, snd
      <3>2. there \/ proc = rcv \/ proc = snd \/ \E e : proc = Err(e)
        BY ProcAtPlace, Zenon DEF rcv, snd
      <3> HIDE DEF there
      <3>3. there
        BY <2>1, <3>1, <3>2
      <3> QED
        BY <3>3, Zenon DEF there
    <2>3. /\ proc.next_onion = OnionOf(route, odd, leg, hop + 1)
          /\ proc.next_address = PathOf(route, leg)[hop + 1]
      BY <2>2 DEF PassedOn
    <2> QED
      BY <2>1, <2>2, <2>3 DEF JourneyInv
  <1>3. CASE Receiver
    <2> DEFINE reply == reply_onion(width, private_keys[current_address], current_onion,
                                    reply_payload)
    <2>1. /\ proc.ok /\ proc.role = "Receiver"
          /\ current_onion' = reply.onion /\ current_address' = reply.next
          /\ leg' = "backward" /\ hop' = 1 /\ outcome = "running"
          /\ received' = Append(received, proc.payload)
          /\ route' = route /\ odd' = odd /\ expected_reply' = expected_reply
          /\ outcome' = outcome
      BY <1>3, Zenon DEF Receiver
    <2>2. /\ leg = "forward"
          /\ proc = [ok |-> TRUE, role |-> "Receiver",
                     payload |-> Text("payload", route.payload)]
          /\ IsPlace(route, odd, "backward", 1)
          /\ reply = [ok |-> TRUE, next |-> PathOf(route, "backward")[1],
                      onion |-> OnionOf(route, odd, "backward", 1)]
      <3> DEFINE snd == [ok |-> TRUE, role |-> "Sender", payload |-> reply_payload]
                 there == /\ leg = "forward"
                          /\ proc = [ok |-> TRUE, role |-> "Receiver",
                                     payload |-> Text("payload", route.payload)]
                          /\ IsPlace(route, odd, "backward", 1)
                          /\ reply = [ok |-> TRUE, next |-> PathOf(route, "backward")[1],
                                      onion |-> OnionOf(route, odd, "backward", 1)]
      <3>1. snd.role # "Receiver" /\ \A e : ~ Err(e).ok
        BY DEF Err
      <3>2. \A a, x : PassedOn(a, x).role = "Hop"
        BY DEF PassedOn
      <3> HIDE DEF snd
      <3>3. \/ there \/ proc = snd \/ \E a, x : proc = PassedOn(a, x)
            \/ \E e : proc = Err(e)
        BY ProcAtPlace, Zenon DEF snd
      <3> HIDE DEF there
      <3>4. there
        BY <2>1, <3>1, <3>2, <3>3
      <3> QED
        BY <3>4, Zenon DEF there
    <2> HIDE DEF reply
    <2>3. received' = <<Text("payload", route.payload)>>
      <3>1. received = <<>>
        BY <2>2 DEF JourneyInv
      <3> QED
        BY <2>1, <2>2, <3>1
    <2> QED
      BY <2>1, <2>2, <2>3 DEF JourneyInv
  <1>4. CASE Ends
    <2>1. /\ proc.ok => proc.role = "Sender"
          /\ outcome' = IF ~ proc.ok THEN proc.err
                        ELSE IF proc.payload = reply_payload THEN "answered" ELSE "wrong reply"
          /\ route' = route /\ odd' = odd /\ expected_reply' = expected_reply
          /\ leg' = leg /\ hop' = hop /\ received' = received
          /\ current_address' = current_address /\ current_onion' = current_onion
      BY <1>4, Zenon DEF Ends
    <2>2. EndingOf(route, odd) = <<T, outcome'>>
      <3>1. \A a, x : PassedOn(a, x).ok /\ PassedOn(a, x).role = "Hop"
        BY DEF PassedOn
      <3>2. \A e : ~ Err(e).ok /\ Err(e).err = e
        BY DEF Err
      <3> DEFINE rcv == [ok |-> TRUE, role |-> "Receiver",
                         payload |-> Text("payload", route.payload)]
                 snd == [ok |-> TRUE, role |-> "Sender", payload |-> reply_payload]
      <3>3. rcv.ok /\ rcv.role = "Receiver" /\ snd.ok /\ snd.payload = reply_payload
        OBVIOUS
      <3> HIDE DEF rcv, snd, T
      <3>4. \/ \E a, x : proc = PassedOn(a, x)
            \/ proc = rcv
            \/ proc = snd /\ EndingOf(route, odd) = <<T, "answered">>
            \/ \E e : proc = Err(e) /\ EndingOf(route, odd) = <<T, e>>
        BY ProcAtPlace, Zenon DEF rcv, snd, T
      <3> QED
        BY <2>1, <3>1, <3>2, <3>3, <3>4
    <2> QED
      BY <2>1, <2>2 DEF JourneyInv
  <1>5. CASE Done \/ UNCHANGED vars
    BY <1>5 DEF Done, vars, JourneyInv
  <1> QED
    BY <1>2, <1>3, <1>4, <1>5 DEF Next

(* The loop stays in it. *)
THEOREM JourneyStays == Spec => []JourneyInv
  BY JourneyStarts, JourneyGoesOn, PTL DEF Spec

(* The onion visits the nodes of its two paths in order, is refused by     *)
(* none of them, is handed out at the end of the forward path only, and    *)
(* ends at its sender with the reply.                                      *)
THEOREM OnionVisitsThePath == Spec => []VisitsThePath
  <1>1. JourneyInv => VisitsThePath
    <2> SUFFICES ASSUME JourneyInv PROVE VisitsThePath
      OBVIOUS
    <2>1. /\ Path = PathOf(route, leg) /\ sent_payload = Text("payload", route.payload)
      BY StateNames
    <2>2. outcome \in {"running", "answered"} \/ odd.at # 0
      <3> SUFFICES ASSUME outcome # "running", odd.at = 0 PROVE outcome = "answered"
        OBVIOUS
      <3>1. <<TurnOf(route, leg, hop), outcome>> = <<route.n_f + route.n_b, "answered">>
        BY DEF JourneyInv, EndingOf
      <3> QED
        BY <3>1
    <2>3. outcome = "answered" => leg = "backward" /\ hop = route.n_b
      <3> SUFFICES ASSUME outcome = "answered" PROVE leg = "backward" /\ hop = route.n_b
        OBVIOUS
      <3>1. <<TurnOf(route, leg, hop), outcome>> = EndingOf(route, odd)
        BY DEF JourneyInv
      <3>2. TurnOf(route, leg, hop) = route.n_f + route.n_b
        BY <3>1 DEF EndingOf
      <3>3. IsPlace(route, odd, leg, hop) /\ leg \in {"forward", "backward"}
        BY DEF JourneyInv, IsPlace
      <3>4. /\ route.n_f \in Nat \ {0} /\ route.n_b \in Nat \ {0}
            /\ hop \in Nat \ {0} /\ hop <= LengthOf(route, leg)
        BY <3>3, PlaceFacts
      <3> QED
        BY <3>2, <3>3, <3>4 DEF TurnOf, LengthOf
    <2> QED
      BY <2>1, <2>2, <2>3 DEF VisitsThePath, JourneyInv
  <1> QED
    BY <1>1, JourneyStays, PTL

(* A node with another max_path_length ends the journey, where and as      *)
(* OddWidthEndsIt says.                                                    *)
THEOREM OddNodeEndsIt == Spec => []OddWidthEndsIt
  <1>1. JourneyInv => OddWidthEndsIt
    <2> SUFFICES ASSUME JourneyInv PROVE OddWidthEndsIt
      OBVIOUS
    <2>1. Turn = TurnOf(route, leg, hop)
      BY StateNames
    <2>2. outcome # "running" /\ odd.at # 0 =>
            <<TurnOf(route, leg, hop), outcome>> = EndingOf(route, odd)
      BY DEF JourneyInv
    <2> QED
      BY <2>1, <2>2, Zenon DEF OddWidthEndsIt, EndingOf
  <1> QED
    BY <1>1, JourneyStays, PTL

(* The size of an onion depends on the lengths of payload and reply and on *)
(* the leg it is on, and not on the lengths of the two paths or the place  *)
(* on them: it is the size the onion was formed with up to the receiver,   *)
(* and changes there by as much as the reply is longer than the payload.   *)
THEOREM SizesIgnoreThePath == Spec => []SizeIndependentOfPath
  <1>1. JourneyInv => SizeIndependentOfPath
    <2> SUFFICES ASSUME JourneyInv PROVE SizeIndependentOfPath
      OBVIOUS
    <2> DEFINE r == route
               o == Order(r)
               len == total_header_length + 8 + r.payload
    <2>1. IsPlace(r, odd, leg, hop) /\ leg \in {"forward", "backward"}
          /\ current_onion = OnionOf(r, odd, leg, hop)
      BY DEF JourneyInv, IsPlace
    <2>2. /\ r \in Routes /\ hop \in Nat \ {0} /\ hop <= LengthOf(r, leg)
          /\ r.n_f \in Nat \ {0} /\ r.n_b \in Nat \ {0}
      BY <2>1, PlaceFacts
    <2>3. /\ IsOrder(o) /\ n_forward(o) = r.n_f /\ n_backward(o) = r.n_b
          /\ IsBlob(Reply(r)) /\ Reply(r).len = r.reply /\ o.payload.len = r.payload
      BY <2>2, OrderIsOne
    <2>4. /\ \A h \in 1 .. r.n_f : HasSizes(ForthOnion(o, h), len, r.payload)
          /\ \A h \in 1 .. r.n_b : HasSizes(BackOnion(o, Reply(r), h), len, r.reply)
          /\ \A h \in 1 .. r.n_f - 1 : \A w \in 1 .. MaxPathLength :
               HasSizes(ForthShifted(o, h, w), len, r.payload)
          /\ \A h \in 1 .. r.n_b - 1 : \A w \in 1 .. MaxPathLength :
               HasSizes(BackShifted(o, Reply(r), h, w), len, r.reply)
      BY <2>3, OnionsHaveOneSize
    <2>5. MisshiftedAt(r, odd, leg, hop) =>
            hop - 1 \in 1 .. LengthOf(r, leg) - 1 /\ odd.width \in 1 .. MaxPathLength
      BY <2>1, AfterNarrow, MaxPathLengthAssumption
    <2>6. HasSizes(current_onion, len, IF leg = "forward" THEN r.payload ELSE r.reply)
      <3>1. CASE leg = "forward"
        <4>1. hop \in 1 .. r.n_f /\ LengthOf(r, leg) = r.n_f
          BY <2>2, <3>1 DEF LengthOf
        <4> HIDE DEF r, o, len
        <4> QED
          BY <2>1, <2>4, <2>5, <3>1, <4>1 DEF OnionOf, o
      <3>2. CASE leg = "backward"
        <4>1. hop \in 1 .. r.n_b /\ LengthOf(r, leg) = r.n_b
          BY <2>2, <3>2 DEF LengthOf
        <4> HIDE DEF r, o, len
        <4> QED
          BY <2>1, <2>4, <2>5, <3>2, <4>1 DEF OnionOf, o
      <3> QED
        BY <2>1, <3>1, <3>2
    <2>7. HeaderBytes(current_onion.header) = total_header_length
      BY <2>6, HeaderTakesItsLength DEF HasSizes
    <2>8. total_header_length \in Nat /\ VecLengthBytes = 8 /\ TagBytes = 16
      BY MaxPathLengthAssumption
         DEF total_header_length, single_header_length, SYMMETRIC_KEY_LENGTH, ADDRESS_LENGTH,
             VecLengthBytes, TagBytes
    <2>9. r.payload \in Nat /\ r.reply \in Nat
      BY <2>2, LengthsAssumption DEF Routes
    <2> DEFINE back == current_onion.backward.vec.len
               forth == current_onion.forward.len
               t == total_header_length
    <2>10. /\ back = IF leg = "forward" THEN r.payload ELSE r.reply
           /\ forth = t + 8 + r.payload
           /\ onion_size(current_onion) = t + 8 + forth + 8 + back + 16
      BY <2>6, <2>7, <2>8, Zenon DEF HasSizes, onion_size
    <2> HIDE DEF back, forth, t
    <2>11. onion_size(current_onion) =
             2 * (t + r.payload) + 40
               + (IF leg = "forward" THEN 0 ELSE r.reply - r.payload)
      BY <2>8, <2>9, <2>10 DEF t
    <2> QED
      BY <2>6, <2>11 DEF t, HasSizes, SizeIndependentOfPath
  <1> QED
    BY <1>1, JourneyStays, PTL

(* CellIsRight says of the state's header what IsCellAt says of a header   *)
(* that was built for the keys and the metas of the leg's path.            *)
LEMMA RightCell ==
  ASSUME NEW keys, NEW n \in Nat, Len(keys) = n, Len(Path) = n,
         \A i \in 1 .. n : keys[i] = key_of(i),
         NEW data, \A i \in 1 .. n : data[i].public = private_keys[Path[i]],
         NEW h \in 1 .. n, NEW c \in 1 .. MaxPathLength,
         IsCellAt([rng |-> "coins", leg |-> leg], keys, data, h, c, current_onion.header[c])
  PROVE  CellIsRight(h, c)
  <1> DEFINE N     == MaxPathLength
             cell  == current_onion.header[c]
             block == h + c - 1
             zero  == h + c - N - 1
             drawn == h + c - n
             rng   == [rng |-> "coins", leg |-> leg]
  <1>1. N \in Nat \ {0}
    BY MaxPathLengthAssumption
  <1> HIDE DEF cell, rng
  <1>2. CASE block <= n
    <2>1. IsBlockOf(cell, keys, data, block, c - 1)
      BY <1>2 DEF IsCellAt, cell, rng
    <2>2. cell.base.kind = "block" /\ cell.base.cipher.public = private_keys[Path[block]]
      <3>1. block \in 1 .. n
        BY <1>1, <1>2
      <3> QED
        BY <2>1, <3>1 DEF IsBlockOf
    <2>3. ASSUME NEW i \in 1 .. c - 1
          PROVE  [dir |-> "enc", key |-> derive_key(SymEnc, keys[block - i]), nonce |-> 1 + i]
                   = layer("enc", block - i, i + 1)
      <3>1. block - i \in 1 .. n /\ 1 + i = i + 1
        BY <1>1, <1>2
      <3> QED
        BY <3>1 DEF layer
    <2>4. cell.layers = [i \in 1 .. c - 1 |-> layer("enc", block - i, i + 1)]
      BY <2>1, <2>3 DEF IsBlockOf, enc_layers
    <2> QED
      BY <1>2, <2>2, <2>4 DEF CellIsRight, cell
  <1>3. CASE ~ (block <= n) /\ zero >= 1
    <2>1. IsZeroOf(cell, keys, zero, N + 1 - c)
      BY <1>3 DEF IsCellAt, cell, rng
    <2>2. N + 1 - c = h - zero
      BY <1>1
    <2>3. ASSUME NEW i \in 1 .. h - zero
          PROVE  [dir |-> "dec", key |-> derive_key(SymEnc, keys[zero + i - 1]),
                  nonce |-> N + 2 - i]
                   = layer("dec", zero + i - 1, N + 2 - i)
      <3>1. zero + i - 1 \in 1 .. n
        BY <1>1, <1>3
      <3> QED
        BY <3>1 DEF layer
    <2>4. cell.layers = [i \in 1 .. h - zero |-> layer("dec", zero + i - 1, N + 2 - i)]
      BY <2>1, <2>2, <2>3 DEF IsZeroOf, dec_layers
    <2>5. cell.base.kind = "zero"
      BY <2>1 DEF IsZeroOf
    <2> QED
      BY <1>3, <2>4, <2>5 DEF CellIsRight, cell
  <1>4. CASE ~ (block <= n) /\ ~ (zero >= 1)
    <2>1. IsDrawn(cell, rng, keys, drawn, n - h)
      BY <1>4 DEF IsCellAt, cell, rng
    <2>3. ASSUME NEW i \in 1 .. n - h
          PROVE  [dir |-> "enc", key |-> derive_key(SymEnc, keys[n - i]), nonce |-> drawn + i]
                   = layer("enc", n - i, drawn + i)
      <3>1. n - i \in 1 .. n
        BY <1>1
      <3> QED
        BY <3>1 DEF layer
    <2>4. cell.layers = [i \in 1 .. n - h |-> layer("enc", n - i, drawn + i)]
      BY <2>1, <2>3 DEF IsDrawn, enc_layers
    <2>5. cell.base = [kind |-> "random", coin |-> [rng |-> rng, cell |-> drawn]]
      BY <2>1 DEF IsDrawn
    <2> QED
      BY <1>4, <2>4, <2>5 DEF CellIsRight, cell, rng
  <1> QED
    BY <1>2, <1>3, <1>4

(* Every header on the way, before a node of another width has had it, is  *)
(* what HeaderIsRight says: cell by cell and layer by layer.               *)
THEOREM HeadersStayRight == Spec => []HeaderIsRight
  <1>1. JourneyInv => HeaderIsRight
    <2> SUFFICES ASSUME JourneyInv, ~ Misshifted, NEW c \in 1 .. MaxPathLength
                 PROVE  CellIsRight(hop, c)
      BY DEF HeaderIsRight
    <2> DEFINE r == route
               o == Order(r)
    <2>1. IsPlace(r, odd, leg, hop) /\ leg \in {"forward", "backward"}
          /\ current_onion = OnionOf(r, odd, leg, hop)
      BY DEF JourneyInv, IsPlace
    <2>2. /\ r \in Routes /\ hop \in Nat \ {0} /\ hop <= LengthOf(r, leg)
          /\ r.n_f \in Nat \ {0} /\ r.n_b \in Nat \ {0}
      BY <2>1, PlaceFacts
    <2>3. /\ IsOrder(o) /\ n_forward(o) = r.n_f /\ n_backward(o) = r.n_b
          /\ r.n_f \in Lengths /\ r.n_b \in Lengths
      BY <2>2, OrderIsOne
    <2>4. ~ MisshiftedAt(r, odd, leg, hop) /\ Path = PathOf(r, leg)
      BY StateNames DEF Misshifted, MisshiftedAt
    <2>5. /\ o.rng = "coins" /\ o.pki = private_keys
          /\ o.hops_forward = forward_path(r.n_f) /\ o.hops_backward = backward_path(r.n_b)
      BY DEF Order
    <2>6. CASE leg = "forward"
      <3> DEFINE keys == keys_forward(o)
                 data == ciphers_forward(o)
      <3>1. /\ hop \in 1 .. r.n_f /\ r.n_f \in Nat /\ Len(Path) = r.n_f
            /\ Path = o.hops_forward
        BY <2>2, <2>3, <2>4, <2>5, <2>6, PathFacts DEF LengthOf, PathOf
      <3>2. Len(keys) = r.n_f /\ \A i \in 1 .. r.n_f : keys[i] = key_of(i)
        BY <2>3, <2>5, <2>6, OrderFacts DEF keys_forward, key_of, master
      <3>3. \A i \in 1 .. r.n_f : data[i].public = private_keys[Path[i]]
        BY <2>5, <3>1, <3>2 DEF ciphers_forward, meta_ciphers, asymmetric_encrypt
      <3>4. current_onion.header[c] = layers_forward(o)[hop].headers[c]
        BY <2>1, <2>4, <2>6 DEF OnionOf, ForthOnion
      <3>5. ForthCellsAt(o, hop)
        BY <2>3, <3>1, HeadersAreRight
      <3>6. IsCellAt([rng |-> "coins", leg |-> leg], keys, data, hop, c,
                     current_onion.header[c])
        BY <2>5, <2>6, <3>4, <3>5 DEF ForthCellsAt
      <3> HIDE DEF keys, data
      <3> QED
        BY <3>1, <3>2, <3>3, <3>6, RightCell
    <2>7. CASE leg = "backward"
      <3> DEFINE keys == keys_backward(o)
                 data == ciphers_backward(o)
      <3>1. /\ hop \in 1 .. r.n_b /\ r.n_b \in Nat /\ Len(Path) = r.n_b
            /\ Path = o.hops_backward
        BY <2>2, <2>3, <2>4, <2>5, <2>7, PathFacts DEF LengthOf, PathOf
      <3>2. Len(keys) = r.n_b /\ \A i \in 1 .. r.n_b : keys[i] = key_of(i)
        BY <2>3, <2>5, <2>7, OrderFacts DEF keys_backward, key_of, master
      <3>3. \A i \in 1 .. r.n_b : data[i].public = private_keys[Path[i]]
        BY <2>5, <3>1, <3>2 DEF ciphers_backward, meta_ciphers, asymmetric_encrypt
      <3>4. current_onion.header[c] = layers_backward(o)[hop].headers[c]
        BY <2>1, <2>4, <2>7 DEF OnionOf, BackOnion
      <3>5. BackCellsAt(o, hop)
        BY <2>3, <3>1, HeadersAreRight
      <3>6. IsCellAt([rng |-> "coins", leg |-> leg], keys, data, hop, c,
                     current_onion.header[c])
        BY <2>5, <2>7, <3>4, <3>5 DEF BackCellsAt
      <3> HIDE DEF keys, data
      <3> QED
        BY <3>1, <3>2, <3>3, <3>6, RightCell
    <2> QED
      BY <2>1, <2>6, <2>7
  <1> QED
    BY <1>1, JourneyStays, PTL
=============================================================================
