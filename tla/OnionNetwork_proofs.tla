------------------------- MODULE OnionNetwork_proofs -------------------------
(***************************************************************************)
(* Onions of any number of senders, over a network that loses, repeats and *)
(* alters them: what OnionNetwork promises for all nodes, orders, replies, *)
(* path lengths and fault bounds, and that the steps its nodes take on     *)
(* onions are the steps that RelayPath takes on packets.                   *)
(***************************************************************************)
EXTENDS OnionNetwork, OnionFormat_proofs, TLAPS

-----------------------------------------------------------------------------
(* A.  The two legs of an order.  What a node does with header and forward *)
(* section does not depend on the backward section that comes with them:   *)
(* no tag of the header covers it.                                         *)

Legs == {"forward", "backward"}

LegKeys(o, leg)   == IF leg = "forward" THEN keys_forward(o) ELSE keys_backward(o)
LegHops(o, leg)   == IF leg = "forward" THEN o.hops_forward ELSE o.hops_backward
LegLayers(o, leg) == IF leg = "forward" THEN layers_forward(o) ELSE layers_backward(o)
LegMeta(o, leg)   == IF leg = "forward" THEN ReceiverMeta(o.hops_backward[1])
                     ELSE SenderMeta(n_forward(o), n_backward(o))

(* What hop h of a leg is to receive, but for the backward section.        *)
LegOnion(o, leg, h, backward) ==
  [header |-> LegLayers(o, leg)[h].headers, forward |-> LegLayers(o, leg)[h].forward,
   backward |-> backward]

(* Both legs are made by onionize.                                         *)
IsOnionized(rng, pub, keys, hops, meta, fwd_n, layer) ==
  /\ IsBlob(fwd_n)
  /\ layer = onion_layers(keys, meta_ciphers(pub, keys, hops, meta), last_cells(rng, keys),
                          fwd_n)

LEMMA LegIsOnionized ==
  ASSUME NEW o, IsOrder(o), NEW leg \in Legs
  PROVE  /\ IsPathKeys(LegKeys(o, leg))
         /\ Len(LegHops(o, leg)) = Len(LegKeys(o, leg))
         /\ Len(LegHops(o, leg)) \in Nat \ {0}
         /\ \E rng, fwd_n : IsOnionized(rng, o.pki, LegKeys(o, leg), LegHops(o, leg),
                                        LegMeta(o, leg), fwd_n, LegLayers(o, leg))
  <1>1. CASE leg = "forward"
    <2> DEFINE rng == [rng |-> o.rng, leg |-> "forward"]
               fwd_n == symmetric_encrypt(derive_key(SymEnc, keys_forward(o)[n_forward(o)]),
                                          NONCE_FWD, message(o))
    <2>1. /\ LegKeys(o, leg) = keys_forward(o) /\ LegHops(o, leg) = o.hops_forward
          /\ LegMeta(o, leg) = ReceiverMeta(o.hops_backward[1])
          /\ LegLayers(o, leg) = layers_forward(o)
      BY <1>1 DEF LegKeys, LegHops, LegMeta, LegLayers
    <2>2. IsBlob(fwd_n)
      BY MessageFacts, CipherKeeps DEF symmetric_encrypt
    <2>3. layers_forward(o)
            = onion_layers(keys_forward(o),
                           meta_ciphers(o.pki, keys_forward(o), o.hops_forward,
                                        ReceiverMeta(o.hops_backward[1])),
                           last_cells(rng, keys_forward(o)), fwd_n)
      BY Zenon DEF layers_forward, ciphers_forward
    <2> HIDE DEF rng, fwd_n
    <2>4. IsOnionized(rng, o.pki, LegKeys(o, leg), LegHops(o, leg), LegMeta(o, leg), fwd_n,
                      LegLayers(o, leg))
      BY <2>1, <2>2, <2>3, Zenon DEF IsOnionized
    <2> QED
      BY <2>1, <2>4, OrderFacts DEF n_forward
  <1>2. CASE leg = "backward"
    <2> DEFINE rng == [rng |-> o.rng, leg |-> "backward"]
               fwd_n == forward_sections(keys_backward(o), filler(o))[n_backward(o) - 1]
    <2>1. /\ LegKeys(o, leg) = keys_backward(o) /\ LegHops(o, leg) = o.hops_backward
          /\ LegMeta(o, leg) = SenderMeta(n_forward(o), n_backward(o))
          /\ LegLayers(o, leg) = layers_backward(o)
      BY <1>2 DEF LegKeys, LegHops, LegMeta, LegLayers
    <2>2. IsBlob(fwd_n)
      BY OrderFacts
    <2>3. layers_backward(o)
            = onion_layers(keys_backward(o),
                           meta_ciphers(o.pki, keys_backward(o), o.hops_backward,
                                        SenderMeta(n_forward(o), n_backward(o))),
                           last_cells(rng, keys_backward(o)), fwd_n)
      BY Zenon DEF layers_backward, ciphers_backward
    <2> HIDE DEF rng, fwd_n
    <2>4. IsOnionized(rng, o.pki, LegKeys(o, leg), LegHops(o, leg), LegMeta(o, leg), fwd_n,
                      LegLayers(o, leg))
      BY <2>1, <2>2, <2>3, Zenon DEF IsOnionized
    <2> QED
      BY <2>1, <2>4, OrderFacts DEF n_backward
  <1> QED
    BY <1>1, <1>2 DEF Legs

(* The header and the forward section on a leg are as long as any.         *)
LEMMA LegShape ==
  ASSUME NEW o, IsOrder(o), NEW leg \in Legs, NEW h \in 1 .. Len(LegHops(o, leg))
  PROVE  /\ IsHeader(LegLayers(o, leg)[h].headers, MaxPathLength)
         /\ Len(LegLayers(o, leg)[h].headers) = MaxPathLength
         /\ IsBlob(LegLayers(o, leg)[h].forward)
         /\ LegLayers(o, leg)[h].forward.len = total_header_length + 8 + o.payload.len
  <1>1. CASE leg = "forward"
    <2>1. LegLayers(o, leg) = layers_forward(o) /\ h \in 1 .. n_forward(o)
      BY <1>1 DEF LegLayers, LegHops, n_forward
    <2> QED
      BY <2>1, ForwardLayers, MessageFacts
  <1>2. CASE leg = "backward"
    <2>1. LegLayers(o, leg) = layers_backward(o) /\ h \in 1 .. n_backward(o)
      BY <1>2 DEF LegLayers, LegHops, n_backward
    <2> QED
      BY <2>1, BackwardLayers, OrderFacts
  <1> QED
    BY <1>1, <1>2 DEF Legs

(* The first block of an onion on a leg is sealed over all the others and  *)
(* the forward section, for the hop that it has reached.                   *)
LEMMA LegIsSealed ==
  ASSUME NEW o, IsOrder(o), NEW leg \in Legs, NEW h \in 1 .. Len(LegHops(o, leg))
  PROVE  IsSealed(LegKeys(o, leg)[h],
                  asymmetric_encrypt(o.pki[LegHops(o, leg)[h]],
                    [key |-> LegKeys(o, leg)[h],
                     meta |-> PartOf(LegHops(o, leg), h, LegMeta(o, leg))]),
                  LegLayers(o, leg)[h].headers, LegLayers(o, leg)[h].forward)
  <1> DEFINE keys == LegKeys(o, leg)
             hops == LegHops(o, leg)
             meta == LegMeta(o, leg)
             layer == LegLayers(o, leg)
  <1>1. PICK rng, fwd_n : IsOnionized(rng, o.pki, keys, hops, meta, fwd_n, layer)
    BY LegIsOnionized
  <1>2. IsPathKeys(keys) /\ Len(hops) = Len(keys) /\ h \in 1 .. Len(keys)
    BY LegIsOnionized
  <1> HIDE DEF keys, hops, meta, layer
  <1>3. LET L == onion_layers(keys, meta_ciphers(o.pki, keys, hops, meta),
                              last_cells(rng, keys), fwd_n)
        IN  IsSealed(keys[h],
                     asymmetric_encrypt(o.pki[hops[h]],
                       [key |-> keys[h],
                        meta |-> IF h = Len(keys) THEN meta ELSE HopMeta(hops[h + 1])]),
                     L[h].headers, L[h].forward)
    BY <1>1, <1>2, LayerIsSealedForHop DEF IsOnionized
  <1>4. layer = onion_layers(keys, meta_ciphers(o.pki, keys, hops, meta),
                             last_cells(rng, keys), fwd_n)
    BY <1>1 DEF IsOnionized
  <1>5. PartOf(hops, h, meta) = IF h = Len(keys) THEN meta ELSE HopMeta(hops[h + 1])
    BY <1>2 DEF PartOf
  <1>6. IsSealed(keys[h], asymmetric_encrypt(o.pki[hops[h]],
                            [key |-> keys[h], meta |-> PartOf(hops, h, meta)]),
                 layer[h].headers, layer[h].forward)
    BY <1>3, <1>4, <1>5, Zenon
  <1> QED
    BY <1>6 DEF keys, hops, meta, layer

-----------------------------------------------------------------------------
(* B.  What a node makes of an onion on a leg, with any backward section.  *)

(* The owner of the key that the onion was formed with peels the layer.    *)
Peeled(o, leg, h, backward) ==
  [header   |-> shifted(MaxPathLength, derive_key(SymEnc, LegKeys(o, leg)[h]),
                        LegLayers(o, leg)[h].headers),
   forward  |-> symmetric_decrypt(derive_key(SymEnc, LegKeys(o, leg)[h]), NONCE_FWD,
                                  LegLayers(o, leg)[h].forward),
   backward |-> ae_unwrap(LegKeys(o, leg)[h], backward)]

LEMMA LegOpens ==
  ASSUME NEW o, IsOrder(o), NEW leg \in Legs, NEW h \in 1 .. Len(LegHops(o, leg)),
         NEW backward
  PROVE  unwrap(MaxPathLength, o.pki[LegHops(o, leg)[h]], LegOnion(o, leg, h, backward))
         = [ok |-> TRUE, key |-> LegKeys(o, leg)[h],
            meta |-> PartOf(LegHops(o, leg), h, LegMeta(o, leg)),
            onion |-> Peeled(o, leg, h, backward)]
  <1> DEFINE k == LegKeys(o, leg)[h]
             m == PartOf(LegHops(o, leg), h, LegMeta(o, leg))
             H == LegLayers(o, leg)[h].headers
             F == LegLayers(o, leg)[h].forward
             p == o.pki[LegHops(o, leg)[h]]
  <1>1. IsSealed(k, asymmetric_encrypt(p, [key |-> k, meta |-> m]), H, F)
    BY LegIsSealed
  <1>2. ~ (MaxPathLength > Len(H))
    BY LegShape, MaxPathLengthAssumption
  <1>3. /\ LegOnion(o, leg, h, backward) = [header |-> H, forward |-> F, backward |-> backward]
        /\ Peeled(o, leg, h, backward)
             = [header   |-> shifted(MaxPathLength, derive_key(SymEnc, k), H),
                forward  |-> symmetric_decrypt(derive_key(SymEnc, k), NONCE_FWD, F),
                backward |-> ae_unwrap(k, backward)]
    BY DEF LegOnion, Peeled
  <1> HIDE DEF k, m, H, F, p
  <1>4. unwrap(MaxPathLength, p, [header |-> H, forward |-> F, backward |-> backward])
          = Unwrapped(MaxPathLength, k, m, H, F, backward)
    BY <1>1, UnwrapSealed
  <1>5. unwrap(MaxPathLength, p, [header |-> H, forward |-> F, backward |-> backward])
          = [ok |-> TRUE, key |-> k, meta |-> m, onion |-> Peeled(o, leg, h, backward)]
    BY <1>2, <1>3, <1>4, Zenon DEF Unwrapped
  <1> QED
    BY <1>3, <1>5 DEF k, m, p

(* Whoever owns another key refuses the onion.                             *)
LEMMA LegRefuses ==
  ASSUME NEW o, IsOrder(o), NEW leg \in Legs, NEW h \in 1 .. Len(LegHops(o, leg)),
         NEW backward, NEW private, private # o.pki[LegHops(o, leg)[h]]
  PROVE  unwrap(MaxPathLength, private, LegOnion(o, leg, h, backward)) = Err("MacMismatch")
  <1> DEFINE k == LegKeys(o, leg)[h]
             msg == [key |-> k, meta |-> PartOf(LegHops(o, leg), h, LegMeta(o, leg))]
             H == LegLayers(o, leg)[h].headers
             F == LegLayers(o, leg)[h].forward
             p == o.pki[LegHops(o, leg)[h]]
             data == asymmetric_encrypt(p, msg)
             mac == tag(derive_key(Mac, k), Sealed(data, Tail(H), F))
             onion == LegOnion(o, leg, h, backward)
  <1>1. onion.header[1] = HeaderBlock(mac, data)
    BY LegIsSealed DEF IsSealed, LegOnion
  <1>2. asymmetric_decrypt(private, data) = Garbage
    BY OwnKeyOpens
  <1> HIDE DEF data, mac, onion
  <1>3. IsPlain(onion.header[1], "block") /\ onion.header[1].base.cipher = data
    BY <1>1, BlockFields
  <1>4. unwrap(MaxPathLength, private, onion) = Err("MacMismatch")
    BY <1>2, <1>3, Zenon DEF unwrap
  <1> QED
    BY <1>4 DEF onion

(* A hop before the last passes the onion of the next hop on.              *)
LEMMA LegLeavesNext ==
  ASSUME NEW o, IsOrder(o), NEW leg \in Legs, NEW h \in 1 .. Len(LegHops(o, leg)) - 1,
         NEW backward
  PROVE  Peeled(o, leg, h, backward)
           = LegOnion(o, leg, h + 1, ae_unwrap(LegKeys(o, leg)[h], backward))
  <1> DEFINE keys == LegKeys(o, leg)
             hops == LegHops(o, leg)
             meta == LegMeta(o, leg)
             layer == LegLayers(o, leg)
             H == layer[h].headers
             F == layer[h].forward
  <1>1. PICK rng, fwd_n : IsOnionized(rng, o.pki, keys, hops, meta, fwd_n, layer)
    BY LegIsOnionized
  <1>2. IsPathKeys(keys) /\ Len(hops) = Len(keys) /\ h \in 1 .. Len(keys) - 1
        /\ h \in 1 .. Len(hops)
    BY LegIsOnionized
  <1> HIDE DEF keys, hops, meta, layer
  <1>3. layer = onion_layers(keys, meta_ciphers(o.pki, keys, hops, meta),
                             last_cells(rng, keys), fwd_n)
    BY <1>1 DEF IsOnionized
  <1>4. unwrap(MaxPathLength, o.pki[hops[h]],
               [header |-> H, forward |-> F, backward |-> backward])
          = [ok |-> TRUE, key |-> keys[h], meta |-> HopMeta(hops[h + 1]),
             onion |-> [header |-> layer[h + 1].headers, forward |-> layer[h + 1].forward,
                        backward |-> ae_unwrap(keys[h], backward)]]
    BY <1>1, <1>2, <1>3, HopPeelsItsLayer DEF IsOnionized
  <1>5. unwrap(MaxPathLength, o.pki[hops[h]],
               [header |-> H, forward |-> F, backward |-> backward]).onion
          = LegOnion(o, leg, h + 1, ae_unwrap(keys[h], backward))
    BY <1>4 DEF LegOnion, layer
  <1>6. unwrap(MaxPathLength, o.pki[hops[h]], LegOnion(o, leg, h, backward)).onion
          = Peeled(o, leg, h, backward)
    <2>1. h \in 1 .. Len(LegHops(o, leg))
      BY <1>2 DEF hops
    <2>2. unwrap(MaxPathLength, o.pki[hops[h]], LegOnion(o, leg, h, backward))
            = [ok |-> TRUE, key |-> LegKeys(o, leg)[h],
               meta |-> PartOf(LegHops(o, leg), h, LegMeta(o, leg)),
               onion |-> Peeled(o, leg, h, backward)]
      BY <2>1, LegOpens DEF hops
    <2> QED
      BY <2>2
  <1>7. LegOnion(o, leg, h, backward) = [header |-> H, forward |-> F, backward |-> backward]
    BY DEF LegOnion, layer
  <1> QED
    BY <1>5, <1>6, <1>7 DEF keys

Passes(o, leg, h, backward, expected_tag) ==
  proc_onion(MaxPathLength, o.pki[LegHops(o, leg)[h]], expected_tag,
             LegOnion(o, leg, h, backward))
    = PassedOn(LegHops(o, leg)[h + 1],
               LegOnion(o, leg, h + 1, ae_unwrap(LegKeys(o, leg)[h], backward)))

LEMMA LegPasses ==
  ASSUME NEW o, IsOrder(o), NEW leg \in Legs, NEW h \in 1 .. Len(LegHops(o, leg)) - 1,
         NEW backward, NEW expected_tag
  PROVE  Passes(o, leg, h, backward, expected_tag)
  <1> DEFINE passed == LegOnion(o, leg, h + 1, ae_unwrap(LegKeys(o, leg)[h], backward))
             address == LegHops(o, leg)[h + 1]
             k == LegKeys(o, leg)[h]
             p == o.pki[LegHops(o, leg)[h]]
             onion == LegOnion(o, leg, h, backward)
             m == PartOf(LegHops(o, leg), h, LegMeta(o, leg))
             left == Peeled(o, leg, h, backward)
  <1>1. h \in 1 .. Len(LegHops(o, leg)) /\ h # Len(LegHops(o, leg))
    BY LegIsOnionized
  <1>2. unwrap(MaxPathLength, p, onion) = [ok |-> TRUE, key |-> k, meta |-> m, onion |-> left]
    BY <1>1, LegOpens
  <1>3. m = HopMeta(address)
    BY <1>1 DEF PartOf
  <1>4. left = passed
    BY LegLeavesNext
  <1> HIDE DEF passed, address, k, p, onion, m, left
  <1>5. unwrap(MaxPathLength, p, onion) = Opened(k, address, passed)
    BY <1>2, <1>3, <1>4 DEF Opened
  <1>6. proc_onion(MaxPathLength, p, expected_tag, onion) = PassedOn(address, passed)
    BY <1>5, PassesOn
  <1> QED
    BY <1>6 DEF Passes, passed, address, p, onion

(* The last hop of the forward leg finds the payload, whatever came with   *)
(* it, and makes its answer from the tag of the backward section.          *)
Arrives(o, h, backward, expected_tag, reply) ==
  LET private == o.pki[LegHops(o, "forward")[h]]
      onion   == LegOnion(o, "forward", h, backward)
      key     == LegKeys(o, "forward")[h]
  IN  /\ proc_onion(MaxPathLength, private, expected_tag, onion)
           = [ok |-> TRUE, role |-> "Receiver", payload |-> o.payload]
      /\ reply_onion(MaxPathLength, private, onion, reply)
           = [ok |-> TRUE, next |-> o.hops_backward[1],
              onion |-> LegOnion(o, "backward", 1,
                                 ae_enc(key, ae_unwrap(key, backward).tag, reply))]

LEMMA LegArrives ==
  ASSUME NEW o, IsOrder(o), NEW h, h = Len(LegHops(o, "forward")), NEW backward,
         NEW expected_tag, NEW reply
  PROVE  Arrives(o, h, backward, expected_tag, reply)
  <1> DEFINE private == o.pki[LegHops(o, "forward")[h]]
             onion == LegOnion(o, "forward", h, backward)
             key == LegKeys(o, "forward")[h]
             passed == Peeled(o, "forward", h, backward)
             meta == ReceiverMeta(o.hops_backward[1])
             peeled == [ok |-> TRUE, key |-> key, meta |-> meta, onion |-> passed]
             answer == ae_enc(key, ae_unwrap(key, backward).tag, reply)
  <1>1. /\ h \in 1 .. Len(LegHops(o, "forward")) /\ h = n_forward(o)
        /\ "forward" \in Legs /\ h \in 1 .. n_forward(o)
        /\ key = keys_forward(o)[n_forward(o)]
    BY LegIsOnionized DEF LegHops, Legs, n_forward, LegKeys
  <1>2. PartOf(LegHops(o, "forward"), h, LegMeta(o, "forward")) = meta
    BY DEF PartOf, LegMeta
  <1>3. unwrap(MaxPathLength, private, onion) = peeled
    BY <1>1, <1>2, LegOpens
  <1>4. passed.forward = message(o) /\ passed.backward = ae_unwrap(key, backward)
    <2>1. LegLayers(o, "forward")[h].forward = layers_forward(o)[n_forward(o)].forward
      BY <1>1 DEF LegLayers
    <2>2. symmetric_decrypt(derive_key(SymEnc, keys_forward(o)[n_forward(o)]), NONCE_FWD,
                            layers_forward(o)[n_forward(o)].forward) = message(o)
      BY <1>1, ForwardLayers, MessageFacts, DecryptEncrypt
    <2> QED
      BY <1>1, <2>1, <2>2 DEF Peeled
  <1>5. /\ peeled.ok /\ peeled.key = key /\ peeled.onion = passed
        /\ peeled.meta.role = "Receiver" /\ peeled.meta.next = o.hops_backward[1]
    BY DEF ReceiverMeta
  <1>6. /\ IsPlain(message(o), "message")
        /\ message(o).base.replyHeader = layers_backward(o)[1].headers
        /\ message(o).base.payload = o.payload
    BY MessageFacts
  <1>7. onion.forward.len = total_header_length + 8 + o.payload.len
    BY <1>1, LegShape DEF LegOnion
  <1>8. LegOnion(o, "backward", 1, answer)
          = [header |-> layers_backward(o)[1].headers, forward |-> filler(o),
             backward |-> answer]
    <2>1. 1 \in 1 .. n_backward(o)
      BY OrderFacts
    <2>2. layers_backward(o)[1].forward = filler(o)
      BY <2>1, BackwardLayers
    <2> QED
      BY <2>2 DEF LegOnion, LegLayers
  <1>9. prng(derive_key(PrngRole, key), onion.forward.len) = filler(o)
    BY <1>1, <1>7 DEF filler
  <1>10. answer = ae_enc(key, passed.backward.tag, reply)
    BY <1>4
  <1> HIDE DEF peeled, passed, private, onion, key, meta, answer
  <1>11. proc_onion(MaxPathLength, private, expected_tag, onion)
           = [ok |-> TRUE, role |-> "Receiver", payload |-> o.payload]
    <2>1. IsPlain(peeled.onion.forward, "message")
      BY <1>4, <1>5, <1>6
    <2>2. proc_onion(MaxPathLength, private, expected_tag, onion)
            = [ok |-> TRUE, role |-> "Receiver", payload |-> peeled.onion.forward.base.payload]
      BY <1>3, <1>5, <2>1, ProcRoles
    <2> QED
      BY <1>4, <1>5, <1>6, <2>2
  <1>12. reply_onion(MaxPathLength, private, onion, reply)
           = [ok |-> TRUE, next |-> o.hops_backward[1],
              onion |-> [header |-> layers_backward(o)[1].headers, forward |-> filler(o),
                         backward |-> answer]]
    BY <1>3, <1>4, <1>5, <1>6, <1>9, <1>10, Zenon DEF reply_onion
  <1>13. reply_onion(MaxPathLength, private, onion, reply)
           = [ok |-> TRUE, next |-> o.hops_backward[1],
              onion |-> LegOnion(o, "backward", 1, answer)]
    BY <1>8, <1>12
  <1> QED
    BY <1>11, <1>13 DEF Arrives, private, onion, key, answer

(* The last hop of the backward leg takes the onion for a reply.           *)
Returns(o, h, backward, expected_tag) ==
  LET onion == LegOnion(o, "backward", h, backward)
  IN  proc_onion(MaxPathLength, o.pki[LegHops(o, "backward")[h]], expected_tag, onion)
        = accept_reply(random_key(o.rng),
                       [n_forward |-> n_forward(o), n_backward |-> n_backward(o)],
                       onion, expected_tag)

LEMMA LegReturns ==
  ASSUME NEW o, IsOrder(o), NEW h, h = Len(LegHops(o, "backward")), NEW backward,
         NEW expected_tag
  PROVE  Returns(o, h, backward, expected_tag)
  <1> DEFINE private == o.pki[LegHops(o, "backward")[h]]
             onion == LegOnion(o, "backward", h, backward)
             key == LegKeys(o, "backward")[h]
             passed == Peeled(o, "backward", h, backward)
             lengths == [n_forward |-> n_forward(o), n_backward |-> n_backward(o)]
             meta == SenderMeta(n_forward(o), n_backward(o))
             peeled == [ok |-> TRUE, key |-> key, meta |-> meta, onion |-> passed]
             master == random_key(o.rng)
  <1>1. /\ h \in 1 .. Len(LegHops(o, "backward")) /\ h = n_backward(o)
        /\ "backward" \in Legs /\ h \in 1 .. n_backward(o)
    BY LegIsOnionized DEF LegHops, Legs, n_backward
  <1>2. PartOf(LegHops(o, "backward"), h, LegMeta(o, "backward")) = meta
    BY DEF PartOf, LegMeta
  <1>3. unwrap(MaxPathLength, private, onion) = peeled
    BY <1>1, <1>2, LegOpens
  <1>4. /\ peeled.ok /\ peeled.key = key
        /\ peeled.meta.role = "Sender" /\ peeled.meta.next = lengths
    BY DEF SenderMeta
  <1>5. key = master
    BY <1>1 DEF LegKeys, keys_backward
  <1> HIDE DEF peeled, private, onion, key, lengths, master
  <1>6. proc_onion(MaxPathLength, private, expected_tag, onion)
          = accept_reply(peeled.key, peeled.meta.next, onion, expected_tag)
    BY <1>3, <1>4, ProcRoles
  <1> QED
    BY <1>4, <1>5, <1>6 DEF Returns, private, onion, lengths, master

-----------------------------------------------------------------------------
(* C.  Backward sections from the place where they were made or altered:   *)
(* what the hops m, ..., h - 1 of a leg make of first.                     *)

IsTrace(keys, m, h, first, last) ==
  \E f : /\ f[m] = first /\ f[h] = last
         /\ \A i \in m .. h - 1 : f[i + 1] = ae_unwrap(keys[i], f[i])

LEMMA TraceStart ==
  ASSUME NEW keys, NEW m \in Nat, NEW first
  PROVE  IsTrace(keys, m, m, first, first)
  <1> DEFINE f == [i \in {m} |-> first]
  <1>1. f[m] = first /\ m .. m - 1 = {}
    OBVIOUS
  <1> HIDE DEF f
  <1> QED
    BY <1>1 DEF IsTrace

LEMMA TraceStep ==
  ASSUME NEW keys, NEW m \in Nat, NEW h \in Nat, m <= h, NEW first, NEW last,
         IsTrace(keys, m, h, first, last)
  PROVE  IsTrace(keys, m, h + 1, first, ae_unwrap(keys[h], last))
  <1>1. PICK f : /\ f[m] = first /\ f[h] = last
                 /\ \A i \in m .. h - 1 : f[i + 1] = ae_unwrap(keys[i], f[i])
    BY DEF IsTrace
  <1> DEFINE g == [i \in m .. h + 1 |-> IF i = h + 1 THEN ae_unwrap(keys[h], last) ELSE f[i]]
  <1>2. g[m] = first /\ g[h + 1] = ae_unwrap(keys[h], last)
    BY <1>1
  <1>3. ASSUME NEW i \in m .. h + 1 - 1 PROVE g[i + 1] = ae_unwrap(keys[i], g[i])
    <2>1. CASE i = h
      BY <1>1, <2>1
    <2>2. CASE i # h
      <3>1. i \in m .. h - 1 /\ i + 1 \in m .. h + 1 /\ i + 1 # h + 1 /\ i \in m .. h + 1
            /\ i # h + 1
        BY <2>2
      <3> QED
        BY <1>1, <3>1
    <2> QED
      BY <2>1, <2>2
  <1> HIDE DEF g
  <1> QED
    BY <1>2, <1>3 DEF IsTrace

(* What the hops make of a section is determined by it.                    *)
LEMMA TraceUnique ==
  ASSUME NEW keys, NEW m \in Nat, NEW h \in Nat, m <= h, NEW first, NEW a, NEW b,
         IsTrace(keys, m, h, first, a), IsTrace(keys, m, h, first, b)
  PROVE  a = b
  <1>1. PICK f : /\ f[m] = first /\ f[h] = a
                 /\ \A i \in m .. h - 1 : f[i + 1] = ae_unwrap(keys[i], f[i])
    BY DEF IsTrace
  <1>2. PICK g : /\ g[m] = first /\ g[h] = b
                 /\ \A i \in m .. h - 1 : g[i + 1] = ae_unwrap(keys[i], g[i])
    BY DEF IsTrace
  <1> DEFINE T == {i \in m .. h : f[i] = g[i]}
  <1>3. m \in T
    BY <1>1, <1>2
  <1>4. ASSUME NEW i \in m .. h - 1, i \in T PROVE i + 1 \in T
    <2>1. i + 1 \in m .. h /\ f[i] = g[i]
      BY <1>4
    <2> QED
      BY <1>1, <1>2, <2>1
  <1>5. m .. h \subseteq T
    <2> HIDE DEF T
    <2> QED
      BY <1>3, <1>4, UpFrom
  <1>6. h \in T
    BY <1>5
  <1> QED
    BY <1>1, <1>2, <1>6

(* The sections of an honest onion are such a trace.                       *)
LEMMA SectionsAreTrace ==
  ASSUME NEW keys, Len(keys) \in Nat, NEW first, NEW h \in 1 .. Len(keys) + 1
  PROVE  IsTrace(keys, 1, h, first, backward_sections(keys, first)[h - 1])
  <1> DEFINE B == backward_sections(keys, first)
             f == [i \in 1 .. Len(keys) + 1 |-> B[i - 1]]
  <1>1. B = [i \in 0 .. Len(keys) |-> IF i = 0 THEN first ELSE ae_unwrap(keys[i], B[i - 1])]
    BY BackwardSectionsRecur
  <1> HIDE DEF B
  <1>2. f[1] = first /\ f[h] = B[h - 1]
    <2>1. B[0] = first
      BY <1>1
    <2> QED
      BY <2>1
  <1>3. ASSUME NEW i \in 1 .. h - 1 PROVE f[i + 1] = ae_unwrap(keys[i], f[i])
    <2>1. i \in 0 .. Len(keys) /\ i # 0 /\ i \in 1 .. Len(keys) + 1
          /\ i + 1 \in 1 .. Len(keys) + 1 /\ (i + 1) - 1 = i
      OBVIOUS
    <2>2. f[i + 1] = B[i] /\ f[i] = B[i - 1]
      BY <2>1
    <2>3. B[i] = ae_unwrap(keys[i], B[i - 1])
      BY <1>1, <2>1
    <2> QED
      BY <2>2, <2>3
  <1> HIDE DEF f
  <1> QED
    BY <1>2, <1>3 DEF IsTrace, B

(* A vector and a tag that are no halves of a block. *)
IsFirst(s) == s = [vec |-> s.vec, tag |-> s.tag] /\ IsOriginal(s.vec, s.tag)

(* The block that is split into s stems from first, with k passes of the   *)
(* cipher, all in one direction.                                           *)
IsPassed(s, first, k, dir) ==
  \E x : /\ IsWide(x, first.vec, first.tag) /\ AllOneWay(x.layers, k, dir)
         /\ s = Split(x)

LEMMA OneMoreLayer ==
  ASSUME NEW layers, NEW k \in Nat, NEW dir, AllOneWay(layers, k, dir), NEW l, l.dir = dir
  PROVE  AllOneWay(OnTopOf(layers, k, l), k + 1, dir)
  <1> DEFINE g == [i \in 1 .. k + 1 |-> IF i = k + 1 THEN l ELSE layers[i]]
  <1>1. ASSUME NEW i \in 1 .. k + 1 PROVE g[i].dir = dir
    <2>1. CASE i = k + 1
      BY <2>1
    <2>2. CASE i # k + 1
      <3>1. i \in 1 .. k /\ g[i] = layers[i]
        BY <2>2
      <3> QED
        BY <3>1 DEF AllOneWay
    <2> QED
      BY <2>1, <2>2
  <1>2. g = [i \in 1 .. k + 1 |-> g[i]]
    OBVIOUS
  <1> HIDE DEF g
  <1>3. AllOneWay(g, k + 1, dir)
    BY <1>1, <1>2 DEF AllOneWay
  <1> QED
    BY <1>3 DEF OnTopOf, g

LEMMA PassedStart ==
  ASSUME NEW first, IsFirst(first), NEW dir
  PROVE  IsPassed(first, first, 0, dir)
  <1> DEFINE base == [kind |-> "pair", vec |-> first.vec, pairTag |-> first.tag]
             x == Bytes(base, TagBytes + first.vec.len)
  <1>1. TagBytes + first.vec.len \in Nat
    BY BlockFillsCell DEF IsFirst, IsOriginal
  <1>2. IsBlob(x) /\ x.base = base /\ x.len = TagBytes + first.vec.len /\ x.layers = <<>>
    <2> HIDE DEF base
    <2> QED
      BY <1>1, BytesIsBlob
  <1>3. base.kind = "pair" /\ base.vec = first.vec /\ base.pairTag = first.tag
    OBVIOUS
  <1>4. IsWide(x, first.vec, first.tag)
    BY <1>2, Zenon DEF IsWide
  <1> HIDE DEF base, x
  <1>5. Split(x) = [vec |-> first.vec, tag |-> first.tag]
    BY <1>2, <1>3, Zenon DEF Split, IsPlain
  <1>6. AllOneWay(x.layers, 0, dir)
    BY <1>2 DEF AllOneWay
  <1>7. first = Split(x)
    BY <1>5, Zenon DEF IsFirst
  <1> QED
    BY <1>4, <1>6, <1>7, Zenon DEF IsPassed

(* One more pass in the same direction. *)
LEMMA PassedStep ==
  ASSUME NEW first, IsFirst(first), NEW k \in Nat, NEW dir \in Directions, NEW s,
         IsPassed(s, first, k, dir), NEW key
  PROVE  IsPassed(Split(Cipher(dir, key, NONCE_BWD, Join(s))), first, k + 1, dir)
  <1>1. PICK x : /\ IsWide(x, first.vec, first.tag) /\ AllOneWay(x.layers, k, dir)
                 /\ s = Split(x)
    BY DEF IsPassed
  <1> DEFINE y == Cipher(dir, key, NONCE_BWD, x)
             l == [dir |-> dir, key |-> key, nonce |-> NONCE_BWD]
  <1>2. Join(s) = x
    BY <1>1, JoinSplit DEF IsFirst
  <1>3. IsBlob(x) /\ x.len # 0
    <2>1. x.len = TagBytes + first.vec.len /\ IsBlob(x)
      BY <1>1 DEF IsWide
    <2> QED
      BY <2>1, BlockFillsCell DEF IsFirst, IsOriginal
  <1>4. IsWide(y, first.vec, first.tag)
    <2>1. IsBlob(y) /\ y.base = x.base /\ y.len = x.len
      BY <1>3, CipherKeeps
    <2> HIDE DEF y
    <2> QED
      BY <1>1, <2>1, Zenon DEF IsWide
  <1>5. y.layers = OnTopOf(x.layers, k, l)
    BY <1>1, <1>3, LayerOnTop
  <1>6. AllOneWay(y.layers, k + 1, dir)
    <2>1. l.dir = dir
      OBVIOUS
    <2> HIDE DEF l, y
    <2> QED
      BY <1>1, <1>5, <2>1, OneMoreLayer
  <1> HIDE DEF y
  <1>7. Split(Cipher(dir, key, NONCE_BWD, Join(s))) = Split(y)
    BY <1>2 DEF y
  <1> QED
    BY <1>4, <1>6, <1>7, Zenon DEF IsPassed

(* The tag of a section that was ciphered at all is half of a block. *)
LEMMA PassedTag ==
  ASSUME NEW first, NEW k \in Nat \ {0}, NEW dir, NEW s, IsPassed(s, first, k, dir)
  PROVE  \E x : x.base = [kind |-> "pair", vec |-> first.vec, pairTag |-> first.tag]
                /\ s.tag = HeadTag(x)
  <1>1. PICK x : /\ IsWide(x, first.vec, first.tag) /\ AllOneWay(x.layers, k, dir)
                 /\ s = Split(x)
    BY DEF IsPassed
  <1>2. x.layers # <<>>
    <2>1. x.layers = [i \in 1 .. k |-> x.layers[i]] /\ 1 \in 1 .. k
      BY <1>1 DEF AllOneWay
    <2> QED
      BY <2>1
  <1>3. ~ IsPlain(x, "pair")
    BY <1>2 DEF IsPlain
  <1>4. s = [vec |-> TailVec(x), tag |-> HeadTag(x)]
    BY <1>1, <1>3 DEF Split
  <1>5. s.tag = HeadTag(x)
    BY <1>4
  <1> QED
    BY <1>1, <1>5 DEF IsWide

(* The trace of a section, one pass per hop. *)
LEMMA TraceIsPassed ==
  ASSUME NEW keys, NEW m \in Nat, NEW h \in Nat, m <= h, NEW first, IsFirst(first), NEW last,
         IsTrace(keys, m, h, first, last)
  PROVE  IsPassed(last, first, h - m, "dec")
  <1>1. PICK f : /\ f[m] = first /\ f[h] = last
                 /\ \A i \in m .. h - 1 : f[i + 1] = ae_unwrap(keys[i], f[i])
    BY DEF IsTrace
  <1> DEFINE T == {i \in m .. h : IsPassed(f[i], first, i - m, "dec")}
  <1>2. m \in T
    BY <1>1, PassedStart
  <1>3. ASSUME NEW i \in m .. h - 1, i \in T PROVE i + 1 \in T
    <2>1. i + 1 \in m .. h /\ IsPassed(f[i], first, i - m, "dec") /\ i - m \in Nat
          /\ (i + 1) - m = (i - m) + 1 /\ "dec" \in Directions
      BY <1>3 DEF Directions
    <2>2. f[i + 1] = Split(Cipher("dec", derive_key(SymEnc, keys[i]), NONCE_BWD, Join(f[i])))
      BY <1>1 DEF ae_unwrap, symmetric_decrypt
    <2>3. IsPassed(f[i + 1], first, (i - m) + 1, "dec")
      BY <2>1, <2>2, PassedStep
    <2> QED
      BY <2>1, <2>3
  <1>4. m .. h \subseteq T
    <2> HIDE DEF T
    <2> QED
      BY <1>2, <1>3, UpFrom
  <1>5. h \in T
    BY <1>4
  <1> QED
    BY <1>1, <1>5

(* Passed sections are sections. *)
LEMMA PassedIsSection ==
  ASSUME NEW first, NEW k, NEW dir, NEW s, IsPassed(s, first, k, dir)
  PROVE  IsSection(s, first.vec, first.tag)
  BY DEF IsPassed, IsSection

(* A section stays a vector, as long as it was, and a tag.                 *)
LEMMA SectionShape ==
  ASSUME NEW first, IsFirst(first), IsBlob(first.vec), NEW s,
         IsSection(s, first.vec, first.tag)
  PROVE  /\ s = [vec |-> s.vec, tag |-> s.tag]
         /\ IsBlob(s.vec)
         /\ s.vec.len = first.vec.len
  <1>1. PICK x : IsWide(x, first.vec, first.tag) /\ s = Split(x)
    BY DEF IsSection
  <1>2. s.vec.len = first.vec.len
    BY SectionLength DEF IsFirst
  <1>3. CASE IsPlain(x, "pair")
    <2>1. s = [vec |-> first.vec, tag |-> first.tag]
      BY <1>1, <1>3 DEF Split, IsWide
    <2> QED
      BY <1>2, <2>1
  <1>4. CASE ~ IsPlain(x, "pair")
    <2>1. s = [vec |-> TailVec(x), tag |-> HeadTag(x)]
      BY <1>1, <1>4 DEF Split
    <2>2. IsBlob(TailVec(x))
      <3>1. CASE x.len = TagBytes
        <4>1. TailVec(x) = Bytes([kind |-> "empty"], 0)
          BY <3>1 DEF TailVec, Empty
        <4> QED
          BY <4>1, BytesIsBlob
      <3>2. CASE x.len # TagBytes
        <4>1. TailVec(x) = Bytes([kind |-> "tail", whole |-> x], x.len - TagBytes)
          BY <3>2 DEF TailVec
        <4>2. x.len - TagBytes \in Nat
          BY <1>1, BlockFillsCell DEF IsWide, IsFirst, IsOriginal
        <4> QED
          BY <4>1, <4>2, BytesIsBlob
      <3> QED
        BY <3>1, <3>2
    <2> QED
      BY <1>2, <2>1, <2>2
  <1> QED
    BY <1>3, <1>4

-----------------------------------------------------------------------------
(* D.  Onions that were altered.                                           *)

LEMMA BlobIsByteString ==
  ASSUME NEW b, IsBlob(b)
  PROVE  IsByteString(b) /\ b.len \in Nat
  BY DEF IsBlob, IsByteString

(* No byte string of an onion as form_onion and the hops make it is one    *)
(* that was altered.                                                       *)
IsIntact(b) == b.base.kind # "mauled"

LEMMA CellsAreIntact ==
  ASSUME NEW rng, NEW keys, NEW data, NEW h, NEW c, NEW cell,
         IsCellAt(rng, keys, data, h, c, cell)
  PROVE  IsIntact(cell)
  <1>1. CASE h + c - 1 <= Len(keys)
    <2>1. IsBlockOf(cell, keys, data, h + c - 1, c - 1)
      BY <1>1, Zenon DEF IsCellAt
    <2> QED
      BY <2>1 DEF IsBlockOf, IsIntact
  <1>2. CASE ~ (h + c - 1 <= Len(keys)) /\ h + c - MaxPathLength - 1 >= 1
    <2>1. IsZeroOf(cell, keys, h + c - MaxPathLength - 1, MaxPathLength + 1 - c)
      BY <1>2, Zenon DEF IsCellAt
    <2>2. cell.base = [kind |-> "zero"]
      BY <2>1, Zenon DEF IsZeroOf
    <2> QED
      BY <2>2 DEF IsIntact
  <1>3. CASE ~ (h + c - 1 <= Len(keys)) /\ ~ (h + c - MaxPathLength - 1 >= 1)
    <2>1. IsDrawn(cell, rng, keys, h + c - Len(keys), Len(keys) - h)
      BY <1>3, Zenon DEF IsCellAt
    <2>2. cell.base = [kind |-> "random", coin |-> [rng |-> rng, cell |-> h + c - Len(keys)]]
      BY <2>1, Zenon DEF IsDrawn
    <2> QED
      BY <2>2 DEF IsIntact
  <1> QED
    BY <1>1, <1>2, <1>3, Zenon

LEMMA LegCellsAreIntact ==
  ASSUME NEW o, IsOrder(o), NEW leg \in Legs, NEW h \in 1 .. Len(LegHops(o, leg)),
         NEW c \in 1 .. MaxPathLength
  PROVE  IsIntact(LegLayers(o, leg)[h].headers[c])
  <1>1. CASE leg = "forward"
    <2>1. LegLayers(o, leg) = layers_forward(o) /\ h \in 1 .. n_forward(o)
      BY <1>1 DEF LegLayers, LegHops, n_forward
    <2>2. ForthCellsAt(o, h)
      BY <2>1, HeadersAreRight
    <2> QED
      BY <2>1, <2>2, CellsAreIntact DEF ForthCellsAt
  <1>2. CASE leg = "backward"
    <2>1. LegLayers(o, leg) = layers_backward(o) /\ h \in 1 .. n_backward(o)
      BY <1>2 DEF LegLayers, LegHops, n_backward
    <2>2. BackCellsAt(o, h)
      BY <2>1, HeadersAreRight
    <2> QED
      BY <2>1, <2>2, CellsAreIntact DEF BackCellsAt
  <1> QED
    BY <1>1, <1>2 DEF Legs

(* Every hop wraps the forward section of the next one.                    *)
LEMMA WrappedForwardIsIntact ==
  ASSUME NEW keys, IsPathKeys(keys), NEW data, NEW rng, NEW fwd_n, IsBlob(fwd_n),
         IsIntact(fwd_n), NEW layer,
         layer = onion_layers(keys, data, last_cells(rng, keys), fwd_n)
  PROVE  \A h \in 1 .. Len(keys) : IsIntact(layer[h].forward)
  <1> DEFINE n == Len(keys)
             cells == last_cells(rng, keys)
             T == {i \in 1 .. n : IsIntact(layer[i].forward)}
  <1>1. n \in Nat \ {0}
    BY DEF IsPathKeys
  <1>2. AreLayers(keys, data, cells, fwd_n, layer)
    BY LastCellsAreHeader, LayersShape
  <1>3. n \in T
    BY <1>1, <1>2 DEF AreLayers
  <1>4. ASSUME NEW i \in 1 .. n - 1, i + 1 \in T PROVE i \in T
    <2>1. IsWrapped(keys[i], layer[i], layer[i + 1])
      BY <1>2 DEF AreLayers
    <2>2. layer[i].forward
            = symmetric_encrypt(derive_key(SymEnc, keys[i]), NONCE_FWD, layer[i + 1].forward)
      BY <2>1 DEF IsWrapped
    <2>3. i \in 1 .. n /\ i + 1 \in 1 .. n
      BY <1>1
    <2>4. IsBlob(layer[i + 1].forward)
      BY <1>2, <2>3 DEF AreLayers, IsLayer
    <2>5. layer[i].forward.base = layer[i + 1].forward.base
      BY <2>2, <2>4, CipherKeeps DEF symmetric_encrypt
    <2> QED
      BY <1>4, <2>3, <2>5 DEF IsIntact
  <1>5. 1 .. n \subseteq T
    <2> HIDE DEF T, n
    <2> QED
      BY <1>1, <1>3, <1>4, DownFrom
  <1> QED
    BY <1>5

LEMMA SectionsAreIntact ==
  ASSUME NEW keys, Len(keys) \in Nat, NEW data, IsBlob(data), IsIntact(data)
  PROVE  \A i \in 0 .. Len(keys) : IsIntact(forward_sections(keys, data)[i])
  <1> DEFINE n == Len(keys)
             B == forward_sections(keys, data)
             T == {i \in 0 .. n : IsIntact(B[i])}
  <1>1. B = [i \in 0 .. n |->
               IF i = 0 THEN data
               ELSE symmetric_decrypt(derive_key(SymEnc, keys[i]), NONCE_FWD, B[i - 1])]
    BY ForwardSectionsRecur
  <1>2. \A i \in 0 .. n : IsBlob(B[i])
    BY ForwardSectionsAreBlobs
  <1> HIDE DEF B
  <1>3. 0 \in T
    BY <1>1
  <1>4. ASSUME NEW i \in 0 .. n - 1, i \in T PROVE i + 1 \in T
    <2>1. i + 1 \in 0 .. n /\ i + 1 # 0 /\ (i + 1) - 1 = i /\ i \in 0 .. n
      OBVIOUS
    <2>2. B[i + 1] = symmetric_decrypt(derive_key(SymEnc, keys[i + 1]), NONCE_FWD, B[i])
      BY <1>1, <2>1
    <2>3. B[i + 1].base = B[i].base
      BY <1>2, <2>1, <2>2, CipherKeeps DEF symmetric_decrypt
    <2> QED
      BY <1>4, <2>1, <2>3 DEF IsIntact
  <1>5. 0 .. n \subseteq T
    <2>1. n \in Nat
      OBVIOUS
    <2> HIDE DEF T, n
    <2> QED
      BY <1>3, <1>4, <2>1, UpFrom
  <1> QED
    BY <1>5 DEF B

LEMMA LegForwardIsIntact ==
  ASSUME NEW o, IsOrder(o), NEW leg \in Legs, NEW h \in 1 .. Len(LegHops(o, leg))
  PROVE  IsIntact(LegLayers(o, leg)[h].forward)
  <1>1. CASE leg = "forward"
    <2> DEFINE keys == keys_forward(o)
               rng == [rng |-> o.rng, leg |-> "forward"]
               f == symmetric_encrypt(derive_key(SymEnc, keys_forward(o)[n_forward(o)]),
                                      NONCE_FWD, message(o))
    <2>1. LegLayers(o, leg) = layers_forward(o) /\ h \in 1 .. Len(keys) /\ IsPathKeys(keys)
      BY <1>1, OrderFacts DEF LegLayers, LegHops, n_forward
    <2>2. layers_forward(o) = onion_layers(keys, ciphers_forward(o), last_cells(rng, keys), f)
      BY Zenon DEF layers_forward
    <2>3. IsBlob(f) /\ IsIntact(f)
      <3>1. IsBlob(f) /\ f.base = message(o).base
        BY MessageFacts, CipherKeeps DEF symmetric_encrypt
      <3>2. message(o).base.kind = "message"
        BY MessageFacts DEF IsPlain
      <3> HIDE DEF f
      <3> QED
        BY <3>1, <3>2 DEF IsIntact
    <2> HIDE DEF keys, rng, f
    <2> QED
      BY <2>1, <2>2, <2>3, WrappedForwardIsIntact
  <1>2. CASE leg = "backward"
    <2> DEFINE keys == keys_backward(o)
               rng == [rng |-> o.rng, leg |-> "backward"]
               fill == filler(o)
    <2>1. /\ LegLayers(o, leg) = layers_backward(o)
          /\ h \in 1 .. Len(keys) /\ IsPathKeys(keys) /\ Len(keys) = n_backward(o)
          /\ IsBlob(fill) /\ Len(keys) \in Nat
      BY <1>2, OrderFacts DEF LegLayers, LegHops, n_backward
    <2>2. layers_backward(o)
            = onion_layers(keys, ciphers_backward(o), last_cells(rng, keys),
                           forward_sections(keys, fill)[Len(keys) - 1])
      BY <2>1, Zenon DEF layers_backward
    <2>3. IsIntact(fill)
      BY DEF IsIntact, filler, prng, Bytes
    <2> HIDE DEF keys, rng, fill
    <2>4. HoldsSections(layers_backward(o), forward_sections(keys, fill), Len(keys))
      BY <2>1, <2>2, FillerInPlace
    <2>5. layers_backward(o)[h].forward = forward_sections(keys, fill)[h - 1]
          /\ h - 1 \in 0 .. Len(keys)
      BY <2>1, <2>4 DEF HoldsSections
    <2> QED
      BY <2>1, <2>3, <2>5, SectionsAreIntact
  <1> QED
    BY <1>1, <1>2 DEF Legs

(* An onion of the lengths that every onion of its order has.              *)
IsShaped(onion, forward_len, backward_len) ==
  /\ onion = [header |-> onion.header, forward |-> onion.forward,
              backward |-> [vec |-> onion.backward.vec, tag |-> onion.backward.tag]]
  /\ IsHeader(onion.header, MaxPathLength) /\ Len(onion.header) = MaxPathLength
  /\ IsBlob(onion.forward) /\ onion.forward.len = forward_len
  /\ IsBlob(onion.backward.vec) /\ onion.backward.vec.len = backward_len

(* The first cell is no header block any more. *)
IsUnreadable(onion) == ~ IsIntact(onion.header[1])

(* The first cell is a block, but not one sealed over the rest of the      *)
(* onion: its ciphertext or its tag was altered, or, where it is the block *)
(* that hop h of the leg is to find, something that its tag covers.        *)
IsForged(o, leg, h, onion) ==
  \E t, data :
    /\ onion.header[1] = HeaderBlock(t, data)
    /\ \/ data.kind = "mauled"
       \/ \E a \in t : a.kind = "mauled"
       \/ /\ onion.header[1] = LegLayers(o, leg)[h].headers[1]
          /\ \/ ~ IsIntact(onion.forward)
             \/ \E c \in 2 .. MaxPathLength : ~ IsIntact(onion.header[c])

LEMMA UnreadableIsRefused ==
  ASSUME NEW onion, IsUnreadable(onion), NEW private
  PROVE  unwrap(MaxPathLength, private, onion) = Err("SerializationError")
  <1>1. ~ IsPlain(onion.header[1], "block")
    BY DEF IsUnreadable, IsIntact, IsPlain
  <1> QED
    BY <1>1, Zenon DEF unwrap

LEMMA TailOfHeader ==
  ASSUME NEW header, IsHeader(header, MaxPathLength), NEW c \in 2 .. MaxPathLength
  PROVE  Tail(header)[c - 1] = header[c]
  <1> DEFINE S == {header[i] : i \in 1 .. MaxPathLength}
  <1>1. header \in [1 .. MaxPathLength -> S] /\ MaxPathLength \in Nat
    BY MaxPathLengthAssumption DEF IsHeader
  <1>2. header \in Seq(S) /\ Len(header) = MaxPathLength
    BY <1>1, FunctionIsSeq
  <1> HIDE DEF S
  <1>3. c - 1 \in 1 .. Len(header) - 1 /\ (c - 1) + 1 = c
    BY <1>1, <1>2
  <1> QED
    BY <1>2, <1>3

(* A tag tells everything that it was computed over. *)
LEMMA TagTellsAll ==
  ASSUME NEW key, NEW data, NEW cells, NEW others, NEW forward, NEW other,
         tag(key, Sealed(data, cells, forward)) = tag(key, Sealed(data, others, other))
  PROVE  <<cells, forward>> = <<others, other>>
  <1> DEFINE a == [kind |-> "mac", macKey |-> key, over |-> Sealed(data, cells, forward)]
             b == [kind |-> "mac", macKey |-> key, over |-> Sealed(data, others, other)]
  <1>1. {a} = {b}
    BY DEF tag
  <1>2. a = b
    <2> HIDE DEF a, b
    <2> QED
      BY <1>1
  <1>3. Sealed(data, cells, forward) = Sealed(data, others, other)
    <2>1. a.over = b.over
      BY <1>2
    <2> QED
      BY <2>1
  <1>4. /\ Sealed(data, cells, forward).cells = Sealed(data, others, other).cells
        /\ Sealed(data, cells, forward).forward = Sealed(data, others, other).forward
    BY <1>3
  <1> QED
    BY <1>4 DEF Sealed

(* Whoever peels a forged onion finds that its tag does not fit.           *)
LEMMA ForgedIsRefused ==
  ASSUME NEW o, IsOrder(o), NEW leg \in Legs, NEW h \in 1 .. Len(LegHops(o, leg)),
         NEW onion, IsHeader(onion.header, MaxPathLength), IsForged(o, leg, h, onion),
         NEW private
  PROVE  unwrap(MaxPathLength, private, onion) = Err("MacMismatch")
  <1> DEFINE first == onion.header[1]
             plain == asymmetric_decrypt(private, first.base.cipher)
             mac == tag(derive_key(Mac, plain.key),
                        Sealed(first.base.cipher, Tail(onion.header), onion.forward))
  <1>1. PICK t, data :
          /\ first = HeaderBlock(t, data)
          /\ \/ data.kind = "mauled"
             \/ \E a \in t : a.kind = "mauled"
             \/ /\ first = LegLayers(o, leg)[h].headers[1]
                /\ \/ ~ IsIntact(onion.forward)
                   \/ \E c \in 2 .. MaxPathLength : ~ IsIntact(onion.header[c])
    BY DEF IsForged
  <1>2. IsPlain(first, "block") /\ first.base.cipher = data /\ first.base.blockTag = t
    BY <1>1, BlockFields
  <1>3. plain = Garbage \/ t # mac
    <2>1. CASE data.kind = "mauled"
      BY <1>2, <2>1 DEF asymmetric_decrypt
    <2>2. CASE \E a \in t : a.kind = "mauled"
      <3>1. \A a \in mac : a.kind = "mac"
        BY DEF tag
      <3> HIDE DEF mac
      <3> QED
        BY <2>2, <3>1
    <2>3. CASE /\ first = LegLayers(o, leg)[h].headers[1]
               /\ \/ ~ IsIntact(onion.forward)
                  \/ \E c \in 2 .. MaxPathLength : ~ IsIntact(onion.header[c])
      <3> DEFINE k == LegKeys(o, leg)[h]
                 msg == [key |-> k, meta |-> PartOf(LegHops(o, leg), h, LegMeta(o, leg))]
                 H == LegLayers(o, leg)[h].headers
                 F == LegLayers(o, leg)[h].forward
                 p == o.pki[LegHops(o, leg)[h]]
                 sealed == asymmetric_encrypt(p, msg)
                 due == tag(derive_key(Mac, k), Sealed(sealed, Tail(H), F))
      <3>1. first = HeaderBlock(due, sealed)
        BY <2>3, LegIsSealed DEF IsSealed
      <3>2. data = sealed /\ t = due
        <4> HIDE DEF due, sealed, first
        <4>1. first.base.cipher = sealed /\ first.base.blockTag = due
          BY <3>1, BlockFields
        <4> QED
          BY <1>2, <4>1
      <3>3. plain = IF private = p THEN msg ELSE Garbage
        <4>1. asymmetric_decrypt(private, sealed) = IF private = p THEN msg ELSE Garbage
          BY OwnKeyOpens
        <4> HIDE DEF sealed, msg, p
        <4> QED
          BY <1>2, <3>2, <4>1
      <3>4. CASE private # p
        <4> HIDE DEF plain, msg, p
        <4> QED
          BY <3>3, <3>4
      <3>5. CASE private = p
        <4>1. plain.key = k
          BY <3>3, <3>5
        <4>2. mac = tag(derive_key(Mac, k), Sealed(sealed, Tail(onion.header), onion.forward))
          BY <1>2, <3>2, <4>1, Zenon
        <4>3. Tail(onion.header) # Tail(H) \/ onion.forward # F
          <5>1. CASE ~ IsIntact(onion.forward)
            BY <5>1, LegForwardIsIntact
          <5>2. CASE \E c \in 2 .. MaxPathLength : ~ IsIntact(onion.header[c])
            <6>1. PICK c \in 2 .. MaxPathLength : ~ IsIntact(onion.header[c])
              BY <5>2
            <6>2. IsIntact(H[c])
              BY LegCellsAreIntact, MaxPathLengthAssumption
            <6>3. Tail(onion.header)[c - 1] = onion.header[c] /\ Tail(H)[c - 1] = H[c]
              BY LegShape, TailOfHeader
            <6> HIDE DEF H
            <6> QED
              BY <6>1, <6>2, <6>3
          <5> QED
            BY <2>3, <5>1, <5>2
        <4>4. due # mac
          <5> SUFFICES ASSUME due = mac PROVE FALSE
            OBVIOUS
          <5>1. tag(derive_key(Mac, k), Sealed(sealed, Tail(H), F))
                  = tag(derive_key(Mac, k), Sealed(sealed, Tail(onion.header), onion.forward))
            BY <4>2
          <5> DEFINE mk == derive_key(Mac, k)
                     cells == Tail(H)
                     others == Tail(onion.header)
                     other == onion.forward
          <5>2. <<cells, F>> = <<others, other>>
            <6> HIDE DEF H, F, k, sealed, mac, due, mk, cells, others, other
            <6>1. tag(mk, Sealed(sealed, cells, F)) = tag(mk, Sealed(sealed, others, other))
              BY <5>1 DEF mk, cells, others, other
            <6> QED
              BY <6>1, TagTellsAll
          <5> QED
            BY <4>3, <5>2
        <4> QED
          BY <3>2, <4>4
      <3> QED
        BY <3>4, <3>5
    <2> QED
      BY <1>1, <2>1, <2>2, <2>3
  <1> HIDE DEF first, plain, mac
  <1>4. plain = Garbage \/ first.base.blockTag # mac
    BY <1>2, <1>3
  <1>5. unwrap(MaxPathLength, private, onion) = Err("MacMismatch")
    BY <1>2, <1>4, Zenon DEF unwrap, first, plain, mac
  <1> QED
    BY <1>5

(* Altering a byte string keeps its length. *)
LEMMA MaulKeeps ==
  ASSUME NEW b, IsBlob(b)
  PROVE  IsBlob(Maul(b)) /\ Maul(b).len = b.len /\ ~ IsIntact(Maul(b))
  <1> DEFINE base == [kind |-> "mauled", original |-> b]
  <1>1. b.len \in Nat
    BY BlobIsByteString
  <1>2. base.kind = "mauled"
    OBVIOUS
  <1>3. Maul(b) = Bytes(base, b.len)
    BY DEF Maul
  <1> HIDE DEF base
  <1>4. IsBlob(Bytes(base, b.len)) /\ Bytes(base, b.len).len = b.len
        /\ Bytes(base, b.len).base = base
    BY <1>1, BytesIsBlob
  <1> QED
    BY <1>2, <1>3, <1>4 DEF IsIntact

LEMMA CellReplaced ==
  ASSUME NEW header, IsHeader(header, MaxPathLength), Len(header) = MaxPathLength,
         NEW c \in 1 .. MaxPathLength, NEW cell, IsCell(cell)
  PROVE  LET g == [header EXCEPT ![c] = cell]
         IN  /\ IsHeader(g, MaxPathLength) /\ Len(g) = MaxPathLength
             /\ g[c] = cell
             /\ \A d \in 1 .. MaxPathLength : d # c => g[d] = header[d]
  <1> DEFINE g == [header EXCEPT ![c] = cell]
             S == {header[i] : i \in 1 .. MaxPathLength} \cup {cell}
  <1>1. header = [i \in 1 .. MaxPathLength |-> header[i]] /\ MaxPathLength \in Nat
    BY MaxPathLengthAssumption DEF IsHeader
  <1>2. g = [i \in 1 .. MaxPathLength |-> IF i = c THEN cell ELSE header[i]]
    BY <1>1
  <1>3. g \in [1 .. MaxPathLength -> S]
    BY <1>2
  <1>4. Len(g) = MaxPathLength
    <2> HIDE DEF g, S
    <2> QED
      BY <1>1, <1>3, FunctionIsSeq
  <1>5. g[c] = cell /\ \A d \in 1 .. MaxPathLength : d # c => g[d] = header[d]
    BY <1>2
  <1>6. g = [i \in 1 .. MaxPathLength |-> g[i]]
    BY <1>3
  <1>7. IsHeader(g, MaxPathLength)
    <2> HIDE DEF g
    <2> QED
      BY <1>5, <1>6 DEF IsHeader
  <1> HIDE DEF g
  <1>8. /\ IsHeader(g, MaxPathLength) /\ Len(g) = MaxPathLength
        /\ g[c] = cell
        /\ \A d \in 1 .. MaxPathLength : d # c => g[d] = header[d]
    BY <1>4, <1>5, <1>7
  <1> QED
    BY <1>8 DEF g

(* What an alteration of the sealed part does: the first block stays and   *)
(* something else that its tag covers is altered, or its tag or ciphertext *)
(* is.                                                                     *)
IsStruck(onion, x) ==
  \/ /\ x.header[1] = onion.header[1]
     /\ \/ ~ IsIntact(x.forward)
        \/ \E c \in 2 .. MaxPathLength : ~ IsIntact(x.header[c])
  \/ /\ IsIntact(onion.header[1])
     /\ \E t, data : /\ x.header[1] = HeaderBlock(t, data)
                     /\ data.kind = "mauled" \/ \E a \in t : a.kind = "mauled"

IsBitten(onion, x) ==
  /\ x.header = onion.header /\ x.forward = onion.forward
  /\ \/ /\ x.backward = [vec |-> onion.backward.vec, tag |-> MaulTag(onion.backward.tag)]
     \/ /\ x.backward = [vec |-> Maul(onion.backward.vec), tag |-> onion.backward.tag]
        /\ onion.backward.vec.len # 0

(* The first cell can be read, unless its length field was altered.        *)
IsReadable(onion) ==
  IsPlain(onion.header[1], "block") =>
    \E t, data : onion.header[1] = HeaderBlock(t, data)

LEMMA OtherHeader ==
  ASSUME NEW l, NEW m, NEW onion, IsShaped(onion, l, m), NEW g, IsHeader(g, MaxPathLength),
         Len(g) = MaxPathLength, NEW x,
         x = [header |-> g, forward |-> onion.forward, backward |-> onion.backward]
  PROVE  IsShaped(x, l, m)
  BY DEF IsShaped

LEMMA FramingAltered ==
  ASSUME NEW l, NEW m, NEW onion, IsShaped(onion, l, m), NEW x,
         x = [onion EXCEPT !.header[1] = Maul(onion.header[1])]
  PROVE  IsShaped(x, l, m) /\ IsUnreadable(x)
  <1> DEFINE cell == Maul(onion.header[1])
             g == [onion.header EXCEPT ![1] = cell]
  <1>1. 1 \in 1 .. MaxPathLength
    BY MaxPathLengthAssumption
  <1>2. IsCell(cell) /\ ~ IsIntact(cell)
    BY <1>1, MaulKeeps DEF IsCell, IsShaped, IsHeader
  <1>3. x = [header |-> g, forward |-> onion.forward, backward |-> onion.backward]
    BY DEF IsShaped
  <1>4. IsHeader(g, MaxPathLength) /\ Len(g) = MaxPathLength /\ g[1] = cell
    <2> HIDE DEF cell
    <2> QED
      BY <1>1, <1>2, CellReplaced DEF IsShaped
  <1> HIDE DEF g, cell
  <1>5. IsShaped(x, l, m)
    BY <1>3, <1>4, OtherHeader
  <1>6. x.header[1] = cell
    <2>1. x.header = g
      BY <1>3
    <2> QED
      BY <1>4, <2>1, Zenon
  <1>7. IsUnreadable(x)
    BY <1>2, <1>6, Zenon DEF IsUnreadable
  <1> QED
    BY <1>5, <1>7

LEMMA SealedAltered ==
  ASSUME NEW l, NEW m, NEW onion, IsShaped(onion, l, m), IsReadable(onion), NEW x,
         \/ x = [onion EXCEPT !.forward = Maul(onion.forward)]
         \/ \E c \in 2 .. MaxPathLength :
              x = [onion EXCEPT !.header[c] = Maul(onion.header[c])]
         \/ /\ IsPlain(onion.header[1], "block")
            /\ x = [onion EXCEPT !.header[1].base =
                      [onion.header[1].base EXCEPT
                         !.blockTag = MaulTag(onion.header[1].base.blockTag)]]
         \/ /\ IsPlain(onion.header[1], "block")
            /\ x = [onion EXCEPT !.header[1].base =
                      [onion.header[1].base EXCEPT
                         !.cipher = [kind |-> "mauled",
                                     original |-> onion.header[1].base.cipher]]]
  PROVE  IsShaped(x, l, m) /\ IsStruck(onion, x)
  <1>1. CASE x = [onion EXCEPT !.forward = Maul(onion.forward)]
    <2>1. x = [header |-> onion.header, forward |-> Maul(onion.forward),
               backward |-> onion.backward]
      BY <1>1 DEF IsShaped
    <2>2. IsBlob(Maul(onion.forward)) /\ Maul(onion.forward).len = onion.forward.len
          /\ ~ IsIntact(Maul(onion.forward))
      BY MaulKeeps DEF IsShaped
    <2> QED
      BY <2>1, <2>2 DEF IsShaped, IsStruck
  <1>2. ASSUME NEW c \in 2 .. MaxPathLength,
               x = [onion EXCEPT !.header[c] = Maul(onion.header[c])]
        PROVE  IsShaped(x, l, m) /\ IsStruck(onion, x)
    <2> DEFINE cell == Maul(onion.header[c])
               g == [onion.header EXCEPT ![c] = cell]
    <2>1. c \in 1 .. MaxPathLength /\ 1 \in 1 .. MaxPathLength /\ 1 # c
      BY MaxPathLengthAssumption
    <2>2. IsCell(cell) /\ ~ IsIntact(cell)
      BY <2>1, MaulKeeps DEF IsCell, IsShaped, IsHeader
    <2>3. x = [header |-> g, forward |-> onion.forward, backward |-> onion.backward]
      BY <1>2 DEF IsShaped
    <2>4. /\ IsHeader(g, MaxPathLength) /\ Len(g) = MaxPathLength /\ g[c] = cell
          /\ g[1] = onion.header[1]
      <3> HIDE DEF cell
      <3> QED
        BY <2>1, <2>2, CellReplaced DEF IsShaped
    <2> HIDE DEF g, cell
    <2> QED
      BY <2>2, <2>3, <2>4 DEF IsShaped, IsStruck
  <1>3. ASSUME IsPlain(onion.header[1], "block"), NEW t, NEW data,
               data.kind = "mauled" \/ \E a \in t : a.kind = "mauled",
               x = [onion EXCEPT !.header[1].base =
                      [kind |-> "block", blockTag |-> t, cipher |-> data]]
        PROVE  IsShaped(x, l, m) /\ IsStruck(onion, x)
    <2> DEFINE cell == HeaderBlock(t, data)
               g == [onion.header EXCEPT ![1] = cell]
    <2>1. 1 \in 1 .. MaxPathLength /\ IsCell(cell)
      BY MaxPathLengthAssumption, FreshCells
    <2>2. PICK u, v : onion.header[1] = HeaderBlock(u, v)
      BY <1>3 DEF IsReadable
    <2>3. [onion.header[1] EXCEPT !.base = [kind |-> "block", blockTag |-> t, cipher |-> data]]
            = cell
      BY <2>2 DEF HeaderBlock, Bytes
    <2>4. x = [header |-> g, forward |-> onion.forward, backward |-> onion.backward]
      <3>1. x = [header |-> [onion.header EXCEPT ![1] =
                   [onion.header[1] EXCEPT !.base =
                      [kind |-> "block", blockTag |-> t, cipher |-> data]]],
                 forward |-> onion.forward, backward |-> onion.backward]
        BY <1>3, <2>1 DEF IsShaped, IsHeader
      <3> QED
        BY <2>3, <3>1
    <2>5. IsHeader(g, MaxPathLength) /\ Len(g) = MaxPathLength /\ g[1] = cell
      <3> HIDE DEF cell
      <3> QED
        BY <2>1, CellReplaced DEF IsShaped
    <2>6. IsShaped(x, l, m) /\ x.header[1] = HeaderBlock(t, data)
      <3> HIDE DEF g
      <3> QED
        BY <2>4, <2>5 DEF IsShaped
    <2>7. IsIntact(onion.header[1])
      BY <1>3 DEF IsPlain, IsIntact
    <2> QED
      BY <1>3, <2>6, <2>7 DEF IsStruck
  <1> DEFINE first == onion.header[1]
             mauled == [kind |-> "mauled", original |-> first.base.cipher]
  <1>4. CASE /\ IsPlain(first, "block")
             /\ x = [onion EXCEPT !.header[1].base =
                       [first.base EXCEPT !.blockTag = MaulTag(first.base.blockTag)]]
    <2>1. PICK u, v : first = HeaderBlock(u, v)
      BY <1>4 DEF IsReadable
    <2>2. [first.base EXCEPT !.blockTag = MaulTag(first.base.blockTag)]
            = [kind |-> "block", blockTag |-> MaulTag(u), cipher |-> v]
      BY <2>1 DEF HeaderBlock, Bytes
    <2>3. \E a \in MaulTag(u) : a.kind = "mauled"
      BY DEF MaulTag
    <2>4. x = [onion EXCEPT !.header[1].base =
                 [kind |-> "block", blockTag |-> MaulTag(u), cipher |-> v]]
      BY <1>4, <2>2
    <2> QED
      BY <1>3, <1>4, <2>3, <2>4
  <1>5. CASE /\ IsPlain(first, "block")
             /\ x = [onion EXCEPT !.header[1].base = [first.base EXCEPT !.cipher = mauled]]
    <2>1. PICK u, v : first = HeaderBlock(u, v)
      BY <1>5 DEF IsReadable
    <2>2. mauled.kind = "mauled"
      OBVIOUS
    <2> HIDE DEF mauled
    <2>3. [first.base EXCEPT !.cipher = mauled]
            = [kind |-> "block", blockTag |-> u, cipher |-> mauled]
      BY <2>1 DEF HeaderBlock, Bytes
    <2>4. x = [onion EXCEPT !.header[1].base =
                 [kind |-> "block", blockTag |-> u, cipher |-> mauled]]
      BY <1>5, <2>3
    <2> QED
      BY <1>3, <1>5, <2>2, <2>4
  <1> QED
    BY <1>1, <1>2, <1>4, <1>5

LEMMA BackwardAltered ==
  ASSUME NEW l, NEW m, NEW onion, IsShaped(onion, l, m), NEW x,
         \/ x = [onion EXCEPT !.backward.tag = MaulTag(onion.backward.tag)]
         \/ /\ onion.backward.vec.len # 0
            /\ x = [onion EXCEPT !.backward.vec = Maul(onion.backward.vec)]
  PROVE  IsShaped(x, l, m) /\ IsBitten(onion, x)
  <1>1. CASE x = [onion EXCEPT !.backward.tag = MaulTag(onion.backward.tag)]
    <2> DEFINE s == [vec |-> onion.backward.vec, tag |-> MaulTag(onion.backward.tag)]
    <2>1. x = [header |-> onion.header, forward |-> onion.forward, backward |-> s]
      BY <1>1 DEF IsShaped
    <2> QED
      BY <2>1 DEF IsShaped, IsBitten
  <1>2. CASE /\ onion.backward.vec.len # 0
             /\ x = [onion EXCEPT !.backward.vec = Maul(onion.backward.vec)]
    <2> DEFINE s == [vec |-> Maul(onion.backward.vec), tag |-> onion.backward.tag]
    <2>1. x = [header |-> onion.header, forward |-> onion.forward, backward |-> s]
      BY <1>2 DEF IsShaped
    <2>2. IsBlob(Maul(onion.backward.vec))
          /\ Maul(onion.backward.vec).len = onion.backward.vec.len
      BY MaulKeeps DEF IsShaped
    <2> QED
      BY <1>2, <2>1, <2>2 DEF IsShaped, IsBitten
  <1> QED
    BY <1>1, <1>2

(* An alteration of an onion, by the part that it is in.                   *)
IsAltered(onion, part, x) ==
  \/ part = "framing" /\ IsUnreadable(x)
  \/ part = "sealed" /\ IsStruck(onion, x)
  \/ part = "backward" /\ IsBitten(onion, x)

LEMMA AlterationsKeepShape ==
  ASSUME NEW l, NEW m, NEW onion, IsShaped(onion, l, m), IsReadable(onion),
         NEW altered \in Alterations(onion)
  PROVE  IsShaped(altered.onion, l, m) /\ IsAltered(onion, altered.part, altered.onion)
  <1> DEFINE first == onion.header[1]
             x == altered.onion
  <1>1. CASE altered = [part |-> "framing", onion |-> [onion EXCEPT !.header[1] = Maul(first)]]
    <2>1. x = [onion EXCEPT !.header[1] = Maul(onion.header[1])] /\ altered.part = "framing"
      BY <1>1
    <2> HIDE DEF x
    <2>2. IsShaped(x, l, m) /\ IsUnreadable(x)
      BY <2>1, FramingAltered
    <2> QED
      BY <2>1, <2>2 DEF IsAltered, x
  <1> DEFINE struck ==
               {[onion EXCEPT !.forward = Maul(onion.forward)]}
               \cup {[onion EXCEPT !.header[c] = Maul(onion.header[c])] :
                       c \in 2 .. MaxPathLength}
               \cup (IF ~ IsPlain(first, "block") THEN {}
                     ELSE {[onion EXCEPT !.header[1].base =
                              [first.base EXCEPT !.blockTag = MaulTag(first.base.blockTag)]],
                           [onion EXCEPT !.header[1].base =
                              [first.base EXCEPT
                                 !.cipher = [kind |-> "mauled",
                                             original |-> first.base.cipher]]]})
             bitten ==
               {[onion EXCEPT !.backward.tag = MaulTag(onion.backward.tag)]}
               \cup (IF onion.backward.vec.len = 0 THEN {}
                     ELSE {[onion EXCEPT !.backward.vec = Maul(onion.backward.vec)]})
  <1>2. CASE \E y \in struck : altered = [part |-> "sealed", onion |-> y]
    <2>1. PICK y \in struck : altered = [part |-> "sealed", onion |-> y]
      BY <1>2
    <2>2. x = y /\ altered.part = "sealed"
      BY <2>1
    <2>3. IsShaped(y, l, m) /\ IsStruck(onion, y)
      <3>1. y \in struck
        BY <2>1
      <3>2. \/ y = [onion EXCEPT !.forward = Maul(onion.forward)]
            \/ \E c \in 2 .. MaxPathLength :
                 y = [onion EXCEPT !.header[c] = Maul(onion.header[c])]
            \/ /\ IsPlain(onion.header[1], "block")
               /\ y = [onion EXCEPT !.header[1].base =
                         [onion.header[1].base EXCEPT
                            !.blockTag = MaulTag(onion.header[1].base.blockTag)]]
            \/ /\ IsPlain(onion.header[1], "block")
               /\ y = [onion EXCEPT !.header[1].base =
                         [onion.header[1].base EXCEPT
                            !.cipher = [kind |-> "mauled",
                                        original |-> onion.header[1].base.cipher]]]
        BY <3>1, Zenon
      <3> QED
        BY <3>2, SealedAltered
    <2> QED
      BY <2>2, <2>3 DEF IsAltered
  <1>3. CASE \E y \in bitten : altered = [part |-> "backward", onion |-> y]
    <2>1. PICK y \in bitten : altered = [part |-> "backward", onion |-> y]
      BY <1>3
    <2>2. x = y /\ altered.part = "backward"
      BY <2>1
    <2>3. IsShaped(y, l, m) /\ IsBitten(onion, y)
      <3>1. y \in bitten
        BY <2>1
      <3>2. \/ y = [onion EXCEPT !.backward.tag = MaulTag(onion.backward.tag)]
            \/ /\ onion.backward.vec.len # 0
               /\ y = [onion EXCEPT !.backward.vec = Maul(onion.backward.vec)]
        BY <3>1, Zenon
      <3> QED
        BY <3>2, BackwardAltered
    <2> QED
      BY <2>2, <2>3 DEF IsAltered
  <1>4. \/ altered = [part |-> "framing", onion |-> [onion EXCEPT !.header[1] = Maul(first)]]
        \/ \E y \in struck : altered = [part |-> "sealed", onion |-> y]
        \/ \E y \in bitten : altered = [part |-> "backward", onion |-> y]
    BY Zenon DEF Alterations
  <1> QED
    BY <1>1, <1>2, <1>3, <1>4

-----------------------------------------------------------------------------
(* E.  Backward sections that were altered.                                *)

ReplyKey(o) == keys_forward(o)[n_forward(o)]

NoMac(ad) == \A a \in ad : a.kind # "mac"

AnswerTag(key, ciphertext, ad) ==
  xor_tag(tag(derive_key(Mac, key), [reply |-> ciphertext]), ad)

(* A section that is not the one the sender waits for: its tag was         *)
(* altered, or it is that of an answer whose vector was altered, or of an  *)
(* answer made from another tag.                                           *)
IsWrong(o, s) ==
  \/ \E t : s.tag = MaulTag(t)
  \/ \E ciphertext, ad :
       /\ s.tag = AnswerTag(ReplyKey(o), ciphertext, ad) /\ NoMac(ad) /\ IsIntact(ciphertext)
       /\ \/ ~ IsIntact(s.vec)
          \/ s.vec = ciphertext /\ ad # awaited_tag(o)

IsTouched(s) == ~ IsIntact(s.vec) \/ \E t : s.tag = MaulTag(t)

(* A section of len bytes that hop h of the leg receives, altered at some  *)
(* hop m before it, or, on the backward leg, made from an altered one.     *)
IsSpoiltAt(o, leg, h, len, m, first, s) ==
  /\ IsFirst(first) /\ IsBlob(first.vec) /\ first.vec.len = len
  /\ IsTrace(LegKeys(o, leg), m, h, first, s)
  /\ IF leg = "forward" THEN IsTouched(first) ELSE m = 1 => IsWrong(o, first)

IsSpoilt(o, leg, h, len, s) ==
  \E m, first : m \in 1 .. h /\ IsSpoiltAt(o, leg, h, len, m, first, s)

(* The section that hop h receives if nobody altered anything; r is the    *)
(* reply, on the backward leg.                                             *)
HonestSection(o, leg, h, r) ==
  IF leg = "forward" THEN sections_forward(o)[h - 1] ELSE sections_backward(o, r)[h - 1]

CarriedLen(o, leg, r) == IF leg = "forward" THEN o.payload.len ELSE r.len

LEMMA XorWithMac ==
  ASSUME NEW key, NEW data, NEW ad, NoMac(ad)
  PROVE  xor_tag(tag(key, data), ad) = tag(key, data) \cup ad
  <1>1. \A a \in tag(key, data) : a.kind = "mac"
    BY DEF tag
  <1>2. tag(key, data) \cap ad = {}
    BY <1>1 DEF NoMac
  <1> QED
    BY <1>2 DEF xor_tag

(* The MAC in a tag is that of the ciphertext and the key it was made for. *)
LEMMA AnswersDiffer ==
  ASSUME NEW key, NEW a, NEW b, NEW c, NoMac(c), NEW d, NoMac(d),
         AnswerTag(key, a, c) = AnswerTag(key, b, d)
  PROVE  <<a, c>> = <<b, d>>
  <1> DEFINE mk == derive_key(Mac, key)
             x == [kind |-> "mac", macKey |-> mk, over |-> [reply |-> a]]
             y == [kind |-> "mac", macKey |-> mk, over |-> [reply |-> b]]
  <1>1. tag(mk, [reply |-> a]) = {x} /\ tag(mk, [reply |-> b]) = {y}
    BY DEF tag
  <1>2. {x} \cup c = {y} \cup d
    <2>1. /\ xor_tag(tag(mk, [reply |-> a]), c) = {x} \cup c
          /\ xor_tag(tag(mk, [reply |-> b]), d) = {y} \cup d
      <3> HIDE DEF x, y, mk
      <3> QED
        BY <1>1, XorWithMac
    <2> QED
      BY <2>1 DEF AnswerTag
  <1>3. x.kind = "mac" /\ y.kind = "mac"
    OBVIOUS
  <1>4. x = y /\ c = d
    <2> HIDE DEF x, y
    <2>1. x \notin d /\ y \notin c /\ x \notin c /\ y \notin d
      BY <1>3 DEF NoMac
    <2>2. x = y
      BY <1>2, <2>1
    <2> QED
      BY <1>2, <2>1, <2>2
  <1>5. [reply |-> a] = [reply |-> b]
    <2>1. x.over = y.over
      BY <1>4
    <2> QED
      BY <2>1
  <1>6. a = b
    <2>1. [reply |-> a].reply = [reply |-> b].reply
      BY <1>5
    <2> QED
      BY <2>1
  <1> QED
    BY <1>4, <1>6

LEMMA MacInAnswer ==
  ASSUME NEW key, NEW c, NEW ad, NoMac(ad)
  PROVE  \E a \in AnswerTag(key, c, ad) : a.kind = "mac"
  <1> DEFINE x == [kind |-> "mac", macKey |-> derive_key(Mac, key), over |-> [reply |-> c]]
  <1>1. tag(derive_key(Mac, key), [reply |-> c]) = {x} /\ x.kind = "mac"
    BY DEF tag
  <1>2. AnswerTag(key, c, ad) = tag(derive_key(Mac, key), [reply |-> c]) \cup ad
    BY XorWithMac DEF AnswerTag
  <1> HIDE DEF x
  <1> QED
    BY <1>1, <1>2

LEMMA NoMacInHalf ==
  ASSUME NEW x
  PROVE  NoMac(HeadTag(x))
  BY DEF NoMac, HeadTag

LEMMA NoMacInMauled ==
  ASSUME NEW t
  PROVE  NoMac(MaulTag(t))
  BY DEF NoMac, MaulTag

LEMMA WithoutMacIsRefused ==
  ASSUME NEW key, NEW ad, NoMac(ad), NEW s, NoMac(s.tag)
  PROVE  ae_dec(key, ad, s) = Err("AeError")
  <1>1. s.tag # AnswerTag(key, s.vec, ad)
    BY MacInAnswer DEF NoMac
  <1> QED
    BY <1>1, Zenon DEF ae_dec, AnswerTag

LEMMA WrongIsRefused ==
  ASSUME NEW o, IsOrder(o), NEW s, IsWrong(o, s)
  PROVE  ae_dec(ReplyKey(o), awaited_tag(o), s) = Err("AeError")
  <1>1. NoMac(awaited_tag(o))
    BY ForwardSectionsShape DEF NoMac
  <1>2. CASE \E t : s.tag = MaulTag(t)
    BY <1>1, <1>2, NoMacInMauled, WithoutMacIsRefused
  <1>3. ASSUME NEW ciphertext, NEW ad,
               s.tag = AnswerTag(ReplyKey(o), ciphertext, ad), NoMac(ad), IsIntact(ciphertext),
               ~ IsIntact(s.vec) \/ (s.vec = ciphertext /\ ad # awaited_tag(o))
        PROVE  ae_dec(ReplyKey(o), awaited_tag(o), s) = Err("AeError")
    <2>1. s.tag # AnswerTag(ReplyKey(o), s.vec, awaited_tag(o))
      <3> SUFFICES ASSUME s.tag = AnswerTag(ReplyKey(o), s.vec, awaited_tag(o)) PROVE FALSE
        OBVIOUS
      <3> DEFINE v == s.vec
                 w == awaited_tag(o)
      <3>1. <<ciphertext, ad>> = <<v, w>>
        <4> HIDE DEF v, w
        <4>1. AnswerTag(ReplyKey(o), ciphertext, ad) = AnswerTag(ReplyKey(o), v, w)
          BY <1>3 DEF v, w
        <4>2. NoMac(w)
          BY <1>1 DEF w
        <4> QED
          BY <1>3, <4>1, <4>2, AnswersDiffer
      <3> QED
        BY <1>3, <3>1
    <2> QED
      BY <2>1, Zenon DEF ae_dec, AnswerTag
  <1> QED
    BY <1>2, <1>3 DEF IsWrong

LEMMA SpoiltShape ==
  ASSUME NEW o, IsOrder(o), NEW leg \in Legs, NEW h \in 1 .. Len(LegHops(o, leg)), NEW len,
         NEW s, IsSpoilt(o, leg, h, len, s)
  PROVE  s = [vec |-> s.vec, tag |-> s.tag] /\ IsBlob(s.vec) /\ s.vec.len = len
  <1>1. PICK m, first : m \in 1 .. h /\ IsSpoiltAt(o, leg, h, len, m, first, s)
    BY DEF IsSpoilt
  <1>2. /\ IsFirst(first) /\ IsBlob(first.vec) /\ first.vec.len = len
        /\ IsTrace(LegKeys(o, leg), m, h, first, s)
    BY <1>1 DEF IsSpoiltAt
  <1>3. m \in Nat /\ h \in Nat /\ m <= h
    BY <1>1, LegIsOnionized
  <1>4. IsPassed(s, first, h - m, "dec")
    BY <1>2, <1>3, TraceIsPassed
  <1>5. IsSection(s, first.vec, first.tag)
    BY <1>4, PassedIsSection
  <1> QED
    BY <1>2, <1>5, SectionShape

LEMMA SpoiltPasses ==
  ASSUME NEW o, IsOrder(o), NEW leg \in Legs, NEW h \in 1 .. Len(LegHops(o, leg)), NEW len,
         NEW s, IsSpoilt(o, leg, h, len, s)
  PROVE  IsSpoilt(o, leg, h + 1, len, ae_unwrap(LegKeys(o, leg)[h], s))
  <1>1. PICK m, first : m \in 1 .. h /\ IsSpoiltAt(o, leg, h, len, m, first, s)
    BY DEF IsSpoilt
  <1>2. m \in Nat /\ h \in Nat /\ m <= h /\ m \in 1 .. h + 1
    BY <1>1, LegIsOnionized
  <1>3. IsTrace(LegKeys(o, leg), m, h, first, s)
    BY <1>1 DEF IsSpoiltAt
  <1>4. IsTrace(LegKeys(o, leg), m, h + 1, first, ae_unwrap(LegKeys(o, leg)[h], s))
    BY <1>2, <1>3, TraceStep
  <1>5. IsSpoiltAt(o, leg, h + 1, len, m, first, ae_unwrap(LegKeys(o, leg)[h], s))
    BY <1>1, <1>4 DEF IsSpoiltAt
  <1> QED
    BY <1>2, <1>5 DEF IsSpoilt

LEMMA RandomSection ==
  ASSUME NEW o, IsOrder(o)
  PROVE  /\ IsFirst(random_section(o))
         /\ random_section(o).vec = random_vec(o)
         /\ random_section(o).tag = random_tag([rng |-> o.rng, leg |-> "forward"])
         /\ IsBlob(random_vec(o)) /\ random_vec(o).len = o.payload.len
         /\ ~ IsTouched(random_section(o))
  <1> DEFINE rng == [rng |-> o.rng, leg |-> "forward"]
             s == random_section(o)
  <1>1. s = [vec |-> random_vec(o), tag |-> random_tag(rng)]
    BY DEF random_section, random_pair, random_vec
  <1>2. IsOriginal(random_vec(o), random_tag(rng)) /\ random_vec(o).len = o.payload.len
    BY ForwardSectionsShape
  <1>3. IsIntact(random_vec(o)) /\ IsBlob(random_vec(o))
    <2>1. o.payload.len \in Nat
      BY OrderFacts
    <2>2. CASE o.payload.len = 0
      <3>1. random_vec(o) = Bytes([kind |-> "empty"], 0)
        BY <2>2 DEF random_vec, random_bytes, Empty
      <3> QED
        BY <3>1, BytesIsBlob DEF IsIntact
    <2>3. CASE o.payload.len # 0
      <3>1. random_vec(o) = Bytes([kind |-> "random", coin |-> rng], o.payload.len)
        BY <2>3 DEF random_vec, random_bytes
      <3> QED
        BY <2>1, <3>1, BytesIsBlob DEF IsIntact
    <2> QED
      BY <2>2, <2>3
  <1>4. \A t : random_tag(rng) # MaulTag(t)
    <2>1. \A a \in random_tag(rng) : a.kind = "randomTag"
      BY DEF random_tag
    <2>2. \A t : \E a \in MaulTag(t) : a.kind = "mauled"
      BY DEF MaulTag
    <2> QED
      BY <2>1, <2>2
  <1> HIDE DEF rng, s
  <1>5. s.vec = random_vec(o) /\ s.tag = random_tag(rng)
    BY <1>1
  <1>6. IsFirst(s)
    BY <1>1, <1>2, <1>5 DEF IsFirst
  <1>7. ~ IsTouched(s)
    BY <1>3, <1>4, <1>5 DEF IsTouched
  <1> QED
    BY <1>2, <1>3, <1>5, <1>6, <1>7 DEF rng, s

(* What the receiver finds in a section that was altered on its way is not *)
(* what the sender waits for.                                              *)
LEMMA SpoiltTag ==
  ASSUME NEW o, IsOrder(o), NEW len, NEW s, IsSpoilt(o, "forward", n_forward(o), len, s)
  PROVE  LET ad == ae_unwrap(ReplyKey(o), s).tag
         IN  NoMac(ad) /\ ad # awaited_tag(o)
  <1> DEFINE n == n_forward(o)
             keys == keys_forward(o)
             last == ae_unwrap(ReplyKey(o), s)
             r == random_section(o)
             B == sections_forward(o)
  <1>1. PICK m, first : m \in 1 .. n /\ IsSpoiltAt(o, "forward", n, len, m, first, s)
    BY DEF IsSpoilt
  <1>2. /\ n \in Nat \ {0} /\ Len(keys) = n /\ n + 1 \in Nat /\ n + 1 \in 1 .. Len(keys) + 1
        /\ m \in Nat /\ m <= n /\ (n + 1) - m \in Nat \ {0} /\ m <= n + 1
        /\ (n + 1) - 1 \in Nat \ {0} /\ (n + 1) - 1 = n
    BY <1>1, OrderFacts
  <1>3. /\ IsFirst(first) /\ IsTouched(first) /\ IsTrace(keys, m, n, first, s)
    BY <1>1 DEF IsSpoiltAt, LegKeys
  <1>4. IsTrace(keys, m, n + 1, first, last)
    BY <1>2, <1>3, TraceStep DEF ReplyKey
  <1>5. PICK x : /\ x.base = [kind |-> "pair", vec |-> first.vec, pairTag |-> first.tag]
                 /\ last.tag = HeadTag(x)
    <2>1. IsPassed(last, first, (n + 1) - m, "dec")
      BY <1>2, <1>3, <1>4, TraceIsPassed
    <2> QED
      BY <1>2, <2>1, PassedTag
  <1>6. IsTrace(keys, 1, n + 1, r, B[n])
    <2>1. B = backward_sections(keys, r)
      BY DEF sections_forward
    <2> HIDE DEF n, keys, r, B
    <2>2. IsTrace(keys, 1, n + 1, r, backward_sections(keys, r)[(n + 1) - 1])
      BY <1>2, SectionsAreTrace
    <2> QED
      BY <1>2, <2>1, <2>2
  <1>7. PICK y : /\ y.base = [kind |-> "pair", vec |-> r.vec, pairTag |-> r.tag]
                 /\ awaited_tag(o) = HeadTag(y)
    <2>1. IsFirst(r) /\ awaited_tag(o) = B[n].tag
      BY RandomSection DEF awaited_tag
    <2> HIDE DEF n, keys, r, B
    <2>2. IsPassed(B[n], r, (n + 1) - 1, "dec")
      BY <1>2, <1>6, <2>1, TraceIsPassed
    <2> QED
      BY <1>2, <2>1, <2>2, PassedTag
  <1>8. last.tag # awaited_tag(o)
    <2> SUFFICES ASSUME HeadTag(x) = HeadTag(y) PROVE FALSE
      BY <1>5, <1>7
    <2>1. x = y
      <3> DEFINE a == [kind |-> "head", whole |-> x]
                 b == [kind |-> "head", whole |-> y]
      <3>1. {a} = {b}
        BY DEF HeadTag
      <3>2. a = b
        <4> HIDE DEF a, b
        <4> QED
          BY <3>1
      <3>3. a.whole = b.whole
        BY <3>2
      <3> QED
        BY <3>3
    <2>2. x.base.vec = first.vec /\ x.base.pairTag = first.tag
      BY <1>5
    <2>3. y.base.vec = r.vec /\ y.base.pairTag = r.tag
      BY <1>7
    <2>4. first.vec = r.vec /\ first.tag = r.tag
      BY <2>1, <2>2, <2>3
    <2> QED
      BY <1>3, <2>4, RandomSection DEF IsTouched
  <1>9. NoMac(last.tag)
    BY <1>5, NoMacInHalf
  <1> QED
    BY <1>8, <1>9

(* An answer made from a section that was altered is altered as well.      *)
LEMMA AnswerShape ==
  ASSUME NEW key, NEW ad, NoMac(ad), NEW reply, IsBlob(reply), IsIntact(reply)
  PROVE  LET s == ae_enc(key, ad, reply)
         IN  /\ IsFirst(s) /\ IsBlob(s.vec) /\ s.vec.len = reply.len /\ IsIntact(s.vec)
             /\ s.tag = AnswerTag(key, s.vec, ad)
  <1> DEFINE s == ae_enc(key, ad, reply)
             ct == symmetric_encrypt(derive_key(SymEnc, key), NONCE_AE, reply)
  <1>1. s = [vec |-> s.vec, tag |-> s.tag] /\ IsOriginal(s.vec, s.tag)
    BY ReplyIsOriginal DEF NoMac
  <1>2. IsBlob(ct) /\ ct.base = reply.base /\ ct.len = reply.len
    BY CipherKeeps DEF symmetric_encrypt
  <1>3. s = [vec |-> ct, tag |-> AnswerTag(key, ct, ad)]
    BY DEF ae_enc, AnswerTag
  <1> HIDE DEF s, ct
  <1>4. s.vec = ct /\ s.tag = AnswerTag(key, ct, ad)
    BY <1>3
  <1>5. IsFirst(s)
    BY <1>1 DEF IsFirst
  <1>6. IsIntact(s.vec)
    BY <1>2, <1>4 DEF IsIntact
  <1>7. IsFirst(s) /\ IsBlob(s.vec) /\ s.vec.len = reply.len /\ IsIntact(s.vec)
        /\ s.tag = AnswerTag(key, s.vec, ad)
    BY <1>2, <1>4, <1>5, <1>6
  <1> QED
    BY <1>7 DEF s

LEMMA SpoiltAnswer ==
  ASSUME NEW o, IsOrder(o), NEW len, NEW s, IsSpoilt(o, "forward", n_forward(o), len, s),
         NEW reply, IsBlob(reply), IsIntact(reply)
  PROVE  IsSpoilt(o, "backward", 1, reply.len,
                  ae_enc(ReplyKey(o), ae_unwrap(ReplyKey(o), s).tag, reply))
  <1> DEFINE key == ReplyKey(o)
             ad == ae_unwrap(key, s).tag
             x == ae_enc(key, ad, reply)
  <1>1. NoMac(ad) /\ ad # awaited_tag(o)
    BY SpoiltTag
  <1>2. key = ReplyKey(o)
    OBVIOUS
  <1> HIDE DEF key, ad
  <1>3. /\ IsFirst(x) /\ IsBlob(x.vec) /\ x.vec.len = reply.len /\ IsIntact(x.vec)
        /\ x.tag = AnswerTag(key, x.vec, ad)
    BY <1>1, AnswerShape
  <1> HIDE DEF x
  <1>4. IsWrong(o, x)
    BY <1>1, <1>2, <1>3 DEF IsWrong
  <1>5. IsTrace(LegKeys(o, "backward"), 1, 1, x, x)
    BY TraceStart
  <1>6. IsSpoiltAt(o, "backward", 1, reply.len, 1, x, x)
    BY <1>3, <1>4, <1>5 DEF IsSpoiltAt
  <1>7. IsSpoilt(o, "backward", 1, reply.len, x)
    BY <1>6 DEF IsSpoilt
  <1> QED
    BY <1>7 DEF x, ad, key

(* A sender that waits for the reply refuses an altered section: rewrapped *)
(* as far as the hop where it was altered it is what was made there, and   *)
(* the hops before leave it without a MAC.                                 *)
LEMMA RewrappedToFirst ==
  ASSUME NEW master, NEW keys, IsReplyKeys(keys, master), NEW m \in 1 .. Len(keys),
         NEW first, IsFirst(first), NEW s, IsTrace(keys, m, Len(keys), first, s)
  PROVE  rewrapped_sections(master, Len(keys), s)[m - 1] = first
  <1> DEFINE n == Len(keys)
             R == rewrapped_sections(master, n, s)
  <1>1. n \in Nat \ {0} /\ m \in Nat
    BY DEF IsReplyKeys
  <1>2. PICK f : /\ f[m] = first /\ f[n] = s
                 /\ \A i \in m .. n - 1 : f[i + 1] = ae_unwrap(keys[i], f[i])
    BY DEF IsTrace
  <1>3. R = [i \in 0 .. n - 1 |->
               IF i = n - 1 THEN s ELSE ae_wrap(backward_key(master, i), R[i + 1])]
    BY <1>1, RewrappedRecur
  <1> HIDE DEF R
  <1>4. \A i \in m .. n : IsSection(f[i], first.vec, first.tag)
    <2> TAKE i \in m .. n
    <2>1. /\ f[m] = first /\ f[i] = f[i]
          /\ \A j \in m .. i - 1 : f[j + 1] = ae_unwrap(keys[j], f[j])
      BY <1>1, <1>2
    <2>2. IsTrace(keys, m, i, first, f[i])
      BY <2>1, Zenon DEF IsTrace
    <2>3. i \in Nat /\ m <= i
      BY <1>1
    <2> QED
      BY <1>1, <2>2, <2>3, TraceIsPassed, PassedIsSection
  <1> DEFINE T == {i \in m - 1 .. n - 1 : R[i] = f[i + 1]}
  <1>5. n - 1 \in T
    BY <1>1, <1>2, <1>3
  <1>6. ASSUME NEW i \in m - 1 .. (n - 1) - 1, i + 1 \in T PROVE i \in T
    <2>1. /\ i \in 0 .. n - 1 /\ i # n - 1 /\ i + 1 \in m .. n /\ i + 1 \in m .. n - 1
          /\ i \in m - 1 .. n - 1 /\ (i + 1) + 1 = i + 2 /\ (i + 1) - 1 = i
          /\ i + 1 \in 1 .. n - 1
      BY <1>1
    <2>2. R[i] = ae_wrap(backward_key(master, i), R[i + 1])
      BY <1>3, <2>1
    <2>3. R[i + 1] = ae_unwrap(keys[i + 1], f[i + 1])
      BY <1>2, <1>6, <2>1
    <2>4. keys[i + 1] = backward_key(master, i)
      BY <2>1 DEF IsReplyKeys
    <2>5. R[i] = ae_wrap(keys[i + 1], ae_unwrap(keys[i + 1], f[i + 1]))
      BY <2>2, <2>3, <2>4
    <2>6. IsSection(f[i + 1], first.vec, first.tag) /\ IsOriginal(first.vec, first.tag)
      BY <1>4, <2>1 DEF IsFirst
    <2>7. R[i] = f[i + 1]
      BY <2>5, <2>6, WrapUndoesUnwrap
    <2> QED
      BY <2>1, <2>7
  <1>7. m - 1 .. n - 1 \subseteq T
    <2>1. m - 1 \in Int /\ n - 1 \in Int
      BY <1>1
    <2> HIDE DEF T, n
    <2> QED
      BY <1>5, <1>6, <2>1, DownFrom
  <1>8. m - 1 \in T
    BY <1>1, <1>7
  <1> QED
    BY <1>1, <1>2, <1>8 DEF R

LEMMA RewrappedBeyond ==
  ASSUME NEW master, NEW n \in Nat \ {0}, NEW m \in 1 .. n, m # 1, NEW first,
         IsFirst(first), NEW s, rewrapped_sections(master, n, s)[m - 1] = first
  PROVE  NoMac(rewrapped_sections(master, n, s)[0].tag)
  <1> DEFINE R == rewrapped_sections(master, n, s)
             T == {i \in 0 .. m - 1 : IsPassed(R[i], first, (m - 1) - i, "enc")}
  <1>1. R = [i \in 0 .. n - 1 |->
               IF i = n - 1 THEN s ELSE ae_wrap(backward_key(master, i), R[i + 1])]
    BY RewrappedRecur
  <1>2. R[m - 1] = first
    OBVIOUS
  <1> HIDE DEF R
  <1>3. m - 1 \in T
    <2>1. IsPassed(R[m - 1], first, 0, "enc")
      BY <1>2, PassedStart
    <2>2. (m - 1) - (m - 1) = 0 /\ m - 1 \in 0 .. m - 1
      OBVIOUS
    <2> QED
      BY <2>1, <2>2
  <1>4. ASSUME NEW i \in 0 .. (m - 1) - 1, i + 1 \in T PROVE i \in T
    <2>1. /\ i \in 0 .. n - 1 /\ i # n - 1 /\ i \in 0 .. m - 1 /\ i + 1 \in 0 .. m - 1
          /\ (m - 1) - (i + 1) \in Nat /\ ((m - 1) - (i + 1)) + 1 = (m - 1) - i
          /\ "enc" \in Directions
      BY DEF Directions
    <2>2. R[i] = Split(Cipher("enc", derive_key(SymEnc, backward_key(master, i)), NONCE_BWD,
                              Join(R[i + 1])))
      BY <1>1, <2>1 DEF ae_wrap, symmetric_encrypt
    <2>3. IsPassed(R[i + 1], first, (m - 1) - (i + 1), "enc")
      BY <1>4
    <2>4. IsPassed(R[i], first, ((m - 1) - (i + 1)) + 1, "enc")
      BY <2>1, <2>2, <2>3, PassedStep
    <2> QED
      BY <2>1, <2>4
  <1>5. 0 .. m - 1 \subseteq T
    <2>1. 0 \in Int /\ m - 1 \in Int
      OBVIOUS
    <2> HIDE DEF T
    <2> QED
      BY <1>3, <1>4, <2>1, DownFrom
  <1>6. IsPassed(R[0], first, (m - 1) - 0, "enc") /\ (m - 1) - 0 \in Nat \ {0}
    BY <1>5
  <1>7. \E x : R[0].tag = HeadTag(x)
    <2>1. PICK k, q : k \in Nat \ {0} /\ q = R[0] /\ IsPassed(q, first, k, "enc")
      BY <1>6
    <2>2. \E x : x.base = [kind |-> "pair", vec |-> first.vec, pairTag |-> first.tag]
                 /\ q.tag = HeadTag(x)
      BY <2>1, PassedTag
    <2> QED
      BY <2>1, <2>2
  <1>8. NoMac(R[0].tag)
    BY <1>7, NoMacInHalf
  <1> QED
    BY <1>8 DEF R

LEMMA SpoiltIsRefused ==
  ASSUME NEW o, IsOrder(o), NEW len, NEW s, IsSpoilt(o, "backward", n_backward(o), len, s)
  PROVE  ae_dec(ReplyKey(o), awaited_tag(o),
                rewrapped_sections(random_key(o.rng), n_backward(o), s)[0]) = Err("AeError")
  <1> DEFINE n == n_backward(o)
             keys == keys_backward(o)
             master == random_key(o.rng)
             R == rewrapped_sections(master, n, s)
  <1>1. PICK m, first : m \in 1 .. n /\ IsSpoiltAt(o, "backward", n, len, m, first, s)
    BY DEF IsSpoilt
  <1>2. /\ m \in 1 .. n /\ IsFirst(first) /\ IsTrace(keys, m, n, first, s)
        /\ m = 1 => IsWrong(o, first)
    BY <1>1 DEF IsSpoiltAt, LegKeys
  <1>3. Len(keys) = n /\ n \in Nat \ {0}
    BY OrderFacts
  <1>4. IsReplyKeys(keys, master)
    <2>1. \A i \in 1 .. n - 1 : keys[i] = backward_key(master, i - 1)
      BY <1>3 DEF keys_backward
    <2> QED
      BY <1>3, <2>1 DEF IsReplyKeys
  <1> HIDE DEF n, keys, master
  <1>5. R[m - 1] = first
    BY <1>2, <1>3, <1>4, RewrappedToFirst
  <1>6. CASE m = 1
    <2>1. R[0] = first /\ IsWrong(o, first)
      BY <1>2, <1>5, <1>6
    <2> HIDE DEF R
    <2>2. ae_dec(ReplyKey(o), awaited_tag(o), R[0]) = Err("AeError")
      BY <2>1, WrongIsRefused
    <2> QED
      BY <2>2 DEF R, n, master
  <1>7. CASE m # 1
    <2>1. NoMac(R[0].tag)
      BY <1>2, <1>3, <1>5, <1>7, RewrappedBeyond
    <2>2. NoMac(awaited_tag(o))
      BY ForwardSectionsShape DEF NoMac
    <2> HIDE DEF R
    <2>3. ae_dec(ReplyKey(o), awaited_tag(o), R[0]) = Err("AeError")
      BY <2>1, <2>2, WithoutMacIsRefused
    <2> QED
      BY <2>3 DEF R, n, master
  <1> QED
    BY <1>6, <1>7

(* The honest sections. *)
LEMMA HonestShape ==
  ASSUME NEW o, IsOrder(o), NEW leg \in Legs, NEW h \in 1 .. Len(LegHops(o, leg)), NEW r,
         IsBlob(r), IsIntact(r)
  PROVE  LET s == HonestSection(o, leg, h, r)
         IN  s = [vec |-> s.vec, tag |-> s.tag] /\ IsBlob(s.vec)
             /\ s.vec.len = CarriedLen(o, leg, r)
  <1> DEFINE s == HonestSection(o, leg, h, r)
  <1>1. PICK first : /\ IsFirst(first) /\ IsBlob(first.vec)
                     /\ first.vec.len = CarriedLen(o, leg, r)
                     /\ s = backward_sections(LegKeys(o, leg), first)[h - 1]
    <2>1. CASE leg = "forward"
      <3>1. s = backward_sections(LegKeys(o, leg), random_section(o))[h - 1]
        BY <2>1 DEF HonestSection, sections_forward, LegKeys
      <3>2. IsFirst(random_section(o)) /\ IsBlob(random_section(o).vec)
            /\ random_section(o).vec.len = CarriedLen(o, leg, r)
        BY <2>1, RandomSection DEF CarriedLen
      <3> QED
        BY <3>1, <3>2
    <2>2. CASE leg = "backward"
      <3>1. s = backward_sections(LegKeys(o, leg), first_section(o, r))[h - 1]
        BY <2>2 DEF HonestSection, sections_backward, LegKeys
      <3>2. first_section(o, r) = ae_enc(ReplyKey(o), awaited_tag(o), r)
        BY Zenon DEF first_section, ReplyKey, awaited_tag
      <3>3. NoMac(awaited_tag(o))
        BY ForwardSectionsShape DEF NoMac
      <3>4. IsFirst(first_section(o, r)) /\ IsBlob(first_section(o, r).vec)
            /\ first_section(o, r).vec.len = CarriedLen(o, leg, r)
        BY <2>2, <3>2, <3>3, AnswerShape DEF CarriedLen
      <3> QED
        BY <3>1, <3>4
    <2> QED
      BY <2>1, <2>2 DEF Legs
  <1>2. h \in Nat \ {0} /\ Len(LegKeys(o, leg)) \in Nat /\ h \in 1 .. Len(LegKeys(o, leg)) + 1
        /\ 1 \in Nat /\ 1 <= h
    BY LegIsOnionized
  <1> HIDE DEF s
  <1>3. IsTrace(LegKeys(o, leg), 1, h, first, s)
    BY <1>1, <1>2, SectionsAreTrace
  <1>4. IsSection(s, first.vec, first.tag)
    BY <1>1, <1>2, <1>3, TraceIsPassed, PassedIsSection
  <1>5. s = [vec |-> s.vec, tag |-> s.tag] /\ IsBlob(s.vec)
             /\ s.vec.len = CarriedLen(o, leg, r)
    BY <1>1, <1>4, SectionShape
  <1> QED
    BY <1>5 DEF s

LEMMA HonestPasses ==
  ASSUME NEW o, IsOrder(o), NEW leg \in Legs, NEW h \in 1 .. Len(LegHops(o, leg)), NEW r
  PROVE  ae_unwrap(LegKeys(o, leg)[h], HonestSection(o, leg, h, r))
           = HonestSection(o, leg, h + 1, r)
  <1> DEFINE keys == LegKeys(o, leg)
  <1>1. Len(keys) \in Nat /\ h \in 0 .. Len(keys) /\ h # 0 /\ (h + 1) - 1 = h
    BY LegIsOnionized
  <1>2. PICK first : \A i : HonestSection(o, leg, i, r) = backward_sections(keys, first)[i - 1]
    <2>1. CASE leg = "forward"
      <3>1. \A i : HonestSection(o, leg, i, r)
                   = backward_sections(keys, random_section(o))[i - 1]
        BY <2>1 DEF HonestSection, sections_forward, LegKeys
      <3> QED
        BY <3>1
    <2>2. CASE leg = "backward"
      <3>1. \A i : HonestSection(o, leg, i, r)
                   = backward_sections(keys, first_section(o, r))[i - 1]
        BY <2>2 DEF HonestSection, sections_backward, LegKeys
      <3> QED
        BY <3>1
    <2> QED
      BY <2>1, <2>2 DEF Legs
  <1> HIDE DEF keys
  <1>3. backward_sections(keys, first)[h]
          = ae_unwrap(keys[h], backward_sections(keys, first)[h - 1])
    BY <1>1, BackwardSectionsRecur
  <1>4. ae_unwrap(keys[h], HonestSection(o, leg, h, r)) = HonestSection(o, leg, h + 1, r)
    BY <1>1, <1>2, <1>3
  <1> QED
    BY <1>4 DEF keys

LEMMA HonestAnswer ==
  ASSUME NEW o, IsOrder(o), NEW r
  PROVE  ae_enc(ReplyKey(o),
                ae_unwrap(ReplyKey(o), HonestSection(o, "forward", n_forward(o), Empty)).tag, r)
           = HonestSection(o, "backward", 1, r)
  <1> DEFINE n == n_forward(o)
  <1>1. n \in 1 .. Len(LegHops(o, "forward")) /\ "forward" \in Legs
    BY OrderFacts DEF LegHops, n_forward, Legs
  <1>2. LegKeys(o, "forward")[n] = ReplyKey(o)
    BY DEF LegKeys, ReplyKey
  <1>3. ae_unwrap(ReplyKey(o), HonestSection(o, "forward", n, Empty))
          = HonestSection(o, "forward", n + 1, Empty)
    BY <1>1, <1>2, HonestPasses
  <1>4. HonestSection(o, "forward", n + 1, Empty).tag = awaited_tag(o)
    <2>1. (n + 1) - 1 = n
      BY OrderFacts
    <2>2. HonestSection(o, "forward", n + 1, Empty) = sections_forward(o)[n]
      BY <2>1 DEF HonestSection
    <2> QED
      BY <2>2 DEF awaited_tag
  <1>5. HonestSection(o, "backward", 1, r) = first_section(o, r)
    <2>1. 0 \in 0 .. Len(keys_backward(o)) /\ Len(keys_backward(o)) \in Nat
      BY OrderFacts
    <2>2. backward_sections(keys_backward(o), first_section(o, r))[0] = first_section(o, r)
      BY <2>1, BackwardSectionsRecur
    <2> QED
      BY <2>2 DEF HonestSection, sections_backward
  <1>6. first_section(o, r) = ae_enc(ReplyKey(o), awaited_tag(o), r)
    BY Zenon DEF first_section, ReplyKey, awaited_tag
  <1> QED
    BY <1>3, <1>4, <1>5, <1>6

(* A section that is altered again is an altered section of this hop.      *)
LEMMA BittenIsSpoilt ==
  ASSUME NEW o, IsOrder(o), NEW leg \in Legs, NEW h \in 1 .. Len(LegHops(o, leg)), NEW r,
         IsBlob(r), IsIntact(r), NEW onion, NEW x, IsBitten(onion, x),
         \/ onion.backward = HonestSection(o, leg, h, r)
         \/ IsSpoilt(o, leg, h, CarriedLen(o, leg, r), onion.backward)
  PROVE  IsSpoilt(o, leg, h, CarriedLen(o, leg, r), x.backward)
  <1> DEFINE s == onion.backward
             y == x.backward
             len == CarriedLen(o, leg, r)
  <1>1. s = [vec |-> s.vec, tag |-> s.tag] /\ IsBlob(s.vec) /\ s.vec.len = len
    BY HonestShape, SpoiltShape
  <1>2. y = [vec |-> s.vec, tag |-> MaulTag(s.tag)] \/ y = [vec |-> Maul(s.vec), tag |-> s.tag]
    BY DEF IsBitten
  <1>3. s.vec.len \in Nat
    BY <1>1, BlobIsByteString
  <1>4. IsFirst(y) /\ IsBlob(y.vec) /\ y.vec.len = len /\ IsTouched(y)
    <2>1. CASE y = [vec |-> s.vec, tag |-> MaulTag(s.tag)]
      <3>1. y.vec = s.vec /\ y.tag = MaulTag(s.tag) /\ y = [vec |-> y.vec, tag |-> y.tag]
        BY <2>1
      <3>2. \A b : MaulTag(s.tag) # HeadTag(b)
        <4>1. \A b : \A a \in HeadTag(b) : a.kind = "head"
          BY DEF HeadTag
        <4>2. \E a \in MaulTag(s.tag) : a.kind = "mauled"
          BY DEF MaulTag
        <4> QED
          BY <4>1, <4>2
      <3>3. IsOriginal(y.vec, y.tag)
        BY <1>3, <3>1, <3>2 DEF IsOriginal, Halves
      <3>4. IsFirst(y)
        BY <3>1, <3>3, Zenon DEF IsFirst
      <3> QED
        BY <1>1, <3>1, <3>4 DEF IsTouched
    <2>2. CASE y = [vec |-> Maul(s.vec), tag |-> s.tag]
      <3>1. y.vec = Maul(s.vec) /\ y.tag = s.tag /\ y = [vec |-> y.vec, tag |-> y.tag]
        BY <2>2
      <3>2. IsBlob(Maul(s.vec)) /\ Maul(s.vec).len = s.vec.len /\ ~ IsIntact(Maul(s.vec))
        BY <1>1, MaulKeeps
      <3>3. \A b : Maul(s.vec) # TailVec(b)
        <4> TAKE b
        <4>1. IsIntact(TailVec(b))
          <5>1. CASE b.len = TagBytes
            BY <5>1 DEF TailVec, Empty, Bytes, IsIntact
          <5>2. CASE b.len # TagBytes
            BY <5>2 DEF TailVec, Bytes, IsIntact
          <5> QED
            BY <5>1, <5>2
        <4> QED
          BY <3>2, <4>1
      <3>4. IsOriginal(y.vec, y.tag)
        BY <1>3, <3>1, <3>2, <3>3 DEF IsOriginal, Halves
      <3>5. IsFirst(y)
        BY <3>1, <3>4, Zenon DEF IsFirst
      <3> QED
        BY <1>1, <3>1, <3>2, <3>5 DEF IsTouched
    <2> QED
      BY <1>2, <2>1, <2>2
  <1>5. ASSUME leg = "backward", h = 1 PROVE IsWrong(o, y)
    <2>1. CASE y.tag = MaulTag(s.tag)
      BY <2>1 DEF IsWrong
    <2>2. CASE y = [vec |-> Maul(s.vec), tag |-> s.tag]
      <3>1. y.tag = s.tag /\ ~ IsIntact(y.vec)
        <4>1. y.vec = Maul(s.vec) /\ y.tag = s.tag
          BY <2>2
        <4> QED
          BY <1>1, <4>1, MaulKeeps
      <3>2. CASE onion.backward = HonestSection(o, leg, h, r)
        <4>1. s = ae_enc(ReplyKey(o), awaited_tag(o), r)
          <5>1. 0 \in 0 .. Len(keys_backward(o)) /\ Len(keys_backward(o)) \in Nat
            BY OrderFacts
          <5>2. backward_sections(keys_backward(o), first_section(o, r))[0]
                  = first_section(o, r)
            BY <5>1, BackwardSectionsRecur
          <5>3. s = first_section(o, r)
            BY <1>5, <3>2, <5>2 DEF HonestSection, sections_backward
          <5> QED
            BY <5>3, Zenon DEF first_section, ReplyKey, awaited_tag
        <4>2. NoMac(awaited_tag(o))
          BY ForwardSectionsShape DEF NoMac
        <4>3. s.tag = AnswerTag(ReplyKey(o), s.vec, awaited_tag(o)) /\ IsIntact(s.vec)
          BY <4>1, <4>2, AnswerShape
        <4> HIDE DEF s, y
        <4> QED
          BY <3>1, <4>2, <4>3 DEF IsWrong
      <3>3. CASE IsSpoilt(o, leg, h, len, onion.backward)
        <4>1. PICK m, first : m \in 1 .. h /\ IsSpoiltAt(o, leg, h, len, m, first, s)
          BY <3>3 DEF IsSpoilt
        <4>2. m = 1
          BY <1>5, <4>1
        <4>3. IsTrace(LegKeys(o, leg), 1, 1, first, s) /\ IsWrong(o, first)
          BY <1>5, <4>1, <4>2 DEF IsSpoiltAt
        <4>4. s = first
          <5> DEFINE keys == LegKeys(o, leg)
          <5> HIDE DEF keys, s
          <5>1. IsTrace(keys, 1, 1, first, s) /\ IsTrace(keys, 1, 1, first, first)
            BY <4>3, TraceStart DEF keys
          <5>2. 1 \in Nat /\ 1 <= 1
            OBVIOUS
          <5> QED
            BY <5>1, <5>2, TraceUnique
        <4>5. IsWrong(o, s)
          BY <4>3, <4>4
        <4> HIDE DEF s, y
        <4> QED
          BY <3>1, <4>5 DEF IsWrong
      <3> QED
        BY <3>2, <3>3
    <2> QED
      BY <1>2, <2>1, <2>2
  <1>6. IsTrace(LegKeys(o, leg), h, h, y, y) /\ h \in 1 .. h
    <2>1. h \in Nat /\ h \in 1 .. h
      BY LegIsOnionized
    <2> QED
      BY <2>1, TraceStart
  <1> HIDE DEF y, len
  <1>7. IsSpoiltAt(o, leg, h, len, h, y, y)
    BY <1>4, <1>5, <1>6 DEF IsSpoiltAt, Legs
  <1>8. IsSpoilt(o, leg, h, len, y)
    BY <1>6, <1>7 DEF IsSpoilt
  <1> QED
    BY <1>8 DEF y, len

-----------------------------------------------------------------------------
(* F.  What the onion of a packet looks like, and what the nodes make of   *)
(* it.  A packet t of an order o records leg, hop, reply and mauled.       *)

ReplyBytes(t) == IF t.leg = "forward" THEN Empty ELSE Plain(t.reply)

ForwardLen(o) == total_header_length + 8 + o.payload.len

PacketLen(o, t) == CarriedLen(o, t.leg, ReplyBytes(t))

IsOnLeg(o, t) ==
  /\ t.leg \in Legs /\ t.hop \in 1 .. Len(LegHops(o, t.leg))
  /\ IsBlob(ReplyBytes(t)) /\ IsIntact(ReplyBytes(t))

(* Neither the header nor the forward section was altered. *)
IsUnsealed(t) == "framing" \in t.mauled \/ "sealed" \in t.mauled

BackwardFits(o, t, s) ==
  IF "backward" \in t.mauled THEN IsSpoilt(o, t.leg, t.hop, PacketLen(o, t), s)
  ELSE s = HonestSection(o, t.leg, t.hop, ReplyBytes(t))

Fits(o, t, onion) ==
  /\ IsOnLeg(o, t)
  /\ IsShaped(onion, ForwardLen(o), PacketLen(o, t))
  /\ "framing" \in t.mauled => IsUnreadable(onion)
  /\ "framing" \notin t.mauled /\ "sealed" \in t.mauled =>
       IsForged(o, t.leg, t.hop, onion)
  /\ ~ IsUnsealed(t) =>
       /\ onion = LegOnion(o, t.leg, t.hop, onion.backward)
       /\ BackwardFits(o, t, onion.backward)

(* The key that hop t.hop of the leg needs. *)
NeededKey(o, t) == o.pki[LegHops(o, t.leg)[t.hop]]

LEMMA BackwardShape ==
  ASSUME NEW o, IsOrder(o), NEW t, IsOnLeg(o, t), NEW s, BackwardFits(o, t, s)
  PROVE  s = [vec |-> s.vec, tag |-> s.tag] /\ IsBlob(s.vec) /\ s.vec.len = PacketLen(o, t)
  <1>1. CASE "backward" \in t.mauled
    BY <1>1, SpoiltShape DEF BackwardFits, IsOnLeg
  <1>2. CASE "backward" \notin t.mauled
    BY <1>2, HonestShape DEF BackwardFits, IsOnLeg, PacketLen
  <1> QED
    BY <1>1, <1>2

(* Any onion of a leg, with a section that fits, fits. *)
LEMMA LegOnionFits ==
  ASSUME NEW o, IsOrder(o), NEW t, IsOnLeg(o, t), ~ IsUnsealed(t), NEW s,
         BackwardFits(o, t, s)
  PROVE  Fits(o, t, LegOnion(o, t.leg, t.hop, s))
  <1> DEFINE x == LegOnion(o, t.leg, t.hop, s)
             H == LegLayers(o, t.leg)[t.hop].headers
             F == LegLayers(o, t.leg)[t.hop].forward
  <1>1. x = [header |-> H, forward |-> F, backward |-> s]
    BY DEF LegOnion
  <1>2. /\ IsHeader(H, MaxPathLength) /\ Len(H) = MaxPathLength
        /\ IsBlob(F) /\ F.len = ForwardLen(o)
    BY LegShape DEF IsOnLeg, ForwardLen
  <1>3. s = [vec |-> s.vec, tag |-> s.tag] /\ IsBlob(s.vec) /\ s.vec.len = PacketLen(o, t)
    BY BackwardShape
  <1> HIDE DEF H, F, x
  <1>4. x.header = H /\ x.forward = F /\ x.backward = s
    BY <1>1
  <1>5. IsShaped(x, ForwardLen(o), PacketLen(o, t))
    BY <1>1, <1>2, <1>3, <1>4 DEF IsShaped
  <1>6. x = LegOnion(o, t.leg, t.hop, x.backward)
    BY <1>4 DEF x
  <1>7. Fits(o, t, x)
    BY <1>4, <1>5, <1>6 DEF Fits, IsUnsealed
  <1> QED
    BY <1>7 DEF x

(* An altered onion, or one for another key, is refused. *)
LEMMA AlteredIsRefused ==
  ASSUME NEW o, IsOrder(o), NEW t, NEW onion, Fits(o, t, onion), NEW private,
         IsUnsealed(t) \/ private # NeededKey(o, t)
  PROVE  unwrap(MaxPathLength, private, onion)
           = Err(IF "framing" \in t.mauled THEN "SerializationError" ELSE "MacMismatch")
  <1>1. CASE "framing" \in t.mauled
    BY <1>1, UnreadableIsRefused DEF Fits
  <1>2. CASE "framing" \notin t.mauled /\ "sealed" \in t.mauled
    <2>1. IsForged(o, t.leg, t.hop, onion) /\ IsHeader(onion.header, MaxPathLength)
          /\ t.leg \in Legs /\ t.hop \in 1 .. Len(LegHops(o, t.leg))
      BY <1>2 DEF Fits, IsShaped, IsOnLeg
    <2>2. unwrap(MaxPathLength, private, onion) = Err("MacMismatch")
      BY <2>1, ForgedIsRefused
    <2> QED
      BY <1>2, <2>2
  <1>3. CASE "framing" \notin t.mauled /\ "sealed" \notin t.mauled
    <2>1. /\ onion = LegOnion(o, t.leg, t.hop, onion.backward)
          /\ t.leg \in Legs /\ t.hop \in 1 .. Len(LegHops(o, t.leg))
          /\ private # o.pki[LegHops(o, t.leg)[t.hop]]
      BY <1>3 DEF Fits, IsOnLeg, IsUnsealed, NeededKey
    <2>2. unwrap(MaxPathLength, private, LegOnion(o, t.leg, t.hop, onion.backward))
            = Err("MacMismatch")
      BY <2>1, LegRefuses
    <2> QED
      BY <1>3, <2>1, <2>2
  <1> QED
    BY <1>1, <1>2, <1>3

(* What a hop before the last makes of an onion that it can open.          *)
NextOnion(o, t, onion) ==
  LegOnion(o, t.leg, t.hop + 1, ae_unwrap(LegKeys(o, t.leg)[t.hop], onion.backward))

LEMMA FitsPass ==
  ASSUME NEW o, IsOrder(o), NEW t, NEW onion, Fits(o, t, onion), ~ IsUnsealed(t),
         t.hop # Len(LegHops(o, t.leg)), NEW expected_tag,
         NEW u, u.leg = t.leg, u.hop = t.hop + 1, u.reply = t.reply, u.mauled = t.mauled
  PROVE  /\ proc_onion(MaxPathLength, NeededKey(o, t), expected_tag, onion)
              = PassedOn(LegHops(o, t.leg)[u.hop], NextOnion(o, t, onion))
         /\ Fits(o, u, NextOnion(o, t, onion))
  <1> DEFINE s == onion.backward
             key == LegKeys(o, t.leg)[t.hop]
  <1>1. /\ t.leg \in Legs /\ t.hop \in 1 .. Len(LegHops(o, t.leg)) /\ IsOnLeg(o, t)
        /\ onion = LegOnion(o, t.leg, t.hop, s) /\ BackwardFits(o, t, s)
    BY DEF Fits, IsOnLeg
  <1>2. /\ t.hop \in 1 .. Len(LegHops(o, t.leg)) - 1
        /\ u.hop \in 1 .. Len(LegHops(o, t.leg))
    BY <1>1, LegIsOnionized
  <1>3. proc_onion(MaxPathLength, NeededKey(o, t), expected_tag, onion)
          = PassedOn(LegHops(o, t.leg)[u.hop], NextOnion(o, t, onion))
    <2> DEFINE leg == t.leg
               h == t.hop
    <2>1. leg \in Legs /\ h \in 1 .. Len(LegHops(o, leg)) - 1
      BY <1>1, <1>2
    <2>2. Passes(o, leg, h, s, expected_tag)
      <3> HIDE DEF leg, h, s
      <3> QED
        BY <2>1, LegPasses
    <2>3. /\ onion = LegOnion(o, leg, h, s) /\ NeededKey(o, t) = o.pki[LegHops(o, leg)[h]]
          /\ NextOnion(o, t, onion) = LegOnion(o, leg, h + 1, ae_unwrap(LegKeys(o, leg)[h], s))
          /\ LegHops(o, t.leg)[u.hop] = LegHops(o, leg)[h + 1]
      BY <1>1 DEF NextOnion, NeededKey
    <2> HIDE DEF leg, h, s
    <2> QED
      BY <2>2, <2>3 DEF Passes
  <1>4. ReplyBytes(u) = ReplyBytes(t) /\ PacketLen(o, u) = PacketLen(o, t)
    BY DEF ReplyBytes, PacketLen
  <1>5. IsOnLeg(o, u) /\ ~ IsUnsealed(u)
    BY <1>1, <1>2, <1>4 DEF IsOnLeg, IsUnsealed
  <1>6. BackwardFits(o, u, ae_unwrap(key, s))
    <2>1. CASE "backward" \in t.mauled
      <3>1. IsSpoilt(o, t.leg, t.hop, PacketLen(o, t), s)
        BY <1>1, <2>1 DEF BackwardFits
      <3>2. IsSpoilt(o, t.leg, t.hop + 1, PacketLen(o, t), ae_unwrap(key, s))
        BY <1>1, <3>1, SpoiltPasses
      <3> QED
        BY <1>4, <2>1, <3>2 DEF BackwardFits
    <2>2. CASE "backward" \notin t.mauled
      <3>1. s = HonestSection(o, t.leg, t.hop, ReplyBytes(t))
        BY <1>1, <2>2 DEF BackwardFits
      <3>2. ae_unwrap(key, HonestSection(o, t.leg, t.hop, ReplyBytes(t)))
              = HonestSection(o, t.leg, t.hop + 1, ReplyBytes(t))
        BY <1>1, HonestPasses
      <3> QED
        BY <1>4, <2>2, <3>1, <3>2 DEF BackwardFits
    <2> QED
      BY <2>1, <2>2
  <1>7. NextOnion(o, t, onion) = LegOnion(o, u.leg, u.hop, ae_unwrap(key, s))
    BY DEF NextOnion
  <1>8. Fits(o, u, NextOnion(o, t, onion))
    <2> HIDE DEF key, s
    <2> QED
      BY <1>5, <1>6, <1>7, LegOnionFits
  <1> QED
    BY <1>3, <1>8

(* The answer of a receiver that can open the onion.                       *)
AnswerOnion(o, onion, reply) ==
  LegOnion(o, "backward", 1,
           ae_enc(ReplyKey(o), ae_unwrap(ReplyKey(o), onion.backward).tag, reply))

IsAnswerable(o, t, onion, u) ==
  /\ reply_onion(MaxPathLength, NeededKey(o, t), onion, Plain(u.reply))
       = [ok |-> TRUE, next |-> o.hops_backward[1],
          onion |-> AnswerOnion(o, onion, Plain(u.reply))]
  /\ Fits(o, u, AnswerOnion(o, onion, Plain(u.reply)))

LEMMA FitsArrive ==
  ASSUME NEW o, IsOrder(o), NEW t, NEW onion, Fits(o, t, onion), ~ IsUnsealed(t),
         t.leg = "forward", t.hop = Len(LegHops(o, t.leg)),
         NEW u, u.leg = "backward", u.hop = 1, u.mauled = t.mauled, IsOnLeg(o, u)
  PROVE  IsAnswerable(o, t, onion, u)
  <1> DEFINE s == onion.backward
             key == ReplyKey(o)
             r == Plain(u.reply)
  <1>1. /\ onion = LegOnion(o, "forward", t.hop, s) /\ BackwardFits(o, t, s)
        /\ IsOnLeg(o, t)
    BY DEF Fits
  <1>2. LegKeys(o, "forward")[t.hop] = key /\ t.hop = n_forward(o)
    BY DEF LegKeys, LegHops, ReplyKey, n_forward
  <1>3. reply_onion(MaxPathLength, NeededKey(o, t), onion, r)
          = [ok |-> TRUE, next |-> o.hops_backward[1], onion |-> AnswerOnion(o, onion, r)]
    <2> DEFINE private == o.pki[LegHops(o, "forward")[t.hop]]
               arrived == LegOnion(o, "forward", t.hop, s)
               answer == LegOnion(o, "backward", 1, ae_enc(key, ae_unwrap(key, s).tag, r))
    <2>1. reply_onion(MaxPathLength, private, arrived, r)
            = [ok |-> TRUE, next |-> o.hops_backward[1], onion |-> answer]
      <3> DEFINE h == t.hop
      <3>1. h = Len(LegHops(o, "forward"))
        OBVIOUS
      <3>2. Arrives(o, h, s, {}, r)
        <4> HIDE DEF r, s, h
        <4> QED
          BY <3>1, LegArrives
      <3> QED
        BY <1>2, <3>2 DEF Arrives
    <2>2. NeededKey(o, t) = private /\ onion = arrived
      BY <1>1 DEF NeededKey
    <2>3. AnswerOnion(o, onion, r) = answer
      BY DEF AnswerOnion
    <2> HIDE DEF private, arrived, answer, r
    <2> QED
      BY <2>1, <2>2, <2>3
  <1>4. ReplyBytes(u) = r /\ PacketLen(o, u) = r.len
    BY DEF ReplyBytes, PacketLen, CarriedLen
  <1>5. ~ IsUnsealed(u) /\ IsBlob(r) /\ IsIntact(r)
    BY <1>4 DEF IsUnsealed, IsOnLeg
  <1>6. BackwardFits(o, u, ae_enc(key, ae_unwrap(key, s).tag, r))
    <2>1. CASE "backward" \in t.mauled
      <3>1. IsSpoilt(o, "forward", n_forward(o), PacketLen(o, t), s)
        BY <1>1, <1>2, <2>1 DEF BackwardFits
      <3> HIDE DEF r, s
      <3>2. IsSpoilt(o, "backward", 1, r.len, ae_enc(key, ae_unwrap(key, s).tag, r))
        BY <1>5, <3>1, SpoiltAnswer
      <3> QED
        BY <1>4, <2>1, <3>2 DEF BackwardFits
    <2>2. CASE "backward" \notin t.mauled
      <3>1. s = HonestSection(o, "forward", n_forward(o), Empty)
        BY <1>1, <1>2, <2>2 DEF BackwardFits, ReplyBytes
      <3> HIDE DEF r, s
      <3>2. ae_enc(key, ae_unwrap(key, s).tag, r) = HonestSection(o, "backward", 1, r)
        BY <3>1, HonestAnswer
      <3> QED
        BY <1>4, <2>2, <3>2 DEF BackwardFits
    <2> QED
      BY <2>1, <2>2
  <1>7. AnswerOnion(o, onion, r)
          = LegOnion(o, u.leg, u.hop, ae_enc(key, ae_unwrap(key, s).tag, r))
    BY DEF AnswerOnion
  <1>8. Fits(o, u, AnswerOnion(o, onion, r))
    <2> HIDE DEF key, s, r
    <2> QED
      BY <1>5, <1>6, <1>7, LegOnionFits
  <1> HIDE DEF key, s
  <1> QED
    BY <1>3, <1>8 DEF IsAnswerable

(* What the receiver makes of an onion that it can open.                   *)
LEMMA FitsReceived ==
  ASSUME NEW o, IsOrder(o), NEW t, NEW onion, Fits(o, t, onion), ~ IsUnsealed(t),
         t.leg = "forward", t.hop = Len(LegHops(o, t.leg)), NEW expected_tag
  PROVE  proc_onion(MaxPathLength, NeededKey(o, t), expected_tag, onion)
           = [ok |-> TRUE, role |-> "Receiver", payload |-> o.payload]
  <1> DEFINE s == onion.backward
             h == t.hop
             private == o.pki[LegHops(o, "forward")[h]]
             arrived == LegOnion(o, "forward", h, s)
  <1>1. onion = arrived /\ NeededKey(o, t) = private /\ h = Len(LegHops(o, "forward"))
    BY DEF Fits, NeededKey
  <1>2. Arrives(o, h, s, expected_tag, Empty)
    <2> HIDE DEF s, h
    <2> QED
      BY <1>1, LegArrives
  <1>3. proc_onion(MaxPathLength, private, expected_tag, arrived)
          = [ok |-> TRUE, role |-> "Receiver", payload |-> o.payload]
    BY <1>2 DEF Arrives
  <1> HIDE DEF private, arrived
  <1> QED
    BY <1>1, <1>3

(* What the sender makes of an onion that it can open.                     *)
AcceptedAs(o, t, expected_tag) ==
  IF identifier(o) \notin DOMAIN expected_tag THEN Err("UnexpectedReply")
  ELSE IF "backward" \in t.mauled THEN Err("AeError")
  ELSE [ok |-> TRUE, role |-> "Sender", payload |-> ReplyBytes(t)]

IsAcceptedAs(o, t, expected_tag, onion) ==
  proc_onion(MaxPathLength, NeededKey(o, t), expected_tag, onion)
    = AcceptedAs(o, t, expected_tag)

LEMMA FitsReturn ==
  ASSUME NEW o, IsOrder(o), NEW t, NEW onion, Fits(o, t, onion), ~ IsUnsealed(t),
         t.leg = "backward", t.hop = Len(LegHops(o, t.leg)), NEW expected_tag,
         identifier(o) \in DOMAIN expected_tag => expected_tag[identifier(o)] = awaited_tag(o)
  PROVE  IsAcceptedAs(o, t, expected_tag, onion)
  <1> DEFINE s == onion.backward
             n == n_backward(o)
             master == random_key(o.rng)
             lengths == [n_forward |-> n_forward(o), n_backward |-> n_backward(o)]
             result == proc_onion(MaxPathLength, NeededKey(o, t), expected_tag, onion)
             R == rewrapped_sections(master, n, s)
  <1>1. /\ onion = LegOnion(o, "backward", n, s) /\ BackwardFits(o, t, s)
        /\ IsOnLeg(o, t) /\ t.hop = n /\ n = Len(LegHops(o, "backward"))
    BY DEF Fits, LegHops, n_backward
  <1>2. onion.header = identifier(o)
    BY <1>1 DEF LegOnion, LegLayers, identifier
  <1>3. result = accept_reply(master, lengths, onion, expected_tag)
    <2>1. Returns(o, n, s, expected_tag)
      <3> HIDE DEF n, s
      <3> QED
        BY <1>1, LegReturns
    <2>2. NeededKey(o, t) = o.pki[LegHops(o, "backward")[n]]
      BY <1>1 DEF NeededKey
    <2> HIDE DEF n, s, master, lengths
    <2>3. proc_onion(MaxPathLength, o.pki[LegHops(o, "backward")[n]], expected_tag,
                     LegOnion(o, "backward", n, s))
            = accept_reply(master, lengths, LegOnion(o, "backward", n, s), expected_tag)
      BY <2>1, Zenon DEF Returns, master, lengths
    <2> QED
      BY <1>1, <2>2, <2>3
  <1>4. /\ forward_key(master, lengths.n_forward - 1) = ReplyKey(o)
        /\ lengths.n_backward = n
    <2>1. n_forward(o) \in 1 .. n_forward(o)
      BY OrderFacts
    <2> QED
      BY <2>1 DEF ReplyKey, keys_forward
  <1>5. CASE identifier(o) \notin DOMAIN expected_tag
    <2>1. accept_reply(master, lengths, onion, expected_tag) = Err("UnexpectedReply")
      BY <1>2, <1>5, Zenon DEF accept_reply
    <2> QED
      BY <1>3, <1>5, <2>1 DEF IsAcceptedAs, AcceptedAs
  <1>6. CASE identifier(o) \in DOMAIN expected_tag /\ "backward" \in t.mauled
    <2>1. IsSpoilt(o, "backward", n, PacketLen(o, t), s)
      BY <1>1, <1>6 DEF BackwardFits
    <2>2. ae_dec(ReplyKey(o), awaited_tag(o), R[0]) = Err("AeError")
      <3> HIDE DEF s
      <3> QED
        BY <2>1, SpoiltIsRefused
    <2>3. ~ Err("AeError").ok
      BY DEF Err
    <2>4. accept_reply(master, lengths, onion, expected_tag) = Err("AeError")
      <3>1. expected_tag[onion.header] = awaited_tag(o)
        BY <1>2, <1>6
      <3>2. onion.header \in DOMAIN expected_tag
        BY <1>2, <1>6
      <3> HIDE DEF lengths, n, master, s
      <3>3. rewrapped_sections(master, lengths.n_backward, onion.backward) = R
        BY <1>4 DEF s
      <3>4. ae_dec(forward_key(master, lengths.n_forward - 1), expected_tag[onion.header],
                   rewrapped_sections(master, lengths.n_backward, onion.backward)[0])
              = Err("AeError")
        <4> HIDE DEF R
        <4> QED
          BY <1>4, <2>2, <3>1, <3>3
      <3> QED
        BY <2>3, <3>2, <3>4, Zenon DEF accept_reply
    <2> QED
      BY <1>3, <1>6, <2>4 DEF IsAcceptedAs, AcceptedAs
  <1>7. CASE identifier(o) \in DOMAIN expected_tag /\ "backward" \notin t.mauled
    <2> DEFINE r == ReplyBytes(t)
    <2>1. s = sections_backward(o, r)[n - 1]
      BY <1>1, <1>7 DEF BackwardFits, HonestSection
    <2>2. onion = BackOnion(o, r, n)
      BY <1>1, <2>1 DEF BackOnion, LegOnion, LegLayers
    <2>3. NeededKey(o, t) = o.pki[o.hops_backward[n_backward(o)]] /\ IsBlob(r)
      BY <1>1 DEF NeededKey, LegHops, IsOnLeg
    <2>4. expected_tag[identifier(o)] = awaited_tag(o)
      BY <1>7
    <2> HIDE DEF r
    <2>5. proc_onion(MaxPathLength, o.pki[o.hops_backward[n_backward(o)]], expected_tag,
                     BackOnion(o, r, n_backward(o)))
            = [ok |-> TRUE, role |-> "Sender", payload |-> r]
      BY <1>7, <2>3, <2>4, SenderReadsReply
    <2> QED
      BY <1>7, <2>2, <2>3, <2>5 DEF IsAcceptedAs, AcceptedAs, r
  <1> QED
    BY <1>5, <1>6, <1>7

(* The block that the hop which has the onion of a leg is to find.         *)
LEMMA LegOnionIsBlock ==
  ASSUME NEW o, IsOrder(o), NEW leg \in Legs, NEW h \in 1 .. Len(LegHops(o, leg)), NEW s
  PROVE  /\ LegOnion(o, leg, h, s).header = LegLayers(o, leg)[h].headers
         /\ \E v, data : LegLayers(o, leg)[h].headers[1] = HeaderBlock(v, data)
  <1> DEFINE H == LegLayers(o, leg)[h].headers
             F == LegLayers(o, leg)[h].forward
             key == LegKeys(o, leg)[h]
             data == asymmetric_encrypt(o.pki[LegHops(o, leg)[h]],
                       [key |-> key, meta |-> PartOf(LegHops(o, leg), h, LegMeta(o, leg))])
             due == tag(derive_key(Mac, key), Sealed(data, Tail(H), F))
  <1>1. H[1] = HeaderBlock(due, data)
    BY LegIsSealed DEF IsSealed
  <1>2. \E v, d : H[1] = HeaderBlock(v, d)
    <2> HIDE DEF H, due, data
    <2> QED
      BY <1>1
  <1> QED
    BY <1>2 DEF LegOnion

LEMMA FitsIsBlock ==
  ASSUME NEW o, IsOrder(o), NEW t, NEW onion, Fits(o, t, onion), ~ IsUnsealed(t)
  PROVE  /\ onion.header = LegLayers(o, t.leg)[t.hop].headers
         /\ \E v, data : onion.header[1] = HeaderBlock(v, data)
  <1> DEFINE leg == t.leg
             h == t.hop
             s == onion.backward
  <1>1. onion = LegOnion(o, leg, h, s) /\ leg \in Legs /\ h \in 1 .. Len(LegHops(o, leg))
    BY DEF Fits, IsOnLeg
  <1>2. /\ LegOnion(o, leg, h, s).header = LegLayers(o, leg)[h].headers
        /\ \E v, data : LegLayers(o, leg)[h].headers[1] = HeaderBlock(v, data)
    <2> HIDE DEF leg, h, s
    <2> QED
      BY <1>1, LegOnionIsBlock
  <1> QED
    BY <1>1, <1>2

(* An altered onion fits what its packet says was altered.                 *)
LEMMA FitsReadable ==
  ASSUME NEW o, IsOrder(o), NEW t, NEW onion, Fits(o, t, onion)
  PROVE  IsReadable(onion)
  <1>1. CASE "framing" \in t.mauled
    BY <1>1 DEF Fits, IsUnreadable, IsIntact, IsReadable, IsPlain
  <1>2. CASE "framing" \notin t.mauled /\ "sealed" \in t.mauled
    BY <1>2 DEF Fits, IsForged, IsReadable
  <1>3. CASE ~ IsUnsealed(t)
    BY <1>3, FitsIsBlock DEF IsReadable
  <1> QED
    BY <1>1, <1>2, <1>3 DEF IsUnsealed

LEMMA StruckIsForged ==
  ASSUME NEW o, IsOrder(o), NEW t, NEW onion, Fits(o, t, onion), "framing" \notin t.mauled,
         NEW x, IsStruck(onion, x)
  PROVE  IsForged(o, t.leg, t.hop, x)
  <1>1. CASE \E u, data : /\ x.header[1] = HeaderBlock(u, data)
                          /\ data.kind = "mauled" \/ \E a \in u : a.kind = "mauled"
    BY <1>1 DEF IsForged
  <1>2. CASE /\ x.header[1] = onion.header[1]
             /\ \/ ~ IsIntact(x.forward)
                \/ \E c \in 2 .. MaxPathLength : ~ IsIntact(x.header[c])
    <2>1. CASE "sealed" \in t.mauled
      <3>1. IsForged(o, t.leg, t.hop, onion)
        BY <2>1 DEF Fits
      <3> QED
        BY <1>2, <3>1 DEF IsForged
    <2>2. CASE "sealed" \notin t.mauled
      <3>1. /\ onion.header = LegLayers(o, t.leg)[t.hop].headers
            /\ \E v, data : onion.header[1] = HeaderBlock(v, data)
        BY <2>2, FitsIsBlock DEF IsUnsealed
      <3>2. PICK v, data : onion.header[1] = HeaderBlock(v, data)
        BY <3>1
      <3>3. x.header[1] = LegLayers(o, t.leg)[t.hop].headers[1]
            /\ x.header[1] = HeaderBlock(v, data)
        BY <1>2, <3>1, <3>2
      <3> QED
        BY <1>2, <3>3, Zenon DEF IsForged
    <2> QED
      BY <2>1, <2>2
  <1> QED
    BY <1>1, <1>2 DEF IsStruck

(* The parts of Fits, for a packet that is where t was. *)
LEMMA StillFits ==
  ASSUME NEW o, NEW t, IsOnLeg(o, t),
         NEW u, u.leg = t.leg, u.hop = t.hop, u.reply = t.reply,
         NEW x, IsShaped(x, ForwardLen(o), PacketLen(o, t)),
         "framing" \in u.mauled => IsUnreadable(x),
         "framing" \notin u.mauled /\ "sealed" \in u.mauled => IsForged(o, t.leg, t.hop, x),
         ~ IsUnsealed(u) => /\ x = LegOnion(o, t.leg, t.hop, x.backward)
                            /\ BackwardFits(o, u, x.backward)
  PROVE  Fits(o, u, x)
  <1>1. ReplyBytes(u) = ReplyBytes(t)
    BY DEF ReplyBytes
  <1>2. IsOnLeg(o, u) /\ PacketLen(o, u) = PacketLen(o, t)
    BY <1>1 DEF IsOnLeg, PacketLen
  <1>3. IsShaped(x, ForwardLen(o), PacketLen(o, u))
    BY <1>2
  <1>4. "framing" \notin u.mauled /\ "sealed" \in u.mauled => IsForged(o, u.leg, u.hop, x)
    OBVIOUS
  <1>5. ~ IsUnsealed(u) => /\ x = LegOnion(o, u.leg, u.hop, x.backward)
                           /\ BackwardFits(o, u, x.backward)
    OBVIOUS
  <1> QED
    BY <1>2, <1>3, <1>4, <1>5, Zenon DEF Fits

LEMMA FitsAlter ==
  ASSUME NEW o, IsOrder(o), NEW t, NEW onion, Fits(o, t, onion),
         NEW altered \in Alterations(onion),
         NEW u, u.leg = t.leg, u.hop = t.hop, u.reply = t.reply,
         u.mauled = t.mauled \cup {altered.part}
  PROVE  Fits(o, u, altered.onion)
  <1> DEFINE x == altered.onion
             part == altered.part
  <1>1. IsShaped(onion, ForwardLen(o), PacketLen(o, t)) /\ IsOnLeg(o, t)
    BY DEF Fits
  <1>2. IsShaped(x, ForwardLen(o), PacketLen(o, t)) /\ IsAltered(onion, part, x)
    BY <1>1, FitsReadable, AlterationsKeepShape
  <1>3. u.mauled = t.mauled \cup {part}
    OBVIOUS
  <1> HIDE DEF x, part
  <1>4. ASSUME part = "framing" /\ IsUnreadable(x) PROVE Fits(o, u, x)
    <2>1. "framing" \in u.mauled /\ IsUnsealed(u)
      BY <1>3, <1>4 DEF IsUnsealed
    <2> QED
      BY <1>1, <1>2, <1>4, <2>1, StillFits
  <1>5. ASSUME part = "sealed" /\ IsStruck(onion, x) PROVE Fits(o, u, x)
    <2>1. IsUnsealed(u) /\ ("framing" \in u.mauled <=> "framing" \in t.mauled)
      BY <1>3, <1>5 DEF IsUnsealed
    <2>2. "framing" \in t.mauled => IsUnreadable(x)
      BY <1>5 DEF Fits, IsStruck, IsUnreadable
    <2>3. "framing" \notin t.mauled => IsForged(o, t.leg, t.hop, x)
      BY <1>5, StruckIsForged
    <2> QED
      BY <1>1, <1>2, <2>1, <2>2, <2>3, StillFits
  <1>6. ASSUME part = "backward" /\ IsBitten(onion, x) PROVE Fits(o, u, x)
    <2>1. x.header = onion.header /\ x.forward = onion.forward
      BY <1>6 DEF IsBitten
    <2>2. /\ "framing" \in u.mauled <=> "framing" \in t.mauled
          /\ "sealed" \in u.mauled <=> "sealed" \in t.mauled
          /\ "backward" \in u.mauled
      BY <1>3, <1>6
    <2>3. "framing" \in u.mauled => IsUnreadable(x)
      BY <2>1, <2>2 DEF Fits, IsUnreadable
    <2>4. "framing" \notin u.mauled /\ "sealed" \in u.mauled => IsForged(o, t.leg, t.hop, x)
      BY <2>1, <2>2 DEF Fits, IsForged
    <2>5. ASSUME ~ IsUnsealed(u)
          PROVE  /\ x = LegOnion(o, t.leg, t.hop, x.backward)
                 /\ BackwardFits(o, u, x.backward)
      <3>1. /\ onion = LegOnion(o, t.leg, t.hop, onion.backward)
            /\ BackwardFits(o, t, onion.backward)
        BY <2>2, <2>5 DEF Fits, IsUnsealed
      <3>2. /\ x.header = LegLayers(o, t.leg)[t.hop].headers
            /\ x.forward = LegLayers(o, t.leg)[t.hop].forward
        BY <2>1, <3>1 DEF LegOnion
      <3>3. x = [header |-> x.header, forward |-> x.forward, backward |-> x.backward]
        BY <1>2 DEF IsShaped
      <3>4. x = LegOnion(o, t.leg, t.hop, x.backward)
        BY <3>2, <3>3 DEF LegOnion
      <3>5. \/ onion.backward = HonestSection(o, t.leg, t.hop, ReplyBytes(t))
            \/ IsSpoilt(o, t.leg, t.hop, CarriedLen(o, t.leg, ReplyBytes(t)), onion.backward)
        BY <3>1 DEF BackwardFits, PacketLen
      <3>6. IsSpoilt(o, t.leg, t.hop, CarriedLen(o, t.leg, ReplyBytes(t)), x.backward)
        BY <1>1, <1>6, <3>5, BittenIsSpoilt DEF IsOnLeg
      <3>7. PacketLen(o, u) = CarriedLen(o, t.leg, ReplyBytes(t))
        BY DEF PacketLen, ReplyBytes
      <3>8. IsSpoilt(o, u.leg, u.hop, PacketLen(o, u), x.backward)
        BY <3>6, <3>7
      <3>9. BackwardFits(o, u, x.backward)
        BY <2>2, <3>8, Zenon DEF BackwardFits
      <3> QED
        BY <3>4, <3>9
    <2> QED
      BY <1>1, <1>2, <2>3, <2>4, <2>5, StillFits
  <1> QED
    BY <1>2, <1>4, <1>5, <1>6 DEF IsAltered, x

-----------------------------------------------------------------------------
(* G.  Forming onions, and telling them apart.                             *)

(* What form_onion refuses: the keys that pki lacks come last.             *)
FormErrorOf(store, hops_forward, hops_backward) ==
  IF Len(hops_forward) > MaxPathLength \/ Len(hops_backward) > MaxPathLength
  THEN "PathTooLong"
  ELSE IF Len(hops_forward) = 0 \/ Len(hops_backward) = 0 THEN "panic"
  ELSE IF \/ \E i \in 1 .. Len(hops_forward) : hops_forward[i] \notin DOMAIN store
          \/ \E i \in 1 .. Len(hops_backward) : hops_backward[i] \notin DOMAIN store
  THEN "KeyNotFound"
  ELSE "none"

LEMMA OnionizeNeedsKeys ==
  ASSUME NEW rng, NEW store, NEW keys, NEW n, Len(keys) = n, ~ (n > MaxPathLength), NEW hops,
         NEW meta, NEW payload, NEW len
  PROVE  /\ (\E i \in 1 .. n : hops[i] \notin DOMAIN store) =>
              onionize(rng, store, keys, hops, meta, payload, len) = Err("KeyNotFound")
         /\ ~ (\E i \in 1 .. n : hops[i] \notin DOMAIN store) =>
              onionize(rng, store, keys, hops, meta, payload, len).ok
  <1>1. ASSUME \E i \in 1 .. n : hops[i] \notin DOMAIN store
        PROVE  onionize(rng, store, keys, hops, meta, payload, len) = Err("KeyNotFound")
    BY <1>1, Zenon DEF onionize
  <1>2. ASSUME ~ \E i \in 1 .. n : hops[i] \notin DOMAIN store
        PROVE  onionize(rng, store, keys, hops, meta, payload, len).ok
    <2>1. \E x, y, z : onionize(rng, store, keys, hops, meta, payload, len)
                         = [ok |-> TRUE, onion_1 |-> x, onion_n |-> y, expected_tag |-> z]
      BY <1>2, ZenonT(30) DEF onionize
    <2> QED
      BY <2>1
  <1> QED
    BY <1>1, <1>2

LEMMA FormFailsWith ==
  ASSUME NEW rng, NEW store, NEW hops_forward, Len(hops_forward) \in Nat,
         NEW hops_backward, Len(hops_backward) \in Nat, NEW payload,
         FormErrorOf(store, hops_forward, hops_backward) # "none"
  PROVE  form_onion(rng, store, hops_forward, hops_backward, payload)
           = Err(FormErrorOf(store, hops_forward, hops_backward))
  <1> DEFINE n_f == Len(hops_forward)
             n_b == Len(hops_backward)
             master == random_key(rng)
             keys_f == [i \in 1 .. n_f |-> forward_key(master, i - 1)]
             keys_b == [i \in 1 .. n_b |->
                          IF i = n_b THEN master ELSE backward_key(master, i - 1)]
             fill == prng(derive_key(PrngRole, keys_f[n_f]),
                          total_header_length + 8 + payload.len)
             back == onionize([rng |-> rng, leg |-> "backward"], store, keys_b, hops_backward,
                              SenderMeta(n_f, n_b),
                              [dir |-> "backward", data |-> fill], 0)
             forth == onionize([rng |-> rng, leg |-> "forward"], store, keys_f, hops_forward,
                               ReceiverMeta(hops_backward[1]),
                               [dir |-> "forward",
                                data |-> PackMessage(back.onion_1.header, payload)],
                               payload.len)
             result == form_onion(rng, store, hops_forward, hops_backward, payload)
  <1>1. CASE n_f > MaxPathLength \/ n_b > MaxPathLength
    <2>1. result = Err("PathTooLong")
      BY <1>1, Zenon DEF form_onion
    <2> QED
      BY <1>1, <2>1 DEF FormErrorOf
  <1>2. CASE ~ (n_f > MaxPathLength \/ n_b > MaxPathLength) /\ (n_f = 0 \/ n_b = 0)
    <2>1. result = Err("panic")
      BY <1>2, Zenon DEF form_onion
    <2> QED
      BY <1>2, <2>1 DEF FormErrorOf
  <1>3. CASE ~ (n_f > MaxPathLength \/ n_b > MaxPathLength) /\ ~ (n_f = 0 \/ n_b = 0)
    <2>1. Len(keys_f) = n_f /\ Len(keys_b) = n_b
      <3> DEFINE S == {keys_f[i] : i \in 1 .. n_f}
                 B == {keys_b[i] : i \in 1 .. n_b}
      <3>1. keys_f \in [1 .. n_f -> S] /\ keys_b \in [1 .. n_b -> B]
        OBVIOUS
      <3> HIDE DEF keys_f, keys_b, S, B
      <3> QED
        BY <3>1, FunctionIsSeq
    <2>2. /\ (\E i \in 1 .. n_b : hops_backward[i] \notin DOMAIN store) =>
                back = Err("KeyNotFound")
          /\ ~ (\E i \in 1 .. n_b : hops_backward[i] \notin DOMAIN store) => back.ok
      <3> DEFINE cell_rng == [rng |-> rng, leg |-> "backward"]
                 meta == SenderMeta(n_f, n_b)
                 data == [dir |-> "backward", data |-> fill]
      <3> HIDE DEF keys_b, n_b, cell_rng, meta, data
      <3>1. /\ (\E i \in 1 .. n_b : hops_backward[i] \notin DOMAIN store) =>
                  onionize(cell_rng, store, keys_b, hops_backward, meta, data, 0)
                    = Err("KeyNotFound")
            /\ ~ (\E i \in 1 .. n_b : hops_backward[i] \notin DOMAIN store) =>
                  onionize(cell_rng, store, keys_b, hops_backward, meta, data, 0).ok
        BY <1>3, <2>1, OnionizeNeedsKeys
      <3> QED
        BY <3>1 DEF cell_rng, meta, data, n_b
    <2>3. /\ (\E i \in 1 .. n_f : hops_forward[i] \notin DOMAIN store) =>
                forth = Err("KeyNotFound")
      <3> DEFINE cell_rng == [rng |-> rng, leg |-> "forward"]
                 meta == ReceiverMeta(hops_backward[1])
                 data == [dir |-> "forward",
                          data |-> PackMessage(back.onion_1.header, payload)]
                 len == payload.len
      <3> HIDE DEF keys_f, n_f, cell_rng, meta, data, len
      <3>1. /\ (\E i \in 1 .. n_f : hops_forward[i] \notin DOMAIN store) =>
                  onionize(cell_rng, store, keys_f, hops_forward, meta, data, len)
                    = Err("KeyNotFound")
        BY <1>3, <2>1, OnionizeNeedsKeys
      <3> QED
        BY <3>1 DEF cell_rng, meta, data, len, n_f
    <2>4. \/ \E i \in 1 .. n_f : hops_forward[i] \notin DOMAIN store
          \/ \E i \in 1 .. n_b : hops_backward[i] \notin DOMAIN store
      BY <1>3 DEF FormErrorOf
    <2>5. result = IF ~ back.ok THEN back ELSE IF ~ forth.ok THEN forth
                   ELSE [ok |-> TRUE, onion |-> forth.onion_1,
                         expected |-> [identifier |-> back.onion_n.header,
                                       onion |-> forth.onion_n, tag |-> forth.expected_tag]]
      BY <1>3, Zenon DEF form_onion
    <2> HIDE DEF back, forth, result
    <2>6. ~ Err("KeyNotFound").ok
      BY DEF Err
    <2>7. result = Err("KeyNotFound")
      BY <2>2, <2>3, <2>4, <2>5, <2>6, Zenon
    <2>8. FormErrorOf(store, hops_forward, hops_backward) = "KeyNotFound"
      BY <1>3, <2>4 DEF FormErrorOf
    <2> QED
      BY <2>7, <2>8 DEF result
  <1> QED
    BY <1>1, <1>2, <1>3

(* A reply's header names the call of form_onion that made it: its block   *)
(* holds the key that was drawn for it.                                    *)
LEMMA IdentifierTells ==
  ASSUME NEW o, IsOrder(o), NEW q, IsOrder(q), identifier(o) = identifier(q)
  PROVE  o.rng = q.rng
  <1> DEFINE n(p) == n_backward(p)
             key(p) == LegKeys(p, "backward")[n(p)]
             msg(p) == [key |-> key(p),
                        meta |-> PartOf(LegHops(p, "backward"), n(p), LegMeta(p, "backward"))]
             data(p) == asymmetric_encrypt(p.pki[LegHops(p, "backward")[n(p)]], msg(p))
             H(p) == LegLayers(p, "backward")[n(p)].headers
             F(p) == LegLayers(p, "backward")[n(p)].forward
             due(p) == tag(derive_key(Mac, key(p)), Sealed(data(p), Tail(H(p)), F(p)))
  <1>1. ASSUME NEW p, IsOrder(p)
        PROVE  /\ identifier(p)[1] = HeaderBlock(due(p), data(p))
               /\ key(p) = random_key(p.rng)
    <2>1. /\ "backward" \in Legs /\ n(p) \in 1 .. Len(LegHops(p, "backward"))
          /\ n(p) \in Nat \ {0}
      BY <1>1, OrderFacts DEF Legs, LegHops, n_backward
    <2>2. identifier(p) = H(p)
      BY DEF identifier, LegLayers
    <2>3. H(p)[1] = HeaderBlock(due(p), data(p))
      BY <1>1, <2>1, LegIsSealed DEF IsSealed
    <2>4. key(p) = random_key(p.rng)
      BY <2>1 DEF LegKeys, keys_backward
    <2> QED
      BY <2>2, <2>3, <2>4
  <1> HIDE DEF due
  <1>2. data(o) = data(q)
    <2> HIDE DEF data
    <2>1. HeaderBlock(due(o), data(o)).base.cipher = data(o)
          /\ HeaderBlock(due(q), data(q)).base.cipher = data(q)
      BY BlockFields
    <2>2. HeaderBlock(due(o), data(o)) = HeaderBlock(due(q), data(q))
      BY <1>1
    <2> QED
      BY <2>1, <2>2
  <1>3. msg(o) = msg(q)
    <2> HIDE DEF msg
    <2>1. data(o).msg = msg(o) /\ data(q).msg = msg(q)
      BY DEF asymmetric_encrypt
    <2> QED
      BY <1>2, <2>1
  <1>4. key(o) = key(q)
    <2> HIDE DEF key
    <2>1. msg(o).key = key(o) /\ msg(q).key = key(q)
      OBVIOUS
    <2> QED
      BY <1>3, <2>1
  <1>5. random_key(o.rng) = random_key(q.rng)
    <2>1. key(o) = random_key(o.rng)
      BY <1>1
    <2>2. key(q) = random_key(q.rng)
      BY <1>1
    <2> QED
      BY <1>4, <2>1, <2>2
  <1>6. random_key(o.rng).seed = o.rng /\ random_key(q.rng).seed = q.rng
    BY DEF random_key
  <1> QED
    BY <1>5, <1>6

-----------------------------------------------------------------------------
(* H.  The states of the network.  The predicates take the variables they  *)
(* are about as arguments, so that they read the same before and after a   *)
(* step.                                                                   *)

(* What form_onion was called with: s stands for the randomness that the   *)
(* call drew, and f records the rest.                                      *)
Recipe(s, f) ==
  [rng |-> s, pki |-> StoreOf(f.keys), hops_forward |-> f.order.forward,
   hops_backward |-> f.order.backward, payload |-> Plain(f.order.payload)]

RecipeOf(calls, t) == Recipe(t.session, calls[t.session])

Response(o) ==
  [identifier |-> identifier(o), onion |-> ForthOnion(o, n_forward(o)),
   tag |-> awaited_tag(o)]

LEMMA PlainIsBlob ==
  ASSUME NEW p \in Payloads
  PROVE  IsBlob(Plain(p)) /\ Plain(p).len = p.len /\ IsIntact(Plain(p))
  <1>1. p.len \in Nat
    BY PayloadAssumption
  <1>2. CASE p.len = 0
    <2> DEFINE base == [kind |-> "empty"]
    <2>1. base.kind # "mauled" /\ Plain(p) = Bytes(base, 0)
      BY <1>2 DEF Plain, Empty
    <2> HIDE DEF base
    <2>2. IsBlob(Bytes(base, 0)) /\ Bytes(base, 0).len = 0 /\ Bytes(base, 0).base = base
      BY BytesIsBlob
    <2> QED
      BY <1>2, <2>1, <2>2 DEF IsIntact
  <1>3. CASE p.len # 0
    <2> DEFINE base == [kind |-> "plain", text |-> p.text]
               len == p.len
    <2>1. base.kind # "mauled" /\ Plain(p) = Bytes(base, len) /\ len \in Nat
      BY <1>1, <1>3 DEF Plain
    <2> HIDE DEF base, len
    <2>2. IsBlob(Bytes(base, len)) /\ Bytes(base, len).len = len
          /\ Bytes(base, len).base = base
      BY <2>1, BytesIsBlob
    <2> QED
      BY <2>1, <2>2 DEF IsIntact, len
  <1> QED
    BY <1>2, <1>3

LEMMA EmptyIsIntact ==
  IsBlob(Empty) /\ Empty.len = 0 /\ IsIntact(Empty)
  <1> DEFINE base == [kind |-> "empty"]
  <1>1. base.kind # "mauled" /\ Empty = Bytes(base, 0)
    BY DEF Empty
  <1> HIDE DEF base
  <1>2. IsBlob(Bytes(base, 0)) /\ Bytes(base, 0).len = 0 /\ Bytes(base, 0).base = base
    BY BytesIsBlob
  <1> QED
    BY <1>1, <1>2 DEF IsIntact

(* A call that is not refused is an order as OnionFormat knows them.       *)
LEMMA RecipeIsOrder ==
  ASSUME NEW s, NEW o \in Orders, NEW keys, NEW f, f.order = o, f.keys = keys,
         FormErrorOf(StoreOf(keys), o.forward, o.backward) = "none"
  PROVE  IsOrder(Recipe(s, f))
  <1> DEFINE q == Recipe(s, f)
  <1>1. /\ q.hops_forward = o.forward /\ q.hops_backward = o.backward
        /\ q.pki = StoreOf(keys) /\ q.payload = Plain(o.payload)
    BY DEF Recipe
  <1>2. o.forward \in Seq(Nodes) /\ o.backward \in Seq(Nodes) /\ o.payload \in Payloads
    BY OrderAssumption DEF Payloads
  <1>3. Len(o.forward) \in 1 .. MaxPathLength /\ Len(o.backward) \in 1 .. MaxPathLength
    <2>1. /\ ~ (Len(o.forward) > MaxPathLength \/ Len(o.backward) > MaxPathLength)
          /\ ~ (Len(o.forward) = 0 \/ Len(o.backward) = 0)
      BY DEF FormErrorOf
    <2>2. Len(o.forward) \in Nat /\ Len(o.backward) \in Nat
      BY <1>2
    <2> QED
      BY <2>1, <2>2, MaxPathLengthAssumption
  <1>4. /\ \A i \in 1 .. Len(o.forward) : o.forward[i] \in DOMAIN StoreOf(keys)
        /\ \A i \in 1 .. Len(o.backward) : o.backward[i] \in DOMAIN StoreOf(keys)
    BY DEF FormErrorOf
  <1>5. IsBlob(q.payload)
    BY <1>1, <1>2, PlainIsBlob
  <1> HIDE DEF q
  <1>6. IsOrder(q)
    BY <1>1, <1>3, <1>4, <1>5 DEF IsOrder
  <1> QED
    BY <1>6 DEF q

(* The onion of packet t, on its way to n, or at n.                        *)
IsTracked(calls, t, n, onion) ==
  /\ t \in Relays!Packet
  /\ calls[t.session].state = "formed"
  /\ n = LegHops(RecipeOf(calls, t), t.leg)[t.hop]
  /\ t.leg = "backward" => t.reply \in Replies
  /\ Fits(RecipeOf(calls, t), t, onion)

IsSent(calls, item) ==
  /\ item = [to |-> item.to, onion |-> item.onion, packet |-> item.packet]
  /\ IsTracked(calls, item.packet, item.to, item.onion)

IsKept(calls, item) ==
  /\ item = [at |-> item.at, onion |-> item.onion, packet |-> item.packet]
  /\ IsTracked(calls, item.packet, item.at, item.onion)
  /\ ~ IsUnsealed(item.packet) /\ item.packet.leg = "forward"
  /\ item.packet.hop = Len(LegHops(RecipeOf(calls, item.packet), "forward"))

IsExpected(calls, n, e) ==
  /\ e.session \in Sessions /\ calls[e.session].state = "formed"
  /\ n = calls[e.session].order.sender
  /\ e = [session |-> e.session, response |-> Response(Recipe(e.session, calls[e.session]))]

AreCalls(calls) ==
  /\ calls \in [Sessions -> Relays!FormState]
  /\ \A s \in Sessions : calls[s].state = "formed" => IsOrder(Recipe(s, calls[s]))

AreExpected(calls, entries) ==
  /\ entries = [n \in Nodes |-> entries[n]]
  /\ \A n \in Nodes : \A e \in entries[n] : IsExpected(calls, n, e)

(* What holds of every state; TypeOK, UniformSize and ArrivesAsPredicted   *)
(* follow from it.  They are not inductive: what a hop makes of an onion   *)
(* depends on every byte of it, not on its lengths.                        *)
NetInv ==
  /\ sk \in [Nodes -> Nat] /\ pki \in [Nodes -> [Nodes -> Nat]]
  /\ spent \in [FaultKinds -> Nat]
  /\ AreCalls(formed)
  /\ AreExpected(formed, expected)
  /\ \A item \in wire : IsSent(formed, item)
  /\ \A item \in kept : IsKept(formed, item)
  /\ \A d \in received \cup answered : d.at \in Nodes /\ IsByteString(d.payload)
  /\ \A f \in failures : f.at \in Nodes

(* Calls that were made stay as they were made. *)
Extends(later, calls) ==
  /\ AreCalls(calls) /\ AreCalls(later)
  /\ \A s \in Sessions : calls[s].state = "formed" => later[s] = calls[s]

LEMMA TrackedStays ==
  ASSUME NEW calls, NEW later, Extends(later, calls), NEW t, NEW n, NEW onion,
         IsTracked(calls, t, n, onion)
  PROVE  IsTracked(later, t, n, onion)
  <1>1. t.session \in Sessions /\ later[t.session] = calls[t.session]
    BY DEF IsTracked, Extends, Relays!Packet
  <1>2. RecipeOf(later, t) = RecipeOf(calls, t)
    BY <1>1 DEF RecipeOf
  <1> QED
    BY <1>1, <1>2 DEF IsTracked

LEMMA SentStays ==
  ASSUME NEW calls, NEW later, Extends(later, calls), NEW item, IsSent(calls, item)
  PROVE  IsSent(later, item)
  BY TrackedStays DEF IsSent

LEMMA KeptStays ==
  ASSUME NEW calls, NEW later, Extends(later, calls), NEW item, IsKept(calls, item)
  PROVE  IsKept(later, item)
  <1>1. IsTracked(later, item.packet, item.at, item.onion)
    BY TrackedStays DEF IsKept
  <1>2. RecipeOf(later, item.packet) = RecipeOf(calls, item.packet)
    BY DEF IsKept, IsTracked, Extends, Relays!Packet, RecipeOf
  <1> QED
    BY <1>1, <1>2 DEF IsKept

LEMMA ExpectedStays ==
  ASSUME NEW calls, NEW later, Extends(later, calls), NEW n, NEW e, IsExpected(calls, n, e)
  PROVE  IsExpected(later, n, e)
  BY DEF IsExpected, Extends

(* An onion is where its packet says, and its recipe is an order.          *)
LEMMA TrackedFacts ==
  ASSUME NEW calls, AreCalls(calls), NEW t, NEW n, NEW onion, IsTracked(calls, t, n, onion)
  PROVE  /\ IsOrder(RecipeOf(calls, t)) /\ t.session \in Sessions
         /\ t.leg \in Legs /\ t.hop \in Nat \ {0}
         /\ t.hop \in 1 .. Len(LegHops(RecipeOf(calls, t), t.leg))
         /\ calls[t.session].order \in Orders /\ calls[t.session].keys \in [Nodes -> Nat]
         /\ n \in Nodes
         /\ NeededKey(RecipeOf(calls, t), t) = KeyPair(n, calls[t.session].keys[n])
  <1> DEFINE f == calls[t.session]
             o == RecipeOf(calls, t)
  <1>1. t.session \in Sessions /\ t.leg \in Legs /\ t.hop \in Nat \ {0}
    BY DEF IsTracked, Relays!Packet, Legs
  <1>2. f \in Relays!FormState /\ f.state = "formed"
    BY <1>1 DEF AreCalls, IsTracked
  <1>3. f.order \in Orders /\ f.keys \in [Nodes -> Nat]
    BY <1>2 DEF Relays!FormState
  <1>4. IsOrder(o)
    BY <1>1, <1>2 DEF AreCalls, RecipeOf
  <1>5. t.hop \in 1 .. Len(LegHops(o, t.leg)) /\ n = LegHops(o, t.leg)[t.hop]
    BY DEF IsTracked, Fits, IsOnLeg
  <1>6. o.hops_forward = f.order.forward /\ o.hops_backward = f.order.backward
        /\ o.pki = StoreOf(f.keys)
    BY DEF RecipeOf, Recipe
  <1>7. n \in Nodes /\ n \in DOMAIN o.pki
    <2>1. LegHops(o, t.leg) \in Seq(Nodes)
      BY <1>3, <1>6, OrderAssumption DEF LegHops
    <2>2. LegHops(o, t.leg)[t.hop] \in DOMAIN o.pki
      BY <1>4, <1>5 DEF LegHops, IsOrder
    <2> QED
      BY <1>5, <2>1, <2>2
  <1>8. o.pki[n] = KeyPair(n, f.keys[n])
    BY <1>6, <1>7 DEF StoreOf
  <1>9. NeededKey(o, t) = KeyPair(n, f.keys[n])
    BY <1>5, <1>8 DEF NeededKey
  <1> QED
    BY <1>1, <1>3, <1>4, <1>5, <1>7, <1>9

-----------------------------------------------------------------------------
(* I.  What the nodes make of the onions that reach them.                  *)

(* Looking up the header of a reply finds what the sender keeps for the    *)
(* call that made it.                                                      *)
IsLookup(calls, entries, E) ==
  \A s \in Sessions : calls[s].state = "formed" =>
    /\ identifier(Recipe(s, calls[s])) \in DOMAIN E <=> \E e \in entries : e.session = s
    /\ identifier(Recipe(s, calls[s])) \in DOMAIN E =>
         E[identifier(Recipe(s, calls[s]))] = awaited_tag(Recipe(s, calls[s]))

LEMMA LookupTells ==
  ASSUME NEW calls, AreCalls(calls), NEW n, NEW entries,
         \A e \in entries : IsExpected(calls, n, e), NEW E,
         E = [h \in {e.response.identifier : e \in entries} |->
                (CHOOSE e \in entries : e.response.identifier = h).response.tag]
  PROVE  IsLookup(calls, entries, E)
  <1> SUFFICES ASSUME NEW s \in Sessions, calls[s].state = "formed"
               PROVE  LET o == Recipe(s, calls[s])
                      IN  /\ identifier(o) \in DOMAIN E <=> \E e \in entries : e.session = s
                          /\ identifier(o) \in DOMAIN E => E[identifier(o)] = awaited_tag(o)
    BY DEF IsLookup
  <1> DEFINE o == Recipe(s, calls[s])
             id == identifier(o)
  <1>1. IsOrder(o) /\ o.rng = s
    BY DEF AreCalls, Recipe
  <1>2. ASSUME NEW e \in entries
        PROVE  /\ e.response.identifier = id <=> e.session = s
               /\ e.session = s => e.response.tag = awaited_tag(o)
    <2> DEFINE q == Recipe(e.session, calls[e.session])
    <2>1. e.session \in Sessions /\ calls[e.session].state = "formed"
          /\ e.response = Response(q)
      BY <1>2 DEF IsExpected
    <2>2. IsOrder(q) /\ q.rng = e.session
      BY <2>1 DEF AreCalls, Recipe
    <2>3. e.response.identifier = identifier(q) /\ e.response.tag = awaited_tag(q)
      <3> HIDE DEF q
      <3> QED
        BY <2>1 DEF Response
    <2>4. identifier(q) = identifier(o) => e.session = s
      <3> HIDE DEF q, o
      <3> QED
        BY <1>1, <2>2, IdentifierTells
    <2> QED
      BY <2>3, <2>4
  <1> HIDE DEF o
  <1>3. DOMAIN E = {e.response.identifier : e \in entries}
    OBVIOUS
  <1>4. id \in DOMAIN E <=> \E e \in entries : e.session = s
    BY <1>2, <1>3
  <1>5. ASSUME id \in DOMAIN E PROVE E[id] = awaited_tag(o)
    <2> DEFINE d == CHOOSE e \in entries : e.response.identifier = id
    <2>1. d \in entries /\ d.response.identifier = id
      BY <1>3, <1>5
    <2>2. E[id] = d.response.tag
      BY <1>3, <1>5
    <2> HIDE DEF d
    <2> QED
      BY <1>2, <2>1, <2>2
  <1> QED
    BY <1>4, <1>5 DEF o

LEMMA ProcessedBy ==
  ASSUME AreCalls(formed), AreExpected(formed, expected), NEW item, item.to \in Nodes
  PROVE  \E E : /\ Processed(item)
                     = proc_onion(MaxPathLength, private_key(item.to), E, item.onion)
                /\ IsLookup(formed, expected[item.to], E)
  <1> DEFINE n == item.to
  <1>1. \A e \in expected[n] : IsExpected(formed, n, e)
    BY DEF AreExpected
  <1>2. CASE expected[n] = {}
    <2> DEFINE E == [h \in {} |-> ZeroTag]
    <2>1. Processed(item) = proc_onion(MaxPathLength, private_key(n), E, item.onion)
      BY <1>2, Zenon DEF Processed, proc_onion_without_reply
    <2>2. DOMAIN E = {}
      OBVIOUS
    <2> HIDE DEF E
    <2>3. IsLookup(formed, expected[n], E)
      BY <1>2, <2>2 DEF IsLookup
    <2> QED
      BY <2>1, <2>3
  <1>3. CASE expected[n] # {}
    <2>1. Processed(item)
            = proc_onion(MaxPathLength, private_key(n), Remembered(n), item.onion)
      BY <1>3, Zenon DEF Processed
    <2>2. Remembered(n) = [h \in {e.response.identifier : e \in expected[n]} |->
            (CHOOSE e \in expected[n] : e.response.identifier = h).response.tag]
      BY DEF Remembered
    <2>3. IsLookup(formed, expected[n], Remembered(n))
      <3> DEFINE entries == expected[n]
                 E == Remembered(n)
      <3>1. /\ \A e \in entries : IsExpected(formed, n, e)
            /\ E = [h \in {e.response.identifier : e \in entries} |->
                      (CHOOSE e \in entries : e.response.identifier = h).response.tag]
        BY <1>1, <2>2
      <3>2. IsLookup(formed, entries, E)
        <4> HIDE DEF entries, E, n
        <4> QED
          BY <3>1, LookupTells
      <3> QED
        BY <3>2
    <2> QED
      BY <2>1, <2>3
  <1> QED
    BY <1>2, <1>3

(* Where a packet is and whether its node can open it, in both modules'    *)
(* words.                                                                  *)
LEMMA RelaysAgree ==
  ASSUME AreCalls(formed), NEW t, NEW n, NEW onion, IsTracked(formed, t, n, onion)
  PROVE  /\ Relays!Path(t) = LegHops(RecipeOf(formed, t), t.leg)
         /\ Relays!At(t) = n
         /\ Relays!AtEnd(t) <=> t.hop = Len(LegHops(RecipeOf(formed, t), t.leg))
         /\ Relays!Fresh(t) <=> private_key(n) = NeededKey(RecipeOf(formed, t), t)
         /\ Relays!Opens(t) <=> /\ private_key(n) = NeededKey(RecipeOf(formed, t), t)
                                /\ ~ IsUnsealed(t)
  <1> DEFINE o == RecipeOf(formed, t)
  <1>1. Relays!Path(t) = LegHops(o, t.leg)
    BY DEF Relays!Path, Relays!Order, LegHops, RecipeOf, Recipe
  <1>2. Relays!At(t) = n
    BY <1>1 DEF Relays!At, IsTracked
  <1>3. Relays!AtEnd(t) <=> t.hop = Len(LegHops(o, t.leg))
    BY <1>1 DEF Relays!AtEnd
  <1>4. Relays!Fresh(t) <=> private_key(n) = NeededKey(o, t)
    <2>1. NeededKey(o, t) = KeyPair(n, formed[t.session].keys[n])
      BY TrackedFacts
    <2>2. private_key(n) = KeyPair(n, sk[n])
      BY DEF private_key
    <2>3. Relays!Fresh(t) <=> formed[t.session].keys[n] = sk[n]
      BY <1>2 DEF Relays!Fresh
    <2> QED
      BY <2>1, <2>2, <2>3 DEF KeyPair
  <1>5. Relays!Opens(t) <=> private_key(n) = NeededKey(o, t) /\ ~ IsUnsealed(t)
    BY <1>4 DEF Relays!Opens, Relays!Altered, IsUnsealed
  <1> QED
    BY <1>1, <1>2, <1>3, <1>4, <1>5

(* What proc_onion makes of the onion of packet t. *)
Outcome(o, t, onion) ==
  IF Relays!ProcError(t) # "none" THEN Err(Relays!ProcError(t))
  ELSE IF ~ Relays!AtEnd(t)
  THEN PassedOn(LegHops(o, t.leg)[t.hop + 1], NextOnion(o, t, onion))
  ELSE IF t.leg = "forward" THEN [ok |-> TRUE, role |-> "Receiver", payload |-> o.payload]
  ELSE [ok |-> TRUE, role |-> "Sender", payload |-> ReplyBytes(t)]

LEMMA ProcessedAs ==
  ASSUME AreCalls(formed), AreExpected(formed, expected), NEW item, IsSent(formed, item)
  PROVE  Processed(item) = Outcome(RecipeOf(formed, item.packet), item.packet, item.onion)
  <1> DEFINE t == item.packet
             n == item.to
             onion == item.onion
             o == RecipeOf(formed, t)
             private == private_key(n)
  <1>1. IsTracked(formed, t, n, onion)
    BY DEF IsSent
  <1>2. /\ IsOrder(o) /\ t.session \in Sessions /\ t.leg \in Legs /\ n \in Nodes
        /\ t.hop \in 1 .. Len(LegHops(o, t.leg)) /\ Fits(o, t, onion)
    BY <1>1, TrackedFacts DEF IsTracked
  <1>3. PICK E : /\ Processed(item) = proc_onion(MaxPathLength, private, E, onion)
                 /\ IsLookup(formed, expected[n], E)
    BY <1>2, ProcessedBy
  <1>4. /\ Relays!At(t) = n
        /\ Relays!AtEnd(t) <=> t.hop = Len(LegHops(o, t.leg))
        /\ Relays!Opens(t) <=> private = NeededKey(o, t) /\ ~ IsUnsealed(t)
    BY <1>1, RelaysAgree
  <1>5. (\E e \in expected[n] : e.session = t.session)
          <=> t.session \in {e.session : e \in expected[n]}
    OBVIOUS
  <1>6. /\ identifier(o) \in DOMAIN E <=> \E e \in expected[n] : e.session = t.session
        /\ identifier(o) \in DOMAIN E => E[identifier(o)] = awaited_tag(o)
    <2>1. formed[t.session].state = "formed"
      BY <1>1 DEF IsTracked
    <2> QED
      BY <1>2, <1>3, <2>1 DEF IsLookup, RecipeOf
  <1>7. Relays!ProcError(t)
          = IF "framing" \in t.mauled THEN "SerializationError"
            ELSE IF ~ Relays!Opens(t) THEN "MacMismatch"
            ELSE IF ~ Relays!AtEnd(t) \/ t.leg = "forward" THEN "none"
            ELSE IF identifier(o) \notin DOMAIN E THEN "UnexpectedReply"
            ELSE IF "backward" \in t.mauled THEN "AeError"
            ELSE "none"
    <2>1. t.session \notin [m \in Nodes |-> {e.session : e \in expected[m]}][Relays!At(t)]
            <=> identifier(o) \notin DOMAIN E
      BY <1>2, <1>4, <1>5, <1>6
    <2> QED
      BY <2>1 DEF Relays!ProcError
  <1> HIDE DEF t, n, onion, o, private
  <1>8. CASE ~ Relays!Opens(t)
    <2> DEFINE e == IF "framing" \in t.mauled THEN "SerializationError" ELSE "MacMismatch"
    <2>1. unwrap(MaxPathLength, private, onion) = Err(e)
      BY <1>2, <1>4, <1>8, AlteredIsRefused
    <2>2. proc_onion(MaxPathLength, private, E, onion) = Err(e)
      <3>1. ~ Err(e).ok
        BY DEF Err
      <3> QED
        BY <2>1, <3>1, Zenon DEF proc_onion
    <2>3. Relays!ProcError(t) = e /\ e # "none"
      BY <1>7, <1>8
    <2> HIDE DEF e
    <2> QED
      BY <1>3, <2>2, <2>3 DEF Outcome, t, o, onion
  <1>9. CASE Relays!Opens(t)
    <2>1. private = NeededKey(o, t) /\ ~ IsUnsealed(t) /\ "framing" \notin t.mauled
      BY <1>4, <1>9 DEF IsUnsealed
    <2>2. CASE ~ Relays!AtEnd(t)
      <3> DEFINE u == [t EXCEPT !.hop = t.hop + 1]
      <3>1. u.leg = t.leg /\ u.hop = t.hop + 1 /\ u.reply = t.reply /\ u.mauled = t.mauled
        BY <1>1 DEF IsTracked, Relays!Packet
      <3> HIDE DEF u
      <3>2. proc_onion(MaxPathLength, NeededKey(o, t), E, onion)
              = PassedOn(LegHops(o, t.leg)[u.hop], NextOnion(o, t, onion))
        BY <1>2, <1>4, <2>1, <2>2, <3>1, FitsPass
      <3>3. Relays!ProcError(t) = "none"
        BY <1>7, <1>9, <2>1, <2>2
      <3> QED
        BY <1>3, <2>1, <2>2, <3>1, <3>2, <3>3 DEF Outcome, t, o, onion
    <2>3. CASE Relays!AtEnd(t) /\ t.leg = "forward"
      <3>1. proc_onion(MaxPathLength, NeededKey(o, t), E, onion)
              = [ok |-> TRUE, role |-> "Receiver", payload |-> o.payload]
        BY <1>2, <1>4, <2>1, <2>3, FitsReceived
      <3>2. Relays!ProcError(t) = "none"
        BY <1>7, <1>9, <2>1, <2>3
      <3> QED
        BY <1>3, <2>1, <2>3, <3>1, <3>2 DEF Outcome, t, o, onion
    <2>4. CASE Relays!AtEnd(t) /\ t.leg = "backward"
      <3>1. IsAcceptedAs(o, t, E, onion)
        BY <1>2, <1>4, <1>6, <2>1, <2>4, FitsReturn
      <3>2. proc_onion(MaxPathLength, private, E, onion) = AcceptedAs(o, t, E)
        BY <2>1, <3>1 DEF IsAcceptedAs
      <3>3. AcceptedAs(o, t, E)
              = IF Relays!ProcError(t) # "none" THEN Err(Relays!ProcError(t))
                ELSE [ok |-> TRUE, role |-> "Sender", payload |-> ReplyBytes(t)]
        BY <1>7, <1>9, <2>1, <2>4 DEF AcceptedAs
      <3> QED
        BY <1>3, <2>4, <3>2, <3>3 DEF Outcome, t, o, onion
    <2> QED
      BY <1>2, <2>2, <2>3, <2>4 DEF Legs
  <1> QED
    BY <1>8, <1>9

-----------------------------------------------------------------------------
(* J.  The onions that a step puts on the wire.                            *)

(* What a result of proc_onion says, by the role the node played.          *)
Says(result, o, t, onion) ==
  /\ result.ok <=> Relays!ProcError(t) = "none"
  /\ ~ result.ok => result.err = Relays!ProcError(t)
  /\ result.ok /\ ~ Relays!AtEnd(t) =>
       /\ result.role = "Hop"
       /\ result.next_address = LegHops(o, t.leg)[t.hop + 1]
       /\ result.next_onion = NextOnion(o, t, onion)
  /\ result.ok /\ Relays!AtEnd(t) /\ t.leg = "forward" =>
       result.role = "Receiver" /\ result.payload = o.payload
  /\ result.ok /\ Relays!AtEnd(t) /\ t.leg # "forward" =>
       result.role = "Sender" /\ result.payload = ReplyBytes(t)

LEMMA OutcomeSays ==
  ASSUME NEW o, NEW t, NEW onion, NEW result, result = Outcome(o, t, onion)
  PROVE  Says(result, o, t, onion)
  <1> DEFINE e == Relays!ProcError(t)
             end == Relays!AtEnd(t)
             to == LegHops(o, t.leg)[t.hop + 1]
             next == NextOnion(o, t, onion)
  <1> HIDE DEF e, end, to, next
  <1>1. result = IF e # "none" THEN Err(e)
                 ELSE IF ~ end THEN PassedOn(to, next)
                 ELSE IF t.leg = "forward"
                 THEN [ok |-> TRUE, role |-> "Receiver", payload |-> o.payload]
                 ELSE [ok |-> TRUE, role |-> "Sender", payload |-> ReplyBytes(t)]
    BY DEF Outcome, e, end, to, next
  <1>2. CASE e # "none"
    <2>1. ~ result.ok /\ result.err = e
      BY <1>1, <1>2 DEF Err
    <2> QED
      BY <1>2, <2>1 DEF Says, e
  <1>3. CASE e = "none" /\ ~ end
    <2>1. result.ok /\ result.role = "Hop" /\ result.next_address = to
          /\ result.next_onion = next
      BY <1>1, <1>3 DEF PassedOn
    <2> QED
      BY <1>3, <2>1 DEF Says, e, end, to, next
  <1>4. CASE e = "none" /\ end /\ t.leg = "forward"
    <2>1. result.ok /\ result.role = "Receiver" /\ result.payload = o.payload
      BY <1>1, <1>4
    <2> QED
      BY <1>4, <2>1 DEF Says, e, end
  <1>5. CASE e = "none" /\ end /\ t.leg # "forward"
    <2>1. result.ok /\ result.role = "Sender" /\ result.payload = ReplyBytes(t)
      BY <1>1, <1>5
    <2> QED
      BY <1>5, <2>1 DEF Says, e, end
  <1> QED
    BY <1>2, <1>3, <1>4, <1>5

LEMMA ProcessedSays ==
  ASSUME AreCalls(formed), AreExpected(formed, expected), NEW item, IsSent(formed, item)
  PROVE  Says(Processed(item), RecipeOf(formed, item.packet), item.packet, item.onion)
  BY ProcessedAs, OutcomeSays

(* An error is one of four, and only a packet that its node can open has   *)
(* none.                                                                   *)
LEMMA NoErrorOpens ==
  ASSUME NEW t, Relays!ProcError(t) = "none"
  PROVE  Relays!Opens(t)
  BY DEF Relays!ProcError

LEMMA HopIsSent ==
  ASSUME AreCalls(formed), NEW item, IsSent(formed, item), ~ IsUnsealed(item.packet),
         ~ Relays!AtEnd(item.packet), NEW next,
         LET t == item.packet
             o == RecipeOf(formed, t)
         IN  next = [to |-> LegHops(o, t.leg)[t.hop + 1],
                     onion |-> NextOnion(o, t, item.onion),
                     packet |-> [t EXCEPT !.hop = t.hop + 1]]
  PROVE  IsSent(formed, next)
  <1> DEFINE t == item.packet
             n == item.to
             o == RecipeOf(formed, t)
             u == [t EXCEPT !.hop = t.hop + 1]
             onion == item.onion
             x == NextOnion(o, t, onion)
  <1>1. IsTracked(formed, t, n, onion)
    BY DEF IsSent
  <1>2. /\ IsOrder(o) /\ Fits(o, t, onion) /\ t.hop \in Nat
        /\ t.hop # Len(LegHops(o, t.leg))
    BY <1>1, TrackedFacts, RelaysAgree DEF IsTracked
  <1>3. /\ u.leg = t.leg /\ u.hop = t.hop + 1 /\ u.reply = t.reply /\ u.mauled = t.mauled
        /\ u.session = t.session /\ u \in Relays!Packet
    BY <1>1, <1>2 DEF IsTracked, Relays!Packet
  <1>4. RecipeOf(formed, u) = o
    BY <1>3 DEF RecipeOf
  <1> HIDE DEF u, o, t, onion
  <1>5. Fits(o, u, x)
    <2>1. ~ IsUnsealed(t)
      BY DEF t
    <2> QED
      BY <1>2, <1>3, <2>1, FitsPass
  <1>6. next = [to |-> LegHops(o, t.leg)[t.hop + 1], onion |-> x, packet |-> u]
    BY DEF o, t, u, onion
  <1> HIDE DEF x
  <1>7. next.to = LegHops(o, t.leg)[t.hop + 1] /\ next.onion = x /\ next.packet = u
    BY <1>6
  <1>8. IsTracked(formed, u, LegHops(o, t.leg)[t.hop + 1], x)
    BY <1>1, <1>3, <1>4, <1>5 DEF IsTracked
  <1> QED
    BY <1>6, <1>7, <1>8 DEF IsSent

(* What reply_onion makes of an onion that its receiver kept.              *)
AnswersAs(o, item, r, result) ==
  /\ result.ok <=> Relays!Opens(item.packet)
  /\ ~ result.ok => result.err = "MacMismatch"
  /\ result.ok => /\ result.next = o.hops_backward[1]
                  /\ result.onion = AnswerOnion(o, item.onion, Plain(r))

LEMMA KeptIsAnswered ==
  ASSUME AreCalls(formed), NEW item, IsKept(formed, item), NEW r \in Replies, NEW result,
         result = reply_onion(MaxPathLength, private_key(item.at), item.onion, Plain(r))
  PROVE  /\ AnswersAs(RecipeOf(formed, item.packet), item, r, result)
         /\ result.ok => IsSent(formed, [to |-> result.next, onion |-> result.onion,
                                         packet |-> Relays!ReplyPacket(item.packet, r)])
  <1> DEFINE t == item.packet
             n == item.at
             o == RecipeOf(formed, t)
             u == Relays!ReplyPacket(t, r)
             onion == item.onion
             private == private_key(n)
             x == AnswerOnion(o, onion, Plain(r))
  <1>1. IsTracked(formed, t, n, onion)
    BY DEF IsKept
  <1>2. /\ IsOrder(o) /\ Fits(o, t, onion)
        /\ t.hop = Len(LegHops(o, t.leg)) /\ t.leg = "forward" /\ ~ IsUnsealed(t)
        /\ Relays!Opens(t) <=> private = NeededKey(o, t)
    BY <1>1, TrackedFacts, RelaysAgree DEF IsTracked, IsKept
  <1>3. /\ u.leg = "backward" /\ u.hop = 1 /\ u.reply = r /\ u.mauled = t.mauled
        /\ u.session = t.session
    BY DEF Relays!ReplyPacket
  <1>4. u \in Relays!Packet
    BY <1>1 DEF IsTracked, Relays!Packet, Relays!ReplyPacket
  <1>5. RecipeOf(formed, u) = o
    BY <1>3 DEF RecipeOf
  <1>6. IsOnLeg(o, u)
    <2>1. ReplyBytes(u) = Plain(r) /\ r \in Payloads
      BY <1>3 DEF ReplyBytes, Payloads
    <2>2. 1 \in 1 .. Len(LegHops(o, "backward"))
      BY <1>2 DEF IsOrder, LegHops
    <2> QED
      BY <1>3, <2>1, <2>2, PlainIsBlob DEF IsOnLeg, Legs
  <1> HIDE DEF t, n, o, u, onion, private
  <1>7. CASE private = NeededKey(o, t)
    <2>0. IsAnswerable(o, t, onion, u)
      BY <1>2, <1>3, <1>6, FitsArrive
    <2>1. /\ reply_onion(MaxPathLength, NeededKey(o, t), onion, Plain(u.reply))
               = [ok |-> TRUE, next |-> o.hops_backward[1],
                  onion |-> AnswerOnion(o, onion, Plain(u.reply))]
          /\ Fits(o, u, AnswerOnion(o, onion, Plain(u.reply)))
      BY <2>0 DEF IsAnswerable
    <2>2. result = [ok |-> TRUE, next |-> o.hops_backward[1], onion |-> x]
      BY <1>3, <1>7, <2>1 DEF private, n, onion
    <2> HIDE DEF x
    <2>3. result.ok /\ result.next = o.hops_backward[1] /\ result.onion = x
      BY <2>2
    <2>4. IsTracked(formed, u, o.hops_backward[1], x)
      <3>1. Fits(o, u, x)
        BY <1>3, <2>1 DEF x
      <3>2. o.hops_backward[1] = LegHops(o, u.leg)[u.hop]
        BY <1>3 DEF LegHops
      <3> QED
        BY <1>1, <1>3, <1>4, <1>5, <3>1, <3>2 DEF IsTracked
    <2>5. IsSent(formed, [to |-> o.hops_backward[1], onion |-> x, packet |-> u])
      BY <2>4 DEF IsSent
    <2> QED
      BY <1>2, <1>7, <2>3, <2>5 DEF AnswersAs, t, o, u, x, onion
  <1>8. CASE private # NeededKey(o, t)
    <2>1. unwrap(MaxPathLength, private, onion) = Err("MacMismatch")
      BY <1>2, <1>8, AlteredIsRefused DEF IsUnsealed
    <2>2. ~ Err("MacMismatch").ok /\ Err("MacMismatch").err = "MacMismatch"
      BY DEF Err
    <2>3. result = Err("MacMismatch")
      BY <2>1, <2>2, Zenon DEF reply_onion, private, n, onion
    <2> QED
      BY <1>2, <1>8, <2>2, <2>3 DEF AnswersAs, t
  <1> QED
    BY <1>7, <1>8

LEMMA AlteredIsSent ==
  ASSUME AreCalls(formed), spent \in [FaultKinds -> Nat], NEW item, IsSent(formed, item),
         NEW altered \in Alterations(item.onion), NEW next,
         next = [item EXCEPT !.onion = altered.onion,
                             !.packet = Relays!AlteredPacket(item.packet, altered.part)]
  PROVE  IsSent(formed, next) /\ altered.part \in Relays!Parts
  <1> DEFINE t == item.packet
             n == item.to
             o == RecipeOf(formed, t)
             onion == item.onion
             part == altered.part
             u == Relays!AlteredPacket(t, part)
             x == altered.onion
  <1>1. IsTracked(formed, t, n, onion)
    BY DEF IsSent
  <1>2. IsOrder(o) /\ Fits(o, t, onion) /\ t \in Relays!Packet
    BY <1>1, TrackedFacts DEF IsTracked
  <1>3. part \in Relays!Parts
    <2>1. IsShaped(onion, ForwardLen(o), PacketLen(o, t)) /\ IsReadable(onion)
      BY <1>2, FitsReadable DEF Fits
    <2>2. IsAltered(onion, part, x)
      <3> HIDE DEF onion, o, t
      <3>1. altered \in Alterations(onion)
        BY DEF onion
      <3> QED
        BY <2>1, <3>1, AlterationsKeepShape
    <2> QED
      BY <2>2 DEF IsAltered, Relays!Parts
  <1>4. spent["corrupt"] \in Nat
    BY DEF FaultKinds
  <1>5. /\ u.leg = t.leg /\ u.hop = t.hop /\ u.reply = t.reply
        /\ u.mauled = t.mauled \cup {part} /\ u.session = t.session
        /\ u \in Relays!Packet
    <2> DEFINE v == spent["corrupt"] + 1
               m == t.mauled \cup {part}
    <2>1. v \in Nat /\ m \in SUBSET Relays!Parts
      BY <1>2, <1>3, <1>4 DEF Relays!Packet
    <2>2. u = [t EXCEPT !.mauled = m, !.version = v]
      BY DEF Relays!AlteredPacket
    <2> HIDE DEF v, m, u
    <2>3. u.leg = t.leg /\ u.hop = t.hop /\ u.reply = t.reply /\ u.mauled = m
          /\ u.session = t.session /\ u \in Relays!Packet
      BY <1>2, <2>1, <2>2 DEF Relays!Packet
    <2> QED
      BY <2>3 DEF m
  <1>6. RecipeOf(formed, u) = o
    BY <1>5 DEF RecipeOf
  <1>7. next = [to |-> n, onion |-> x, packet |-> u]
    BY DEF IsSent
  <1>8. Fits(o, u, x)
    <2>1. altered \in Alterations(onion)
      OBVIOUS
    <2> HIDE DEF o, t, onion, u
    <2> QED
      BY <1>2, <1>5, <2>1, FitsAlter
  <1>9. IsTracked(formed, u, n, x)
    <2>1. RecipeOf(formed, t) = o
      OBVIOUS
    <2> HIDE DEF o, t, onion, u, x, n
    <2> QED
      BY <1>1, <1>5, <1>6, <1>8, <2>1 DEF IsTracked
  <1>10. IsSent(formed, [to |-> n, onion |-> x, packet |-> u])
    <2> HIDE DEF u, x, n
    <2> QED
      BY <1>9 DEF IsSent
  <1> QED
    BY <1>3, <1>7, <1>10, Zenon

-----------------------------------------------------------------------------
(* K.  NetInv is an invariant.                                             *)

Call(o, keys) == [state |-> "formed", order |-> o, keys |-> keys]

(* What a call of form_onion returns.                                      *)
FormsAs(s, o, keys, result) ==
  LET e == FormErrorOf(StoreOf(keys), o.forward, o.backward)
      q == Recipe(s, Call(o, keys))
  IN  /\ result.ok <=> e = "none"
      /\ ~ result.ok => result.err = e
      /\ result.ok => /\ IsOrder(q) /\ result.onion = ForthOnion(q, 1)
                      /\ result.expected = Response(q)

LEMMA FormReturns ==
  ASSUME NEW s, NEW o \in Orders, NEW keys, NEW result,
         result = form_onion(s, StoreOf(keys), o.forward, o.backward, Plain(o.payload))
  PROVE  FormsAs(s, o, keys, result)
  <1> DEFINE e == FormErrorOf(StoreOf(keys), o.forward, o.backward)
             q == Recipe(s, Call(o, keys))
  <1>1. CASE e = "none"
    <2>1. IsOrder(q)
      BY <1>1, RecipeIsOrder DEF Call
    <2>2. /\ q.rng = s /\ q.pki = StoreOf(keys) /\ q.hops_forward = o.forward
          /\ q.hops_backward = o.backward /\ q.payload = Plain(o.payload)
      BY DEF Recipe, Call
    <2> HIDE DEF q
    <2>3. form_onion(q.rng, q.pki, q.hops_forward, q.hops_backward, q.payload)
            = [ok |-> TRUE, onion |-> ForthOnion(q, 1),
               expected |-> [identifier |-> identifier(q),
                             onion |-> ForthOnion(q, n_forward(q)),
                             tag |-> awaited_tag(q)]]
      BY <2>1, FormOnionIsOk
    <2>4. result = [ok |-> TRUE, onion |-> ForthOnion(q, 1), expected |-> Response(q)]
      BY <2>2, <2>3 DEF Response
    <2>5. result.ok /\ result.onion = ForthOnion(q, 1) /\ result.expected = Response(q)
      BY <2>4
    <2> QED
      BY <1>1, <2>1, <2>5 DEF FormsAs, q
  <1>2. CASE e # "none"
    <2>1. Len(o.forward) \in Nat /\ Len(o.backward) \in Nat
      BY OrderAssumption
    <2>2. result = Err(e)
      BY <1>2, <2>1, FormFailsWith
    <2>3. ~ Err(e).ok /\ Err(e).err = e
      BY DEF Err
    <2> HIDE DEF e
    <2>4. ~ result.ok /\ result.err = e
      BY <2>2, <2>3
    <2> QED
      BY <1>2, <2>4 DEF FormsAs, e
  <1> QED
    BY <1>1, <1>2

LEMMA FirstIsSent ==
  ASSUME NEW calls, AreCalls(calls), NEW s \in Sessions, calls[s].state = "formed"
  PROVE  IsSent(calls, [to |-> calls[s].order.forward[1],
                        onion |-> ForthOnion(Recipe(s, calls[s]), 1),
                        packet |-> Relays!FirstPacket(s)])
  <1> DEFINE o == Recipe(s, calls[s])
             t == Relays!FirstPacket(s)
             n == calls[s].order.forward[1]
             x == ForthOnion(o, 1)
  <1>1. IsOrder(o)
    BY DEF AreCalls
  <1>2. /\ t.session = s /\ t.leg = "forward" /\ t.hop = 1 /\ t.mauled = {}
        /\ t \in Relays!Packet
    BY DEF Relays!FirstPacket, Relays!Packet
  <1>3. RecipeOf(calls, t) = o
    BY <1>2 DEF RecipeOf
  <1>4. LegHops(o, "forward") = calls[s].order.forward
    BY DEF LegHops, Recipe
  <1> HIDE DEF t
  <1>5. IsOnLeg(o, t) /\ ~ IsUnsealed(t)
    <2>1. 1 \in 1 .. Len(LegHops(o, "forward"))
      BY <1>1 DEF IsOrder, LegHops
    <2> HIDE DEF o
    <2> QED
      BY <1>2, <2>1, EmptyIsIntact DEF IsOnLeg, Legs, ReplyBytes, IsUnsealed
  <1>6. Fits(o, t, x)
    <2> DEFINE s_1 == sections_forward(o)[0]
    <2> HIDE DEF o
    <2>1. x = LegOnion(o, "forward", 1, s_1)
      BY DEF ForthOnion, LegOnion, LegLayers
    <2>2. BackwardFits(o, t, s_1)
      BY <1>2 DEF BackwardFits, HonestSection
    <2>3. x = LegOnion(o, t.leg, t.hop, s_1)
      BY <1>2, <2>1
    <2> HIDE DEF x, s_1
    <2> QED
      BY <1>1, <1>5, <2>2, <2>3, LegOnionFits
  <1>7. n = LegHops(o, t.leg)[t.hop]
    BY <1>2, <1>4
  <1> HIDE DEF o, x, n
  <1>8. IsTracked(calls, t, n, x)
    BY <1>2, <1>3, <1>6, <1>7 DEF IsTracked
  <1>9. IsSent(calls, [to |-> n, onion |-> x, packet |-> t])
    BY <1>8 DEF IsSent
  <1> QED
    BY <1>9 DEF n, x, t, o

LEMMA FormFacts ==
  ASSUME NetInv, NEW s \in Sessions, NEW o \in Orders, Form(s, o)
  PROVE  /\ formed' = [formed EXCEPT ![s] = Call(o, pki[o.sender])]
         /\ Extends(formed', formed) /\ formed'[s] = Call(o, pki[o.sender])
         /\ expected' = [expected EXCEPT ![o.sender] =
                           @ \cup {[session |-> s,
                                    response |-> Response(Recipe(s, formed'[s]))]}]
         /\ wire' = wire \cup {[to |-> o.forward[1],
                                onion |-> ForthOnion(Recipe(s, formed'[s]), 1),
                                packet |-> Relays!FirstPacket(s)]}
         /\ FormErrorOf(Store(o.sender), o.forward, o.backward) = "none"
  <1> DEFINE keys == pki[o.sender]
             result == Result(s, o)
             call == Call(o, keys)
             q == Recipe(s, call)
  <1>1. keys \in [Nodes -> Nat] /\ o.sender \in Nodes
    BY OrderAssumption DEF NetInv
  <1>2. FormsAs(s, o, keys, result)
    <2>1. result = form_onion(s, StoreOf(keys), o.forward, o.backward, Plain(o.payload))
      BY DEF Result, Store
    <2> HIDE DEF result, keys
    <2> QED
      BY <2>1, FormReturns
  <1>3. /\ formed[s].state = "new" /\ result.ok
        /\ formed' = [formed EXCEPT ![s] = call]
        /\ expected' = [expected EXCEPT ![o.sender] =
                          @ \cup {[session |-> s, response |-> result.expected]}]
        /\ wire' = wire \cup {[to |-> o.forward[1], onion |-> result.onion,
                               packet |-> Relays!FirstPacket(s)]}
    BY DEF Form, Call
  <1>4. /\ IsOrder(q) /\ result.onion = ForthOnion(q, 1) /\ result.expected = Response(q)
        /\ FormErrorOf(StoreOf(keys), o.forward, o.backward) = "none"
    BY <1>2, <1>3 DEF FormsAs
  <1>5. formed \in [Sessions -> Relays!FormState] /\ call \in Relays!FormState
    BY <1>1 DEF NetInv, AreCalls, Relays!FormState, Call
  <1> HIDE DEF keys, result, call
  <1>6. formed'[s] = call /\ formed' \in [Sessions -> Relays!FormState]
        /\ \A c \in Sessions : c # s => formed'[c] = formed[c]
    BY <1>3, <1>5
  <1>7. AreCalls(formed')
    BY <1>4, <1>6 DEF NetInv, AreCalls
  <1>8. Extends(formed', formed)
    BY <1>3, <1>6, <1>7 DEF NetInv, Extends
  <1> QED
    BY <1>3, <1>4, <1>6, <1>8 DEF keys, call, Store

LEMMA FormFailsFacts ==
  ASSUME NetInv, NEW s \in Sessions, NEW o \in Orders, FormFails(s, o)
  PROVE  LET e == FormErrorOf(Store(o.sender), o.forward, o.backward)
         IN  /\ formed' = [formed EXCEPT ![s] = [state |-> "failed", order |-> o, err |-> e]]
             /\ Extends(formed', formed) /\ e # "none"
  <1> DEFINE keys == pki[o.sender]
             result == Result(s, o)
             e == FormErrorOf(StoreOf(keys), o.forward, o.backward)
             call == [state |-> "failed", order |-> o, err |-> e]
  <1>1. FormsAs(s, o, keys, result)
    <2>1. result = form_onion(s, StoreOf(keys), o.forward, o.backward, Plain(o.payload))
      BY DEF Result, Store
    <2> HIDE DEF result, keys
    <2> QED
      BY <2>1, FormReturns
  <1>2. /\ formed[s].state = "new" /\ ~ result.ok
        /\ formed' = [formed EXCEPT ![s] = [state |-> "failed", order |-> o,
                                            err |-> result.err]]
    BY DEF FormFails
  <1>3. e # "none" /\ result.err = e
    BY <1>1, <1>2 DEF FormsAs
  <1>4. formed' = [formed EXCEPT ![s] = call]
    BY <1>2, <1>3
  <1>5. formed \in [Sessions -> Relays!FormState] /\ call \in Relays!FormState
    <2>1. e \in {"PathTooLong", "panic", "KeyNotFound"}
      BY <1>3 DEF FormErrorOf
    <2> HIDE DEF e
    <2> QED
      BY <2>1 DEF NetInv, AreCalls, Relays!FormState
  <1>6. call.state # "formed"
    OBVIOUS
  <1> HIDE DEF keys, result, call
  <1>7. formed'[s] = call /\ formed' \in [Sessions -> Relays!FormState]
        /\ \A c \in Sessions : c # s => formed'[c] = formed[c]
    BY <1>4, <1>5
  <1>8. AreCalls(formed')
    BY <1>6, <1>7 DEF NetInv, AreCalls
  <1>9. Extends(formed', formed)
    BY <1>2, <1>7, <1>8 DEF NetInv, Extends
  <1> QED
    BY <1>3, <1>4, <1>9 DEF keys, call, Store

LEMMA FormKeeps ==
  ASSUME NetInv, NEW s \in Sessions, NEW o \in Orders, Form(s, o)
  PROVE  NetInv'
  <1> DEFINE call == formed'[s]
             entry == [session |-> s, response |-> Response(Recipe(s, call))]
             first == [to |-> o.forward[1], onion |-> ForthOnion(Recipe(s, call), 1),
                       packet |-> Relays!FirstPacket(s)]
  <1>1. /\ Extends(formed', formed) /\ call = Call(o, pki[o.sender])
        /\ expected' = [expected EXCEPT ![o.sender] = @ \cup {entry}]
        /\ wire' = wire \cup {first}
    BY FormFacts
  <1>2. UNCHANGED <<sk, pki, kept, received, replied, answered, failures, spent>>
    BY DEF Form
  <1>3. AreCalls(formed') /\ call.state = "formed" /\ call.order = o
    BY <1>1 DEF Extends, Call
  <1> HIDE DEF call
  <1>4. IsExpected(formed', o.sender, entry)
    BY <1>3 DEF IsExpected, call
  <1>5. AreExpected(formed', expected')
    <2>1. o.sender \in Nodes /\ expected = [n \in Nodes |-> expected[n]]
      BY OrderAssumption DEF NetInv, AreExpected
    <2> HIDE DEF entry
    <2>2. expected' = [n \in Nodes |-> IF n = o.sender THEN expected[n] \cup {entry}
                                       ELSE expected[n]]
      BY <1>1, <2>1
    <2>3. ASSUME NEW n \in Nodes, NEW e \in expected'[n] PROVE IsExpected(formed', n, e)
      <3>1. e \in expected[n] \/ (e = entry /\ n = o.sender)
        BY <2>2, <2>3
      <3>2. CASE e \in expected[n]
        BY <1>1, <3>2, ExpectedStays DEF NetInv, AreExpected
      <3> QED
        BY <1>4, <3>1, <3>2
    <2>4. expected' = [n \in Nodes |-> expected'[n]]
      BY <2>2
    <2> QED
      BY <2>3, <2>4 DEF AreExpected
  <1>6. \A item \in wire' : IsSent(formed', item)
    <2>1. IsSent(formed', first)
      BY <1>3, FirstIsSent DEF call
    <2> HIDE DEF first
    <2> QED
      BY <1>1, <2>1, SentStays DEF NetInv
  <1>7. \A item \in kept' : IsKept(formed', item)
    BY <1>1, <1>2, KeptStays DEF NetInv
  <1> QED
    BY <1>2, <1>3, <1>5, <1>6, <1>7 DEF NetInv

LEMMA FormFailsKeeps ==
  ASSUME NetInv, NEW s \in Sessions, NEW o \in Orders, FormFails(s, o)
  PROVE  NetInv'
  <1>1. Extends(formed', formed)
    BY FormFailsFacts
  <1>2. UNCHANGED <<sk, pki, expected, wire, kept, received, replied, answered, failures,
                    spent>>
    BY DEF FormFails
  <1>3. AreExpected(formed', expected')
    BY <1>1, <1>2, ExpectedStays DEF NetInv, AreExpected
  <1>4. \A item \in wire' : IsSent(formed', item)
    BY <1>1, <1>2, SentStays DEF NetInv
  <1>5. \A item \in kept' : IsKept(formed', item)
    BY <1>1, <1>2, KeptStays DEF NetInv
  <1> QED
    BY <1>1, <1>2, <1>3, <1>4, <1>5 DEF NetInv, Extends

LEMMA ForgetKeeps ==
  ASSUME NetInv, NEW n \in Nodes, Forget(n)
  PROVE  NetInv'
  <1>1. AreExpected(formed', expected')
    BY DEF NetInv, AreExpected, Forget
  <1>2. spent' \in [FaultKinds -> Nat]
    BY DEF NetInv, Forget, Spend, FaultKinds
  <1> QED
    BY <1>1, <1>2 DEF NetInv, Forget

(* Taking an item leaves, on the wire, items that were there and what was  *)
(* put there instead.                                                      *)
LEMMA TakeKeeps ==
  ASSUME NetInv, NEW item, NEW again, NEW more, Take(item, again, more),
         \A x \in more : IsSent(formed, x)
  PROVE  /\ \A x \in wire' : IsSent(formed, x)
         /\ spent' \in [FaultKinds -> Nat]
  <1>1. wire' \subseteq wire \cup more
    BY DEF Take
  <1>2. spent' \in [FaultKinds -> Nat]
    BY DEF NetInv, Take, Spend, FaultKinds
  <1> QED
    BY <1>1, <1>2 DEF NetInv

LEMMA ItemFacts ==
  ASSUME NetInv, NEW item \in wire
  PROVE  /\ AreCalls(formed) /\ AreExpected(formed, expected) /\ IsSent(formed, item)
         /\ item.to \in Nodes
         /\ Says(Processed(item), RecipeOf(formed, item.packet), item.packet, item.onion)
         /\ IsOrder(RecipeOf(formed, item.packet))
         /\ item.packet.leg \in Legs
  <1>1. AreCalls(formed) /\ AreExpected(formed, expected) /\ IsSent(formed, item)
    BY DEF NetInv
  <1>2. IsTracked(formed, item.packet, item.to, item.onion)
    BY <1>1 DEF IsSent
  <1> QED
    BY <1>1, <1>2, ProcessedSays, TrackedFacts

LEMMA RelayFacts ==
  ASSUME NetInv, NEW item \in wire, NEW again, Relay(item, again)
  PROVE  LET t == item.packet
             o == RecipeOf(formed, t)
             next == [to |-> LegHops(o, t.leg)[t.hop + 1],
                      onion |-> NextOnion(o, t, item.onion),
                      packet |-> [t EXCEPT !.hop = t.hop + 1]]
         IN  /\ Take(item, again, {next}) /\ IsSent(formed, next)
             /\ Relays!Opens(t) /\ ~ Relays!AtEnd(t)
  <1> DEFINE t == item.packet
             o == RecipeOf(formed, t)
             result == Processed(item)
             next == [to |-> LegHops(o, t.leg)[t.hop + 1],
                      onion |-> NextOnion(o, t, item.onion),
                      packet |-> [t EXCEPT !.hop = t.hop + 1]]
  <1>1. /\ result.ok /\ result.role = "Hop"
        /\ Take(item, again, {[to |-> result.next_address, onion |-> result.next_onion,
                               packet |-> [t EXCEPT !.hop = t.hop + 1]]})
    BY DEF Relay
  <1>2. Says(result, o, t, item.onion) /\ AreCalls(formed) /\ IsSent(formed, item)
    BY ItemFacts
  <1>3. Relays!Opens(t) /\ ~ Relays!AtEnd(t) /\ ~ IsUnsealed(t)
    <2>1. Relays!ProcError(t) = "none"
      BY <1>1, <1>2 DEF Says
    <2>2. Relays!Opens(t)
      BY <2>1, NoErrorOpens
    <2>3. ~ Relays!AtEnd(t)
      BY <1>1, <1>2 DEF Says
    <2> QED
      BY <2>2, <2>3 DEF Relays!Opens, Relays!Altered, IsUnsealed
  <1>4. result.next_address = LegHops(o, t.leg)[t.hop + 1]
        /\ result.next_onion = NextOnion(o, t, item.onion)
    BY <1>1, <1>2, <1>3 DEF Says
  <1>5. Take(item, again, {next})
    BY <1>1, <1>4
  <1>6. IsSent(formed, next)
    BY <1>2, <1>3, HopIsSent
  <1> QED
    BY <1>3, <1>5, <1>6

LEMMA RelayKeeps ==
  ASSUME NetInv, NEW item \in wire, NEW again, Relay(item, again)
  PROVE  NetInv'
  <1>1. PICK next : Take(item, again, {next}) /\ IsSent(formed, next)
    BY RelayFacts
  <1>2. UNCHANGED <<sk, pki, formed, expected, kept, received, replied, answered, failures>>
    BY DEF Relay
  <1>3. (\A x \in wire' : IsSent(formed, x)) /\ spent' \in [FaultKinds -> Nat]
    BY <1>1, TakeKeeps
  <1> QED
    BY <1>2, <1>3 DEF NetInv

(* A receiver keeps an onion that it could open, and the payload is that   *)
(* of the order.                                                           *)
LEMMA ReceiveFacts ==
  ASSUME NetInv, NEW item \in wire, NEW again, Receive(item, again)
  PROVE  LET t == item.packet
             k == [at |-> item.to, onion |-> item.onion, packet |-> t]
         IN  /\ Take(item, again, {}) /\ IsKept(formed, k) /\ kept' = kept \cup {k}
             /\ received' = received \cup
                  {[at |-> item.to, payload |-> RecipeOf(formed, t).payload, packet |-> t]}
             /\ Relays!Opens(t) /\ Relays!AtEnd(t) /\ t.leg = "forward"
  <1> DEFINE t == item.packet
             o == RecipeOf(formed, t)
             result == Processed(item)
             k == [at |-> item.to, onion |-> item.onion, packet |-> t]
  <1>1. /\ result.ok /\ result.role = "Receiver"
        /\ Take(item, again, {})
        /\ kept' = kept \cup {k}
        /\ received' = received \cup
             {[at |-> item.to, payload |-> result.payload, packet |-> t]}
    BY DEF Receive
  <1>2. Says(result, o, t, item.onion) /\ AreCalls(formed) /\ IsSent(formed, item)
    BY ItemFacts
  <1>3. Relays!Opens(t) /\ Relays!AtEnd(t) /\ t.leg = "forward" /\ ~ IsUnsealed(t)
        /\ result.payload = o.payload
    <2>1. Relays!ProcError(t) = "none"
      BY <1>1, <1>2 DEF Says
    <2>2. Relays!Opens(t)
      BY <2>1, NoErrorOpens
    <2>3. Relays!AtEnd(t) /\ t.leg = "forward" /\ result.payload = o.payload
      BY <1>1, <1>2 DEF Says
    <2> QED
      BY <2>2, <2>3 DEF Relays!Opens, Relays!Altered, IsUnsealed
  <1>4. IsKept(formed, k)
    <2>1. IsTracked(formed, t, item.to, item.onion)
      BY <1>2 DEF IsSent
    <2>2. t.hop = Len(LegHops(o, "forward"))
      BY <1>2, <1>3, <2>1, RelaysAgree
    <2> QED
      BY <1>3, <2>1, <2>2 DEF IsKept
  <1> QED
    BY <1>1, <1>3, <1>4

LEMMA ReceiveKeeps ==
  ASSUME NetInv, NEW item \in wire, NEW again, Receive(item, again)
  PROVE  NetInv'
  <1> DEFINE o == RecipeOf(formed, item.packet)
             k == [at |-> item.to, onion |-> item.onion, packet |-> item.packet]
             d == [at |-> item.to, payload |-> o.payload, packet |-> item.packet]
  <1>1. /\ Take(item, again, {}) /\ IsKept(formed, k) /\ kept' = kept \cup {k}
        /\ received' = received \cup {d}
    BY ReceiveFacts
  <1>2. UNCHANGED <<sk, pki, formed, expected, replied, answered, failures>>
    BY DEF Receive
  <1>3. (\A x \in wire' : IsSent(formed, x)) /\ spent' \in [FaultKinds -> Nat]
    BY <1>1, TakeKeeps
  <1>4. d.at \in Nodes /\ IsByteString(d.payload)
    <2>1. item.to \in Nodes /\ IsByteString(o.payload)
      BY ItemFacts, BlobIsByteString DEF IsOrder
    <2> HIDE DEF o
    <2> QED
      BY <2>1
  <1> HIDE DEF k, d
  <1>5. \A x \in kept' : IsKept(formed, x)
    BY <1>1 DEF NetInv
  <1>6. \A x \in received' \cup answered' : x.at \in Nodes /\ IsByteString(x.payload)
    BY <1>1, <1>2, <1>4 DEF NetInv
  <1> QED
    BY <1>2, <1>3, <1>5, <1>6 DEF NetInv

(* What a sender accepts is the reply that the packet carries.             *)
LEMMA AcceptFacts ==
  ASSUME NetInv, NEW item \in wire, NEW again, Accept(item, again)
  PROVE  LET t == item.packet
         IN  /\ Take(item, again, {})
             /\ answered' = answered \cup
                  {[at |-> item.to, payload |-> Plain(t.reply), packet |-> t]}
             /\ t.reply \in Replies /\ t.leg = "backward"
             /\ Relays!ProcError(t) = "none" /\ Relays!AtEnd(t)
  <1> DEFINE t == item.packet
             o == RecipeOf(formed, t)
             result == Processed(item)
  <1>1. /\ result.ok /\ result.role = "Sender"
        /\ Take(item, again, {})
        /\ answered' = answered \cup
             {[at |-> item.to, payload |-> result.payload, packet |-> t]}
    BY DEF Accept
  <1>2. Says(result, o, t, item.onion) /\ IsSent(formed, item) /\ t.leg \in Legs
    BY ItemFacts
  <1>3. /\ Relays!ProcError(t) = "none" /\ Relays!AtEnd(t) /\ t.leg # "forward"
        /\ result.payload = ReplyBytes(t)
    <2>1. Relays!ProcError(t) = "none"
      BY <1>1, <1>2 DEF Says
    <2> QED
      BY <1>1, <1>2, <2>1 DEF Says
  <1>4. t.leg = "backward" /\ t.reply \in Replies
    BY <1>2, <1>3 DEF Legs, IsSent, IsTracked
  <1>5. result.payload = Plain(t.reply)
    BY <1>3 DEF ReplyBytes
  <1> QED
    BY <1>1, <1>3, <1>4, <1>5

LEMMA AcceptKeeps ==
  ASSUME NetInv, NEW item \in wire, NEW again, Accept(item, again)
  PROVE  NetInv'
  <1> DEFINE d == [at |-> item.to, payload |-> Plain(item.packet.reply),
                   packet |-> item.packet]
  <1>1. /\ Take(item, again, {}) /\ answered' = answered \cup {d}
        /\ item.packet.reply \in Replies
    BY AcceptFacts
  <1>2. UNCHANGED <<sk, pki, formed, expected, kept, received, replied, failures>>
    BY DEF Accept
  <1>3. (\A x \in wire' : IsSent(formed, x)) /\ spent' \in [FaultKinds -> Nat]
    BY <1>1, TakeKeeps
  <1>4. d.at \in Nodes /\ IsByteString(d.payload)
    <2>1. item.to \in Nodes /\ IsByteString(Plain(item.packet.reply))
      BY <1>1, ItemFacts, PlainIsBlob, BlobIsByteString DEF Payloads
    <2> QED
      BY <2>1
  <1> HIDE DEF d
  <1>5. \A x \in received' \cup answered' : x.at \in Nodes /\ IsByteString(x.payload)
    BY <1>1, <1>2, <1>4 DEF NetInv
  <1> QED
    BY <1>2, <1>3, <1>5 DEF NetInv

LEMMA RejectFacts ==
  ASSUME NetInv, NEW item \in wire, NEW again, Reject(item, again)
  PROVE  LET t == item.packet
             e == Relays!ProcError(t)
         IN  /\ Take(item, again, {}) /\ e # "none"
             /\ failures' = failures \cup {[at |-> item.to, err |-> e, packet |-> t]}
  <1> DEFINE t == item.packet
             result == Processed(item)
  <1>1. /\ ~ result.ok /\ Take(item, again, {})
        /\ failures' = failures \cup {[at |-> item.to, err |-> result.err, packet |-> t]}
    BY DEF Reject
  <1>2. Says(result, RecipeOf(formed, t), t, item.onion)
    BY ItemFacts
  <1>3. Relays!ProcError(t) # "none" /\ result.err = Relays!ProcError(t)
    BY <1>1, <1>2 DEF Says
  <1> QED
    BY <1>1, <1>3

LEMMA RejectKeeps ==
  ASSUME NetInv, NEW item \in wire, NEW again, Reject(item, again)
  PROVE  NetInv'
  <1> DEFINE f == [at |-> item.to, err |-> Relays!ProcError(item.packet),
                   packet |-> item.packet]
  <1>1. Take(item, again, {}) /\ failures' = failures \cup {f}
    BY RejectFacts
  <1>2. UNCHANGED <<sk, pki, formed, expected, kept, received, replied, answered>>
    BY DEF Reject
  <1>3. (\A x \in wire' : IsSent(formed, x)) /\ spent' \in [FaultKinds -> Nat]
    BY <1>1, TakeKeeps
  <1>4. f.at \in Nodes
    BY ItemFacts
  <1> HIDE DEF f
  <1> QED
    BY <1>1, <1>2, <1>3, <1>4 DEF NetInv

LEMMA ReplyFacts ==
  ASSUME NetInv, NEW item \in kept, NEW r \in Replies, Reply(item, r)
  PROVE  LET o == RecipeOf(formed, item.packet)
             u == Relays!ReplyPacket(item.packet, r)
             next == [to |-> o.hops_backward[1],
                      onion |-> AnswerOnion(o, item.onion, Plain(r)), packet |-> u]
         IN  /\ Relays!Opens(item.packet) /\ u \notin replied
             /\ wire' = wire \cup {next} /\ IsSent(formed, next)
             /\ replied' = replied \cup {u}
  <1> DEFINE o == RecipeOf(formed, item.packet)
             u == Relays!ReplyPacket(item.packet, r)
             result == reply_onion(MaxPathLength, private_key(item.at), item.onion, Plain(r))
             sent == [to |-> result.next, onion |-> result.onion, packet |-> u]
             next == [to |-> o.hops_backward[1],
                      onion |-> AnswerOnion(o, item.onion, Plain(r)), packet |-> u]
  <1>1. /\ u \notin replied /\ result.ok
        /\ wire' = wire \cup {sent} /\ replied' = replied \cup {u}
    BY DEF Reply
  <1>2. AreCalls(formed) /\ IsKept(formed, item)
    BY DEF NetInv
  <1>3. AnswersAs(o, item, r, result) /\ (result.ok => IsSent(formed, sent))
    <2> HIDE DEF o
    <2>1. RecipeOf(formed, item.packet) = o
      BY DEF o
    <2> QED
      BY <1>2, <2>1, KeptIsAnswered
  <1> HIDE DEF result
  <1>4. /\ Relays!Opens(item.packet) /\ result.next = o.hops_backward[1]
        /\ result.onion = AnswerOnion(o, item.onion, Plain(r))
    BY <1>1, <1>3 DEF AnswersAs
  <1>5. sent = next
    BY <1>4
  <1> QED
    BY <1>1, <1>3, <1>4, <1>5

LEMMA ReplyKeeps ==
  ASSUME NetInv, NEW item \in kept, NEW r \in Replies, Reply(item, r)
  PROVE  NetInv'
  <1>1. PICK next : wire' = wire \cup {next} /\ IsSent(formed, next)
    BY ReplyFacts
  <1>2. UNCHANGED <<sk, pki, formed, expected, kept, received, answered, failures, spent>>
    BY DEF Reply
  <1>3. \A x \in wire' : IsSent(formed, x)
    BY <1>1 DEF NetInv
  <1> QED
    BY <1>2, <1>3 DEF NetInv

LEMMA ReplyFailsFacts ==
  ASSUME NetInv, NEW item \in kept, NEW r \in Replies, ReplyFails(item, r)
  PROVE  /\ ~ Relays!Opens(item.packet)
         /\ failures' = failures \cup
              {[at |-> item.at, err |-> "MacMismatch", packet |-> item.packet]}
         /\ item.at \in Nodes
  <1> DEFINE o == RecipeOf(formed, item.packet)
             result == reply_onion(MaxPathLength, private_key(item.at), item.onion, Plain(r))
  <1>1. /\ ~ result.ok
        /\ failures' = failures \cup
             {[at |-> item.at, err |-> result.err, packet |-> item.packet]}
    BY DEF ReplyFails
  <1>2. AreCalls(formed) /\ IsKept(formed, item)
    BY DEF NetInv
  <1>3. AnswersAs(o, item, r, result)
    BY <1>2, KeptIsAnswered
  <1>4. item.at \in Nodes
    BY <1>2, TrackedFacts DEF IsKept
  <1> HIDE DEF result
  <1> QED
    BY <1>1, <1>3, <1>4 DEF AnswersAs

LEMMA ReplyFailsKeeps ==
  ASSUME NetInv, NEW item \in kept, NEW r \in Replies, ReplyFails(item, r)
  PROVE  NetInv'
  <1> DEFINE f == [at |-> item.at, err |-> "MacMismatch", packet |-> item.packet]
  <1>1. failures' = failures \cup {f} /\ f.at \in Nodes
    BY ReplyFailsFacts
  <1> HIDE DEF f
  <1> QED
    BY <1>1 DEF NetInv, ReplyFails

LEMMA ItemReplaced ==
  ASSUME NEW n, NEW onion, NEW packet, NEW item,
         item = [to |-> n, onion |-> onion, packet |-> packet], NEW x, NEW u, NEW y,
         y = [item EXCEPT !.onion = x, !.packet = u]
  PROVE  y = [to |-> n, onion |-> x, packet |-> u]
  OBVIOUS

LEMMA CorruptFacts ==
  ASSUME NetInv, NEW item \in wire, NEW altered \in Alterations(item.onion),
         Corrupt(item, altered)
  PROVE  LET next == [to |-> item.to, onion |-> altered.onion,
                      packet |-> Relays!AlteredPacket(item.packet, altered.part)]
         IN  /\ wire' = (wire \ {item}) \cup {next} /\ IsSent(formed, next)
             /\ altered.part \in Relays!Parts
             /\ CanSpend("corrupt") /\ Spend("corrupt")
  <1> DEFINE u == Relays!AlteredPacket(item.packet, altered.part)
             changed == [item EXCEPT !.onion = altered.onion, !.packet = u]
             next == [to |-> item.to, onion |-> altered.onion, packet |-> u]
  <1>1. wire' = (wire \ {item}) \cup {changed} /\ CanSpend("corrupt") /\ Spend("corrupt")
    BY DEF Corrupt
  <1>2. AreCalls(formed) /\ spent \in [FaultKinds -> Nat] /\ IsSent(formed, item)
    BY DEF NetInv
  <1>3. IsSent(formed, changed) /\ altered.part \in Relays!Parts
    BY <1>2, AlteredIsSent
  <1>4. changed = next
    <2> DEFINE n == item.to
               onion == item.onion
               packet == item.packet
               x == altered.onion
    <2>1. item = [to |-> n, onion |-> onion, packet |-> packet]
      BY <1>2 DEF IsSent
    <2> HIDE DEF u, n, onion, packet, x
    <2>2. changed = [item EXCEPT !.onion = x, !.packet = u]
      BY DEF x
    <2> HIDE DEF changed
    <2>3. changed = [to |-> n, onion |-> x, packet |-> u]
      BY <2>1, <2>2, ItemReplaced
    <2> QED
      BY <2>3 DEF n, x
  <1> HIDE DEF changed, next
  <1> QED
    BY <1>1, <1>3, <1>4 DEF next

LEMMA CorruptKeeps ==
  ASSUME NetInv, NEW item \in wire, NEW altered \in Alterations(item.onion),
         Corrupt(item, altered)
  PROVE  NetInv'
  <1>1. PICK next : wire' = (wire \ {item}) \cup {next} /\ IsSent(formed, next)
    BY CorruptFacts
  <1>2. UNCHANGED <<sk, pki, formed, expected, kept, received, replied, answered, failures>>
    BY DEF Corrupt
  <1>3. \A x \in wire' : IsSent(formed, x)
    BY <1>1 DEF NetInv
  <1>4. spent' \in [FaultKinds -> Nat]
    BY DEF NetInv, Corrupt, Spend, FaultKinds
  <1> QED
    BY <1>2, <1>3, <1>4 DEF NetInv

LEMMA LoseKeeps ==
  ASSUME NetInv, NEW item \in wire, Lose(item)
  PROVE  NetInv'
  <1>1. spent' \in [FaultKinds -> Nat]
    BY DEF NetInv, Lose, Spend, FaultKinds
  <1> QED
    BY <1>1 DEF NetInv, Lose

LEMMA KeysKeep ==
  ASSUME NetInv, (\E n \in Nodes : Rotate(n)) \/ (\E n, m \in Nodes : Publish(n, m))
  PROVE  NetInv'
  <1>1. CASE \E n \in Nodes : Rotate(n)
    <2>1. PICK n \in Nodes : Rotate(n)
      BY <1>1
    <2>2. sk' \in [Nodes -> Nat] /\ spent' \in [FaultKinds -> Nat]
      BY <2>1 DEF NetInv, Rotate, Spend, FaultKinds
    <2> QED
      BY <2>1, <2>2 DEF NetInv, Rotate
  <1>2. CASE \E n, m \in Nodes : Publish(n, m)
    <2>1. PICK n \in Nodes, m \in Nodes : Publish(n, m)
      BY <1>2
    <2>2. pki' \in [Nodes -> [Nodes -> Nat]]
      BY <2>1 DEF NetInv, Publish
    <2> QED
      BY <2>1, <2>2 DEF NetInv, Publish
  <1> QED
    BY <1>1, <1>2

LEMMA NetInvInitially ==
  Init => NetInv
  <1> SUFFICES ASSUME Init PROVE NetInv
    OBVIOUS
  <1>1. sk \in [Nodes -> Nat] /\ pki \in [Nodes -> [Nodes -> Nat]]
        /\ spent \in [FaultKinds -> Nat]
    BY DEF Init
  <1>2. AreCalls(formed)
    <2>1. formed = [s \in Sessions |-> [state |-> "new"]]
      BY DEF Init
    <2>2. formed \in [Sessions -> Relays!FormState]
      BY <2>1 DEF Relays!FormState
    <2>3. \A s \in Sessions : formed[s].state # "formed"
      BY <2>1
    <2> QED
      BY <2>2, <2>3 DEF AreCalls
  <1>3. AreExpected(formed, expected)
    BY DEF Init, AreExpected
  <1> QED
    BY <1>1, <1>2, <1>3 DEF Init, NetInv

LEMMA NetInvStays ==
  NetInv /\ [Next]_vars => NetInv'
  <1> SUFFICES ASSUME NetInv, [Next]_vars PROVE NetInv'
    OBVIOUS
  <1>1. ASSUME NEW item \in wire, NEW again \in BOOLEAN, Process(item, again)
        PROVE  NetInv'
    BY <1>1, RelayKeeps, ReceiveKeeps, AcceptKeeps, RejectKeeps DEF Process
  <1>2. ASSUME NEW item \in kept, NEW r \in Replies, Answer(item, r) PROVE NetInv'
    BY <1>2, ReplyKeeps, ReplyFailsKeeps DEF Answer
  <1>3. CASE UNCHANGED vars
    BY <1>3 DEF vars, NetInv
  <1> QED
    BY <1>1, <1>2, <1>3, KeysKeep, FormKeeps, FormFailsKeeps, ForgetKeeps, LoseKeeps,
       CorruptKeeps DEF Next

-----------------------------------------------------------------------------
(* L.  What follows for every state.                                       *)

LEMMA ForthOnionIsShaped ==
  ASSUME NEW o, IsOrder(o), NEW h \in 1 .. n_forward(o)
  PROVE  IsShaped(ForthOnion(o, h), ForwardLen(o), o.payload.len)
  <1> DEFINE t == [leg |-> "forward", hop |-> h, mauled |-> {}]
             s == sections_forward(o)[h - 1]
  <1>1. t.leg = "forward" /\ t.hop = h /\ t.mauled = {}
    OBVIOUS
  <1> HIDE DEF t
  <1>2. h \in 1 .. Len(LegHops(o, "forward"))
    BY DEF LegHops, n_forward
  <1>3. IsOnLeg(o, t) /\ ~ IsUnsealed(t)
    BY <1>1, <1>2, EmptyIsIntact DEF IsOnLeg, Legs, ReplyBytes, IsUnsealed
  <1>4. BackwardFits(o, t, s)
    BY <1>1 DEF BackwardFits, HonestSection
  <1>5. ForthOnion(o, h) = LegOnion(o, t.leg, t.hop, s)
    BY <1>1 DEF ForthOnion, LegOnion, LegLayers
  <1>6. PacketLen(o, t) = o.payload.len
    BY <1>1 DEF PacketLen, CarriedLen
  <1>7. Fits(o, t, LegOnion(o, t.leg, t.hop, s))
    <2> HIDE DEF s
    <2> QED
      BY <1>3, <1>4, LegOnionFits
  <1> QED
    BY <1>5, <1>6, <1>7 DEF Fits

LEMMA ShapedIsOnion ==
  ASSUME NEW onion, NEW l, NEW m, IsShaped(onion, l, m)
  PROVE  IsOnion(onion)
  <1>1. DOMAIN onion.header = 1 .. MaxPathLength
        /\ \A c \in 1 .. MaxPathLength : IsBlob(onion.header[c])
    BY DEF IsShaped, IsHeader, IsCell
  <1>2. IsBlob(onion.forward) /\ IsBlob(onion.backward.vec)
    BY DEF IsShaped
  <1> QED
    BY <1>1, <1>2, BlobIsByteString DEF IsOnion

LEMMA NetInvTypes ==
  NetInv => TypeOK
  <1> SUFFICES ASSUME NetInv PROVE TypeOK
    OBVIOUS
  <1>1. ASSUME NEW n \in Nodes, NEW e \in expected[n]
        PROVE  e.session \in Sessions /\ IsOnion(e.response.onion)
    <2> DEFINE o == Recipe(e.session, formed[e.session])
    <2>1. IsExpected(formed, n, e)
      BY <1>1 DEF NetInv, AreExpected
    <2>2. e.session \in Sessions /\ IsOrder(o) /\ e.response = Response(o)
      BY <2>1 DEF NetInv, AreCalls, IsExpected
    <2> HIDE DEF o
    <2>3. e.response.onion = ForthOnion(o, n_forward(o))
      BY <2>2 DEF Response
    <2>4. n_forward(o) \in 1 .. n_forward(o)
      BY <2>2, OrderFacts
    <2>5. IsOnion(ForthOnion(o, n_forward(o)))
      BY <2>2, <2>4, ForthOnionIsShaped, ShapedIsOnion
    <2> QED
      BY <2>2, <2>3, <2>5
  <1>2. ASSUME NEW t, NEW n, NEW onion, IsTracked(formed, t, n, onion)
        PROVE  n \in Nodes /\ IsOnion(onion) /\ t \in Relays!Packet
    <2>1. n \in Nodes
      BY <1>2, TrackedFacts DEF NetInv
    <2> QED
      BY <1>2, <2>1, ShapedIsOnion DEF IsTracked, Fits
  <1>3. \A item \in wire :
          item.to \in Nodes /\ IsOnion(item.onion) /\ item.packet \in Relays!Packet
    BY <1>2 DEF NetInv, IsSent
  <1>4. \A item \in kept :
          item.at \in Nodes /\ IsOnion(item.onion) /\ item.packet \in Relays!Packet
    BY <1>2 DEF NetInv, IsKept
  <1> QED
    BY <1>1, <1>3, <1>4 DEF NetInv, TypeOK

LEMMA NetInvSizes ==
  NetInv => UniformSize
  <1> SUFFICES ASSUME NetInv, NEW item \in wire
               PROVE  /\ \A c \in DOMAIN item.onion.header :
                           item.onion.header[c].len = single_header_length
                      /\ item.onion.forward.len = total_header_length + 8
                                                  + Relays!Order(item.packet).payload.len
                      /\ item.onion.backward.vec.len = CarriedBytes(item.packet)
    BY DEF UniformSize
  <1> DEFINE t == item.packet
             order == formed[t.session].order
             o == RecipeOf(formed, t)
  <1>1. IsTracked(formed, t, item.to, item.onion) /\ AreCalls(formed)
    BY DEF NetInv, IsSent
  <1>2. IsShaped(item.onion, ForwardLen(o), PacketLen(o, t))
    BY <1>1 DEF IsTracked, Fits
  <1>3. order \in Orders
    BY <1>1, TrackedFacts
  <1>4. o.payload = Plain(order.payload) /\ order.payload \in Payloads
    BY <1>3 DEF RecipeOf, Recipe, Payloads
  <1>5. o.payload.len = order.payload.len
    BY <1>4, PlainIsBlob
  <1>6. PacketLen(o, t) = CarriedBytes(t)
    <2>1. CASE t.leg = "forward"
      BY <1>5, <2>1 DEF PacketLen, CarriedLen, CarriedBytes, Relays!Order
    <2>2. CASE t.leg # "forward"
      <3>1. t.reply \in Replies
        BY <1>1, <2>2 DEF IsTracked, Relays!Packet
      <3>2. Plain(t.reply).len = t.reply.len
        BY <3>1, PlainIsBlob DEF Payloads
      <3> QED
        BY <2>2, <3>2 DEF PacketLen, CarriedLen, CarriedBytes, ReplyBytes
    <2> QED
      BY <2>1, <2>2
  <1>7. \A c \in DOMAIN item.onion.header : item.onion.header[c].len = single_header_length
    BY <1>2 DEF IsShaped, IsHeader, IsCell
  <1>8. item.onion.forward.len = total_header_length + 8 + Relays!Order(t).payload.len
    BY <1>2, <1>5 DEF IsShaped, ForwardLen, Relays!Order
  <1>9. item.onion.backward.vec.len = CarriedBytes(t)
    BY <1>2, <1>6 DEF IsShaped
  <1> QED
    BY <1>7, <1>8, <1>9

LEMMA NetInvPredicts ==
  NetInv => ArrivesAsPredicted
  <1> SUFFICES ASSUME NetInv, NEW n \in Nodes, NEW e \in expected[n], NEW item \in wire,
                      item.packet.session = e.session, item.packet.mauled = {},
                      Relays!AtEnd(item.packet)
               PROVE  IF item.packet.leg = "forward" THEN item.onion = e.response.onion
                      ELSE item.onion.header = e.response.identifier
    BY DEF ArrivesAsPredicted
  <1> DEFINE t == item.packet
             o == RecipeOf(formed, t)
  <1>1. IsTracked(formed, t, item.to, item.onion) /\ AreCalls(formed)
    BY DEF NetInv, IsSent
  <1>2. /\ IsOrder(o) /\ t.leg \in Legs /\ t.hop = Len(LegHops(o, t.leg))
        /\ Fits(o, t, item.onion)
    BY <1>1, TrackedFacts, RelaysAgree DEF IsTracked
  <1>3. item.onion = LegOnion(o, t.leg, t.hop, item.onion.backward)
        /\ BackwardFits(o, t, item.onion.backward)
    BY <1>2 DEF Fits, IsUnsealed
  <1>4. e.response = Response(o)
    BY DEF NetInv, AreExpected, IsExpected, RecipeOf
  <1>5. CASE t.leg = "forward"
    <2> HIDE DEF o
    <2>1. t.hop = n_forward(o)
      BY <1>2, <1>5 DEF LegHops, n_forward
    <2>2. item.onion.backward = sections_forward(o)[t.hop - 1]
      BY <1>3, <1>5 DEF BackwardFits, HonestSection
    <2>3. item.onion = ForthOnion(o, t.hop)
      BY <1>3, <1>5, <2>2 DEF LegOnion, LegLayers, ForthOnion
    <2>4. e.response.onion = ForthOnion(o, n_forward(o))
      BY <1>4 DEF Response
    <2> QED
      BY <1>5, <2>1, <2>3, <2>4
  <1>6. CASE t.leg = "backward"
    <2> HIDE DEF o
    <2>1. t.hop = n_backward(o)
      BY <1>2, <1>6 DEF LegHops, n_backward
    <2>2. item.onion.header = layers_backward(o)[t.hop].headers
      BY <1>3, <1>6 DEF LegOnion, LegLayers
    <2>3. e.response.identifier = identifier(o)
      BY <1>4 DEF Response
    <2> QED
      BY <1>6, <2>1, <2>2, <2>3 DEF identifier
  <1> QED
    BY <1>2, <1>5, <1>6 DEF Legs

(* Every variable keeps its type, whatever the network does to the onions. *)
THEOREM TypesAreKept == Spec => []TypeOK
  <1> QED
    BY NetInvInitially, NetInvStays, NetInvTypes, PTL DEF Spec

(* Whatever the paths, their lengths and the hops that are behind or       *)
(* ahead: all onions of an order have one size on every link, altered      *)
(* ones included, but for the section that a reply is written to.          *)
THEOREM SizesAreUniform == Spec => []UniformSize
  <1> QED
    BY NetInvInitially, NetInvStays, NetInvSizes, PTL DEF Spec

(* form_onion predicts the bytes that reach the last hop of the forward    *)
(* path, and the header that the reply has when it reaches the sender.     *)
THEOREM OnionsArriveAsPredicted == Spec => []ArrivesAsPredicted
  <1> QED
    BY NetInvInitially, NetInvStays, NetInvPredicts, PTL DEF Spec

-----------------------------------------------------------------------------
(* M.  Packets tell onions apart.  An onion that nobody altered is what    *)
(* its packet says it is.  The others are traced back to their last        *)
(* alteration: the item that alteration k put on the wire is A[k].         *)

(* The backward section of packet t was at the altered onion's, or, on the *)
(* other leg, in the answer to what that one had become.                   *)
Grows(o, a, t, s) ==
  LET m == a.packet.hop
  IN  /\ m \in Nat
      /\ IF t.leg = a.packet.leg
         THEN m <= t.hop /\ IsTrace(LegKeys(o, t.leg), m, t.hop, a.onion.backward, s)
         ELSE /\ t.leg = "backward" /\ m <= n_forward(o)
              /\ \E f : /\ IsTrace(LegKeys(o, "forward"), m, n_forward(o),
                                   a.onion.backward, f)
                        /\ IsTrace(LegKeys(o, "backward"), 1, t.hop,
                                   ae_enc(ReplyKey(o), ae_unwrap(ReplyKey(o), f).tag,
                                          Plain(t.reply)), s)

(* An onion whose header or forward section was altered is refused by the  *)
(* next node: it is still where it was altered.                            *)
Descends(calls, a, t, onion) ==
  IF IsUnsealed(t) THEN onion = a.onion
  ELSE Grows(RecipeOf(calls, t), a, t, onion.backward)

IsDated(calls, A, last, t, onion) ==
  /\ t.version <= last
  /\ t.version = 0 => t.mauled = {}
  /\ t.version # 0 => Descends(calls, A[t.version], t, onion)

AreDated(calls, A, last, items) ==
  \A x \in items : IsDated(calls, A, last, x.packet, x.onion)

DateInv ==
  \E A : AreDated(formed, A, spent["corrupt"], wire \cup kept)

LEMMA GrowsUnique ==
  ASSUME NEW o, IsOrder(o), NEW a, NEW t, t.hop \in Nat \ {0}, NEW x, Grows(o, a, t, x),
         NEW y, Grows(o, a, t, y)
  PROVE  x = y
  <1> DEFINE m == a.packet.hop
             first == a.onion.backward
             fk == LegKeys(o, "forward")
             bk == LegKeys(o, "backward")
             k == LegKeys(o, t.leg)
             n == n_forward(o)
             h == t.hop
             answer(f) == ae_enc(ReplyKey(o), ae_unwrap(ReplyKey(o), f).tag, Plain(t.reply))
  <1>1. m \in Nat /\ h \in Nat /\ 1 <= h /\ n \in Nat
    BY OrderFacts DEF Grows
  <1>2. CASE t.leg = a.packet.leg
    <2>1. m <= h /\ IsTrace(k, m, h, first, x) /\ IsTrace(k, m, h, first, y)
      BY <1>2 DEF Grows
    <2> HIDE DEF m, first, k, h
    <2> QED
      BY <1>1, <2>1, TraceUnique
  <1>3. CASE t.leg # a.packet.leg
    <2>1. PICK f : IsTrace(fk, m, n, first, f) /\ IsTrace(bk, 1, h, answer(f), x) /\ m <= n
      BY <1>3 DEF Grows
    <2>2. PICK g : IsTrace(fk, m, n, first, g) /\ IsTrace(bk, 1, h, answer(g), y)
      BY <1>3 DEF Grows
    <2>3. f = g
      <3> HIDE DEF m, n, first, fk, answer, bk, h
      <3> QED
        BY <1>1, <2>1, <2>2, TraceUnique
    <2> DEFINE b == answer(f)
    <2>4. IsTrace(bk, 1, h, b, x) /\ IsTrace(bk, 1, h, b, y)
      BY <2>1, <2>2, <2>3
    <2> HIDE DEF b, bk, h
    <2> QED
      BY <1>1, <2>4, TraceUnique
  <1> QED
    BY <1>2, <1>3

LEMMA TrackedUnique ==
  ASSUME NEW calls, AreCalls(calls), NEW A, NEW last, NEW t,
         NEW n, NEW x, IsTracked(calls, t, n, x), IsDated(calls, A, last, t, x),
         NEW m, NEW y, IsTracked(calls, t, m, y), IsDated(calls, A, last, t, y)
  PROVE  n = m /\ x = y
  <1> DEFINE o == RecipeOf(calls, t)
  <1>1. n = m
    BY DEF IsTracked
  <1>2. IsOrder(o) /\ Fits(o, t, x) /\ Fits(o, t, y) /\ t.hop \in Nat \ {0}
    BY TrackedFacts DEF IsTracked
  <1>3. CASE IsUnsealed(t)
    <2>1. t.version # 0
      BY <1>3 DEF IsDated, IsUnsealed
    <2> QED
      BY <1>1, <1>3, <2>1 DEF IsDated, Descends
  <1>4. CASE ~ IsUnsealed(t)
    <2>1. /\ x = LegOnion(o, t.leg, t.hop, x.backward) /\ BackwardFits(o, t, x.backward)
          /\ y = LegOnion(o, t.leg, t.hop, y.backward) /\ BackwardFits(o, t, y.backward)
      BY <1>2, <1>4 DEF Fits
    <2>2. x.backward = y.backward
      <3>1. CASE t.version = 0
        <4>1. t.mauled = {}
          BY <3>1 DEF IsDated
        <4> QED
          BY <2>1, <4>1 DEF BackwardFits
      <3>2. CASE t.version # 0
        <4>1. Grows(o, A[t.version], t, x.backward) /\ Grows(o, A[t.version], t, y.backward)
          BY <1>4, <3>2 DEF IsDated, Descends
        <4> DEFINE a == A[t.version]
                   s_x == x.backward
                   s_y == y.backward
        <4> HIDE DEF o, a, s_x, s_y
        <4>2. Grows(o, a, t, s_x) /\ Grows(o, a, t, s_y)
          BY <4>1 DEF a, s_x, s_y
        <4>3. s_x = s_y
          BY <1>2, <4>2, GrowsUnique
        <4> QED
          BY <4>3 DEF s_x, s_y
      <3> QED
        BY <3>1, <3>2
    <2>3. x = y
      BY <2>1, <2>2
    <2> QED
      BY <1>1, <2>3
  <1> QED
    BY <1>3, <1>4

(* Taking an item off the wire takes its packet off, and no other.         *)
LEMMA PacketsOnWire ==
  ASSUME NetInv, DateInv, NEW item \in wire
  PROVE  Packets(wire \ {item}) = Packets(wire) \ {item.packet}
  <1>1. PICK A : AreDated(formed, A, spent["corrupt"], wire \cup kept)
    BY DEF DateInv
  <1>2. ASSUME NEW x \in wire, x.packet = item.packet PROVE x = item
    <2> DEFINE t == item.packet
               last == spent["corrupt"]
    <2>1. /\ IsSent(formed, x) /\ IsSent(formed, item) /\ AreCalls(formed)
          /\ IsDated(formed, A, last, t, x.onion) /\ IsDated(formed, A, last, t, item.onion)
      BY <1>1, <1>2 DEF NetInv, AreDated
    <2>2. /\ IsTracked(formed, t, x.to, x.onion) /\ IsTracked(formed, t, item.to, item.onion)
          /\ x = [to |-> x.to, onion |-> x.onion, packet |-> t]
          /\ item = [to |-> item.to, onion |-> item.onion, packet |-> t]
      BY <1>2, <2>1 DEF IsSent
    <2> HIDE DEF t, last
    <2>3. x.to = item.to /\ x.onion = item.onion
      BY <2>1, <2>2, TrackedUnique
    <2> QED
      BY <2>2, <2>3
  <1> QED
    BY <1>2 DEF Packets

LEMMA HopGrows ==
  ASSUME NEW o, NEW a, NEW t, t.hop \in Nat \ {0}, NEW s, Grows(o, a, t, s),
         NEW u, u.leg = t.leg, u.hop = t.hop + 1, u.reply = t.reply
  PROVE  Grows(o, a, u, ae_unwrap(LegKeys(o, t.leg)[t.hop], s))
  <1> DEFINE m == a.packet.hop
             first == a.onion.backward
             bk == LegKeys(o, "backward")
             k == LegKeys(o, t.leg)
             n == n_forward(o)
             h == t.hop
             next == ae_unwrap(k[h], s)
  <1>1. m \in Nat /\ h \in Nat /\ 1 <= h
    BY DEF Grows
  <1>2. CASE t.leg = a.packet.leg
    <2>1. m <= h /\ IsTrace(k, m, h, first, s)
      BY <1>2 DEF Grows
    <2>2. IsTrace(k, m, h + 1, first, next)
      <3> HIDE DEF m, first, k, h
      <3> QED
        BY <1>1, <2>1, TraceStep
    <2>3. m <= h + 1 /\ u.leg = a.packet.leg /\ LegKeys(o, u.leg) = k /\ u.hop = h + 1
      BY <1>1, <1>2, <2>1
    <2> HIDE DEF next, k, h, first
    <2>4. Grows(o, a, u, next)
      BY <1>1, <2>2, <2>3 DEF Grows, first
    <2> QED
      BY <2>4 DEF next, k, h
  <1>3. CASE t.leg # a.packet.leg
    <2> DEFINE answer(f) ==
                 ae_enc(ReplyKey(o), ae_unwrap(ReplyKey(o), f).tag, Plain(t.reply))
    <2>1. PICK f : IsTrace(LegKeys(o, "forward"), m, n, first, f)
                   /\ IsTrace(bk, 1, h, answer(f), s)
      BY <1>3 DEF Grows
    <2> DEFINE b == answer(f)
    <2>2. t.leg = "backward" /\ m <= n /\ bk = k /\ u.leg = "backward" /\ u.leg # a.packet.leg
      BY <1>3 DEF Grows
    <2>3. IsTrace(bk, 1, h + 1, b, ae_unwrap(bk[h], s))
      <3>1. IsTrace(bk, 1, h, b, s)
        BY <2>1
      <3> HIDE DEF b, bk, h
      <3> QED
        BY <1>1, <3>1, TraceStep
    <2>4. ae_unwrap(bk[h], s) = next
      BY <2>2
    <2> HIDE DEF next
    <2>5. IsTrace(bk, 1, u.hop, ae_enc(ReplyKey(o), ae_unwrap(ReplyKey(o), f).tag,
                                       Plain(u.reply)), next)
      BY <2>3, <2>4
    <2>6. Grows(o, a, u, next)
      BY <1>1, <2>1, <2>2, <2>5 DEF Grows
    <2> QED
      BY <2>6 DEF next
  <1> QED
    BY <1>2, <1>3

LEMMA AnswerGrows ==
  ASSUME NEW o, IsOrder(o), NEW a, NEW t, t.leg = "forward", t.hop = n_forward(o), NEW s,
         Grows(o, a, t, s), NEW u, u.leg = "backward", u.hop = 1
  PROVE  Grows(o, a, u, ae_enc(ReplyKey(o), ae_unwrap(ReplyKey(o), s).tag, Plain(u.reply)))
  <1> DEFINE m == a.packet.hop
             first == a.onion.backward
             fk == LegKeys(o, "forward")
             bk == LegKeys(o, "backward")
             n == n_forward(o)
             answer == ae_enc(ReplyKey(o), ae_unwrap(ReplyKey(o), s).tag, Plain(u.reply))
  <1>1. m \in Nat /\ t.leg = a.packet.leg /\ m <= n /\ IsTrace(fk, m, n, first, s)
    BY DEF Grows
  <1>2. IsTrace(bk, 1, 1, answer, answer)
    <2> HIDE DEF answer, bk
    <2> QED
      BY TraceStart
  <1>3. u.leg # a.packet.leg /\ IsTrace(bk, 1, u.hop, answer, answer)
    BY <1>1, <1>2
  <1>4. \E f : /\ IsTrace(fk, m, n, first, f)
               /\ IsTrace(bk, 1, u.hop,
                          ae_enc(ReplyKey(o), ae_unwrap(ReplyKey(o), f).tag, Plain(u.reply)),
                          answer)
    <2>1. answer = ae_enc(ReplyKey(o), ae_unwrap(ReplyKey(o), s).tag, Plain(u.reply))
      OBVIOUS
    <2> HIDE DEF answer, fk, bk, m, n, first
    <2> QED
      BY <1>1, <1>3, <2>1
  <1> HIDE DEF answer
  <1>5. Grows(o, a, u, answer)
    BY <1>1, <1>3, <1>4, Zenon DEF Grows
  <1> QED
    BY <1>5 DEF answer

LEMMA HopIsDated ==
  ASSUME NEW calls, NEW A, NEW last, NEW t, t \in Relays!Packet, ~ IsUnsealed(t), NEW onion,
         IsDated(calls, A, last, t, onion), NEW u, u = [t EXCEPT !.hop = t.hop + 1]
  PROVE  IsDated(calls, A, last, u, NextOnion(RecipeOf(calls, t), t, onion))
  <1> DEFINE o == RecipeOf(calls, t)
             x == NextOnion(o, t, onion)
             s == onion.backward
             a == A[t.version]
             next == ae_unwrap(LegKeys(o, t.leg)[t.hop], s)
  <1>1. /\ u.leg = t.leg /\ u.hop = t.hop + 1 /\ u.reply = t.reply /\ u.mauled = t.mauled
        /\ u.session = t.session /\ u.version = t.version /\ t.hop \in Nat \ {0}
    BY DEF Relays!Packet
  <1> HIDE DEF o, next
  <1>2. x.backward = next
    BY DEF NextOnion, LegOnion, next
  <1>3. RecipeOf(calls, u) = o /\ ~ IsUnsealed(u)
    BY <1>1 DEF RecipeOf, IsUnsealed, o
  <1>4. t.version # 0 => Grows(o, a, u, next)
    <2>1. t.version # 0 => Grows(o, a, t, s)
      BY DEF IsDated, Descends, o
    <2> HIDE DEF a, s
    <2> QED
      BY <1>1, <2>1, HopGrows DEF next
  <1> HIDE DEF x
  <1>5. IsDated(calls, A, last, u, x)
    BY <1>1, <1>2, <1>3, <1>4 DEF IsDated, Descends
  <1> QED
    BY <1>5 DEF x, o

LEMMA AnswerIsDated ==
  ASSUME NEW calls, AreCalls(calls), NEW A, NEW last, NEW item, IsKept(calls, item),
         IsDated(calls, A, last, item.packet, item.onion), NEW r, NEW u,
         u = Relays!ReplyPacket(item.packet, r)
  PROVE  IsDated(calls, A, last, u,
                 AnswerOnion(RecipeOf(calls, item.packet), item.onion, Plain(r)))
  <1> DEFINE t == item.packet
             o == RecipeOf(calls, t)
             x == AnswerOnion(o, item.onion, Plain(r))
             s == item.onion.backward
             a == A[t.version]
             answer == ae_enc(ReplyKey(o), ae_unwrap(ReplyKey(o), s).tag, Plain(r))
  <1>1. /\ u.leg = "backward" /\ u.hop = 1 /\ u.reply = r /\ u.mauled = t.mauled
        /\ u.session = t.session /\ u.version = t.version
    BY DEF Relays!ReplyPacket
  <1>2. IsTracked(calls, t, item.at, item.onion) /\ ~ IsUnsealed(t) /\ t.leg = "forward"
        /\ t.hop = n_forward(o)
    BY DEF IsKept, LegHops, n_forward
  <1>3. IsOrder(o)
    BY <1>2, TrackedFacts
  <1> HIDE DEF o, answer
  <1>4. x.backward = answer
    BY DEF AnswerOnion, LegOnion, answer
  <1>5. RecipeOf(calls, u) = o /\ ~ IsUnsealed(u)
    BY <1>1, <1>2 DEF RecipeOf, IsUnsealed, o
  <1>6. t.version # 0 => Grows(o, a, u, answer)
    <2>1. t.version # 0 => Grows(o, a, t, s)
      BY <1>2 DEF IsDated, Descends, o
    <2>2. answer = ae_enc(ReplyKey(o), ae_unwrap(ReplyKey(o), s).tag, Plain(u.reply))
      BY <1>1 DEF answer
    <2> HIDE DEF a, s, t
    <2> QED
      BY <1>1, <1>2, <1>3, <2>1, <2>2, AnswerGrows
  <1> HIDE DEF x
  <1>7. IsDated(calls, A, last, u, x)
    BY <1>1, <1>4, <1>5, <1>6 DEF IsDated, Descends
  <1> QED
    BY <1>7 DEF x, o

LEMMA DatedStays ==
  ASSUME NEW calls, NEW later, Extends(later, calls), NEW A, NEW last, NEW t, NEW n, NEW onion,
         IsTracked(calls, t, n, onion), IsDated(calls, A, last, t, onion)
  PROVE  IsDated(later, A, last, t, onion)
  <1>1. RecipeOf(later, t) = RecipeOf(calls, t)
    BY DEF IsTracked, Extends, Relays!Packet, RecipeOf
  <1> QED
    BY <1>1 DEF IsDated, Descends

(* A step that alters nothing. *)
LEMMA DatesKeep ==
  ASSUME NetInv, DateInv, Extends(formed', formed), spent'["corrupt"] = spent["corrupt"],
         NEW fresh, wire' \cup kept' \subseteq (wire \cup kept) \cup fresh,
         \A A : AreDated(formed, A, spent["corrupt"], wire \cup kept)
                  => AreDated(formed', A, spent["corrupt"], fresh)
  PROVE  DateInv'
  <1> DEFINE last == spent["corrupt"]
  <1>1. PICK A : AreDated(formed, A, last, wire \cup kept)
    BY DEF DateInv
  <1>2. ASSUME NEW x \in wire \cup kept PROVE IsDated(formed', A, last, x.packet, x.onion)
    <2>1. IsDated(formed, A, last, x.packet, x.onion)
      BY <1>1 DEF AreDated
    <2>2. \E n : IsTracked(formed, x.packet, n, x.onion)
      BY DEF NetInv, IsSent, IsKept
    <2> QED
      BY <2>1, <2>2, DatedStays
  <1>3. AreDated(formed', A, last, fresh)
    BY <1>1
  <1>4. AreDated(formed', A, last, wire' \cup kept')
    BY <1>2, <1>3 DEF AreDated
  <1>5. AreDated(formed', A, spent'["corrupt"], wire' \cup kept')
    BY <1>4
  <1> QED
    BY <1>5 DEF DateInv

LEMMA FormedStays ==
  ASSUME NetInv, formed' = formed
  PROVE  Extends(formed', formed)
  BY DEF NetInv, Extends

(* Repeating an item alters nothing. *)
LEMMA TakeAltersNothing ==
  ASSUME NetInv, NEW item, NEW again, NEW more, Take(item, again, more)
  PROVE  spent'["corrupt"] = spent["corrupt"] /\ wire' \subseteq wire \cup more
  BY DEF NetInv, Take, Spend, FaultKinds

LEMMA FormDates ==
  ASSUME NetInv, DateInv, NEW s \in Sessions, NEW o \in Orders, Form(s, o)
  PROVE  DateInv'
  <1> DEFINE first == [to |-> o.forward[1], onion |-> ForthOnion(Recipe(s, formed'[s]), 1),
                       packet |-> Relays!FirstPacket(s)]
  <1>1. Extends(formed', formed) /\ wire' = wire \cup {first}
    BY FormFacts
  <1>2. kept' = kept /\ spent' = spent
    BY DEF Form
  <1>3. first.packet.version = 0 /\ first.packet.mauled = {}
    BY DEF Relays!FirstPacket
  <1>4. spent["corrupt"] \in Nat
    BY DEF NetInv, FaultKinds
  <1> HIDE DEF first
  <1>5. ASSUME NEW A PROVE AreDated(formed', A, spent["corrupt"], {first})
    BY <1>3, <1>4 DEF AreDated, IsDated
  <1>6. wire' \cup kept' \subseteq (wire \cup kept) \cup {first}
    BY <1>1, <1>2
  <1> QED
    BY <1>1, <1>2, <1>5, <1>6, DatesKeep

LEMMA RelayDates ==
  ASSUME NetInv, DateInv, NEW item \in wire, NEW again, Relay(item, again)
  PROVE  DateInv'
  <1> DEFINE t == item.packet
             o == RecipeOf(formed, t)
             u == [t EXCEPT !.hop = t.hop + 1]
             x == NextOnion(o, t, item.onion)
             next == [to |-> LegHops(o, t.leg)[t.hop + 1], onion |-> x, packet |-> u]
             last == spent["corrupt"]
  <1>1. Take(item, again, {next}) /\ ~ IsUnsealed(t) /\ IsSent(formed, item)
    BY RelayFacts DEF NetInv, Relays!Opens, Relays!Altered, IsUnsealed
  <1>2. formed' = formed /\ kept' = kept
    BY DEF Relay
  <1>3. t \in Relays!Packet
    BY <1>1 DEF IsSent, IsTracked
  <1>4. ASSUME NEW A, AreDated(formed, A, last, wire \cup kept)
        PROVE  IsDated(formed, A, last, u, x)
    <2> DEFINE onion == item.onion
    <2>1. IsDated(formed, A, last, t, onion) /\ u = [t EXCEPT !.hop = t.hop + 1]
      BY <1>4 DEF AreDated
    <2> HIDE DEF u, last, onion, t
    <2>2. IsDated(formed, A, last, u, NextOnion(RecipeOf(formed, t), t, onion))
      BY <1>1, <1>3, <2>1, HopIsDated
    <2> QED
      BY <2>2 DEF onion
  <1>5. next.packet = u /\ next.onion = x
    OBVIOUS
  <1> HIDE DEF next, u, x
  <1>6. ASSUME NEW A, AreDated(formed, A, last, wire \cup kept)
        PROVE  AreDated(formed', A, last, {next})
    BY <1>2, <1>4, <1>5, <1>6 DEF AreDated
  <1>7. spent'["corrupt"] = last /\ wire' \subseteq wire \cup {next}
    BY <1>1, TakeAltersNothing
  <1>8. Extends(formed', formed)
    BY <1>2, FormedStays
  <1>9. wire' \cup kept' \subseteq (wire \cup kept) \cup {next}
    BY <1>2, <1>7
  <1> QED
    BY <1>6, <1>7, <1>8, <1>9, DatesKeep

LEMMA ReceiveDates ==
  ASSUME NetInv, DateInv, NEW item \in wire, NEW again, Receive(item, again)
  PROVE  DateInv'
  <1> DEFINE k == [at |-> item.to, onion |-> item.onion, packet |-> item.packet]
             last == spent["corrupt"]
  <1>1. Take(item, again, {}) /\ kept' = kept \cup {k} /\ formed' = formed
    BY DEF Receive
  <1>2. k.packet = item.packet /\ k.onion = item.onion
    OBVIOUS
  <1> HIDE DEF k
  <1>3. ASSUME NEW A, AreDated(formed, A, last, wire \cup kept)
        PROVE  AreDated(formed', A, last, {k})
    BY <1>1, <1>2, <1>3 DEF AreDated
  <1>4. spent'["corrupt"] = last /\ wire' \subseteq wire \cup {}
    BY <1>1, TakeAltersNothing
  <1>5. Extends(formed', formed)
    BY <1>1, FormedStays
  <1>6. wire' \cup kept' \subseteq (wire \cup kept) \cup {k}
    BY <1>1, <1>4
  <1> QED
    BY <1>3, <1>4, <1>5, <1>6, DatesKeep

LEMMA ReplyDates ==
  ASSUME NetInv, DateInv, NEW item \in kept, NEW r \in Replies, Reply(item, r)
  PROVE  DateInv'
  <1> DEFINE o == RecipeOf(formed, item.packet)
             u == Relays!ReplyPacket(item.packet, r)
             x == AnswerOnion(o, item.onion, Plain(r))
             next == [to |-> o.hops_backward[1], onion |-> x, packet |-> u]
             last == spent["corrupt"]
  <1>1. wire' = wire \cup {next}
    BY ReplyFacts
  <1>2. formed' = formed /\ kept' = kept /\ spent' = spent
    BY DEF Reply
  <1>3. AreCalls(formed) /\ IsKept(formed, item)
    BY DEF NetInv
  <1>4. next.packet = u /\ next.onion = x /\ u = Relays!ReplyPacket(item.packet, r)
    OBVIOUS
  <1>5. ASSUME NEW A, AreDated(formed, A, last, wire \cup kept)
        PROVE  IsDated(formed, A, last, u, x)
    <2>1. IsDated(formed, A, last, item.packet, item.onion)
      BY <1>5 DEF AreDated
    <2> HIDE DEF u, last
    <2>2. IsDated(formed, A, last, u,
                  AnswerOnion(RecipeOf(formed, item.packet), item.onion, Plain(r)))
      BY <1>3, <1>4, <2>1, AnswerIsDated
    <2> QED
      BY <2>2
  <1> HIDE DEF next, u, x
  <1>6. ASSUME NEW A, AreDated(formed, A, last, wire \cup kept)
        PROVE  AreDated(formed', A, last, {next})
    BY <1>2, <1>4, <1>5, <1>6 DEF AreDated
  <1>7. Extends(formed', formed)
    BY <1>2, FormedStays
  <1>8. wire' \cup kept' \subseteq (wire \cup kept) \cup {next}
    BY <1>1, <1>2
  <1> QED
    BY <1>2, <1>6, <1>7, <1>8, DatesKeep

(* Steps after which the wire holds nothing new. *)
LEMMA QuietDates ==
  ASSUME NetInv, DateInv, Extends(formed', formed),
         wire' \subseteq wire, kept' = kept, spent'["corrupt"] = spent["corrupt"]
  PROVE  DateInv'
  <1>1. ASSUME NEW A PROVE AreDated(formed', A, spent["corrupt"], {})
    BY DEF AreDated
  <1>2. wire' \cup kept' \subseteq (wire \cup kept) \cup {}
    OBVIOUS
  <1> QED
    BY <1>1, <1>2, DatesKeep

(* The item that an alteration puts on the wire is where its onion is      *)
(* traced back to.                                                         *)
LEMMA AlteredIsDated ==
  ASSUME NEW calls, NEW A, NEW last \in Nat, NEW next, next.packet.hop \in Nat,
         next.packet.version = last + 1, A[last + 1] = next
  PROVE  IsDated(calls, A, last + 1, next.packet, next.onion)
  <1> DEFINE t == next.packet
             o == RecipeOf(calls, t)
             s == next.onion.backward
  <1>1. t.version <= last + 1 /\ t.version # 0
    OBVIOUS
  <1>2. Descends(calls, A[t.version], t, next.onion)
    <2>1. IsTrace(LegKeys(o, t.leg), t.hop, t.hop, s, s)
      <3> DEFINE keys == LegKeys(o, t.leg)
                 h == t.hop
      <3>1. h \in Nat
        OBVIOUS
      <3> HIDE DEF keys, h, s
      <3>2. IsTrace(keys, h, h, s, s)
        BY <3>1, TraceStart
      <3> QED
        BY <3>2 DEF keys, h
    <2>2. Grows(o, next, t, s)
      <3> HIDE DEF o
      <3> QED
        BY <2>1 DEF Grows
    <2> QED
      BY <2>2 DEF Descends
  <1> QED
    BY <1>1, <1>2 DEF IsDated

LEMMA CorruptDates ==
  ASSUME NetInv, DateInv, NEW item \in wire, NEW altered \in Alterations(item.onion),
         Corrupt(item, altered)
  PROVE  DateInv'
  <1> DEFINE u == Relays!AlteredPacket(item.packet, altered.part)
             next == [to |-> item.to, onion |-> altered.onion, packet |-> u]
             last == spent["corrupt"]
  <1>1. /\ wire' = (wire \ {item}) \cup {next} /\ IsSent(formed, next) /\ Spend("corrupt")
        /\ IsSent(formed, item)
    BY CorruptFacts DEF NetInv
  <1>2. formed' = formed /\ kept' = kept
    BY DEF Corrupt
  <1>3. last \in Nat /\ spent'["corrupt"] = last + 1
    BY <1>1 DEF NetInv, Spend, FaultKinds
  <1>4. u.version = last + 1
    BY <1>1 DEF IsSent, IsTracked, Relays!Packet, Relays!AlteredPacket
  <1>5. u.hop \in Nat
    BY <1>1 DEF IsSent, IsTracked, Relays!Packet
  <1>6. next.packet = u
    OBVIOUS
  <1>7. PICK A : AreDated(formed, A, last, wire \cup kept)
    BY DEF DateInv
  <1> HIDE DEF u, next
  <1> DEFINE B == [k \in Nat |-> IF k = last + 1 THEN next ELSE A[k]]
  <1>8. IsDated(formed, B, last + 1, next.packet, next.onion)
    <2>1. B[last + 1] = next
      BY <1>3
    <2> HIDE DEF B
    <2> QED
      BY <1>3, <1>4, <1>5, <1>6, <2>1, AlteredIsDated
  <1>9. ASSUME NEW x \in wire \cup kept PROVE IsDated(formed, B, last + 1, x.packet, x.onion)
    <2>1. IsDated(formed, A, last, x.packet, x.onion)
      BY <1>7 DEF AreDated
    <2>2. x.packet.version \in Nat
      BY DEF NetInv, IsSent, IsKept, IsTracked, Relays!Packet
    <2>3. x.packet.version <= last
      BY <2>1 DEF IsDated
    <2>4. x.packet.version <= last + 1 /\ B[x.packet.version] = A[x.packet.version]
      BY <1>3, <2>2, <2>3
    <2> HIDE DEF B
    <2> QED
      BY <2>1, <2>4 DEF IsDated
  <1> HIDE DEF B
  <1>10. AreDated(formed', B, last + 1, wire' \cup kept')
    BY <1>1, <1>2, <1>8, <1>9 DEF AreDated
  <1>11. AreDated(formed', B, spent'["corrupt"], wire' \cup kept')
    BY <1>3, <1>10
  <1> QED
    BY <1>11 DEF DateInv

LEMMA DateInvInitially ==
  Init => DateInv
  BY DEF Init, DateInv, AreDated

LEMMA DateInvStays ==
  NetInv /\ DateInv /\ [Next]_vars => DateInv'
  <1> SUFFICES ASSUME NetInv, DateInv, [Next]_vars PROVE DateInv'
    OBVIOUS
  <1>1. ASSUME NEW n \in Nodes, Rotate(n) \/ Forget(n) PROVE DateInv'
    <2>1. formed' = formed /\ wire' = wire /\ kept' = kept
          /\ spent'["corrupt"] = spent["corrupt"]
      BY <1>1 DEF Rotate, Forget, Spend, NetInv, FaultKinds
    <2> QED
      BY <2>1, FormedStays, QuietDates
  <1>2. ASSUME NEW n \in Nodes, NEW m \in Nodes, Publish(n, m) PROVE DateInv'
    <2>1. formed' = formed /\ wire' = wire /\ kept' = kept /\ spent' = spent
      BY <1>2 DEF Publish
    <2> QED
      BY <2>1, FormedStays, QuietDates
  <1>3. ASSUME NEW s \in Sessions, NEW o \in Orders, FormFails(s, o) PROVE DateInv'
    <2>1. wire' = wire /\ kept' = kept /\ spent' = spent
      BY <1>3 DEF FormFails
    <2>2. Extends(formed', formed)
      BY <1>3, FormFailsFacts
    <2> QED
      BY <2>1, <2>2, QuietDates
  <1>4. ASSUME NEW item \in wire, NEW again \in BOOLEAN, Process(item, again)
        PROVE  DateInv'
    <2>1. CASE Relay(item, again)
      BY <2>1, RelayDates
    <2>2. CASE Receive(item, again)
      BY <2>2, ReceiveDates
    <2>3. CASE Accept(item, again) \/ Reject(item, again)
      <3>1. Take(item, again, {}) /\ formed' = formed /\ kept' = kept
        BY <2>3 DEF Accept, Reject
      <3>2. spent'["corrupt"] = spent["corrupt"] /\ wire' \subseteq wire \cup {}
        BY <3>1, TakeAltersNothing
      <3> QED
        BY <3>1, <3>2, FormedStays, QuietDates
    <2> QED
      BY <1>4, <2>1, <2>2, <2>3 DEF Process
  <1>5. ASSUME NEW item \in kept, NEW r \in Replies, Answer(item, r) PROVE DateInv'
    <2>1. CASE Reply(item, r)
      BY <2>1, ReplyDates
    <2>2. CASE ReplyFails(item, r)
      <3>1. formed' = formed /\ wire' = wire /\ kept' = kept /\ spent' = spent
        BY <2>2 DEF ReplyFails
      <3> QED
        BY <3>1, FormedStays, QuietDates
    <2> QED
      BY <1>5, <2>1, <2>2 DEF Answer
  <1>6. ASSUME NEW item \in wire, Lose(item) PROVE DateInv'
    <2>1. formed' = formed /\ wire' \subseteq wire /\ kept' = kept
          /\ spent'["corrupt"] = spent["corrupt"]
      BY <1>6 DEF Lose, Spend, NetInv, FaultKinds
    <2> QED
      BY <2>1, FormedStays, QuietDates
  <1>7. CASE UNCHANGED vars
    <2>1. formed' = formed /\ wire' = wire /\ kept' = kept /\ spent' = spent
      BY <1>7 DEF vars
    <2> QED
      BY <2>1, FormedStays, QuietDates
  <1> QED
    BY <1>1, <1>2, <1>3, <1>4, <1>5, <1>6, <1>7, FormDates, CorruptDates DEF Next

-----------------------------------------------------------------------------
(* N.  The steps that nodes take on onions are those that RelayPath takes  *)
(* on packets.                                                             *)

Holds(entries) == [n \in Nodes |-> {e.session : e \in entries[n]}]

(* A payload that is logged as bytes is logged as the payload it is.       *)
LEMMA MeantAdds ==
  ASSUME NEW log, NEW n, NEW p \in Payloads, NEW t, NEW d,
         d = [at |-> n, payload |-> Plain(p), packet |-> t]
  PROVE  Meant(log \cup {d}) = Meant(log) \cup {[at |-> n, payload |-> p, packet |-> t]}
  <1> DEFINE M(x) == [x EXCEPT !.payload =
                        IF \E q \in Payloads : Plain(q) = x.payload
                        THEN CHOOSE q \in Payloads : Plain(q) = x.payload ELSE @]
  <1>1. (CHOOSE q \in Payloads : Plain(q) = Plain(p)) = p
    BY PayloadAssumption, Zenon
  <1>2. M(d) = [at |-> n, payload |-> p, packet |-> t]
    <2> DEFINE b == Plain(p)
               c == IF \E q \in Payloads : Plain(q) = b
                    THEN CHOOSE q \in Payloads : Plain(q) = b ELSE b
    <2>1. c = p
      BY <1>1
    <2>2. M(d) = [d EXCEPT !.payload = c]
      BY Zenon
    <2> HIDE DEF b, c, M
    <2> QED
      BY <2>1, <2>2 DEF b
  <1>3. \A items : Meant(items) = {M(x) : x \in items}
    BY DEF Meant
  <1> HIDE DEF M
  <1> QED
    BY <1>2, <1>3

LEMMA FormErrorsAgree ==
  ASSUME NEW o \in Orders
  PROVE  Relays!FormError(o) = FormErrorOf(Store(o.sender), o.forward, o.backward)
  <1> DEFINE keys == pki[o.sender]
             forth == o.forward
             back == o.backward
  <1>1. forth \in Seq(Nodes) /\ back \in Seq(Nodes)
    BY OrderAssumption
  <1>2. \A n \in Nodes : keys[n] = 0 <=> n \notin DOMAIN Store(o.sender)
    BY DEF Store, StoreOf
  <1>3. (\E n \in Relays!Hops(o) : keys[n] = 0)
          <=> \/ \E i \in 1 .. Len(forth) : forth[i] \notin DOMAIN Store(o.sender)
              \/ \E i \in 1 .. Len(back) : back[i] \notin DOMAIN Store(o.sender)
    <2> DEFINE P(n) == keys[n] = 0
               Q(n) == n \notin DOMAIN Store(o.sender)
    <2>1. (\E n \in Relays!Hops(o) : P(n))
            <=> (\E i \in 1 .. Len(forth) : P(forth[i])) \/ (\E i \in 1 .. Len(back) : P(back[i]))
      <3> HIDE DEF P
      <3> QED
        BY DEF Relays!Hops
    <2>2. \A n \in Nodes : P(n) <=> Q(n)
      BY <1>2
    <2>3. /\ \A i \in 1 .. Len(forth) : forth[i] \in Nodes
          /\ \A i \in 1 .. Len(back) : back[i] \in Nodes
      BY <1>1
    <2> HIDE DEF P, Q, forth, back
    <2>4. (\E n \in Relays!Hops(o) : P(n))
            <=> (\E i \in 1 .. Len(forth) : Q(forth[i])) \/ (\E i \in 1 .. Len(back) : Q(back[i]))
      BY <2>1, <2>2, <2>3
    <2> QED
      BY <2>4 DEF P, Q
  <1>4. (forth = <<>> <=> Len(forth) = 0) /\ (back = <<>> <=> Len(back) = 0)
    BY <1>1
  <1> QED
    BY <1>3, <1>4 DEF Relays!FormError, FormErrorOf

LEMMA TakeAgrees ==
  ASSUME NetInv, DateInv, NEW item \in wire, NEW again, NEW more, Take(item, again, more)
  PROVE  Relays!Take(item.packet, again, Packets(more))
  <1>1. Packets(wire \ {item}) = Packets(wire) \ {item.packet}
    BY PacketsOnWire
  <1>2. Packets(wire') = (IF again THEN Packets(wire) ELSE Packets(wire) \ {item.packet})
                           \cup Packets(more)
    <2>1. \A x, y : Packets(x \cup y) = Packets(x) \cup Packets(y)
      BY DEF Packets
    <2> QED
      BY <1>1, <2>1 DEF Take
  <1> QED
    BY <1>2 DEF Take, CanSpend, Spend, Relays!Take, Relays!CanSpend, Relays!Spend

LEMMA ItemIsAt ==
  ASSUME NetInv, NEW item \in wire
  PROVE  Relays!At(item.packet) = item.to /\ item.packet \in Packets(wire)
  <1>1. IsTracked(formed, item.packet, item.to, item.onion) /\ AreCalls(formed)
    BY DEF NetInv, IsSent
  <1> QED
    BY <1>1, RelaysAgree DEF Packets

LEMMA FormAgrees ==
  ASSUME NetInv, NEW s \in Sessions, NEW o \in Orders, Form(s, o)
  PROVE  Relays!Form(s, o)
  <1> DEFINE entry == [session |-> s, response |-> Response(Recipe(s, formed'[s]))]
             first == [to |-> o.forward[1], onion |-> ForthOnion(Recipe(s, formed'[s]), 1),
                       packet |-> Relays!FirstPacket(s)]
  <1>1. /\ formed' = [formed EXCEPT ![s] = Call(o, pki[o.sender])]
        /\ expected' = [expected EXCEPT ![o.sender] = @ \cup {entry}]
        /\ wire' = wire \cup {first}
        /\ FormErrorOf(Store(o.sender), o.forward, o.backward) = "none"
    BY FormFacts
  <1>2. /\ formed[s].state = "new"
        /\ UNCHANGED <<sk, pki, kept, received, replied, answered, failures, spent>>
    BY DEF Form
  <1>3. entry.session = s /\ first.packet = Relays!FirstPacket(s)
    OBVIOUS
  <1> HIDE DEF entry, first
  <1>4. Relays!FormError(o) = "none"
    BY <1>1, FormErrorsAgree
  <1>5. Packets(wire') = Packets(wire) \cup {Relays!FirstPacket(s)}
    BY <1>1, <1>3 DEF Packets
  <1>6. Holds(expected') = [Holds(expected) EXCEPT ![o.sender] = @ \cup {s}]
    <2>1. o.sender \in Nodes /\ expected = [n \in Nodes |-> expected[n]]
      BY OrderAssumption DEF NetInv, AreExpected
    <2>2. \A n \in Nodes : expected'[n] = IF n = o.sender THEN expected[n] \cup {entry}
                                          ELSE expected[n]
      BY <1>1, <2>1
    <2>3. \A n \in Nodes : {e.session : e \in expected'[n]}
            = IF n = o.sender THEN {e.session : e \in expected[n]} \cup {s}
              ELSE {e.session : e \in expected[n]}
      BY <1>3, <2>2, ZenonT(30)
    <2> QED
      BY <2>1, <2>3 DEF Holds
  <1>7. formed' = [formed EXCEPT ![s] =
                     [state |-> "formed", order |-> o, keys |-> pki[o.sender]]]
    BY <1>1 DEF Call
  <1> QED
    BY <1>2, <1>4, <1>5, <1>6, <1>7 DEF Relays!Form, Holds

LEMMA FormFailsAgrees ==
  ASSUME NetInv, NEW s \in Sessions, NEW o \in Orders, FormFails(s, o)
  PROVE  Relays!FormFails(s, o)
  <1> DEFINE e == FormErrorOf(Store(o.sender), o.forward, o.backward)
  <1>1. /\ formed' = [formed EXCEPT ![s] = [state |-> "failed", order |-> o, err |-> e]]
        /\ e # "none"
    BY FormFailsFacts
  <1>2. Relays!FormError(o) = e
    BY FormErrorsAgree
  <1>3. /\ formed[s].state = "new"
        /\ UNCHANGED <<sk, pki, expected, wire, kept, received, replied, answered, failures,
                       spent>>
    BY DEF FormFails
  <1> HIDE DEF e
  <1> QED
    BY <1>1, <1>2, <1>3 DEF Relays!FormFails

LEMMA ForgetAgrees ==
  ASSUME NetInv, NEW n \in Nodes, Forget(n)
  PROVE  Relays!Forget(n)
  <1>1. /\ expected' = [expected EXCEPT ![n] = {}] /\ expected[n] # {}
        /\ CanSpend("forget") /\ Spend("forget")
        /\ UNCHANGED <<sk, pki, formed, wire, kept, received, replied, answered, failures>>
    BY DEF Forget
  <1>2. expected = [m \in Nodes |-> expected[m]]
    BY DEF NetInv, AreExpected
  <1>3. Holds(expected') = [Holds(expected) EXCEPT ![n] = {}]
    BY <1>1, <1>2 DEF Holds
  <1>4. Holds(expected)[n] # {}
    BY <1>1 DEF Holds
  <1> QED
    BY <1>1, <1>3, <1>4
       DEF Relays!Forget, Holds, CanSpend, Spend, Relays!CanSpend, Relays!Spend

LEMMA RelayAgrees ==
  ASSUME NetInv, DateInv, NEW item \in wire, NEW again, Relay(item, again)
  PROVE  Relays!Relay(item.packet, again)
  <1> DEFINE t == item.packet
             u == [t EXCEPT !.hop = t.hop + 1]
  <1>1. PICK next : /\ Take(item, again, {next}) /\ next.packet = u
                    /\ Relays!Opens(t) /\ ~ Relays!AtEnd(t)
    BY RelayFacts
  <1>2. Relays!Take(t, again, {u})
    <2>1. Packets({next}) = {u}
      BY <1>1 DEF Packets
    <2> HIDE DEF u
    <2> QED
      BY <1>1, <2>1, TakeAgrees
  <1>3. UNCHANGED <<sk, pki, formed, expected, kept, received, replied, answered, failures>>
    BY DEF Relay
  <1> QED
    BY <1>1, <1>2, <1>3 DEF Relays!Relay

LEMMA NothingMore ==
  Packets({}) = {}
  BY DEF Packets

LEMMA ReceiveAgrees ==
  ASSUME NetInv, DateInv, NEW item \in wire, NEW again, Receive(item, again)
  PROVE  Relays!Receive(item.packet, again)
  <1> DEFINE t == item.packet
             k == [at |-> item.to, onion |-> item.onion, packet |-> t]
             p == Relays!Order(t).payload
             d == [at |-> item.to, payload |-> Plain(p), packet |-> t]
  <1>1. /\ Take(item, again, {}) /\ kept' = kept \cup {k} /\ received' = received \cup {d}
        /\ Relays!Opens(t) /\ Relays!AtEnd(t) /\ t.leg = "forward"
    <2>1. RecipeOf(formed, t).payload = Plain(p)
      BY DEF RecipeOf, Recipe, Relays!Order
    <2> QED
      BY <2>1, ReceiveFacts
  <1>2. p \in Payloads
    <2>1. IsTracked(formed, t, item.to, item.onion) /\ AreCalls(formed)
      BY DEF NetInv, IsSent
    <2>2. formed[t.session].order \in Orders
      BY <2>1, TrackedFacts
    <2> QED
      BY <2>2 DEF Relays!Order, Payloads
  <1>3. Relays!At(t) = item.to
    BY ItemIsAt
  <1>4. Relays!Take(t, again, {})
    BY <1>1, TakeAgrees, NothingMore
  <1>5. Packets(kept') = Packets(kept) \cup {t}
    <2>1. k.packet = t
      OBVIOUS
    <2> HIDE DEF k
    <2> QED
      BY <1>1, <2>1 DEF Packets
  <1>6. Meant(received')
          = Meant(received) \cup {[at |-> Relays!At(t), payload |-> p, packet |-> t]}
    <2> DEFINE n == Relays!At(t)
    <2>1. d = [at |-> n, payload |-> Plain(p), packet |-> t]
      BY <1>3
    <2>2. received' = received \cup {d}
      BY <1>1
    <2> HIDE DEF d, p, t, n
    <2>3. Meant(received \cup {d})
            = Meant(received) \cup {[at |-> n, payload |-> p, packet |-> t]}
      BY <1>2, <2>1, MeantAdds
    <2> QED
      BY <2>2, <2>3 DEF n
  <1>7. UNCHANGED <<sk, pki, formed, expected, replied, answered, failures>>
    BY DEF Receive
  <1> QED
    BY <1>1, <1>4, <1>5, <1>6, <1>7 DEF Relays!Receive

LEMMA AcceptAgrees ==
  ASSUME NetInv, DateInv, NEW item \in wire, NEW again, Accept(item, again)
  PROVE  Relays!Accept(item.packet, again)
  <1> DEFINE t == item.packet
             d == [at |-> item.to, payload |-> Plain(t.reply), packet |-> t]
  <1>1. /\ Take(item, again, {}) /\ answered' = answered \cup {d}
        /\ t.reply \in Replies /\ t.leg = "backward"
        /\ Relays!ProcError(t) = "none" /\ Relays!AtEnd(t)
    BY AcceptFacts
  <1>2. Relays!At(t) = item.to
    BY ItemIsAt
  <1>3. /\ Relays!Opens(t) /\ "backward" \notin t.mauled
        /\ t.session \in Holds(expected)[Relays!At(t)]
    BY <1>1 DEF Relays!ProcError, Holds
  <1>4. Relays!Take(t, again, {})
    BY <1>1, TakeAgrees, NothingMore
  <1>5. Meant(answered')
          = Meant(answered) \cup {[at |-> Relays!At(t), payload |-> t.reply, packet |-> t]}
    <2>1. d = [at |-> Relays!At(t), payload |-> Plain(t.reply), packet |-> t]
      BY <1>2
    <2>2. t.reply \in Payloads
      BY <1>1 DEF Payloads
    <2> HIDE DEF d, t
    <2> QED
      BY <1>1, <2>1, <2>2, MeantAdds
  <1>6. UNCHANGED <<sk, pki, formed, expected, kept, received, replied, failures>>
    BY DEF Accept
  <1> QED
    BY <1>1, <1>3, <1>4, <1>5, <1>6 DEF Relays!Accept, Holds

LEMMA RejectAgrees ==
  ASSUME NetInv, DateInv, NEW item \in wire, NEW again, Reject(item, again)
  PROVE  Relays!Reject(item.packet, again)
  <1> DEFINE t == item.packet
             e == Relays!ProcError(t)
  <1>1. /\ Take(item, again, {}) /\ e # "none"
        /\ failures' = failures \cup {[at |-> item.to, err |-> e, packet |-> t]}
    BY RejectFacts
  <1>2. Relays!At(t) = item.to
    BY ItemIsAt
  <1>3. Relays!Take(t, again, {})
    BY <1>1, TakeAgrees, NothingMore
  <1>4. UNCHANGED <<sk, pki, formed, expected, kept, received, replied, answered>>
    BY DEF Reject
  <1> HIDE DEF e
  <1>5. failures' = failures \cup {[at |-> Relays!At(t), err |-> e, packet |-> t]}
    BY <1>1, <1>2
  <1> QED
    BY <1>1, <1>3, <1>4, <1>5 DEF Relays!Reject, e

LEMMA ReplyAgrees ==
  ASSUME NetInv, NEW item \in kept, NEW r \in Replies, Reply(item, r)
  PROVE  Relays!Reply(item.packet, r)
  <1> DEFINE u == Relays!ReplyPacket(item.packet, r)
  <1>1. PICK next : /\ Relays!Opens(item.packet) /\ u \notin replied
                    /\ wire' = wire \cup {next} /\ next.packet = u
                    /\ replied' = replied \cup {u}
    BY ReplyFacts
  <1> HIDE DEF u
  <1>2. Packets(wire') = Packets(wire) \cup {u}
    BY <1>1 DEF Packets
  <1>3. UNCHANGED <<sk, pki, formed, expected, kept, received, answered, failures, spent>>
    BY DEF Reply
  <1> QED
    BY <1>1, <1>2, <1>3 DEF Relays!Reply, u

LEMMA ReplyFailsAgrees ==
  ASSUME NetInv, NEW item \in kept, NEW r \in Replies, ReplyFails(item, r)
  PROVE  Relays!ReplyFails(item.packet, r)
  <1>1. /\ ~ Relays!Opens(item.packet)
        /\ failures' = failures \cup
             {[at |-> item.at, err |-> "MacMismatch", packet |-> item.packet]}
    BY ReplyFailsFacts
  <1>2. Relays!At(item.packet) = item.at
    <2>1. IsTracked(formed, item.packet, item.at, item.onion) /\ AreCalls(formed)
      BY DEF NetInv, IsKept
    <2> QED
      BY <2>1, RelaysAgree
  <1>3. UNCHANGED <<sk, pki, formed, expected, wire, kept, received, replied, answered,
                    spent>>
    BY DEF ReplyFails
  <1>4. failures' = failures \cup
          {[at |-> Relays!At(item.packet), err |-> "MacMismatch", packet |-> item.packet]}
    BY <1>1, <1>2
  <1> QED
    BY <1>1, <1>3, <1>4 DEF Relays!ReplyFails

LEMMA CorruptAgrees ==
  ASSUME NetInv, DateInv, NEW item \in wire, NEW altered \in Alterations(item.onion),
         Corrupt(item, altered)
  PROVE  altered.part \in Relays!Parts /\ Relays!Corrupt(item.packet, altered.part)
  <1> DEFINE u == Relays!AlteredPacket(item.packet, altered.part)
  <1>1. PICK next : /\ wire' = (wire \ {item}) \cup {next} /\ next.packet = u
                    /\ altered.part \in Relays!Parts
                    /\ CanSpend("corrupt") /\ Spend("corrupt")
    BY CorruptFacts
  <1> HIDE DEF u
  <1>2. Packets(wire') = (Packets(wire) \ {item.packet}) \cup {u}
    <2>1. Packets(wire \ {item}) = Packets(wire) \ {item.packet}
      BY PacketsOnWire
    <2> QED
      BY <1>1, <2>1 DEF Packets
  <1>3. UNCHANGED <<sk, pki, formed, expected, kept, received, replied, answered, failures>>
    BY DEF Corrupt
  <1> QED
    BY <1>1, <1>2, <1>3
       DEF Relays!Corrupt, CanSpend, Spend, Relays!CanSpend, Relays!Spend, u

LEMMA LoseAgrees ==
  ASSUME NetInv, DateInv, NEW item \in wire, Lose(item)
  PROVE  Relays!Lose(item.packet)
  <1>1. Packets(wire') = Packets(wire) \ {item.packet}
    BY PacketsOnWire DEF Lose
  <1> QED
    BY <1>1 DEF Lose, Relays!Lose, CanSpend, Spend, Relays!CanSpend, Relays!Spend

LEMMA KeysAgree ==
  /\ \A n \in Nodes : Rotate(n) => Relays!Rotate(n)
  /\ \A n, m \in Nodes : Publish(n, m) => Relays!Publish(n, m)
  <1>1. ASSUME NEW n \in Nodes, Rotate(n) PROVE Relays!Rotate(n)
    BY <1>1 DEF Rotate, Relays!Rotate, CanSpend, Spend, Relays!CanSpend, Relays!Spend
  <1>2. ASSUME NEW n \in Nodes, NEW m \in Nodes, Publish(n, m) PROVE Relays!Publish(n, m)
    BY <1>2 DEF Publish, Relays!Publish
  <1> QED
    BY <1>1, <1>2

LEMMA RelaysInitially ==
  Init => Relays!Init
  BY DEF Init, Relays!Init, Packets, Meant, FaultKinds, Relays!FaultKinds

LEMMA RelaysStep ==
  NetInv /\ DateInv /\ [Next]_vars => [Relays!Next]_(Relays!vars)
  <1> SUFFICES ASSUME NetInv, DateInv, [Next]_vars PROVE [Relays!Next]_(Relays!vars)
    OBVIOUS
  <1>1. CASE \E n \in Nodes : Rotate(n)
    BY <1>1, KeysAgree DEF Relays!Next
  <1>2. CASE \E n, m \in Nodes : Publish(n, m)
    BY <1>2, KeysAgree DEF Relays!Next
  <1>3. CASE \E s \in Sessions, o \in Orders : Form(s, o)
    BY <1>3, FormAgrees DEF Relays!Next
  <1>4. CASE \E s \in Sessions, o \in Orders : FormFails(s, o)
    BY <1>4, FormFailsAgrees DEF Relays!Next
  <1>5. CASE \E n \in Nodes : Forget(n)
    BY <1>5, ForgetAgrees DEF Relays!Next
  <1>6. CASE \E item \in wire, again \in BOOLEAN : Process(item, again)
    <2>1. PICK item \in wire, again \in BOOLEAN : Process(item, again)
      BY <1>6
    <2>2. Relays!Process(item.packet, again)
      BY <2>1, RelayAgrees, ReceiveAgrees, AcceptAgrees, RejectAgrees
         DEF Process, Relays!Process
    <2>3. item.packet \in Packets(wire)
      BY <2>1 DEF Packets
    <2> QED
      BY <2>1, <2>2, <2>3 DEF Relays!Next
  <1>7. CASE \E item \in kept, r \in Replies : Answer(item, r)
    <2>1. PICK item \in kept, r \in Replies : Answer(item, r)
      BY <1>7
    <2>2. Relays!Answer(item.packet, r)
      BY <2>1, ReplyAgrees, ReplyFailsAgrees DEF Answer, Relays!Answer
    <2>3. item.packet \in Packets(kept)
      BY <2>1 DEF Packets
    <2> QED
      BY <2>1, <2>2, <2>3 DEF Relays!Next
  <1>8. CASE \E item \in wire : Lose(item)
    <2>1. PICK item \in wire : Lose(item)
      BY <1>8
    <2>2. Relays!Lose(item.packet) /\ item.packet \in Packets(wire)
      BY <2>1, LoseAgrees DEF Packets
    <2> QED
      BY <2>2 DEF Relays!Next
  <1>9. CASE \E item \in wire : \E altered \in Alterations(item.onion) :
               Corrupt(item, altered)
    <2>1. PICK item \in wire : \E altered \in Alterations(item.onion) :
                                 Corrupt(item, altered)
      BY <1>9
    <2>2. PICK altered \in Alterations(item.onion) : Corrupt(item, altered)
      BY <2>1
    <2>3. /\ altered.part \in Relays!Parts /\ Relays!Corrupt(item.packet, altered.part)
          /\ item.packet \in Packets(wire)
      BY <2>1, <2>2, CorruptAgrees DEF Packets
    <2> QED
      BY <2>3 DEF Relays!Next
  <1>10. CASE UNCHANGED vars
    BY <1>10 DEF vars, Relays!vars
  <1> QED
    BY <1>1, <1>2, <1>3, <1>4, <1>5, <1>6, <1>7, <1>8, <1>9, <1>10 DEF Next

(* Whatever the orders, the network and its faults: onions are let         *)
(* through, refused, delivered and answered as RelayPath says of packets   *)
(* that have no bytes at all.                                              *)
THEOREM OnionsAreRelayed == Spec => ImplementsRelays
  <1>1. Init => NetInv /\ DateInv /\ Relays!Init
    BY NetInvInitially, DateInvInitially, RelaysInitially
  <1>2. NetInv /\ DateInv /\ [Next]_vars => (NetInv /\ DateInv)'
    BY NetInvStays, DateInvStays
  <1>3. NetInv /\ DateInv /\ [Next]_vars => [Relays!Next]_(Relays!vars)
    BY RelaysStep
  <1> QED
    BY <1>1, <1>2, <1>3, PTL DEF Spec, ImplementsRelays, Relays!Spec

-----------------------------------------------------------------------------
(* O.  What is proved of packets holds of onions.  The instance brings in  *)
(* the theorems of RelayPath_proofs; its definitions are those of Relays.  *)

Proved == INSTANCE RelayPath_proofs WITH
  expected <- [n \in Nodes |-> {e.session : e \in expected[n]}],
  wire     <- Packets(wire),
  kept     <- Packets(kept),
  received <- Meant(received),
  answered <- Meant(answered)

LEMMA BoundIsFor ==
  Bound \in [Proved!FaultKinds -> Nat]
  BY BoundAssumption DEF FaultKinds, Proved!FaultKinds

LEMMA SameInit ==
  Relays!Init => Proved!Init
  BY DEF Relays!Init, Proved!Init, Relays!FaultKinds, Proved!FaultKinds

LEMMA SameNext ==
  [Relays!Next]_(Relays!vars) => [Proved!Next]_(Proved!vars)
  <1>1. Relays!vars = Proved!vars /\ (Relays!vars)' = (Proved!vars)'
    BY DEF Relays!vars, Proved!vars
  <1>2. Relays!Next => Proved!Next
    BY DEF Relays!Next, Relays!Rotate, Relays!Publish, Relays!Form, Relays!FormFails,
       Relays!Forget, Relays!Process, Relays!Relay, Relays!Receive, Relays!Accept,
       Relays!Reject, Relays!Answer, Relays!Reply, Relays!ReplyFails, Relays!Lose,
       Relays!Corrupt, Relays!Take, Relays!CanSpend, Relays!Spend, Relays!Hops,
       Relays!FormError, Relays!ProcError, Relays!FirstPacket, Relays!ReplyPacket,
       Relays!AlteredPacket, Relays!Opens, Relays!Fresh, Relays!Altered, Relays!AtEnd,
       Relays!At, Relays!Path, Relays!Order, Relays!Parts,
       Proved!Next, Proved!Rotate, Proved!Publish, Proved!Form, Proved!FormFails,
       Proved!Forget, Proved!Process, Proved!Relay, Proved!Receive, Proved!Accept,
       Proved!Reject, Proved!Answer, Proved!Reply, Proved!ReplyFails, Proved!Lose,
       Proved!Corrupt, Proved!Take, Proved!CanSpend, Proved!Spend, Proved!Hops,
       Proved!FormError, Proved!ProcError, Proved!FirstPacket, Proved!ReplyPacket,
       Proved!AlteredPacket, Proved!Opens, Proved!Fresh, Proved!Altered, Proved!AtEnd,
       Proved!At, Proved!Path, Proved!Order, Proved!Parts
  <1> QED
    BY <1>1, <1>2

LEMMA RelaysAreProved ==
  Spec => Proved!Spec
  <1> QED
    BY OnionsAreRelayed, SameInit, SameNext, PTL DEF ImplementsRelays, Relays!Spec, Proved!Spec

(* What a sender accepts is what the receiver of its own onion answered,   *)
(* byte for byte, and nothing was altered on either leg.                   *)
THEOREM OnionAnswersAreGenuine == Spec => []Relays!AnswersGenuine
  <1>1. Proved!AnswersGenuine => Relays!AnswersGenuine
    BY DEF Proved!AnswersGenuine, Relays!AnswersGenuine, Proved!Order, Relays!Order
  <1> QED
    BY <1>1, RelaysAreProved, BoundIsFor, OrderAssumption, ReplyAssumption, ListedAssumption,
       MaxPathLengthAssumption, Proved!AnswersAreGenuine, PTL

(* A payload is handed out only at the end of the forward path, as it was  *)
(* sent, and from an onion whose header and payload nobody altered.        *)
THEOREM OnionReceiptsAreGenuine == Spec => []Relays!ReceiptsGenuine
  <1>1. Proved!ReceiptsGenuine => Relays!ReceiptsGenuine
    BY DEF Proved!ReceiptsGenuine, Relays!ReceiptsGenuine, Proved!Order, Relays!Order,
           Proved!AtEnd, Relays!AtEnd, Proved!At, Relays!At, Proved!Path, Relays!Path,
           Proved!Altered, Relays!Altered
  <1> QED
    BY <1>1, RelaysAreProved, BoundIsFor, OrderAssumption, ReplyAssumption, ListedAssumption,
       MaxPathLengthAssumption, Proved!ReceiptsAreGenuine, PTL

(* An error that a node returns for an onion has its cause: an alteration, *)
(* a key that was replaced, a sender that forgot.                          *)
THEOREM OnionFailuresHaveCauses == Spec => []Relays!FailuresExplained
  <1>1. Proved!FailuresExplained => Relays!FailuresExplained
    BY DEF Proved!FailuresExplained, Relays!FailuresExplained, Proved!Order, Relays!Order
  <1> QED
    BY <1>1, RelaysAreProved, BoundIsFor, OrderAssumption, ReplyAssumption, ListedAssumption,
       MaxPathLengthAssumption, Proved!FailuresHaveCauses, PTL

(* An onion whose header or payload was altered goes no further than the   *)
(* next node.                                                              *)
THEOREM AlteredOnionsStop == Spec => Relays!SealedStops
  <1>1. Relays!vars = Proved!vars /\ (Relays!vars)' = (Proved!vars)'
    BY DEF Relays!vars, Proved!vars
  <1> DEFINE A == \A t \in Packets(wire)' \ Packets(wire) :
                    Proved!Altered(t) => spent'["corrupt"] > spent["corrupt"]
             B == \A t \in Packets(wire)' \ Packets(wire) :
                    Relays!Altered(t) => spent'["corrupt"] > spent["corrupt"]
  <1>2. [A]_(Proved!vars) => [B]_(Relays!vars)
    BY <1>1 DEF Proved!Altered, Relays!Altered
  <1> QED
    BY <1>2, RelaysAreProved, BoundIsFor, OrderAssumption, ReplyAssumption, ListedAssumption,
       MaxPathLengthAssumption, Proved!SealedStopsAtNextHop, PTL
       DEF Proved!SealedStops, Relays!SealedStops

(* Onions are a channel with answers: a payload comes out where it was     *)
(* sent to and as it was sent, an answer only where it was expected.       *)
THEOREM OnionsImplementChannel == Spec => Relays!ImplementsChannel
  <1>1. Proved!Channel!Init => Relays!Channel!Init
    BY DEF Proved!Channel!Init, Relays!Channel!Init
  <1>2. [Proved!Channel!Next]_(Proved!Channel!vars)
          => [Relays!Channel!Next]_(Relays!Channel!vars)
    BY DEF Proved!Channel!Next, Proved!Channel!Send, Proved!Channel!Deliver,
       Proved!Channel!Reply, Proved!Channel!Return, Proved!Channel!Receiver,
       Proved!Channel!vars, Proved!Deed,
       Relays!Channel!Next, Relays!Channel!Send, Relays!Channel!Deliver,
       Relays!Channel!Reply, Relays!Channel!Return, Relays!Channel!Receiver,
       Relays!Channel!vars, Relays!Deed
  <1> QED
    BY <1>1, <1>2, RelaysAreProved, BoundIsFor, OrderAssumption, ReplyAssumption,
       ListedAssumption, MaxPathLengthAssumption, Proved!RelaysImplementChannel, PTL
       DEF Proved!ImplementsChannel, Relays!ImplementsChannel, Proved!Channel!Spec,
           Relays!Channel!Spec
=============================================================================
