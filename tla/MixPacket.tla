------------------------------ MODULE MixPacket ------------------------------
(***************************************************************************)
(* What a Sphinx packet promises (the tests of sphinx/tests/ and of the    *)
(* modules of sphinx/src): it goes from node to node along the path that   *)
(* its sender chose, and its last node gets what was sent.  A packet whose *)
(* header was damaged gets no further, one whose payload was damaged goes  *)
(* on to its end and is lost there.  Nothing else is lost, but a packet    *)
(* that reuses a secret, which a node may refuse to pass on.               *)
(***************************************************************************)
EXTENDS Integers, Sequences

CONSTANTS Paths, Goods     \* the paths there are, and what a last node may get

VARIABLES
  number,       \* which packet it is
  state,        \* "idle", "refused" by its sender, "travels", "delivered", "lost"
  path, at,     \* where it goes, and how far it is
  here,         \* the node it is at
  damage,       \* "none", "payload" or "header"
  goods,        \* what is to be sent
  delivered     \* what the last node got, as a set of at most one

vars == <<number, state, path, at, here, damage, goods, delivered>>

Init ==
  /\ number = 1 /\ state = "idle" /\ damage = "none" /\ delivered = {} /\ goods \in Goods
  /\ path = <<>> /\ at = 0 /\ here = "sender"

Refuse ==
  /\ state = "idle" /\ state' = "refused"
  /\ UNCHANGED <<number, path, at, here, damage, goods, delivered>>

(* The payload of a packet that is made from a damaged SURB is damaged.    *)
Send ==
  /\ state = "idle" /\ state' = "travels"
  /\ path' \in Paths /\ path' # <<>>
  /\ at' = 1 /\ here' = path'[1]
  /\ damage' \in {"none", "payload"}
  /\ UNCHANGED <<number, goods, delivered>>

Damage ==
  /\ state = "travels" /\ damage # "header"
  /\ damage' \in {"payload", "header"}
  /\ UNCHANGED <<number, state, path, at, here, goods, delivered>>

Move ==
  /\ state = "travels" /\ damage # "header" /\ at < Len(path)
  /\ at' = at + 1 /\ here' = path[at + 1]
  /\ UNCHANGED <<number, state, path, damage, goods, delivered>>

Deliver ==
  /\ state = "travels" /\ damage = "none" /\ at = Len(path)
  /\ state' = "delivered" /\ delivered' = {goods}
  /\ UNCHANGED <<number, path, at, here, damage, goods>>

Lose ==
  /\ state = "travels"
  /\ damage # "none" \/ (number > 1 /\ at < Len(path))
  /\ state' = "lost"
  /\ UNCHANGED <<number, path, at, here, damage, goods, delivered>>

(* Another packet, under the secret of the one before. *)
Reuse ==
  /\ state = "delivered"
  /\ number' = number + 1 /\ state' = "idle" /\ damage' = "none" /\ delivered' = {}
  /\ path' = <<>> /\ at' = 0 /\ here' = "sender" /\ goods' \in Goods

Next == Refuse \/ Send \/ Damage \/ Move \/ Deliver \/ Lose \/ Reuse

Spec == Init /\ [][Next]_vars
=============================================================================
