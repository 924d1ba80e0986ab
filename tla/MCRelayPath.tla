---------------------------- MODULE MCRelayPath -----------------------------
(***************************************************************************)
(* Instances of RelayPath for TLC: three nodes, a session from a through b *)
(* to c and back, one whose answer ends at a stranger, and orders that     *)
(* form_onion refuses.                                                     *)
(***************************************************************************)
EXTENDS RelayPath

order(sender, forward, backward, payload) ==
  [sender |-> sender, forward |-> forward, backward |-> backward, payload |-> payload]

(* There and back, over paths of different lengths. *)
MCRoundTrip == {order("a", <<"b", "c">>, <<"a">>, "p")}

(* The reply path ends at b, which did not form the onion. *)
MCForeign == {order("a", <<"b">>, <<"c", "b">>, "p")}

(* One hop too many, and no hop at all. *)
MCRefused == {order("a", <<"b", "c", "b">>, <<"a">>, "p"),
              order("a", <<>>, <<"a">>, "p")}

MCOrders == MCRoundTrip \cup MCForeign \cup MCRefused

Bounds(corrupt, lose, repeat, rotate, forget) ==
  [k \in FaultKinds |-> CASE k = "corrupt" -> corrupt [] k = "lose" -> lose
                          [] k = "repeat" -> repeat [] k = "rotate" -> rotate
                          [] k = "forget" -> forget]

MCFaults == Bounds(1, 1, 1, 1, 1)
=============================================================================
