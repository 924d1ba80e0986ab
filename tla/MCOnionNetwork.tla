--------------------------- MODULE MCOnionNetwork ---------------------------
(***************************************************************************)
(* Instances of OnionNetwork for TLC.                                      *)
(***************************************************************************)
EXTENDS OnionNetwork

payload(text, len) == [text |-> text, len |-> len]

order(sender, forward, backward, p) ==
  [sender |-> sender, forward |-> forward, backward |-> backward, payload |-> p]

(* Over b and c and back over b, with a cell of padding on each leg. *)
MCRoundTrip == {order("a", <<"b", "c">>, <<"b", "a">>, payload("p", 3))}

(* The reply path is shorter, and ends at a node that formed nothing. *)
MCForeign == {order("a", <<"b", "c">>, <<"b">>, payload("e", 0))}

MCOrders == MCRoundTrip \cup MCForeign

(* One hop too many, no hop at all, and a node nobody has listed. *)
MCRefused == {order("a", <<"b", "b", "b", "b">>, <<"a">>, payload("p", 3)),
              order("a", <<"b">>, <<>>, payload("p", 3)),
              order("b", <<"a">>, <<"c", "b">>, payload("q", 2))}

(* A path as long as this instance of the format allows, at most. *)
MCShort == {order("a", <<"b", "c">>, <<"a">>, payload("p", 3)),
            order("a", <<"c">>, <<"b">>, payload("p", 3))}

MCMixedOrders == MCRoundTrip \cup MCRefused

MCReplies == {payload("r", 2)}
MCTwoReplies == MCReplies \cup {payload("n", 0)}

Bounds(corrupt, lose, repeat, rotate, forget) ==
  [k \in FaultKinds |-> CASE k = "corrupt" -> corrupt [] k = "lose" -> lose
                                 [] k = "repeat" -> repeat [] k = "rotate" -> rotate
                                 [] k = "forget" -> forget]

MCFaults     == Bounds(1, 0, 1, 1, 1)
MCTwoFaults  == Bounds(0, 0, 1, 0, 0)
MCLiveFaults == Bounds(2, 1, 1, 0, 0)
=============================================================================
