---------------------------- MODULE OnionJourney ----------------------------
(***************************************************************************)
(* The program examples/create_onion.rs: one onion is formed, and a loop   *)
(* hands it from node to node until its sender has the reply.  Every node  *)
(* of the two paths has an address of its own, as in the example, and the  *)
(* two path lengths and the two payload lengths are chosen at the start.   *)
(* In the example all nodes have one OnionFormat.  Here one of them, not   *)
(* the sender, may have been set up with another max_path_length.          *)
(***************************************************************************)
EXTENDS OnionFormat

CONSTANTS
  PayloadLengths, ReplyLengths,
  OddWidths      \* the max_path_length that one node may have instead

ASSUME LengthsAssumption ==
  /\ PayloadLengths \subseteq Nat /\ ReplyLengths \subseteq Nat
  /\ OddWidths \subseteq Nat \ {0, MaxPathLength}

VARIABLES
  route,             \* [n_f, n_b, payload, reply]: the lengths chosen
  odd,               \* [at, width]: the node with another width, or at 0
  expected_reply,    \* the ExpectedResponse of form_onion
  current_address,
  current_onion,
  leg, hop,          \* where current_address stands on its path
  received,          \* what the receiver was handed, as a sequence of at most one
  outcome            \* "running", "answered", or the error the loop ended with

vars == <<route, odd, expected_reply, current_address, current_onion, leg, hop,
          received, outcome>>

Lengths == 1 .. MaxPathLength

forward_path(n)  == [i \in 1 .. n |-> <<"forward", i>>]
backward_path(n) == [i \in 1 .. n |-> <<"backward", i>>]
addresses == {"forward", "backward"} \X Lengths

private_keys == [a \in addresses |-> KeyPair(a, 1)]

Text(text, len) == IF len = 0 THEN Empty ELSE Bytes([kind |-> "plain", text |-> text], len)

sent_payload  == Text("payload", route.payload)
reply_payload == Text("reply", route.reply)

Init ==
  /\ route \in [n_f : Lengths, n_b : Lengths, payload : PayloadLengths,
                reply : ReplyLengths]
  /\ odd \in {[at |-> 0, width |-> MaxPathLength]}
             \cup [at : 1 .. route.n_f + route.n_b - 1, width : OddWidths]
  /\ LET formed == form_onion("coins", private_keys, forward_path(route.n_f),
                              backward_path(route.n_b), sent_payload)
     IN  /\ current_onion = formed.onion
         /\ expected_reply = formed.expected
  /\ current_address = forward_path(route.n_f)[1]
  /\ leg = "forward" /\ hop = 1
  /\ received = <<>>
  /\ outcome = "running"

(* Nodes in the order of their turns. *)
Turn == IF leg = "forward" THEN hop ELSE route.n_f + hop

width == IF Turn = odd.at THEN odd.width ELSE MaxPathLength

proc ==
  LET expected_tag == [i \in {expected_reply.identifier} |-> expected_reply.tag]
  IN  proc_onion(width, private_keys[current_address], expected_tag, current_onion)

Hop ==
  /\ outcome = "running"
  /\ proc.ok /\ proc.role = "Hop"
  /\ current_onion' = proc.next_onion
  /\ current_address' = proc.next_address
  /\ hop' = hop + 1
  /\ UNCHANGED <<route, odd, expected_reply, leg, received, outcome>>

(* The receiver answers at once. *)
Receiver ==
  /\ outcome = "running"
  /\ proc.ok /\ proc.role = "Receiver"
  /\ LET reply == reply_onion(width, private_keys[current_address], current_onion,
                               reply_payload)
     IN  /\ reply.ok
         /\ current_onion' = reply.onion
         /\ current_address' = reply.next
  /\ leg' = "backward" /\ hop' = 1
  /\ received' = Append(received, proc.payload)
  /\ UNCHANGED <<route, odd, expected_reply, outcome>>

(* The sender compares the reply and leaves the loop; an error ends it, too. *)
Ends ==
  /\ outcome = "running"
  /\ proc.ok => proc.role = "Sender"
  /\ outcome' = IF ~ proc.ok THEN proc.err
                ELSE IF proc.payload = reply_payload THEN "answered" ELSE "wrong reply"
  /\ UNCHANGED <<route, odd, expected_reply, current_address, current_onion, leg, hop,
                 received>>

(* The loop is left with break or by an error; it does not stop otherwise. *)
Done == outcome # "running" /\ UNCHANGED vars

Next == Hop \/ Receiver \/ Ends \/ Done

Spec == Init /\ [][Next]_vars

-----------------------------------------------------------------------------
Path == IF leg = "forward" THEN forward_path(route.n_f) ELSE backward_path(route.n_b)

master == random_key("coins")

key_of(h) ==
  IF leg = "forward" THEN forward_key(master, h - 1)
  ELSE IF h = route.n_b THEN master ELSE backward_key(master, h - 1)

layer(dir, h, nonce) == [dir |-> dir, key |-> derive_key(SymEnc, key_of(h)), nonce |-> nonce]

(* Where cell c of the header that reaches hop h comes from: the block of  *)
(* a hop ahead, a cell of padding the sender drew, or the zero cell that a *)
(* hop behind shifted in; and the layers on it: those that the hops from h *)
(* on will take off, or those that the hops before h have put on.          *)
CellIsRight(h, c) ==
  LET n     == Len(Path)
      N     == MaxPathLength
      cell  == current_onion.header[c]
      block == h + c - 1       \* the hop whose block it would be
      zero  == h + c - N - 1   \* the hop that would have shifted it in
      drawn == h + c - n       \* the cell of padding it would be
  IN  IF block <= n
      THEN /\ cell.base.kind = "block"
           /\ cell.base.cipher.public = private_keys[Path[block]]
           /\ cell.layers = [i \in 1 .. c - 1 |-> layer("enc", block - i, i + 1)]
      ELSE IF zero >= 1
      THEN /\ cell.base.kind = "zero"
           /\ cell.layers = [i \in 1 .. h - zero |-> layer("dec", zero + i - 1, N + 2 - i)]
      ELSE /\ cell.base = [kind |-> "random",
                           coin |-> [rng |-> [rng |-> "coins", leg |-> leg], cell |-> drawn]]
           /\ cell.layers = [i \in 1 .. n - h |-> layer("enc", n - i, drawn + i)]

(* A header that has been through the hands of the odd node, which was to  *)
(* pass it on.  At the receiver's the first header ends.                   *)
Misshifted == odd.at \notin {0, route.n_f} /\ Turn > odd.at

(* Wherever the onion is, each cell of its header is the right one, under  *)
(* the right layers: what a hop takes off, shifts and pads leaves the next *)
(* hop its own block and the cells that the sender reckoned with when it   *)
(* computed that block's tag, for every path length.                       *)
HeaderIsRight ==
  outcome = "running" /\ ~ Misshifted =>
    \A c \in 1 .. MaxPathLength : CellIsRight(hop, c)

(* The onion visits the nodes of the two paths in order, is refused by     *)
(* none of them whose width is the sender's, is handed out at the end of   *)
(* the forward path only, with the payload that was sent, and ends at its  *)
(* sender with the reply.                                                  *)
VisitsThePath ==
  /\ outcome \in {"running", "answered"} \/ odd.at # 0
  /\ current_address = Path[hop]
  /\ received = IF leg = "forward" THEN <<>> ELSE <<sent_payload>>
  /\ outcome = "answered" => leg = "backward" /\ hop = route.n_b

(* A node with another max_path_length ends the journey: at once, with an  *)
(* index out of bounds, if it expects more cells than there are; at the    *)
(* next node, as a tag that does not match, if it shifts fewer.  Only a    *)
(* receiver may expect fewer, since it passes no header on.                *)
OddWidthEndsIt ==
  outcome # "running" /\ odd.at # 0 =>
    <<Turn, outcome>> =
      IF odd.width > MaxPathLength THEN <<odd.at, "panic: header[i + 1]">>
      ELSE IF odd.at = route.n_f THEN <<route.n_f + route.n_b, "answered">>
      ELSE <<odd.at + 1, "MacMismatch">>

(* The length of a serialized onion, as the tests take it. *)
onion_size(onion) ==
  HeaderBytes(onion.header) + VecLengthBytes + onion.forward.len
    + VecLengthBytes + onion.backward.vec.len + TagBytes

(* Where an onion stands, and how long its two paths are, can not be told  *)
(* from its size: the cells and the forward section have one length on all *)
(* links of both legs, and the whole onion keeps the size it was formed    *)
(* with up to its receiver.  On the way back it has that size if and only  *)
(* if the reply is as long as the payload, and differs by as much as the   *)
(* two do otherwise.  (The tests test_size_independent_of_path and         *)
(* test_reply_same_size, where the reply is as long as the payload.)       *)
SizeIndependentOfPath ==
  /\ \A c \in 1 .. MaxPathLength : current_onion.header[c].len = single_header_length
  /\ current_onion.forward.len = total_header_length + 8 + route.payload
  /\ onion_size(current_onion) =
       2 * (total_header_length + route.payload) + 40
         + (IF leg = "forward" THEN 0 ELSE route.reply - route.payload)

-----------------------------------------------------------------------------
(* A comment of lib.rs, taken at its word. *)

(* ExpectedResponse.tag is documented as the tag of the forward onion as   *)
(* it is expected to be received; ExpectedResponse.onion is that onion.    *)
TagIsTheOneReceived == expected_reply.tag = expected_reply.onion.backward.tag
=============================================================================
