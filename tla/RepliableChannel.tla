-------------------------- MODULE RepliableChannel --------------------------
(***************************************************************************)
(* What the format promises to its users (the head comment of              *)
(* src/src/lib.rs and README.md): a sender sends a payload along a path it *)
(* chose, the node at the end of the path receives that payload, may       *)
(* answer, and the answer comes back to the sender and to nobody else.     *)
(* Nothing here says that a payload arrives, or that it arrives once.      *)
(***************************************************************************)
EXTENDS Integers, Sequences

CONSTANTS Sessions, Orders, Replies

VARIABLES
  sent,        \* sent[s]: <<order>> once the onion for s is sent, else <<>>
  delivered,   \* payloads received
  replies,     \* answers given
  returned     \* answers that came back

vars == <<sent, delivered, replies, returned>>

Receiver(o) == o.forward[Len(o.forward)]

Init ==
  /\ sent = [s \in Sessions |-> <<>>]
  /\ delivered = {} /\ replies = {} /\ returned = {}

Send(s, o) ==
  /\ sent[s] = <<>>
  /\ sent' = [sent EXCEPT ![s] = <<o>>]
  /\ UNCHANGED <<delivered, replies, returned>>

Deliver(s) ==
  /\ sent[s] # <<>>
  /\ delivered' = delivered \cup
       {[session |-> s, at |-> Receiver(sent[s][1]), payload |-> sent[s][1].payload]}
  /\ UNCHANGED <<sent, replies, returned>>

Reply(s, r) ==
  /\ \E d \in delivered : d.session = s
  /\ replies' = replies \cup {[session |-> s, reply |-> r]}
  /\ UNCHANGED <<sent, delivered, returned>>

Return(q) ==
  /\ q \in replies
  /\ returned' = returned \cup
       {[session |-> q.session, at |-> sent[q.session][1].sender, reply |-> q.reply]}
  /\ UNCHANGED <<sent, delivered, replies>>

Next ==
  \/ \E s \in Sessions, o \in Orders : Send(s, o)
  \/ \E s \in Sessions : Deliver(s)
  \/ \E s \in Sessions, r \in Replies : Reply(s, r)
  \/ \E q \in replies : Return(q)

Spec == Init /\ [][Next]_vars
=============================================================================
