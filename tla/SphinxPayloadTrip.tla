-------------------------- MODULE SphinxPayloadTrip --------------------------
(***************************************************************************)
(* A payload from set_final_payload to recover_plaintext, with no layer of *)
(* encryption between the two: that is how the tests of payload/mod.rs use *)
(* it, and what the last node of a route is left with.  On the way one     *)
(* byte may be altered, or the end cut off, before from_bytes.             *)
(***************************************************************************)
EXTENDS SphinxPayload

CONSTANTS
  Byte,                  \* the values of a byte; 0 and 1 have a meaning
  MaxPlaintextLength,    \* bound: the longest plaintext tried
  MaxPayloadSize         \* bound: the largest payload_size tried

ASSUME TripAssumption ==
  {0, 1} \subseteq Byte /\ MaxPlaintextLength \in Nat /\ MaxPayloadSize \in Nat

VARIABLES
  message, size,     \* what encapsulate_message is called with
  bytes,             \* the payload
  change,            \* what happened to it: <<"none", 0>>, <<"byte", i>>, <<"cut", n>>
  step,              \* "set", "sent", "read"
  result             \* what recover_plaintext returned, or why it was not called

vars == <<message, size, bytes, change, step, result>>

Plaintexts == UNION {[1 .. n -> Byte] : n \in 0 .. MaxPlaintextLength}

None == [ok |-> FALSE, err |-> "none"]

Init ==
  /\ message \in Plaintexts
  /\ size \in 0 .. MaxPayloadSize
  /\ bytes = <<>> /\ change = <<"none", 0>> /\ step = "set" /\ result = None

Encapsulate ==
  /\ step = "set"
  /\ validate_parameters(size, Len(message))
  /\ bytes' = set_final_payload(message, size)
  /\ step' = "sent"
  /\ UNCHANGED <<message, size, change, result>>

Refuse ==
  /\ step = "set"
  /\ ~ validate_parameters(size, Len(message))
  /\ result' = InvalidPayload
  /\ step' = "read"
  /\ UNCHANGED <<message, size, bytes, change>>

Alter ==
  /\ step = "sent" /\ change[1] = "none"
  /\ \E i \in DOMAIN bytes, b \in Byte :
       /\ b # bytes[i]
       /\ bytes' = [bytes EXCEPT ![i] = b]
       /\ change' = <<"byte", i>>
  /\ UNCHANGED <<message, size, step, result>>

Cut ==
  /\ step = "sent" /\ change[1] = "none"
  /\ \E n \in 0 .. Len(bytes) - 1 :
       /\ bytes' = SubSeq(bytes, 1, n)
       /\ change' = <<"cut", n>>
  /\ UNCHANGED <<message, size, step, result>>

Recover ==
  /\ step = "sent"
  /\ LET read == from_bytes(bytes)
     IN  result' = IF ~ read.ok THEN read
                   ELSE IF ~ recover_asserts(read.payload)
                   THEN [ok |-> FALSE, err |-> "panic"]
                   ELSE recover_plaintext(read.payload)
  /\ step' = "read"
  /\ UNCHANGED <<message, size, bytes, change>>

Done == step = "read" /\ UNCHANGED vars

Next == Encapsulate \/ Refuse \/ Alter \/ Cut \/ Recover \/ Done

Spec == Init /\ [][Next]_vars

-----------------------------------------------------------------------------
(* What was encapsulated is what is recovered, for every plaintext that    *)
(* the size admits: plaintexts that hold or end in the mark or in zeroes,  *)
(* empty ones, and those that leave no room for padding.                   *)
RecoversMessage ==
  step = "read" /\ change[1] = "none" /\ validate_parameters(size, Len(message)) =>
    result = [ok |-> TRUE, plaintext |-> message]

(* A change never shows as another plaintext unless it is within reach of  *)
(* the plaintext's own bytes: leading zeroes that are none are refused,    *)
(* and a cut that spares the mark is harmless.                             *)
ChangeIsLocal ==
  step = "read" =>
    /\ change[1] = "byte" /\ change[2] <= SECURITY_PARAMETER => ~ result.ok
    /\ /\ change[1] = "cut"
       /\ change[2] >= PAYLOAD_OVERHEAD_SIZE + Len(message)
       /\ change[2] > PAYLOAD_OVERHEAD_SIZE
       => result = [ok |-> TRUE, plaintext |-> message]
    /\ change[1] = "byte" /\ result.ok /\ Len(result.plaintext) = Len(message) =>
         \A i \in DOMAIN message :
           result.plaintext[i] # message[i] => change[2] = SECURITY_PARAMETER + i

=============================================================================
