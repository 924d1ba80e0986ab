---------------------------- MODULE SphinxPayload ----------------------------
(***************************************************************************)
(* The layout of a Sphinx payload before any layer of encryption is put    *)
(* on it: sphinx/src/payload/mod.rs, byte by byte.  A payload is           *)
(* SECURITY_PARAMETER zeroes, the plaintext, a 1, and zeroes up to the     *)
(* size that the caller asked for.                                         *)
(***************************************************************************)
EXTENDS Integers, Sequences

CONSTANTS
  SECURITY_PARAMETER,     \* 16 in the code
  DIGEST_RESULT_SIZE      \* the block size of Lioness, 32 in the code

ASSUME SizesAssumption == SECURITY_PARAMETER \in Nat /\ DIGEST_RESULT_SIZE \in Nat

PAYLOAD_OVERHEAD_SIZE == SECURITY_PARAMETER + 1

(* 32 against 17: the block of Lioness, not the overhead, is the least     *)
(* payload_size, and a payload of that size passes recover_asserts.        *)
ASSUME BlockAssumption == DIGEST_RESULT_SIZE > PAYLOAD_OVERHEAD_SIZE

InvalidPayload == [ok |-> FALSE, err |-> "InvalidPayload"]

(* The sizes for which encapsulate_message goes on. *)
validate_parameters(payload_size, plaintext_len) ==
  /\ payload_size >= PAYLOAD_OVERHEAD_SIZE
  /\ payload_size >= DIGEST_RESULT_SIZE
  /\ plaintext_len <= payload_size - PAYLOAD_OVERHEAD_SIZE

Zeroes(n) == [i \in 1 .. n |-> 0]

(* take(payload_size) over an endless tail of zeroes. *)
set_final_payload(plaintext_message, payload_size) ==
  SubSeq(Zeroes(SECURITY_PARAMETER) \o plaintext_message \o <<1>> \o Zeroes(payload_size),
         1, payload_size)

from_bytes(bytes) ==
  IF Len(bytes) < PAYLOAD_OVERHEAD_SIZE THEN InvalidPayload
  ELSE [ok |-> TRUE, payload |-> bytes]

(* What debug_assert! demands of the payload before it is read. *)
recover_asserts(payload) == Len(payload) > PAYLOAD_OVERHEAD_SIZE

Marks(bytes) == {i \in DOMAIN bytes : bytes[i] = 1}

rposition(bytes) == CHOOSE i \in Marks(bytes) : \A j \in Marks(bytes) : j <= i

(* Mutant: the plaintext ends at the first 1, not at the last. *)
recover_plaintext_first_mark(payload) ==
  LET padded_plaintext == SubSeq(payload, SECURITY_PARAMETER + 1, Len(payload))
      marks == Marks(padded_plaintext)
      first == CHOOSE i \in marks : \A j \in marks : i <= j
  IN  IF marks = {} THEN InvalidPayload
      ELSE [ok |-> TRUE, plaintext |-> SubSeq(padded_plaintext, 1, first - 1)]

(* Mutant: the leading zeroes are not looked at. *)
recover_plaintext_unchecked(payload) ==
  LET padded_plaintext == SubSeq(payload, SECURITY_PARAMETER + 1, Len(payload)) IN
  IF Marks(padded_plaintext) = {} THEN InvalidPayload
  ELSE [ok |-> TRUE,
        plaintext |-> SubSeq(padded_plaintext, 1, rposition(padded_plaintext) - 1)]

recover_plaintext(payload) ==
  LET leading          == SubSeq(payload, 1, SECURITY_PARAMETER)
      padded_plaintext == SubSeq(payload, SECURITY_PARAMETER + 1, Len(payload))
  IN  IF \E i \in DOMAIN leading : leading[i] # 0 THEN InvalidPayload
      ELSE IF Marks(padded_plaintext) = {} THEN InvalidPayload
      ELSE [ok |-> TRUE,
            plaintext |-> SubSeq(padded_plaintext, 1, rposition(padded_plaintext) - 1)]
=============================================================================
