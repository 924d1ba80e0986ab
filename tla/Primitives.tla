----------------------------- MODULE Primitives -----------------------------
(***************************************************************************)
(* The cryptographic building blocks of src/src/primitives.rs as an        *)
(* algebra.  A byte string is a blob: what it was before any cipher was    *)
(* applied (base), its length, and the ciphers applied since, oldest       *)
(* first (layers).  A cipher layer disappears exactly when its inverse is  *)
(* applied on top of it, with the same key and the same nonce; any other   *)
(* operation adds a layer.  Keys and MACs are terms: equal iff they are    *)
(* computed alike.  That is the ideal behaviour of AEZ, HMAC and SHA3.     *)
(***************************************************************************)
EXTENDS Integers, Sequences, FiniteSets

-----------------------------------------------------------------------------
(* Key derivation.  A role is the pair that discriminant() hashes: the     *)
(* code of the variant and the hop number it carries (0 for the others).   *)

SymEnc      == <<1, 0>>
Mac         == <<2, 0>>
PrngRole    == <<5, 0>>
Forward(i)  == <<6, i>>
Backward(i) == <<7, i>>

random_key(rng) == [seed |-> rng, path |-> <<>>]

derive_key(role, key) == [key EXCEPT !.path = Append(@, role)]

-----------------------------------------------------------------------------
(* Byte strings and the length-preserving cipher. *)

Bytes(base, len) == [base |-> base, len |-> len, layers |-> <<>>]

Empty == Bytes([kind |-> "empty"], 0)

Opposite(dir) == IF dir = "enc" THEN "dec" ELSE "enc"

(* One pass of the cipher in direction dir: the code returns early on an   *)
(* empty slice, which is therefore left as it is.                          *)
Cipher(dir, key, nonce, data) ==
  LET n       == Len(data.layers)
      inverse == [dir |-> Opposite(dir), key |-> key, nonce |-> nonce]
  IN  IF data.len = 0 THEN data
      ELSE IF n > 0 /\ data.layers[n] = inverse
           THEN [data EXCEPT !.layers = SubSeq(@, 1, n - 1)]
           ELSE [data EXCEPT !.layers =
                   Append(@, [dir |-> dir, key |-> key, nonce |-> nonce])]

symmetric_encrypt(key, nonce, data) == Cipher("enc", key, nonce, data)
symmetric_decrypt(key, nonce, data) == Cipher("dec", key, nonce, data)

(* The first len bytes of the keystream of seed. *)
prng(seed, len) == Bytes([kind |-> "prng", stream |-> seed], len)

-----------------------------------------------------------------------------
(* Tags.  xor_tag is symmetric difference on sets of atoms, so that the    *)
(* all-zero tag is {} and xoring twice with the same tag cancels.          *)

ZeroTag == {}

random_tag(rng) == {[kind |-> "randomTag", coin |-> rng]}

tag(key, data) == {[kind |-> "mac", macKey |-> key, over |-> data]}

xor_tag(a, b) == (a \ b) \cup (b \ a)

-----------------------------------------------------------------------------
(* Public-key encryption (hashed ElGamal).  A key pair is named by the     *)
(* node that generated it and a counter; pair [owner, gen] stands for both *)
(* halves.  Decrypting with another private key, or decrypting anything    *)
(* but an unmodified ciphertext, returns bytes that are no (key, Meta).    *)

KeyPair(owner, gen) == [owner |-> owner, gen |-> gen]

asymmetric_encrypt(public, msg) == [kind |-> "pke", public |-> public, msg |-> msg]

Garbage == [kind |-> "garbage"]

asymmetric_decrypt(private, c) ==
  IF c.kind = "pke" /\ c.public = private THEN c.msg ELSE Garbage
=============================================================================
