------------------------- MODULE SphinxPayload_proofs -------------------------
(***************************************************************************)
(* recover_plaintext inverts set_final_payload, for every security         *)
(* parameter, size and plaintext; and what recover_plaintext makes of a    *)
(* payload that was altered in one byte, or cut, on its way.               *)
(***************************************************************************)
EXTENDS SphinxPayloadTrip, SequenceTheorems, WellFoundedInduction, TLAPS

(* Sizes and places of what set_final_payload writes. *)
LEMMA PayloadLayout ==
  ASSUME NEW m \in Seq(Byte), NEW n \in Nat, validate_parameters(n, Len(m))
  PROVE  LET p == set_final_payload(m, n) IN
         /\ p \in Seq(Byte) /\ Len(p) = n
         /\ \A i \in 1 .. n :
              p[i] = IF i <= SECURITY_PARAMETER THEN 0
                     ELSE IF i <= SECURITY_PARAMETER + Len(m) THEN m[i - SECURITY_PARAMETER]
                     ELSE IF i = SECURITY_PARAMETER + Len(m) + 1 THEN 1
                     ELSE 0
  <1> DEFINE k == SECURITY_PARAMETER
             z == Zeroes(k)
             t == Zeroes(n)
             a == z \o m
             u == <<1>>
             b == a \o u
             c == b \o t
  <1>0. k \in Nat /\ k + 1 + Len(m) <= n /\ Len(m) \in Nat
    BY SizesAssumption DEF validate_parameters, PAYLOAD_OVERHEAD_SIZE
  <1>1. z \in Seq(Byte) /\ Len(z) = k /\ \A i \in 1 .. k : z[i] = 0
    BY <1>0, TripAssumption DEF Zeroes
  <1>2. t \in Seq(Byte) /\ Len(t) = n /\ \A i \in 1 .. n : t[i] = 0
    BY <1>0, TripAssumption DEF Zeroes
  <1> HIDE DEF z, t
  <1>3. /\ a \in Seq(Byte) /\ Len(a) = k + Len(m)
        /\ \A i \in 1 .. k + Len(m) : a[i] = IF i <= k THEN 0 ELSE m[i - k]
    <2>1. /\ a \in Seq(Byte) /\ Len(a) = Len(z) + Len(m)
          /\ \A i \in 1 .. Len(z) + Len(m) :
               a[i] = IF i <= Len(z) THEN z[i] ELSE m[i - Len(z)]
      BY <1>1, ConcatProperties, Zenon
    <2> QED
      BY <1>0, <1>1, <2>1
  <1> HIDE DEF a
  <1>4. /\ b \in Seq(Byte) /\ Len(b) = k + Len(m) + 1
        /\ \A i \in 1 .. k + Len(m) + 1 : b[i] = IF i <= k + Len(m) THEN a[i] ELSE 1
    <2>1. u \in Seq(Byte) /\ Len(u) = 1 /\ u[1] = 1
      BY TripAssumption
    <2> HIDE DEF u
    <2>2. /\ b \in Seq(Byte) /\ Len(b) = Len(a) + Len(u)
          /\ \A i \in 1 .. Len(a) + Len(u) :
               b[i] = IF i <= Len(a) THEN a[i] ELSE u[i - Len(a)]
      BY <1>3, <2>1, ConcatProperties, Zenon
    <2> QED
      BY <1>0, <1>3, <2>1, <2>2
  <1> HIDE DEF b
  <1>5. /\ c \in Seq(Byte) /\ Len(c) = k + Len(m) + 1 + n
        /\ \A i \in 1 .. k + Len(m) + 1 + n :
             c[i] = IF i <= k + Len(m) + 1 THEN b[i] ELSE 0
    <2>1. /\ c \in Seq(Byte) /\ Len(c) = Len(b) + n
          /\ \A i \in 1 .. Len(b) + n : c[i] = IF i <= Len(b) THEN b[i] ELSE t[i - Len(b)]
      BY <1>2, <1>4, ConcatProperties
    <2> QED
      BY <1>0, <1>2, <1>4, <2>1
  <1> HIDE DEF c
  <1>6. /\ SubSeq(c, 1, n) \in Seq(Byte) /\ Len(SubSeq(c, 1, n)) = n
        /\ \A i \in 1 .. n : SubSeq(c, 1, n)[i] = c[i]
    BY <1>0, <1>5
  <1>7. set_final_payload(m, n) = SubSeq(c, 1, n)
    BY DEF set_final_payload, c, b, u, a, z, t
  <1> QED
    BY <1>0, <1>3, <1>4, <1>5, <1>6, <1>7

(* The last of some positions of a sequence. *)
LEMMA LastPosition ==
  ASSUME NEW n \in Nat, NEW S, S \subseteq 1 .. n, S # {}
  PROVE  \E i \in S : \A j \in S : j <= i
  <1> DEFINE R == OpToRel(<, Nat)
             D == {d \in Nat : n - d \in S}
  <1>1. IsWellFoundedOn(R, Nat)
    BY NatLessThanWellFounded, Zenon
  <1>2. \A a, b \in Nat : a < b => <<a, b>> \in R
    BY DEF OpToRel
  <1> HIDE DEF R
  <1>3. PICK s \in S : TRUE
    OBVIOUS
  <1>4. \A i \in S : n - i \in Nat /\ n - (n - i) = i /\ n - i \in D
    OBVIOUS
  <1>5. D \subseteq Nat /\ D # {}
    BY <1>3, <1>4
  <1>6. PICK d \in D : \A e \in D : <<e, d>> \notin R
    BY <1>1, <1>5, WFMin
  <1>7. \A e \in D : ~ e < d
    BY <1>2, <1>5, <1>6
  <1>8. n - d \in S /\ d \in Nat
    OBVIOUS
  <1>9. ASSUME NEW j \in S PROVE j <= n - d
    <2>1. ~ n - j < d /\ j \in Nat
      BY <1>4, <1>7
    <2> QED
      BY <1>8, <2>1
  <1> QED
    BY <1>8, <1>9

(* The plaintext is what stands between the leading zeroes and the last    *)
(* mark.                                                                   *)
LEMMA MarkFound ==
  ASSUME NEW x \in Seq(Byte), NEW m \in Seq(Byte),
         SECURITY_PARAMETER + Len(m) + 1 <= Len(x),
         \A i \in 1 .. SECURITY_PARAMETER : x[i] = 0,
         \A i \in 1 .. Len(m) : x[SECURITY_PARAMETER + i] = m[i],
         x[SECURITY_PARAMETER + Len(m) + 1] = 1,
         \A i \in 1 .. Len(x) : i > SECURITY_PARAMETER + Len(m) + 1 => x[i] # 1
  PROVE  recover_plaintext(x) = [ok |-> TRUE, plaintext |-> m]
  <1> DEFINE k == SECURITY_PARAMETER
             l == Len(m)
             n == Len(x)
             leading == SubSeq(x, 1, k)
             padded  == SubSeq(x, k + 1, Len(x))
  <1>1. k \in Nat /\ l \in Nat /\ n \in Nat /\ k + l + 1 <= n
    BY SizesAssumption
  <1>2. \A i \in DOMAIN leading : leading[i] = 0
    BY <1>1
  <1>3. /\ padded \in Seq(Byte) /\ Len(padded) = n - k
        /\ DOMAIN padded = 1 .. n - k
        /\ \A i \in 1 .. n - k : padded[i] = x[k + i]
    BY <1>1
  <1> HIDE DEF leading, padded
  <1>4. padded[l + 1] = 1 /\ l + 1 \in 1 .. n - k
    BY <1>1, <1>3
  <1>5. ASSUME NEW i \in 1 .. n - k, i > l + 1
        PROVE  padded[i] # 1
    <2>1. k + i \in 1 .. Len(x) /\ k + i > SECURITY_PARAMETER + Len(m) + 1
      BY <1>1, <1>5
    <2> QED
      BY <1>3, <2>1
  <1>6. l + 1 \in Marks(padded) /\ \A j \in Marks(padded) : j <= l + 1
    <2>1. l + 1 \in Marks(padded)
      BY <1>3, <1>4 DEF Marks
    <2>2. ASSUME NEW j \in Marks(padded) PROVE j <= l + 1
      <3>1. j \in 1 .. n - k /\ padded[j] = 1
        BY <1>3 DEF Marks
      <3> QED
        BY <1>1, <1>5, <3>1
    <2> QED
      BY <2>1, <2>2
  <1>7. \A i \in Marks(padded) : i \in Nat
    BY <1>3 DEF Marks
  <1>8. rposition(padded) = l + 1
    <2>1. /\ rposition(padded) \in Marks(padded)
          /\ \A j \in Marks(padded) : j <= rposition(padded)
      BY <1>6 DEF rposition
    <2> QED
      BY <1>1, <1>6, <1>7, <2>1
  <1>9. SubSeq(padded, 1, l) = m
    <2>1. SubSeq(padded, 1, l) \in Seq(Byte) /\ Len(SubSeq(padded, 1, l)) = l
      BY <1>1, <1>3
    <2>2. \A i \in 1 .. l : SubSeq(padded, 1, l)[i] = m[i]
      BY <1>1, <1>3
    <2> QED
      BY <2>1, <2>2
  <1>10. rposition(padded) - 1 = l
    BY <1>1, <1>8
  <1> QED
    BY <1>2, <1>6, <1>9, <1>10 DEF recover_plaintext, leading, padded

(* A plaintext that is recovered stands behind the leading zeroes. *)
LEMMA RecoveredStandsThere ==
  ASSUME NEW x \in Seq(Byte), SECURITY_PARAMETER <= Len(x), recover_plaintext(x).ok
  PROVE  /\ \A i \in 1 .. SECURITY_PARAMETER : x[i] = 0
         /\ LET q == recover_plaintext(x).plaintext IN
            /\ Len(q) \in Nat
            /\ \A i \in 1 .. Len(q) : q[i] = x[SECURITY_PARAMETER + i]
  <1> DEFINE k == SECURITY_PARAMETER
             n == Len(x)
             leading == SubSeq(x, 1, k)
             padded  == SubSeq(x, k + 1, Len(x))
             r == rposition(padded)
  <1>1. k \in Nat /\ n \in Nat /\ k <= n
    BY SizesAssumption
  <1>2. DOMAIN leading = 1 .. k /\ \A i \in 1 .. k : leading[i] = x[i]
    BY <1>1
  <1>3. /\ padded \in Seq(Byte) /\ Len(padded) = n - k
        /\ DOMAIN padded = 1 .. n - k
        /\ \A i \in 1 .. n - k : padded[i] = x[k + i]
    BY <1>1
  <1> HIDE DEF leading, padded
  <1>4. ~ InvalidPayload.ok
    BY DEF InvalidPayload
  <1>5. /\ \A i \in DOMAIN leading : leading[i] = 0
        /\ Marks(padded) # {}
        /\ recover_plaintext(x).plaintext = SubSeq(padded, 1, r - 1)
    BY <1>4 DEF recover_plaintext, leading, padded
  <1>6. Marks(padded) \subseteq 1 .. n - k /\ n - k \in Nat
    BY <1>1, <1>3 DEF Marks
  <1>7. \E i \in Marks(padded) : \A j \in Marks(padded) : j <= i
    BY <1>5, <1>6, LastPosition
  <1>8. r \in Marks(padded)
    BY <1>7 DEF rposition
  <1>9. r \in Nat /\ 1 <= r /\ r <= n - k
    BY <1>6, <1>8
  <1> HIDE DEF r
  <1>10. /\ Len(SubSeq(padded, 1, r - 1)) = r - 1 /\ r - 1 \in Nat
         /\ \A i \in 1 .. r - 1 : SubSeq(padded, 1, r - 1)[i] = padded[i]
    BY <1>1, <1>3, <1>9
  <1>11. \A i \in 1 .. r - 1 : padded[i] = x[k + i]
    BY <1>1, <1>3, <1>9
  <1> QED
    BY <1>2, <1>5, <1>10, <1>11

(* The layout has the mark right behind the plaintext, and none after it,  *)
(* also when it is cut behind the mark.                                    *)
LEMMA CutReadsBack ==
  ASSUME NEW m \in Seq(Byte), NEW n \in Nat, validate_parameters(n, Len(m)),
         NEW c \in 0 .. n, PAYLOAD_OVERHEAD_SIZE + Len(m) <= c
  PROVE  recover_plaintext(SubSeq(set_final_payload(m, n), 1, c))
           = [ok |-> TRUE, plaintext |-> m]
  <1> DEFINE k == SECURITY_PARAMETER
             p == set_final_payload(m, n)
             x == SubSeq(p, 1, c)
  <1>0. k \in Nat /\ k + Len(m) + 1 <= c /\ Len(m) \in Nat /\ c \in Nat /\ c <= n
    BY SizesAssumption DEF PAYLOAD_OVERHEAD_SIZE
  <1>1. /\ p \in Seq(Byte) /\ Len(p) = n
        /\ \A i \in 1 .. n :
             p[i] = IF i <= k THEN 0
                    ELSE IF i <= k + Len(m) THEN m[i - k]
                    ELSE IF i = k + Len(m) + 1 THEN 1 ELSE 0
    BY PayloadLayout
  <1> HIDE DEF p
  <1>2. x \in Seq(Byte) /\ Len(x) = c /\ \A i \in 1 .. c : x[i] = p[i]
    BY <1>0, <1>1
  <1> HIDE DEF x
  <1>3. \A i \in 1 .. k : x[i] = 0
    BY <1>0, <1>1, <1>2
  <1>4. \A i \in 1 .. Len(m) : x[k + i] = m[i]
    BY <1>0, <1>1, <1>2
  <1>5. x[k + Len(m) + 1] = 1
    BY <1>0, <1>1, <1>2
  <1>6. \A i \in 1 .. Len(x) : i > k + Len(m) + 1 => x[i] # 1
    BY <1>0, <1>1, <1>2
  <1>7. recover_plaintext(x) = [ok |-> TRUE, plaintext |-> m]
    BY <1>0, <1>2, <1>3, <1>4, <1>5, <1>6, MarkFound
  <1> QED
    BY <1>7 DEF x, p

(* What is written is what is read: every plaintext comes back from the    *)
(* payload that set_final_payload makes of it.                             *)
THEOREM RecoverInvertsSet ==
  ASSUME NEW m \in Seq(Byte), NEW n \in Nat, validate_parameters(n, Len(m))
  PROVE  recover_plaintext(set_final_payload(m, n)) = [ok |-> TRUE, plaintext |-> m]
  <1>1. PAYLOAD_OVERHEAD_SIZE + Len(m) <= n /\ n \in 0 .. n
    BY SizesAssumption DEF validate_parameters, PAYLOAD_OVERHEAD_SIZE
  <1>2. SubSeq(set_final_payload(m, n), 1, n) = set_final_payload(m, n)
    <2> DEFINE p == set_final_payload(m, n)
    <2>1. p \in Seq(Byte) /\ Len(p) = n
      BY PayloadLayout
    <2> HIDE DEF p
    <2>2. SubSeq(p, 1, n) = p
      BY <2>1
    <2> QED
      BY <2>2 DEF p
  <1> QED
    BY <1>1, <1>2, CutReadsBack

-----------------------------------------------------------------------------
(* The part of the state that RecoversMessage needs: until it is altered,  *)
(* a payload on its way is what set_final_payload wrote.                   *)
UnalteredInv ==
  /\ message \in Seq(Byte) /\ size \in Nat
  /\ step = "sent" /\ change[1] = "none" =>
       /\ validate_parameters(size, Len(message))
       /\ bytes = set_final_payload(message, size)

(* The message is what Init chose: a sequence of bytes. *)
LEMMA UnalteredInit ==
  ASSUME Init
  PROVE  UnalteredInv
  <1>1. PICK l \in 0 .. MaxPlaintextLength : message \in [1 .. l -> Byte]
    BY DEF Init, Plaintexts
  <1>2. message \in Seq(Byte)
    BY <1>1, TripAssumption
  <1>3. size \in Nat /\ step = "set"
    BY TripAssumption DEF Init
  <1> QED
    BY <1>2, <1>3 DEF UnalteredInv

(* Alter and Cut say that they changed the payload; nobody else writes it. *)
LEMMA UnalteredStep ==
  ASSUME UnalteredInv, [Next]_vars
  PROVE  UnalteredInv'
  <1> USE DEF UnalteredInv
  <1>1. CASE Encapsulate
    BY <1>1 DEF Encapsulate
  <1>2. CASE Refuse
    BY <1>2 DEF Refuse
  <1>3. CASE Alter
    <2>1. PICK i \in DOMAIN bytes : change' = <<"byte", i>>
      BY <1>3 DEF Alter
    <2> QED
      BY <1>3, <2>1 DEF Alter
  <1>4. CASE Cut
    <2>1. PICK l \in 0 .. Len(bytes) - 1 : change' = <<"cut", l>>
      BY <1>4 DEF Cut
    <2> QED
      BY <1>4, <2>1 DEF Cut
  <1>5. CASE Recover
    BY <1>5 DEF Recover
  <1>6. CASE Done \/ UNCHANGED vars
    BY <1>6 DEF Done, vars
  <1> QED
    BY <1>1, <1>2, <1>3, <1>4, <1>5, <1>6 DEF Next

(* Reading a payload that nobody changed returns the message. *)
LEMMA RecoverReturns ==
  ASSUME UnalteredInv, Recover, change[1] = "none"
  PROVE  result' = [ok |-> TRUE, plaintext |-> message]
  <1>1. validate_parameters(size, Len(message)) /\ bytes = set_final_payload(message, size)
    BY DEF UnalteredInv, Recover
  <1>2. message \in Seq(Byte) /\ size \in Nat
    BY DEF UnalteredInv
  <1>3. Len(bytes) = size
    BY <1>1, <1>2, PayloadLayout
  <1>4. size > PAYLOAD_OVERHEAD_SIZE /\ PAYLOAD_OVERHEAD_SIZE \in Nat
    BY <1>1, <1>2, SizesAssumption, BlockAssumption
       DEF validate_parameters, PAYLOAD_OVERHEAD_SIZE
  <1>5. from_bytes(bytes) = [ok |-> TRUE, payload |-> bytes] /\ recover_asserts(bytes)
    BY <1>2, <1>3, <1>4 DEF from_bytes, recover_asserts
  <1>6. result' = recover_plaintext(bytes)
    BY <1>5 DEF Recover
  <1> QED
    BY <1>1, <1>2, <1>6, RecoverInvertsSet

(* Every plaintext comes back, for all sizes that encapsulate_message      *)
(* admits: RecoversMessage holds in every state of every behaviour.        *)
THEOREM MessagesComeBack == Spec => []RecoversMessage
  <1> DEFINE Inv == UnalteredInv /\ RecoversMessage
  <1>1. Init => Inv
    BY UnalteredInit DEF Init, RecoversMessage
  <1>2. Inv /\ [Next]_vars => Inv'
    <2> SUFFICES ASSUME Inv, [Next]_vars PROVE RecoversMessage'
      BY UnalteredStep
    <2>1. CASE Encapsulate
      BY <2>1 DEF Encapsulate, RecoversMessage
    <2>2. CASE Refuse
      BY <2>2 DEF Refuse, RecoversMessage
    <2>3. CASE Alter \/ Cut
      BY <2>3 DEF Alter, Cut, RecoversMessage
    <2>4. CASE Recover
      <3>1. change' = change /\ message' = message /\ size' = size
        BY <2>4 DEF Recover
      <3> QED
        BY <2>4, <3>1, RecoverReturns DEF RecoversMessage
    <2>5. CASE Done \/ UNCHANGED vars
      BY <2>5 DEF Done, vars, RecoversMessage
    <2> QED
      BY <2>1, <2>2, <2>3, <2>4, <2>5 DEF Next
  <1> QED
    BY <1>1, <1>2, PTL DEF Spec

-----------------------------------------------------------------------------
(* What may have become of the payload p on its way. *)
IsChanged(p, x, how) ==
  \/ how = <<"none", 0>> /\ x = p
  \/ \E i \in DOMAIN p, b \in Byte :
       b # p[i] /\ how = <<"byte", i>> /\ x = [p EXCEPT ![i] = b]
  \/ \E n \in 0 .. Len(p) - 1 : how = <<"cut", n>> /\ x = SubSeq(p, 1, n)

(* What Recover makes of the bytes that arrive. *)
ReadOf(x) ==
  IF ~ from_bytes(x).ok THEN from_bytes(x)
  ELSE IF ~ recover_asserts(from_bytes(x).payload) THEN [ok |-> FALSE, err |-> "panic"]
  ELSE recover_plaintext(from_bytes(x).payload)

(* The invariant behind ChangeIsLocal: the payload is the one that was     *)
(* written, with one change at the most, and the result was read from it.  *)
ChangedInv ==
  /\ message \in Seq(Byte) /\ size \in Nat
  /\ step \in {"set", "sent", "read"}
  /\ step = "set" => change = <<"none", 0>>
  /\ step = "read" /\ change # <<"none", 0>> => result = ReadOf(bytes)
  /\ step = "sent" \/ change # <<"none", 0>> =>
       /\ validate_parameters(size, Len(message))
       /\ IsChanged(set_final_payload(message, size), bytes, change)

(* There is no change yet when a message is chosen. *)
LEMMA ChangedInit == Init => ChangedInv
  BY UnalteredInit DEF Init, ChangedInv, UnalteredInv

(* A second change is not made; reading changes nothing. *)
LEMMA ChangedStep == ChangedInv /\ [Next]_vars => ChangedInv'
  <1> SUFFICES ASSUME ChangedInv, [Next]_vars PROVE ChangedInv'
    OBVIOUS
  <1> DEFINE p == set_final_payload(message, size)
  <1>1. CASE Encapsulate
    <2>1. /\ step = "set" /\ change = <<"none", 0>> /\ step' = "sent"
          /\ validate_parameters(size, Len(message)) /\ bytes' = p
          /\ message' = message /\ size' = size /\ change' = change
      BY <1>1 DEF Encapsulate, ChangedInv
    <2> HIDE DEF p
    <2>2. IsChanged(p, bytes', change')
      BY <2>1 DEF IsChanged
    <2> QED
      BY <2>1, <2>2 DEF ChangedInv, p
  <1>2. CASE Refuse
    BY <1>2 DEF Refuse, ChangedInv
  <1>3. CASE Alter \/ Cut
    <2>1. /\ step = "sent" /\ change[1] = "none" /\ step' = "sent"
          /\ message' = message /\ size' = size
      BY <1>3 DEF Alter, Cut
    <2>2. validate_parameters(size, Len(message)) /\ IsChanged(p, bytes, change)
      BY <2>1 DEF ChangedInv
    <2> HIDE DEF p
    <2>3. bytes = p
      BY <2>1, <2>2 DEF IsChanged
    <2>4. IsChanged(p, bytes', change')
      <3>1. CASE Alter
        BY <2>3, <3>1 DEF Alter, IsChanged
      <3>2. CASE Cut
        BY <2>3, <3>2 DEF Cut, IsChanged
      <3> QED
        BY <1>3, <3>1, <3>2
    <2> QED
      BY <2>1, <2>2, <2>4 DEF ChangedInv, p
  <1>4. CASE Recover
    <2>1. /\ step = "sent" /\ step' = "read"
          /\ message' = message /\ size' = size /\ change' = change /\ bytes' = bytes
      BY <1>4 DEF Recover
    <2>2. result' = ReadOf(bytes)
      BY <1>4, Zenon DEF Recover, ReadOf
    <2> QED
      BY <2>1, <2>2 DEF ChangedInv
  <1>5. CASE Done \/ UNCHANGED vars
    BY <1>5 DEF Done, vars, ChangedInv
  <1> QED
    BY <1>1, <1>2, <1>3, <1>4, <1>5 DEF Next

(* A result that is ok was read by recover_plaintext. *)
LEMMA ReadIsRecovered ==
  ASSUME NEW x
  PROVE  /\ ReadOf(x).ok => Len(x) > PAYLOAD_OVERHEAD_SIZE /\ ReadOf(x) = recover_plaintext(x)
         /\ Len(x) > PAYLOAD_OVERHEAD_SIZE /\ Len(x) \in Nat =>
              ReadOf(x) = recover_plaintext(x)
  <1>1. PAYLOAD_OVERHEAD_SIZE \in Nat
    BY SizesAssumption DEF PAYLOAD_OVERHEAD_SIZE
  <1>2. from_bytes(x).ok => from_bytes(x).payload = x
    BY DEF from_bytes, InvalidPayload
  <1>3. Len(x) > PAYLOAD_OVERHEAD_SIZE /\ Len(x) \in Nat => from_bytes(x).ok
    BY <1>1 DEF from_bytes
  <1>4. ~ [ok |-> FALSE, err |-> "panic"].ok
    OBVIOUS
  <1> QED
    BY <1>2, <1>3, <1>4, Zenon DEF ReadOf, recover_asserts

(* What altering byte i does at most to the plaintext read. *)
OnlyThere(m, i, plaintext) ==
  /\ i > SECURITY_PARAMETER
  /\ Len(plaintext) = Len(m) =>
       \A j \in 1 .. Len(m) : plaintext[j] # m[j] => i = SECURITY_PARAMETER + j

(* A byte of the plaintext comes out different only if it was the one that *)
(* was altered.                                                            *)
LEMMA AlteredByteIsLocal ==
  ASSUME NEW m \in Seq(Byte), NEW n \in Nat, validate_parameters(n, Len(m)),
         NEW i \in 1 .. n, NEW b \in Byte, b # set_final_payload(m, n)[i],
         NEW x, x = [set_final_payload(m, n) EXCEPT ![i] = b],
         ReadOf(x).ok
  PROVE  OnlyThere(m, i, ReadOf(x).plaintext)
  <1> DEFINE k == SECURITY_PARAMETER
             p == set_final_payload(m, n)
             q == recover_plaintext(x).plaintext
  <1>0. k \in Nat /\ k + 1 + Len(m) <= n /\ Len(m) \in Nat
    BY SizesAssumption DEF validate_parameters, PAYLOAD_OVERHEAD_SIZE
  <1>1. /\ p \in Seq(Byte) /\ Len(p) = n
        /\ \A j \in 1 .. n :
             p[j] = IF j <= k THEN 0
                    ELSE IF j <= k + Len(m) THEN m[j - k]
                    ELSE IF j = k + Len(m) + 1 THEN 1 ELSE 0
    BY PayloadLayout
  <1> HIDE DEF p
  <1>2. /\ x \in Seq(Byte) /\ Len(x) = n /\ x[i] = b /\ b # p[i]
        /\ \A j \in 1 .. n : j # i => x[j] = p[j]
    BY <1>1 DEF p
  <1>3. ReadOf(x) = recover_plaintext(x) /\ recover_plaintext(x).ok
    BY ReadIsRecovered
  <1>4. k <= Len(x)
    BY <1>0, <1>2
  <1>5. /\ \A j \in 1 .. k : x[j] = 0
        /\ \A j \in 1 .. Len(q) : q[j] = x[k + j]
    BY <1>2, <1>3, <1>4, RecoveredStandsThere, Zenon
  <1> HIDE DEF q
  <1>6. i > k
    <2> SUFFICES ASSUME ~ i > k PROVE FALSE
      OBVIOUS
    <2>1. i \in 1 .. k
      BY <1>0
    <2> QED
      BY <1>0, <1>1, <1>2, <1>5, <2>1
  <1>7. ASSUME Len(q) = Len(m), NEW j \in 1 .. Len(m), q[j] # m[j]
        PROVE  i = k + j
    <2>1. k + j \in 1 .. n /\ ~ k + j <= k /\ k + j <= k + Len(m) /\ (k + j) - k = j
      BY <1>0
    <2>2. p[k + j] = m[j] /\ q[j] = x[k + j]
      BY <1>1, <1>5, <1>7, <2>1
    <2> QED
      BY <1>2, <1>7, <2>1, <2>2
  <1> QED
    BY <1>3, <1>6, <1>7 DEF q, OnlyThere

(* A change never shows as another plaintext unless it is within reach of  *)
(* the plaintext's own bytes: ChangeIsLocal holds for all sizes.           *)
THEOREM ChangesAreLocal == Spec => []ChangeIsLocal
  <1>1. ChangedInv => ChangeIsLocal
    <2> SUFFICES ASSUME ChangedInv, step = "read" PROVE ChangeIsLocal
      BY DEF ChangeIsLocal
    <2> DEFINE p == set_final_payload(message, size)
    <2>1. CASE change = <<"none", 0>>
      BY <2>1 DEF ChangeIsLocal
    <2>2. CASE change # <<"none", 0>>
      <3>1. /\ message \in Seq(Byte) /\ size \in Nat /\ result = ReadOf(bytes)
            /\ validate_parameters(size, Len(message)) /\ IsChanged(p, bytes, change)
        BY <2>2 DEF ChangedInv
      <3>2. p \in Seq(Byte) /\ Len(p) = size
        BY <3>1, PayloadLayout
      <3> HIDE DEF p
      <3>3. DOMAIN p = 1 .. size /\ DOMAIN message = 1 .. Len(message)
        BY <3>1, <3>2
      <3>4. \/ \E i \in 1 .. size, b \in Byte :
                 b # p[i] /\ change = <<"byte", i>> /\ bytes = [p EXCEPT ![i] = b]
            \/ \E n \in 0 .. size - 1 : change = <<"cut", n>> /\ bytes = SubSeq(p, 1, n)
        BY <2>2, <3>1, <3>2, <3>3 DEF IsChanged
      <3>5. ASSUME NEW i \in 1 .. size, NEW b \in Byte,
                   b # p[i], change = <<"byte", i>>, bytes = [p EXCEPT ![i] = b]
            PROVE  ChangeIsLocal
        <4>1. change[1] = "byte" /\ change[2] = i /\ change[1] # "cut"
          BY <3>5
        <4>2. result.ok => OnlyThere(message, i, result.plaintext)
          BY <3>1, <3>5, AlteredByteIsLocal DEF p
        <4>3. i > SECURITY_PARAMETER => ~ i <= SECURITY_PARAMETER
          BY <3>1, SizesAssumption
        <4> QED
          BY <3>3, <4>1, <4>2, <4>3, Zenon DEF ChangeIsLocal, OnlyThere
      <3>6. ASSUME NEW n \in 0 .. size - 1, change = <<"cut", n>>, bytes = SubSeq(p, 1, n)
            PROVE  ChangeIsLocal
        <4>1. change[1] = "cut" /\ change[2] = n /\ change[1] # "byte"
          BY <3>6
        <4>2. ASSUME n >= PAYLOAD_OVERHEAD_SIZE + Len(message), n > PAYLOAD_OVERHEAD_SIZE
              PROVE  result = [ok |-> TRUE, plaintext |-> message]
          <5>1. n \in 0 .. size /\ n \in Nat /\ PAYLOAD_OVERHEAD_SIZE + Len(message) <= n
            BY <3>1, <4>2, SizesAssumption DEF PAYLOAD_OVERHEAD_SIZE
          <5>2. Len(bytes) = n
            BY <3>1, <3>2, <3>6, <5>1
          <5>3. result = recover_plaintext(bytes)
            BY <3>1, <4>2, <5>1, <5>2, ReadIsRecovered
          <5> QED
            BY <3>1, <3>6, <5>1, <5>3, CutReadsBack DEF p
        <4>3. "byte" # "cut"
          OBVIOUS
        <4> QED
          BY <4>1, <4>2, <4>3, Zenon DEF ChangeIsLocal
      <3> QED
        BY <3>4, <3>5, <3>6, Zenon
    <2> QED
      BY <2>1, <2>2
  <1> QED
    BY <1>1, ChangedInit, ChangedStep, PTL DEF Spec
=============================================================================
