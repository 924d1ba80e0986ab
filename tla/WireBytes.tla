------------------------------ MODULE WireBytes ------------------------------
(***************************************************************************)
(* Byte strings as they go over the wire, and bincode's way of writing     *)
(* numbers and vectors into them (version 1.3 as lib.rs calls it: numbers  *)
(* of fixed width, least byte first, and input may go on after a value).   *)
(*                                                                         *)
(* A byte is a triple.  <<"#", 0, v>> is a byte of a number, with value v. *)
(* <<name, k, i>> is byte i of the k-th field called name, whose value     *)
(* nothing in the code depends on.  A number that such bytes are read for  *)
(* is taken to be larger than any length there is: eight bytes of key      *)
(* stream are a small number with probability 2^-40 or so.                 *)
(***************************************************************************)
EXTENDS Integers, SequencesExt

Field(name, k, len) == [i \in 1 .. len |-> <<name, k, i>>]

NumberByte(v) == <<"#", 0, v>>

(* Bound: numbers below TooLarge are told apart.  All lengths are below.   *)
TooLarge == 256 * 256 * 256

LittleEndian(v, width) ==
  [i \in 1 .. width |->
     NumberByte(CASE i = 1 -> v % 256 [] i = 2 -> (v \div 256) % 256
                  [] i = 3 -> v \div (256 * 256) [] OTHER -> 0)]

ReadLittleEndian(bytes) ==
  IF \A i \in DOMAIN bytes : bytes[i][1] = "#" /\ (i > 3 => bytes[i][3] = 0)
  THEN bytes[1][3] + 256 * bytes[2][3] + 256 * 256 * bytes[3][3]
  ELSE TooLarge

-----------------------------------------------------------------------------
(* Reading.  A reader returns the value and the bytes that are left, or    *)
(* Short when there are fewer bytes than the value needs.                  *)

Got(value, rest) == [ok |-> TRUE, value |-> value, rest |-> rest]
Short == [ok |-> FALSE]

Drop(n, bytes) == SubSeq(bytes, n + 1, Len(bytes))

ReadBytes(n, bytes) ==
  IF n > Len(bytes) THEN Short ELSE Got(SubSeq(bytes, 1, n), Drop(n, bytes))

Vector(bytes) == LittleEndian(Len(bytes), 8) \o bytes

ReadVector(bytes) ==
  IF Len(bytes) < 8 THEN Short
  ELSE ReadBytes(ReadLittleEndian(SubSeq(bytes, 1, 8)), Drop(8, bytes))

(* A vector of vectors. *)
Vectors(seqs) ==
  LittleEndian(Len(seqs), 8) \o FlattenSeq([c \in DOMAIN seqs |-> Vector(seqs[c])])

ReadVectors(bytes) ==
  LET count == ReadLittleEndian(SubSeq(bytes, 1, 8))
      upto[c \in 0 .. count] ==
        IF c = 0 THEN Got(<<>>, Drop(8, bytes))
        ELSE LET before == upto[c - 1]
                 next   == ReadVector(before.rest)
             IN  IF ~ before.ok \/ ~ next.ok THEN Short
                 ELSE Got(Append(before.value, next.value), next.rest)
  IN  IF Len(bytes) < 8 \/ 8 * count > Len(bytes) - 8 THEN Short ELSE upto[count]
=============================================================================
