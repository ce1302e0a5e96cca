-------------------------------- MODULE Crc32 --------------------------------
(***************************************************************************)
(* crc32_core: the CRC of a LowCmd, a bit of the message per step. A word  *)
(* is the set of its bits that are set, so XOR is the symmetric difference *)
(* and the code's two conditional XORs of the polynomial are two of these. *)
(* The reference is arithmetic of polynomials over GF(2), each of which is *)
(* the set of its exponents.                                               *)
(*                                                                         *)
(* The loop runs twice side by side: over the words the CRC is computed    *)
(* from, and over those that are sent, of which one may have been torn by  *)
(* another thread in between (LowCmdBuffer).                               *)
(***************************************************************************)
EXTENDS Integers, Sequences, FiniteSets

CONSTANTS
  Width,       \* bits of a word (32)
  Polynomial,  \* bits of dwPolynomial
  MaxWords     \* longest message that is checked

ASSUME CrcAssumption ==
  /\ Width \in Nat \ {0} /\ MaxWords \in Nat
  /\ Polynomial \subseteq 0..(Width - 1) /\ 0 \in Polynomial

Bits == 0..(Width - 1)
Words == SUBSET Bits
Top == Width - 1
Xor(a, b) == (a \ b) \cup (b \ a)
ShiftLeft(a) == {b + 1 : b \in a} \cap Bits

\* the body of the inner loop, without the test of the register's top bit
NoFeedback(reg, bit) ==
  IF bit THEN Xor(ShiftLeft(reg), Polynomial) ELSE ShiftLeft(reg)

\* the body of the inner loop: one bit of the message
BitStep(reg, bit) ==
  LET shifted == IF Top \in reg THEN Xor(ShiftLeft(reg), Polynomial)
                                ELSE ShiftLeft(reg)
  IN IF bit THEN Xor(shifted, Polynomial) ELSE shifted

\* xbit in round k, from 0: the bits of a word, the highest first
LowestFirst(k) == k
BitOf(k) == Width - 1 - k

VARIABLES
  data, CRC32,  \* history: the words read so far; the register
  sent, check,  \* the same of the message as it is sent
  bits          \* rounds of the inner loop for the last word

crcVars == <<data, CRC32, sent, check, bits>>

CrcInit ==
  /\ data = <<>> /\ sent = <<>>
  /\ CRC32 = Bits /\ check = Bits
  /\ bits = Width

\* the outer loop; at most one word is torn
ReadWord(word, torn) ==
  /\ bits = Width /\ Len(data) < MaxWords
  /\ torn # word => sent = data
  /\ data' = Append(data, word) /\ sent' = Append(sent, torn)
  /\ bits' = 0
  /\ UNCHANGED <<CRC32, check>>

\* the inner loop
NextBit ==
  /\ bits < Width
  /\ CRC32' = BitStep(CRC32, BitOf(bits) \in data[Len(data)])
  /\ check' = BitStep(check, BitOf(bits) \in sent[Len(sent)])
  /\ bits' = bits + 1
  /\ UNCHANGED <<data, sent>>

CrcNext == NextBit \/ \E word, torn \in Words : ReadWord(word, torn)

CrcSpec == CrcInit /\ [][CrcNext]_crcVars

-----------------------------------------------------------------------------
\* Properties

Divisor == Polynomial \cup {Width}

\* a message, all ones before it, times x^Width
Dividend(msg) ==
  LET n == Len(msg) IN
  Xor({b + Width * n : b \in Bits},
      UNION {{b + Width * (n - i + 1) : b \in msg[i]} : i \in 1..n})

\* q times the divisor: the exponents that an odd number of pairs adds up to
Pairs(q, e) == {a \in q : e - a \in Divisor}
Product(q) ==
  {e \in {a + d : a \in q, d \in Divisor} : Cardinality(Pairs(q, e)) % 2 = 1}

\* After every word the register is the remainder of the message: of lower degree
\* than the divisor, and a multiple of the divisor away from the dividend.
CrcIsRemainder ==
  bits = Width =>
    /\ CRC32 \subseteq Bits
    /\ \E q \in SUBSET (0..(Width * Len(data) - 1)) :
         Xor(Dividend(data), CRC32) = Product(q)

\* A frame that is torn within one word never keeps its CRC, whatever follows.
CrcSeesTornWord == bits = Width /\ sent # data => check # CRC32
=============================================================================
