----------------------------- MODULE Crc32_proofs -----------------------------
(***************************************************************************)
(* The CRC for every width, every message and every polynomial with a      *)
(* constant term: crc32_core computes the remainder, and a message that is *)
(* torn within one word has another one.                                   *)
(***************************************************************************)
EXTENDS Crc32, FunctionTheorems, FiniteSetTheorems, SequenceTheorems, TLAPS

USE CrcAssumption DEF CrcAssumption

-----------------------------------------------------------------------------
\* XOR and one bit, exponent by exponent

LEMMA XorMember ==
  ASSUME NEW a, NEW b, NEW e
  PROVE  e \in Xor(a, b) <=> ~(e \in a <=> e \in b)
  BY DEF Xor

LEMMA XorDistinct ==
  ASSUME NEW r, NEW a, NEW b, a # b
  PROVE  Xor(r, a) # Xor(r, b)
  <1>1. PICK e : ~(e \in a <=> e \in b)
    OBVIOUS
  <1>2. ~(e \in Xor(r, a) <=> e \in Xor(r, b))
    BY <1>1, XorMember
  <1>. QED  BY <1>2

LEMMA BitsFacts ==
  /\ Bits \subseteq Nat /\ Top \in Bits /\ 0 \in Bits /\ Top + 1 = Width
  /\ \A e \in Int : e \in Bits <=> 0 <= e /\ e < Width
  /\ Polynomial \subseteq Bits /\ Words = SUBSET Bits
  BY DEF Bits, Top, Words

LEMMA ShiftLeftMember ==
  ASSUME NEW a \in SUBSET Bits, NEW e \in Int
  PROVE  e \in ShiftLeft(a) <=> e \in Bits /\ e - 1 \in a
  <1>1. ASSUME e \in ShiftLeft(a) PROVE e \in Bits /\ e - 1 \in a
    <2>1. PICK b \in a : e = b + 1
      BY <1>1 DEF ShiftLeft
    <2>2. b \in Nat
      BY BitsFacts
    <2>3. e - 1 = b
      BY <2>1, <2>2
    <2>. QED  BY <1>1, <2>3 DEF ShiftLeft
  <1>2. ASSUME e \in Bits, e - 1 \in a PROVE e \in ShiftLeft(a)
    <2>1. e = (e - 1) + 1
      OBVIOUS
    <2>. QED  BY <1>2, <2>1 DEF ShiftLeft
  <1>. QED  BY <1>1, <1>2

\* what one round of the inner loop leaves
LEMMA StepMember ==
  ASSUME NEW reg \in SUBSET Bits, NEW bit \in BOOLEAN
  PROVE  /\ BitStep(reg, bit) \in SUBSET Bits
         /\ \A e \in Bits : e \in BitStep(reg, bit) <=>
              ~(e - 1 \in reg <=> (e \in Polynomial /\ ~(Top \in reg <=> bit)))
  <1>. DEFINE shifted == IF Top \in reg THEN Xor(ShiftLeft(reg), Polynomial)
                                        ELSE ShiftLeft(reg)
  <1>1. ShiftLeft(reg) \subseteq Bits
    BY DEF ShiftLeft
  <1>2. \A e \in Bits : e \in ShiftLeft(reg) <=> e - 1 \in reg
    BY ShiftLeftMember, BitsFacts
  <1>3. /\ shifted \subseteq Bits
        /\ \A e \in Bits : e \in shifted <=> ~(e - 1 \in reg <=> (e \in Polynomial /\ Top \in reg))
    BY <1>1, <1>2, XorMember, BitsFacts DEF Xor
  <1>4. BitStep(reg, bit) = IF bit THEN Xor(shifted, Polynomial) ELSE shifted
    BY DEF BitStep
  <1>. HIDE DEF shifted
  <1>5. BitStep(reg, bit) \subseteq Bits
    BY <1>3, <1>4, BitsFacts DEF Xor
  <1>6. ASSUME NEW e \in Bits
        PROVE  e \in BitStep(reg, bit) <=>
                 ~(e - 1 \in reg <=> (e \in Polynomial /\ ~(Top \in reg <=> bit)))
    BY <1>3, <1>4, XorMember
  <1>. QED  BY <1>5, <1>6

\* The polynomial has a constant term, so a round loses nothing.
LEMMA StepInjective ==
  ASSUME NEW r \in SUBSET Bits, NEW s \in SUBSET Bits, NEW bit \in BOOLEAN, r # s
  PROVE  BitStep(r, bit) # BitStep(s, bit)
  <1>. SUFFICES ASSUME BitStep(r, bit) = BitStep(s, bit) PROVE FALSE
    OBVIOUS
  <1>1. \A e \in Bits :
          ~(e - 1 \in r <=> (e \in Polynomial /\ ~(Top \in r <=> bit)))
          <=> ~(e - 1 \in s <=> (e \in Polynomial /\ ~(Top \in s <=> bit)))
    <2>. TAKE e \in Bits
    <2>1. e \in BitStep(r, bit) <=>
            ~(e - 1 \in r <=> (e \in Polynomial /\ ~(Top \in r <=> bit)))
      BY StepMember
    <2>2. e \in BitStep(s, bit) <=>
            ~(e - 1 \in s <=> (e \in Polynomial /\ ~(Top \in s <=> bit)))
      BY StepMember
    <2>. QED  BY <2>1, <2>2
  <1>2. Top \in r <=> Top \in s
    <2>1. 0 - 1 \notin r /\ 0 - 1 \notin s
      BY BitsFacts
    <2>. QED  BY <1>1, <2>1, BitsFacts
  <1>3. ASSUME NEW b \in Bits PROVE b \in r <=> b \in s
    <2>1. CASE b = Top
      BY <1>2, <2>1
    <2>2. CASE b # Top
      <3>1. b + 1 \in Bits /\ (b + 1) - 1 = b
        BY <2>2, BitsFacts
      <3>. QED  BY <1>1, <1>2, <3>1
    <2>. QED  BY <2>1, <2>2
  <1>. QED  BY <1>3

-----------------------------------------------------------------------------
\* Types

Types ==
  /\ data \in Seq(Words) /\ sent \in Seq(Words) /\ Len(sent) = Len(data)
  /\ CRC32 \in SUBSET Bits /\ check \in SUBSET Bits
  /\ bits \in 0..Width /\ (Len(data) = 0 => bits = Width)

\* the words that a round of the inner loop looks at
LEMMA LastWord ==
  ASSUME NEW s \in Seq(Words), Len(s) # 0
  PROVE  Len(s) \in 1..Len(s) /\ s[Len(s)] \in SUBSET Bits
  <1>1. Len(s) \in 1..Len(s)
    OBVIOUS
  <1>. QED  BY <1>1, BitsFacts

LEMMA TypesHold == CrcSpec => []Types
  <1>1. CrcInit => Types
    BY DEF CrcInit, Types
  <1>2. ASSUME Types, NextBit PROVE Types'
    <2>1. Len(data) # 0 /\ bits' \in 0..Width
      BY <1>2 DEF Types, NextBit
    <2>2. CRC32' \in SUBSET Bits /\ check' \in SUBSET Bits
      <3>. DEFINE d == BitOf(bits) \in data[Len(data)]
                 t == BitOf(bits) \in sent[Len(sent)]
      <3>1. d \in BOOLEAN /\ t \in BOOLEAN
        OBVIOUS
      <3>2. CRC32' = BitStep(CRC32, d) /\ check' = BitStep(check, t)
            /\ CRC32 \in SUBSET Bits /\ check \in SUBSET Bits
        BY <1>2 DEF Types, NextBit
      <3>. HIDE DEF d, t
      <3>. QED  BY <3>1, <3>2, StepMember
    <2>. QED  BY <1>2, <2>1, <2>2 DEF Types, NextBit
  <1>3. ASSUME Types, NEW word \in Words, NEW torn \in Words, ReadWord(word, torn) PROVE Types'
    BY <1>3 DEF Types, ReadWord
  <1>4. Types /\ UNCHANGED crcVars => Types'
    BY DEF Types, crcVars
  <1>5. Types /\ [CrcNext]_crcVars => Types'
    BY <1>2, <1>3, <1>4 DEF CrcNext
  <1>. QED  BY <1>1, <1>5, PTL DEF CrcSpec

-----------------------------------------------------------------------------
\* A torn word

\* the bits of a word that are to come after k rounds, moved to the top
Rest(word, k) == {b \in Bits : b - k \in word}

\* Adding what is to come of the word turns a round into a multiplication by x.
LEMMA MixedStep ==
  ASSUME NEW r \in SUBSET Bits, NEW w \in SUBSET Bits, NEW k \in 0..(Width - 1)
  PROVE  /\ Xor(r, Rest(w, k)) \in SUBSET Bits
         /\ Xor(BitStep(r, BitOf(k) \in w), Rest(w, k + 1))
            = BitStep(Xor(r, Rest(w, k)), FALSE)
  <1>. DEFINE m == Xor(r, Rest(w, k))
              bit == BitOf(k) \in w
              left == Xor(BitStep(r, bit), Rest(w, k + 1))
  <1>1. m \in SUBSET Bits /\ Rest(w, k + 1) \in SUBSET Bits
    BY DEF Rest, Xor
  <1>2. \A e \in Int : e \in m <=> ~(e \in r <=> (e \in Bits /\ e - k \in w))
    BY XorMember DEF Rest
  <1>3. Top \in m <=> ~(Top \in r <=> bit)
    <2>1. Top - k = BitOf(k) /\ Top \in Int
      BY DEF Top, BitOf
    <2>. QED  BY <1>2, <2>1, BitsFacts
  <1>. bit \in BOOLEAN
    OBVIOUS
  <1>. HIDE DEF bit
  <1>4. \A e \in Bits : e \in left <=> ~(e \in BitStep(r, bit) <=> e - (k + 1) \in w)
    BY XorMember DEF Rest
  <1>5. left \in SUBSET Bits /\ BitStep(m, FALSE) \in SUBSET Bits
    <2>1. BitStep(r, bit) \in SUBSET Bits
      BY StepMember
    <2>2. BitStep(m, FALSE) \in SUBSET Bits
      BY <1>1, StepMember
    <2>. QED  BY <1>1, <2>1, <2>2 DEF Xor
  <1>. HIDE DEF m, left
  <1>6. ASSUME NEW e \in Bits PROVE e \in left <=> e \in BitStep(m, FALSE)
    <2>1. e - 1 \in m <=> ~(e - 1 \in r <=> e - (k + 1) \in w)
      <3>1. (e - 1) - k = e - (k + 1) /\ e \in Nat
        BY BitsFacts
      <3>2. CASE e = 0
        BY <1>1, <3>1, <3>2, BitsFacts
      <3>3. CASE e # 0
        <4>1. e - 1 \in Bits
          BY <3>1, <3>3, BitsFacts
        <4>. QED  BY <1>2, <3>1, <4>1, BitsFacts
      <3>. QED  BY <3>2, <3>3
    <2>2. e \in BitStep(r, bit) <=>
            ~(e - 1 \in r <=> (e \in Polynomial /\ ~(Top \in r <=> bit)))
      BY StepMember
    <2>3. e \in BitStep(m, FALSE) <=>
            ~(e - 1 \in m <=> (e \in Polynomial /\ ~(Top \in m <=> FALSE)))
      BY <1>1, StepMember
    <2>. QED  BY <1>3, <1>4, <2>1, <2>2, <2>3
  <1>7. left = BitStep(m, FALSE)
    BY <1>5, <1>6
  <1>. QED  BY <1>1, <1>7 DEF m, left, bit

LEMMA RestEnds ==
  ASSUME NEW r \in SUBSET Bits, NEW w \in SUBSET Bits
  PROVE  Xor(r, Rest(w, 0)) = Xor(r, w) /\ Xor(r, Rest(w, Width)) = r
  <1>1. \A b \in Bits : b - 0 = b /\ b - Width \notin w
    BY BitsFacts
  <1>2. Rest(w, 0) = w /\ Rest(w, Width) = {}
    BY <1>1 DEF Rest
  <1>. QED  BY <1>2 DEF Xor

\* nothing is torn before the last word
SameBefore == \A i \in 1..(Len(data) - 1) : sent[i] = data[i]

\* While the torn word is read the registers differ by more than the rest of the
\* words; afterwards by themselves.
Torn ==
  /\ sent = data => check = CRC32
  /\ sent # data =>
       IF SameBefore
       THEN Xor(check, Rest(sent[Len(sent)], bits)) # Xor(CRC32, Rest(data[Len(data)], bits))
       ELSE check # CRC32 /\ sent[Len(sent)] = data[Len(data)]

LEMMA DiffersAfterWord ==
  ASSUME Types, Torn, bits = Width, sent # data
  PROVE  check # CRC32
  <1>1. Len(data) # 0
    BY EmptySeq DEF Types
  <1>2. sent[Len(sent)] \in SUBSET Bits /\ data[Len(data)] \in SUBSET Bits
    BY <1>1, LastWord DEF Types
  <1>3. /\ Xor(check, Rest(sent[Len(sent)], Width)) = check
        /\ Xor(CRC32, Rest(data[Len(data)], Width)) = CRC32
    BY <1>2, RestEnds DEF Types
  <1>. QED  BY <1>3 DEF Torn

LEMMA NextBitTorn ==
  ASSUME Types, Torn, NextBit
  PROVE  Torn'
  <1>1. Len(data) # 0 /\ bits \in 0..(Width - 1) /\ Len(sent) = Len(data)
    BY DEF Types, NextBit
  <1>. DEFINE d == data[Len(data)]
              t == sent[Len(sent)]
  <1>2. d \in SUBSET Bits /\ t \in SUBSET Bits
    BY <1>1, LastWord DEF Types
  <1>3. /\ CRC32' = BitStep(CRC32, BitOf(bits) \in d)
        /\ check' = BitStep(check, BitOf(bits) \in t)
        /\ bits' = bits + 1 /\ data' = data /\ sent' = sent
    BY DEF NextBit
  <1>4. CRC32 \in SUBSET Bits /\ check \in SUBSET Bits
    BY DEF Types
  <1>. HIDE DEF d, t
  <1>5. CASE sent = data
    BY <1>3, <1>5 DEF Torn, d, t
  <1>6. CASE sent # data /\ SameBefore
    <2>1. Xor(check, Rest(t, bits)) # Xor(CRC32, Rest(d, bits))
      BY <1>6 DEF Torn, d, t
    <2>2. /\ Xor(check, Rest(t, bits)) \in SUBSET Bits
          /\ Xor(check', Rest(t, bits + 1)) = BitStep(Xor(check, Rest(t, bits)), FALSE)
      BY <1>1, <1>2, <1>3, <1>4, MixedStep
    <2>3. /\ Xor(CRC32, Rest(d, bits)) \in SUBSET Bits
          /\ Xor(CRC32', Rest(d, bits + 1)) = BitStep(Xor(CRC32, Rest(d, bits)), FALSE)
      BY <1>1, <1>2, <1>3, <1>4, MixedStep
    <2>4. Xor(check', Rest(t, bits')) # Xor(CRC32', Rest(d, bits'))
      BY <1>3, <2>1, <2>2, <2>3, StepInjective
    <2>. QED  BY <1>3, <1>6, <2>4 DEF Torn, SameBefore, d, t
  <1>7. CASE sent # data /\ ~SameBefore
    <2>1. check # CRC32 /\ t = d
      BY <1>7 DEF Torn, d, t
    <2>2. check' # CRC32'
      <3>. DEFINE bit == BitOf(bits) \in d
      <3>1. bit \in BOOLEAN /\ CRC32' = BitStep(CRC32, bit) /\ check' = BitStep(check, bit)
        BY <1>3, <2>1
      <3>. HIDE DEF bit
      <3>. QED  BY <1>4, <2>1, <3>1, StepInjective
    <2>. QED  BY <1>3, <1>7, <2>1, <2>2 DEF Torn, SameBefore, d, t
  <1>. QED  BY <1>5, <1>6, <1>7

LEMMA ReadWordTorn ==
  ASSUME Types, Torn, NEW word \in Words, NEW torn \in Words, ReadWord(word, torn)
  PROVE  Torn'
  <1>. DEFINE n == Len(data)
  <1>1. /\ n \in Nat /\ Len(sent) = n /\ bits = Width /\ bits' = 0
        /\ check' = check /\ CRC32' = CRC32
        /\ data' = Append(data, word) /\ sent' = Append(sent, torn)
    BY DEF Types, ReadWord
  <1>2. /\ Len(data') = n + 1 /\ data'[n + 1] = word /\ \A i \in 1..n : data'[i] = data[i]
        /\ Len(sent') = n + 1 /\ sent'[n + 1] = torn /\ \A i \in 1..n : sent'[i] = sent[i]
    BY <1>1 DEF Types
  <1>3. SameBefore' <=> sent = data
    <2>1. SameBefore' <=> \A i \in 1..n : sent[i] = data[i]
      BY <1>1, <1>2 DEF SameBefore
    <2>2. (\A i \in 1..n : sent[i] = data[i]) => sent = data
      BY <1>1, SeqEqual DEF Types
    <2>. QED  BY <2>1, <2>2
  <1>4. CASE sent = data
    <2>1. check = CRC32
      BY <1>4 DEF Torn
    <2>2. torn = word => sent' = data'
      BY <1>1, <1>4
    <2>3. ASSUME torn # word
          PROVE  Xor(check, Rest(torn, 0)) # Xor(CRC32, Rest(word, 0))
      <3>1. /\ Xor(check, Rest(torn, 0)) = Xor(check, torn)
            /\ Xor(CRC32, Rest(word, 0)) = Xor(CRC32, word)
        BY RestEnds, BitsFacts DEF Types
      <3>. QED  BY <2>1, <2>3, <3>1, XorDistinct
    <2>. QED  BY <1>1, <1>2, <1>3, <1>4, <2>1, <2>2, <2>3 DEF Torn
  <1>5. CASE sent # data
    <2>1. torn = word
      BY <1>5 DEF ReadWord
    <2>2. check # CRC32
      BY <1>1, <1>5, DiffersAfterWord
    <2>3. sent' # data'
      BY <1>1, <1>3, <1>5 DEF SameBefore
    <2>. QED  BY <1>1, <1>2, <1>3, <1>5, <2>1, <2>2, <2>3 DEF Torn
  <1>. QED  BY <1>4, <1>5

\* No word can be torn, by whatever was in the buffer instead, without the CRC
\* being another one at the end of every longer message.
THEOREM TornWordSeen == CrcSpec => []CrcSeesTornWord
  <1>1. CrcInit => Torn
    BY DEF CrcInit, Torn
  <1>2. Types /\ Torn /\ [CrcNext]_crcVars => Torn'
    <2>1. Types /\ Torn /\ UNCHANGED crcVars => Torn'
      BY DEF crcVars, Torn, SameBefore
    <2>. QED  BY <2>1, NextBitTorn, ReadWordTorn DEF CrcNext
  <1>3. Types /\ Torn => CrcSeesTornWord
    BY DiffersAfterWord DEF CrcSeesTornWord
  <1>. QED  BY <1>1, <1>2, <1>3, TypesHold, PTL DEF CrcSpec

-----------------------------------------------------------------------------
\* Products

Shift(p, k) == {b + k : b \in p}

LEMMA ShiftMember ==
  ASSUME NEW p \in SUBSET Int, NEW k \in Int, NEW e \in Int
  PROVE  e \in Shift(p, k) <=> e - k \in p
  <1>1. ASSUME e - k \in p PROVE e \in Shift(p, k)
    <2>1. e = (e - k) + k
      OBVIOUS
    <2>. QED  BY <1>1, <2>1 DEF Shift
  <1>2. ASSUME e \in Shift(p, k) PROVE e - k \in p
    <2>1. PICK b \in p : e = b + k
      BY <1>2 DEF Shift
    <2>2. e - k = b
      BY <2>1
    <2>. QED  BY <2>2
  <1>. QED  BY <1>1, <1>2

LEMMA DivisorFacts ==
  /\ Divisor \subseteq 0..Width /\ Width \in Divisor
  /\ \A e \in Bits : e \in Divisor <=> e \in Polynomial
  BY BitsFacts DEF Divisor

\* finitely many pairs add up to an exponent
LEMMA PairsFinite ==
  ASSUME NEW q \in SUBSET Nat, NEW e \in Int
  PROVE  IsFiniteSet(Pairs(q, e)) /\ Cardinality(Pairs(q, e)) \in Nat
  <1>1. ASSUME NEW a \in Pairs(q, e) PROVE a \in (e - Width)..e
    <2>1. a \in Nat /\ e - a \in 0..Width
      BY DivisorFacts DEF Pairs
    <2>. QED  BY <2>1
  <1>2. IsFiniteSet((e - Width)..e)
    BY FS_Interval
  <1>. QED  BY <1>1, <1>2, FS_Subset, FS_CardinalityType

LEMMA ProductMember ==
  ASSUME NEW q \in SUBSET Nat
  PROVE  /\ Product(q) \in SUBSET Nat
         /\ \A e \in Int : e \in Product(q) <=> Cardinality(Pairs(q, e)) % 2 = 1
  <1>1. Product(q) \in SUBSET Nat
    BY DivisorFacts DEF Product
  <1>2. ASSUME NEW e \in Int, Cardinality(Pairs(q, e)) % 2 = 1
        PROVE  e \in {a + d : a \in q, d \in Divisor}
    <2>1. Pairs(q, e) # {}
      BY <1>2, FS_EmptySet
    <2>2. PICK a \in q : e - a \in Divisor
      BY <2>1 DEF Pairs
    <2>3. e = a + (e - a)
      OBVIOUS
    <2>. QED  BY <2>2, <2>3
  <1>. QED  BY <1>1, <1>2 DEF Product

LEMMA PairsShift ==
  ASSUME NEW q \in SUBSET Nat, NEW e \in Int
  PROVE  Cardinality(Pairs(Shift(q, 1), e)) = Cardinality(Pairs(q, e - 1))
  <1>. DEFINE S == Pairs(q, e - 1)
              T == Pairs(Shift(q, 1), e)
              f == [a \in S |-> a + 1]
  <1>1. \A a \in S : a \in Nat /\ a + 1 \in T
    <2>. TAKE a \in S
    <2>1. a \in q /\ (e - 1) - a \in Divisor /\ a \in Nat
      BY DEF Pairs
    <2>2. e - (a + 1) = (e - 1) - a
      BY <2>1
    <2>3. a + 1 \in Shift(q, 1)
      BY <2>1 DEF Shift
    <2>. QED  BY <2>1, <2>2, <2>3 DEF Pairs
  <1>2. \A b \in T : b - 1 \in S /\ b = (b - 1) + 1
    <2>. TAKE b \in T
    <2>1. b \in Shift(q, 1) /\ e - b \in Divisor
      BY DEF Pairs
    <2>2. PICK a \in q : b = a + 1
      BY <2>1 DEF Shift
    <2>3. b - 1 = a /\ (e - 1) - a = e - b
      BY <2>2
    <2>. QED  BY <2>1, <2>2, <2>3 DEF Pairs
  <1>3. IsFiniteSet(S)
    BY PairsFinite
  <1>. HIDE DEF S, T
  <1>4. f \in [S -> T]
    BY <1>1
  <1>5. \A a, b \in S : f[a] = f[b] => a = b
    BY <1>1
  <1>6. \A b \in T : \E a \in S : f[a] = b
    BY <1>2
  <1>7. f \in Bijection(S, T)
    BY <1>4, <1>5, <1>6, Fun_IsBij
  <1>8. ExistsBijection(S, T)
    BY <1>7 DEF ExistsBijection
  <1>9. Cardinality(T) = Cardinality(S)
    BY <1>3, <1>8, FS_Bijection
  <1>. QED  BY <1>9 DEF S, T

\* x times a product, with the divisor added or not
LEMMA ProductStep ==
  ASSUME NEW q \in SUBSET Nat, NEW c \in BOOLEAN, NEW e \in Int
  PROVE  e \in Product(Shift(q, 1) \cup (IF c THEN {0} ELSE {})) <=>
           ~(e - 1 \in Product(q) <=> (c /\ e \in Divisor))
  <1>. DEFINE s == Shift(q, 1)
              r == s \cup (IF c THEN {0} ELSE {})
  <1>1. s \in SUBSET Nat /\ r \in SUBSET Nat /\ 0 \notin s
    BY DEF Shift
  <1>2. Cardinality(Pairs(s, e)) = Cardinality(Pairs(q, e - 1))
    BY PairsShift
  <1>3. IsFiniteSet(Pairs(s, e)) /\ Cardinality(Pairs(s, e)) \in Nat
    BY <1>1, PairsFinite
  <1>. HIDE DEF s
  <1>4. CASE c /\ e \in Divisor
    <2>1. e - 0 = e
      OBVIOUS
    <2>2. Pairs(r, e) = Pairs(s, e) \cup {0}
      BY <1>4, <2>1 DEF Pairs
    <2>3. 0 \notin Pairs(s, e)
      BY <1>1 DEF Pairs
    <2>4. Cardinality(Pairs(r, e)) = Cardinality(Pairs(s, e)) + 1
      BY <1>3, <2>2, <2>3, FS_AddElement
    <2>5. Cardinality(Pairs(r, e)) % 2 = 1 <=> ~(Cardinality(Pairs(s, e)) % 2 = 1)
      BY <1>3, <2>4
    <2>. HIDE DEF r
    <2>6. e \in Product(r) <=> ~(e - 1 \in Product(q))
      BY <1>1, <1>2, <2>5, ProductMember
    <2>. QED  BY <1>4, <2>6 DEF r, s
  <1>5. CASE ~(c /\ e \in Divisor)
    <2>1. e - 0 = e
      OBVIOUS
    <2>2. Pairs(r, e) = Pairs(s, e)
      BY <1>5, <2>1 DEF Pairs
    <2>. HIDE DEF r
    <2>3. e \in Product(r) <=> e - 1 \in Product(q)
      BY <1>1, <1>2, <2>2, ProductMember
    <2>. QED  BY <1>5, <2>3 DEF r, s
  <1>. QED  BY <1>4, <1>5

-----------------------------------------------------------------------------
\* The remainder

\* r is a multiple of the divisor away from p, of which m bits were read
Congruent(m, r, p) == \E q \in SUBSET (0..(m - 1)) : Xor(p, r) = Product(q)

\* the dividend when k bits of w have been read after the words of f
Partial(f, w, k) ==
  Xor(Shift(Dividend(f), k), {e \in Nat : e - k \in w /\ e >= Width})

\* A round of the inner loop keeps the register congruent to what has been read:
\* it multiplies by x, reads a bit, and takes the divisor away when the register
\* would be as long.
LEMMA StepCongruent ==
  ASSUME NEW m \in Nat, NEW r \in SUBSET Bits, NEW p \in SUBSET Nat,
         NEW bit \in BOOLEAN, NEW next \in SUBSET Nat,
         \A e \in Nat : e \in next <=> ~(e - 1 \in p <=> (bit /\ e = Width)),
         Congruent(m, r, p)
  PROVE  Congruent(m + 1, BitStep(r, bit), next)
  <1>. DEFINE c == ~(Top \in r <=> bit)
  <1>1. PICK q \in SUBSET (0..(m - 1)) : Xor(p, r) = Product(q)
    BY DEF Congruent
  <1>. DEFINE t == Shift(q, 1) \cup (IF c THEN {0} ELSE {})
  <1>2. t \in SUBSET (0..m) /\ m = (m + 1) - 1 /\ q \in SUBSET Nat /\ t \in SUBSET Nat
    BY DEF Shift
  <1>3. c \in BOOLEAN
    OBVIOUS
  <1>4. BitStep(r, bit) \in SUBSET Bits
    BY StepMember
  <1>5. ASSUME NEW e \in Nat
        PROVE  e \in Xor(next, BitStep(r, bit)) <=> e \in Product(t)
    <2>1. e \in Product(t) <=> ~(e - 1 \in Product(q) <=> (c /\ e \in Divisor))
      <3>. HIDE DEF c
      <3>. QED  BY <1>2, <1>3, ProductStep
    <2>2. e - 1 \in Product(q) <=> ~(e - 1 \in p <=> e - 1 \in r)
      BY <1>1, XorMember
    <2>3. e \in Xor(next, BitStep(r, bit)) <=> ~(e \in next <=> e \in BitStep(r, bit))
      BY XorMember
    <2>4. CASE e \in Bits
      <3>1. e # Width /\ (e \in Divisor <=> e \in Polynomial)
        BY <2>4, BitsFacts, DivisorFacts
      <3>2. e \in BitStep(r, bit) <=> ~(e - 1 \in r <=> (e \in Polynomial /\ c))
        BY <2>4, StepMember
      <3>. HIDE DEF c
      <3>. QED  BY <2>1, <2>2, <2>3, <3>1, <3>2
    <2>5. CASE e = Width
      <3>1. e - 1 = Top /\ e \in Divisor /\ e \notin Bits
        BY <2>5, BitsFacts, DivisorFacts
      <3>2. e \notin BitStep(r, bit)
        BY <1>4, <3>1
      <3>. QED  BY <2>1, <2>2, <2>3, <2>5, <3>1, <3>2
    <2>6. CASE e > Width
      <3>1. e - 1 \notin Bits /\ e \notin Bits /\ e \notin Divisor
        BY <2>6, BitsFacts, DivisorFacts
      <3>2. e \notin BitStep(r, bit) /\ e - 1 \notin r
        BY <1>4, <3>1
      <3>. QED  BY <2>1, <2>2, <2>3, <2>6, <3>1, <3>2
    <2>. QED  BY <2>4, <2>5, <2>6, BitsFacts
  <1>6. Xor(next, BitStep(r, bit)) \in SUBSET Nat /\ Product(t) \in SUBSET Nat
    BY <1>2, <1>4, ProductMember, BitsFacts DEF Xor
  <1>. HIDE DEF t
  <1>7. Xor(next, BitStep(r, bit)) = Product(t)
    BY <1>5, <1>6
  <1>. QED  BY <1>2, <1>7 DEF Congruent

\* what the words say, exponent by exponent
LEMMA DividendMember ==
  ASSUME NEW s \in Seq(Words)
  PROVE  /\ Dividend(s) \in SUBSET Nat
         /\ \A e \in Int : e \in Dividend(s) <=>
              ~(e - Width * Len(s) \in Bits
                <=> \E i \in 1..Len(s) : e - Width * (Len(s) - i + 1) \in s[i])
  <1>. DEFINE n == Len(s)
              ones == {b + Width * n : b \in Bits}
              place(i) == Width * (n - i + 1)
              words == UNION {{b + place(i) : b \in s[i]} : i \in 1..n}
  <1>1. Dividend(s) = Xor(ones, words)
    BY DEF Dividend
  <1>2. n \in Nat /\ Width * n \in Nat
    OBVIOUS
  <1>3. \A i \in 1..n : place(i) \in Nat /\ s[i] \in SUBSET Nat
    <2>. TAKE i \in 1..n
    <2>1. n - i + 1 \in Nat
      BY <1>2
    <2>2. s[i] \in SUBSET Nat
      <3>1. s[i] \in Words
        OBVIOUS
      <3>. QED  BY <3>1, BitsFacts
    <2>3. \A k \in Nat : Width * k \in Nat
      OBVIOUS
    <2>. QED  BY <2>1, <2>2, <2>3
  <1>. HIDE DEF place
  <1>4. ones \in SUBSET Nat /\ words \in SUBSET Nat
    <2>1. ASSUME NEW k \in Nat, NEW b \in Nat PROVE b + k \in Nat
      OBVIOUS
    <2>2. ones \in SUBSET Nat
      BY <1>2, <2>1, BitsFacts
    <2>3. words \in SUBSET Nat
      BY <1>3, <2>1
    <2>. QED  BY <2>2, <2>3
  <1>5. ASSUME NEW e \in Int PROVE e \in ones <=> e - Width * n \in Bits
    <2>. DEFINE k == Width * n
    <2>1. k \in Int /\ ones = Shift(Bits, k) /\ Bits \in SUBSET Int
      BY <1>2, BitsFacts DEF Shift
    <2>. HIDE DEF ones, k
    <2>2. e \in ones <=> e - k \in Bits
      BY <2>1, ShiftMember
    <2>. QED  BY <2>2 DEF k
  <1>6. ASSUME NEW e \in Int
        PROVE  e \in words <=> \E i \in 1..n : e - place(i) \in s[i]
    <2>1. e \in words <=> \E i \in 1..n : e \in Shift(s[i], place(i))
      BY DEF Shift
    <2>2. \A i \in 1..n : e \in Shift(s[i], place(i)) <=> e - place(i) \in s[i]
      <3>. TAKE i \in 1..n
      <3>1. s[i] \in SUBSET Int /\ place(i) \in Int
        BY <1>3
      <3>. QED  BY <3>1, ShiftMember
    <2>. QED  BY <2>1, <2>2
  <1>. HIDE DEF ones, words
  <1>7. Dividend(s) \in SUBSET Nat
    BY <1>1, <1>4 DEF Xor
  <1>8. ASSUME NEW e \in Int
        PROVE  e \in Dividend(s) <=>
                 ~(e - Width * n \in Bits <=> \E i \in 1..n : e - place(i) \in s[i])
    <2>1. e \in Dividend(s) <=> ~(e \in ones <=> e \in words)
      BY <1>1, XorMember
    <2>. QED  BY <1>5, <1>6, <2>1
  <1>. QED  BY <1>7, <1>8 DEF place

\* A message one word longer: the shorter one moved up, and the word below it.
LEMMA DividendStep ==
  ASSUME NEW s \in Seq(Words), NEW w \in SUBSET Bits, NEW e \in Int
  PROVE  e \in Dividend(Append(s, w)) <=>
           ~(e - Width \in Dividend(s) <=> e - Width \in w)
  <1>. DEFINE n == Len(s)
              a == Append(s, w)
              Old(j) == e - Width * (n + 1 - j + 1) \in a[j]
  <1>1. /\ n \in Nat /\ a \in Seq(Words) /\ Len(a) = n + 1 /\ a[n + 1] = w
        /\ \A i \in 1..n : a[i] = s[i]
    BY BitsFacts
  <1>2. e \in Dividend(a) <=>
          ~(e - Width * (n + 1) \in Bits <=> \E i \in 1..(n + 1) : Old(i))
    <2>1. e \in Dividend(a) <=>
            ~(e - Width * Len(a) \in Bits
              <=> \E i \in 1..Len(a) : e - Width * (Len(a) - i + 1) \in a[i])
      <3>1. a \in Seq(Words)
        BY <1>1
      <3>. HIDE DEF a
      <3>. QED  BY <3>1, DividendMember
    <2>. QED  BY <1>1, <2>1
  <1>3. e - Width \in Dividend(s) <=>
          ~((e - Width) - Width * n \in Bits
            <=> \E i \in 1..n : (e - Width) - Width * (n - i + 1) \in s[i])
    BY DividendMember
  <1>4. e - Width * (n + 1) = (e - Width) - Width * n
    BY <1>1
  <1>5. ASSUME NEW i \in 1..n
        PROVE  Old(i) <=> (e - Width) - Width * (n - i + 1) \in s[i]
    <2>1. \A k \in Int : e - Width * (k + 1) = (e - Width) - Width * k
      OBVIOUS
    <2>2. n - i + 1 \in Int /\ n + 1 - i + 1 = (n - i + 1) + 1
      BY <1>1
    <2>3. e - Width * (n + 1 - i + 1) = (e - Width) - Width * (n - i + 1)
      BY <2>1, <2>2
    <2>. QED  BY <1>1, <2>3
  <1>6. Old(n + 1) <=> e - Width \in w
    <2>1. n + 1 - (n + 1) + 1 = 1 /\ Width * 1 = Width
      BY <1>1
    <2>. QED  BY <1>1, <2>1
  <1>7. ASSUME NEW i \in 1..n, Old(i) PROVE e - Width \notin w
    <2>. DEFINE k == n - i + 1
    <2>1. k \in Nat /\ k >= 1
      BY <1>1
    <2>2. Width * k >= Width
      BY <2>1
    <2>3. (e - Width) - Width * k \in Bits
      <3>1. s[i] \in SUBSET Bits
        BY BitsFacts
      <3>. QED  BY <1>5, <1>7, <3>1
    <2>4. Width * k \in Int
      BY <2>1
    <2>5. ASSUME NEW x \in Int, x >= Width, (e - Width) - x \in Bits
          PROVE  e - Width \notin Bits
      BY <2>5, BitsFacts
    <2>. HIDE DEF k
    <2>. QED  BY <2>2, <2>3, <2>4, <2>5
  <1>. HIDE DEF Old
  <1>8. (\E i \in 1..(n + 1) : Old(i)) <=> ((\E i \in 1..n : Old(i)) \/ Old(n + 1))
    <2>1. \A i : i \in 1..(n + 1) <=> (i \in 1..n \/ i = n + 1)
      BY <1>1
    <2>. QED  BY <2>1
  <1>9. CASE e - Width \in w
    BY <1>2, <1>3, <1>4, <1>5, <1>6, <1>7, <1>8, <1>9
  <1>10. CASE e - Width \notin w
    BY <1>2, <1>3, <1>4, <1>5, <1>6, <1>8, <1>10
  <1>. QED  BY <1>9, <1>10

\* all ones, before any word
LEMMA DividendEmpty == Dividend(<<>>) = Bits
  <1>1. Len(<<>>) = 0 /\ 1..0 = {} /\ Width * 0 = 0
    OBVIOUS
  <1>2. {b + 0 : b \in Bits} = Bits
    <2>1. \A b \in Bits : b + 0 = b
      BY BitsFacts
    <2>. QED  BY <2>1
  <1>. QED  BY <1>1, <1>2 DEF Dividend, Xor

LEMMA PartialMember ==
  ASSUME NEW f \in Seq(Words), NEW w \in SUBSET Bits, NEW k \in 0..Width
  PROVE  /\ Partial(f, w, k) \in SUBSET Nat
         /\ \A e \in Nat : e \in Partial(f, w, k) <=>
              ~(e - k \in Dividend(f) <=> (e - k \in w /\ e >= Width))
  <1>1. Dividend(f) \in SUBSET Nat /\ Dividend(f) \in SUBSET Int /\ k \in Int
    BY DividendMember
  <1>2. Shift(Dividend(f), k) \in SUBSET Nat
    BY <1>1 DEF Shift
  <1>3. \A e \in Nat : e \in Shift(Dividend(f), k) <=> e - k \in Dividend(f)
    BY <1>1, ShiftMember
  <1>4. Partial(f, w, k) \in SUBSET Nat
    BY <1>2 DEF Partial, Xor
  <1>5. ASSUME NEW e \in Nat
        PROVE  e \in Partial(f, w, k) <=>
                 ~(e - k \in Dividend(f) <=> (e - k \in w /\ e >= Width))
    <2>. DEFINE old == Shift(Dividend(f), k)
                new == {x \in Nat : x - k \in w /\ x >= Width}
    <2>1. Partial(f, w, k) = Xor(old, new)
      BY DEF Partial
    <2>2. e \in new <=> (e - k \in w /\ e >= Width)
      OBVIOUS
    <2>3. e \in old <=> e - k \in Dividend(f)
      BY <1>3
    <2>. HIDE DEF old, new
    <2>. QED  BY <2>1, <2>2, <2>3, XorMember
  <1>. QED  BY <1>4, <1>5

\* before the first bit of a word and after its last one
LEMMA PartialEnds ==
  ASSUME NEW f \in Seq(Words), NEW w \in SUBSET Bits
  PROVE  /\ Partial(f, w, 0) = Dividend(f)
         /\ Partial(f, w, Width) = Dividend(Append(f, w))
  <1>1. Dividend(f) \in SUBSET Nat
    BY DividendMember
  <1>2. Dividend(Append(f, w)) \in SUBSET Nat
    <2>1. Append(f, w) \in Seq(Words)
      BY BitsFacts
    <2>. QED  BY <2>1, DividendMember
  <1>3. /\ Partial(f, w, 0) \in SUBSET Nat /\ Partial(f, w, Width) \in SUBSET Nat
        /\ 0 \in 0..Width /\ Width \in 0..Width
    <2>1. 0 \in 0..Width /\ Width \in 0..Width
      OBVIOUS
    <2>2. Partial(f, w, 0) \in SUBSET Nat
      BY <2>1, PartialMember
    <2>3. Partial(f, w, Width) \in SUBSET Nat
      BY <2>1, PartialMember
    <2>. QED  BY <2>1, <2>2, <2>3
  <1>4. ASSUME NEW e \in Nat PROVE e \in Partial(f, w, 0) <=> e \in Dividend(f)
    <2>1. e \in Partial(f, w, 0) <=> ~(e - 0 \in Dividend(f) <=> (e - 0 \in w /\ e >= Width))
      BY <1>3, PartialMember
    <2>2. e - 0 = e /\ ~(e \in w /\ e >= Width)
      BY BitsFacts
    <2>. QED  BY <2>1, <2>2
  <1>5. ASSUME NEW e \in Nat
        PROVE  e \in Partial(f, w, Width) <=> e \in Dividend(Append(f, w))
    <2>1. e \in Partial(f, w, Width)
            <=> ~(e - Width \in Dividend(f) <=> (e - Width \in w /\ e >= Width))
      BY <1>3, PartialMember
    <2>2. e - Width \in w => e >= Width
      BY BitsFacts
    <2>3. e \in Dividend(Append(f, w)) <=> ~(e - Width \in Dividend(f) <=> e - Width \in w)
      <3>1. e \in Int
        OBVIOUS
      <3>. QED  BY <3>1, DividendStep
    <2>. QED  BY <2>1, <2>2, <2>3
  <1>. QED  BY <1>1, <1>2, <1>3, <1>4, <1>5

LEMMA PartialStep ==
  ASSUME NEW f \in Seq(Words), NEW w \in SUBSET Bits, NEW k \in 0..(Width - 1), NEW e \in Nat
  PROVE  e \in Partial(f, w, k + 1) <=>
           ~(e - 1 \in Partial(f, w, k) <=> (BitOf(k) \in w /\ e = Width))
  <1>. DEFINE D == Dividend(f)
              x == e - (k + 1)
  <1>1. k \in 0..Width /\ k + 1 \in 0..Width /\ (e - 1) - k = x /\ x \in Int
    OBVIOUS
  <1>2. e \in Partial(f, w, k + 1) <=> ~(x \in D <=> (x \in w /\ e >= Width))
    BY <1>1, PartialMember
  <1>3. D \in SUBSET Nat
    BY DividendMember
  <1>4. e - 1 \in Partial(f, w, k) <=> ~(x \in D <=> (x \in w /\ e - 1 >= Width))
    <2>1. CASE e = 0
      <3>1. Partial(f, w, k) \in SUBSET Nat
        BY <1>1, PartialMember
      <3>2. e - 1 \notin Nat /\ x \notin Nat
        BY <2>1
      <3>. HIDE DEF x, D
      <3>. QED  BY <1>3, <3>1, <3>2, BitsFacts
    <2>2. CASE e # 0
      <3>. DEFINE y == e - 1
      <3>1. y \in Nat /\ y - k = x
        BY <1>1, <2>2
      <3>. HIDE DEF y
      <3>2. y \in Partial(f, w, k) <=> ~(y - k \in D <=> (y - k \in w /\ y >= Width))
        BY <1>1, <3>1, PartialMember
      <3>. QED  BY <3>1, <3>2 DEF y
    <2>. QED  BY <2>1, <2>2
  <1>5. e = Width => x = BitOf(k)
    BY DEF BitOf
  <1>. HIDE DEF D, x
  <1>6. e >= Width <=> (e - 1 >= Width \/ e = Width)
    OBVIOUS
  <1>7. e = Width => ~(e - 1 >= Width)
    OBVIOUS
  <1>8. CASE e = Width
    <2>1. e >= Width
      BY <1>8
    <2>. QED  BY <1>2, <1>4, <1>5, <1>7, <1>8, <2>1
  <1>9. CASE e # Width
    BY <1>2, <1>4, <1>6, <1>9
  <1>. QED  BY <1>8, <1>9

\* The register is the remainder of what has been read, to the bit.
RegisterCongruent ==
  IF bits = Width
  THEN Congruent(Width * Len(data), CRC32, Dividend(data))
  ELSE \E f \in Seq(Words), w \in Words :
         /\ data = Append(f, w)
         /\ Congruent(Width * Len(f) + bits, CRC32, Partial(f, w, bits))

LEMMA InitCongruent ==
  ASSUME CrcInit
  PROVE  RegisterCongruent
  <1>1. data = <<>> /\ CRC32 = Bits /\ bits = Width /\ Len(data) = 0
    BY DEF CrcInit
  <1>2. Xor(Dividend(data), CRC32) = {}
    BY <1>1, DividendEmpty DEF Xor
  <1>3. Product({}) = {}
    BY DEF Product
  <1>. QED  BY <1>1, <1>2, <1>3 DEF RegisterCongruent, Congruent

LEMMA ReadWordCongruent ==
  ASSUME Types, RegisterCongruent, NEW word \in Words, NEW torn \in Words,
         ReadWord(word, torn)
  PROVE  RegisterCongruent'
  <1>1. /\ data \in Seq(Words) /\ bits = Width /\ data' = Append(data, word)
        /\ CRC32' = CRC32 /\ bits' = 0 /\ 0 # Width
    BY DEF Types, ReadWord
  <1>2. Congruent(Width * Len(data), CRC32, Dividend(data))
    BY <1>1 DEF RegisterCongruent
  <1>3. Partial(data, word, 0) = Dividend(data)
    BY <1>1, PartialEnds, BitsFacts
  <1>4. Width * Len(data) + 0 = Width * Len(data)
    BY <1>1
  <1>5. Congruent(Width * Len(data) + 0, CRC32', Partial(data, word, 0))
    BY <1>1, <1>2, <1>3, <1>4
  <1>. QED  BY <1>1, <1>5 DEF RegisterCongruent

LEMMA NextBitCongruent ==
  ASSUME Types, RegisterCongruent, NextBit
  PROVE  RegisterCongruent'
  <1>1. bits \in 0..(Width - 1) /\ bits # Width /\ CRC32 \in SUBSET Bits
    BY DEF Types, NextBit
  <1>2. PICK f \in Seq(Words), w \in Words :
          /\ data = Append(f, w)
          /\ Congruent(Width * Len(f) + bits, CRC32, Partial(f, w, bits))
    BY <1>1 DEF RegisterCongruent
  <1>. DEFINE bit == BitOf(bits) \in w
              m == Width * Len(f) + bits
              p == Partial(f, w, bits)
              next == Partial(f, w, bits + 1)
  <1>3. /\ Len(data) = Len(f) + 1 /\ data[Len(data)] = w /\ Len(f) \in Nat
    BY <1>2
  <1>4. CRC32' = BitStep(CRC32, bit) /\ bits' = bits + 1 /\ data' = data
    BY <1>3 DEF NextBit
  <1>5. w \in SUBSET Bits /\ p \in SUBSET Nat /\ next \in SUBSET Nat
    <2>1. w \in SUBSET Bits /\ bits \in 0..Width /\ bits + 1 \in 0..Width
      BY <1>1, BitsFacts
    <2>. DEFINE k == bits + 1
    <2>. HIDE DEF k
    <2>2. p \in SUBSET Nat
      BY <2>1, PartialMember
    <2>3. Partial(f, w, k) \in SUBSET Nat
      BY <2>1, PartialMember DEF k
    <2>. QED  BY <2>1, <2>2, <2>3 DEF k
  <1>6. m \in Nat
    <2>1. Width * Len(f) \in Nat
      BY <1>3
    <2>. QED  BY <1>1, <2>1
  <1>7. \A e \in Nat : e \in next <=> ~(e - 1 \in p <=> (bit /\ e = Width))
    BY <1>1, <1>5, PartialStep
  <1>8. bit \in BOOLEAN /\ Congruent(m, CRC32, p)
    BY <1>2
  <1>9. Congruent(m + 1, CRC32', next)
    <2>. HIDE DEF bit, m, p, next
    <2>1. Congruent(m + 1, BitStep(CRC32, bit), next)
      BY <1>1, <1>5, <1>6, <1>7, <1>8, StepCongruent
    <2>. QED  BY <1>4, <2>1
  <1>10. CASE bits' # Width
    <2>1. m + 1 = Width * Len(f) + bits'
      <3>. DEFINE k == Width * Len(f)
      <3>1. k \in Nat
        BY <1>3
      <3>. HIDE DEF k
      <3>2. (k + bits) + 1 = k + (bits + 1)
        BY <1>1, <3>1
      <3>. QED  BY <1>4, <3>2 DEF k
    <2>. QED  BY <1>2, <1>4, <1>9, <1>10, <2>1 DEF RegisterCongruent
  <1>11. CASE bits' = Width
    <2>1. m + 1 = Width * Len(data)
      <3>1. bits + 1 = Width
        BY <1>4, <1>11
      <3>2. Width * (Len(f) + 1) = Width * Len(f) + Width
        BY <1>3
      <3>. DEFINE k == Width * Len(f)
      <3>3. k \in Nat
        BY <1>3
      <3>. HIDE DEF k
      <3>4. (k + bits) + 1 = k + Width
        BY <1>1, <3>1, <3>3
      <3>. QED  BY <1>3, <3>2, <3>4 DEF k
    <2>2. next = Dividend(data)
      BY <1>2, <1>4, <1>5, <1>11, PartialEnds
    <2>. QED  BY <1>4, <1>9, <1>11, <2>1, <2>2 DEF RegisterCongruent
  <1>. QED  BY <1>10, <1>11

\* Whatever the words, the register after each is the remainder that the message
\* leaves on division by the polynomial: crc32_core computes that CRC.
THEOREM RegisterIsRemainder == CrcSpec => []CrcIsRemainder
  <1>1. CrcInit => RegisterCongruent
    BY InitCongruent
  <1>2. Types /\ RegisterCongruent /\ [CrcNext]_crcVars => RegisterCongruent'
    <2>1. RegisterCongruent /\ UNCHANGED crcVars => RegisterCongruent'
      BY DEF crcVars, RegisterCongruent
    <2>. QED  BY <2>1, NextBitCongruent, ReadWordCongruent DEF CrcNext
  <1>3. Types /\ RegisterCongruent => CrcIsRemainder
    BY DEF Types, RegisterCongruent, Congruent, CrcIsRemainder
  <1>. QED  BY <1>1, <1>2, <1>3, TypesHold, PTL DEF CrcSpec
=============================================================================
