------------------------------ MODULE RtcpProofs ------------------------------
(***************************************************************************)
(* Proofs about the RTCP helpers, for compound packets of any number of    *)
(* messages and for words, mantissas and bitrates of any width: the walk   *)
(* finds the headers and nothing else, and what is written in place falls  *)
(* on the words it is meant for.                                           *)
(***************************************************************************)
EXTENDS Rtcp, FiniteSetTheorems, WellFoundedInduction, TLAPS

\* Every set of numbers has a least element, and with it induction on sets.
LEMMA LeastNumber ==
  ASSUME NEW S \in SUBSET Nat, S # {}
  PROVE  \E x \in S : \A y \in S : x <= y
<1> DEFINE R == OpToRel(<, Nat)
<1>1. IsWellFoundedOn(R, Nat)
  BY NatLessThanWellFounded
<1>2. \A x, y \in Nat : x < y => <<x, y>> \in R
  BY DEF OpToRel
<1> HIDE DEF R
<1>3. PICK x \in S : \A y \in S : ~ (<<y, x>> \in R)
  BY <1>1, WFMin
<1>4. ASSUME NEW y \in S PROVE x <= y
  <2>1. x \in Nat /\ y \in Nat /\ ~ (y < x)
    BY <1>2, <1>3
  <2> QED
    BY <2>1
<1> QED
  BY <1>4

LEMMA Induction ==
  ASSUME NEW S, 0 \in S, \A n \in Nat : n \in S => n + 1 \in S
  PROVE  \A n \in Nat : n \in S
<1> SUFFICES ASSUME Nat \ S # {} PROVE FALSE
  OBVIOUS
<1>1. PICK x \in Nat \ S : \A y \in Nat \ S : x <= y
  BY LeastNumber
<1>2. x - 1 \in Nat /\ x - 1 \in S
  BY <1>1
<1> QED
  BY <1>1, <1>2

-----------------------------------------------------------------------------
(***************************************************************************)
(* Bits and bitrates.                                                      *)
(***************************************************************************)
Doubles(n, g) == g[0] = 1 /\ \A k \in 0..(n - 1) : g[k + 1] = 2 * g[k]

LEMMA DoublesExist == \A n \in Nat : \E g \in [0..n -> Nat] : Doubles(n, g)
<1> DEFINE S == {n \in Nat : \E g \in [0..n -> Nat] : Doubles(n, g)}
<1>1. 0 \in S
  <2>1. Doubles(0, [k \in 0..0 |-> 1])
    BY DEF Doubles
  <2> QED
    BY <2>1
<1>2. ASSUME NEW n \in Nat, n \in S PROVE n + 1 \in S
  <2>1. PICK g \in [0..n -> Nat] : Doubles(n, g)
    BY <1>2
  <2> DEFINE h == [k \in 0..(n + 1) |-> IF k = n + 1 THEN 2 * g[n] ELSE g[k]]
  <2>2. h \in [0..(n + 1) -> Nat]
    OBVIOUS
  <2>3. Doubles(n + 1, h)
    BY <2>1 DEF Doubles
  <2> QED
    BY <2>2, <2>3
<1> HIDE DEF S
<1>3. \A n \in Nat : n \in S
  BY <1>1, <1>2, Induction
<1> QED
  BY <1>3 DEF S

LEMMA DoublesAgree ==
  ASSUME NEW m \in Nat, NEW n \in Nat, m <= n, NEW g, NEW h, Doubles(m, g), Doubles(n, h)
  PROVE  g[m] = h[m]
<1> DEFINE S == {k \in Nat : k <= m => g[k] = h[k]}
<1>1. 0 \in S
  BY DEF Doubles
<1>2. ASSUME NEW k \in Nat, k \in S PROVE k + 1 \in S
  BY <1>2 DEF Doubles
<1> HIDE DEF S
<1>3. m \in S
  BY <1>1, <1>2, Induction
<1> QED
  BY <1>3 DEF S

LEMMA BitFacts ==
  /\ Bit[0] = 1
  /\ \A n \in Nat : Bit[n] \in Nat /\ Bit[n] > 0 /\ Bit[n + 1] = 2 * Bit[n]
<1> DEFINE part(n) == CHOOSE g : g \in [0..n -> Nat] /\ Doubles(n, g)
           f == [n \in Nat |-> part(n)[n]]
<1>1. \A n \in Nat : part(n) \in [0..n -> Nat] /\ Doubles(n, part(n))
  BY DoublesExist
<1> HIDE DEF part
<1>2. \A n \in Nat : f[n] = part(n)[n]
  OBVIOUS
<1>3. f[0] = 1
  BY <1>1, <1>2 DEF Doubles
<1>4. ASSUME NEW n \in Nat PROVE f[n + 1] = 2 * f[n] /\ f[n] \in Nat
  <2>1. Doubles(n, part(n)) /\ Doubles(n + 1, part(n + 1)) /\ part(n) \in [0..n -> Nat]
    BY <1>1
  <2>2. part(n + 1)[n + 1] = 2 * part(n + 1)[n]
    BY <2>1 DEF Doubles
  <2>3. part(n)[n] = part(n + 1)[n]
    BY <2>1, DoublesAgree
  <2> QED
    BY <1>2, <2>1, <2>2, <2>3
<1>5. f = [n \in Nat |-> IF n = 0 THEN 1 ELSE 2 * f[n - 1]]
  <2>1. \A n \in Nat : f[n] = IF n = 0 THEN 1 ELSE 2 * f[n - 1]
    <3> SUFFICES ASSUME NEW n \in Nat, n # 0 PROVE f[n] = 2 * f[n - 1]
      BY <1>3
    <3>1. n - 1 \in Nat /\ (n - 1) + 1 = n
      OBVIOUS
    <3> HIDE DEF f
    <3> QED
      BY <1>4, <3>1
  <2>2. DOMAIN f = Nat /\ f = [n \in Nat |-> f[n]]
    OBVIOUS
  <2> HIDE DEF f
  <2> QED
    BY <2>1, <2>2
<1> HIDE DEF f
<1>6. Bit = [n \in Nat |-> IF n = 0 THEN 1 ELSE 2 * Bit[n - 1]]
  BY <1>5 DEF Bit
<1>7. Bit[0] = 1 /\ \A n \in Nat : Bit[n + 1] = 2 * Bit[n]
  BY <1>6
<1> DEFINE S == {n \in Nat : Bit[n] \in Nat /\ Bit[n] > 0}
<1>8. 0 \in S /\ \A n \in Nat : n \in S => n + 1 \in S
  BY <1>7
<1> HIDE DEF S
<1>9. \A n \in Nat : n \in S
  BY <1>8, Induction
<1> QED
  BY <1>7, <1>9 DEF S

LEMMA BitGrows == \A m, n \in Nat : m <= n => Bit[m] <= Bit[n]
<1> SUFFICES ASSUME NEW m \in Nat, NEW n \in Nat, m <= n PROVE Bit[m] <= Bit[n]
  OBVIOUS
<1> DEFINE S == {k \in Nat : Bit[m] <= Bit[m + k]}
<1>1. 0 \in S
  BY BitFacts
<1>2. ASSUME NEW k \in Nat, k \in S PROVE k + 1 \in S
  <2>1. m + k \in Nat /\ m + (k + 1) = (m + k) + 1 /\ m + (k + 1) \in Nat
    OBVIOUS
  <2>2. /\ Bit[m] \in Nat /\ Bit[m + k] \in Nat /\ Bit[m + (k + 1)] \in Nat
        /\ Bit[m + (k + 1)] = 2 * Bit[m + k]
    BY <2>1, BitFacts
  <2> QED
    BY <1>2, <2>2
<1> HIDE DEF S
<1>3. \A k \in Nat : k \in S
  BY <1>1, <1>2, Induction
<1>4. n - m \in Nat /\ m + (n - m) = n
  OBVIOUS
<1> QED
  BY <1>3, <1>4 DEF S

\* What the largest exponent can carry; every bitrate is below it.
MaxRate == MaxMantissa * Bit[63]

LEMMA BitratesFit ==
  /\ MaxRate \in Nat /\ Bitrates \subseteq 0..MaxRate
  /\ MinBitrate \in 0..MaxRate /\ DefaultBitrate \in 0..MaxRate
<1> DEFINE all == Bitrates \cup {MinBitrate, DefaultBitrate}
<1>1. all \subseteq Nat /\ \E n \in 0..63 : \A b \in all : b <= MaxMantissa * Bit[n]
  BY BitrateAssumption
<1> HIDE DEF all
<1>2. PICK n \in 0..63 : \A b \in all : b <= MaxMantissa * Bit[n]
  BY <1>1
<1>3. MaxMantissa \in Nat /\ Bit[n] \in Nat /\ Bit[63] \in Nat /\ Bit[n] <= Bit[63]
  BY ConstantsAssumption, BitFacts, BitGrows
<1> DEFINE low == Bit[n]
           high == Bit[63]
<1>4. low \in Nat /\ high \in Nat /\ low <= high /\ \A b \in all : b <= MaxMantissa * low
  BY <1>2, <1>3
<1>5. MaxRate = MaxMantissa * high
  BY DEF MaxRate
<1> HIDE DEF low, high
<1>6. MaxMantissa * low <= MaxMantissa * high /\ MaxMantissa * low \in Nat /\ MaxMantissa * high \in Nat
  BY <1>3, <1>4
<1>7. \A b \in all : b \in 0..MaxRate
  BY <1>1, <1>4, <1>5, <1>6
<1> QED
  BY <1>5, <1>6, <1>7 DEF all

LEMMA Division ==
  ASSUME NEW b \in Nat, NEW d \in Nat, d > 0
  PROVE  b \div d \in Nat /\ (b \div d) * d <= b /\ b - (b \div d) * d < d
OBVIOUS

\* The exponent that the loop of janus_rtcp_cap_remb finds, and what the
\* encoding with it loses.
LEMMA EncodeFacts ==
  ASSUME NEW b \in 0..MaxRate
  PROVE  /\ Encode(b) \in [exp : Nat, mantissa : Nat]
         /\ Value(Encode(b)) \in 0..b
         /\ (b - Value(Encode(b))) * (MaxMantissa \div 2) <= b
<1> DEFINE Reaches(n) == b <= MaxMantissa * Bit[n]
           Least(n) == Reaches(n) /\ \A k \in 0..(n - 1) : b > MaxMantissa * Bit[k]
           e == CHOOSE n \in 0..63 : Least(n)
           S == {n \in Nat : Reaches(n)}
<1>0. MaxMantissa \in Nat /\ b \in Nat
  BY ConstantsAssumption, BitratesFit
<1>1. \E n \in 0..63 : Least(n)
  <2>1. 63 \in S
    BY <1>0, BitFacts, BitratesFit DEF MaxRate
  <2>2. PICK n \in S : \A k \in S : n <= k
    BY <2>1, LeastNumber
  <2>3. n \in 0..63
    BY <1>0, <2>1, <2>2
  <2>4. ASSUME NEW k \in 0..(n - 1) PROVE b > MaxMantissa * Bit[k]
    <3>1. k \in Nat /\ k \notin S
      BY <2>2
    <3>2. Bit[k] \in Nat /\ MaxMantissa * Bit[k] \in Nat
      BY <1>0, <3>1, BitFacts
    <3> QED
      BY <1>0, <3>1, <3>2
  <2> QED
    BY <2>2, <2>3, <2>4
<1>2. e \in 0..63 /\ Least(e)
  <2> HIDE DEF Least
  <2> QED
    BY <1>1
<1>3. Encode(b) = Rate(e, b \div Bit[e])
  BY DEF Encode
<1> HIDE DEF e
<1> DEFINE d == Bit[e]
           m == b \div d
<1>4. d \in Nat /\ d > 0
  BY <1>2, BitFacts
<1>5. m \in Nat /\ m * d <= b /\ b - m * d < d /\ m * d \in Nat
  BY <1>0, <1>4, Division
<1>6. Value(Encode(b)) = m * d
  BY <1>3 DEF Value, Rate
<1>7. (b - m * d) * (MaxMantissa \div 2) <= b
  <2> DEFINE half == MaxMantissa \div 2
             lost == b - m * d
  <2>1. half \in Nat /\ 2 * half <= MaxMantissa
    BY <1>0
  <2>2. lost \in Nat /\ lost < d
    BY <1>0, <1>5
  <2>3. CASE e = 0
    <3>1. lost = 0
      BY <2>2, <2>3, BitFacts
    <3> QED
      BY <1>0, <2>1, <3>1
  <2>4. CASE e # 0
    <3> DEFINE c == Bit[e - 1]
    <3>1. e - 1 \in 0..(e - 1) /\ e - 1 \in Nat /\ (e - 1) + 1 = e
      BY <1>2, <2>4
    <3>2. c \in Nat /\ d = 2 * c
      BY <3>1, BitFacts
    <3>3. b > MaxMantissa * c
      BY <1>2, <3>1
    <3> HIDE DEF c, d, m, half, lost
    <3>4. lost * half <= (2 * c) * half
      BY <2>1, <2>2, <3>2
    <3>5. (2 * c) * half = c * (2 * half)
      BY <2>1, <3>2
    <3>6. c * (2 * half) <= c * MaxMantissa
      BY <1>0, <2>1, <3>2
    <3>7. lost * half <= b
      BY <1>0, <2>1, <2>2, <3>2, <3>3, <3>4, <3>5, <3>6
    <3> QED
      BY <3>7 DEF lost, half
  <2> QED
    BY <2>3, <2>4
<1> QED
  BY <1>0, <1>2, <1>3, <1>5, <1>6, <1>7 DEF Rate

-----------------------------------------------------------------------------
(***************************************************************************)
(* Packets and their messages: off[i] words lie before message i.          *)
(***************************************************************************)
Layout(p, bs, n, off) ==
  /\ n \in Nat /\ off[1] = 0
  /\ \A i \in 1..(n + 1) : off[i] \in Nat
  /\ \A i \in 1..n : Len(bs[i]) \in Nat /\ off[i + 1] = off[i] + Len(bs[i])
  /\ Len(p) = off[n + 1]

Covers(p, bs, n, off) ==
  /\ Layout(p, bs, n, off)
  /\ \A i \in 1..n : \A k \in 1..Len(bs[i]) : p[off[i] + k] = bs[i][k]

LEMMA OffsetsGrow ==
  ASSUME NEW p, NEW bs, NEW n, NEW off, Layout(p, bs, n, off)
  PROVE  \A i, j \in 1..(n + 1) : i <= j => off[i] <= off[j]
<1> SUFFICES ASSUME NEW i \in 1..(n + 1), NEW j \in 1..(n + 1), i <= j
             PROVE  off[i] <= off[j]
  OBVIOUS
<1> DEFINE S == {m \in Nat : i + m <= n + 1 => off[i] <= off[i + m]}
<1>0. n \in Nat /\ i \in Nat /\ j \in Nat /\ j - i \in Nat /\ i + (j - i) = j /\ off[i] \in Nat
  BY DEF Layout
<1>1. 0 \in S
  BY <1>0
<1>2. ASSUME NEW m \in Nat, m \in S PROVE m + 1 \in S
  <2> SUFFICES ASSUME i + (m + 1) <= n + 1 PROVE off[i] <= off[i + (m + 1)]
    OBVIOUS
  <2>1. i + m \in 1..n /\ i + (m + 1) = (i + m) + 1 /\ i + m \in 1..(n + 1)
    BY <1>0
  <2>2. off[i] <= off[i + m]
    BY <1>0, <1>2, <2>1
  <2>3. off[(i + m) + 1] = off[i + m] + Len(bs[i + m]) /\ off[i + m] \in Nat /\ Len(bs[i + m]) \in Nat
    BY <2>1 DEF Layout
  <2> HIDE DEF S
  <2> QED
    BY <1>0, <2>1, <2>2, <2>3
<1> HIDE DEF S
<1>3. j - i \in S
  BY <1>0, <1>1, <1>2, Induction
<1> QED
  BY <1>0, <1>3 DEF S

\* Every word of a packet lies in a message, every word of a message in the
\* packet, and the words before a message belong to those before it.
LEMMA Cells ==
  ASSUME NEW p, NEW bs, NEW n, NEW off, Layout(p, bs, n, off)
  PROVE  /\ \A i \in 1..n : \A k \in 1..Len(bs[i]) : off[i] + k \in 1..Len(p)
         /\ \A x \in 1..Len(p) : \E i \in 1..n : x - off[i] \in 1..Len(bs[i])
<1>0. n \in Nat /\ Len(p) \in Nat /\ n + 1 \in 1..(n + 1)
  BY DEF Layout
<1>1. ASSUME NEW i \in 1..n
      PROVE  /\ i \in 1..(n + 1) /\ i + 1 \in 1..(n + 1)
             /\ Len(bs[i]) \in Nat /\ off[i] \in Nat /\ off[i + 1] = off[i] + Len(bs[i])
  BY <1>0 DEF Layout
<1>2. ASSUME NEW i \in 1..n, NEW k \in 1..Len(bs[i]) PROVE off[i] + k \in 1..Len(p)
  <2>1. off[i + 1] <= off[n + 1] /\ off[n + 1] = Len(p)
    <3>1. i + 1 \in 1..(n + 1) /\ i + 1 <= n + 1
      BY <1>0, <1>1
    <3> QED
      BY <1>0, <3>1, OffsetsGrow DEF Layout
  <2>2. Len(bs[i]) \in Nat /\ off[i] \in Nat /\ off[i + 1] = off[i] + Len(bs[i])
    BY <1>1
  <2> QED
    BY <1>0, <2>1, <2>2
<1>3. ASSUME NEW x \in 1..Len(p) PROVE \E i \in 1..n : x - off[i] \in 1..Len(bs[i])
  <2> DEFINE S == {j \in Nat : j \in 1..n /\ x <= off[j + 1]}
  <2>0. n # 0
    BY <1>0 DEF Layout
  <2>1. n \in S
    BY <1>0, <2>0 DEF Layout
  <2>2. PICK i \in S : \A j \in S : i <= j
    BY <2>1, LeastNumber
  <2>3. i \in 1..n /\ x <= off[i + 1]
    OBVIOUS
  <2>4. off[i] < x
    <3>1. CASE i = 1
      BY <3>1 DEF Layout
    <3>2. CASE i # 1
      <4>1. i - 1 \in 1..n /\ i - 1 \in Nat /\ (i - 1) + 1 = i /\ ~ (i <= i - 1) /\ off[i] \in Nat
        BY <1>0, <1>1, <2>3, <3>2
      <4>2. i - 1 \notin S
        <5> HIDE DEF S
        <5> QED
          BY <2>2, <4>1
      <4>3. ~ (x <= off[(i - 1) + 1])
        BY <4>1, <4>2
      <4> QED
        BY <1>0, <4>1, <4>3
    <3> QED
      BY <3>1, <3>2
  <2>5. Len(bs[i]) \in Nat /\ off[i] \in Nat /\ off[i + 1] = off[i] + Len(bs[i])
    BY <1>1, <2>3
  <2> HIDE DEF S
  <2> QED
    BY <1>0, <2>3, <2>4, <2>5
<1> QED
  BY <1>2, <1>3

\* The lengths of the messages determine where they lie.
LEMMA LayoutUnique ==
  ASSUME NEW p, NEW q, NEW bs, NEW n, NEW off, NEW pos, Layout(p, bs, n, off), Layout(q, bs, n, pos)
  PROVE  Len(p) = Len(q) /\ \A i \in 1..(n + 1) : off[i] = pos[i]
<1> DEFINE S == {m \in Nat : m <= n => off[m + 1] = pos[m + 1]}
<1>0. n \in Nat
  BY DEF Layout
<1>1. 0 \in S
  BY DEF Layout
<1>2. ASSUME NEW m \in Nat, m \in S PROVE m + 1 \in S
  <2> SUFFICES ASSUME m + 1 <= n PROVE off[(m + 1) + 1] = pos[(m + 1) + 1]
    OBVIOUS
  <2>1. m + 1 \in 1..n /\ off[m + 1] = pos[m + 1]
    BY <1>0, <1>2
  <2> HIDE DEF S
  <2> QED
    BY <2>1 DEF Layout
<1> HIDE DEF S
<1>3. \A m \in Nat : m \in S
  BY <1>1, <1>2, Induction
<1>4. ASSUME NEW i \in 1..(n + 1) PROVE off[i] = pos[i]
  <2>1. i - 1 \in Nat /\ (i - 1) + 1 = i /\ i - 1 <= n
    BY <1>0
  <2>2. i - 1 \in S
    BY <1>3, <2>1
  <2> QED
    BY <2>1, <2>2 DEF S
<1>5. n + 1 \in 1..(n + 1)
  BY <1>0
<1> QED
  BY <1>4, <1>5 DEF Layout

\* FlattenSeq puts the messages one after the other.
LEMMA CoverFlatten ==
  ASSUME NEW W, NEW bs, NEW n \in Nat, Len(bs) = n, \A i \in 1..n : bs[i] \in Seq(W), n > 0
  PROVE  FlattenSeq(bs) \in Seq(W) /\ \E off : Covers(FlattenSeq(bs), bs, n, off)
<1> DEFINE Parts(g, m) == g \in [1..m -> Seq(W)]
                          /\ \A i \in 1..m : g[i] = IF i = 1 THEN bs[i] ELSE g[i - 1] \o bs[i]
           Flat(f) == f = [i \in 1..n |-> IF i = 1 THEN bs[i] ELSE f[i - 1] \o bs[i]]
           S == {m \in Nat : m <= n => \E g : Parts(g, m)}
<1>1. 0 \in S
  <2>1. 1..0 = {}
    OBVIOUS
  <2>2. [i \in {} |-> <<>>] \in [{} -> Seq(W)]
    OBVIOUS
  <2>3. Parts([i \in {} |-> <<>>], 0)
    BY <2>1, <2>2
  <2> QED
    BY <2>3
<1>2. ASSUME NEW m \in Nat, m \in S PROVE m + 1 \in S
  <2> SUFFICES ASSUME m + 1 <= n PROVE \E g : Parts(g, m + 1)
    <3> HIDE DEF Parts
    <3> QED
      OBVIOUS
  <2>1. PICK g : Parts(g, m)
    BY <1>2
  <2> DEFINE b == IF m + 1 = 1 THEN bs[m + 1] ELSE g[m] \o bs[m + 1]
             h == [i \in 1..(m + 1) |-> IF i = m + 1 THEN b ELSE g[i]]
  <2>2. b \in Seq(W)
    <3>1. bs[m + 1] \in Seq(W)
      OBVIOUS
    <3>2. m # 0 => g[m] \in Seq(W)
      BY <2>1
    <3> QED
      BY <3>1, <3>2
  <2>3. h \in [1..(m + 1) -> Seq(W)]
    BY <2>1, <2>2
  <2>4. ASSUME NEW i \in 1..(m + 1) PROVE h[i] = IF i = 1 THEN bs[i] ELSE h[i - 1] \o bs[i]
    <3>1. CASE i = m + 1
      BY <3>1
    <3>2. CASE i # m + 1
      <4>1. i \in 1..m /\ (i # 1 => i - 1 \in 1..m /\ i - 1 # m + 1 /\ i - 1 \in 1..(m + 1))
        BY <3>2
      <4> QED
        BY <2>1, <3>2, <4>1
    <3> QED
      BY <3>1, <3>2
  <2> QED
    BY <2>3, <2>4
<1> HIDE DEF S
<1>3. n \in S
  BY <1>1, <1>2, Induction
<1>4. PICK g : Parts(g, n)
  BY <1>3 DEF S
<1>5. Flat(g)
  BY <1>4
<1> DEFINE f == CHOOSE f : Flat(f)
<1>6. Flat(f)
  <2> HIDE DEF Flat
  <2> QED
    BY <1>5
<1>7. FlattenSeq(bs) = f[n]
  BY DEF FlattenSeq
<1> HIDE DEF f
<1>8. \A i \in 1..n : f[i] = IF i = 1 THEN bs[i] ELSE f[i - 1] \o bs[i]
  BY <1>6
<1> DEFINE T == {m \in Nat : m < n =>
                   f[m + 1] \in Seq(W) /\ \E off : Covers(f[m + 1], bs, m + 1, off)}
<1>9. 0 \in T
  <2> DEFINE off == [i \in 1..2 |-> IF i = 1 THEN 0 ELSE Len(bs[1])]
  <2>1. f[1] = bs[1] /\ bs[1] \in Seq(W) /\ Len(bs[1]) \in Nat
    BY <1>8
  <2>2. Covers(f[1], bs, 1, off)
    BY <2>1 DEF Covers, Layout
  <2> QED
    BY <2>1, <2>2
<1>10. ASSUME NEW m \in Nat, m \in T PROVE m + 1 \in T
  <2> SUFFICES ASSUME m + 1 < n
               PROVE  /\ f[(m + 1) + 1] \in Seq(W)
                      /\ \E off : Covers(f[(m + 1) + 1], bs, (m + 1) + 1, off)
    OBVIOUS
  <2> DEFINE b == bs[(m + 1) + 1]
             p == f[m + 1]
             q == f[(m + 1) + 1]
             l == m + 1
  <2>1. b \in Seq(W) /\ Len(b) \in Nat /\ l \in Nat /\ l # 0
    OBVIOUS
  <2>2. p \in Seq(W) /\ Len(p) \in Nat
    BY <1>10
  <2>3. PICK off : Covers(p, bs, l, off)
    BY <1>10
  <2>4. q = p \o b
    <3>1. (m + 1) + 1 \in 1..n /\ (m + 1) + 1 # 1 /\ ((m + 1) + 1) - 1 = m + 1
      OBVIOUS
    <3> QED
      BY <1>8, <3>1
  <2>5. q \in Seq(W) /\ Len(q) = Len(p) + Len(b)
        /\ (\A x \in 1..Len(p) : q[x] = p[x]) /\ \A x \in 1..Len(b) : q[Len(p) + x] = b[x]
    <3> HIDE DEF p, q, b
    <3> QED
      BY <2>1, <2>2, <2>4
  <2> DEFINE pos == [i \in 1..(l + 2) |-> IF i = l + 2 THEN Len(q) ELSE off[i]]
  <2>6. b = bs[l + 1]
    OBVIOUS
  <2> HIDE DEF b, p, q, l
  <2>7. \A i \in 1..(l + 1) : pos[i] = off[i] /\ pos[i] \in Nat
    BY <2>1, <2>3 DEF Covers, Layout
  <2>8. pos[l + 2] = Len(q) /\ (l + 1) + 1 = l + 2 /\ pos[l + 1] = Len(p)
    BY <2>1, <2>3 DEF Covers, Layout
  <2>9. \A i \in 1..l : Len(bs[i]) \in Nat /\ pos[i + 1] = pos[i] + Len(bs[i])
    <3>1. \A i \in 1..l : i \in 1..(l + 1) /\ i + 1 \in 1..(l + 1)
      BY <2>1
    <3> HIDE DEF pos
    <3> QED
      BY <2>1, <2>3, <2>7, <3>1 DEF Covers, Layout
  <2>10. pos[1] = 0
    BY <2>1, <2>3 DEF Covers, Layout
  <2> HIDE DEF pos
  <2>11. Layout(q, bs, l + 1, pos)
    <3>1. \A i \in 1..(l + 1) : Len(bs[i]) \in Nat /\ pos[i + 1] = pos[i] + Len(bs[i])
      <4> SUFFICES ASSUME NEW i \in 1..(l + 1)
                   PROVE  Len(bs[i]) \in Nat /\ pos[i + 1] = pos[i] + Len(bs[i])
        OBVIOUS
      <4>1. CASE i \in 1..l
        BY <2>9, <4>1
      <4>2. CASE i = l + 1
        BY <2>1, <2>2, <2>5, <2>6, <2>8, <4>2
      <4> QED
        BY <2>1, <4>1, <4>2
    <3>2. \A i \in 1..((l + 1) + 1) : pos[i] \in Nat
      BY <2>1, <2>2, <2>5, <2>7, <2>8
    <3> QED
      BY <2>1, <2>8, <2>10, <3>1, <3>2 DEF Layout
  <2>12. ASSUME NEW i \in 1..(l + 1), NEW k \in 1..Len(bs[i]) PROVE q[pos[i] + k] = bs[i][k]
    <3>1. CASE i = l + 1
      BY <2>5, <2>6, <2>8, <3>1
    <3>2. CASE i # l + 1
      <4>1. i \in 1..l /\ i \in 1..(l + 1)
        BY <2>1, <3>2
      <4>2. off[i] + k \in 1..Len(p)
        BY <2>3, <4>1, Cells DEF Covers
      <4>3. p[off[i] + k] = bs[i][k]
        BY <2>3, <4>1 DEF Covers
      <4> QED
        BY <2>5, <2>7, <4>1, <4>2, <4>3
    <3> QED
      BY <3>1, <3>2
  <2>13. Covers(q, bs, l + 1, pos)
    BY <2>11, <2>12 DEF Covers
  <2> QED
    BY <2>5, <2>13 DEF q, l
<1> HIDE DEF T
<1>11. \A m \in Nat : m \in T
  BY <1>9, <1>10, Induction
<1>12. n - 1 \in T /\ n - 1 < n /\ (n - 1) + 1 = n
  BY <1>11
<1> QED
  BY <1>7, <1>12 DEF T


-----------------------------------------------------------------------------
(***************************************************************************)
(* The walk: its recursion has one solution, the least set of places that  *)
(* holds the first word and the header after each one that does not end    *)
(* the walk.                                                               *)
(***************************************************************************)
Words(p) ==
  /\ Len(p) \in Nat /\ DOMAIN p = 1..Len(p)
  /\ \A o \in DOMAIN p : "length" \in DOMAIN p[o] => p[o].length \in Nat

Closed(p, S) == \A o \in S : ~EndsAt(p, o) => After(p, o) \in S

Reach(p, o) == {x \in DOMAIN p : \A S \in SUBSET DOMAIN p : o \in S /\ Closed(p, S) => x \in S}

LEMMA AfterIsLater ==
  ASSUME NEW p, Words(p), NEW o \in DOMAIN p, ~EndsAt(p, o)
  PROVE  After(p, o) \in DOMAIN p /\ o < After(p, o)
BY DEF Words, EndsAt, After

LEMMA ReachRecurs ==
  ASSUME NEW p, Words(p), NEW o \in DOMAIN p
  PROVE  Reach(p, o) = {o} \cup IF EndsAt(p, o) THEN {} ELSE Reach(p, After(p, o))
<1> DEFINE a == After(p, o)
           T == {o} \cup IF EndsAt(p, o) THEN {} ELSE Reach(p, a)
<1>1. o \in Reach(p, o)
  BY DEF Reach
<1>2. ~EndsAt(p, o) => Reach(p, a) \subseteq Reach(p, o)
  BY DEF Reach, Closed
<1>3. ASSUME ~EndsAt(p, o) PROVE a \in Reach(p, a)
  BY <1>3, AfterIsLater DEF Reach
<1>4. Closed(p, T)
  <2> SUFFICES ASSUME NEW x \in T, ~EndsAt(p, x) PROVE After(p, x) \in T
    BY DEF Closed
  <2>1. CASE x = o
    BY <1>3, <2>1
  <2>2. CASE x # o
    <3>1. ~EndsAt(p, o) /\ x \in Reach(p, a) /\ x \in DOMAIN p
      BY <2>2 DEF Reach
    <3>2. After(p, x) \in DOMAIN p
      BY <3>1, AfterIsLater
    <3>3. After(p, x) \in Reach(p, a)
      BY <3>1, <3>2 DEF Reach, Closed
    <3> QED
      BY <3>1, <3>3
  <2> QED
    BY <2>1, <2>2
<1>5. T \subseteq DOMAIN p /\ o \in T
  BY DEF Reach
<1> HIDE DEF T
<1>6. Reach(p, o) \subseteq T
  BY <1>4, <1>5 DEF Reach
<1> QED
  BY <1>1, <1>2, <1>6 DEF T

LEMMA WalkIsReach ==
  ASSUME NEW p, Words(p), p # <<>>, Len(p) > 0
  PROVE  Walk(p) = Reach(p, 1)
<1> DEFINE D == DOMAIN p
           Solves(f) == f = [o \in D |-> {o} \cup IF EndsAt(p, o) THEN {} ELSE f[After(p, o)]]
           r == [o \in D |-> Reach(p, o)]
<1>1. Solves(r)
  <2>1. \A o \in D : r[o] = {o} \cup IF EndsAt(p, o) THEN {} ELSE r[After(p, o)]
    BY ReachRecurs, AfterIsLater
  <2> QED
    BY <2>1
<1>2. ASSUME NEW f, Solves(f) PROVE \A o \in D : f[o] = Reach(p, o)
  <2> DEFINE S == {m \in Nat : \E o \in D : m = Len(p) - o /\ f[o] # Reach(p, o)}
  <2> SUFFICES ASSUME S # {} PROVE FALSE
    <3>1. \A o \in D : Len(p) - o \in Nat
      BY DEF Words
    <3> QED
      BY <3>1
  <2>1. PICK m \in S : \A k \in S : m <= k
    BY LeastNumber
  <2>2. PICK o \in D : m = Len(p) - o /\ f[o] # Reach(p, o)
    OBVIOUS
  <2>3. f[o] = {o} \cup IF EndsAt(p, o) THEN {} ELSE f[After(p, o)]
    BY <1>2
  <2>4. ASSUME ~EndsAt(p, o) PROVE f[After(p, o)] = Reach(p, After(p, o))
    <3> DEFINE a == After(p, o)
    <3>1. a \in D /\ o < a
      BY <2>4, AfterIsLater
    <3>2. Len(p) - a \in Nat /\ ~(m <= Len(p) - a)
      BY <2>2, <3>1 DEF Words
    <3>3. Len(p) - a \notin S
      <4> HIDE DEF S
      <4> QED
        BY <2>1, <3>2
    <3> QED
      BY <3>1, <3>2, <3>3
  <2> QED
    BY <2>2, <2>3, <2>4, ReachRecurs
<1> DEFINE From == CHOOSE f : Solves(f)
<1>3. Solves(From)
  <2> HIDE DEF Solves
  <2> QED
    BY <1>1
<1>4. Walk(p) = From[1]
  BY DEF Walk
<1>5. 1 \in D
  BY DEF Words
<1> QED
  BY <1>2, <1>3, <1>4, <1>5


\* In a packet of messages with a header each, whose length is that of the
\* message and of which only the last is without a body, the walk finds every
\* header and nothing else.
LEMMA WalkFindsHeaders ==
  ASSUME NEW p, NEW bs, NEW n, NEW off, Words(p), Layout(p, bs, n, off), n > 0,
         \A i \in 1..n : /\ Len(bs[i]) > 0
                         /\ "length" \in DOMAIN p[off[i] + 1]
                         /\ p[off[i] + 1].length = Len(bs[i]) - 1
                         /\ i < n => Len(bs[i]) # 1
  PROVE  Walk(p) = {off[i] + 1 : i \in 1..n}
<1> DEFINE H == {off[i] + 1 : i \in 1..n}
<1>0. n \in Nat /\ off[1] = 0 /\ Len(p) = off[n + 1] /\ Len(p) \in Nat
  BY DEF Layout, Words
<1>1. ASSUME NEW i \in 1..n
      PROVE  /\ i \in Nat /\ i + 1 \in 1..(n + 1) /\ off[i] \in Nat
             /\ off[i] + 1 \in DOMAIN p
             /\ After(p, off[i] + 1) = off[i + 1] + 1
             /\ ~EndsAt(p, off[i] + 1) <=> i < n
  <2>1. i \in Nat /\ i + 1 \in 1..(n + 1) /\ i \in 1..(n + 1) /\ n + 1 \in 1..(n + 1) /\ i + 1 <= n + 1
    BY <1>0
  <2>2. off[i] \in Nat /\ Len(bs[i]) \in Nat /\ off[i + 1] = off[i] + Len(bs[i]) /\ off[i + 1] \in Nat
    BY <2>1 DEF Layout
  <2>3. off[i + 1] <= Len(p)
    BY <1>0, <2>1, OffsetsGrow
  <2>4. off[i] + 1 \in DOMAIN p
    BY <1>0, <2>2, <2>3, SMTT(40) DEF Words
  <2>5. After(p, off[i] + 1) = off[i + 1] + 1
    BY <2>2 DEF After
  <2>6. CASE i = n
    <3>1. After(p, off[i] + 1) > Len(p)
      BY <1>0, <2>5, <2>6
    <3> QED
      BY <1>0, <2>1, <2>2, <2>4, <2>5, <2>6, <3>1 DEF EndsAt
  <2>7. CASE i # n
    <3>1. i < n /\ i + 1 \in 1..n /\ (i + 1) + 1 \in 1..(n + 1) /\ (i + 1) + 1 <= n + 1
      BY <1>0, <2>1, <2>7
    <3>2. off[(i + 1) + 1] <= Len(p)
      BY <1>0, <2>1, <3>1, OffsetsGrow
    <3>3. Len(bs[i + 1]) \in Nat /\ Len(bs[i + 1]) > 0 /\ off[(i + 1) + 1] = off[i + 1] + Len(bs[i + 1])
      BY <3>1 DEF Layout
    <3>4. ~(After(p, off[i] + 1) > Len(p))
      BY <1>0, <2>2, <2>5, <3>2, <3>3, SMTT(40)
    <3>5. ~(p[off[i] + 1].length = 0)
      <4>1. p[off[i] + 1].length = Len(bs[i]) - 1 /\ Len(bs[i]) # 1
        BY <3>1
      <4> QED
        BY <2>2, <4>1
    <3>6. ~EndsAt(p, off[i] + 1)
      BY <3>4, <3>5 DEF EndsAt
    <3> QED
      BY <2>1, <2>2, <2>4, <2>5, <3>1, <3>6
  <2> QED
    BY <2>6, <2>7
<1>2. 1 \in 1..n /\ Len(p) > 0 /\ 1 \in DOMAIN p /\ 1 \in H
  <2>1. 1 \in 1..n
    BY <1>0
  <2>2. off[1] + 1 \in DOMAIN p
    BY <1>1, <2>1
  <2> QED
    BY <1>0, <2>1, <2>2 DEF Words
<1>3. Walk(p) = Reach(p, 1)
  <2>1. p # <<>>
    BY <1>2
  <2> QED
    BY <1>2, <2>1, WalkIsReach
<1>4. H \subseteq DOMAIN p /\ Closed(p, H)
  <2>1. H \subseteq DOMAIN p
    BY <1>1
  <2>2. ASSUME NEW o \in H, ~EndsAt(p, o) PROVE After(p, o) \in H
    <3>1. PICK i \in 1..n : o = off[i] + 1
      OBVIOUS
    <3>2. i + 1 \in 1..n /\ After(p, o) = off[i + 1] + 1
      BY <1>0, <1>1, <2>2, <3>1
    <3> QED
      BY <3>2
  <2> HIDE DEF H
  <2> QED
    BY <2>1, <2>2 DEF Closed
<1>5. Walk(p) \subseteq H
  BY <1>2, <1>3, <1>4 DEF Reach
<1>6. ASSUME NEW S \in SUBSET DOMAIN p, 1 \in S, Closed(p, S) PROVE H \subseteq S
  <2> DEFINE T == {m \in Nat : m < n => off[m + 1] + 1 \in S}
  <2>1. 0 \in T
    BY <1>0, <1>6
  <2>2. ASSUME NEW m \in Nat, m \in T PROVE m + 1 \in T
    <3> SUFFICES ASSUME m + 1 < n PROVE off[(m + 1) + 1] + 1 \in S
      OBVIOUS
    <3>1. m + 1 \in 1..n /\ off[m + 1] + 1 \in S
      BY <1>0, <2>2
    <3>2. ~EndsAt(p, off[m + 1] + 1) /\ After(p, off[m + 1] + 1) = off[(m + 1) + 1] + 1
      BY <1>1, <3>1
    <3> QED
      BY <1>6, <3>1, <3>2 DEF Closed
  <2> HIDE DEF T
  <2>3. \A m \in Nat : m \in T
    BY <2>1, <2>2, Induction
  <2>4. ASSUME NEW i \in 1..n PROVE off[i] + 1 \in S
    <3>1. i - 1 \in Nat /\ i - 1 < n /\ (i - 1) + 1 = i
      BY <1>0
    <3>2. i - 1 \in T
      BY <2>3, <3>1
    <3> QED
      BY <3>1, <3>2 DEF T
  <2> QED
    BY <2>4
<1>7. H \subseteq Walk(p)
  <2> HIDE DEF H
  <2> QED
    BY <1>3, <1>4, <1>6 DEF Reach
<1> QED
  BY <1>5, <1>7

-----------------------------------------------------------------------------
(***************************************************************************)
(* The words and messages that the gateway sees.                           *)
(***************************************************************************)
Types == {"SR", "RR", "SDES", "BYE", "FIR", "RTPFB", "PSFB"}
Sources == {"none", "peer", "local", "remote"}
Header == [type : Types, fmt : Nat, length : Nat]
SsrcWord == [ssrc : Sources]
RateWord == [exp : Nat, mantissa : Nat]
PlainWord == {Data, [id |-> "REMB"]} \cup [pid : Int, blp : SUBSET Int]
BodyWord == SsrcWord \cup RateWord \cup PlainWord
Word == Header \cup BodyWord

LEMMA WordKinds ==
  \A w \in Word : /\ "length" \in DOMAIN w <=> w \in Header
                  /\ "ssrc" \in DOMAIN w <=> w \in SsrcWord
                  /\ "exp" \in DOMAIN w <=> w \in RateWord
                  /\ w \in Header => w \notin BodyWord
                  /\ w \in SsrcWord => w \notin RateWord
                  /\ w = [id |-> "REMB"] => w \notin Header /\ w \notin SsrcWord /\ w \notin RateWord
BY DEF Word, BodyWord, PlainWord, Header, SsrcWord, RateWord, Data

IsRemb(h) == h.type = "PSFB" /\ h.fmt = 15
SsrcPlaces(h) == LocalWords(h) \cup RemoteWords(h, IsRemb(h))

\* A message as its header describes it: what the walks and the in-place
\* writes expect of it.
Sound(b) ==
  /\ b \in Seq(Word) /\ Len(b) > 0
  /\ b[1] \in Header /\ b[1].length = Len(b) - 1
  /\ \A k \in 2..Len(b) : b[k] \in BodyWord
  /\ Len(b) > 1 => \A k \in SsrcPlaces(b[1]) : k + 1 \in 2..Len(b) /\ b[k + 1] \in SsrcWord
  /\ IsRemb(b[1]) => Len(b) = 6 /\ b[4] = [id |-> "REMB"] /\ b[5] \in RateWord
  /\ Len(b) = 1 => b[1].type = "BYE"

SoundBody(h, body) ==
  /\ body \in Seq(BodyWord) /\ h.length = Len(body)
  /\ Len(body) > 0 => \A k \in SsrcPlaces(h) : k \in 1..Len(body) /\ body[k] \in SsrcWord
  /\ IsRemb(h) => Len(body) = 5 /\ body[3] = [id |-> "REMB"] /\ body[4] \in RateWord
  /\ Len(body) = 0 => h.type = "BYE"

LEMMA MessageIsSound ==
  ASSUME NEW t \in Types, NEW f \in Nat, NEW body, NEW h,
         h = [type |-> t, fmt |-> f, length |-> Len(body)], SoundBody(h, body)
  PROVE  /\ Sound(Message(t, f, body))
         /\ Message(t, f, body)[1] = h /\ Len(Message(t, f, body)) = Len(body) + 1
         /\ \A k \in 1..Len(body) : Message(t, f, body)[k + 1] = body[k]
<1> DEFINE b == Message(t, f, body)
<1>0. /\ body \in Seq(BodyWord)
      /\ Len(body) > 0 => \A k \in SsrcPlaces(h) : k \in 1..Len(body) /\ body[k] \in SsrcWord
      /\ IsRemb(h) => Len(body) = 5 /\ body[3] = [id |-> "REMB"] /\ body[4] \in RateWord
      /\ Len(body) = 0 => h.type = "BYE"
  BY DEF SoundBody
<1>1. Len(body) \in Nat /\ h \in Header
  BY <1>0 DEF Header
<1>2. <<h>> \in Seq(Word) /\ body \in Seq(Word)
  BY <1>0, <1>1 DEF Word
<1>3. b = <<h>> \o body
  BY DEF Message
<1>4. /\ b \in Seq(Word) /\ Len(b) = Len(body) + 1 /\ b[1] = h
      /\ \A k \in 1..Len(body) : b[k + 1] = body[k]
  <2> HIDE DEF b
  <2> QED
    BY <1>1, <1>2, <1>3
<1> HIDE DEF b
<1>5. ASSUME NEW k \in 2..Len(b) PROVE b[k] \in BodyWord
  <2>1. k - 1 \in 1..Len(body) /\ (k - 1) + 1 = k
    BY <1>1, <1>4
  <2>2. b[k] = body[k - 1]
    BY <1>4, <2>1
  <2> QED
    BY <1>0, <2>1, <2>2
<1>6. ASSUME Len(b) > 1, NEW k \in SsrcPlaces(b[1]) PROVE k + 1 \in 2..Len(b) /\ b[k + 1] \in SsrcWord
  <2>1. k \in 1..Len(body) /\ body[k] \in SsrcWord
    BY <1>0, <1>1, <1>4, <1>6
  <2> QED
    BY <1>1, <1>4, <2>1
<1>7. ASSUME IsRemb(b[1]) PROVE Len(b) = 6 /\ b[4] = [id |-> "REMB"] /\ b[5] \in RateWord
  <2>1. Len(body) = 5 /\ body[3] = [id |-> "REMB"] /\ body[4] \in RateWord
    BY <1>0, <1>4, <1>7
  <2>2. b[3 + 1] = body[3] /\ b[4 + 1] = body[4]
    BY <1>4, <2>1
  <2> QED
    BY <1>4, <2>1, <2>2
<1>8. Sound(b)
  BY <1>0, <1>1, <1>4, <1>5, <1>6, <1>7 DEF Sound, Header
<1> QED
  BY <1>4, <1>8 DEF b

LEMMA Concatenation ==
  ASSUME NEW W, NEW s \in Seq(W), NEW t \in Seq(W)
  PROVE  /\ s \o t \in Seq(W) /\ Len(s \o t) = Len(s) + Len(t)
         /\ \A x \in 1..Len(s) : (s \o t)[x] = s[x]
         /\ \A x \in 1..Len(t) : (s \o t)[Len(s) + x] = t[x]
OBVIOUS

LEMMA ReportBody ==
  ASSUME NEW W, NEW x \in W, NEW f \in Seq(W)
  PROVE  LET body == <<x>> \o f \o <<x>> \o f
         IN  /\ body \in Seq(W) /\ Len(body) = Len(f) + 1 + 1 + Len(f)
             /\ body[1] = x /\ body[Len(f) + 1 + 1] = x
<1> DEFINE o == <<x>>
           s == o \o f
           t == s \o o
           b == t \o f
<1>1. o \in Seq(W) /\ Len(o) = 1 /\ o[1] = x /\ Len(f) \in Nat
  OBVIOUS
<1> HIDE DEF o
<1>2. s \in Seq(W) /\ Len(s) = Len(o) + Len(f) /\ \A y \in 1..Len(o) : s[y] = o[y]
  <2>0. o \in Seq(W)
    BY <1>1
  <2>1. o \o f \in Seq(W) /\ Len(o \o f) = Len(o) + Len(f)
    BY <2>0
  <2>2. \A y \in 1..Len(o) : (o \o f)[y] = o[y]
    BY <2>0
  <2> QED
    BY <2>1, <2>2
<1> HIDE DEF s
<1>3. Len(s) = Len(f) + 1 /\ s[1] = x
  BY <1>1, <1>2
<1>4. /\ t \in Seq(W) /\ Len(t) = Len(s) + Len(o)
      /\ \A y \in 1..Len(s) : t[y] = s[y]
      /\ \A y \in 1..Len(o) : t[Len(s) + y] = o[y]
  <2>1. s \in Seq(W) /\ o \in Seq(W)
    BY <1>1, <1>2
  <2>2. s \o o \in Seq(W) /\ Len(s \o o) = Len(s) + Len(o)
    BY <2>1
  <2>3. \A y \in 1..Len(s) : (s \o o)[y] = s[y]
    BY <2>1
  <2>4. \A y \in 1..Len(o) : (s \o o)[Len(s) + y] = o[y]
    BY <2>1
  <2> QED
    BY <2>2, <2>3, <2>4
<1> HIDE DEF t
<1>5. Len(t) = Len(f) + 1 + 1 /\ t[1] = x /\ t[Len(f) + 1 + 1] = x
  <2>1. 1 \in 1..Len(s) /\ 1 \in 1..Len(o)
    BY <1>1, <1>3
  <2>2. Len(t) = Len(f) + 1 + 1
    BY <1>1, <1>3, <1>4
  <2>3. t[1] = x
    BY <1>3, <1>4, <2>1
  <2>4. t[Len(s) + 1] = x
    BY <1>1, <1>4, <2>1
  <2> QED
    BY <1>3, <2>2, <2>3, <2>4
<1>6. b \in Seq(W) /\ Len(b) = Len(t) + Len(f) /\ \A y \in 1..Len(t) : b[y] = t[y]
  <2>1. t \in Seq(W)
    BY <1>4
  <2>2. t \o f \in Seq(W) /\ Len(t \o f) = Len(t) + Len(f)
    BY <2>1
  <2>3. \A y \in 1..Len(t) : (t \o f)[y] = t[y]
    BY <2>1
  <2> QED
    BY <2>2, <2>3
<1> HIDE DEF b
<1>7. 1 \in 1..Len(t) /\ Len(f) + 1 + 1 \in 1..Len(t)
  BY <1>1, <1>5
<1> QED
  BY <1>5, <1>6, <1>7 DEF b, t, s, o

LEMMA FillFacts ==
  ASSUME NEW n \in Nat
  PROVE  Fill(n) \in Seq(BodyWord) /\ Len(Fill(n)) = n
BY DEF Fill, BodyWord, PlainWord

\* What the peers send is sound and has a body.
LEMMA IncomingIsSound ==
  ASSUME NEW b \in Incoming
  PROVE  Sound(b) /\ Len(b) # 1
<1>0. /\ MaxMantissa \in Nat /\ MaxMantissa > 0 /\ BlpBits \in Nat /\ Exponents \subseteq Nat
      /\ Peer \in SsrcWord /\ Peer \in BodyWord /\ Data \in BodyWord /\ [id |-> "REMB"] \in BodyWord
  <2>1. Peer \in SsrcWord
    BY DEF Peer, Ssrc, SsrcWord, Sources
  <2>2. Data \in PlainWord /\ [id |-> "REMB"] \in PlainWord
    BY DEF PlainWord
  <2> QED
    BY <2>1, <2>2, ConstantsAssumption DEF BodyWord
<1>1. CASE b = Message("SR", 1, <<Peer>> \o Fill(5) \o <<Peer>> \o Fill(5))
  <2> DEFINE body == <<Peer>> \o Fill(5) \o <<Peer>> \o Fill(5)
             h == [type |-> "SR", fmt |-> 1, length |-> Len(body)]
  <2>1. body \in Seq(BodyWord) /\ Len(body) = 12 /\ body[1] = Peer /\ body[7] = Peer
    <3> DEFINE f == Fill(5)
    <3>1. f \in Seq(BodyWord) /\ Len(f) = 5
      BY FillFacts
    <3> HIDE DEF f
    <3>2. LET whole == <<Peer>> \o f \o <<Peer>> \o f
          IN  /\ whole \in Seq(BodyWord) /\ Len(whole) = Len(f) + 1 + 1 + Len(f)
              /\ whole[1] = Peer /\ whole[Len(f) + 1 + 1] = Peer
      BY <1>0, <3>1, ReportBody
    <3>3. body = <<Peer>> \o f \o <<Peer>> \o f
      BY DEF f
    <3>4. Len(f) + 1 + 1 + Len(f) = 12 /\ Len(f) + 1 + 1 = 7
      BY <3>1
    <3> QED
      BY <3>2, <3>3, <3>4
  <2>2. SsrcPlaces(h) = {1, 7} /\ ~IsRemb(h)
    BY DEF SsrcPlaces, LocalWords, RemoteWords, IsRemb
  <2> HIDE DEF body, h
  <2>5. h = [type |-> "SR", fmt |-> 1, length |-> Len(body)]
    BY DEF h
  <2>6. \A k \in SsrcPlaces(h) : k \in 1..Len(body) /\ body[k] \in SsrcWord
    BY <1>0, <2>1, <2>2
  <2>7. /\ Sound(Message("SR", 1, body)) /\ Message("SR", 1, body)[1] = h
        /\ Len(Message("SR", 1, body)) = Len(body) + 1
        /\ \A k \in 1..Len(body) : Message("SR", 1, body)[k + 1] = body[k]
    <3>1. SoundBody(h, body)
      BY <2>5, <2>6, <2>1, <2>2 DEF SoundBody
    <3> QED
      BY <2>5, <3>1, MessageIsSound DEF Types
  <2> QED
    BY <1>1, <2>7, <2>1, <2>2 DEF body
<1>2. CASE b = Message("RR", 0, <<Peer>>)
  <2> DEFINE body == <<Peer>>
             h == [type |-> "RR", fmt |-> 0, length |-> Len(body)]
  <2>1. body \in Seq(BodyWord) /\ Len(body) = 1 /\ body[1] = Peer
    BY <1>0
  <2>2. SsrcPlaces(h) = {1} /\ ~IsRemb(h)
    BY DEF SsrcPlaces, LocalWords, RemoteWords, IsRemb
  <2> HIDE DEF body, h
  <2>5. h = [type |-> "RR", fmt |-> 0, length |-> Len(body)]
    BY DEF h
  <2>6. \A k \in SsrcPlaces(h) : k \in 1..Len(body) /\ body[k] \in SsrcWord
    BY <1>0, <2>1, <2>2
  <2>7. /\ Sound(Message("RR", 0, body)) /\ Message("RR", 0, body)[1] = h
        /\ Len(Message("RR", 0, body)) = Len(body) + 1
        /\ \A k \in 1..Len(body) : Message("RR", 0, body)[k + 1] = body[k]
    <3>1. SoundBody(h, body)
      BY <2>5, <2>6, <2>1, <2>2 DEF SoundBody
    <3> QED
      BY <2>5, <3>1, MessageIsSound DEF Types
  <2> QED
    BY <1>2, <2>7, <2>1, <2>2 DEF body
<1>3. CASE b = Message("SDES", 1, <<Peer>> \o Fill(2))
  <2> DEFINE body == <<Peer>> \o Fill(2)
             h == [type |-> "SDES", fmt |-> 1, length |-> Len(body)]
  <2>1. body \in Seq(BodyWord) /\ Len(body) = 3 /\ body[1] = Peer
    BY <1>0, FillFacts
  <2>2. SsrcPlaces(h) = {1} /\ ~IsRemb(h)
    BY DEF SsrcPlaces, LocalWords, RemoteWords, IsRemb
  <2> HIDE DEF body, h
  <2>5. h = [type |-> "SDES", fmt |-> 1, length |-> Len(body)]
    BY DEF h
  <2>6. \A k \in SsrcPlaces(h) : k \in 1..Len(body) /\ body[k] \in SsrcWord
    BY <1>0, <2>1, <2>2
  <2>7. /\ Sound(Message("SDES", 1, body)) /\ Message("SDES", 1, body)[1] = h
        /\ Len(Message("SDES", 1, body)) = Len(body) + 1
        /\ \A k \in 1..Len(body) : Message("SDES", 1, body)[k + 1] = body[k]
    <3>1. SoundBody(h, body)
      BY <2>5, <2>6, <2>1, <2>2 DEF SoundBody
    <3> QED
      BY <2>5, <3>1, MessageIsSound DEF Types
  <2> QED
    BY <1>3, <2>7, <2>1, <2>2 DEF body
<1>4. CASE b = Message("FIR", 4, <<Peer, Peer, Peer, Data>>)
  <2> DEFINE body == <<Peer, Peer, Peer, Data>>
             h == [type |-> "FIR", fmt |-> 4, length |-> Len(body)]
  <2>1. body \in Seq(BodyWord) /\ Len(body) = 4 /\ body[3] = Peer
    BY <1>0
  <2>2. SsrcPlaces(h) = {3} /\ ~IsRemb(h)
    BY <2>1 DEF SsrcPlaces, LocalWords, RemoteWords, IsRemb
  <2> HIDE DEF body, h
  <2>5. h = [type |-> "FIR", fmt |-> 4, length |-> Len(body)]
    BY DEF h
  <2>6. \A k \in SsrcPlaces(h) : k \in 1..Len(body) /\ body[k] \in SsrcWord
    BY <1>0, <2>1, <2>2
  <2>7. /\ Sound(Message("FIR", 4, body)) /\ Message("FIR", 4, body)[1] = h
        /\ Len(Message("FIR", 4, body)) = Len(body) + 1
        /\ \A k \in 1..Len(body) : Message("FIR", 4, body)[k + 1] = body[k]
    <3>1. SoundBody(h, body)
      BY <2>5, <2>6, <2>1, <2>2 DEF SoundBody
    <3> QED
      BY <2>5, <3>1, MessageIsSound DEF Types
  <2> QED
    BY <1>4, <2>7, <2>1, <2>2 DEF body
<1>5. CASE b = Message("PSFB", 1, <<Peer, Peer>>)
  <2> DEFINE body == <<Peer, Peer>>
             h == [type |-> "PSFB", fmt |-> 1, length |-> Len(body)]
  <2>1. body \in Seq(BodyWord) /\ Len(body) = 2 /\ body[1] = Peer /\ body[2] = Peer
    BY <1>0
  <2>2. SsrcPlaces(h) = {1, 2} /\ ~IsRemb(h)
    BY DEF SsrcPlaces, LocalWords, RemoteWords, IsRemb
  <2> HIDE DEF body, h
  <2>5. h = [type |-> "PSFB", fmt |-> 1, length |-> Len(body)]
    BY DEF h
  <2>6. \A k \in SsrcPlaces(h) : k \in 1..Len(body) /\ body[k] \in SsrcWord
    BY <1>0, <2>1, <2>2
  <2>7. /\ Sound(Message("PSFB", 1, body)) /\ Message("PSFB", 1, body)[1] = h
        /\ Len(Message("PSFB", 1, body)) = Len(body) + 1
        /\ \A k \in 1..Len(body) : Message("PSFB", 1, body)[k + 1] = body[k]
    <3>1. SoundBody(h, body)
      BY <2>5, <2>6, <2>1, <2>2 DEF SoundBody
    <3> QED
      BY <2>5, <3>1, MessageIsSound DEF Types
  <2> QED
    BY <1>5, <2>7, <2>1, <2>2 DEF body
<1>6. ASSUME NEW x \in NackWords, NEW y \in NackWords, b = Message("RTPFB", 1, <<Peer, Peer>> \o <<x, y>>)
      PROVE  Sound(b) /\ Len(b) # 1 /\ ~IsRemb(b[1])
  <2> DEFINE body == <<Peer, Peer>> \o <<x, y>>
             h == [type |-> "RTPFB", fmt |-> 1, length |-> Len(body)]
  <2>0. SeqModulus \div 2 \in Int
    BY ConstantsAssumption
  <2>1. x \in BodyWord /\ y \in BodyWord
    BY <1>0, <2>0 DEF NackWords, BodyWord, PlainWord
  <2>2. body \in Seq(BodyWord) /\ Len(body) = 4 /\ body[1] = Peer /\ body[2] = Peer
    BY <1>0, <2>1
  <2>3. SsrcPlaces(h) = {1, 2} /\ ~IsRemb(h)
    BY DEF SsrcPlaces, LocalWords, RemoteWords, IsRemb
  <2> HIDE DEF body, h
  <2>5. h = [type |-> "RTPFB", fmt |-> 1, length |-> Len(body)]
    BY DEF h
  <2>6. \A k \in SsrcPlaces(h) : k \in 1..Len(body) /\ body[k] \in SsrcWord
    BY <1>0, <2>2, <2>3
  <2>7. /\ Sound(Message("RTPFB", 1, body)) /\ Message("RTPFB", 1, body)[1] = h
        /\ Len(Message("RTPFB", 1, body)) = Len(body) + 1
        /\ \A k \in 1..Len(body) : Message("RTPFB", 1, body)[k + 1] = body[k]
    <3>1. SoundBody(h, body)
      BY <2>5, <2>6, <2>2, <2>3 DEF SoundBody
    <3> QED
      BY <2>5, <3>1, MessageIsSound DEF Types
  <2> QED
    BY <1>6, <2>7, <2>2, <2>3 DEF body
<1>7. ASSUME NEW e \in Exponents, NEW m \in {1, MaxMantissa},
             b = Message("PSFB", 15, <<Peer, Peer, [id |-> "REMB"], Rate(e, m), Peer>>)
      PROVE  Sound(b) /\ Len(b) # 1
  <2> DEFINE body == <<Peer, Peer, [id |-> "REMB"], Rate(e, m), Peer>>
             h == [type |-> "PSFB", fmt |-> 15, length |-> Len(body)]
  <2>1. Rate(e, m) \in RateWord
    BY <1>0 DEF Rate, RateWord
  <2>2. body \in Seq(BodyWord) /\ Len(body) = 5 /\ body[1] = Peer /\ body[5] = Peer
        /\ body[3] = [id |-> "REMB"] /\ body[4] = Rate(e, m)
    BY <1>0, <2>1 DEF BodyWord
  <2>3. SsrcPlaces(h) = {1, 5} /\ IsRemb(h)
    BY DEF SsrcPlaces, LocalWords, RemoteWords, IsRemb
  <2> HIDE DEF body, h
  <2>5. h = [type |-> "PSFB", fmt |-> 15, length |-> Len(body)]
    BY DEF h
  <2>6. \A k \in SsrcPlaces(h) : k \in 1..Len(body) /\ body[k] \in SsrcWord
    BY <1>0, <2>2, <2>3
  <2>7. /\ Sound(Message("PSFB", 15, body)) /\ Message("PSFB", 15, body)[1] = h
        /\ Len(Message("PSFB", 15, body)) = Len(body) + 1
        /\ \A k \in 1..Len(body) : Message("PSFB", 15, body)[k + 1] = body[k]
    <3>1. SoundBody(h, body)
      BY <2>5, <2>6, <2>2, <2>3, <2>1 DEF SoundBody
    <3> QED
      BY <2>5, <3>1, MessageIsSound DEF Types
  <2> QED
    BY <1>7, <2>7, <2>2, <2>3, <2>1 DEF body
<1>8. CASE b \in {Message("RTPFB", 1, <<Peer, Peer>> \o s) : s \in {<<x, y>> : x, y \in NackWords}}
  BY <1>6, <1>8
<1>9. CASE b \in {Message("PSFB", 15, <<Peer, Peer, [id |-> "REMB"], Rate(e, m), Peer>>) :
                   e \in Exponents, m \in {1, MaxMantissa}}
  <2> DEFINE remb(e, m) == Message("PSFB", 15, <<Peer, Peer, [id |-> "REMB"], Rate(e, m), Peer>>)
             M == {1, MaxMantissa}
  <2>1. b \in {remb(e, m) : e \in Exponents, m \in M}
    BY <1>9
  <2>2. \A e \in Exponents, m \in M : b = remb(e, m) => Sound(b) /\ Len(b) # 1
    BY <1>7
  <2> HIDE DEF remb, M
  <2> QED
    BY <2>1, <2>2
<1> QED
  BY <1>1, <1>2, <1>3, <1>4, <1>5, <1>8, <1>9 DEF Incoming

LEMMA ByeIsSound ==
  LET b == Message("BYE", 0, <<>>) IN Sound(b) /\ Len(b) = 1 /\ ~IsRemb(b[1])
<1> DEFINE body == <<>>
           h == [type |-> "BYE", fmt |-> 0, length |-> Len(body)]
<1>1. body \in Seq(BodyWord) /\ Len(body) = 0 /\ ~IsRemb(h)
  BY DEF IsRemb
<1> HIDE DEF body, h
<1>2. h = [type |-> "BYE", fmt |-> 0, length |-> Len(body)]
  BY DEF h
<1>3. Sound(Message("BYE", 0, body)) /\ Message("BYE", 0, body)[1] = h /\ Len(Message("BYE", 0, body)) = 1
  <2>1. SoundBody(h, body)
    BY <1>1, <1>2 DEF SoundBody
  <2>2. /\ Sound(Message("BYE", 0, body)) /\ Message("BYE", 0, body)[1] = h
        /\ Len(Message("BYE", 0, body)) = Len(body) + 1
    BY <1>2, <2>1, MessageIsSound DEF Types
  <2> QED
    BY <1>1, <2>2
<1> QED
  BY <1>1, <1>3 DEF body

-----------------------------------------------------------------------------
(***************************************************************************)
(* A packet that matches its messages: the words are theirs, but for SSRCs *)
(* and rates.                                                              *)
(***************************************************************************)
Same(v, w) == \/ v = w
              \/ v \in SsrcWord /\ w \in SsrcWord
              \/ v \in RateWord /\ w \in RateWord

Compound(bs) ==
  /\ bs \in Seq(Seq(Word)) /\ Len(bs) \in Nat
  /\ \A i \in 1..Len(bs) : Sound(bs[i]) /\ (i < Len(bs) => Len(bs[i]) # 1)

Matches(p, bs, off) ==
  /\ p \in Seq(Word) /\ Layout(p, bs, Len(bs), off)
  /\ \A i \in 1..Len(bs) : \A k \in 1..Len(bs[i]) : Same(p[off[i] + k], bs[i][k])

LEMMA AboveOne == \A n \in Nat : n > 0 /\ n # 1 => n > 1
OBVIOUS

LEMMA WordsAreWords == \A p \in Seq(Word) : Words(p)
<1> SUFFICES ASSUME NEW p \in Seq(Word), NEW o \in DOMAIN p, "length" \in DOMAIN p[o]
             PROVE  p[o].length \in Nat
  BY DEF Words
<1>1. p[o] \in Word
  OBVIOUS
<1>2. p[o] \in Header
  BY <1>1, WordKinds
<1> QED
  BY <1>2 DEF Header

\* Where a message of a compound packet lies.
LEMMA MessageFacts ==
  ASSUME NEW p, NEW bs, NEW off, Compound(bs), Matches(p, bs, off), NEW i \in 1..Len(bs)
  PROVE  /\ Len(bs) \in Nat /\ Len(p) \in Nat /\ i \in Nat
         /\ off[i] \in Nat /\ Len(bs[i]) \in Nat /\ Len(bs[i]) > 0
         /\ off[i + 1] = off[i] + Len(bs[i]) /\ off[i + 1] \in Nat /\ off[i + 1] <= Len(p)
         /\ p[off[i] + 1] = bs[i][1] /\ bs[i][1] \in Header /\ bs[i][1].length = Len(bs[i]) - 1
         /\ Len(bs[i]) = 1 => off[i + 1] = Len(p)
         /\ IsRemb(bs[i][1]) => Len(bs[i]) = 6 /\ p[off[i] + 4] = [id |-> "REMB"]
<1>1. Len(bs) \in Nat /\ Len(p) \in Nat /\ i \in Nat /\ i + 1 \in 1..(Len(bs) + 1) /\ i \in 1..(Len(bs) + 1)
  BY DEF Compound, Matches
<1>2. Sound(bs[i]) /\ Layout(p, bs, Len(bs), off)
  BY DEF Compound, Matches
<1>3. /\ off[i] \in Nat /\ Len(bs[i]) \in Nat /\ off[i + 1] = off[i] + Len(bs[i]) /\ off[i + 1] \in Nat
      /\ off[Len(bs) + 1] = Len(p)
  BY <1>1, <1>2 DEF Layout
<1>4. off[i + 1] <= Len(p)
  <2>1. Len(bs) + 1 \in 1..(Len(bs) + 1) /\ i + 1 <= Len(bs) + 1
    BY <1>1
  <2> QED
    BY <1>1, <1>2, <1>3, <2>1, OffsetsGrow
<1>5. Len(bs[i]) > 0 /\ bs[i][1] \in Header /\ bs[i][1].length = Len(bs[i]) - 1
  BY <1>2 DEF Sound
<1>6. p[off[i] + 1] = bs[i][1]
  <2>1. 1 \in 1..Len(bs[i])
    BY <1>3, <1>5
  <2>2. Same(p[off[i] + 1], bs[i][1])
    BY <2>1 DEF Matches
  <2>3. bs[i][1] \notin SsrcWord /\ bs[i][1] \notin RateWord
    BY <1>5, WordKinds DEF Word, BodyWord
  <2> QED
    BY <2>2, <2>3 DEF Same
<1>7. Len(bs[i]) = 1 => off[i + 1] = Len(p)
  <2> SUFFICES ASSUME Len(bs[i]) = 1 PROVE i = Len(bs)
    BY <1>3
  <2>1. ~(i < Len(bs))
    BY DEF Compound
  <2> QED
    BY <1>1, <2>1
<1>8. ASSUME IsRemb(bs[i][1]) PROVE Len(bs[i]) = 6 /\ p[off[i] + 4] = [id |-> "REMB"]
  <2>1. Len(bs[i]) = 6 /\ bs[i][4] = [id |-> "REMB"]
    BY <1>2, <1>8 DEF Sound
  <2>2. Same(p[off[i] + 4], bs[i][4])
    <3>1. 4 \in 1..Len(bs[i])
      BY <2>1
    <3> QED
      BY <3>1 DEF Matches
  <2>3. bs[i][4] \notin SsrcWord /\ bs[i][4] \notin RateWord
    <3>1. [id |-> "REMB"] \in Word
      BY DEF Word, BodyWord, PlainWord
    <3> QED
      BY <2>1, <3>1, WordKinds
  <2> QED
    BY <2>1, <2>2, <2>3 DEF Same
<1> QED
  BY <1>1, <1>3, <1>4, <1>5, <1>6, <1>7, <1>8

\* Each word of a packet is a word of one message.
LEMMA CellUnique ==
  ASSUME NEW p, NEW bs, NEW n, NEW off, Layout(p, bs, n, off),
         NEW i \in 1..n, NEW j \in 1..n, NEW k \in 1..Len(bs[i]), NEW l \in 1..Len(bs[j]),
         off[i] + k = off[j] + l
  PROVE  i = j /\ k = l
<1>0. /\ n \in Nat
      /\ \A x \in 1..n : off[x] \in Nat /\ Len(bs[x]) \in Nat /\ off[x + 1] = off[x] + Len(bs[x])
  <2>1. n \in Nat /\ \A x \in 1..n : x \in 1..(n + 1)
    BY DEF Layout
  <2> QED
    BY <2>1 DEF Layout
<1>1. ASSUME NEW x \in 1..n, NEW y \in 1..n, x < y PROVE off[x] + Len(bs[x]) <= off[y]
  <2>1. x + 1 \in 1..(n + 1) /\ y \in 1..(n + 1) /\ x + 1 <= y
    BY <1>0, <1>1
  <2>2. off[x + 1] <= off[y]
    BY <2>1, OffsetsGrow
  <2> QED
    BY <1>0, <2>2
<1>2. /\ off[i] \in Nat /\ off[j] \in Nat /\ Len(bs[i]) \in Nat /\ Len(bs[j]) \in Nat
      /\ i \in Nat /\ j \in Nat /\ k \in Nat /\ l \in Nat
      /\ k >= 1 /\ l >= 1 /\ k <= Len(bs[i]) /\ l <= Len(bs[j])
  BY <1>0
<1>3. ~(i < j)
  <2> SUFFICES ASSUME i < j PROVE FALSE
    OBVIOUS
  <2>1. off[i] + Len(bs[i]) <= off[j]
    BY <1>1
  <2> QED
    BY <1>2, <2>1
<1>4. ~(j < i)
  <2> SUFFICES ASSUME j < i PROVE FALSE
    OBVIOUS
  <2>1. off[j] + Len(bs[j]) <= off[i]
    BY <1>1
  <2> QED
    BY <1>2, <2>1
<1>5. i = j
  BY <1>2, <1>3, <1>4
<1> QED
  BY <1>2, <1>5

LEMMA WalkOfCompound ==
  ASSUME NEW p, NEW bs, NEW off, Compound(bs), Matches(p, bs, off)
  PROVE  Walk(p) = {off[i] + 1 : i \in 1..Len(bs)}
<1>1. Len(bs) \in Nat /\ p \in Seq(Word) /\ Layout(p, bs, Len(bs), off)
  BY DEF Compound, Matches
<1>2. CASE Len(bs) = 0
  <2>1. Len(p) = 0
    BY <1>1, <1>2 DEF Layout
  <2>2. p = <<>> /\ 1..Len(bs) = {}
    BY <1>1, <1>2, <2>1
  <2>3. Walk(p) = {}
    BY <2>2 DEF Walk
  <2> QED
    BY <2>2, <2>3
<1>3. CASE Len(bs) > 0
  <2>1. Words(p)
    BY <1>1, WordsAreWords
  <2>2. ASSUME NEW i \in 1..Len(bs)
        PROVE  /\ Len(bs[i]) > 0
               /\ "length" \in DOMAIN p[off[i] + 1]
               /\ p[off[i] + 1].length = Len(bs[i]) - 1
               /\ i < Len(bs) => Len(bs[i]) # 1
    <3>1. p[off[i] + 1] \in Header /\ p[off[i] + 1].length = Len(bs[i]) - 1 /\ Len(bs[i]) > 0
      BY MessageFacts
    <3> QED
      BY <3>1 DEF Compound, Header
  <2> QED
    BY <1>1, <1>3, <2>1, <2>2, WalkFindsHeaders
<1> QED
  BY <1>1, <1>2, <1>3


LEMMA RatesOfCompound ==
  ASSUME NEW p, NEW bs, NEW off, Compound(bs), Matches(p, bs, off)
  PROVE  /\ RembRates(p) = {off[i] + 5 : i \in {j \in 1..Len(bs) : IsRemb(bs[j][1])}}
         /\ \A o \in Walk(p) : o + 4 \in RembRates(p) <=> IsRemb(p[o])
<1> DEFINE R == {o \in Walk(p) : p[o].type = "PSFB" /\ p[o].fmt = 15 /\ p[o + 3] = [id |-> "REMB"]}
           N == 1..Len(bs)
<1>1. Walk(p) = {off[i] + 1 : i \in N}
  BY WalkOfCompound
<1>2. \A i \in N : off[i] \in Nat /\ p[off[i] + 1] = bs[i][1]
                   /\ (IsRemb(bs[i][1]) => p[off[i] + 4] = [id |-> "REMB"])
  BY MessageFacts
<1>3. \A i \in N : off[i] + 1 \in R <=> IsRemb(bs[i][1])
  <2> SUFFICES ASSUME NEW i \in N PROVE off[i] + 1 \in R <=> IsRemb(bs[i][1])
    OBVIOUS
  <2>1. off[i] + 1 \in Walk(p) /\ (off[i] + 1) + 3 = off[i] + 4
    BY <1>1, <1>2
  <2> QED
    BY <1>2, <2>1 DEF IsRemb
<1>4. RembRates(p) = {o + 4 : o \in R}
  BY DEF RembRates
<1>5. Walk(p) \subseteq Nat /\ R \subseteq Walk(p)
  BY <1>1, <1>2
<1> HIDE DEF R
<1>6. RembRates(p) = {off[i] + 5 : i \in {j \in N : IsRemb(bs[j][1])}}
  <2>1. ASSUME NEW x \in RembRates(p) PROVE \E i \in {j \in N : IsRemb(bs[j][1])} : x = off[i] + 5
    <3>1. PICK o \in R : x = o + 4
      BY <1>4
    <3>2. PICK i \in N : o = off[i] + 1
      BY <1>1, <1>5
    <3>3. IsRemb(bs[i][1]) /\ x = off[i] + 5
      BY <1>2, <1>3, <3>1, <3>2
    <3> QED
      BY <3>3
  <2>2. ASSUME NEW i \in N, IsRemb(bs[i][1]) PROVE off[i] + 5 \in RembRates(p)
    <3>1. off[i] + 1 \in R /\ (off[i] + 1) + 4 = off[i] + 5
      BY <1>2, <1>3, <2>2
    <3> QED
      BY <1>4, <3>1
  <2> QED
    BY <2>1, <2>2
<1>7. ASSUME NEW o \in Walk(p) PROVE o + 4 \in RembRates(p) <=> IsRemb(p[o])
  <2>1. o + 4 \in RembRates(p) <=> o \in R
    BY <1>4, <1>5
  <2>2. PICK i \in N : o = off[i] + 1
    BY <1>1
  <2> QED
    BY <1>2, <1>3, <2>1, <2>2
<1> QED
  BY <1>6, <1>7

\* The words past a header that the gateway may rewrite are SSRCs, or past the
\* packet's end.
LEMMA PlacesOfCompound ==
  ASSUME NEW p, NEW bs, NEW off, Compound(bs), Matches(p, bs, off), NEW i \in 1..Len(bs),
         NEW k \in SsrcPlaces(bs[i][1]), off[i] + 1 + k \in DOMAIN p
  PROVE  /\ k \in Nat /\ k + 1 \in 2..Len(bs[i]) /\ bs[i][k + 1] \in SsrcWord
         /\ Len(bs[i]) > 1 /\ off[i] + 1 + k = off[i] + (k + 1)
<1>1. k \in Nat /\ k >= 1
  BY DEF SsrcPlaces, LocalWords, RemoteWords
<1>2. /\ off[i] \in Nat /\ Len(bs[i]) \in Nat /\ off[i + 1] = off[i] + Len(bs[i]) /\ Len(p) \in Nat
      /\ Len(bs[i]) = 1 => off[i + 1] = Len(p)
      /\ Len(bs[i]) > 0
  BY MessageFacts
<1>3. off[i] + 1 + k <= Len(p)
  BY DEF Matches
<1>4. Len(bs[i]) # 1
  <2> SUFFICES ASSUME Len(bs[i]) = 1 PROVE FALSE
    OBVIOUS
  <2>1. Len(p) = off[i] + 1
    BY <1>2
  <2> QED
    BY <1>1, <1>2, <1>3, <2>1
<1>5. Len(bs[i]) > 1
  BY <1>2, <1>4, AboveOne, Zenon
<1>6. k + 1 \in 2..Len(bs[i]) /\ bs[i][k + 1] \in SsrcWord
  <2>1. Sound(bs[i])
    BY DEF Compound
  <2> QED
    BY <1>5, <2>1 DEF Sound
<1>7. off[i] + 1 + k = off[i] + (k + 1)
  <2>1. off[i] \in Nat
    BY <1>2
  <2> QED
    BY <1>1, <2>1, SMTT(40)
<1> QED
  BY <1>1, <1>5, <1>6, <1>7


-----------------------------------------------------------------------------
(***************************************************************************)
(* What a packet that matches its messages says of them.                   *)
(***************************************************************************)
LEMMA MaskedSame ==
  ASSUME NEW p \in Seq(Word), NEW q \in Seq(Word), Len(p) = Len(q),
         \A x \in 1..Len(p) : Same(p[x], q[x])
  PROVE  Masked(p) = Masked(q)
<1> DEFINE M(w) == IF "ssrc" \in DOMAIN w THEN Ssrc("any") ELSE IF "exp" \in DOMAIN w THEN Rate(0, 0) ELSE w
<1>1. ASSUME NEW x \in 1..Len(p) PROVE M(p[x]) = M(q[x])
  <2>1. p[x] \in Word /\ q[x] \in Word /\ Same(p[x], q[x])
    OBVIOUS
  <2> QED
    BY <2>1, WordKinds DEF Same
<1>2. DOMAIN p = 1..Len(p) /\ DOMAIN q = 1..Len(p)
  OBVIOUS
<1> QED
  BY <1>1, <1>2 DEF Masked

\* A packet of words that matches its messages lies as they do.
LEMMA FlattenOfCompound ==
  ASSUME NEW p, NEW bs, NEW off, Compound(bs), Matches(p, bs, off)
  PROVE  /\ FlattenSeq(bs) \in Seq(Word) /\ Len(FlattenSeq(bs)) = Len(p)
         /\ \A i \in 1..Len(bs) : \A k \in 1..Len(bs[i]) : FlattenSeq(bs)[off[i] + k] = bs[i][k]
<1>1. Len(bs) \in Nat /\ bs \in Seq(Seq(Word)) /\ p \in Seq(Word) /\ Layout(p, bs, Len(bs), off)
  BY DEF Compound, Matches
<1>2. CASE Len(bs) = 0
  <2>1. bs = <<>>
    BY <1>1, <1>2
  <2>2. FlattenSeq(bs) = <<>>
    BY <2>1 DEF FlattenSeq
  <2>3. Len(p) = 0
    BY <1>1, <1>2 DEF Layout
  <2> QED
    BY <1>2, <2>2, <2>3
<1>3. CASE Len(bs) > 0
  <2>1. \A i \in 1..Len(bs) : bs[i] \in Seq(Word)
    BY DEF Compound, Sound
  <2>2. PICK pos : FlattenSeq(bs) \in Seq(Word) /\ Covers(FlattenSeq(bs), bs, Len(bs), pos)
    BY <1>1, <1>3, <2>1, CoverFlatten
  <2>3. Len(FlattenSeq(bs)) = Len(p) /\ \A i \in 1..(Len(bs) + 1) : off[i] = pos[i]
    BY <1>1, <2>2, LayoutUnique DEF Covers
  <2>4. \A i \in 1..Len(bs) : i \in 1..(Len(bs) + 1)
    BY <1>1
  <2> HIDE DEF Covers
  <2> QED
    BY <2>2, <2>3, <2>4 DEF Covers
<1>4. Len(bs) = 0 \/ Len(bs) > 0
  BY <1>1
<1> QED
  BY <1>2, <1>3, <1>4, Zenon

LEMMA MatchesIsBlocks ==
  ASSUME NEW p, NEW bs, NEW off, Compound(bs), Matches(p, bs, off)
  PROVE  Masked(p) = Masked(FlattenSeq(bs))
<1> DEFINE q == FlattenSeq(bs)
<1>1. /\ q \in Seq(Word) /\ Len(q) = Len(p) /\ p \in Seq(Word) /\ Layout(p, bs, Len(bs), off)
      /\ \A i \in 1..Len(bs) : \A k \in 1..Len(bs[i]) : q[off[i] + k] = bs[i][k]
  BY FlattenOfCompound DEF Matches
<1> HIDE DEF q
<1>2. ASSUME NEW x \in 1..Len(p) PROVE Same(p[x], q[x])
  <2>1. PICK i \in 1..Len(bs) : x - off[i] \in 1..Len(bs[i])
    BY <1>1, Cells
  <2> DEFINE k == x - off[i]
  <2>2. off[i] \in Nat /\ off[i] + k = x
    BY MessageFacts
  <2>3. Same(p[off[i] + k], bs[i][k]) /\ q[off[i] + k] = bs[i][k]
    BY <1>1, <2>1 DEF Matches
  <2> HIDE DEF k
  <2> QED
    BY <2>2, <2>3
<1>3. Masked(p) = Masked(q)
  BY <1>1, <1>2, MaskedSame
<1> QED
  BY <1>3 DEF q

\* The words that fix_ssrc has written, in the messages that have them.
FixedIn(p, bs, off, l, r) ==
  \A i \in 1..Len(bs) : Len(bs[i]) > 1 =>
    /\ l # "none" => \A k \in LocalWords(bs[i][1]) : p[off[i] + 1 + k] = Ssrc(l)
    /\ r # "none" => \A k \in RemoteWords(bs[i][1], IsRemb(bs[i][1])) : p[off[i] + 1 + k] = Ssrc(r)

LEMMA MinOfNumbers ==
  ASSUME NEW S \in SUBSET Nat, S # {}
  PROVE  Min(S) \in S /\ \A x \in S : Min(S) <= x
<1>1. \E x \in S : \A y \in S : x <= y
  BY LeastNumber
<1> QED
  BY <1>1 DEF Min

LEMMA FixedInFinds ==
  ASSUME NEW p, NEW bs, NEW off, Compound(bs), Matches(p, bs, off),
         NEW l, NEW r, FixedIn(p, bs, off, l, r)
  PROVE  /\ l # "none" => GetSenderSsrc(p) \in {"none", l}
         /\ r # "none" => GetReceiverSsrc(p) \in {"none", r}
<1>1. Walk(p) = {off[i] + 1 : i \in 1..Len(bs)}
  BY WalkOfCompound
<1>2. ASSUME NEW i \in 1..Len(bs)
      PROVE  /\ off[i] \in Nat /\ p[off[i] + 1] = bs[i][1]
             /\ bs[i][1].type # "BYE" => Len(bs[i]) > 1
  <2>1. Sound(bs[i])
    BY DEF Compound
  <2>2. Len(bs[i]) = 1 => bs[i][1].type = "BYE"
    BY <2>1 DEF Sound
  <2>3. Len(bs[i]) \in Nat /\ Len(bs[i]) > 0 /\ off[i] \in Nat /\ p[off[i] + 1] = bs[i][1]
    BY MessageFacts
  <2>4. Len(bs[i]) # 1 => Len(bs[i]) > 1
    BY <2>3, AboveOne, Zenon
  <2> QED
    BY <2>2, <2>3, <2>4, Zenon
<1>3. ASSUME l # "none" PROVE GetSenderSsrc(p) \in {"none", l}
  <2> DEFINE S == {o + 1 : o \in {n \in Walk(p) : p[n].type \in {"SR", "RR", "RTPFB", "PSFB"}}}
  <2>1. ASSUME NEW x \in S PROVE x \in Nat /\ p[x] = Ssrc(l)
    <3>1. PICK i \in 1..Len(bs) : x = off[i] + 1 + 1 /\ bs[i][1].type \in {"SR", "RR", "RTPFB", "PSFB"}
      BY <1>1, <1>2
    <3>2. 1 \in LocalWords(bs[i][1]) /\ Len(bs[i]) > 1
      BY <1>2, <3>1 DEF LocalWords
    <3> QED
      BY <1>2, <1>3, <3>1, <3>2 DEF FixedIn
  <2>2. GetSenderSsrc(p) = IF S = {} THEN "none" ELSE p[Min(S)].ssrc
    BY DEF GetSenderSsrc, FirstOf
  <2> HIDE DEF S
  <2>3. S # {} => Min(S) \in S
    BY <2>1, MinOfNumbers
  <2> QED
    BY <2>1, <2>2, <2>3 DEF Ssrc
<1>4. ASSUME r # "none" PROVE GetReceiverSsrc(p) \in {"none", r}
  <2> DEFINE S == {o + (IF p[o].type = "SR" THEN 7 ELSE 2) :
                     o \in {n \in Walk(p) : p[n].type \in {"SR", "RR"} /\ p[n].fmt > 0}}
  <2>1. ASSUME NEW x \in S PROVE x \in Nat /\ p[x] = Ssrc(r)
    <3>1. PICK i \in 1..Len(bs) : /\ x = off[i] + 1 + (IF bs[i][1].type = "SR" THEN 7 ELSE 2)
                                  /\ bs[i][1].type \in {"SR", "RR"} /\ bs[i][1].fmt > 0
      BY <1>1, <1>2
    <3> DEFINE k == IF bs[i][1].type = "SR" THEN 7 ELSE 2
    <3>2. k \in RemoteWords(bs[i][1], IsRemb(bs[i][1])) /\ Len(bs[i]) > 1
      BY <1>2, <3>1 DEF RemoteWords
    <3>3. k \in Nat /\ x = off[i] + 1 + k
      BY <3>1
    <3> HIDE DEF k
    <3> QED
      BY <1>2, <1>4, <3>2, <3>3 DEF FixedIn
  <2>2. GetReceiverSsrc(p) = IF S = {} THEN "none" ELSE p[Min(S)].ssrc
    BY DEF GetReceiverSsrc, FirstOf
  <2> HIDE DEF S
  <2>3. S # {} => Min(S) \in S
    BY <2>1, MinOfNumbers
  <2> QED
    BY <2>1, <2>2, <2>3 DEF Ssrc
<1> QED
  BY <1>3, <1>4


-----------------------------------------------------------------------------
(***************************************************************************)
(* What is written in place.                                               *)
(***************************************************************************)
\* A packet one of whose words was replaced by others of their kind.
LEMMA MatchesStill ==
  ASSUME NEW p, NEW bs, NEW off, Compound(bs), Matches(p, bs, off),
         NEW q \in [DOMAIN p -> Word], \A x \in DOMAIN p : Same(q[x], p[x])
  PROVE  Matches(q, bs, off)
<1>1. p \in Seq(Word) /\ Len(p) \in Nat /\ DOMAIN p = 1..Len(p) /\ Layout(p, bs, Len(bs), off)
  BY DEF Matches
<1>2. q \in Seq(Word) /\ Len(q) = Len(p)
  BY <1>1
<1>3. Layout(q, bs, Len(bs), off)
  BY <1>1, <1>2 DEF Layout
<1>4. ASSUME NEW i \in 1..Len(bs), NEW k \in 1..Len(bs[i]) PROVE Same(q[off[i] + k], bs[i][k])
  <2>1. off[i] + k \in DOMAIN p
    BY <1>1, Cells
  <2>2. Same(q[off[i] + k], p[off[i] + k]) /\ Same(p[off[i] + k], bs[i][k])
    BY <2>1 DEF Matches
  <2>3. q[off[i] + k] \in Word /\ p[off[i] + k] \in Word
    BY <1>1, <2>1
  <2>4. \A w \in Word : w \in SsrcWord => w \notin RateWord
    BY WordKinds
  <2> QED
    BY <2>2, <2>3, <2>4 DEF Same
<1> QED
  BY <1>2, <1>3, <1>4 DEF Matches

LEMMA PlaceInPacket ==
  ASSUME NEW p, NEW bs, NEW off, Compound(bs), Matches(p, bs, off), NEW i \in 1..Len(bs),
         Len(bs[i]) > 1, NEW k \in SsrcPlaces(bs[i][1])
  PROVE  k + 1 \in 1..Len(bs[i]) /\ off[i] + 1 + k = off[i] + (k + 1) /\ off[i] + 1 + k \in DOMAIN p
<1>1. k \in Nat
  BY DEF SsrcPlaces, LocalWords, RemoteWords
<1>2. Sound(bs[i])
  BY DEF Compound
<1>3. k + 1 \in 2..Len(bs[i])
  BY <1>2 DEF Sound
<1>4. off[i] + 1 + k = off[i] + (k + 1) /\ k + 1 \in 1..Len(bs[i])
  <2>1. off[i] \in Nat
    BY MessageFacts
  <2>2. off[i] + 1 + k = off[i] + (k + 1)
    BY <1>1, <2>1
  <2>3. k + 1 \in 1..Len(bs[i])
    BY <1>3
  <2> QED
    BY <2>2, <2>3
<1>5. off[i] + (k + 1) \in 1..Len(p)
  BY <1>4, Cells DEF Matches
<1>6. DOMAIN p = 1..Len(p)
  BY DEF Matches
<1> QED
  BY <1>4, <1>5, <1>6

LEMMA FixSsrcFixes ==
  ASSUME NEW p, NEW bs, NEW off, Compound(bs), Matches(p, bs, off),
         NEW l \in {"none", "local"}, NEW r \in {"none", "remote"}
  PROVE  /\ Matches(FixSsrc(p, l, r), bs, off)
         /\ FixedIn(FixSsrc(p, l, r), bs, off, l, r)
         /\ \A x \in DOMAIN p : p[x] \notin SsrcWord => FixSsrc(p, l, r)[x] = p[x]
<1> DEFINE N == 1..Len(bs)
           L == UNION {{o + k : k \in LocalWords(p[o])} : o \in Walk(p)}
           R == UNION {{o + k : k \in RemoteWords(p[o], o + 4 \in RembRates(p))} : o \in Walk(p)}
           q == FixSsrc(p, l, r)
           loc(i) == LocalWords(bs[i][1])
           rem(i) == RemoteWords(bs[i][1], IsRemb(bs[i][1]))
<1>1. Walk(p) = {off[i] + 1 : i \in N}
  BY WalkOfCompound
<1>2. \A i \in N : off[i] \in Nat /\ p[off[i] + 1] = bs[i][1]
  BY MessageFacts
<1>3. ASSUME NEW i \in N PROVE (off[i] + 1) + 4 \in RembRates(p) <=> IsRemb(bs[i][1])
  <2>1. off[i] + 1 \in Walk(p)
    BY <1>1
  <2> QED
    BY <1>2, <2>1, RatesOfCompound
<1>4. L = UNION {{off[i] + 1 + k : k \in loc(i)} : i \in N}
  <2>1. \A i \in N : LocalWords(p[off[i] + 1]) = loc(i)
    BY <1>2
  <2> QED
    BY <1>1, <2>1
<1>5. R = UNION {{off[i] + 1 + k : k \in rem(i)} : i \in N}
  <2>1. \A i \in N : RemoteWords(p[off[i] + 1], (off[i] + 1) + 4 \in RembRates(p)) = rem(i)
    <3> SUFFICES ASSUME NEW i \in N
                 PROVE  RemoteWords(p[off[i] + 1], (off[i] + 1) + 4 \in RembRates(p)) = rem(i)
      OBVIOUS
    <3>1. p[off[i] + 1] = bs[i][1] /\ ((off[i] + 1) + 4 \in RembRates(p) <=> IsRemb(bs[i][1]))
      BY <1>2, <1>3
    <3> HIDE DEF N
    <3> QED
      BY <3>1 DEF RemoteWords
  <2> QED
    BY <1>1, <2>1
<1>6. q = [x \in DOMAIN p |-> IF l # "none" /\ x \in L THEN Ssrc(l)
                              ELSE IF r # "none" /\ x \in R THEN Ssrc(r) ELSE p[x]]
  BY DEF FixSsrc
<1> HIDE DEF q, L, R
<1>7. /\ p \in Seq(Word) /\ DOMAIN p = 1..Len(p) /\ Len(p) \in Nat /\ Layout(p, bs, Len(bs), off)
  BY DEF Matches
<1>8. Ssrc(l) \in SsrcWord /\ Ssrc(r) \in SsrcWord
  BY DEF Ssrc, SsrcWord, Sources
<1>9. ASSUME NEW x \in DOMAIN p, x \in L \cup R PROVE p[x] \in SsrcWord
  <2>0. PICK i \in N : \E k \in SsrcPlaces(bs[i][1]) : x = off[i] + 1 + k
    BY <1>4, <1>5, <1>9 DEF SsrcPlaces
  <2>1. PICK k \in SsrcPlaces(bs[i][1]) : x = off[i] + 1 + k
    BY <2>0
  <2>2. k + 1 \in 1..Len(bs[i]) /\ bs[i][k + 1] \in SsrcWord /\ x = off[i] + (k + 1)
    BY <2>1, PlacesOfCompound
  <2>3. Same(p[x], bs[i][k + 1])
    BY <2>2 DEF Matches
  <2>4. bs[i][k + 1] \notin RateWord
    BY <2>2, WordKinds DEF Word, BodyWord
  <2> QED
    BY <2>2, <2>3, <2>4 DEF Same
<1>10. ASSUME NEW x \in DOMAIN p
       PROVE  q[x] \in Word /\ Same(q[x], p[x]) /\ (p[x] \notin SsrcWord => q[x] = p[x])
  <2>1. p[x] \in Word
    BY <1>7
  <2>2. Ssrc(l) \in Word /\ Ssrc(r) \in Word
    BY <1>8 DEF Word, BodyWord
  <2>3. q[x] = IF l # "none" /\ x \in L THEN Ssrc(l) ELSE IF r # "none" /\ x \in R THEN Ssrc(r) ELSE p[x]
    BY <1>6
  <2> QED
    BY <1>8, <1>9, <2>1, <2>2, <2>3 DEF Same
<1>11. Matches(q, bs, off)
  <2>1. q \in [DOMAIN p -> Word]
    BY <1>6, <1>10
  <2> QED
    BY <1>10, <2>1, MatchesStill
<1>12. FixedIn(q, bs, off, l, r)
  <2> SUFFICES ASSUME NEW i \in N, Len(bs[i]) > 1
               PROVE  /\ l # "none" => \A k \in loc(i) : q[off[i] + 1 + k] = Ssrc(l)
                      /\ r # "none" => \A k \in rem(i) : q[off[i] + 1 + k] = Ssrc(r)
    BY DEF FixedIn
  <2>1. ASSUME NEW k \in SsrcPlaces(bs[i][1])
        PROVE  k + 1 \in 1..Len(bs[i]) /\ off[i] + 1 + k = off[i] + (k + 1) /\ off[i] + 1 + k \in DOMAIN p
    BY PlaceInPacket
  <2>2. ASSUME l # "none", NEW k \in loc(i) PROVE q[off[i] + 1 + k] = Ssrc(l)
    <3>1. off[i] + 1 + k \in DOMAIN p /\ off[i] + 1 + k \in L
      BY <1>4, <2>1 DEF SsrcPlaces
    <3> QED
      BY <1>6, <2>2, <3>1
  <2>3. ASSUME r # "none", NEW k \in rem(i) PROVE q[off[i] + 1 + k] = Ssrc(r)
    <3> DEFINE x == off[i] + 1 + k
    <3>1. /\ x \in DOMAIN p /\ x \in R
          /\ x = off[i] + (k + 1) /\ k + 1 \in 1..Len(bs[i])
      BY <1>5, <2>1 DEF SsrcPlaces
    <3>2. k # 1 /\ k \in Nat
      BY DEF RemoteWords
    <3>3. x \notin L
      <4> SUFFICES ASSUME x \in L PROVE FALSE
        OBVIOUS
      <4>0. PICK j \in N : \E m \in loc(j) : x = off[j] + 1 + m
        BY <1>4
      <4>1. PICK m \in loc(j) : x = off[j] + 1 + m
        BY <4>0
      <4>2. m = 1 /\ m \in SsrcPlaces(bs[j][1])
        BY DEF LocalWords, SsrcPlaces
      <4>3. m + 1 \in 1..Len(bs[j]) /\ x = off[j] + (m + 1)
        BY <3>1, <4>1, <4>2, PlacesOfCompound
      <4>4. k + 1 = m + 1
        BY <1>7, <3>1, <4>3, CellUnique
      <4> QED
        BY <3>2, <4>2, <4>4
    <3> QED
      BY <1>6, <2>3, <3>1, <3>3
  <2> QED
    BY <2>2, <2>3
<1> QED
  BY <1>10, <1>11, <1>12 DEF q


\* Changes to other words than SSRCs leave the fixed ones.
LEMMA FixedInStill ==
  ASSUME NEW p, NEW bs, NEW off, Compound(bs), Matches(p, bs, off),
         NEW l \in Sources, NEW r \in Sources, FixedIn(p, bs, off, l, r),
         NEW q, \A x \in DOMAIN p : p[x] \notin RateWord => q[x] = p[x]
  PROVE  FixedIn(q, bs, off, l, r)
<1>1. ASSUME NEW i \in 1..Len(bs), Len(bs[i]) > 1, NEW k \in SsrcPlaces(bs[i][1]), NEW s \in Sources,
             p[off[i] + 1 + k] = Ssrc(s)
      PROVE  q[off[i] + 1 + k] = Ssrc(s)
  <2>1. off[i] + 1 + k \in DOMAIN p
    BY <1>1, PlaceInPacket
  <2>2. Ssrc(s) \in SsrcWord /\ Ssrc(s) \in Word
    BY DEF Ssrc, SsrcWord, Word, BodyWord
  <2>3. Ssrc(s) \notin RateWord
    BY <2>2, WordKinds
  <2> QED
    BY <1>1, <2>1, <2>3
<1> SUFFICES ASSUME NEW i \in 1..Len(bs), Len(bs[i]) > 1
             PROVE  /\ l # "none" => \A k \in LocalWords(bs[i][1]) : q[off[i] + 1 + k] = Ssrc(l)
                    /\ r # "none" => \A k \in RemoteWords(bs[i][1], IsRemb(bs[i][1])) :
                                       q[off[i] + 1 + k] = Ssrc(r)
  BY DEF FixedIn
<1>2. ASSUME l # "none", NEW k \in LocalWords(bs[i][1]) PROVE q[off[i] + 1 + k] = Ssrc(l)
  BY <1>1, <1>2 DEF FixedIn, SsrcPlaces
<1>3. ASSUME r # "none", NEW k \in RemoteWords(bs[i][1], IsRemb(bs[i][1])) PROVE q[off[i] + 1 + k] = Ssrc(r)
  BY <1>1, <1>3 DEF FixedIn, SsrcPlaces
<1> QED
  BY <1>2, <1>3

\* The rates are those the messages came with.
RatesAsked(p, bs, off) ==
  \A i \in 1..Len(bs) : IsRemb(bs[i][1]) => p[off[i] + 5] = bs[i][5]

Honest(asked, given, b) ==
  IF asked <= b THEN given = asked
  ELSE \/ given <= b /\ (b - given) * (MaxMantissa \div 2) <= b
       \/ asked >= WordModulus /\ given = asked

Capped(p, bs, b) ==
  b > 0 => /\ GetRemb(p) <= b
           /\ \A i \in RembRates(p) : Honest(Value(FlattenSeq(bs)[i]), Value(p[i]), b)

\* The overflow only ever makes a rate smaller, and spares what the integer
\* holds.
LEMMA DecodeBounds ==
  ASSUME NEW w \in RateWord
  PROVE  /\ Value(w) \in Nat /\ Decode(w) \in 0..Value(w)
         /\ Value(w) < WordModulus => Decode(w) = Value(w)
<1> DEFINE e == w.exp
           m == w.mantissa
           shift == IF LongShift = "low bits" THEN e % WordBits ELSE e
           large == Bit[e]
           small == Bit[shift]
           modulus == WordModulus
<1>1. e \in Nat /\ m \in Nat /\ WordBits \in Nat /\ WordBits > 0
  BY ConstantsAssumption DEF RateWord
<1>2. Decode(w) = IF shift < WordBits THEN (m * small) % modulus ELSE 0
  BY DEF Decode
<1>3. Value(w) = m * large
  BY DEF Value
<1>4. shift \in Nat /\ shift <= e /\ (e < WordBits => shift = e)
  <2> HIDE DEF e
  <2>1. e % WordBits \in Nat /\ e % WordBits <= e /\ (e < WordBits => e % WordBits = e)
    <3>1. e % WordBits = e - WordBits * (e \div WordBits) /\ e \div WordBits \in Nat
          /\ e % WordBits \in 0..(WordBits - 1)
      BY <1>1
    <3>2. WordBits * (e \div WordBits) >= 0
      BY <1>1, <3>1
    <3>3. e < WordBits => e % WordBits = e
      BY <1>1
    <3> QED
      BY <1>1, <3>1, <3>2, <3>3
  <2> DEFINE low == e % WordBits
  <2>2. low \in Nat /\ low <= e /\ (e < WordBits => low = e)
    BY <2>1
  <2>3. shift = low \/ shift = e
    OBVIOUS
  <2> HIDE DEF low, shift
  <2>4. CASE shift = low
    BY <1>1, <2>2, <2>4
  <2>5. CASE shift = e
    BY <1>1, <2>5
  <2> QED
    BY <2>3, <2>4, <2>5
<1>5. /\ large \in Nat /\ large > 0 /\ small \in Nat /\ small > 0 /\ small <= large
      /\ (e < WordBits => small = large)
      /\ modulus \in Nat /\ modulus > 0 /\ (~(e < WordBits) => modulus <= large)
  <2> HIDE DEF e, shift
  <2>1. modulus = Bit[WordBits]
    BY DEF WordModulus
  <2> QED
    BY <1>1, <1>4, <2>1, BitFacts, BitGrows DEF large, small
<1> HIDE DEF e, m, shift, large, small, modulus
<1>6. m * large \in Nat /\ m * small \in Nat /\ m * small <= m * large
  BY <1>1, <1>5
<1> DEFINE v == m * small
<1>7. v % modulus \in Nat /\ v % modulus <= v /\ (v < modulus => v % modulus = v)
  <2>1. v \in Nat
    BY <1>6
  <2> HIDE DEF v
  <2>2. v % modulus = v - modulus * (v \div modulus) /\ v \div modulus \in Nat
        /\ v % modulus \in 0..(modulus - 1)
    BY <1>5, <2>1
  <2>3. modulus * (v \div modulus) >= 0
    BY <1>5, <2>1, <2>2
  <2>4. v < modulus => v % modulus = v
    BY <1>5, <2>1
  <2> QED
    BY <1>5, <2>1, <2>2, <2>3, <2>4
<1>8. Decode(w) \in 0..Value(w)
  BY <1>2, <1>3, <1>6, <1>7
<1>9. ASSUME Value(w) < WordModulus PROVE Decode(w) = Value(w)
  <2>0. m * large < modulus
    BY <1>3, <1>9 DEF modulus
  <2>1. CASE e < WordBits
    <3>1. shift < WordBits /\ v = m * large
      BY <1>4, <1>5, <2>1
    <3> QED
      BY <1>2, <1>3, <1>7, <2>0, <3>1
  <2>2. CASE ~(e < WordBits)
    <3>1. m = 0
      <4>1. m >= 1 => m * large >= large
        BY <1>1, <1>5
      <4> QED
        BY <1>1, <1>5, <1>6, <2>0, <2>2, <4>1
    <3>2. v = 0 /\ m * large = 0
      BY <1>5, <3>1
    <3>3. v % modulus = 0
      BY <1>5, <1>7, <3>2
    <3> QED
      BY <1>2, <1>3, <3>2, <3>3
  <2> QED
    BY <2>1, <2>2
<1> QED
  BY <1>3, <1>6, <1>8, <1>9

LEMMA CapRembCaps ==
  ASSUME NEW p, NEW bs, NEW off, Compound(bs), Matches(p, bs, off), RatesAsked(p, bs, off),
         NEW b \in 0..MaxRate
  PROVE  /\ Matches(CapRemb(p, b), bs, off)
         /\ \A x \in DOMAIN p : p[x] \notin RateWord => CapRemb(p, b)[x] = p[x]
         /\ Capped(CapRemb(p, b), bs, b)
<1> DEFINE q == CapRemb(p, b)
           N == {j \in 1..Len(bs) : IsRemb(bs[j][1])}
<1>0. b \in Nat /\ MaxRate \in Nat
  BY BitratesFit
<1>1. q = [x \in DOMAIN p |-> IF b > 0 /\ x \in RembRates(p) /\ Decode(p[x]) > b THEN Encode(b) ELSE p[x]]
  BY DEF CapRemb
<1> HIDE DEF q
<1>2. RembRates(p) = {off[i] + 5 : i \in N}
  BY RatesOfCompound
<1>3. ASSUME NEW i \in N
      PROVE  /\ off[i] + 5 \in DOMAIN p /\ p[off[i] + 5] = bs[i][5] /\ bs[i][5] \in RateWord
             /\ FlattenSeq(bs)[off[i] + 5] = bs[i][5]
  <2>1. Sound(bs[i])
    BY DEF Compound
  <2>2. Len(bs[i]) = 6 /\ bs[i][5] \in RateWord
    BY <2>1 DEF Sound
  <2>3. 5 \in 1..Len(bs[i])
    BY <2>2
  <2>4. off[i] + 5 \in 1..Len(p)
    BY <2>3, Cells DEF Matches
  <2>5. DOMAIN p = 1..Len(p)
    BY DEF Matches
  <2>6. FlattenSeq(bs)[off[i] + 5] = bs[i][5]
    BY <2>3, FlattenOfCompound
  <2> QED
    BY <2>2, <2>4, <2>5, <2>6 DEF RatesAsked
<1>4. Encode(b) \in RateWord /\ Value(Encode(b)) \in 0..b /\ (b - Value(Encode(b))) * (MaxMantissa \div 2) <= b
  BY EncodeFacts DEF RateWord
<1>5. ASSUME NEW x \in DOMAIN p
      PROVE  q[x] \in Word /\ Same(q[x], p[x]) /\ (p[x] \notin RateWord => q[x] = p[x])
  <2>1. p[x] \in Word
    BY DEF Matches
  <2>2. x \in RembRates(p) => p[x] \in RateWord
    BY <1>2, <1>3
  <2>3. Encode(b) \in Word
    BY <1>4 DEF Word, BodyWord
  <2>4. q[x] = IF b > 0 /\ x \in RembRates(p) /\ Decode(p[x]) > b THEN Encode(b) ELSE p[x]
    BY <1>1
  <2> QED
    BY <1>4, <2>1, <2>2, <2>3, <2>4 DEF Same
<1>6. Matches(q, bs, off)
  <2>1. q \in [DOMAIN p -> Word]
    BY <1>1, <1>5
  <2> QED
    BY <1>5, <2>1, MatchesStill
<1>7. RembRates(q) = {off[i] + 5 : i \in N}
  BY <1>6, RatesOfCompound
<1>8. ASSUME b > 0, NEW x \in RembRates(q)
      PROVE  /\ x \in Nat /\ q[x] \in RateWord /\ Decode(q[x]) \in 0..b
             /\ Honest(Value(FlattenSeq(bs)[x]), Value(q[x]), b)
  <2>1. PICK i \in N : x = off[i] + 5
    BY <1>7
  <2> DEFINE w == bs[i][5]
             c == Encode(b)
  <2>2. /\ x \in DOMAIN p /\ x \in RembRates(p) /\ w \in RateWord /\ p[x] = w
        /\ FlattenSeq(bs)[x] = w
    BY <1>2, <1>3, <2>1
  <2>3. x \in Nat
    BY <2>2 DEF Matches
  <2>4. q[x] = IF Decode(w) > b THEN c ELSE w
    BY <1>1, <1>8, <2>2
  <2>5. c \in RateWord /\ Value(c) \in 0..b /\ (b - Value(c)) * (MaxMantissa \div 2) <= b
    BY <1>4
  <2> HIDE DEF w, c
  <2>6. /\ Value(w) \in Nat /\ Decode(w) \in 0..Value(w)
        /\ Value(w) < WordModulus => Decode(w) = Value(w)
        /\ Decode(c) \in 0..Value(c) /\ WordModulus \in Nat
    <3>1. WordModulus \in Nat
      BY ConstantsAssumption, BitFacts DEF WordModulus
    <3> QED
      BY <2>2, <2>5, <3>1, DecodeBounds
  <2>7. CASE Decode(w) > b
    <3>1. q[x] = c /\ ~(Value(w) <= b) /\ Decode(c) \in 0..b
      BY <1>0, <2>4, <2>5, <2>6, <2>7
    <3> QED
      BY <2>2, <2>3, <2>5, <3>1 DEF Honest
  <2>8. CASE ~(Decode(w) > b)
    <3>1. q[x] = w /\ Decode(w) \in 0..b
      BY <1>0, <2>4, <2>6, <2>8
    <3>2. Value(w) <= b \/ Value(w) >= WordModulus
      BY <1>0, <2>6, <2>8
    <3> QED
      BY <2>2, <2>3, <3>1, <3>2 DEF Honest
  <2> QED
    BY <2>7, <2>8
<1>9. b > 0 => GetRemb(q) <= b
  <2> SUFFICES ASSUME b > 0 PROVE GetRemb(q) <= b
    OBVIOUS
  <2>1. CASE RembRates(q) = {}
    BY <1>0, <2>1 DEF GetRemb
  <2>2. CASE RembRates(q) # {}
    <3> DEFINE m == Min(RembRates(q))
    <3>1. m \in RembRates(q)
      <4>1. RembRates(q) \in SUBSET Nat
        BY <1>8
      <4> QED
        BY <2>2, <4>1, MinOfNumbers
    <3> HIDE DEF m
    <3>2. Decode(q[m]) \in 0..b
      BY <1>8, <3>1
    <3>3. GetRemb(q) = Decode(q[m])
      BY <2>2 DEF GetRemb, m
    <3> QED
      BY <1>0, <3>2, <3>3
  <2> QED
    BY <2>1, <2>2
<1>10. Capped(q, bs, b)
  BY <1>8, <1>9 DEF Capped
<1> QED
  BY <1>5, <1>6, <1>10 DEF q


\* A sequence without the l elements that follow the first a.
Without(s, a, l) == SubSeq(s, 1, a) \o SubSeq(s, a + l + 1, Len(s))

LEMMA Cut ==
  ASSUME NEW W, NEW s \in Seq(W), NEW a \in Nat, NEW l \in Nat, a + l <= Len(s)
  PROVE  /\ Without(s, a, l) \in Seq(W) /\ Len(Without(s, a, l)) = Len(s) - l
         /\ \A x \in 1..(Len(s) - l) : Without(s, a, l)[x] = IF x <= a THEN s[x] ELSE s[x + l]
<1> DEFINE u == SubSeq(s, 1, a)
           v == SubSeq(s, a + l + 1, Len(s))
           n == Len(s)
           t == Without(s, a, l)
<1>0. n \in Nat /\ a <= n
  OBVIOUS
<1>1. u \in Seq(W) /\ Len(u) = a /\ \A x \in 1..a : u[x] = s[x]
  BY <1>0
<1>2. v \in Seq(W)
  BY <1>0
<1>3. Len(v) = n - a - l /\ \A x \in 1..(n - a - l) : v[x] = s[a + l + x]
  BY <1>0
<1>9. t = u \o v
  BY DEF Without
<1> HIDE DEF u, v, t
<1>4. t \in Seq(W) /\ Len(t) = Len(u) + Len(v)
      /\ (\A x \in 1..Len(u) : t[x] = u[x]) /\ \A x \in 1..Len(v) : t[Len(u) + x] = v[x]
  <2>1. u \in Seq(W) /\ v \in Seq(W)
    BY <1>1, <1>2
  <2> QED
    BY <1>9, <2>1, Concatenation
<1>5. Len(t) = n - l
  BY <1>0, <1>1, <1>3, <1>4
<1>6. ASSUME NEW x \in 1..(n - l) PROVE t[x] = IF x <= a THEN s[x] ELSE s[x + l]
  <2>1. CASE x <= a
    BY <1>0, <1>1, <1>4, <2>1
  <2>2. CASE ~(x <= a)
    <3>1. x - a \in 1..(n - a - l) /\ a + (x - a) = x /\ a + l + (x - a) = x + l
      BY <1>0, <2>2
    <3>2. v[x - a] = s[x + l]
      BY <1>3, <3>1
    <3>3. \A y \in 1..(n - a - l) : t[a + y] = v[y]
      BY <1>1, <1>3, <1>4
    <3>4. t[a + (x - a)] = v[x - a]
      BY <3>1, <3>3
    <3>5. t[x] = s[x + l]
      BY <3>1, <3>2, <3>4
    <3> QED
      BY <2>2, <3>5
  <2> QED
    BY <2>1, <2>2
<1> QED
  BY <1>4, <1>5, <1>6 DEF t

LEMMA Sums ==
  /\ \A o, k, b, m \in Nat : k >= 1 /\ k <= b /\ o + b <= m =>
       o + k \in Nat /\ o + k >= 1 /\ o + k <= m
  /\ \A o, k, m \in Nat : k >= 1 /\ o >= m => o + k \in Nat /\ o + k >= 1 /\ ~(o + k <= m)
  /\ \A x, k, y, t, u \in Nat : x + k = y /\ y <= t /\ u = t - k => x <= u
OBVIOUS

CutAt(p, q, a, l) ==
  Len(q) = Len(p) - l /\ \A x \in 1..Len(q) : q[x] = IF x <= a THEN p[x] ELSE p[x + l]

CutBlocks(bs, cs, n, m) == \A i \in 1..(n - 1) : cs[i] = IF i < m THEN bs[i] ELSE bs[i + 1]

\* The words of q at pos are those of p, without message m.
CutWords(p, q, cs, n, m, off, pos) ==
  \A i \in 1..(n - 1) : \A k \in 1..Len(cs[i]) : q[pos[i] + k] = p[off[IF i < m THEN i ELSE i + 1] + k]

\* Where the messages lie without message m.
LEMMA CutLayout ==
  ASSUME NEW p \in Seq(Word), NEW bs, NEW n, NEW off, Layout(p, bs, n, off), NEW m \in 1..n,
         NEW q, NEW cs,
         CutAt(p, q, off[m], Len(bs[m])), CutBlocks(bs, cs, n, m)
  PROVE  \E pos : Layout(q, cs, n - 1, pos) /\ CutWords(p, q, cs, n, m, off, pos)
<1> DEFINE l == Len(bs[m])
           pos == [i \in 1..n |-> IF i <= m THEN off[i] ELSE off[i + 1] - l]
           old(i) == IF i < m THEN i ELSE i + 1
<1>0. /\ n \in Nat /\ Len(p) \in Nat /\ off[n + 1] = Len(p) /\ m \in Nat /\ n >= 1
      /\ \A i \in 1..(n + 1) : off[i] \in Nat
      /\ \A i \in 1..n : Len(bs[i]) \in Nat /\ off[i + 1] = off[i] + Len(bs[i])
  BY DEF Layout
<1>10. \A i \in 1..(n - 1) : cs[i] = IF i < m THEN bs[i] ELSE bs[i + 1]
  BY DEF CutBlocks
<1>1. /\ l \in Nat /\ off[m] \in Nat /\ off[m + 1] = off[m] + l /\ m + 1 \in 1..(n + 1) /\ m \in 1..(n + 1)
      /\ off[m + 1] <= Len(p)
  <2>1. m \in 1..(n + 1) /\ m + 1 \in 1..(n + 1) /\ n + 1 \in 1..(n + 1) /\ m + 1 <= n + 1
    BY <1>0
  <2>2. off[m + 1] <= off[n + 1]
    BY <2>1, OffsetsGrow
  <2> QED
    BY <1>0, <2>1, <2>2
<1>2. Len(q) = Len(p) - l /\ Len(q) \in Nat /\ off[m] <= Len(q)
  <2>1. Len(q) = Len(p) - l
    BY DEF CutAt
  <2> HIDE DEF l
  <2>2. Len(p) - l \in Nat /\ off[m] <= Len(p) - l
    BY <1>0, <1>1
  <2> QED
    BY <2>1, <2>2
<1>9. \A x \in 1..Len(q) : q[x] = IF x <= off[m] THEN p[x] ELSE p[x + l]
  BY DEF CutAt
<1> HIDE DEF l
<1>3. ASSUME NEW i \in 1..n
      PROVE  /\ pos[i] \in Nat
             /\ i <= m => pos[i] = off[i]
             /\ i >= m => pos[i] = off[i + 1] - l /\ pos[i] >= off[m]
  <2>1. i \in Nat /\ i \in 1..(n + 1) /\ i + 1 \in 1..(n + 1)
    BY <1>0
  <2>2. off[i] \in Nat /\ off[i + 1] \in Nat
    BY <1>0, <2>1
  <2>3. pos[i] = IF i <= m THEN off[i] ELSE off[i + 1] - l
    OBVIOUS
  <2> HIDE DEF pos
  <2>4. CASE i < m
    <3>1. i <= m /\ ~(i >= m)
      BY <1>0, <2>1, <2>4
    <3> QED
      BY <2>2, <2>3, <3>1
  <2>5. CASE i = m
    <3>1. pos[i] = off[m] /\ off[i + 1] = off[m] + l
      BY <1>0, <1>1, <2>3, <2>5
    <3>2. off[m] = (off[m] + l) - l /\ off[m] >= off[m]
      BY <1>1
    <3> QED
      BY <1>1, <2>5, <3>1, <3>2
  <2>6. CASE i > m
    <3>1. m + 1 <= i + 1 /\ ~(i <= m)
      BY <1>0, <2>1, <2>6
    <3>2. off[m + 1] <= off[i + 1]
      BY <1>1, <2>1, <3>1, OffsetsGrow
    <3>3. off[i + 1] - l \in Nat /\ off[i + 1] - l >= off[m]
      BY <1>1, <2>2, <3>2
    <3> QED
      BY <2>3, <3>1, <3>3
  <2> QED
    BY <1>0, <2>1, <2>4, <2>5, <2>6
<1>4. Len(q) = pos[n] /\ pos[1] = 0
  <2>1. n \in 1..n /\ n >= m /\ 1 \in 1..n /\ 1 <= m
    BY <1>0
  <2>2. pos[n] = off[n + 1] - l
    BY <1>3, <2>1
  <2>3. pos[1] = off[1]
    BY <1>3, <2>1
  <2> QED
    BY <1>0, <1>2, <2>2, <2>3 DEF Layout
<1> HIDE DEF pos
<1>5. ASSUME NEW i \in 1..(n - 1)
      PROVE  /\ cs[i] = bs[old(i)] /\ Len(cs[i]) \in Nat
             /\ pos[i + 1] = pos[i] + Len(cs[i])
             /\ \A k \in 1..Len(cs[i]) : q[pos[i] + k] = p[off[old(i)] + k]
  <2>0. i \in Nat /\ i \in 1..n /\ i + 1 \in 1..n /\ (i + 1) + 1 \in 1..(n + 1) /\ i + 1 \in 1..(n + 1)
    BY <1>0
  <2>1. pos[i] \in Nat /\ pos[i + 1] \in Nat
    BY <1>3, <2>0
  <2>2. CASE i < m
    <3>1. pos[i] = off[i] /\ pos[i + 1] = off[i + 1]
      <4>1. i <= m /\ i + 1 <= m
        BY <1>0, <2>0, <2>2
      <4> QED
        BY <1>3, <2>0, <4>1
    <3>2. off[i + 1] <= off[m]
      <4>1. i + 1 <= m
        BY <1>0, <2>0, <2>2
      <4> QED
        BY <1>1, <2>0, <4>1, OffsetsGrow
    <3>3. old(i) = i /\ cs[i] = bs[i]
      BY <1>10, <2>2
    <3>4. Len(bs[i]) \in Nat /\ off[i + 1] = off[i] + Len(bs[i])
      BY <1>0, <2>0
    <3>5. ASSUME NEW k \in 1..Len(bs[i]) PROVE q[pos[i] + k] = p[off[i] + k]
      <4> DEFINE x == off[i] + k
      <4>0. k \in Nat /\ k >= 1 /\ k <= Len(bs[i]) /\ off[i] \in Nat
        BY <2>1, <3>1, <3>4
      <4>1. x \in Nat /\ x >= 1 /\ x <= off[m]
        <5>1. off[i] + Len(bs[i]) <= off[m] /\ Len(bs[i]) \in Nat /\ off[m] \in Nat
          BY <1>1, <3>2, <3>4
        <5> QED
          BY <4>0, <5>1, Sums, Zenon
      <4>2. x \in 1..Len(q)
        BY <1>1, <1>2, <4>1
      <4>3. q[x] = p[x]
        BY <1>9, <4>1, <4>2
      <4> QED
        BY <3>1, <4>3
    <3> HIDE DEF old
    <3> QED
      BY <3>1, <3>3, <3>4, <3>5
  <2>3. CASE ~(i < m)
    <3>1. pos[i] = off[i + 1] - l /\ pos[i + 1] = off[(i + 1) + 1] - l /\ pos[i] >= off[m]
      <4>1. i >= m /\ i + 1 >= m
        BY <1>0, <2>0, <2>3
      <4> QED
        BY <1>3, <2>0, <4>1
    <3>2. old(i) = i + 1 /\ cs[i] = bs[i + 1]
      BY <1>10, <2>3
    <3>3. /\ Len(bs[i + 1]) \in Nat /\ off[(i + 1) + 1] = off[i + 1] + Len(bs[i + 1])
          /\ off[i + 1] \in Nat /\ off[(i + 1) + 1] \in Nat /\ off[(i + 1) + 1] <= Len(p)
      <4>1. off[(i + 1) + 1] <= off[n + 1]
        <5>1. n + 1 \in 1..(n + 1) /\ (i + 1) + 1 <= n + 1
          BY <1>0, <2>0
        <5> QED
          BY <2>0, <5>1, OffsetsGrow
      <4> QED
        BY <1>0, <2>0, <4>1
    <3>4. ASSUME NEW k \in 1..Len(bs[i + 1]) PROVE q[pos[i] + k] = p[off[i + 1] + k]
      <4> DEFINE x == pos[i] + k
      <4>0. k \in Nat /\ k >= 1 /\ k <= Len(bs[i + 1])
        BY <3>3
      <4>1. x \in Nat /\ x >= 1 /\ ~(x <= off[m])
        <5>1. pos[i] \in Nat /\ off[m] \in Nat /\ pos[i] >= off[m]
          BY <1>1, <2>1, <3>1
        <5> QED
          BY <4>0, <5>1, Sums, Zenon
      <4>2. x + l = off[i + 1] + k
        BY <1>1, <3>1, <3>3, <4>0
      <4>3. off[i + 1] + k <= Len(p)
        BY <1>0, <3>3, <4>0
      <4>4. x <= Len(q)
        <5> HIDE DEF x
        <5>1. l \in Nat /\ Len(p) \in Nat /\ Len(q) \in Nat
          BY <1>0, <1>1, <1>2, Zenon
        <5>2. Len(q) = Len(p) - l
          BY <1>2, Zenon
        <5>3. off[i + 1] + k \in Nat
          BY <3>3, <4>0
        <5> QED
          BY <4>1, <4>2, <4>3, <5>1, <5>2, <5>3, Sums, ZenonT(30)
      <4>5. x \in 1..Len(q)
        BY <1>2, <4>1, <4>4
      <4>6. q[x] = p[x + l]
        BY <1>9, <4>1, <4>5
      <4> QED
        BY <4>2, <4>6
    <3>5. pos[i + 1] = pos[i] + Len(bs[i + 1])
      BY <1>1, <3>1, <3>3
    <3> HIDE DEF old
    <3> QED
      BY <3>2, <3>3, <3>4, <3>5
  <2> QED
    BY <2>2, <2>3
<1> HIDE DEF old
<1>6. Layout(q, cs, n - 1, pos)
  <2>1. n - 1 \in Nat /\ (n - 1) + 1 = n
    BY <1>0
  <2>2. \A i \in 1..n : pos[i] \in Nat
    BY <1>3
  <2>3. \A i \in 1..(n - 1) : Len(cs[i]) \in Nat /\ pos[i + 1] = pos[i] + Len(cs[i])
    BY <1>5
  <2> QED
    BY <1>4, <2>1, <2>2, <2>3 DEF Layout
<1>7. \A i \in 1..(n - 1) : \A k \in 1..Len(cs[i]) : q[pos[i] + k] = p[off[old(i)] + k]
  BY <1>5
<1> QED
  BY <1>6, <1>7 DEF old, CutWords


\* The message the walk finds first is the first of its kind.
LEMMA FirstOfCompound ==
  ASSUME NEW p, NEW bs, NEW off, Compound(bs), Matches(p, bs, off),
         NEW N \in SUBSET (1..Len(bs)), N # {}
  PROVE  Min(N) \in N /\ Min({off[i] + 1 : i \in N}) = off[Min(N)] + 1
<1> DEFINE S == {off[i] + 1 : i \in N}
<1>0. /\ Len(bs) \in Nat /\ N \subseteq Nat /\ Layout(p, bs, Len(bs), off)
      /\ \A i \in N : off[i] \in Nat /\ i \in 1..(Len(bs) + 1)
  <2>1. Len(bs) \in Nat /\ Layout(p, bs, Len(bs), off)
    BY DEF Compound, Matches
  <2>2. \A i \in N : off[i] \in Nat
    BY MessageFacts
  <2> QED
    BY <2>1, <2>2
<1>1. Min(N) \in N /\ \A i \in N : Min(N) <= i
  BY <1>0, MinOfNumbers
<1>2. S \in SUBSET Nat /\ S # {}
  <2>1. \A i \in N : off[i] + 1 \in Nat
    BY <1>0
  <2> QED
    BY <2>1
<1>3. Min(S) \in S /\ \A x \in S : Min(S) <= x
  <2> HIDE DEF S
  <2> QED
    BY <1>2, MinOfNumbers
<1>4. PICK i \in N : Min(S) = off[i] + 1
  BY <1>3
<1> DEFINE m == Min(N)
<1>5. off[m] <= off[i]
  BY <1>0, <1>1, OffsetsGrow
<1>6. Min(S) <= off[m] + 1
  BY <1>1, <1>3
<1> HIDE DEF m, S
<1>7. Min(S) = off[m] + 1
  <2>1. off[m] \in Nat /\ off[i] \in Nat
    BY <1>0, <1>1 DEF m
  <2> QED
    BY <1>4, <1>5, <1>6, <2>1
<1> QED
  BY <1>1, <1>7 DEF m, S

NackPlaces(bs) == {i \in DOMAIN bs : IsNack(Head(bs[i]))}
WithoutNack(bs) == IF NackPlaces(bs) = {} THEN bs ELSE RemoveAt(bs, Min(NackPlaces(bs)))

\* A NACK taken out of the packet is the message that is taken from the list.
LEMMA RemoveNacksRemoves ==
  ASSUME NEW p, NEW bs, NEW off, Compound(bs), Matches(p, bs, off),
         NEW l, NEW r, FixedIn(p, bs, off, l, r), RatesAsked(p, bs, off)
  PROVE  /\ Compound(WithoutNack(bs))
         /\ \E pos : /\ Matches(RemoveNacks(p), WithoutNack(bs), pos)
                     /\ FixedIn(RemoveNacks(p), WithoutNack(bs), pos, l, r)
                     /\ RatesAsked(RemoveNacks(p), WithoutNack(bs), pos)
<1> DEFINE n == Len(bs)
           N == NackPlaces(bs)
           cs == WithoutNack(bs)
           nacks == {o \in Walk(p) : IsNack(p[o]) /\ p[o].length # 0}
           q == RemoveNacks(p)
<1>0. /\ n \in Nat /\ DOMAIN bs = 1..n /\ bs \in Seq(Seq(Word)) /\ p \in Seq(Word) /\ Len(p) \in Nat
      /\ Layout(p, bs, n, off)
  BY DEF Compound, Matches
<1>1. ASSUME NEW i \in 1..n
      PROVE  /\ Sound(bs[i]) /\ (i < n => Len(bs[i]) # 1)
             /\ off[i] \in Nat /\ p[off[i] + 1] = bs[i][1] /\ Head(bs[i]) = bs[i][1]
             /\ IsNack(bs[i][1]) => bs[i][1].length # 0
  <2>1. Sound(bs[i]) /\ (i < n => Len(bs[i]) # 1)
    BY DEF Compound
  <2>2. /\ off[i] \in Nat /\ p[off[i] + 1] = bs[i][1] /\ bs[i][1].length = Len(bs[i]) - 1
        /\ Len(bs[i]) \in Nat /\ Len(bs[i]) > 0
    BY MessageFacts
  <2>3. Head(bs[i]) = bs[i][1]
    BY <2>2
  <2>4. ASSUME IsNack(bs[i][1]) PROVE bs[i][1].length # 0
    <3>1. Len(bs[i]) # 1
      BY <2>1, <2>4 DEF Sound, IsNack
    <3> QED
      BY <2>2, <3>1
  <2> QED
    BY <2>1, <2>2, <2>3, <2>4
<1>2. N = {i \in 1..n : IsNack(bs[i][1])}
  BY <1>0, <1>1 DEF NackPlaces
<1>6. cs = IF N = {} THEN bs ELSE RemoveAt(bs, Min(N))
  BY DEF WithoutNack
<1> HIDE DEF N, cs
<1>3. nacks = {off[i] + 1 : i \in N}
  <2>1. Walk(p) = {off[i] + 1 : i \in 1..n}
    BY WalkOfCompound
  <2> QED
    BY <1>1, <1>2, <2>1
<1> HIDE DEF nacks
<1>4. CASE N = {}
  <2>1. nacks = {}
    BY <1>3, <1>4
  <2>2. q = p /\ cs = bs
    BY <1>4, <1>6, <2>1 DEF RemoveNacks, nacks
  <2> QED
    BY <2>2 DEF cs
<1>5. CASE N # {}
  <2> DEFINE m == Min(N)
             a == off[m]
             len == Len(bs[m])
             old(i) == IF i < m THEN i ELSE i + 1
  <2>1. m \in N /\ m \in 1..n /\ Min(nacks) = a + 1
    <3>1. N \in SUBSET (1..n)
      BY <1>2
    <3>2. m \in N /\ Min({off[i] + 1 : i \in N}) = off[m] + 1
      BY <1>5, <3>1, FirstOfCompound
    <3> QED
      BY <1>3, <3>1, <3>2
  <2>2. /\ a \in Nat /\ len \in Nat /\ len > 0 /\ a + len <= Len(p)
        /\ p[a + 1].length = len - 1
    BY <2>1, MessageFacts
  <2>3. q = Without(p, a, len)
    <3> DEFINE next == Min(nacks) + p[Min(nacks)].length + 1
    <3>1. next = a + len + 1 /\ Min(nacks) - 1 = a
      <4>1. next = (a + 1) + (len - 1) + 1 /\ Min(nacks) = a + 1
        BY <2>1, <2>2
      <4> HIDE DEF next, a, len
      <4> QED
        BY <2>2, <4>1
    <3>2. nacks # {}
      BY <1>3, <1>5
    <3>3. q = IF nacks = {} \/ next > Len(p) + 1 THEN p
              ELSE SubSeq(p, 1, Min(nacks) - 1) \o SubSeq(p, next, Len(p))
      BY DEF RemoveNacks, nacks
    <3> HIDE DEF next, a, len
    <3>4. ~(next > Len(p) + 1)
      BY <1>0, <2>2, <3>1
    <3> QED
      BY <3>1, <3>2, <3>3, <3>4 DEF Without
  <2>4. q \in Seq(Word) /\ CutAt(p, q, a, len)
    <3> HIDE DEF a, len, q
    <3>1. /\ q \in Seq(Word) /\ Len(q) = Len(p) - len
          /\ \A x \in 1..(Len(p) - len) : q[x] = IF x <= a THEN p[x] ELSE p[x + len]
      <4>1. p \in Seq(Word) /\ a \in Nat /\ len \in Nat /\ a + len <= Len(p)
        BY <1>0, <2>2
      <4>2. /\ Without(p, a, len) \in Seq(Word) /\ Len(Without(p, a, len)) = Len(p) - len
            /\ \A x \in 1..(Len(p) - len) : Without(p, a, len)[x] = IF x <= a THEN p[x] ELSE p[x + len]
        BY <4>1, Cut, Zenon
      <4> QED
        BY <2>3, <4>2
    <3> QED
      BY <3>1 DEF CutAt
  <2>5. /\ cs \in Seq(Seq(Word)) /\ Len(cs) = n - 1
        /\ \A i \in 1..(n - 1) : cs[i] = bs[old(i)]
    <3>1. cs = Without(bs, m - 1, 1)
      <4>1. cs = SubSeq(bs, 1, m - 1) \o SubSeq(bs, m + 1, n)
        BY <1>5, <1>6 DEF RemoveAt
      <4>2. (m - 1) + 1 + 1 = m + 1
        BY <1>0, <2>1
      <4> QED
        BY <4>1, <4>2 DEF Without
    <3>2. m - 1 \in Nat /\ (m - 1) + 1 <= n
      BY <1>0, <2>1
    <3> HIDE DEF m
    <3>3. /\ cs \in Seq(Seq(Word)) /\ Len(cs) = n - 1
          /\ \A i \in 1..(n - 1) : cs[i] = IF i <= m - 1 THEN bs[i] ELSE bs[i + 1]
      <4>1. bs \in Seq(Seq(Word)) /\ m - 1 \in Nat /\ 1 \in Nat /\ (m - 1) + 1 <= Len(bs)
        BY <1>0, <3>2
      <4>2. /\ Without(bs, m - 1, 1) \in Seq(Seq(Word)) /\ Len(Without(bs, m - 1, 1)) = Len(bs) - 1
            /\ \A x \in 1..(Len(bs) - 1) :
                 Without(bs, m - 1, 1)[x] = IF x <= m - 1 THEN bs[x] ELSE bs[x + 1]
        <5> DEFINE a1 == m - 1
                   l1 == 1
                   W == Seq(Word)
        <5>1. a1 \in Nat /\ l1 \in Nat /\ a1 + l1 <= Len(bs) /\ bs \in Seq(W)
          BY <4>1
        <5> HIDE DEF a1, l1, W
        <5>2. /\ Without(bs, a1, l1) \in Seq(W) /\ Len(Without(bs, a1, l1)) = Len(bs) - l1
              /\ \A x \in 1..(Len(bs) - l1) :
                   Without(bs, a1, l1)[x] = IF x <= a1 THEN bs[x] ELSE bs[x + l1]
          BY <5>1, Cut
        <5> QED
          BY <5>2 DEF a1, l1, W
      <4> QED
        BY <3>1, <4>2
    <3>4. \A i \in 1..(n - 1) : i <= m - 1 <=> i < m
      BY <1>0, <2>1
    <3> QED
      BY <3>3, <3>4
  <2>6. \A i \in 1..(n - 1) : old(i) \in 1..n /\ (i < n - 1 => old(i) < n)
    BY <1>0, <2>1
  <2>7. PICK pos : /\ Layout(q, cs, n - 1, pos)
                   /\ \A i \in 1..(n - 1) : \A k \in 1..Len(cs[i]) : q[pos[i] + k] = p[off[old(i)] + k]
    <3>1. \A i \in 1..(n - 1) : cs[i] = IF i < m THEN bs[i] ELSE bs[i + 1]
      BY <2>5
    <3>2. \E pos : Layout(q, cs, n - 1, pos) /\ CutWords(p, q, cs, n, m, off, pos)
      <4> HIDE DEF q, m
      <4> QED
        <5>1. p \in Seq(Word) /\ Layout(p, bs, n, off) /\ m \in 1..n /\ CutAt(p, q, off[m], Len(bs[m]))
          BY <1>0, <2>1, <2>4 DEF m
        <5>2. CutBlocks(bs, cs, n, m)
          BY <3>1 DEF CutBlocks
        <5> HIDE DEF n
        <5> QED
          BY <5>1, <5>2, CutLayout
    <3> QED
      BY <3>2 DEF CutWords
  <2> HIDE DEF q, m, old, a, len
  <2>8. Compound(cs)
    <3>1. ASSUME NEW i \in 1..(n - 1) PROVE Sound(cs[i]) /\ (i < n - 1 => Len(cs[i]) # 1)
      BY <1>1, <2>5, <2>6
    <3> QED
      BY <1>0, <2>1, <2>5, <3>1 DEF Compound
  <2>9. Matches(q, cs, pos)
    <3>1. ASSUME NEW i \in 1..(n - 1), NEW k \in 1..Len(cs[i]) PROVE Same(q[pos[i] + k], cs[i][k])
      <4>1. old(i) \in 1..n /\ cs[i] = bs[old(i)] /\ q[pos[i] + k] = p[off[old(i)] + k]
        BY <2>5, <2>6, <2>7
      <4> QED
        BY <4>1 DEF Matches
    <3> QED
      BY <2>4, <2>5, <2>7, <3>1 DEF Matches
  <2>10. FixedIn(q, cs, pos, l, r)
    <3> SUFFICES ASSUME NEW i \in 1..(n - 1), Len(cs[i]) > 1
                 PROVE  /\ l # "none" => \A k \in LocalWords(cs[i][1]) : q[pos[i] + 1 + k] = Ssrc(l)
                        /\ r # "none" => \A k \in RemoteWords(cs[i][1], IsRemb(cs[i][1])) :
                                           q[pos[i] + 1 + k] = Ssrc(r)
      BY <2>5 DEF FixedIn
    <3> DEFINE j == old(i)
    <3>1. j \in 1..n /\ cs[i] = bs[j] /\ Len(bs[j]) > 1 /\ i \in 1..Len(cs)
      BY <2>5, <2>6
    <3> HIDE DEF j
    <3>2. ASSUME NEW k \in SsrcPlaces(cs[i][1]) PROVE q[pos[i] + 1 + k] = p[off[j] + 1 + k]
      <4>1. k + 1 \in 1..Len(bs[j]) /\ off[j] + 1 + k = off[j] + (k + 1)
        BY <3>1, PlaceInPacket
      <4>2. pos[i] + 1 + k = pos[i] + (k + 1)
        BY <2>8, <2>9, <3>1, PlaceInPacket
      <4>3. q[pos[i] + (k + 1)] = p[off[j] + (k + 1)]
        BY <2>7, <3>1, <4>1 DEF j
      <4> QED
        BY <4>1, <4>2, <4>3
    <3>3. /\ l # "none" => \A k \in LocalWords(bs[j][1]) : p[off[j] + 1 + k] = Ssrc(l)
          /\ r # "none" => \A k \in RemoteWords(bs[j][1], IsRemb(bs[j][1])) : p[off[j] + 1 + k] = Ssrc(r)
      BY <3>1 DEF FixedIn
    <3> QED
      BY <3>1, <3>2, <3>3 DEF SsrcPlaces
  <2>11. RatesAsked(q, cs, pos)
    <3> SUFFICES ASSUME NEW i \in 1..(n - 1), IsRemb(cs[i][1])
                 PROVE  q[pos[i] + 5] = cs[i][5]
      BY <2>5 DEF RatesAsked
    <3> DEFINE j == old(i)
    <3>1. j \in 1..n /\ cs[i] = bs[j]
      BY <2>5, <2>6
    <3>2. q[pos[i] + 5] = p[off[j] + 5]
      <4>1. 5 \in 1..Len(cs[i])
        BY <1>1, <3>1 DEF Sound
      <4> QED
        BY <2>7, <4>1
    <3> HIDE DEF j
    <3> QED
      BY <3>1, <3>2 DEF RatesAsked
  <2> QED
    BY <2>8, <2>9, <2>10, <2>11 DEF q, cs
<1> QED
  BY <1>4, <1>5


-----------------------------------------------------------------------------
(***************************************************************************)
(* The packets that come and the gateway's own.                            *)
(***************************************************************************)
LEMMA FlattenMatches ==
  ASSUME NEW bs, Compound(bs)
  PROVE  \E off : Matches(FlattenSeq(bs), bs, off)
<1>1. Len(bs) \in Nat /\ bs \in Seq(Seq(Word)) /\ \A i \in 1..Len(bs) : bs[i] \in Seq(Word)
  BY DEF Compound, Sound
<1>2. CASE Len(bs) = 0
  <2>1. FlattenSeq(bs) = <<>>
    <3>1. bs = <<>>
      BY <1>1, <1>2
    <3> QED
      BY <3>1 DEF FlattenSeq
  <2>2. <<>> \in Seq(Word) /\ Len(<<>>) = 0 /\ 1..Len(bs) = {}
    BY <1>2
  <2>3. Layout(<<>>, bs, Len(bs), [i \in 1..1 |-> 0])
    BY <1>2, <2>2 DEF Layout
  <2>4. Matches(<<>>, bs, [i \in 1..1 |-> 0])
    BY <2>2, <2>3 DEF Matches
  <2> QED
    BY <2>1, <2>4
<1>3. CASE Len(bs) > 0
  <2>1. PICK off : FlattenSeq(bs) \in Seq(Word) /\ Covers(FlattenSeq(bs), bs, Len(bs), off)
    BY <1>1, <1>3, CoverFlatten
  <2>2. Matches(FlattenSeq(bs), bs, off)
    BY <2>1 DEF Covers, Matches, Same
  <2> QED
    BY <2>2
<1>4. Len(bs) = 0 \/ Len(bs) > 0
  BY <1>1
<1> QED
  BY <1>2, <1>3, <1>4, Zenon

Appended(p, q, bs, cs, n) ==
  /\ \A i \in 1..n : cs[i] = bs[i]
  /\ Len(cs[n + 1]) \in Nat /\ Len(q) = Len(p) + Len(cs[n + 1])

LEMMA AppendLayout ==
  ASSUME NEW p, NEW bs, NEW n, NEW off, Layout(p, bs, n, off), NEW q, NEW cs, Appended(p, q, bs, cs, n)
  PROVE  \E pos : Layout(q, cs, n + 1, pos) /\ \A i \in 1..(n + 1) : pos[i] = off[i]
<1> DEFINE pos == [i \in 1..(n + 2) |-> IF i = n + 2 THEN Len(q) ELSE off[i]]
<1>0. /\ n \in Nat /\ off[1] = 0
      /\ \A i \in 1..(n + 1) : off[i] \in Nat
      /\ \A i \in 1..n : Len(bs[i]) \in Nat /\ off[i + 1] = off[i] + Len(bs[i])
      /\ Len(p) = off[n + 1]
  BY DEF Layout
<1>1. Len(q) = Len(p) + Len(cs[n + 1])
  BY DEF Appended
<1>2. Len(q) \in Nat /\ Len(p) \in Nat /\ Len(cs[n + 1]) \in Nat
  <2>1. Len(p) \in Nat /\ Len(cs[n + 1]) \in Nat
    BY <1>0 DEF Appended
  <2> QED
    BY <1>1, <2>1
<1>3. \A i \in 1..n : cs[i] = bs[i]
  BY DEF Appended
<1>4. \A i \in 1..(n + 1) : pos[i] = off[i]
  BY <1>0
<1>5. pos[n + 2] = Len(q) /\ (n + 1) + 1 = n + 2
  BY <1>0
<1> HIDE DEF pos
<1>6. ASSUME NEW i \in 1..(n + 1) PROVE Len(cs[i]) \in Nat /\ pos[i + 1] = pos[i] + Len(cs[i])
  <2>1. CASE i = n + 1
    <3>1. pos[i] = Len(p) /\ pos[i + 1] = Len(q) /\ Len(cs[i]) = Len(cs[n + 1])
      BY <1>0, <1>4, <1>5, <2>1
    <3> QED
      BY <1>1, <1>2, <3>1
  <2>2. CASE i # n + 1
    <3>1. i \in 1..n /\ i + 1 \in 1..(n + 1)
      BY <1>0, <2>2
    <3> QED
      BY <1>0, <1>3, <1>4, <3>1
  <2> QED
    BY <2>1, <2>2
<1>7. \A i \in 1..((n + 1) + 1) : pos[i] \in Nat
  <2>1. ASSUME NEW i \in 1..((n + 1) + 1) PROVE pos[i] \in Nat
    <3>1. i \in 1..(n + 1) \/ i = n + 2
      BY <1>0
    <3> QED
      BY <1>0, <1>2, <1>4, <1>5, <3>1
  <2> QED
    BY <2>1
<1>8. Layout(q, cs, n + 1, pos)
  <2>1. pos[1] = 0
    BY <1>0, <1>4
  <2>2. n + 1 \in Nat /\ Len(q) = pos[(n + 1) + 1]
    BY <1>0, <1>5
  <2> QED
    BY <1>6, <1>7, <2>1, <2>2 DEF Layout
<1> QED
  BY <1>4, <1>8

LEMMA RembFacts ==
  ASSUME NEW x \in RateWord
  PROVE  /\ Sound(Remb(x)) /\ Len(Remb(x)) = 6 /\ IsRemb(Remb(x)[1]) /\ Remb(x)[5] = x
         /\ \A y \in RateWord : \A k \in 1..6 : k # 5 => Remb(x)[k] = Remb(y)[k]
<1> DEFINE body(y) == <<Ssrc("none"), Ssrc("none"), [id |-> "REMB"], y, Ssrc("none")>>
           h == [type |-> "PSFB", fmt |-> 15, length |-> 5]
<1>1. Ssrc("none") \in SsrcWord
  BY DEF Ssrc, SsrcWord, Sources
<1>2. SsrcPlaces(h) = {1, 5} /\ IsRemb(h)
  BY DEF SsrcPlaces, LocalWords, RemoteWords, IsRemb
<1>3. ASSUME NEW y \in RateWord
      PROVE  /\ SoundBody(h, body(y)) /\ Len(body(y)) = 5 /\ body(y)[4] = y
             /\ body(y)[1] = Ssrc("none") /\ body(y)[2] = Ssrc("none") /\ body(y)[5] = Ssrc("none")
             /\ body(y)[3] = [id |-> "REMB"]
  <2>1. body(y) \in Seq(BodyWord)
    BY <1>1 DEF BodyWord, PlainWord
  <2>2. \A k \in SsrcPlaces(h) : k \in 1..5 /\ body(y)[k] \in SsrcWord
    BY <1>1, <1>2
  <2> QED
    BY <1>2, <2>1, <2>2 DEF SoundBody
<1> HIDE DEF body, h
<1>4. ASSUME NEW y \in RateWord
      PROVE  /\ Sound(Remb(y)) /\ Remb(y)[1] = h /\ Len(Remb(y)) = 6
             /\ \A k \in 1..5 : Remb(y)[k + 1] = body(y)[k]
  <2>1. Remb(y) = Message("PSFB", 15, body(y))
    BY DEF Remb, body
  <2>2. h = [type |-> "PSFB", fmt |-> 15, length |-> Len(body(y))]
    BY <1>3 DEF h
  <2>3. /\ Sound(Message("PSFB", 15, body(y))) /\ Message("PSFB", 15, body(y))[1] = h
        /\ Len(Message("PSFB", 15, body(y))) = Len(body(y)) + 1
        /\ \A k \in 1..Len(body(y)) : Message("PSFB", 15, body(y))[k + 1] = body(y)[k]
    BY <1>3, <2>2, MessageIsSound DEF Types
  <2>4. Len(body(y)) = 5 /\ 5 + 1 = 6
    BY <1>3
  <2>5. /\ Sound(Remb(y)) /\ Remb(y)[1] = h /\ Len(Remb(y)) = 5 + 1
        /\ \A k \in 1..5 : Remb(y)[k + 1] = body(y)[k]
    BY <2>1, <2>3, <2>4, Zenon
  <2> QED
    BY <2>4, <2>5
<1>5. Sound(Remb(x)) /\ Len(Remb(x)) = 6 /\ IsRemb(Remb(x)[1])
  BY <1>2, <1>4
<1>6. ASSUME NEW y \in RateWord
      PROVE  /\ Remb(y)[1] = h /\ Remb(y)[2] = Ssrc("none") /\ Remb(y)[3] = Ssrc("none")
             /\ Remb(y)[4] = [id |-> "REMB"] /\ Remb(y)[5] = y /\ Remb(y)[6] = Ssrc("none")
  <2>1. \A k \in 1..5 : Remb(y)[k + 1] = body(y)[k]
    BY <1>4
  <2>2. /\ Remb(y)[1 + 1] = body(y)[1] /\ Remb(y)[2 + 1] = body(y)[2] /\ Remb(y)[3 + 1] = body(y)[3]
        /\ Remb(y)[4 + 1] = body(y)[4] /\ Remb(y)[5 + 1] = body(y)[5]
    BY <2>1
  <2> QED
    BY <1>3, <1>4, <2>2
<1>7. ASSUME NEW y \in RateWord, NEW k \in 1..6, k # 5 PROVE Remb(x)[k] = Remb(y)[k]
  <2>1. k \in {1, 2, 3, 4, 6}
    BY <1>7
  <2> QED
    BY <1>6, <2>1
<1> QED
  BY <1>5, <1>6, <1>7

LEMMA ReportsFacts ==
  /\ Sound(EmptyReport) /\ Len(EmptyReport) # 1 /\ ~IsRemb(EmptyReport[1])
  /\ Sound(Sdes) /\ Len(Sdes) # 1 /\ ~IsRemb(Sdes[1])
<1> DEFINE none == Ssrc("none")
<1>0. none \in SsrcWord /\ none \in BodyWord
  BY DEF Ssrc, SsrcWord, Sources, BodyWord
<1> HIDE DEF none
<1>1. Sound(EmptyReport) /\ Len(EmptyReport) # 1 /\ ~IsRemb(EmptyReport[1])
  <2> DEFINE first == <<none, none>>
             fill == Fill(5)
             body == first \o fill
             h == [type |-> "RR", fmt |-> 1, length |-> Len(body)]
  <2>1. first \in Seq(BodyWord) /\ Len(first) = 2 /\ first[1] = none /\ first[2] = none
    BY <1>0
  <2>2. fill \in Seq(BodyWord) /\ Len(fill) = 5
    BY FillFacts
  <2>9. first \in Seq(BodyWord) /\ fill \in Seq(BodyWord)
    BY <2>1, <2>2
  <2> HIDE DEF first, fill
  <2>3. body \in Seq(BodyWord) /\ Len(body) = Len(first) + Len(fill)
        /\ \A k \in 1..Len(first) : body[k] = first[k]
    BY <2>9, Concatenation
  <2>4. SsrcPlaces(h) = {1, 2} /\ ~IsRemb(h)
    BY DEF SsrcPlaces, LocalWords, RemoteWords, IsRemb
  <2>5. EmptyReport = Message("RR", 1, body)
    BY DEF EmptyReport, first, fill, none
  <2> HIDE DEF body
  <2>6. Len(body) = 7 /\ body[1] = none /\ body[2] = none
    <3>1. 1 \in 1..Len(first) /\ 2 \in 1..Len(first)
      BY <2>1
    <3> QED
      BY <2>1, <2>2, <2>3, <3>1
  <2>7. SoundBody(h, body)
    <3>1. h.length = Len(body)
      OBVIOUS
    <3>2. \A k \in SsrcPlaces(h) : k \in 1..Len(body) /\ body[k] \in SsrcWord
      BY <1>0, <2>4, <2>6
    <3>3. Len(body) # 0
      BY <2>6
    <3> HIDE DEF h
    <3> QED
      BY <2>3, <2>4, <3>1, <3>2, <3>3 DEF SoundBody
  <2> HIDE DEF h
  <2>8. /\ Sound(Message("RR", 1, body)) /\ Message("RR", 1, body)[1] = h
        /\ Len(Message("RR", 1, body)) = Len(body) + 1
    <3>1. h = [type |-> "RR", fmt |-> 1, length |-> Len(body)]
      BY DEF h
    <3> QED
      BY <2>7, <3>1, MessageIsSound DEF Types
  <2> QED
    BY <2>4, <2>5, <2>6, <2>8
<1>2. Sound(Sdes) /\ Len(Sdes) # 1 /\ ~IsRemb(Sdes[1])
  <2> DEFINE first == <<none>>
             n == SdesBytes \div 4 - 2
             fill == Fill(n)
             body == first \o fill
             h == [type |-> "SDES", fmt |-> 1, length |-> Len(body)]
  <2>0. n \in Nat
    BY CnameAssumption DEF SdesBytes
  <2>1. first \in Seq(BodyWord) /\ Len(first) = 1 /\ first[1] = none
    BY <1>0
  <2>5. Sdes = Message("SDES", 1, body)
    BY DEF Sdes, none
  <2> HIDE DEF first, n
  <2>2. fill \in Seq(BodyWord) /\ Len(fill) = n
    BY <2>0, FillFacts
  <2>10. first \in Seq(BodyWord) /\ fill \in Seq(BodyWord)
    BY <2>1, <2>2
  <2> HIDE DEF fill
  <2>3. body \in Seq(BodyWord) /\ Len(body) = Len(first) + Len(fill)
        /\ \A k \in 1..Len(first) : body[k] = first[k]
    BY <2>10, Concatenation
  <2>4. SsrcPlaces(h) = {1} /\ ~IsRemb(h)
    BY DEF SsrcPlaces, LocalWords, RemoteWords, IsRemb
  <2> HIDE DEF body
  <2>6. Len(body) \in Nat /\ Len(body) > 0 /\ body[1] = none
    BY <2>0, <2>1, <2>2, <2>3
  <2>7. SoundBody(h, body)
    <3>1. h.length = Len(body)
      OBVIOUS
    <3>2. \A k \in SsrcPlaces(h) : k \in 1..Len(body) /\ body[k] \in SsrcWord
      BY <1>0, <2>4, <2>6
    <3>3. Len(body) # 0
      BY <2>6
    <3> HIDE DEF h
    <3> QED
      BY <2>3, <2>4, <3>1, <3>2, <3>3 DEF SoundBody
  <2> HIDE DEF h
  <2>8. /\ Sound(Message("SDES", 1, body)) /\ Message("SDES", 1, body)[1] = h
        /\ Len(Message("SDES", 1, body)) = Len(body) + 1
    <3>1. h = [type |-> "SDES", fmt |-> 1, length |-> Len(body)]
      BY DEF h
    <3> QED
      BY <2>7, <3>1, MessageIsSound DEF Types
  <2>9. Len(body) + 1 # 1
    BY <2>6
  <2> QED
    BY <2>4, <2>5, <2>8, <2>9
<1> QED
  BY <1>1, <1>2


\* A packet of the plugin's own, and the REMB it stands for.
LEMMA OwnIsCapped ==
  ASSUME NEW bs, Compound(bs), \A i \in 1..Len(bs) : Len(bs[i]) # 1 /\ ~IsRemb(bs[i][1]),
         NEW b \in 0..MaxRate
  PROVE  LET q == FlattenSeq(bs) \o Remb(Encode(b))
             cs == Append(bs, Remb([exp |-> 0, mantissa |-> b + 1]))
         IN  Compound(cs) /\ Capped(q, cs, b) /\ \E off : Matches(q, cs, off)
<1> DEFINE n == Len(bs)
           p == FlattenSeq(bs)
           x == Encode(b)
           y == [exp |-> 0, mantissa |-> b + 1]
           c == Remb(y)
           q == p \o Remb(x)
           cs == Append(bs, c)
<1>0. /\ n \in Nat /\ bs \in Seq(Seq(Word)) /\ b \in Nat /\ MaxRate \in Nat
      /\ \A i \in 1..n : Sound(bs[i])
  <2>1. n \in Nat /\ bs \in Seq(Seq(Word)) /\ \A i \in 1..n : Sound(bs[i])
    BY DEF Compound
  <2>3. MaxRate \in Nat
    BY BitratesFit
  <2>4. b \in Nat
    BY <2>3
  <2> QED
    BY <2>1, <2>3, <2>4
<1>1. PICK off : Matches(p, bs, off)
  BY FlattenMatches
<1>2. p \in Seq(Word) /\ Layout(p, bs, n, off) /\ Len(p) \in Nat /\ Len(p) = off[n + 1] /\ Len(p) = off[n + 1]
  BY <1>1 DEF Matches, Layout
<1>3. /\ x \in RateWord /\ Value(x) \in 0..b /\ (b - Value(x)) * (MaxMantissa \div 2) <= b
      /\ y \in RateWord
  BY <1>0, EncodeFacts DEF RateWord
<1>4. Value(y) = b + 1
  <2>1. y.exp = 0 /\ y.mantissa = b + 1
    OBVIOUS
  <2>2. Value(y) = y.mantissa * Bit[y.exp]
    BY DEF Value
  <2> HIDE DEF y
  <2> QED
    BY <1>0, <2>1, <2>2, BitFacts
<1> HIDE DEF x, y, p
<1>5. /\ Sound(c) /\ Len(c) = 6 /\ IsRemb(c[1]) /\ c[5] = y
      /\ Sound(Remb(x)) /\ Len(Remb(x)) = 6 /\ Remb(x)[5] = x
      /\ \A k \in 1..6 : k # 5 => Remb(x)[k] = c[k]
  BY <1>3, RembFacts
<1>6. Remb(x) \in Seq(Word) /\ c \in Seq(Word)
  BY <1>5 DEF Sound
<1> HIDE DEF c
<1>7. /\ cs \in Seq(Seq(Word)) /\ Len(cs) = n + 1 /\ cs[n + 1] = c
      /\ \A i \in 1..n : cs[i] = bs[i]
  BY <1>0, <1>6
<1> DEFINE r == Remb(x)
<1>8. r \in Seq(Word) /\ Len(r) = 6 /\ Len(c) = Len(r)
  BY <1>5, <1>6
<1> HIDE DEF r
<1>9. /\ q \in Seq(Word) /\ Len(q) = Len(p) + Len(r)
      /\ (\A k \in 1..Len(p) : q[k] = p[k]) /\ \A k \in 1..Len(r) : q[Len(p) + k] = r[k]
  <2>1. q = p \o r
    BY DEF r
  <2> HIDE DEF q
  <2>2. p \in Seq(Word) /\ r \in Seq(Word)
    BY <1>2, <1>8
  <2> QED
    BY <2>1, <2>2, Concatenation
<1>10. PICK pos : Layout(q, cs, n + 1, pos) /\ \A i \in 1..(n + 1) : pos[i] = off[i]
  <2>1. Appended(p, q, bs, cs, n)
    BY <1>5, <1>7, <1>8, <1>9 DEF Appended
  <2>2. Layout(p, bs, n, off)
    BY <1>2
  <2> HIDE DEF q, cs, n
  <2> QED
    BY <2>1, <2>2, AppendLayout
<1> HIDE DEF q, cs
<1>12. Compound(cs)
  <2>1. ASSUME NEW i \in 1..(n + 1) PROVE Sound(cs[i]) /\ (i < n + 1 => Len(cs[i]) # 1)
    <3>1. CASE i = n + 1
      BY <1>0, <1>5, <1>7, <3>1
    <3>2. CASE i # n + 1
      <4>1. i \in 1..n
        BY <1>0, <3>2
      <4> QED
        BY <1>0, <1>7, <4>1
    <3> QED
      BY <3>1, <3>2
  <2>2. n + 1 \in Nat
    BY <1>0
  <2> HIDE DEF n
  <2> QED
    BY <1>7, <2>1, <2>2 DEF Compound
<1>13. Matches(q, cs, pos)
  <2>1. ASSUME NEW i \in 1..(n + 1), NEW k \in 1..Len(cs[i]) PROVE Same(q[pos[i] + k], cs[i][k])
    <3>1. CASE i = n + 1
      <4>1. k \in 1..6 /\ cs[i] = c /\ pos[i] = Len(p)
        BY <1>2, <1>5, <1>7, <1>10, <3>1
      <4>2. q[pos[i] + k] = r[k]
        BY <1>8, <1>9, <4>1
      <4>3. k # 5 => r[k] = c[k]
        BY <1>5, <4>1 DEF r
      <4>4. k = 5 => r[k] = x /\ c[k] = y
        BY <1>5 DEF r
      <4> QED
        BY <1>3, <4>1, <4>2, <4>3, <4>4 DEF Same
    <3>2. CASE i # n + 1
      <4>1. i \in 1..n /\ cs[i] = bs[i] /\ pos[i] = off[i]
        BY <1>0, <1>7, <1>10, <3>2
      <4>2. off[i] + k \in 1..Len(p)
        BY <1>2, <4>1, Cells
      <4>3. Same(p[off[i] + k], bs[i][k])
        BY <1>1, <4>1 DEF Matches
      <4> QED
        BY <1>9, <4>1, <4>2, <4>3
    <3> QED
      BY <3>1, <3>2
  <2> HIDE DEF n
  <2> QED
    BY <1>7, <1>9, <1>10, <2>1 DEF Matches
<1>14. RembRates(q) = {pos[n + 1] + 5}
  <2>1. {j \in 1..Len(cs) : IsRemb(cs[j][1])} = {n + 1}
    <3>1. IsRemb(cs[n + 1][1]) /\ n + 1 \in 1..Len(cs)
      BY <1>0, <1>5, <1>7
    <3>2. ASSUME NEW j \in 1..Len(cs), j # n + 1 PROVE ~IsRemb(cs[j][1])
      <4>1. j \in 1..n
        BY <1>0, <1>7, <3>2
      <4> QED
        BY <1>7, <4>1
    <3> QED
      BY <3>1, <3>2
  <2>2. RembRates(q) = {pos[i] + 5 : i \in {j \in 1..Len(cs) : IsRemb(cs[j][1])}}
    BY <1>12, <1>13, RatesOfCompound
  <2> QED
    BY <2>1, <2>2
<1> DEFINE z == pos[n + 1] + 5
<1>15. q[z] = x /\ FlattenSeq(cs)[z] = y /\ z \in Nat
  <2>1. n + 1 \in 1..(n + 1) /\ n + 1 \in 1..Len(cs) /\ 5 \in 1..6
    BY <1>0, <1>7
  <2>2. pos[n + 1] = Len(p) /\ z = Len(p) + 5
    BY <1>2, <1>10, <2>1
  <2>3. q[z] = r[5]
    BY <1>8, <1>9, <2>1, <2>2
  <2>4. FlattenSeq(cs)[pos[n + 1] + 5] = cs[n + 1][5]
    <3>1. 5 \in 1..Len(cs[n + 1])
      BY <1>5, <1>7, <2>1
    <3>2. \A i \in 1..Len(cs) : \A k \in 1..Len(cs[i]) : FlattenSeq(cs)[pos[i] + k] = cs[i][k]
      BY <1>12, <1>13, FlattenOfCompound
    <3> QED
      BY <2>1, <3>1, <3>2
  <2> QED
    BY <1>2, <1>5, <1>7, <2>2, <2>3, <2>4 DEF r
<1> HIDE DEF z
<1>16. GetRemb(q) <= b
  <2>1. RembRates(q) = {z}
    BY <1>14 DEF z
  <2>2. Min(RembRates(q)) = z
    <3>1. Min(RembRates(q)) \in RembRates(q)
      <4>1. RembRates(q) \in SUBSET Nat /\ RembRates(q) # {}
        BY <1>15, <2>1
      <4> QED
        BY <4>1, MinOfNumbers
    <3> QED
      BY <2>1, <3>1
  <2>3. GetRemb(q) = Decode(x)
    BY <1>15, <2>1, <2>2 DEF GetRemb
  <2>4. Decode(x) \in 0..Value(x)
    BY <1>3, DecodeBounds
  <2> QED
    BY <1>0, <1>3, <2>3, <2>4
<1>17. Capped(q, cs, b)
  <2>1. ASSUME NEW i \in RembRates(q) PROVE i = z
    BY <1>14 DEF z
  <2>2. ~(Value(y) <= b) /\ Value(x) <= b
    BY <1>0, <1>3, <1>4
  <2> QED
    BY <1>3, <1>15, <1>16, <2>1, <2>2 DEF Capped, Honest
<1> QED
  BY <1>12, <1>13, <1>17 DEF q, cs, c, p, x, y


-----------------------------------------------------------------------------
(***************************************************************************)
(* The invariant.  While a packet is in hand it holds its messages: at     *)
(* some offsets its words are those of the messages, up to SSRCs and       *)
(* rates; the places of the SSRCs that were fixed hold the gateway's; and  *)
(* until the plugin caps it every rate is the one asked for.  No property  *)
(* of the packet alone is inductive, because each function finds its way   *)
(* by the lengths that the one before it left.                             *)
(***************************************************************************)
NotFixed == [l |-> "none", r |-> "none"]

InHand ==
  /\ fixed \in [l : {"none", "local"}, r : {"none", "remote"}]
  /\ Compound(blocks)
  /\ \E off : /\ Matches(packet, blocks, off)
              /\ FixedIn(packet, blocks, off, fixed.l, fixed.r)
              /\ phase = "incoming" => RatesAsked(packet, blocks, off)

RtcpInv ==
  /\ bitrate \in 0..MaxRate
  /\ phase \in {"idle", "incoming", "relayed", "reported"}
  /\ phase \in {"idle", "reported"} =>
       /\ fixed = NotFixed
       /\ IF packet = <<>> THEN blocks = <<>> ELSE blocks = <<packet>>
  /\ phase = "idle" => packet = <<>>
  /\ phase \in {"incoming", "relayed"} => InHand
  /\ phase = "relayed" => Capped(packet, blocks, cap)

LEMMA FlattenOne == FlattenSeq(<<>>) = <<>> /\ \A x : FlattenSeq(<<x>>) = x
<1>1. FlattenSeq(<<>>) = <<>>
  BY DEF FlattenSeq
<1>2. ASSUME NEW x PROVE FlattenSeq(<<x>>) = x
  <2> DEFINE bs == <<x>>
             Flat(f) == f = [i \in 1..Len(bs) |-> IF i = 1 THEN bs[i] ELSE f[i - 1] \o bs[i]]
             f == CHOOSE f : Flat(f)
             g == [i \in 1..1 |-> x]
  <2>1. Len(bs) = 1 /\ bs[1] = x
    OBVIOUS
  <2>2. Flat(g)
    <3>1. \A i \in 1..1 : i = 1
      OBVIOUS
    <3>2. [i \in 1..1 |-> IF i = 1 THEN bs[i] ELSE g[i - 1] \o bs[i]] = [i \in 1..1 |-> x]
      BY <2>1, <3>1
    <3> QED
      BY <2>1, <3>2
  <2>3. Flat(f)
    <3> HIDE DEF Flat
    <3> QED
      BY <2>2
  <2>4. FlattenSeq(bs) = f[Len(bs)]
    BY <2>1 DEF FlattenSeq
  <2> HIDE DEF f
  <2>5. f[1] = x
    BY <2>1, <2>3
  <2> QED
    BY <2>1, <2>4, <2>5
<1> QED
  BY <1>1, <1>2

\* The messages that Receive makes a packet of.
LEMMA ReceivedIsCompound ==
  ASSUME NEW n \in Nat, NEW bs \in [1..n -> Incoming], NEW ending \in Endings
  PROVE  Compound(bs \o ending)
<1> DEFINE W == Seq(Word)
           cs == bs \o ending
           bye == Message("BYE", 0, <<>>)
<1>1. Sound(bye) /\ Len(bye) = 1 /\ ~IsRemb(bye[1]) /\ bye \in W
  BY ByeIsSound DEF Sound
<1>2. \A i \in 1..n : Sound(bs[i]) /\ Len(bs[i]) # 1 /\ bs[i] \in W
  BY IncomingIsSound DEF Sound
<1>3. ending = <<>> \/ ending = <<bye>>
  BY DEF Endings
<1> HIDE DEF bye, W
<1>4. bs \in Seq(W) /\ Len(bs) = n
  <2>1. bs \in [1..n -> W]
    BY <1>2
  <2> QED
    BY <2>1
<1>5. ending \in Seq(W) /\ Len(ending) \in {0, 1} /\ \A k \in 1..Len(ending) : k = 1 /\ ending[k] = bye
  <2>1. CASE ending = <<>>
    <3>1. <<>> \in Seq(W) /\ Len(<<>>) = 0
      OBVIOUS
    <3> QED
      BY <2>1, <3>1
  <2>2. CASE ending = <<bye>>
    <3>1. <<bye>> \in Seq(W) /\ Len(<<bye>>) = 1 /\ <<bye>>[1] = bye
      BY <1>1
    <3>2. \A k \in 1..1 : k = 1
      OBVIOUS
    <3> QED
      BY <2>2, <3>1, <3>2
  <2> QED
    BY <1>3, <2>1, <2>2
<1>6. /\ cs \in Seq(W) /\ Len(cs) = n + Len(ending)
      /\ \A i \in 1..n : cs[i] = bs[i]
      /\ \A k \in 1..Len(ending) : cs[n + k] = ending[k]
  BY <1>4, <1>5, Concatenation
<1> HIDE DEF cs
<1>7. ASSUME NEW i \in 1..Len(cs)
      PROVE  Sound(cs[i]) /\ (i < Len(cs) => Len(cs[i]) # 1)
  <2>1. CASE i \in 1..n
    BY <1>2, <1>6, <2>1
  <2>2. CASE i \notin 1..n
    <3>1. i = n + 1 /\ Len(ending) = 1 /\ i = Len(cs)
      BY <1>5, <1>6, <2>2
    <3>2. 1 \in 1..Len(ending)
      BY <3>1
    <3>3. cs[i] = bye
      BY <1>5, <1>6, <3>1, <3>2
    <3> QED
      BY <1>1, <3>1, <3>3
  <2> QED
    BY <2>1, <2>2
<1>8. Compound(cs)
  <2>1. cs \in Seq(Seq(Word)) /\ Len(cs) \in Nat
    BY <1>5, <1>6 DEF W
  <2> QED
    BY <1>7, <2>1 DEF Compound
<1> QED
  BY <1>7, <1>8 DEF cs


-----------------------------------------------------------------------------
LEMMA RtcpInvInit == Init => RtcpInv
<1> SUFFICES ASSUME Init PROVE RtcpInv
  OBVIOUS
<1>1. 0 \in 0..MaxRate
  <2>1. MinBitrate \in 0..MaxRate
    BY BitratesFit
  <2>2. MaxRate \in Int
    BY BitratesFit
  <2> QED
    BY <2>1, <2>2
<1> QED
  BY <1>1 DEF Init, RtcpInv, NotFixed

LEMMA ReceiveKeeps ==
  ASSUME RtcpInv, Receive PROVE RtcpInv'
<1>0. PICK n \in 1..MaxBlocks : \E bs \in [1..n -> Incoming], ending \in Endings : blocks' = bs \o ending
  BY DEF Receive
<1>1. PICK bs \in [1..n -> Incoming], ending \in Endings : blocks' = bs \o ending
  BY <1>0
<1>2. n \in Nat
  BY ConstantsAssumption
<1>3. Compound(blocks')
  BY <1>1, <1>2, ReceivedIsCompound
<1>4. /\ packet' = FlattenSeq(blocks') /\ phase' = "incoming" /\ bitrate' = bitrate
      /\ fixed' = NotFixed
  BY DEF Receive, RtcpInv
<1>5. PICK off : Matches(packet', blocks', off)
  BY <1>3, <1>4, FlattenMatches
<1>6. FixedIn(packet', blocks', off, "none", "none")
  BY DEF FixedIn
<1>7. RatesAsked(packet', blocks', off)
  <2>1. \A i \in 1..Len(blocks') : \A k \in 1..Len(blocks'[i]) : packet'[off[i] + k] = blocks'[i][k]
    BY <1>3, <1>4, <1>5, FlattenOfCompound
  <2>2. ASSUME NEW i \in 1..Len(blocks'), IsRemb(blocks'[i][1]) PROVE packet'[off[i] + 5] = blocks'[i][5]
    <3>1. Len(blocks'[i]) = 6
      BY <1>3, <1>5, <2>2, MessageFacts
    <3>2. 5 \in 1..Len(blocks'[i])
      BY <3>1
    <3> QED
      BY <2>1, <3>2
  <2> QED
    BY <1>3, <2>2 DEF RatesAsked
<1>8. InHand'
  <2>1. fixed' \in [l : {"none", "local"}, r : {"none", "remote"}] /\ fixed'.l = "none" /\ fixed'.r = "none"
    BY <1>4 DEF NotFixed
  <2> QED
    BY <1>3, <1>5, <1>6, <1>7, <2>1 DEF InHand
<1> QED
  BY <1>4, <1>8 DEF RtcpInv

LEMMA FixKeeps ==
  ASSUME RtcpInv, Fix PROVE RtcpInv'
<1>1. PICK l \in {"none", "local"}, r \in {"none", "remote"} :
        fixed' = [l |-> l, r |-> r] /\ packet' = FixSsrc(packet, l, r)
  BY DEF Fix
<1>2. phase = "incoming" /\ phase' = phase /\ bitrate' = bitrate /\ blocks' = blocks
  BY DEF Fix
<1>3. InHand
  BY <1>2 DEF RtcpInv
<1>4. PICK off : Matches(packet, blocks, off) /\ RatesAsked(packet, blocks, off)
  BY <1>2, <1>3 DEF InHand
<1>5. Compound(blocks)
  BY <1>3 DEF InHand
<1>6. /\ Matches(packet', blocks, off) /\ FixedIn(packet', blocks, off, l, r)
      /\ \A x \in DOMAIN packet : packet[x] \notin SsrcWord => packet'[x] = packet[x]
  BY <1>1, <1>4, <1>5, FixSsrcFixes
<1>7. RatesAsked(packet', blocks, off)
  <2>1. ASSUME NEW i \in 1..Len(blocks), IsRemb(blocks[i][1]) PROVE packet'[off[i] + 5] = packet[off[i] + 5]
    <3>1. Len(blocks[i]) = 6
      BY <1>4, <1>5, <2>1, MessageFacts
    <3>2. 5 \in 1..Len(blocks[i])
      BY <3>1
    <3>3. Layout(packet, blocks, Len(blocks), off) /\ packet \in Seq(Word)
      BY <1>4 DEF Matches
    <3>4. off[i] + 5 \in 1..Len(packet)
      BY <3>2, <3>3, Cells
    <3>5. off[i] + 5 \in DOMAIN packet
      BY <3>3, <3>4
    <3>6. packet[off[i] + 5] \in RateWord
      BY <1>4, <1>5, <2>1 DEF RatesAsked, Compound, Sound
    <3>7. packet[off[i] + 5] \notin SsrcWord
      <4>1. packet[off[i] + 5] \in Word
        BY <3>3, <3>4
      <4> QED
        BY <3>6, <4>1, WordKinds
    <3> QED
      BY <1>6, <3>5, <3>7
  <2> QED
    BY <1>4, <2>1 DEF RatesAsked
<1>8. InHand'
  <2>1. fixed' \in [l : {"none", "local"}, r : {"none", "remote"}] /\ fixed'.l = l /\ fixed'.r = r
    BY <1>1
  <2> QED
    BY <1>2, <1>5, <1>6, <1>7, <2>1 DEF InHand
<1> QED
  BY <1>2, <1>8 DEF RtcpInv

LEMMA RetransmitKeeps ==
  ASSUME RtcpInv, Retransmit PROVE RtcpInv'
<1>1. /\ phase = "incoming" /\ phase' = phase /\ bitrate' = bitrate /\ fixed' = fixed
      /\ packet' = RemoveNacks(packet)
  BY DEF Retransmit
<1>2. blocks' = WithoutNack(blocks)
  BY DEF Retransmit, WithoutNack, NackPlaces
<1>3. InHand
  BY <1>1 DEF RtcpInv
<1>4. PICK off : /\ Matches(packet, blocks, off)
                 /\ FixedIn(packet, blocks, off, fixed.l, fixed.r)
                 /\ RatesAsked(packet, blocks, off)
  BY <1>1, <1>3 DEF InHand
<1>5. Compound(blocks)
  BY <1>3 DEF InHand
<1>6. /\ Compound(blocks')
      /\ \E pos : /\ Matches(packet', blocks', pos)
                  /\ FixedIn(packet', blocks', pos, fixed.l, fixed.r)
                  /\ RatesAsked(packet', blocks', pos)
  BY <1>1, <1>2, <1>4, <1>5, RemoveNacksRemoves
<1>7. InHand'
  BY <1>1, <1>3, <1>6 DEF InHand
<1> QED
  BY <1>1, <1>7 DEF RtcpInv

LEMMA IncomingRtcpKeeps ==
  ASSUME RtcpInv, IncomingRtcp PROVE RtcpInv'
<1>1. /\ phase = "incoming" /\ phase' = "relayed" /\ bitrate' = bitrate /\ fixed' = fixed
      /\ packet' = CapRemb(packet, bitrate) /\ blocks' = blocks /\ cap' = bitrate
  BY DEF IncomingRtcp
<1>2. InHand /\ bitrate \in 0..MaxRate
  BY <1>1 DEF RtcpInv
<1>3. PICK off : /\ Matches(packet, blocks, off)
                 /\ FixedIn(packet, blocks, off, fixed.l, fixed.r)
                 /\ RatesAsked(packet, blocks, off)
  BY <1>1, <1>2 DEF InHand
<1>4. Compound(blocks)
  BY <1>2 DEF InHand
<1>5. /\ Matches(packet', blocks, off) /\ Capped(packet', blocks, bitrate)
      /\ \A x \in DOMAIN packet : packet[x] \notin RateWord => packet'[x] = packet[x]
  BY <1>1, <1>2, <1>3, <1>4, CapRembCaps
<1>6. FixedIn(packet', blocks, off, fixed.l, fixed.r)
  <2>1. fixed.l \in Sources /\ fixed.r \in Sources
    BY <1>2 DEF InHand, Sources
  <2> QED
    BY <1>3, <1>4, <1>5, <2>1, FixedInStill
<1>7. InHand'
  BY <1>1, <1>2, <1>4, <1>5, <1>6 DEF InHand
<1> QED
  BY <1>1, <1>2, <1>5, <1>7 DEF RtcpInv

LEMMA OwnKeeps ==
  ASSUME NEW before, Compound(before),
         \A i \in 1..Len(before) : Len(before[i]) # 1 /\ ~IsRemb(before[i][1]),
         NEW b \in 0..MaxRate, bitrate' = b, fixed = NotFixed, Own(before, b)
  PROVE  RtcpInv'
<1>1. /\ phase' = "relayed" /\ cap' = b /\ fixed' = fixed
      /\ packet' = FlattenSeq(before) \o Remb(Encode(b))
      /\ blocks' = Append(before, Remb([exp |-> 0, mantissa |-> b + 1]))
  BY DEF Own
<1>2. Compound(blocks') /\ Capped(packet', blocks', b) /\ \E off : Matches(packet', blocks', off)
  BY <1>1, OwnIsCapped
<1>3. \A off : FixedIn(packet', blocks', off, "none", "none")
  BY DEF FixedIn
<1>4. InHand'
  <2>1. fixed' \in [l : {"none", "local"}, r : {"none", "remote"}] /\ fixed'.l = "none" /\ fixed'.r = "none"
    BY <1>1 DEF NotFixed
  <2> QED
    BY <1>1, <1>2, <1>3, <2>1 DEF InHand
<1> QED
  BY <1>1, <1>2, <1>4 DEF RtcpInv

LEMMA ConfigureKeeps ==
  ASSUME RtcpInv, NEW b \in Bitrates, Configure(b) PROVE RtcpInv'
<1>1. phase = "idle" /\ bitrate' = b /\ b \in 0..MaxRate /\ fixed = NotFixed
  BY BitratesFit DEF Configure, RtcpInv
<1>2. CASE b > 0
  <2>1. Own(<<>>, b)
    BY <1>2 DEF Configure
  <2>2. Len(<<>>) = 0 /\ 1..0 = {} /\ <<>> \in Seq(Seq(Word))
    OBVIOUS
  <2>3. Compound(<<>>) /\ \A i \in 1..Len(<<>>) : FALSE
    BY <2>2 DEF Compound
  <2> QED
    BY <1>1, <2>1, <2>3, OwnKeeps
<1>3. CASE ~(b > 0)
  BY <1>1, <1>3 DEF Configure, RtcpInv
<1> QED
  BY <1>2, <1>3

LEMMA SlowLinkKeeps ==
  ASSUME RtcpInv, SlowLink PROVE RtcpInv'
<1> DEFINE half == (IF bitrate > 0 THEN bitrate ELSE DefaultBitrate) \div 2
           b == Max({half, MinBitrate})
           before == <<EmptyReport, Sdes>>
<1>1. bitrate' = b /\ Own(before, b) /\ fixed = NotFixed
  BY DEF SlowLink, RtcpInv
<1>2. half \in 0..MaxRate /\ MinBitrate \in 0..MaxRate
  <2>1. bitrate \in 0..MaxRate /\ DefaultBitrate \in 0..MaxRate /\ MinBitrate \in 0..MaxRate
    BY BitratesFit DEF RtcpInv
  <2>2. MaxRate \in Nat
    BY BitratesFit
  <2> QED
    BY <2>1, <2>2
<1> HIDE DEF half
<1>3. b \in 0..MaxRate
  <2>1. MaxRate \in Nat
    BY BitratesFit
  <2>2. \E x \in {half, MinBitrate} : \A y \in {half, MinBitrate} : x >= y
    <3>1. half >= MinBitrate \/ MinBitrate >= half
      BY <1>2, <2>1
    <3>2. half >= half /\ MinBitrate >= MinBitrate
      BY <1>2, <2>1
    <3> QED
      BY <3>1, <3>2
  <2>3. b \in {half, MinBitrate}
    BY <2>2 DEF Max
  <2> QED
    BY <1>2, <2>3
<1> HIDE DEF b
<1>4. /\ Compound(before)
      /\ \A i \in 1..Len(before) : Len(before[i]) # 1 /\ ~IsRemb(before[i][1])
  <2> DEFINE W == Seq(Word)
  <2>1. /\ Sound(EmptyReport) /\ Len(EmptyReport) # 1 /\ ~IsRemb(EmptyReport[1]) /\ EmptyReport \in W
        /\ Sound(Sdes) /\ Len(Sdes) # 1 /\ ~IsRemb(Sdes[1]) /\ Sdes \in W
    BY ReportsFacts DEF Sound
  <2> HIDE DEF W
  <2>2. before \in Seq(W) /\ Len(before) = 2 /\ before[1] = EmptyReport /\ before[2] = Sdes
    BY <2>1
  <2> HIDE DEF before
  <2>3. \A i \in 1..Len(before) : before[i] = EmptyReport \/ before[i] = Sdes
    <3>1. \A i \in 1..2 : i = 1 \/ i = 2
      OBVIOUS
    <3> QED
      BY <2>2, <3>1
  <2>4. before \in Seq(Seq(Word)) /\ Len(before) \in Nat
    BY <2>2 DEF W
  <2> QED
    BY <2>1, <2>3, <2>4 DEF Compound
<1> HIDE DEF before
<1> QED
  BY <1>1, <1>3, <1>4, OwnKeeps

LEMMA ReportKeeps ==
  ASSUME RtcpInv, Report PROVE RtcpInv'
<1>1. /\ phase = "idle" /\ phase' = "reported" /\ bitrate' = bitrate /\ fixed' = fixed
      /\ blocks' = IF packet' = <<>> THEN <<>> ELSE <<packet'>>
  BY DEF Report
<1> QED
  BY <1>1 DEF RtcpInv

LEMMA RtcpInvNext == RtcpInv /\ [Next]_vars => RtcpInv'
<1> SUFFICES ASSUME RtcpInv, [Next]_vars PROVE RtcpInv'
  OBVIOUS
<1>1. CASE Receive
  BY <1>1, ReceiveKeeps
<1>2. CASE Fix
  BY <1>2, FixKeeps
<1>3. CASE Retransmit
  BY <1>3, RetransmitKeeps
<1>4. CASE IncomingRtcp
  BY <1>4, IncomingRtcpKeeps
<1>5. CASE \E b \in Bitrates : Configure(b)
  BY <1>5, ConfigureKeeps
<1>6. CASE SlowLink
  BY <1>6, SlowLinkKeeps
<1>7. CASE Report
  BY <1>7, ReportKeeps
<1>8. CASE Done
  BY <1>8 DEF Done, RtcpInv, NotFixed
<1>9. CASE UNCHANGED vars
  BY <1>9 DEF vars, RtcpInv, InHand
<1> QED
  BY <1>1, <1>2, <1>3, <1>4, <1>5, <1>6, <1>7, <1>8, <1>9 DEF Next

\* A packet in hand always holds its messages, with what has been written
\* into it, and the bitrate is one that a REMB can carry: the state that
\* rtcp.c's functions leave to one another (rtcp.c:23-600).
THEOREM PacketsAreKept == Spec => []RtcpInv
<1> QED
  BY RtcpInvInit, RtcpInvNext, PTL DEF Spec

\* Whatever is fixed, cut and capped, in any order and however many messages
\* there are, every in-place write of rtcp.c falls on the word it means.
THEOREM WritesFallInPlace == Spec => []PacketIsBlocks
<1>1. RtcpInv => PacketIsBlocks
  <2> SUFFICES ASSUME RtcpInv PROVE PacketIsBlocks
    OBVIOUS
  <2>1. CASE phase \in {"idle", "reported"}
    BY <2>1, FlattenOne DEF RtcpInv, PacketIsBlocks
  <2>2. CASE phase \in {"incoming", "relayed"}
    BY <2>2, MatchesIsBlocks DEF RtcpInv, InHand, PacketIsBlocks
  <2> QED
    BY <2>1, <2>2 DEF RtcpInv
<1> QED
  BY <1>1, PacketsAreKept, PTL

\* After janus_rtcp_fix_ssrc the functions that tell peers apart find the
\* gateway's SSRCs (rtcp.c:23-111, 111-329), also in what is left when a NACK
\* was taken out and a REMB was capped.
THEOREM PeersAreHidden == Spec => []SsrcFixed
<1>1. RtcpInv => SsrcFixed
  <2> SUFFICES ASSUME RtcpInv PROVE SsrcFixed
    OBVIOUS
  <2>1. CASE phase \in {"idle", "reported"}
    BY <2>1 DEF RtcpInv, SsrcFixed, NotFixed
  <2>2. CASE phase \in {"incoming", "relayed"}
    BY <2>2, FixedInFinds DEF RtcpInv, InHand, SsrcFixed
  <2> QED
    BY <2>1, <2>2 DEF RtcpInv
<1> QED
  BY <1>1, PacketsAreKept, PTL

\* The gateway never reads more than the plugin's bitrate out of a packet it
\* relays, whatever exponents peers send and whatever the build makes of a long
\* shift; and a REMB that keeps to 32 bits is lowered exactly when it asks for
\* more, and loses no more than the mantissa's last bits (rtcp.c:488-600,
\* libjanus_serial2.c:523).
THEOREM CapsAreHonest == Spec => []CapHonest
<1>1. RtcpInv => CapHonest
  BY DEF RtcpInv, CapHonest, Capped, Honest
<1> QED
  BY <1>1, PacketsAreKept, PTL


-----------------------------------------------------------------------------
(***************************************************************************)
(* The reports.  The blocks that janus_rtcp_nacks makes name the numbers   *)
(* taken so far, up to where the sequence starts over, and their first     *)
(* numbers are too far apart for any two to share a block.                 *)
(***************************************************************************)
\* The numbers of a list up to where the sequence starts over: those that
\* janus_rtcp_nacks does not take for named already.
BeforeWrap(list) == {list[i] : i \in {j \in DOMAIN list : list[1] <= list[j]}}

NackBlock == [pid : Int, blp : SUBSET Int]

\* The numbers of a list are in order up to where the sequence starts over.
Missed(list, n) ==
  /\ n \in Nat /\ n > 0 /\ list \in [1..n -> Nat] /\ Len(list) = n
  /\ \A i, j \in 1..n : i < j /\ list[1] <= list[j] => list[1] <= list[i] /\ list[i] < list[j]

Asked(list, i) == {list[j] : j \in {x \in 1..i : list[1] <= list[x]}}

Apart(q, m) == \A i, j \in 1..m : i < j => q[j] - q[i] > BlpBits

NackBlocks(state, list, i, words) ==
  /\ state \in Seq(NackBlock) /\ Len(state) > 0 /\ Len(state) + 3 <= words
  /\ UNION {Named(state[k]) : k \in 1..Len(state)} = Asked(list, i)
  /\ \A k \in 1..Len(state) : state[k].pid \in Asked(list, i)
  /\ \A k, l \in 1..Len(state) : k < l => state[l].pid - state[k].pid > BlpBits

\* More numbers than blocks, no two for one block.
TooMany(list, words) ==
  \E m \in Nat : m > words - 3 /\ \E q \in [1..m -> BeforeWrap(list)] : Apart(q, m)

LEMMA AskedGrows ==
  ASSUME NEW list, NEW n, Missed(list, n), NEW i \in 1..n, i + 1 \in 1..n
  PROVE  /\ Asked(list, i) \subseteq Nat
         /\ Asked(list, i) \subseteq BeforeWrap(list)
         /\ list[i + 1] \in Nat
         /\ list[1] <= list[i + 1] =>
              /\ Asked(list, i + 1) = Asked(list, i) \cup {list[i + 1]}
              /\ list[i + 1] \in BeforeWrap(list)
              /\ \A x \in Asked(list, i) : x < list[i + 1]
         /\ ~(list[1] <= list[i + 1]) =>
              /\ Asked(list, i + 1) = Asked(list, i)
              /\ \A x \in Asked(list, i) : list[i + 1] < x
<1>1. /\ n \in Nat /\ DOMAIN list = 1..n /\ (\A x \in 1..n : list[x] \in Nat)
      /\ \A x, j \in 1..n : x < j /\ list[1] <= list[j] => list[1] <= list[x] /\ list[x] < list[j]
  BY DEF Missed
<1>2. i \in Nat /\ i + 1 <= n /\ 1..(i + 1) = 1..i \cup {i + 1} /\ (\A x \in 1..i : x \in 1..n /\ x < i + 1)
      /\ 1 \in 1..n
  BY <1>1
<1>3. Asked(list, i) \subseteq Nat /\ Asked(list, i) \subseteq BeforeWrap(list) /\ list[i + 1] \in Nat
  BY <1>1, <1>2 DEF Asked, BeforeWrap
<1>4. ASSUME list[1] <= list[i + 1]
      PROVE  /\ Asked(list, i + 1) = Asked(list, i) \cup {list[i + 1]}
             /\ list[i + 1] \in BeforeWrap(list)
             /\ \A x \in Asked(list, i) : x < list[i + 1]
  <2>1. Asked(list, i + 1) = Asked(list, i) \cup {list[i + 1]}
    BY <1>2, <1>4 DEF Asked
  <2>2. list[i + 1] \in BeforeWrap(list)
    BY <1>1, <1>4 DEF BeforeWrap
  <2>3. \A x \in Asked(list, i) : x < list[i + 1]
    BY <1>1, <1>2, <1>4 DEF Asked
  <2> QED
    BY <2>1, <2>2, <2>3
<1>5. ASSUME ~(list[1] <= list[i + 1])
      PROVE  Asked(list, i + 1) = Asked(list, i) /\ \A x \in Asked(list, i) : list[i + 1] < x
  <2>1. Asked(list, i + 1) = Asked(list, i)
    BY <1>2, <1>5 DEF Asked
  <2>2. \A x \in Asked(list, i) : list[1] <= x /\ x \in Nat
    BY <1>1, <1>2 DEF Asked
  <2>3. list[i + 1] < list[1] /\ list[1] \in Nat
    BY <1>1, <1>2, <1>5
  <2> QED
    BY <1>3, <2>1, <2>2, <2>3
<1> QED
  BY <1>3, <1>4, <1>5

\* One more number: it is named, or the buffer cannot be enough.
LEMMA AddLostNames ==
  ASSUME NEW list, NEW n, Missed(list, n), NEW i \in 1..n, i + 1 \in 1..n,
         NEW words \in Nat, NEW state, NackBlocks(state, list, i, words)
  PROVE  LET next == AddLost(state, list[i + 1], words)
         IN  NackBlocks(next, list, i + 1, words) \/ (next = <<>> /\ TooMany(list, words))
<1> DEFINE x == list[i + 1]
           m == Len(state)
           last == state[m]
           next == AddLost(state, x, words)
           marked == [last EXCEPT !.blp = @ \cup ({x - last.pid} \cap 1..BlpBits)]
<1>1. /\ state \in Seq(NackBlock) /\ m \in Nat /\ m > 0 /\ m + 3 <= words
      /\ UNION {Named(state[k]) : k \in 1..m} = Asked(list, i)
      /\ \A k \in 1..m : state[k].pid \in Asked(list, i) /\ state[k] \in NackBlock
      /\ \A k, l \in 1..m : k < l => state[l].pid - state[k].pid > BlpBits
  BY DEF NackBlocks
<1>2. state # <<>> /\ m \in 1..m
  BY <1>1
<1>3. last.pid \in Asked(list, i) /\ last \in NackBlock
  BY <1>1, <1>2
<1>4. /\ Asked(list, i) \subseteq Nat /\ Asked(list, i) \subseteq BeforeWrap(list) /\ x \in Nat
      /\ last.pid \in Nat /\ BlpBits \in Nat
  BY <1>3, AskedGrows, ConstantsAssumption
<1>5. next = IF x - last.pid < 1 THEN state
             ELSE IF x - last.pid > BlpBits
                  THEN IF m + 4 <= words THEN Append(state, [pid |-> x, blp |-> {}]) ELSE <<>>
                  ELSE [state EXCEPT ![m] = marked]
  BY <1>2 DEF AddLost
<1> HIDE DEF next
<1>6. CASE ~(list[1] <= x)
  <2>1. Asked(list, i + 1) = Asked(list, i) /\ x < last.pid
    BY <1>3, <1>6, AskedGrows
  <2>2. next = state
    BY <1>4, <1>5, <2>1
  <2>3. NackBlocks(state, list, i + 1, words)
    BY <2>1 DEF NackBlocks
  <2> QED
    BY <2>2, <2>3 DEF next, x
<1>7. CASE list[1] <= x
  <2>1. /\ Asked(list, i + 1) = Asked(list, i) \cup {x}
        /\ x \in BeforeWrap(list)
        /\ \A y \in Asked(list, i) : y < x
    BY <1>7, AskedGrows
  <2>2. ~(x - last.pid < 1)
    BY <1>3, <1>4, <2>1
  <2> HIDE DEF last, m, x
  <2>3. CASE x - last.pid > BlpBits
    <3> DEFINE block == [pid |-> x, blp |-> {}]
               longer == Append(state, block)
    <3>1. block \in NackBlock /\ Named(block) = {x} /\ block.pid = x
      BY <1>4 DEF NackBlock, Named
    <3> HIDE DEF block
    <3>2. /\ longer \in Seq(NackBlock) /\ Len(longer) = m + 1 /\ longer[m + 1] = block
          /\ \A k \in 1..m : longer[k] = state[k]
      BY <1>1, <3>1 DEF m
    <3> HIDE DEF longer
    <3>3. 1..(m + 1) = 1..m \cup {m + 1}
      BY <1>1
    <3>4. \A k, l \in 1..(m + 1) : k < l => longer[l].pid - longer[k].pid > BlpBits
      <4> SUFFICES ASSUME NEW k \in 1..(m + 1), NEW l \in 1..(m + 1), k < l
                   PROVE  longer[l].pid - longer[k].pid > BlpBits
        OBVIOUS
      <4>1. k \in 1..m
        BY <1>1
      <4>2. CASE l \in 1..m
        BY <1>1, <3>2, <4>1, <4>2
      <4>3. CASE l = m + 1
        <5>1. longer[l].pid = x /\ longer[k].pid = state[k].pid
          BY <3>1, <3>2, <4>1, <4>3
        <5>2. state[k].pid \in Nat /\ state[k].pid <= last.pid
          <6>1. state[k].pid \in Nat
            BY <1>1, <1>4, <4>1
          <6>2. CASE k = m
            BY <1>4, <6>1, <6>2 DEF last
          <6>3. CASE k # m
            <7>1. k < m /\ m \in 1..m
              BY <1>1, <4>1, <6>3
            <7>2. state[m].pid - state[k].pid > BlpBits
              BY <1>1, <4>1, <7>1
            <7> QED
              BY <1>4, <6>1, <7>2 DEF last
          <6> QED
            BY <6>2, <6>3
        <5> QED
          BY <1>4, <2>3, <5>1, <5>2
      <4> QED
        BY <3>3, <4>2, <4>3
    <3>5. CASE m + 4 <= words
      <4>1. next = longer
        BY <1>5, <2>2, <2>3, <3>5 DEF longer, block
      <4>2. UNION {Named(longer[k]) : k \in 1..(m + 1)} = Asked(list, i + 1)
        <5>1. ASSUME NEW y, NEW k \in 1..(m + 1), y \in Named(longer[k]) PROVE y \in Asked(list, i + 1)
          <6>1. CASE k \in 1..m
            BY <1>1, <2>1, <3>2, <5>1, <6>1
          <6>2. CASE k = m + 1
            BY <2>1, <3>1, <3>2, <5>1, <6>2
          <6> QED
            BY <3>3, <6>1, <6>2
        <5>2. ASSUME NEW y \in Asked(list, i + 1) PROVE \E k \in 1..(m + 1) : y \in Named(longer[k])
          <6>1. CASE y = x
            BY <3>1, <3>2, <3>3, <6>1
          <6>2. CASE y # x
            <7>1. PICK k \in 1..m : y \in Named(state[k])
              BY <1>1, <2>1, <6>2
            <7> QED
              BY <3>2, <3>3, <7>1
          <6> QED
            BY <6>1, <6>2
        <5> QED
          BY <5>1, <5>2
      <4>3. \A k \in 1..(m + 1) : longer[k].pid \in Asked(list, i + 1)
        BY <1>1, <2>1, <3>1, <3>2, <3>3
      <4>4. Len(longer) > 0 /\ Len(longer) + 3 <= words
        BY <1>1, <3>2, <3>5
      <4>5. NackBlocks(longer, list, i + 1, words)
        BY <3>2, <3>4, <4>2, <4>3, <4>4 DEF NackBlocks
      <4> QED
        BY <4>1, <4>5 DEF next, x
    <3>6. CASE ~(m + 4 <= words)
      <4> DEFINE q == [k \in 1..(m + 1) |-> longer[k].pid]
      <4>1. next = <<>>
        BY <1>5, <2>2, <2>3, <3>6
      <4>2. \A k \in 1..(m + 1) : longer[k].pid \in BeforeWrap(list)
        BY <1>1, <1>4, <2>1, <3>1, <3>2, <3>3
      <4>3. q \in [1..(m + 1) -> BeforeWrap(list)]
        BY <4>2
      <4>4. Apart(q, m + 1)
        BY <3>4 DEF Apart
      <4>5. m + 1 \in Nat /\ m + 1 > words - 3
        BY <1>1, <3>6
      <4>6. TooMany(list, words)
        BY <4>3, <4>4, <4>5 DEF TooMany
      <4> QED
        BY <4>1, <4>6 DEF next, x
    <3> QED
      BY <3>5, <3>6
  <2>4. CASE ~(x - last.pid > BlpBits)
    <3> DEFINE same == [state EXCEPT ![m] = marked]
    <3>1. x - last.pid \in 1..BlpBits /\ x - last.pid \in Int /\ last.pid + (x - last.pid) = x
      BY <1>4, <2>2, <2>4
    <3>2. marked \in NackBlock /\ marked.pid = last.pid /\ marked.blp = last.blp \cup {x - last.pid}
      BY <1>3, <3>1 DEF NackBlock
    <3>3. Named(marked) = Named(last) \cup {x}
      BY <3>1, <3>2 DEF Named
    <3> HIDE DEF marked
    <3>4. /\ same \in Seq(NackBlock) /\ Len(same) = m /\ same[m] = marked
          /\ \A k \in 1..m : k # m => same[k] = state[k]
      BY <1>1, <1>2, <3>2 DEF m
    <3>5. next = same
      BY <1>5, <2>2, <2>4
    <3> HIDE DEF same
    <3>6. \A k \in 1..m : same[k].pid = state[k].pid
      BY <3>2, <3>4 DEF last
    <3>7. UNION {Named(same[k]) : k \in 1..m} = Asked(list, i + 1)
      <4>1. ASSUME NEW y, NEW k \in 1..m, y \in Named(same[k]) PROVE y \in Asked(list, i + 1)
        <5>1. y \in Named(state[k]) \/ y = x
          BY <3>3, <3>4, <4>1 DEF last
        <5> QED
          BY <1>1, <2>1, <5>1
      <4>2. ASSUME NEW y \in Asked(list, i + 1) PROVE \E k \in 1..m : y \in Named(same[k])
        <5>1. CASE y = x
          BY <1>2, <3>3, <3>4, <5>1
        <5>2. CASE y # x
          <6>1. PICK k \in 1..m : y \in Named(state[k])
            BY <1>1, <2>1, <5>2
          <6> QED
            BY <3>3, <3>4, <6>1 DEF last
        <5> QED
          BY <5>1, <5>2
      <4> QED
        BY <4>1, <4>2
    <3>8. NackBlocks(same, list, i + 1, words)
      <4>1. \A k \in 1..m : same[k].pid \in Asked(list, i + 1)
        BY <1>1, <2>1, <3>6
      <4>2. \A k, l \in 1..m : k < l => same[l].pid - same[k].pid > BlpBits
        BY <1>1, <3>6
      <4> QED
        BY <1>1, <3>4, <3>7, <4>1, <4>2 DEF NackBlocks
    <3> QED
      BY <3>5, <3>8 DEF next, x
  <2> QED
    BY <2>3, <2>4
<1> QED
  BY <1>6, <1>7

Packed(state) ==
  IF state = <<>> THEN <<>> ELSE Message("RTPFB", 1, <<Ssrc("none"), Ssrc("none")>> \o state)

\* The blocks after each number.
NackRun(f, list, n, words) ==
  /\ f[1] = <<[pid |-> list[1], blp |-> {}]>>
  /\ \A i \in 1..(n - 1) : f[i + 1] = AddLost(f[i], list[i + 1], words)

LEMMA NacksRecur ==
  ASSUME NEW list, NEW n, Missed(list, n), NEW words
  PROVE  \E f : NackRun(f, list, n, words) /\ Nacks(list, words) = Packed(f[n])
<1> DEFINE base == <<[pid |-> list[1], blp |-> {}]>>
           Rec(f) == f = [i \in DOMAIN list |-> IF i = 1 THEN base ELSE AddLost(f[i - 1], list[i], words)]
           Parts(g, m) == \A i \in 1..m : g[i] = IF i = 1 THEN base ELSE AddLost(g[i - 1], list[i], words)
           S == {m \in Nat : \E g : Parts(g, m)}
           f == CHOOSE f : Rec(f)
<1>1. n \in Nat /\ n > 0 /\ DOMAIN list = 1..n /\ Len(list) = n
  BY DEF Missed
<1>2. Nacks(list, words) = Packed(f[Len(list)])
  BY DEF Nacks, Packed
<1> HIDE DEF base
<1>3. 0 \in S
  <2>1. \A g : Parts(g, 0)
    <3>1. 1..0 = {}
      OBVIOUS
    <3> QED
      BY <3>1
  <2> QED
    BY <2>1
<1>4. ASSUME NEW m \in Nat, m \in S PROVE m + 1 \in S
  <2>1. PICK g : Parts(g, m)
    BY <1>4
  <2> DEFINE b == IF m = 0 THEN base ELSE AddLost(g[m], list[m + 1], words)
             h == [i \in 1..(m + 1) |-> IF i = m + 1 THEN b ELSE g[i]]
  <2>2. \A i \in 1..m : h[i] = g[i]
    OBVIOUS
  <2>3. h[m + 1] = b
    OBVIOUS
  <2> HIDE DEF h
  <2>4. ASSUME NEW i \in 1..(m + 1) PROVE h[i] = IF i = 1 THEN base ELSE AddLost(h[i - 1], list[i], words)
    <3>1. CASE i = m + 1
      <4>1. CASE m = 0
        BY <2>3, <3>1, <4>1
      <4>2. CASE m # 0
        <5>1. i - 1 = m /\ m \in 1..m /\ i # 1
          BY <3>1, <4>2
        <5> QED
          BY <2>2, <2>3, <3>1, <4>2, <5>1
      <4> QED
        BY <4>1, <4>2
    <3>2. CASE i # m + 1
      <4>1. i \in 1..m /\ (i # 1 => i - 1 \in 1..m)
        BY <3>2
      <4> QED
        BY <2>1, <2>2, <4>1
    <3> QED
      BY <3>1, <3>2
  <2>5. Parts(h, m + 1)
    BY <2>4
  <2> HIDE DEF Parts
  <2> QED
    BY <2>5
<1> HIDE DEF S
<1>5. n \in S
  BY <1>1, <1>3, <1>4, Induction
<1>6. PICK g : Parts(g, n)
  BY <1>5 DEF S
<1> DEFINE h == [i \in DOMAIN list |-> g[i]]
<1>7. Rec(h)
  <2>1. ASSUME NEW i \in 1..n PROVE g[i] = IF i = 1 THEN base ELSE AddLost(h[i - 1], list[i], words)
    <3>1. i # 1 => i - 1 \in 1..n
      BY <1>1
    <3>2. i # 1 => h[i - 1] = g[i - 1]
      BY <1>1, <3>1
    <3> QED
      BY <1>6, <3>2
  <2>2. [i \in DOMAIN list |-> IF i = 1 THEN base ELSE AddLost(h[i - 1], list[i], words)] = [i \in DOMAIN list |-> g[i]]
    BY <1>1, <2>1
  <2> QED
    BY <2>2
<1>8. Rec(f)
  <2> HIDE DEF Rec, h
  <2> QED
    BY <1>7
<1> HIDE DEF f
<1>9. \A i \in 1..n : f[i] = IF i = 1 THEN base ELSE AddLost(f[i - 1], list[i], words)
  BY <1>1, <1>8
<1>10. f[1] = base
  BY <1>1, <1>9
<1>11. ASSUME NEW i \in 1..(n - 1) PROVE f[i + 1] = AddLost(f[i], list[i + 1], words)
  <2>1. i + 1 \in 1..n /\ i + 1 # 1 /\ (i + 1) - 1 = i
    BY <1>1
  <2> QED
    BY <1>9, <2>1
<1>12. NackRun(f, list, n, words)
  BY <1>10, <1>11 DEF base, NackRun
<1> QED
  BY <1>1, <1>2, <1>12

LEMMA NacksName ==
  ASSUME NEW list, NEW n, Missed(list, n), NEW words \in Nat, words >= 4
  PROVE  \E state : /\ \/ NackBlocks(state, list, n, words)
                       \/ state = <<>> /\ TooMany(list, words)
                    /\ Nacks(list, words) = Packed(state)
<1>0. PICK f : NackRun(f, list, n, words) /\ Nacks(list, words) = Packed(f[n])
  BY NacksRecur
<1>1. /\ f[1] = <<[pid |-> list[1], blp |-> {}]>>
      /\ \A i \in 1..(n - 1) : f[i + 1] = AddLost(f[i], list[i + 1], words)
  BY <1>0 DEF NackRun
<1> DEFINE At(i) == NackBlocks(f[i], list, i, words) \/ (f[i] = <<>> /\ TooMany(list, words))
           S == {k \in Nat : k < n => At(k + 1)}
<1>2. n \in Nat /\ n > 0 /\ list[1] \in Nat
  BY DEF Missed
<1>3. 0 \in S
  <2> DEFINE block == [pid |-> list[1], blp |-> {}]
  <2>1. block \in NackBlock /\ Named(block) = {list[1]} /\ block.pid = list[1]
    BY <1>2 DEF NackBlock, Named
  <2>2. Asked(list, 1) = {list[1]}
    <3>1. 1..1 = {1} /\ list[1] <= list[1]
      BY <1>2
    <3> QED
      BY <3>1 DEF Asked
  <2> HIDE DEF block
  <2>3. <<block>> \in Seq(NackBlock) /\ Len(<<block>>) = 1 /\ <<block>>[1] = block /\ 1..1 = {1}
    BY <2>1
  <2>4. NackBlocks(<<block>>, list, 1, words)
    BY <2>1, <2>2, <2>3 DEF NackBlocks
  <2>5. f[0 + 1] = <<block>>
    BY <1>1 DEF block
  <2> QED
    BY <2>4, <2>5
<1>4. ASSUME NEW k \in Nat, k \in S PROVE k + 1 \in S
  <2> SUFFICES ASSUME k + 1 < n PROVE At((k + 1) + 1)
    OBVIOUS
  <2> DEFINE i == k + 1
  <2>1. i \in 1..n /\ i + 1 \in 1..n /\ i \in 1..(n - 1)
    BY <1>2
  <2>2. f[i + 1] = AddLost(f[i], list[i + 1], words)
    BY <1>1, <2>1
  <2>3. At(i)
    BY <1>2, <1>4
  <2>4. ASSUME At(i) PROVE At(i + 1)
    <3> HIDE DEF i
    <3>1. CASE NackBlocks(f[i], list, i, words)
      <4>1. LET next == AddLost(f[i], list[i + 1], words)
            IN  NackBlocks(next, list, i + 1, words) \/ (next = <<>> /\ TooMany(list, words))
        BY <2>1, <3>1, AddLostNames
      <4> QED
        BY <2>2, <4>1
    <3>2. CASE f[i] = <<>> /\ TooMany(list, words)
      <4>1. f[i + 1] = <<>>
        BY <2>2, <3>2 DEF AddLost
      <4> QED
        BY <3>2, <4>1
    <3> QED
      BY <2>4, <3>1, <3>2
  <2> QED
    BY <2>3, <2>4
<1> HIDE DEF S
<1>5. n - 1 \in S /\ n - 1 < n /\ (n - 1) + 1 = n
  BY <1>2, <1>3, <1>4, Induction
<1>6. At(n)
  BY <1>5 DEF S
<1> QED
  BY <1>0, <1>6

\* What the receiver of a report reads in it.
LEMMA NacksAreRead ==
  ASSUME NEW state \in Seq(NackBlock), Len(state) > 0
  PROVE  LET p == Message("RTPFB", 1, <<Ssrc("none"), Ssrc("none")>> \o state)
         IN  /\ GetNacks(p) = UNION {Named(state[k]) : k \in 1..Len(state)}
             /\ Len(p) = Len(state) + 3 /\ p # <<>>
<1> DEFINE none == Ssrc("none")
           two == <<none, none>>
           body == two \o state
           m == Len(state)
           h == [type |-> "RTPFB", fmt |-> 1, length |-> Len(body)]
           p == Message("RTPFB", 1, body)
<1>1. none \in SsrcWord /\ none \in BodyWord
  BY DEF Ssrc, SsrcWord, Sources, BodyWord
<1> HIDE DEF none
<1>2. two \in Seq(BodyWord) /\ Len(two) = 2 /\ two[1] = none /\ two[2] = none
  BY <1>1
<1>3. state \in Seq(BodyWord)
  <2>1. NackBlock \subseteq BodyWord
    BY DEF NackBlock, BodyWord, PlainWord
  <2> QED
    BY <2>1
<1>4. m \in Nat /\ m > 0
  OBVIOUS
<1> HIDE DEF two, m
<1>5. /\ body \in Seq(BodyWord) /\ Len(body) = m + 2
      /\ body[1] = none /\ body[2] = none
      /\ \A k \in 1..m : body[2 + k] = state[k]
  <2>1. two \in Seq(BodyWord) /\ state \in Seq(BodyWord)
    BY <1>2, <1>3
  <2>2. /\ two \o state \in Seq(BodyWord) /\ Len(two \o state) = Len(two) + Len(state)
        /\ \A k \in 1..Len(two) : (two \o state)[k] = two[k]
    BY <2>1
  <2>3. \A k \in 1..Len(state) : (two \o state)[Len(two) + k] = state[k]
    BY <2>1
  <2>4. 1 \in 1..2 /\ 2 \in 1..2 /\ 2 + m = m + 2
    BY <1>4
  <2>5. body = two \o state
    OBVIOUS
  <2> HIDE DEF body
  <2> QED
    BY <1>2, <2>2, <2>3, <2>4, <2>5 DEF m
<1> HIDE DEF body
<1>6. SsrcPlaces(h) = {1, 2} /\ ~IsRemb(h) /\ h.length = Len(body)
  BY DEF SsrcPlaces, LocalWords, RemoteWords, IsRemb
<1>7. SoundBody(h, body)
  <2>1. Len(body) > 0 /\ Len(body) # 0 /\ 1 \in 1..Len(body) /\ 2 \in 1..Len(body)
    BY <1>4, <1>5
  <2> HIDE DEF h
  <2> QED
    BY <1>1, <1>5, <1>6, <2>1 DEF SoundBody
<1>8. /\ Sound(p) /\ p[1] = h /\ Len(p) = Len(body) + 1
      /\ \A k \in 1..Len(body) : p[k + 1] = body[k]
  <2>1. h = [type |-> "RTPFB", fmt |-> 1, length |-> Len(body)]
    OBVIOUS
  <2> HIDE DEF h
  <2> QED
    BY <1>7, <2>1, MessageIsSound DEF Types
<1> HIDE DEF p
<1>9. Walk(p) = {1}
  <2> DEFINE W == Seq(Word)
             bs == <<p>>
  <2>1. p \in W
    BY <1>8 DEF Sound
  <2>2. FlattenSeq(bs) = p
    BY FlattenOne
  <2> HIDE DEF W
  <2>3. bs \in Seq(W) /\ Len(bs) = 1 /\ bs[1] = p
    BY <2>1
  <2> HIDE DEF bs
  <2>4. 1..1 = {1}
    OBVIOUS
  <2>5. Compound(bs)
    <3>1. bs \in Seq(Seq(Word))
      BY <2>3 DEF W
    <3> QED
      BY <1>8, <2>3, <2>4, <3>1 DEF Compound
  <2>6. PICK off : Matches(p, bs, off)
    BY <2>2, <2>5, FlattenMatches
  <2>7. off[1] = 0
    BY <2>6 DEF Matches, Layout
  <2>8. Walk(p) = {off[i] + 1 : i \in 1..Len(bs)}
    BY <2>5, <2>6, WalkOfCompound
  <2> QED
    BY <2>3, <2>4, <2>7, <2>8
<1>10. IsNack(p[1]) /\ p[1].length = m + 2
  BY <1>5, <1>8 DEF IsNack
<1>11. ASSUME NEW k \in 1..m PROVE p[1 + 2 + k] = state[k]
  <2>1. 2 + k \in 1..Len(body) /\ (2 + k) + 1 = 1 + 2 + k
    BY <1>4, <1>5
  <2> QED
    BY <1>5, <1>8, <2>1
<1>12. GetNacks(p) = UNION {Named(p[1 + 2 + k]) : k \in 1..m}
  <2>1. {x \in Walk(p) : IsNack(p[x])} = {1}
    BY <1>9, <1>10
  <2>2. (m + 2) - 2 = m
    BY <1>4
  <2> QED
    BY <1>10, <2>1, <2>2 DEF GetNacks
<1>13. {Named(p[1 + 2 + k]) : k \in 1..m} = {Named(state[k]) : k \in 1..m}
  BY <1>11
<1>14. Len(p) = m + 3 /\ p # <<>>
  BY <1>4, <1>5, <1>8
<1> QED
  BY <1>12, <1>13, <1>14 DEF p, body, two, none, m

\* When there are too many numbers, no choice of blocks names them.
LEMMA NothingBetter ==
  ASSUME NEW list, BeforeWrap(list) \subseteq 0..(SeqModulus - 1), NEW words \in Nat, TooMany(list, words),
         NEW pids \in SUBSET BeforeWrap(list), Cardinality(pids) <= words - 3
  PROVE  \E n \in BeforeWrap(list) : \A p \in pids : n - p \notin 0..BlpBits
<1>1. PICK m \in Nat : m > words - 3 /\ \E q \in [1..m -> BeforeWrap(list)] : Apart(q, m)
  BY DEF TooMany
<1>2. PICK q \in [1..m -> BeforeWrap(list)] : Apart(q, m)
  BY <1>1
<1>3. IsFiniteSet(pids) /\ Cardinality(pids) \in Nat
  <2>1. SeqModulus - 1 \in Int /\ 0 \in Int
    BY ConstantsAssumption
  <2>2. IsFiniteSet(0..(SeqModulus - 1))
    BY <2>1, FS_Interval
  <2>3. IsFiniteSet(pids)
    BY <2>2, FS_Subset
  <2> QED
    BY <2>3, FS_CardinalityType
<1> SUFFICES ASSUME \A n \in BeforeWrap(list) : \E p \in pids : n - p \in 0..BlpBits PROVE FALSE
  OBVIOUS
<1> DEFINE f == [k \in 1..m |-> CHOOSE p \in pids : q[k] - p \in 0..BlpBits]
<1>4. \A k \in 1..m : f[k] \in pids /\ q[k] - f[k] \in 0..BlpBits
  BY <1>2
<1>5. ASSUME NEW j \in 1..m, NEW k \in 1..m, j < k, f[j] = f[k] PROVE FALSE
  <2>1. q[k] - q[j] > BlpBits
    BY <1>2, <1>5 DEF Apart
  <2>2. q[j] - f[j] \in 0..BlpBits /\ q[k] - f[j] \in 0..BlpBits
    BY <1>4, <1>5
  <2>3. \A y \in BeforeWrap(list) : y \in Int
    BY ConstantsAssumption
  <2>4. f[j] \in BeforeWrap(list)
    BY <1>4
  <2>5. q[j] \in BeforeWrap(list) /\ q[k] \in BeforeWrap(list)
    BY <1>2
  <2> DEFINE a == q[j]
             b == q[k]
             c == f[j]
  <2>6. a \in Int /\ b \in Int /\ c \in Int /\ BlpBits \in Int
    BY <2>3, <2>4, <2>5, ConstantsAssumption
  <2>7. b - a > BlpBits /\ a - c \in 0..BlpBits /\ b - c \in 0..BlpBits
    BY <2>1, <2>2
  <2> HIDE DEF a, b, c
  <2> QED
    BY <2>6, <2>7
<1>6. f \in [1..m -> pids]
  BY <1>4
<1> HIDE DEF f
<1>7. \A j, k \in 1..m : f[j] = f[k] => j = k
  <2> SUFFICES ASSUME NEW j \in 1..m, NEW k \in 1..m, f[j] = f[k], j # k PROVE FALSE
    OBVIOUS
  <2>1. j < k \/ k < j
    OBVIOUS
  <2> QED
    BY <1>5, <2>1
<1>8. f \in Injection(1..m, pids)
  BY <1>6, <1>7 DEF Injection, IsInjective
<1>9. Cardinality(1..m) <= Cardinality(pids)
  BY <1>3, <1>8, FS_Injection
<1>10. Cardinality(1..m) = m
  BY <1>1, FS_Interval
<1> QED
  BY <1>1, <1>3, <1>9, <1>10

LEMMA Remainder ==
  ASSUME NEW d \in Nat, d > 0, NEW s \in Nat, s < d + d
  PROVE  s % d = IF s < d THEN s ELSE s - d
OBVIOUS

\* The list that the gateway makes of what it has missed.
LEMMA MissedInOrder ==
  ASSUME NEW n \in Nat, n > 0, NEW first \in 0..(SeqModulus - 1), NEW late \in [1..n -> 0..(SeqModulus - 1)],
         late[1] = 0, \A i, j \in 1..n : i < j => late[i] < late[j]
  PROVE  LET list == [i \in 1..n |-> (first + late[i]) % SeqModulus]
         IN  Missed(list, n) /\ BeforeWrap(list) \subseteq 0..(SeqModulus - 1)
<1> DEFINE M == SeqModulus
           list == [i \in 1..n |-> (first + late[i]) % M]
<1>1. M \in Nat /\ M > 0
  BY ConstantsAssumption
<1>2. ASSUME NEW i \in 1..n
      PROVE  /\ late[i] \in 0..(M - 1) /\ first \in 0..(M - 1) /\ list[i] \in 0..(M - 1)
             /\ first + late[i] < M => list[i] = first + late[i]
             /\ ~(first + late[i] < M) => list[i] = (first + late[i]) - M
  <2> DEFINE a == late[i]
             v == list[i]
             s == first + a
  <2>1. a \in 0..(M - 1) /\ first \in 0..(M - 1)
    OBVIOUS
  <2>2. v = s % M
    OBVIOUS
  <2> HIDE DEF v, M, a
  <2>3. s \in Nat /\ s < M + M
    BY <1>1, <2>1
  <2> HIDE DEF s
  <2>4. (s < M => v = s) /\ (~(s < M) => v = s - M) /\ v \in 0..(M - 1)
    <3>1. s % M = IF s < M THEN s ELSE s - M
      BY <1>1, <2>3, Remainder
    <3>2. CASE s < M
      BY <1>1, <2>2, <2>3, <3>1, <3>2
    <3>3. CASE ~(s < M)
      BY <1>1, <2>2, <2>3, <3>1, <3>3
    <3> QED
      BY <3>2, <3>3
  <2> QED
    BY <2>1, <2>4, Zenon DEF s, a, v
<1> HIDE DEF list, M
<1>3. \A i \in 1..n : list[i] \in 0..(M - 1) /\ late[i] \in Nat
  <2>1. \A y \in 0..(M - 1) : y \in Nat
    BY <1>1
  <2> QED
    BY <1>2, <2>1, Zenon
<1>4. list[1] = first /\ first \in Nat /\ first < M
  BY <1>1, <1>2 DEF M
<1>5. ASSUME NEW i \in 1..n, NEW j \in 1..n, i < j, list[1] <= list[j]
      PROVE  list[1] <= list[i] /\ list[i] < list[j]
  <2>1. late[i] < late[j] /\ late[i] \in Nat /\ late[j] \in Nat /\ late[j] < M
    BY <1>1, <1>3, <1>5 DEF M
  <2>2. first + late[j] < M
    BY <1>1, <1>2, <1>4, <1>5, <2>1
  <2>3. first + late[i] < M /\ first + late[i] < first + late[j] /\ first <= first + late[i]
    BY <1>1, <1>4, <2>1, <2>2
  <2>4. list[i] = first + late[i] /\ list[j] = first + late[j] /\ list[1] = first
    BY <1>2, <1>4, <2>2, <2>3, Zenon
  <2> QED
    BY <2>3, <2>4, Zenon
<1>6. list \in [1..n -> Nat] /\ list \in Seq(Nat) /\ Len(list) = n /\ DOMAIN list = 1..n
  BY <1>1, <1>3 DEF list
<1>7. Missed(list, n)
  BY <1>5, <1>6 DEF Missed
<1>8. BeforeWrap(list) \subseteq 0..(M - 1)
  BY <1>3, <1>6 DEF BeforeWrap
<1> QED
  BY <1>7, <1>8 DEF list, M

\* A report names lost numbers only and fits its buffer; a list in order is
\* reported whole, and janus_rtcp_nacks gives up only when no choice of blocks
\* would do in that buffer (rtcp.c:715-758).
THEOREM ReportsAreComplete == Spec => []ReportComplete
<1>1. Init => ReportComplete
  BY DEF Init, ReportComplete
<1>2. ReportComplete /\ [Next]_vars => ReportComplete'
  <2> SUFFICES ASSUME ReportComplete, [Next]_vars, phase' = "reported" PROVE ReportComplete'
    BY DEF ReportComplete
  <2>1. CASE UNCHANGED vars
    BY <2>1 DEF vars, ReportComplete
  <2>2. CASE Report
    <3>1. PICK n \in 1..MaxLost, first \in 0..(SeqModulus - 1), words \in 4..(MaxLost + 3) :
            \E late \in [1..n -> 0..(SeqModulus - 1)] :
              /\ late[1] = 0 /\ \A i, j \in 1..n : i < j => late[i] < late[j]
              /\ LET list == [i \in 1..n |-> (first + late[i]) % SeqModulus]
                 IN  wanted' = [list |-> list, words |-> words] /\ packet' = Nacks(list, words)
      BY <2>2 DEF Report
    <3>2. PICK late \in [1..n -> 0..(SeqModulus - 1)] :
              /\ late[1] = 0 /\ \A i, j \in 1..n : i < j => late[i] < late[j]
              /\ LET list == [i \in 1..n |-> (first + late[i]) % SeqModulus]
                 IN  wanted' = [list |-> list, words |-> words] /\ packet' = Nacks(list, words)
      BY <3>1
    <3> DEFINE list == [i \in 1..n |-> (first + late[i]) % SeqModulus]
    <3>3. n \in Nat /\ n > 0 /\ words \in Nat /\ words >= 4
      BY ConstantsAssumption
    <3>4. Missed(list, n) /\ BeforeWrap(list) \subseteq 0..(SeqModulus - 1)
      BY <3>2, <3>3, MissedInOrder
    <3>5. wanted'.list = list /\ wanted'.words = words /\ packet' = Nacks(list, words)
      BY <3>2
    <3> HIDE DEF list
    <3>6. PICK state : /\ \/ NackBlocks(state, list, n, words)
                          \/ state = <<>> /\ TooMany(list, words)
                       /\ Nacks(list, words) = Packed(state)
      BY <3>3, <3>4, NacksName
    <3> DEFINE lost == Range(list)
               named == BeforeWrap(list)
    <3>7. named \subseteq lost /\ (Ordered(list) => named = lost)
      <4>1. named \subseteq lost
        BY DEF BeforeWrap, Range
      <4>2. ASSUME Ordered(list) PROVE lost \subseteq named
        <5> SUFFICES ASSUME NEW i \in DOMAIN list PROVE list[i] \in named
          BY DEF Range
        <5>1. i \in 1..n /\ 1 \in 1..n /\ DOMAIN list = 1..n /\ list[1] \in Nat /\ list[i] \in Nat
          BY <3>4 DEF Missed
        <5>2. list[1] <= list[i]
          <6>1. CASE i = 1
            BY <5>1, <6>1
          <6>2. CASE i # 1
            <7>1. 1 < i
              BY <5>1, <6>2
            <7> QED
              BY <4>2, <5>1, <7>1 DEF Ordered
          <6> QED
            BY <6>1, <6>2
        <5> QED
          BY <5>1, <5>2 DEF BeforeWrap
      <4> QED
        BY <4>1, <4>2
    <3>8. CASE NackBlocks(state, list, n, words)
      <4>1. state \in Seq(NackBlock) /\ Len(state) > 0 /\ Len(state) + 3 <= words /\ state # <<>>
        BY <3>8 DEF NackBlocks
      <4>2. /\ GetNacks(packet') = UNION {Named(state[k]) : k \in 1..Len(state)}
            /\ Len(packet') = Len(state) + 3 /\ packet' # <<>>
        BY <3>5, <3>6, <4>1, NacksAreRead DEF Packed
      <4>3. UNION {Named(state[k]) : k \in 1..Len(state)} = named
        BY <3>4, <3>8 DEF NackBlocks, Asked, BeforeWrap, Missed
      <4> HIDE DEF lost, named
      <4>4. /\ GetNacks(packet') \subseteq lost /\ Len(packet') <= words
            /\ Ordered(list) => packet' # <<>> /\ GetNacks(packet') = lost
        BY <3>7, <4>1, <4>2, <4>3
      <4> QED
        BY <3>5, <4>4 DEF ReportComplete, lost
    <3>9. CASE state = <<>> /\ TooMany(list, words)
      <4>1. packet' = <<>>
        BY <3>5, <3>6, <3>9 DEF Packed
      <4>2. GetNacks(packet') = {} /\ Len(packet') = 0
        <5>1. Walk(<<>>) = {}
          BY DEF Walk
        <5> QED
          BY <4>1, <5>1 DEF GetNacks
      <4>3. ASSUME NEW pids \in SUBSET named, Cardinality(pids) <= words - 3
            PROVE  \E x \in named : \A p \in pids : x - p \notin 0..BlpBits
        BY <3>3, <3>4, <3>9, <4>3, NothingBetter
      <4> HIDE DEF lost, named
      <4>4. /\ GetNacks(packet') \subseteq lost /\ Len(packet') <= words
            /\ Ordered(list) =>
                 \A pids \in SUBSET lost : Cardinality(pids) <= words - 3 =>
                   \E x \in lost : \A p \in pids : x - p \notin 0..BlpBits
        BY <3>3, <3>7, <4>2, <4>3
      <4> QED
        BY <3>5, <4>1, <4>4 DEF ReportComplete, lost
    <3> QED
      BY <3>6, <3>8, <3>9
  <2>3. CASE Next /\ ~Report
    BY <2>3 DEF Next, Receive, Fix, Retransmit, IncomingRtcp, Configure, SlowLink, Own, Done, ReportComplete
  <2> QED
    BY <2>1, <2>2, <2>3
<1> QED
  BY <1>1, <1>2, PTL DEF Spec

=============================================================================
