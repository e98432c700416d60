---------------------------- MODULE KCPPacketProofs ----------------------------
(***************************************************************************)
(* Facts about KCPPacket, for bytes of any size and datagrams of any       *)
(* length.                                                                 *)
(***************************************************************************)
EXTENDS KCPPacket, InductionFacts

Byte == 0..(Base - 1)
Word == 0..(Base * Base * Base * Base - 1)
Bytes == Seq(Byte)
Item == Nat                  \* also what is no byte keeps its place
Data == Seq(Item)

-------------------------------------------------------------------------------
(* Words.                                                                  *)

\* Division by a byte's size.
LEMMA DivMod ==
    ASSUME NEW n \in Nat
    PROVE  /\ n \div Base \in Nat /\ n % Base \in Byte
           /\ n = Base * (n \div Base) + (n % Base)
<1>1. Base \in Nat /\ Base > 0
  BY PacketAssumption
<1> QED BY <1>1 DEF Byte

\* A quotient of a bounded number is bounded.
LEMMA DivBound ==
    ASSUME NEW m \in Nat, NEW n \in 0..(Base * m - 1)
    PROVE  n \div Base \in 0..(m - 1)
<1>1. Base \in Nat /\ Base > 0
  BY PacketAssumption
<1>2. n = Base * (n \div Base) + (n % Base) /\ n \div Base \in Nat /\ n % Base \in Nat
  BY <1>1, DivMod DEF Byte
<1> DEFINE q == n \div Base
<1>3. q \in Nat /\ Base * q < Base * m
  BY <1>1, <1>2
<1> HIDE DEF q
<1>4. ~(q >= m)
  <2> SUFFICES ASSUME q >= m PROVE FALSE
    OBVIOUS
  <2>1. Base * (q - m) >= 0
    BY <1>1, <1>3
  <2> QED BY <1>1, <1>3, <2>1
<1> QED BY <1>3, <1>4 DEF q

\* The lengths, which the proofs below name and do not expand.
LEMMA Lengths ==
    /\ WordLength \in Nat /\ WordLength = 4
    /\ kPublicHeaderLength \in Nat /\ kPublicHeaderLength = 2 * WordLength + 1
BY DEF WordLength, kPublicHeaderLength

\* htole32 gives four bytes.
LEMMA WordBytes ==
    ASSUME NEW n \in Nat
    PROVE  htole32(n) \in Bytes /\ Len(htole32(n)) = WordLength
<1> DEFINE n1 == n \div Base
           n2 == n1 \div Base
           n3 == n2 \div Base
<1>1. n1 \in Nat /\ n % Base \in Byte
  BY DivMod
<1>2. n2 \in Nat /\ n1 % Base \in Byte
  BY <1>1, DivMod
<1>3. n3 \in Nat /\ n2 % Base \in Byte
  BY <1>2, DivMod
<1>4. n3 % Base \in Byte
  BY <1>3, DivMod
<1>5. htole32(n) = <<n % Base, n1 % Base, n2 % Base, n3 % Base>>
  BY DEF htole32
<1> HIDE DEF n1, n2, n3
<1> QED BY <1>1, <1>2, <1>3, <1>4, <1>5 DEF Bytes, WordLength

\* Bytes are data.
LEMMA BytesAreData == Bytes \subseteq Data /\ Byte \subseteq Item
<1>1. Byte \subseteq Item
  BY PacketAssumption DEF Byte, Item
<1> QED BY <1>1 DEF Bytes, Data

\* The number with the last digit r.
Num(q, r) == Base * q + r

\* It is a number.
LEMMA NumType == \A q \in Int, r \in Byte : Num(q, r) \in Int
BY PacketAssumption DEF Num, Byte

\* Its digits can be told from it.
LEMMA NumUnique ==
    ASSUME NEW q \in Int, NEW p \in Int, NEW r \in Byte, NEW s \in Byte, Num(q, r) = Num(p, s)
    PROVE  q = p /\ r = s
BY DigitsUnique, PacketAssumption DEF Num, Byte

\* Every number has digits.
LEMMA NumDigits ==
    ASSUME NEW n \in Nat
    PROVE  n \div Base \in Nat /\ n % Base \in Byte /\ n = Num(n \div Base, n % Base)
BY DivMod DEF Num

\* le32toh is Horner's rule.
LEMMA WordNum ==
    ASSUME NEW s, s[1] \in Byte, s[2] \in Byte, s[3] \in Byte, s[4] \in Byte
    PROVE  le32toh(s) = Num(Num(Num(s[4], s[3]), s[2]), s[1])
<1>0. Base \in Int /\ s[1] \in Int /\ s[2] \in Int /\ s[3] \in Int /\ s[4] \in Int
  BY PacketAssumption DEF Byte
<1>1. s[3] + Base * s[4] = Num(s[4], s[3]) /\ Num(s[4], s[3]) \in Int
  BY <1>0, NumType DEF Num
<1> DEFINE u == Num(s[4], s[3])
<1>2. s[2] + Base * u = Num(u, s[2]) /\ Num(u, s[2]) \in Int
  <2> HIDE DEF u
  <2>1. u \in Int
    BY <1>1 DEF u
  <2> QED BY <1>0, <2>1, NumType DEF Num
<1> DEFINE v == Num(u, s[2])
<1>3. s[1] + Base * v = Num(v, s[1])
  <2> HIDE DEF u, v
  <2>1. v \in Int
    BY <1>2 DEF v
  <2> QED BY <1>0, <2>1 DEF Num
<1>4. le32toh(s) = s[1] + Base * (s[2] + Base * (s[3] + Base * s[4]))
  BY DEF le32toh
<1>5. @ = s[1] + Base * (s[2] + Base * u)
  BY <1>1 DEF u
<1>6. @ = s[1] + Base * v
  BY <1>2 DEF v
<1> QED BY <1>3, <1>4, <1>5, <1>6 DEF u, v

\* What htole32 wrote le32toh reads.
LEMMA WordReadBack ==
    ASSUME NEW n \in Word
    PROVE  le32toh(htole32(n)) = n
<1>b. Base \in Nat /\ Base > 0
  BY PacketAssumption
<1> DEFINE n1 == n \div Base
           n2 == n1 \div Base
           n3 == n2 \div Base
<1>0. n \in Nat /\ n \in 0..(Base * (Base * Base * Base) - 1)
  BY <1>b DEF Word
<1>1. n1 \in Nat /\ n % Base \in Byte /\ n = Num(n1, n % Base)
  BY <1>0, NumDigits
<1>2. n1 \in 0..(Base * (Base * Base) - 1)
  <2>1. Base * Base * Base \in Nat /\ Base * Base * Base = Base * (Base * Base)
    BY <1>b
  <2> QED BY <1>0, <2>1, DivBound
<1>3. n2 \in Nat /\ n1 % Base \in Byte /\ n1 = Num(n2, n1 % Base)
  BY <1>1, NumDigits
<1>4. n2 \in 0..(Base * Base - 1)
  <2>1. Base * Base \in Nat
    BY <1>b
  <2> QED BY <1>2, <2>1, DivBound
<1>5. n3 \in Nat /\ n2 % Base \in Byte /\ n2 = Num(n3, n2 % Base)
  BY <1>3, NumDigits
<1>6. n3 \in Byte
  BY <1>b, <1>4, DivBound DEF Byte
<1>7. n3 % Base = n3 /\ n3 % Base \in Byte
  <2>1. n3 \div Base \in Int /\ n3 % Base \in Byte /\ n3 = Num(n3 \div Base, n3 % Base)
    BY <1>5, NumDigits
  <2>2. Num(0, n3) = n3
    BY <1>b, <1>5 DEF Num
  <2> HIDE DEF n3
  <2> QED BY <1>6, <2>1, <2>2, NumUnique
<1>8. htole32(n) = <<n % Base, n1 % Base, n2 % Base, n3 % Base>>
  BY DEF htole32
<1> HIDE DEF n1, n2, n3
<1>9. le32toh(htole32(n)) = Num(Num(Num(n3 % Base, n2 % Base), n1 % Base), n % Base)
  BY <1>1, <1>3, <1>5, <1>7, <1>8, WordNum
<1> QED BY <1>1, <1>3, <1>5, <1>7, <1>9

\* Different bytes are different words.
LEMMA WordsDiffer ==
    ASSUME NEW u, NEW v, \A i \in 1..4 : u[i] \in Byte /\ v[i] \in Byte, le32toh(u) = le32toh(v)
    PROVE  \A i \in 1..4 : u[i] = v[i]
<1>0. \A i \in 1..4 : u[i] \in Byte /\ v[i] \in Byte /\ u[i] \in Int /\ v[i] \in Int
  BY PacketAssumption DEF Byte
<1> DEFINE u3 == Num(u[4], u[3])
           v3 == Num(v[4], v[3])
           u2 == Num(u3, u[2])
           v2 == Num(v3, v[2])
<1>1. u3 \in Int /\ v3 \in Int
  BY <1>0, NumType
<1>2. u2 \in Int /\ v2 \in Int
  BY <1>0, <1>1, NumType
<1>3. Num(u2, u[1]) = Num(v2, v[1])
  BY <1>0, WordNum
<1>4. u[1] = v[1] /\ u2 = v2
  BY <1>0, <1>2, <1>3, NumUnique
<1>5. u[2] = v[2] /\ u3 = v3
  BY <1>0, <1>1, <1>4, NumUnique
<1>6. u[3] = v[3] /\ u[4] = v[4]
  BY <1>0, <1>5, NumUnique
<1> QED BY <1>4, <1>5, <1>6

-------------------------------------------------------------------------------
(* The checksum.                                                           *)

Residue == 0..(AdlerModulus - 1)
Sums == [a : Residue, b : Residue]

\* A sum is reduced by the modulus once.
LEMMA AddMod ==
    ASSUME NEW x \in Residue, NEW y \in Residue
    PROVE  /\ (x + y) % AdlerModulus = IF x + y < AdlerModulus THEN x + y ELSE x + y - AdlerModulus
           /\ (x + y) % AdlerModulus \in Residue
<1>1. AdlerModulus \in Nat \ {0} /\ x \in Nat /\ y \in Nat
  BY PacketAssumption DEF Residue
<1> DEFINE q == (x + y) \div AdlerModulus
           r == (x + y) % AdlerModulus
<1>2. q \in Int /\ r \in 0..(AdlerModulus - 1) /\ x + y = AdlerModulus * q + r
  BY <1>1
<1> HIDE DEF q, r
<1>3. CASE x + y < AdlerModulus
  <2>1. x + y \in 0..(AdlerModulus - 1) /\ AdlerModulus * 0 + (x + y) = AdlerModulus * q + r
    BY <1>1, <1>2, <1>3
  <2>2. r = x + y
    BY <1>1, <1>2, <2>1, DigitsUnique
  <2> QED BY <1>2, <1>3, <2>2 DEF r, Residue
<1>4. CASE ~(x + y < AdlerModulus)
  <2> DEFINE d == x + y - AdlerModulus
  <2>1. d \in 0..(AdlerModulus - 1) /\ AdlerModulus * 1 + d = AdlerModulus * q + r
    BY <1>1, <1>2, <1>4 DEF Residue
  <2> HIDE DEF d
  <2>2. r = d
    BY <1>1, <1>2, <2>1, DigitsUnique
  <2> QED BY <1>2, <1>4, <2>2 DEF r, d, Residue
<1> QED BY <1>3, <1>4

\* A byte is smaller than the modulus.
LEMMA ByteIsResidue == Byte \subseteq Residue /\ 0 \in Residue /\ 1 \in Residue
BY PacketAssumption DEF Byte, Residue

\* A step gives sums.
LEMMA AdlerStepType ==
    ASSUME NEW sums \in Sums, NEW byte \in Nat
    PROVE  AdlerStep(sums, byte) \in Sums
<1> DEFINE a == (sums.a + byte) % AdlerModulus
           b == (sums.b + a) % AdlerModulus
<1>1. sums.a \in Residue /\ sums.b \in Residue
  BY DEF Sums
<1>2. a \in Residue
  BY <1>1, PacketAssumption DEF Residue
<1>3. b \in Residue
  <2> HIDE DEF a
  <2> QED BY <1>1, <1>2, AddMod
<1>4. AdlerStep(sums, byte) = [a |-> a, b |-> b]
  BY DEF AdlerStep
<1> HIDE DEF a, b
<1> QED BY <1>2, <1>3, <1>4 DEF Sums

\* AdlerSums is what its definition says.
LEMMA AdlerRecursion ==
    ASSUME NEW s \in Data
    PROVE  /\ AdlerSums(s) \in [0..Len(s) -> Sums]
           /\ AdlerSums(s)[0] = [a |-> 1, b |-> 0]
           /\ \A n \in 1..Len(s) : AdlerSums(s)[n] = AdlerStep(AdlerSums(s)[n - 1], s[n])
<1> DEFINE m == Len(s)
           start == [a |-> 1, b |-> 0]
           F == [n \in 1..m |-> [x \in Sums |-> AdlerStep(x, s[n])]]
           Def(g) == [n \in 0..m |-> IF n = 0 THEN start ELSE AdlerStep(g[n - 1], s[n])]
<1>1. m \in Nat /\ \A n \in 1..m : s[n] \in Nat
  <2>1. m \in Nat /\ \A n \in 1..m : s[n] \in Item
    BY DEF Data
  <2> QED BY <2>1 DEF Item
<1>2. start \in Sums
  BY ByteIsResidue DEF Sums
<1>3. F \in [1..m -> [Sums -> Sums]]
  BY <1>1, AdlerStepType
<1>4. PICK g \in [0..m -> Sums] : g[0] = start /\ \A n \in 1..m : g[n] = F[n][g[n - 1]]
  <2> HIDE DEF m, start, F
  <2>1. Solvable(m, Sums, start, F)
    BY <1>1, <1>2, <1>3, RecursionExists
  <2> QED BY <2>1, Zenon DEF Solvable
<1>5. \A n \in 1..m : g[n] = AdlerStep(g[n - 1], s[n])
  <2>1. \A n \in 1..m : g[n - 1] \in Sums
    BY <1>1
  <2>2. \A n \in 1..m, x \in Sums : F[n][x] = AdlerStep(x, s[n])
    OBVIOUS
  <2> HIDE DEF F
  <2> QED BY <1>4, <2>1, <2>2
<1>6. g = Def(g)
  <2> HIDE DEF start, m
  <2> QED BY <1>1, <1>4, <1>5
<1> HIDE DEF F
<1> DEFINE h == CHOOSE f : f = Def(f)
<1>7. h = Def(h)
  <2> HIDE DEF Def
  <2> QED BY <1>6, Zenon
<1>8. AdlerSums(s) = h
  BY Zenon DEF AdlerSums
<1> HIDE DEF h
<1>9. h[0] = start /\ \A n \in 1..m : h[n] = AdlerStep(h[n - 1], s[n])
  <2> HIDE DEF start
  <2> QED BY <1>1, <1>7
<1>10. h \in [0..m -> Sums]
  <2> DEFINE S == {n \in Nat : n <= m => h[n] \in Sums}
  <2>1. 0 \in S
    BY <1>2, <1>9
  <2>2. \A n \in 0..(m - 1) : n \in S => n + 1 \in S
    <3> HIDE DEF start
    <3> QED BY <1>1, <1>9, AdlerStepType
  <2>3. \A n \in 0..m : n \in S
    <3> HIDE DEF S, m
    <3> QED BY <1>1, <2>1, <2>2, BoundedInduction
  <2>4. \A n \in 0..m : h[n] \in Sums
    BY <2>3, <1>1
  <2> HIDE DEF S, m, start
  <2>5. h = [n \in 0..m |-> h[n]]
    BY <1>7
  <2> QED BY <2>4, <2>5
<1> QED BY <1>8, <1>9, <1>10

\* Two buffers of one length that differ in the byte at i only.
DifferAt(s, t, i) ==
    /\ s \in Bytes /\ t \in Bytes /\ Len(s) = Len(t) /\ i \in 1..Len(s)
    /\ s[i] # t[i]
    /\ \A j \in 1..Len(s) : j # i => s[j] = t[j]

\* Sums of different numbers, or with different bytes, are different.
LEMMA AddModDiffers ==
    ASSUME NEW x \in Residue, NEW y \in Residue, NEW d \in Residue, x # y
    PROVE  (x + d) % AdlerModulus # (y + d) % AdlerModulus
<1> DEFINE u == (x + d) % AdlerModulus
           v == (y + d) % AdlerModulus
<1>1. /\ u = IF x + d < AdlerModulus THEN x + d ELSE x + d - AdlerModulus
      /\ v = IF y + d < AdlerModulus THEN y + d ELSE y + d - AdlerModulus
  BY AddMod
<1>2. AdlerModulus \in Nat /\ x \in 0..(AdlerModulus - 1) /\ y \in 0..(AdlerModulus - 1)
      /\ d \in 0..(AdlerModulus - 1)
  BY PacketAssumption DEF Residue
<1> HIDE DEF u, v
<1>3. u # v
  BY <1>1, <1>2
<1> QED BY <1>3 DEF u, v

\* The sum of the bytes goes apart at the changed byte and stays apart.
LEMMA SumsDiffer ==
    ASSUME NEW s, NEW t, NEW i, DifferAt(s, t, i)
    PROVE  AdlerSums(s)[Len(s)].a # AdlerSums(t)[Len(s)].a
<1> DEFINE f == AdlerSums(s)
           g == AdlerSums(t)
           m == Len(s)
           S == {n \in Nat : n <= m => (f[n].a = g[n].a <=> n < i)}
<1>1. /\ s \in Bytes /\ t \in Bytes /\ Len(t) = m /\ m \in Nat /\ i \in 1..m /\ s[i] # t[i]
      /\ \A j \in 1..m : s[j] \in Byte /\ t[j] \in Byte /\ (j # i => s[j] = t[j])
  BY DEF DifferAt, Bytes
<1>2. /\ f \in [0..m -> Sums] /\ g \in [0..m -> Sums]
      /\ f[0] = [a |-> 1, b |-> 0] /\ g[0] = [a |-> 1, b |-> 0]
      /\ \A n \in 1..m : f[n] = AdlerStep(f[n - 1], s[n]) /\ g[n] = AdlerStep(g[n - 1], t[n])
  BY <1>1, AdlerRecursion, BytesAreData
<1> HIDE DEF f, g, m
<1>3. 0 \in S
  BY <1>1, <1>2
<1>4. ASSUME NEW n \in 0..(m - 1), n \in S PROVE n + 1 \in S
  <2> DEFINE k == n + 1
  <2>1. k \in 1..m /\ k - 1 = n /\ k \in Nat
    BY <1>1
  <2>2. f[k] = AdlerStep(f[n], s[k]) /\ g[k] = AdlerStep(g[n], t[k])
    BY <1>2, <2>1
  <2>3. f[k].a = (f[n].a + s[k]) % AdlerModulus /\ g[k].a = (g[n].a + t[k]) % AdlerModulus
    BY <2>2 DEF AdlerStep
  <2>4. /\ f[n].a \in Residue /\ g[n].a \in Residue /\ f[n].a \in Int /\ g[n].a \in Int
        /\ s[k] \in Residue /\ t[k] \in Residue /\ s[k] \in Int /\ t[k] \in Int
    <3>1. \A x \in Residue : x \in Int
      BY PacketAssumption DEF Residue
    <3>2. f[n] \in Sums /\ g[n] \in Sums /\ s[k] \in Byte /\ t[k] \in Byte
      BY <1>1, <1>2, <2>1
    <3>3. f[n].a \in Residue /\ g[n].a \in Residue
      BY <3>2 DEF Sums
    <3> QED BY <3>1, <3>2, <3>3, ByteIsResidue
  <2>5. f[n].a = g[n].a <=> n < i
    BY <1>4, <1>1
  <2> HIDE DEF k
  <2>6. CASE k < i
    <3>1. f[n].a = g[n].a /\ s[k] = t[k]
      BY <1>1, <2>1, <2>5, <2>6
    <3> QED BY <2>1, <2>3, <2>6, <3>1 DEF k
  <2>7. CASE k = i
    <3>1. f[n].a = g[n].a /\ s[k] # t[k]
      BY <1>1, <2>1, <2>5, <2>7
    <3>2. (s[k] + f[n].a) % AdlerModulus # (t[k] + f[n].a) % AdlerModulus
      BY <2>4, <3>1, AddModDiffers
    <3>3. s[k] + f[n].a = f[n].a + s[k] /\ t[k] + f[n].a = g[n].a + t[k]
      BY <2>4, <3>1
    <3>4. f[k].a # g[k].a
      BY <2>3, <3>2, <3>3
    <3> QED BY <2>1, <2>7, <3>4, <1>1 DEF k
  <2>8. CASE k > i
    <3>1. f[n].a # g[n].a /\ s[k] = t[k]
      BY <1>1, <2>1, <2>5, <2>8
    <3>2. f[k].a # g[k].a
      BY <2>3, <2>4, <3>1, AddModDiffers
    <3> QED BY <2>1, <2>8, <3>2, <1>1 DEF k
  <2> QED BY <1>1, <2>1, <2>6, <2>7, <2>8
<1>5. \A n \in 0..m : n \in S
  <2> HIDE DEF S
  <2> QED BY <1>1, <1>3, <1>4, BoundedInduction
<1>6. f[m].a # g[m].a
  BY <1>1, <1>5
<1> QED BY <1>6 DEF f, g, m

\* The checksum is a word.
LEMMA AdlerIsWord ==
    ASSUME NEW s \in Data
    PROVE  /\ adler32(s) \in Word
           /\ AdlerSums(s)[Len(s)] \in Sums
<1> DEFINE m == Base * Base
           x == AdlerSums(s)[Len(s)]
<1>1. Len(s) \in 0..Len(s)
  BY DEF Data
<1>2. x \in Sums
  BY <1>1, AdlerRecursion
<1>3. m \in Nat /\ m > 0 /\ AdlerModulus \in Nat /\ AdlerModulus <= m
  BY PacketAssumption
<1>4. adler32(s) = x.b * m + x.a
  BY DEF adler32
<1>5. Word = 0..(m * m - 1)
  <2>1. Base * Base * Base * Base = m * m
    BY PacketAssumption
  <2> QED BY <2>1 DEF Word
<1> HIDE DEF m, x
<1>6. x.a \in 0..(m - 1) /\ x.b \in 0..(m - 1)
  BY <1>2, <1>3 DEF Sums, Residue
<1>7. x.b * m + x.a \in 0..(m * m - 1)
  <2>1. x.b * m \in Nat /\ (m - 1) * m - x.b * m = (m - 1 - x.b) * m /\ (m - 1 - x.b) * m >= 0
    BY <1>3, <1>6
  <2>2. (m - 1) * m = m * m - m
    BY <1>3
  <2>3. m * m \in Int /\ (m - 1) * m \in Int
    BY <1>3
  <2> QED BY <1>3, <1>6, <2>1, <2>2, <2>3
<1> QED BY <1>2, <1>4, <1>5, <1>7 DEF x

\* adler32 notices that one byte has changed.
LEMMA AdlerDiffers ==
    ASSUME NEW s, NEW t, NEW i, DifferAt(s, t, i)
    PROVE  adler32(s) # adler32(t)
<1> DEFINE m == Base * Base
           x == AdlerSums(s)[Len(s)]
           y == AdlerSums(t)[Len(t)]
<1>1. s \in Bytes /\ t \in Bytes /\ Len(s) = Len(t)
  BY DEF DifferAt
<1>2. x \in Sums /\ y \in Sums
  BY <1>1, AdlerIsWord, BytesAreData
<1>3. x.a # y.a
  BY <1>1, SumsDiffer
<1>4. m \in Nat \ {0} /\ AdlerModulus \in Nat /\ AdlerModulus <= m
  BY PacketAssumption
<1>5. adler32(s) = x.b * m + x.a /\ adler32(t) = y.b * m + y.a
  BY DEF adler32
<1> HIDE DEF m, x, y
<1>6. x.a \in 0..(m - 1) /\ y.a \in 0..(m - 1) /\ x.b \in Int /\ y.b \in Int
  BY <1>2, <1>4 DEF Sums, Residue
<1>7. x.b * m = m * x.b /\ y.b * m = m * y.b
  BY <1>4, <1>6
<1> QED BY <1>3, <1>4, <1>5, <1>6, <1>7, DigitsUnique

-------------------------------------------------------------------------------
(* The header.                                                             *)

Types == {"SYN", "ACK", "RST", "PING", "PONG", "DATA"}

\* The byte of a type is read as the type.
LEMMA TypeReadBack ==
    ASSUME NEW type \in Types
    PROVE  TypeByte(type) \in Byte /\ PacketType(TypeByte(type)) = type
<1>1. /\ PacketType(0) = "SYN" /\ PacketType(1) = "ACK" /\ PacketType(2) = "RST"
      /\ PacketType(3) = "PING" /\ PacketType(4) = "PONG" /\ PacketType(5) = "DATA"
  BY DEF PacketType, PacketTypes
<1>2. \E b \in 0..5 : PacketType(b) = type
  BY <1>1 DEF Types
<1>3. TypeByte(type) \in 0..5 /\ PacketType(TypeByte(type)) = type
  BY <1>2, Zenon DEF TypeByte
<1> QED BY <1>3, PacketAssumption DEF Byte

\* What is behind the first n bytes.
LEMMA AfterBytes ==
    ASSUME NEW buf \in Data, NEW n \in 0..Len(buf)
    PROVE  /\ After(buf, n) \in Data /\ Len(After(buf, n)) = Len(buf) - n
           /\ \A j \in 1..(Len(buf) - n) : After(buf, n)[j] = buf[n + j]
BY DEF After, Data

\* Concatenation, by its elements.
LEMMA CatBytes ==
    ASSUME NEW s \in Data, NEW t \in Data
    PROVE  /\ s \o t \in Data /\ Len(s \o t) = Len(s) + Len(t)
           /\ \A j \in 1..(Len(s) + Len(t)) :
                  (s \o t)[j] = IF j <= Len(s) THEN s[j] ELSE t[j - Len(s)]
BY DEF Data

\* Buffers with the same bytes are the same.
LEMMA BytesEqual ==
    ASSUME NEW s \in Data, NEW t \in Data, Len(s) = Len(t), \A j \in 1..Len(s) : s[j] = t[j]
    PROVE  s = t
BY DEF Data

\* The datagram d has the type, the id and, behind the header, the bytes of buf, and its
\* first word is the checksum of the rest.
IsPacket(d, type, id, buf) ==
    /\ d \in Data /\ Len(d) = Len(buf)
    /\ d[WordLength + 1] = TypeByte(type)
    /\ \A j \in 1..WordLength : d[WordLength + 1 + j] = htole32(id)[j]
    /\ \A j \in (kPublicHeaderLength + 1)..Len(buf) : d[j] = buf[j]
    /\ \A j \in 1..WordLength : d[j] = htole32(adler32(After(d, WordLength)))[j]

\* WritePublicHeader writes such a datagram.
LEMMA WriteIsPacket ==
    ASSUME NEW type \in Types, NEW id \in Word, NEW buf \in Data, Len(buf) >= kPublicHeaderLength
    PROVE  IsPacket(WritePublicHeader(type, id, buf), type, id, buf)
<1> DEFINE W == WordLength
           H == kPublicHeaderLength
           L == Len(buf)
           tb == TypeByte(type)
           two == htole32(0) \o <<tb>>
           front == two \o htole32(id)
           written == front \o After(buf, H)
           body == After(written, W)
           sum == htole32(adler32(body))
           d == sum \o body
<1>0. W \in Nat /\ H \in Nat /\ H = 2 * W + 1 /\ L \in Nat /\ L >= H /\ W >= 1
  BY Lengths DEF Data
<1>1. id \in Nat /\ tb \in Item
  BY TypeReadBack, BytesAreData, PacketAssumption DEF Word
<1>2. /\ htole32(id) \in Data /\ Len(htole32(id)) = W
      /\ htole32(0) \in Data /\ Len(htole32(0)) = W
      /\ <<tb>> \in Data /\ Len(<<tb>>) = 1 /\ <<tb>>[1] = tb
  <2>1. /\ htole32(id) \in Data /\ Len(htole32(id)) = W
        /\ htole32(0) \in Data /\ Len(htole32(0)) = W
    BY <1>1, WordBytes, BytesAreData
  <2> QED BY <1>1, <2>1 DEF Data
<1>13. WritePublicHeader(type, id, buf) = d
  BY DEF WritePublicHeader, WriteTo, WriteChecksum
<1>3. /\ After(buf, H) \in Data /\ Len(After(buf, H)) = L - H
      /\ \A j \in 1..(L - H) : After(buf, H)[j] = buf[H + j]
  BY <1>0, AfterBytes
<1> HIDE DEF W, H, L, tb
<1>4. /\ two \in Data /\ Len(two) = W + 1 /\ two[W + 1] = tb
  BY <1>0, <1>2 DEF Data
<1> HIDE DEF two
<1>5. /\ front \in Data /\ Len(front) = H
      /\ front[W + 1] = tb
      /\ \A j \in 1..W : front[W + 1 + j] = htole32(id)[j]
  BY <1>0, <1>2, <1>4 DEF Data
<1> HIDE DEF front
<1>6. /\ written \in Data /\ Len(written) = L
      /\ \A j \in 1..H : written[j] = front[j]
      /\ \A j \in (H + 1)..L : written[j] = buf[j]
  <2> DEFINE rest == After(buf, H)
  <2> HIDE DEF rest
  <2>0. /\ rest \in Data /\ Len(rest) = L - H /\ L - H \in Nat
        /\ \A j \in 1..(L - H) : rest[j] = buf[H + j]
    BY <1>0, <1>3 DEF rest
  <2>1. written = front \o rest
    BY DEF rest
  <2> HIDE DEF written
  <2>2. written \in Data /\ Len(written) = L
    <3>1. front \in Data /\ rest \in Data
      BY <1>5, <2>0
    <3>2. written \in Data /\ Len(written) = Len(front) + Len(rest)
      BY <2>1, <3>1, CatBytes
    <3> QED BY <1>0, <1>5, <2>0, <3>2
  <2>3. \A j \in 1..H : written[j] = front[j]
    BY <1>0, <1>5, <2>0, <2>1 DEF Data
  <2>4. ASSUME NEW j \in (H + 1)..L PROVE written[j] = buf[j]
    <3>1. j - H \in 1..(L - H) /\ H + (j - H) = j
      BY <1>0
    <3>2. rest[j - H] = buf[j]
      BY <2>0, <3>1
    <3>3. /\ j \in 1..(Len(front) + Len(rest)) /\ ~(j <= Len(front)) /\ j - Len(front) = j - H
          /\ front \in Data /\ rest \in Data
      BY <1>0, <1>5, <2>0
    <3>4. written[j] = rest[j - H]
      BY <2>1, <3>3, CatBytes
    <3> QED BY <3>2, <3>4
  <2> QED BY <2>2, <2>3, <2>4
<1> HIDE DEF written
<1>7. /\ body \in Data /\ Len(body) = L - W
      /\ \A j \in 1..(L - W) : body[j] = written[W + j]
  <2>1. W \in 0..Len(written) /\ written \in Data /\ Len(written) = L
    BY <1>0, <1>6
  <2> HIDE DEF W, L
  <2> QED BY <2>1 DEF After, Data
<1> HIDE DEF body
<1>8. sum \in Data /\ Len(sum) = W
  BY <1>7, AdlerIsWord, WordBytes, BytesAreData, PacketAssumption DEF Word, W
<1> HIDE DEF sum
<1>9. /\ d \in Data /\ Len(d) = L
      /\ \A j \in 1..W : d[j] = sum[j]
      /\ \A j \in (W + 1)..L : d[j] = written[j]
  <2>2. d \in Data /\ Len(d) = L
    <3>1. sum \in Data /\ body \in Data
      BY <1>7, <1>8
    <3>2. d \in Data /\ Len(d) = Len(sum) + Len(body)
      BY <3>1, CatBytes
    <3> HIDE DEF d
    <3> QED BY <1>0, <1>7, <1>8, <3>2
  <2>3. \A j \in 1..W : d[j] = sum[j]
    BY <1>0, <1>7, <1>8 DEF Data
  <2>4. ASSUME NEW j \in (W + 1)..L PROVE d[j] = written[j]
    <3>1. j - W \in 1..(L - W) /\ W + (j - W) = j
      BY <1>0
    <3>2. body[j - W] = written[j]
      BY <1>7, <3>1
    <3>3. d[j] = body[j - W]
      BY <1>0, <1>7, <1>8, <3>1 DEF Data
    <3> QED BY <3>2, <3>3
  <2> QED BY <2>2, <2>3, <2>4
<1> HIDE DEF d
<1>10. After(d, W) = body
  <2>1. /\ After(d, W) \in Data /\ Len(After(d, W)) = L - W
        /\ \A j \in 1..(L - W) : After(d, W)[j] = d[W + j]
    <3>1. d \in Data /\ W \in 0..Len(d) /\ Len(d) - W = L - W
      BY <1>0, <1>9
    <3>2. /\ After(d, W) \in Data /\ Len(After(d, W)) = Len(d) - W
          /\ \A j \in 1..(Len(d) - W) : After(d, W)[j] = d[W + j]
      BY <3>1, AfterBytes
    <3> QED BY <3>1, <3>2
  <2>2. \A j \in 1..(L - W) : After(d, W)[j] = body[j]
    BY <1>0, <1>7, <1>9, <2>1
  <2> QED BY <1>7, <2>1, <2>2, BytesEqual
<1>11. /\ d[W + 1] = tb
       /\ \A j \in 1..W : d[W + 1 + j] = htole32(id)[j]
  BY <1>0, <1>5, <1>6, <1>9
<1>12. \A j \in (H + 1)..L : d[j] = buf[j]
  BY <1>0, <1>6, <1>9
<1> QED BY <1>9, <1>10, <1>11, <1>12, <1>13 DEF IsPacket, sum, W, H, L, tb

\* The word behind the first n bytes of d.
WordAt(d, n) == le32toh(SubSeq(d, n + 1, n + WordLength))

\* Words with the same bytes are the same.
LEMMA SameWord ==
    ASSUME NEW s, NEW t, \A i \in 1..4 : s[i] = t[i]
    PROVE  le32toh(s) = le32toh(t)
<1>1. s[1] = t[1] /\ s[2] = t[2] /\ s[3] = t[3] /\ s[4] = t[4]
  OBVIOUS
<1> QED BY <1>1, Zenon DEF le32toh

\* The bytes of the word.
LEMMA WordAtBytes ==
    ASSUME NEW d \in Data, NEW n \in Nat, n + WordLength <= Len(d)
    PROVE  \A i \in 1..WordLength : /\ SubSeq(d, n + 1, n + WordLength)[i] = d[n + i]
                                    /\ n + i \in 1..Len(d)
BY Lengths DEF Data

\* ReadPublicHeader, of a datagram that has just come.
LEMMA ReadResult ==
    ASSUME NEW d \in Data
    PROVE  LET r == ReadPublicHeader(Received(d))
               valid == /\ Len(d) >= kPublicHeaderLength
                        /\ WordAt(d, 0) = adler32(After(d, WordLength))
           IN /\ r.code = "SUCCESS" => valid
              /\ valid => r = [code |-> "SUCCESS",
                               header |-> [packet_type |-> PacketType(d[WordLength + 1]),
                                           session_id |-> WordAt(d, WordLength + 1)],
                               packet |-> [data |-> d, pos |-> kPublicHeaderLength]]
<1> DEFINE r == ReadPublicHeader(Received(d))
           p == [data |-> d, pos |-> 0]
           sumsDiffer == le32toh(SubSeq(d, 0 + 1, 0 + WordLength)) # adler32(After(d, WordLength))
           afterSum == [data |-> d, pos |-> WordLength]
           afterType == [data |-> d, pos |-> WordLength + 1]
           afterId == [data |-> d, pos |-> kPublicHeaderLength]
<1>0. Len(d) \in Nat
  BY DEF Data
<1>1. Received(d) = p
  BY DEF Received
<1>2. ReadBytes(p, WordLength) = afterSum
  BY Lengths DEF ReadBytes
<1>3. ReadBytes(afterSum, 1) = afterType
  BY Lengths DEF ReadBytes
<1>4. ReadBytes(afterType, WordLength) = afterId
  BY Lengths DEF ReadBytes
<1>5. CanRead(p, kPublicHeaderLength) <=> Len(d) >= kPublicHeaderLength
  BY <1>0, Lengths DEF CanRead
<1>6. Peeked(p, WordLength) = SubSeq(d, 0 + 1, 0 + WordLength)
  BY DEF Peeked
<1>7. Peeked(afterSum, 1) = SubSeq(d, WordLength + 1, WordLength + 1)
  BY DEF Peeked
<1>8. Peeked(afterType, WordLength) = SubSeq(d, WordLength + 1 + 1, WordLength + 1 + WordLength)
  BY DEF Peeked
<1>9. p.data = d
  OBVIOUS
<1> HIDE DEF p, afterSum, afterType, afterId
<1>10. CASE ~(Len(d) >= kPublicHeaderLength)
  <2>1. r.code = "INVALID_LENGTH"
    BY <1>1, <1>5, <1>10 DEF ReadPublicHeader
  <2> QED BY <1>10, <2>1
<1>11. CASE Len(d) >= kPublicHeaderLength
  <2>1. r = IF sumsDiffer
            THEN [code |-> "INVALID_CHECKSUM", header |-> NoHeader, packet |-> afterId]
            ELSE [code |-> "SUCCESS",
                  header |-> [packet_type |-> PacketType(SubSeq(d, WordLength + 1, WordLength + 1)[1]),
                              session_id |-> WordAt(d, WordLength + 1)],
                  packet |-> afterId]
    <3> HIDE DEF sumsDiffer
    <3> QED BY <1>1, <1>2, <1>3, <1>4, <1>5, <1>6, <1>7, <1>8, <1>9, <1>11, Zenon
            DEF ReadPublicHeader, WordAt, sumsDiffer
  <2>2. SubSeq(d, WordLength + 1, WordLength + 1)[1] = d[WordLength + 1]
    BY <1>0, <1>11, Lengths DEF Data
  <2>3. sumsDiffer <=> WordAt(d, 0) # adler32(After(d, WordLength))
    BY DEF WordAt
  <2> HIDE DEF r, sumsDiffer
  <2>4. sumsDiffer => r.code # "SUCCESS"
    BY <2>1
  <2>5. ~sumsDiffer => r = [code |-> "SUCCESS",
                  header |-> [packet_type |-> PacketType(d[WordLength + 1]),
                              session_id |-> WordAt(d, WordLength + 1)],
                  packet |-> afterId]
    BY <2>1, <2>2
  <2> QED BY <1>11, <2>3, <2>4, <2>5 DEF r, afterId
<1> QED BY <1>10, <1>11

\* The words of a packet.
LEMMA PacketWords ==
    ASSUME NEW d, NEW type \in Types, NEW id \in Word, NEW buf \in Data,
           Len(buf) >= kPublicHeaderLength, IsPacket(d, type, id, buf)
    PROVE  /\ WordAt(d, 0) = adler32(After(d, WordLength))
           /\ WordAt(d, WordLength + 1) = id
           /\ After(d, WordLength) \in Data
<1> DEFINE W == WordLength
           sum == adler32(After(d, W))
<1>0. /\ d \in Data /\ Len(d) = Len(buf) /\ Len(d) \in Nat /\ W \in Nat /\ W = 4
      /\ W + 1 + W <= Len(d) /\ W + 1 \in Nat
  BY Lengths DEF IsPacket, Data
<1>1. After(d, W) \in Data
  BY <1>0, AfterBytes
<1>2. sum \in Word /\ sum \in Nat
  BY <1>1, AdlerIsWord, PacketAssumption DEF Word
<1>3. WordAt(d, 0) = sum
  <2>1. \A i \in 1..W : SubSeq(d, 0 + 1, 0 + W)[i] = d[0 + i]
    BY <1>0, WordAtBytes
  <2>2. \A i \in 1..W : d[i] = htole32(sum)[i]
    BY DEF IsPacket
  <2>3. \A i \in 1..W : SubSeq(d, 0 + 1, 0 + W)[i] = htole32(sum)[i]
    BY <1>0, <2>1, <2>2
  <2>4. \A i \in 1..4 : SubSeq(d, 0 + 1, 0 + W)[i] = htole32(sum)[i]
    BY <1>0, <2>3
  <2>5. WordAt(d, 0) = le32toh(htole32(sum))
    BY <2>4, SameWord DEF WordAt
  <2> QED BY <1>2, <2>5, WordReadBack
<1>4. WordAt(d, W + 1) = id
  <2>1. \A i \in 1..W : SubSeq(d, W + 1 + 1, W + 1 + W)[i] = d[W + 1 + i]
    BY <1>0, WordAtBytes
  <2>2. \A i \in 1..W : d[W + 1 + i] = htole32(id)[i]
    BY DEF IsPacket
  <2>3. \A i \in 1..W : SubSeq(d, W + 1 + 1, W + 1 + W)[i] = htole32(id)[i]
    BY <1>0, <2>1, <2>2
  <2>4. \A i \in 1..4 : SubSeq(d, W + 1 + 1, W + 1 + W)[i] = htole32(id)[i]
    BY <1>0, <2>3
  <2>5. WordAt(d, W + 1) = le32toh(htole32(id))
    BY <2>4, SameWord DEF WordAt
  <2> QED BY <2>5, WordReadBack
<1> QED BY <1>1, <1>3, <1>4

\* Every packet WritePublicHeader wrote is read back: its type, its id and the bytes of buf
\* behind the header (kcp_packets.cc:238-274, 321-339).
THEOREM PacketReadBack ==
    ASSUME NEW type \in Types, NEW id \in Word, NEW buf \in Data, Len(buf) >= kPublicHeaderLength
    PROVE  LET r == ReadPublicHeader(Received(WritePublicHeader(type, id, buf)))
           IN /\ r.code = "SUCCESS"
              /\ r.header = [packet_type |-> type, session_id |-> id]
              /\ RemainingData(r.packet) = After(buf, kPublicHeaderLength)
<1> DEFINE d == WritePublicHeader(type, id, buf)
           r == ReadPublicHeader(Received(d))
           H == kPublicHeaderLength
<1>1. IsPacket(d, type, id, buf)
  BY WriteIsPacket
<1> HIDE DEF d
<1>2. d \in Data /\ Len(d) = Len(buf) /\ d[WordLength + 1] = TypeByte(type)
      /\ \A j \in (H + 1)..Len(buf) : d[j] = buf[j]
  BY <1>1 DEF IsPacket
<1>3. WordAt(d, 0) = adler32(After(d, WordLength)) /\ WordAt(d, WordLength + 1) = id
  BY <1>1, PacketWords
<1>4. r = [code |-> "SUCCESS",
           header |-> [packet_type |-> PacketType(d[WordLength + 1]),
                       session_id |-> WordAt(d, WordLength + 1)],
           packet |-> [data |-> d, pos |-> H]]
  BY <1>2, <1>3, ReadResult
<1>5. r.code = "SUCCESS" /\ r.packet = [data |-> d, pos |-> H]
      /\ r.header = [packet_type |-> type, session_id |-> id]
  BY <1>2, <1>3, <1>4, TypeReadBack
<1>6. RemainingData(r.packet) = After(d, H)
  BY <1>5 DEF RemainingData
<1>7. After(d, H) = After(buf, H)
  <2>0. Len(buf) \in Nat /\ H \in 0..Len(buf) /\ H \in 0..Len(d) /\ Len(buf) - H \in Nat
    BY <1>2, Lengths DEF Data
  <2>1. /\ After(d, H) \in Data /\ Len(After(d, H)) = Len(buf) - H
        /\ \A j \in 1..(Len(buf) - H) : After(d, H)[j] = d[H + j]
    BY <1>2, <2>0, AfterBytes
  <2>2. /\ After(buf, H) \in Data /\ Len(After(buf, H)) = Len(buf) - H
        /\ \A j \in 1..(Len(buf) - H) : After(buf, H)[j] = buf[H + j]
    BY <1>2, <2>0, AfterBytes
  <2>3. \A j \in 1..(Len(buf) - H) : d[H + j] = buf[H + j]
    BY <1>2, <2>0
  <2>4. \A j \in 1..(Len(buf) - H) : After(d, H)[j] = After(buf, H)[j]
    BY <2>1, <2>2, <2>3
  <2> QED BY <2>1, <2>2, <2>4, BytesEqual
<1> QED BY <1>5, <1>6, <1>7 DEF d

\* A packet with one byte changed, wherever it is, is refused: the checksum is over all that
\* follows it, and adler32 tells two buffers that differ in a byte (kcp_packets.cc:321-339).
THEOREM DamageNoticed ==
    ASSUME NEW type \in Types, NEW id \in Word, NEW buf \in Bytes, Len(buf) >= kPublicHeaderLength,
           NEW e, NEW i, DifferAt(WritePublicHeader(type, id, buf), e, i)
    PROVE  ReadPublicHeader(Received(e)).code # "SUCCESS"
<1> DEFINE d == WritePublicHeader(type, id, buf)
           W == WordLength
<1>0. buf \in Data
  BY BytesAreData
<1>1. IsPacket(d, type, id, buf) /\ DifferAt(d, e, i)
  BY <1>0, WriteIsPacket
<1> HIDE DEF d
<1>2. /\ d \in Bytes /\ e \in Bytes /\ Len(d) = Len(e) /\ i \in 1..Len(d) /\ d[i] # e[i]
      /\ \A j \in 1..Len(d) : j # i => d[j] = e[j]
  BY <1>1 DEF DifferAt
<1>3. Len(d) \in Nat /\ Len(d) >= kPublicHeaderLength /\ W \in Nat /\ W = 4 /\ W <= Len(d)
      /\ Len(d) - W \in Nat /\ d \in Data /\ e \in Data
  BY <1>1, <1>2, Lengths, BytesAreData DEF IsPacket, Bytes
<1>4. WordAt(d, 0) = adler32(After(d, W))
  BY <1>0, <1>1, PacketWords
<1> DEFINE s == After(d, W)
           t == After(e, W)
<1>5. /\ s \in Bytes /\ Len(s) = Len(d) - W /\ t \in Bytes /\ Len(t) = Len(d) - W
      /\ \A j \in 1..(Len(d) - W) : s[j] = d[W + j] /\ t[j] = e[W + j]
  <2>1. W \in 0..Len(d) /\ W \in 0..Len(e)
    BY <1>2, <1>3
  <2>2. /\ s \in Bytes /\ Len(s) = Len(d) - W
        /\ \A j \in 1..(Len(d) - W) : s[j] = d[W + j]
    BY <1>2, <2>1 DEF After, Bytes
  <2>3. /\ t \in Bytes /\ Len(t) = Len(e) - W
        /\ \A j \in 1..(Len(e) - W) : t[j] = e[W + j]
    BY <1>2, <2>1 DEF After, Bytes
  <2> QED BY <1>2, <2>2, <2>3
<1>6. \A j \in 1..W : /\ SubSeq(d, 0 + 1, 0 + W)[j] = d[j] /\ d[j] \in Byte
                      /\ SubSeq(e, 0 + 1, 0 + W)[j] = e[j] /\ e[j] \in Byte
  <2>1. \A j \in 1..W : /\ SubSeq(d, 0 + 1, 0 + W)[j] = d[0 + j]
                        /\ SubSeq(e, 0 + 1, 0 + W)[j] = e[0 + j]
    <3>1. 0 \in Nat /\ 0 + W <= Len(d) /\ 0 + W <= Len(e)
      BY <1>2, <1>3
    <3> QED BY <1>3, <3>1, WordAtBytes
  <2>2. \A j \in 1..W : 0 + j = j /\ d[j] \in Byte /\ e[j] \in Byte
    BY <1>2, <1>3 DEF Bytes
  <2> QED BY <2>1, <2>2
<1> HIDE DEF s, t
<1>7. CASE i <= W
  <2>1. \A j \in 1..(Len(d) - W) : s[j] = t[j]
    BY <1>2, <1>3, <1>5, <1>7
  <2>2. s = t
    BY <1>5, <2>1, BytesEqual, BytesAreData
  <2>3. WordAt(e, 0) # WordAt(d, 0)
    <3> SUFFICES ASSUME WordAt(e, 0) = WordAt(d, 0) PROVE FALSE
      OBVIOUS
    <3> DEFINE u == SubSeq(d, 0 + 1, 0 + W)
               v == SubSeq(e, 0 + 1, 0 + W)
    <3>1. \A j \in 1..4 : u[j] \in Byte /\ v[j] \in Byte /\ u[j] = d[j] /\ v[j] = e[j]
      BY <1>3, <1>6
    <3>2. le32toh(u) = le32toh(v)
      BY DEF WordAt
    <3> HIDE DEF u, v
    <3>3. \A j \in 1..4 : u[j] = v[j]
      BY <3>1, <3>2, WordsDiffer
    <3>4. i \in 1..4
      BY <1>2, <1>3, <1>7
    <3> QED BY <1>2, <3>1, <3>3, <3>4
  <2> QED BY <1>3, <1>4, <2>2, <2>3, ReadResult DEF s, t
<1>8. CASE i > W
  <2>1. DifferAt(s, t, i - W)
    <3>1. i - W \in 1..(Len(d) - W) /\ W + (i - W) = i
      BY <1>2, <1>3, <1>8
    <3>2. s[i - W] # t[i - W]
      BY <1>2, <1>5, <3>1
    <3>3. ASSUME NEW j \in 1..(Len(d) - W), j # i - W PROVE s[j] = t[j]
      <4>1. W + j \in 1..Len(d) /\ W + j # i
        BY <1>2, <1>3, <3>3
      <4> QED BY <1>2, <1>5, <4>1
    <3> QED BY <1>5, <3>1, <3>2, <3>3 DEF DifferAt
  <2>2. adler32(s) # adler32(t)
    BY <2>1, AdlerDiffers
  <2>3. WordAt(e, 0) = WordAt(d, 0)
    <3> DEFINE u == SubSeq(d, 0 + 1, 0 + W)
               v == SubSeq(e, 0 + 1, 0 + W)
    <3>1. \A j \in 1..4 : u[j] = d[j] /\ v[j] = e[j]
      BY <1>3, <1>6
    <3> HIDE DEF u, v
    <3>2. ASSUME NEW j \in 1..4 PROVE u[j] = v[j]
      <4>1. j \in 1..Len(d) /\ j # i
        BY <1>2, <1>3, <1>8
      <4>2. d[j] = e[j]
        BY <1>2, <4>1
      <4> QED BY <3>1, <4>2
    <3>3. le32toh(u) = le32toh(v)
      BY <3>2, SameWord
    <3> QED BY <3>3 DEF WordAt, u, v
  <2> QED BY <1>3, <1>4, <2>2, <2>3, ReadResult DEF s, t
<1> QED BY <1>2, <1>3, <1>7, <1>8

\* What is in a packet; a packet of bytes is bytes.
LEMMA PacketContents ==
    ASSUME NEW type \in Types, NEW id \in Word, NEW buf \in Data, Len(buf) >= kPublicHeaderLength
    PROVE  LET d == WritePublicHeader(type, id, buf)
           IN /\ d \in Data /\ Len(d) = Len(buf)
              /\ \A j \in (kPublicHeaderLength + 1)..Len(buf) : d[j] = buf[j]
              /\ ReadFrom(d).session_id = id
              /\ buf \in Bytes => d \in Bytes
<1> DEFINE d == WritePublicHeader(type, id, buf)
           W == WordLength
           H == kPublicHeaderLength
           sum == adler32(After(d, W))
<1>1. IsPacket(d, type, id, buf)
  BY WriteIsPacket
<1> HIDE DEF d
<1>2. /\ d \in Data /\ Len(d) = Len(buf) /\ d[W + 1] = TypeByte(type)
      /\ \A j \in 1..W : d[W + 1 + j] = htole32(id)[j]
      /\ \A j \in (H + 1)..Len(buf) : d[j] = buf[j]
      /\ \A j \in 1..W : d[j] = htole32(sum)[j]
  BY <1>1 DEF IsPacket
<1>3. Len(d) \in Nat /\ Len(d) >= H /\ W \in Nat /\ H \in Nat /\ H = 2 * W + 1
  BY <1>2, Lengths DEF Data
<1>4. ReadFrom(d).session_id = id
  <2>1. WordAt(d, W + 1) = id
    BY <1>1, PacketWords
  <2>2. W + 2 = W + 1 + 1 /\ H = W + 1 + W /\ ~(Len(d) < H)
    BY <1>3
  <2> QED BY <2>1, <2>2 DEF ReadFrom, WordAt
<1>5. ASSUME buf \in Bytes PROVE d \in Bytes
  <2>1. sum \in Nat /\ id \in Nat
    BY <1>1, PacketWords, AdlerIsWord, PacketAssumption DEF Word
  <2>2. \A j \in 1..W : htole32(sum)[j] \in Byte /\ htole32(id)[j] \in Byte
    <3>1. /\ htole32(sum) \in Bytes /\ Len(htole32(sum)) = W
          /\ htole32(id) \in Bytes /\ Len(htole32(id)) = W
      BY <2>1, WordBytes
    <3> QED BY <3>1 DEF Bytes
  <2>3. ASSUME NEW j \in 1..Len(d) PROVE d[j] \in Byte
    <3>1. CASE j \in 1..W
      BY <1>2, <2>2, <3>1
    <3>2. CASE j = W + 1
      BY <1>2, <3>2, TypeReadBack
    <3>3. CASE j \in (W + 2)..H
      <4>1. j - (W + 1) \in 1..W /\ W + 1 + (j - (W + 1)) = j
        BY <1>3, <3>3
      <4> QED BY <1>2, <2>2, <4>1
    <3>4. CASE j \in (H + 1)..Len(d)
      <4>1. \A i \in 1..Len(buf) : buf[i] \in Byte
        BY <1>5 DEF Bytes
      <4>2. j \in 1..Len(buf) /\ d[j] = buf[j]
        BY <1>2, <3>4
      <4> QED BY <4>1, <4>2
    <3> QED BY <1>3, <3>1, <3>2, <3>3, <3>4
  <2> QED BY <1>2, <2>3 DEF Data, Bytes
<1> QED BY <1>2, <1>4, <1>5 DEF d
===============================================================================
