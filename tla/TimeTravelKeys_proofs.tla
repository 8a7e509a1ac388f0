----------------------- MODULE TimeTravelKeys_proofs -----------------------
(***************************************************************************)
(* Proofs about the bytes of composite keys, for every radix, width, set   *)
(* of keys and batch.                                                      *)
(***************************************************************************)
EXTENDS TimeTravelKeys, TLAPS, FiniteSetTheorems, SequenceTheorems

-----------------------------------------------------------------------------
(* Numbers *)

\* A non-empty set of numbers has a least one: what stands for induction here.
LEMMA LeastNumber ==
    ASSUME NEW S \in SUBSET Nat, S # {}
    PROVE  \E n \in S : \A m \in S : n <= m
<1> DEFINE R == OpToRel(<, Nat)
<1>1. R = {ss \in Nat \X Nat : ss[1] < ss[2]}
  BY Zenon DEF OpToRel
<1>2. IsWellFoundedOn(R, Nat)
  BY Zenon, NatLessThanWellFounded
<1> HIDE DEF R
<1>3. PICK n \in S : \A m \in S : ~ (<<m, n>> \in R)
  BY <1>2, WFMin
<1>4. ASSUME NEW m \in S PROVE n <= m
  <2>1. m \in Nat /\ n \in Nat
    BY <1>3
  <2>2. ~ (m < n)
    BY <1>1, <1>3, <2>1
  <2> QED
    BY <2>1, <2>2
<1> QED
  BY <1>4

\* A value and a step for each number give a sequence of values: what stands for
\* definition by recursion.
Steps(n, D) == [1 .. n -> [D -> D]]

IsIteration(f, n, D, a, step) ==
    f \in [0 .. n -> D] /\ f[0] = a /\ \A i \in 1 .. n : f[i] = step[i][f[i - 1]]

LEMMA Iteration ==
    ASSUME NEW n \in Nat, NEW D, NEW a \in D, NEW step \in Steps(n, D)
    PROVE  \E f : IsIteration(f, n, D, a, step)
<1> USE DEF Steps, IsIteration
<1> DEFINE Has(m) == \E f : IsIteration(f, m, D, a, step)
           Missing == {m \in 0 .. n : ~ Has(m)}
<1>1. SUFFICES ASSUME Missing # {} PROVE FALSE
  <2>1. ASSUME Missing = {} PROVE Has(n)
    <3> HIDE DEF Has
    <3>1. n \in 0 .. n
      OBVIOUS
    <3> QED
      BY <2>1, <3>1
  <2> QED
    BY <2>1
<1>3. PICK m \in Missing : \A k \in Missing : m <= k
  <2> HIDE DEF Has
  <2>1. Missing \in SUBSET Nat
    OBVIOUS
  <2> HIDE DEF Missing
  <2> QED
    BY <1>1, <2>1, LeastNumber
<1>4. Has(0)
  <2> DEFINE f == [i \in 0 .. 0 |-> a]
  <2>1. f \in [0 .. 0 -> D] /\ f[0] = a /\ (1 .. 0) = {}
    OBVIOUS
  <2> HIDE DEF f
  <2> QED
    BY <2>1
<1>5. m \in 1 .. n /\ m - 1 \in 0 .. n /\ Has(m - 1)
  <2> HIDE DEF Has
  <2>1. m \in 0 .. n /\ m # 0
    BY <1>3, <1>4
  <2>2. m - 1 \in 0 .. n /\ m - 1 \notin Missing
    BY <1>3, <2>1
  <2> QED
    BY <2>1, <2>2
<1>6. PICK f : IsIteration(f, m - 1, D, a, step)
  BY <1>5
<1> DEFINE g == [i \in 0 .. m |-> IF i = m THEN step[m][f[m - 1]] ELSE f[i]]
<1>7. g \in [0 .. m -> D]
  BY <1>3, <1>5, <1>6
<1>8. g[0] = a
  BY <1>5, <1>6
<1>9. \A i \in 1 .. m : g[i] = step[i][g[i - 1]]
  <2>1. \A i \in 1 .. m : g[i - 1] = f[i - 1]
    BY <1>5, <1>6
  <2>2. \A i \in 1 .. m : g[i] = IF i = m THEN step[m][f[m - 1]] ELSE f[i]
    BY <1>5
  <2> HIDE DEF g
  <2> QED
    BY <1>5, <1>6, <2>1, <2>2
<1> QED
  BY <1>3, <1>7, <1>8, <1>9

\* Powers of the radix, as the recursive definition means them.
LEMMA PowerFacts ==
    /\ \A i \in 0 .. Width : Power[i] \in Nat \ {0}
    /\ Power[0] = 1
    /\ \A i \in 1 .. Width : Power[i] = Radix * Power[i - 1]
<1> DEFINE D == Nat \ {0}
           step == [i \in 1 .. Width |-> [x \in D |-> Radix * x]]
           F(g) == [i \in 0 .. Width |-> IF i = 0 THEN 1 ELSE Radix * g[i - 1]]
<1>1. Width \in Nat \ {0} /\ Radix \in Nat \ {0}
  BY TimeTravelKeysAssumption
<1>1a. step \in Steps(Width, D) /\ 1 \in D
  BY <1>1 DEF Steps
<1>2. PICK f \in [0 .. Width -> D] :
         f[0] = 1 /\ \A i \in 1 .. Width : f[i] = step[i][f[i - 1]]
  <2>1. Width \in Nat
    BY <1>1
  <2> HIDE DEF step, D
  <2>2. PICK f : IsIteration(f, Width, D, 1, step)
    BY <1>1a, <2>1, Iteration
  <2> QED
    BY <2>2 DEF IsIteration
<1>3. ASSUME NEW i \in 1 .. Width PROVE f[i] = Radix * f[i - 1]
  <2>1. f[i] = step[i][f[i - 1]] /\ f[i - 1] \in D
    <3>1. i - 1 \in 0 .. Width
      BY <1>1
    <3> HIDE DEF step, D
    <3> QED
      BY <1>2, <3>1
  <2>2. \A x \in D : step[i][x] = Radix * x
    OBVIOUS
  <2> HIDE DEF step, D
  <2> QED
    BY <2>1, <2>2
<1>4. f = F(f)
  BY <1>1, <1>2, <1>3
<1>5. Power = CHOOSE g : g = F(g)
  BY DEF Power
<1>6. Power = F(Power)
  BY <1>4, <1>5
<1> HIDE DEF F
<1>7. \A i \in 0 .. Width : Power[i] = IF i = 0 THEN 1 ELSE Radix * Power[i - 1]
  BY <1>6 DEF F
<1>8. Power[0] = 1 /\ \A i \in 1 .. Width : Power[i] = Radix * Power[i - 1]
  BY <1>1, <1>7
<1> DEFINE Bad == {i \in 0 .. Width : Power[i] \notin Nat \ {0}}
<1>9. ASSUME Bad # {} PROVE FALSE
  <2>1. PICK i \in Bad : \A k \in Bad : i <= k
    <3>1. Bad \in SUBSET Nat
      BY <1>1
    <3> HIDE DEF Bad
    <3> QED
      BY <1>9, <3>1, LeastNumber
  <2>2. i # 0 /\ i - 1 \in 0 .. Width /\ i - 1 \notin Bad
    BY <1>1, <1>8, <2>1
  <2>3. Power[i - 1] \in Nat \ {0} /\ Power[i] = Radix * Power[i - 1]
    BY <2>2, <2>1, <1>8
  <2> QED
    BY <1>1, <2>3, <2>1
<1> QED
  BY <1>8, <1>9

LEMMA Division ==
    ASSUME NEW n \in Nat, NEW d \in Nat \ {0}
    PROVE  /\ n \div d \in Nat /\ n % d \in Nat /\ n % d < d
           /\ n = d * (n \div d) + (n % d)
  OBVIOUS

LEMMA QuotientUnique ==
    ASSUME NEW n \in Nat, NEW d \in Nat \ {0}, NEW q \in Nat, NEW r \in Nat,
           r < d, n = d * q + r
    PROVE  n \div d = q /\ n % d = r
  OBVIOUS

LEMMA QuotientMonotonic ==
    ASSUME NEW n \in Nat, NEW m \in Nat, n <= m, NEW d \in Nat \ {0}
    PROVE  n \div d <= m \div d
  OBVIOUS

\* Dividing by a product is dividing twice.
LEMMA QuotientOfQuotient ==
    ASSUME NEW n \in Nat, NEW d \in Nat \ {0}, NEW e \in Nat \ {0}
    PROVE  n \div (e * d) = (n \div d) \div e
  OBVIOUS

-----------------------------------------------------------------------------
(* Digits of block numbers *)

\* The number that the first i digits of n stand for.
High(n, i) == n \div Power[Width - i]

LEMMA ConstantFacts ==
    /\ Width \in Nat \ {0} /\ Radix \in Nat /\ Radix > 1
    /\ MaxUint \in Nat /\ MaxUint + 1 = Power[Width] /\ MaxUint + 1 = Radix * Power[Width - 1]
    /\ MaxBlock \in Nat /\ MaxBlock <= MaxUint
    /\ Top \in Byte /\ 0 \in Byte /\ Byte \subseteq Nat /\ \A d \in Byte : d <= Top
<1>1. Width \in Nat \ {0} /\ Radix \in Nat /\ Radix > 1
  BY TimeTravelKeysAssumption
<1>2. Power[Width] \in Nat \ {0} /\ Power[Width] = Radix * Power[Width - 1]
  BY <1>1, PowerFacts
<1>3. MaxUint \in Nat /\ MaxUint + 1 = Power[Width]
  BY <1>2 DEF MaxUint
<1>4. MaxBlock \in Nat /\ MaxBlock <= MaxUint
  BY <1>3, TimeTravelKeysAssumption
<1>5. Top \in Byte /\ 0 \in Byte /\ Byte \subseteq Nat /\ \A d \in Byte : d <= Top
  BY <1>1 DEF Top, Byte
<1> QED
  BY <1>1, <1>2, <1>3, <1>4, <1>5

\* The digits of a number, from the first one to the last.
LEMMA DigitFacts ==
    ASSUME NEW n \in 0 .. MaxUint
    PROVE  /\ High(n, 0) = 0 /\ High(n, Width) = n
           /\ \A i \in 0 .. Width : High(n, i) \in Nat
           /\ \A i \in 1 .. Width :
                 /\ BigEndian(n)[i] \in Byte
                 /\ High(n, i) = Radix * High(n, i - 1) + BigEndian(n)[i]
<1>1. n \in Nat /\ n < Power[Width] /\ Power[Width] \in Nat \ {0}
  BY ConstantFacts, PowerFacts
<1>2. High(n, 0) = 0
  <2>1. n = Power[Width] * 0 + n
    BY <1>1
  <2>2. n \div Power[Width] = 0
    BY <1>1, <2>1, QuotientUnique
  <2> QED
    BY <2>2, ConstantFacts DEF High
<1>3. High(n, Width) = n
  BY <1>1, ConstantFacts, PowerFacts DEF High
<1>4. ASSUME NEW i \in 0 .. Width PROVE High(n, i) \in Nat
  <2>1. Width - i \in 0 .. Width
    BY ConstantFacts
  <2>2. Power[Width - i] \in Nat \ {0}
    BY <2>1, PowerFacts
  <2> QED
    BY <1>1, <2>2 DEF High
<1>5. ASSUME NEW i \in 1 .. Width
      PROVE  /\ BigEndian(n)[i] \in Byte
             /\ High(n, i) = Radix * High(n, i - 1) + BigEndian(n)[i]
  <2> DEFINE p == Power[Width - i]
  <2>1. Width - i \in 0 .. Width /\ Width - (i - 1) \in 1 .. Width
        /\ (Width - (i - 1)) - 1 = Width - i
    BY ConstantFacts
  <2>2. p \in Nat \ {0} /\ Power[Width - (i - 1)] = Radix * p
    BY <2>1, PowerFacts
  <2>3. BigEndian(n)[i] = High(n, i) % Radix
    BY DEF BigEndian, High
  <2>4. High(n, i - 1) = High(n, i) \div Radix
    <3> HIDE DEF p
    <3>1. n \div (Radix * p) = (n \div p) \div Radix
      BY <1>1, <2>2, ConstantFacts, QuotientOfQuotient
    <3> QED
      BY <2>2, <3>1 DEF High, p
  <2>5. High(n, i) \in Nat
    BY <1>4
  <2>6. High(n, i) % Radix \in 0 .. Radix - 1
        /\ High(n, i) = Radix * (High(n, i) \div Radix) + (High(n, i) % Radix)
    BY <2>5, ConstantFacts, Division
  <2> QED
    BY <2>3, <2>4, <2>6 DEF Byte
<1> QED
  BY <1>2, <1>3, <1>4, <1>5

\* The order of numbers is that of their digits.
LEMMA DigitsOrdered ==
    ASSUME NEW n \in 0 .. MaxUint, NEW m \in 0 .. MaxUint, n < m
    PROVE  \E i \in 1 .. Width : /\ BigEndian(n)[i] < BigEndian(m)[i]
                                /\ \A j \in 1 .. i - 1 : BigEndian(n)[j] = BigEndian(m)[j]
<1> DEFINE Differ == {i \in 0 .. Width : High(n, i) # High(m, i)}
<1>1. Differ \in SUBSET Nat /\ Width \in Differ /\ 0 \notin Differ
  BY DigitFacts, ConstantFacts
<1>2. PICK i \in Differ : \A k \in Differ : i <= k
  <2> HIDE DEF Differ
  <2> QED
    BY <1>1, LeastNumber
<1>3. i \in 1 .. Width /\ \A j \in 0 .. i - 1 : High(n, j) = High(m, j)
  BY <1>1, <1>2, ConstantFacts
<1>4. High(n, i) < High(m, i)
  <2>1. Width - i \in 0 .. Width
    BY <1>3, ConstantFacts
  <2>2. Power[Width - i] \in Nat \ {0} /\ n \in Nat /\ m \in Nat /\ n <= m
    BY <2>1, PowerFacts, ConstantFacts
  <2>3. High(n, i) <= High(m, i)
    BY <2>2, QuotientMonotonic DEF High
  <2>4. High(n, i) \in Nat /\ High(m, i) \in Nat /\ High(n, i) # High(m, i)
    BY <1>2, <1>3, DigitFacts
  <2> QED
    BY <2>3, <2>4
<1>5. BigEndian(n)[i] < BigEndian(m)[i]
  <2> DEFINE a == BigEndian(n)[i]
             b == BigEndian(m)[i]
             h == Radix * High(n, i - 1)
  <2>1. High(n, i) = h + a /\ High(m, i) = h + b /\ a \in Byte /\ b \in Byte
    <3>1. i - 1 \in 0 .. i - 1
      BY <1>3, ConstantFacts
    <3>2. High(n, i - 1) = High(m, i - 1)
      BY <1>3, <3>1
    <3> QED
      BY <1>3, <3>2, DigitFacts
  <2>2. h \in Nat
    BY <1>3, DigitFacts, ConstantFacts
  <2> HIDE DEF a, b, h
  <2>3. a < b
    BY <1>4, <2>1, <2>2, ConstantFacts
  <2> QED
    BY <2>3 DEF a, b
<1>6. ASSUME NEW j \in 1 .. i - 1 PROVE BigEndian(n)[j] = BigEndian(m)[j]
  <2> DEFINE a == BigEndian(n)[j]
             b == BigEndian(m)[j]
             h == Radix * High(n, j - 1)
  <2>1. j \in 1 .. Width /\ j \in 0 .. i - 1 /\ j - 1 \in 0 .. i - 1 /\ j - 1 \in 0 .. Width
    BY <1>3, ConstantFacts
  <2>2. High(n, j) = High(m, j) /\ High(n, j - 1) = High(m, j - 1)
    BY <1>3, <2>1
  <2>3. High(n, j) = h + a /\ High(m, j) = h + b /\ a \in Byte /\ b \in Byte
    BY <2>1, <2>2, DigitFacts
  <2>4. h \in Nat
    BY <2>1, DigitFacts, ConstantFacts
  <2> HIDE DEF a, b, h
  <2>5. a \in Nat /\ b \in Nat
    BY <2>3, ConstantFacts
  <2>6. h + a = h + b
    BY <2>2, <2>3
  <2>7. a = b
    BY <2>4, <2>5, <2>6
  <2> QED
    BY <2>7 DEF a, b
<1> QED
  BY <1>3, <1>5, <1>6

\* The reversed number of a block below Radix ^ (Width - 1) starts with Top.
LEMMA FirstDigit ==
    ASSUME NEW n \in Nat, n < Power[Width - 1]
    PROVE  n \in 0 .. MaxUint /\ MaxUint - n \in 0 .. MaxUint /\ BigEndian(MaxUint - n)[1] = Top
<1> DEFINE p == Power[Width - 1]
           v == MaxUint - n
<1>1. p \in Nat \ {0} /\ MaxUint + 1 = Radix * p /\ MaxUint \in Nat
  BY ConstantFacts, PowerFacts
<1>2. v = p * (Radix - 1) + (p - 1 - n) /\ p - 1 - n \in 0 .. p - 1
  BY <1>1, ConstantFacts
<1>3. p <= Radix * p
  BY <1>1, ConstantFacts
<1>4. n <= MaxUint
  BY <1>1, <1>3
<1>5. v \in 0 .. MaxUint
  BY <1>1, <1>4
<1>6. v \div p = Radix - 1
  <2> HIDE DEF p, v
  <2>1. Radix - 1 \in Nat /\ p - 1 - n \in Nat /\ p - 1 - n < p /\ v \in Nat
    BY <1>1, <1>2, <1>5, ConstantFacts
  <2> QED
    BY <1>1, <1>2, <2>1, QuotientUnique
<1>7. High(v, 1) = Radix * High(v, 0) + BigEndian(v)[1] /\ High(v, 0) = 0 /\ BigEndian(v)[1] \in Byte
  <2>1. 1 \in 1 .. Width /\ 1 - 1 = 0
    BY ConstantFacts
  <2> HIDE DEF v
  <2> QED
    BY <1>5, <2>1, DigitFacts
<1>8. High(v, 1) = Radix - 1
  BY <1>6 DEF High
<1> HIDE DEF v
<1>9. BigEndian(v)[1] = Top
  <2> DEFINE d == BigEndian(v)[1]
  <2>1. d \in Byte /\ High(v, 1) = Radix * 0 + d
    BY <1>7
  <2> HIDE DEF d
  <2>2. d \in Nat /\ Radix \in Nat
    BY <2>1, ConstantFacts
  <2>3. High(v, 1) = d
    BY <2>1, <2>2
  <2> QED
    BY <1>8, <2>3 DEF Top, d
<1> QED
  BY <1>1, <1>4, <1>5, <1>9 DEF v

-----------------------------------------------------------------------------
(* The order of byte sequences *)

Bytes == Seq(Byte)

\* The place at which b goes above a.
Above(a, b, i) ==
    /\ i \in 1 .. Len(b) /\ i <= Len(a) + 1
    /\ \A j \in 1 .. i - 1 : a[j] = b[j]
    /\ i <= Len(a) => a[i] < b[i]

LEMMA BytesFacts ==
    ASSUME NEW a \in Bytes
    PROVE  /\ Len(a) \in Nat /\ DOMAIN a = 1 .. Len(a)
           /\ \A i \in 1 .. Len(a) : a[i] \in Nat /\ a[i] <= Top
  BY ConstantFacts, LenProperties DEF Bytes

LEMMA PrefixFacts ==
    ASSUME NEW a \in Bytes, NEW b \in Bytes
    PROVE  /\ IsPrefix(a, b) <=> Len(a) <= Len(b) /\ \A i \in 1 .. Len(a) : a[i] = b[i]
           /\ IsStrictPrefix(a, b) <=> Len(a) < Len(b) /\ \A i \in 1 .. Len(a) : a[i] = b[i]
<1>1. Len(a) \in Nat /\ Len(b) \in Nat
  BY BytesFacts
<1>2. ASSUME Len(a) <= Len(b)
      PROVE  SubSeq(a, 1, Len(a)) = SubSeq(b, 1, Len(a)) <=> \A i \in 1 .. Len(a) : a[i] = b[i]
  <2>1. \A i \in 1 .. Len(a) : a[i] \in Byte /\ b[i] \in Byte
    BY <1>1, <1>2, LenProperties DEF Bytes
  <2>2. /\ SubSeq(a, 1, Len(a)) \in Bytes /\ Len(SubSeq(a, 1, Len(a))) = Len(a)
        /\ \A i \in 1 .. Len(a) : SubSeq(a, 1, Len(a))[i] = a[i]
    <3>1. SubSeq(a, 1, Len(a)) = a
      BY SubSeqFull DEF Bytes
    <3> QED
      BY <3>1
  <2>3. /\ SubSeq(b, 1, Len(a)) \in Bytes /\ Len(SubSeq(b, 1, Len(a))) = Len(a)
        /\ \A i \in 1 .. Len(a) : SubSeq(b, 1, Len(a))[i] = b[i]
    <3>1. 1 \in Int /\ Len(a) \in Int
      BY <1>1
    <3>2. /\ SubSeq(b, 1, Len(a)) \in Seq(Byte)
          /\ Len(SubSeq(b, 1, Len(a))) = IF 1 <= Len(a) THEN Len(a) - 1 + 1 ELSE 0
          /\ \A i \in 1 .. Len(a) - 1 + 1 : SubSeq(b, 1, Len(a))[i] = b[1 + i - 1]
      BY <2>1, <3>1, SubSeqProperties
    <3> QED
      BY <1>1, <3>2 DEF Bytes
  <2> QED
    BY <2>2, <2>3, SeqEqual DEF Bytes
<1>3. Len(a) = Len(b) /\ (\A i \in 1 .. Len(a) : a[i] = b[i]) => a = b
  BY SeqEqual DEF Bytes
<1> QED
  BY <1>1, <1>2, <1>3 DEF IsPrefix, IsStrictPrefix

LEMMA LessFacts ==
    ASSUME NEW a \in Bytes, NEW b \in Bytes
    PROVE  Less(a, b) <=> \E i \in Nat : Above(a, b, i)
<1>1. /\ Len(a) \in Nat /\ Len(b) \in Nat
      /\ DOMAIN a = 1 .. Len(a) /\ DOMAIN b = 1 .. Len(b)
  BY BytesFacts
<1>2. ASSUME IsStrictPrefix(a, b) PROVE Above(a, b, Len(a) + 1)
  BY <1>1, <1>2, PrefixFacts DEF Above
<1>3. ASSUME NEW i \in DOMAIN a \cap DOMAIN b,
             a[i] < b[i], \A j \in 1 .. i - 1 : a[j] = b[j]
      PROVE  i \in Nat /\ Above(a, b, i)
  BY <1>1, <1>3 DEF Above
<1>4. ASSUME NEW i \in Nat, Above(a, b, i)
      PROVE  \/ IsStrictPrefix(a, b)
             \/ /\ i \in DOMAIN a \cap DOMAIN b
                /\ a[i] < b[i] /\ \A j \in 1 .. i - 1 : a[j] = b[j]
  <2>1. CASE i <= Len(a)
    BY <1>1, <1>4, <2>1 DEF Above
  <2>2. CASE i = Len(a) + 1
    BY <1>1, <1>4, <2>2, PrefixFacts DEF Above
  <2> QED
    BY <1>1, <1>4, <2>1, <2>2 DEF Above
<1> QED
  BY <1>1, <1>2, <1>3, <1>4 DEF Less

LEMMA LessAsymmetric ==
    ASSUME NEW a \in Bytes, NEW b \in Bytes, Less(a, b)
    PROVE  ~ Less(b, a) /\ a # b
<1>1. PICK i \in Nat : Above(a, b, i)
  BY LessFacts
<1>2. /\ Len(a) \in Nat /\ Len(b) \in Nat
      /\ \A k \in 1 .. Len(a) : a[k] \in Nat
      /\ \A k \in 1 .. Len(b) : b[k] \in Nat
  BY BytesFacts
<1>3. ASSUME NEW j \in Nat, Above(b, a, j) PROVE FALSE
  <2>1. CASE j < i
    BY <1>1, <1>2, <1>3, <2>1 DEF Above
  <2>2. CASE i < j
    BY <1>1, <1>2, <1>3, <2>2 DEF Above
  <2>3. CASE i = j
    BY <1>1, <1>2, <1>3, <2>3 DEF Above
  <2> QED
    BY <2>1, <2>2, <2>3
<1>4. ~ Less(b, a)
  BY <1>3, LessFacts
<1> QED
  BY <1>4

LEMMA LessTransitive ==
    ASSUME NEW a \in Bytes, NEW b \in Bytes, NEW c \in Bytes, Less(a, b), Less(b, c)
    PROVE  Less(a, c)
<1>1. PICK i \in Nat : Above(a, b, i)
  BY LessFacts
<1>2. PICK j \in Nat : Above(b, c, j)
  BY LessFacts
<1>3. /\ Len(a) \in Nat /\ Len(b) \in Nat /\ Len(c) \in Nat
      /\ \A k \in 1 .. Len(a) : a[k] \in Nat
      /\ \A k \in 1 .. Len(b) : b[k] \in Nat
      /\ \A k \in 1 .. Len(c) : c[k] \in Nat
  BY BytesFacts
<1>4. CASE i < j
  <2>1. Above(a, c, i)
    BY <1>1, <1>2, <1>3, <1>4 DEF Above
  <2> QED
    BY <2>1, LessFacts
<1>5. CASE j <= i
  <2>1. Above(a, c, j)
    BY <1>1, <1>2, <1>3, <1>5 DEF Above
  <2> QED
    BY <2>1, LessFacts
<1> QED
  BY <1>4, <1>5

LEMMA LessTotal ==
    ASSUME NEW a \in Bytes, NEW b \in Bytes, a # b
    PROVE  Less(a, b) \/ Less(b, a)
<1>1. /\ Len(a) \in Nat /\ Len(b) \in Nat
      /\ \A k \in 1 .. Len(a) : a[k] \in Nat
      /\ \A k \in 1 .. Len(b) : b[k] \in Nat
  BY BytesFacts
<1> DEFINE Apart == {k \in Nat : /\ k \in 1 .. Len(a) + 1 /\ k \in 1 .. Len(b) + 1
                                 /\ (k <= Len(a) /\ k <= Len(b)) => a[k] # b[k]
                                 /\ k <= Len(a) \/ k <= Len(b)}
<1>2. Apart # {}
  <2>1. CASE Len(a) < Len(b)
    <3>1. Len(a) + 1 \in Apart
      BY <1>1, <2>1
    <3> QED
      BY <3>1
  <2>2. CASE Len(b) < Len(a)
    <3>1. Len(b) + 1 \in Apart
      BY <1>1, <2>2
    <3> QED
      BY <3>1
  <2>3. CASE Len(a) = Len(b)
    <3>1. PICK k \in 1 .. Len(a) : a[k] # b[k]
      BY <2>3, SeqEqual DEF Bytes
    <3>2. k \in Apart
      BY <1>1, <2>3, <3>1
    <3> QED
      BY <3>2
  <2> QED
    BY <1>1, <2>1, <2>2, <2>3
<1>3. PICK i \in Apart : \A k \in Apart : i <= k
  <2>1. Apart \in SUBSET Nat
    OBVIOUS
  <2> HIDE DEF Apart
  <2> QED
    BY <1>2, <2>1, LeastNumber
<1>4. ASSUME NEW j \in 1 .. i - 1 PROVE j <= Len(a) /\ j <= Len(b) /\ a[j] = b[j]
  <2>1. j \notin Apart
    BY <1>1, <1>3
  <2>2. j <= Len(a) /\ j <= Len(b)
    BY <1>1, <1>3
  <2> QED
    BY <1>1, <2>1, <2>2
<1>5. /\ i \in Nat /\ i \in 1 .. Len(a) + 1 /\ i \in 1 .. Len(b) + 1
      /\ (i <= Len(a) /\ i <= Len(b)) => a[i] # b[i]
      /\ i <= Len(a) \/ i <= Len(b)
  OBVIOUS
<1> HIDE DEF Apart
<1>6. CASE i <= Len(b) /\ (i <= Len(a) => a[i] < b[i])
  <2>1. Above(a, b, i)
    BY <1>1, <1>4, <1>5, <1>6 DEF Above
  <2> QED
    BY <1>5, <2>1, LessFacts
<1>7. CASE i <= Len(a) /\ (i <= Len(b) => b[i] < a[i])
  <2>1. Above(b, a, i)
    BY <1>1, <1>4, <1>5, <1>7 DEF Above
  <2> QED
    BY <1>5, <2>1, LessFacts
<1> QED
  BY <1>1, <1>5, <1>6, <1>7

\* A finite set of byte sequences has a first one.
LEMMA FirstOfFinite ==
    ASSUME NEW T \in SUBSET Bytes, IsFiniteSet(T), T # {}
    PROVE  \E c \in T : \A d \in T : ~ Less(d, c)
<1> DEFINE Under(c) == {d \in T : Less(d, c)}
           Sizes == {Cardinality(Under(c)) : c \in T}
<1>1. ASSUME NEW c \in T PROVE IsFiniteSet(Under(c)) /\ Cardinality(Under(c)) \in Nat
  <2>1. Under(c) \in SUBSET T
    OBVIOUS
  <2> HIDE DEF Under
  <2> QED
    BY <2>1, FS_Subset, FS_CardinalityType
<1>2. PICK n \in Sizes : \A m \in Sizes : n <= m
  <2> HIDE DEF Under
  <2>1. Sizes \in SUBSET Nat /\ Sizes # {}
    BY <1>1
  <2> HIDE DEF Sizes
  <2> QED
    BY <2>1, LeastNumber
<1>3. PICK c \in T : n = Cardinality(Under(c))
  BY <1>2
<1>4. ASSUME NEW d \in T, Less(d, c) PROVE FALSE
  <2>1. Under(d) \in SUBSET Under(c)
    BY <1>4, LessTransitive
  <2>2. d \in Under(c) /\ d \notin Under(d)
    BY <1>4, LessAsymmetric
  <2>3. Cardinality(Under(c)) <= Cardinality(Under(d))
    BY <1>2, <1>3
  <2> HIDE DEF Under
  <2>4. Cardinality(Under(d)) <= Cardinality(Under(c))
        /\ (Cardinality(Under(c)) = Cardinality(Under(d)) => Under(c) = Under(d))
    BY <1>1, <2>1, FS_Subset
  <2> QED
    BY <1>1, <2>2, <2>3, <2>4
<1> QED
  BY <1>4

-----------------------------------------------------------------------------
(* Composite keys *)

LEMMA NamesAreBytes == Names \subseteq Bytes
  BY TimeTravelKeysAssumption DEF Bytes

LEMMA ConcatFacts ==
    ASSUME NEW a \in Bytes, NEW b \in Bytes
    PROVE  /\ a \o b \in Bytes /\ Len(a \o b) = Len(a) + Len(b)
           /\ \A i \in 1 .. Len(a) : (a \o b)[i] = a[i]
           /\ \A i \in 1 .. Len(b) : (a \o b)[Len(a) + i] = b[i]
<1>1. Len(a) \in Nat /\ Len(b) \in Nat
  BY BytesFacts
<1>2. /\ a \o b \in Seq(Byte) /\ Len(a \o b) = Len(a) + Len(b)
      /\ \A i \in 1 .. Len(a) + Len(b) :
            (a \o b)[i] = IF i <= Len(a) THEN a[i] ELSE b[i - Len(a)]
  BY ConcatProperties DEF Bytes
<1> QED
  BY <1>1, <1>2 DEF Bytes

LEMMA BigEndianFacts ==
    ASSUME NEW n \in 0 .. MaxUint
    PROVE  BigEndian(n) \in Bytes /\ Len(BigEndian(n)) = Width
<1>1. BigEndian(n) \in [1 .. Width -> Byte]
  <2>1. \A i \in 1 .. Width : BigEndian(n)[i] \in Byte
    BY DigitFacts
  <2> QED
    BY <2>1 DEF BigEndian
<1> QED
  BY <1>1, ConstantFacts DEF Bytes

LEMMA CompositeFacts ==
    ASSUME NEW x \in Bytes, NEW n \in 0 .. MaxUint
    PROVE  LET c == makeTimeTraversalKey(x, n)
           IN  /\ c \in Bytes /\ Len(c) = Len(x) + Width
               /\ \A i \in 1 .. Len(x) : c[i] = x[i]
               /\ \A i \in 1 .. Width : c[Len(x) + i] = BigEndian(MaxUint - n)[i]
<1>1. MaxUint - n \in 0 .. MaxUint
  BY ConstantFacts
<1>2. BigEndian(MaxUint - n) \in Bytes /\ Len(BigEndian(MaxUint - n)) = Width
  BY <1>1, BigEndianFacts
<1> QED
  BY <1>2, ConcatFacts DEF makeTimeTraversalKey

\* The versions of a key sort from the newest to the oldest.
LEMMA VersionsOrdered ==
    ASSUME NEW x \in Bytes, NEW n \in 0 .. MaxUint, NEW m \in 0 .. MaxUint
    PROVE  Less(makeTimeTraversalKey(x, n), makeTimeTraversalKey(x, m)) <=> m < n
<1>1. ASSUME NEW a \in 0 .. MaxUint, NEW b \in 0 .. MaxUint, b < a
      PROVE  Less(makeTimeTraversalKey(x, a), makeTimeTraversalKey(x, b))
  <2> DEFINE c == makeTimeTraversalKey(x, a)
             d == makeTimeTraversalKey(x, b)
             u == MaxUint - a
             v == MaxUint - b
  <2>1. u \in 0 .. MaxUint /\ v \in 0 .. MaxUint /\ u < v
    BY <1>1, ConstantFacts
  <2>2. /\ c \in Bytes /\ Len(c) = Len(x) + Width
        /\ \A i \in 1 .. Len(x) : c[i] = x[i]
        /\ \A i \in 1 .. Width : c[Len(x) + i] = BigEndian(u)[i]
    BY CompositeFacts
  <2>3. /\ d \in Bytes /\ Len(d) = Len(x) + Width
        /\ \A i \in 1 .. Len(x) : d[i] = x[i]
        /\ \A i \in 1 .. Width : d[Len(x) + i] = BigEndian(v)[i]
    BY CompositeFacts
  <2> HIDE DEF c, d, u, v
  <2>4. PICK i \in 1 .. Width : /\ BigEndian(u)[i] < BigEndian(v)[i]
                                /\ \A j \in 1 .. i - 1 : BigEndian(u)[j] = BigEndian(v)[j]
    BY <2>1, DigitsOrdered
  <2>5. Len(x) \in Nat /\ Width \in Nat
    BY BytesFacts, ConstantFacts
  <2>6. ASSUME NEW j \in 1 .. Len(x) + i - 1 PROVE c[j] = d[j]
    <3>1. CASE j <= Len(x)
      BY <2>2, <2>3, <2>5, <3>1
    <3>2. CASE j > Len(x)
      <4>1. j - Len(x) \in 1 .. i - 1 /\ j - Len(x) \in 1 .. Width /\ Len(x) + (j - Len(x)) = j
        BY <2>4, <2>5, <3>2
      <4> QED
        BY <2>2, <2>3, <2>4, <4>1
    <3> QED
      BY <2>5, <3>1, <3>2
  <2>7. c[Len(x) + i] < d[Len(x) + i]
    BY <2>2, <2>3, <2>4
  <2>8. Above(c, d, Len(x) + i) /\ Len(x) + i \in Nat
    BY <2>2, <2>3, <2>5, <2>6, <2>7 DEF Above
  <2>9. Less(c, d)
    BY <2>2, <2>3, <2>8, LessFacts
  <2> QED
    BY <2>9 DEF c, d
<1>2. CASE m < n
  BY <1>1, <1>2
<1>3. CASE n < m
  <2>1. Less(makeTimeTraversalKey(x, m), makeTimeTraversalKey(x, n))
    BY <1>1, <1>3
  <2>2. makeTimeTraversalKey(x, m) \in Bytes /\ makeTimeTraversalKey(x, n) \in Bytes
    BY CompositeFacts
  <2> QED
    BY <1>3, <2>1, <2>2, LessAsymmetric, ConstantFacts
<1>4. CASE n = m
  <2>1. makeTimeTraversalKey(x, n) \in Bytes
    BY CompositeFacts
  <2> QED
    BY <1>4, <2>1, LessAsymmetric, ConstantFacts
<1> QED
  BY <1>2, <1>3, <1>4, ConstantFacts

\* A composite key determines its key and its block number.
LEMMA CompositeInjective ==
    ASSUME NEW x \in Bytes, NEW y \in Bytes, NEW n \in 0 .. MaxUint, NEW m \in 0 .. MaxUint,
           makeTimeTraversalKey(x, n) = makeTimeTraversalKey(y, m)
    PROVE  x = y /\ n = m
<1>1. Len(x) \in Nat /\ Len(y) \in Nat /\ Width \in Nat
  BY BytesFacts, ConstantFacts
<1>2. Len(x) = Len(y)
  <2>1. Len(makeTimeTraversalKey(x, n)) = Len(x) + Width
    BY CompositeFacts
  <2>2. Len(makeTimeTraversalKey(y, m)) = Len(y) + Width
    BY CompositeFacts
  <2> QED
    BY <1>1, <2>1, <2>2
<1>3. x = y
  <2> DEFINE c == makeTimeTraversalKey(x, n)
             d == makeTimeTraversalKey(y, m)
  <2>1. ASSUME NEW i \in 1 .. Len(x) PROVE x[i] = y[i]
    <3>1. c[i] = x[i]
      BY CompositeFacts
    <3>2. i \in 1 .. Len(y)
      BY <1>2
    <3>3. d[i] = y[i]
      BY <3>2, CompositeFacts
    <3>4. c = d
      OBVIOUS
    <3> HIDE DEF c, d
    <3> QED
      BY <3>1, <3>3, <3>4
  <2> QED
    BY <1>2, <2>1, SeqEqual DEF Bytes
<1>4. ~ (m < n) /\ ~ (n < m)
  <2>1. makeTimeTraversalKey(x, n) \in Bytes
    BY CompositeFacts
  <2>2. ~ Less(makeTimeTraversalKey(x, n), makeTimeTraversalKey(x, n))
    BY <2>1, LessAsymmetric
  <2> QED
    BY <1>3, <2>2, VersionsOrdered
<1> QED
  BY <1>3, <1>4, ConstantFacts

LEMMA ConcatPrefix ==
    ASSUME NEW a \in Bytes, NEW b \in Bytes
    PROVE  IsPrefix(a, a \o b)
<1> DEFINE c == a \o b
<1>1. c \in Bytes /\ Len(c) = Len(a) + Len(b) /\ \A i \in 1 .. Len(a) : c[i] = a[i]
  BY ConcatFacts
<1>2. Len(a) \in Nat /\ Len(b) \in Nat
  BY BytesFacts
<1> HIDE DEF c
<1>3. IsPrefix(a, c)
  BY <1>1, <1>2, PrefixFacts
<1> QED
  BY <1>3 DEF c

\* What lies between two sequences that start with a key starts with it, too.
LEMMA Between ==
    ASSUME NEW key \in Bytes, NEW a \in Bytes, NEW b \in Bytes, NEW c \in Bytes,
           IsPrefix(key, a), IsPrefix(key, b), ~ Less(c, a), ~ Less(b, c)
    PROVE  IsPrefix(key, c)
<1>1. Len(key) <= Len(a) /\ \A i \in 1 .. Len(key) : key[i] = a[i]
  BY PrefixFacts
<1>2. Len(key) <= Len(b) /\ \A i \in 1 .. Len(key) : key[i] = b[i]
  BY PrefixFacts
<1>3. Len(key) \in Nat /\ Len(c) \in Nat /\ Len(a) \in Nat /\ Len(b) \in Nat
  BY BytesFacts
<1>4. ASSUME Less(c, key) PROVE FALSE
  <2>1. PICK i \in Nat : Above(c, key, i)
    BY <1>4, LessFacts
  <2>2. Above(c, a, i)
    BY <1>1, <1>3, <2>1 DEF Above
  <2> QED
    BY <2>2, LessFacts
<1>5. ASSUME Less(key, c), ~ IsPrefix(key, c) PROVE FALSE
  <2>1. PICK i \in Nat : Above(key, c, i)
    BY <1>5, LessFacts
  <2>2. i <= Len(key)
    BY <1>3, <1>5, <2>1, PrefixFacts DEF Above
  <2>3. Above(b, c, i)
    BY <1>2, <1>3, <2>1, <2>2 DEF Above
  <2> QED
    BY <2>3, LessFacts
<1>6. key = c => IsPrefix(key, c)
  BY <1>3, PrefixFacts
<1> QED
  BY <1>4, <1>5, <1>6, LessTotal

\* Keys apart, a key that a composite key starts with is one its own key starts
\* with: no digit of the block number is taken for a byte of a key.
LEMMA PrefixOfComposite ==
    ASSUME KeysApart, NEW x \in Names, NEW key \in Names, NEW n \in 0 .. MaxBlock
    PROVE  IsPrefix(key, makeTimeTraversalKey(x, n)) <=> IsPrefix(key, x)
<1> DEFINE c == makeTimeTraversalKey(x, n)
<1>1. x \in Bytes /\ key \in Bytes
  BY NamesAreBytes
<1>2. n \in 0 .. MaxUint /\ BigEndian(MaxUint - n)[1] = Top
  <2>1. n \in Nat /\ n < Power[Width - 1]
    BY ConstantFacts, PowerFacts DEF KeysApart
  <2> QED
    BY <2>1, FirstDigit
<1>3. /\ c \in Bytes /\ Len(c) = Len(x) + Width
      /\ \A i \in 1 .. Len(x) : c[i] = x[i]
      /\ c[Len(x) + 1] = Top
  <2>1. 1 \in 1 .. Width
    BY ConstantFacts
  <2> QED
    BY <1>1, <1>2, <2>1, CompositeFacts
<1>4. Len(x) \in Nat /\ Len(key) \in Nat /\ Width \in Nat
  BY <1>1, BytesFacts, ConstantFacts
<1> HIDE DEF c
<1>5. IsPrefix(key, x) => IsPrefix(key, c)
  BY <1>1, <1>3, <1>4, PrefixFacts
<1>6. ASSUME IsPrefix(key, c) PROVE IsPrefix(key, x)
  <2>1. Len(key) <= Len(c) /\ \A i \in 1 .. Len(key) : key[i] = c[i]
    BY <1>1, <1>3, <1>6, PrefixFacts
  <2>2. CASE Len(key) <= Len(x)
    BY <1>1, <1>3, <1>4, <2>1, <2>2, PrefixFacts
  <2>3. CASE Len(x) < Len(key)
    <3>1. IsStrictPrefix(x, key)
      BY <1>1, <1>3, <1>4, <2>1, <2>3, PrefixFacts
    <3>2. key[Len(x) + 1] < Top
      BY <3>1 DEF KeysApart
    <3>3. key[Len(x) + 1] = Top
      BY <1>3, <1>4, <2>1, <2>3
    <3> QED
      BY <3>2, <3>3, ConstantFacts
  <2> QED
    BY <1>4, <2>2, <2>3
<1> QED
  BY <1>5, <1>6 DEF c

\* Keys apart, versions of a key sort after everything of keys that extend it.
LEMMA ExtensionFirst ==
    ASSUME KeysApart, NEW x \in Names, NEW key \in Names, IsStrictPrefix(key, x),
           NEW s \in Bytes, NEW t \in Bytes, Len(t) >= 1, t[1] = Top
    PROVE  Less(x \o s, key \o t)
<1>1. x \in Bytes /\ key \in Bytes
  BY NamesAreBytes
<1>2. Len(key) \in Nat /\ Len(x) \in Nat /\ Len(s) \in Nat /\ Len(t) \in Nat
  BY <1>1, BytesFacts
<1>3. Len(key) < Len(x) /\ \A i \in 1 .. Len(key) : key[i] = x[i]
  BY <1>1, PrefixFacts
<1>4. x[Len(key) + 1] < Top
  BY DEF KeysApart
<1> DEFINE c == x \o s
           d == key \o t
<1>5. c \in Bytes /\ Len(c) = Len(x) + Len(s) /\ \A i \in 1 .. Len(x) : c[i] = x[i]
  BY <1>1, ConcatFacts
<1>6. /\ d \in Bytes /\ Len(d) = Len(key) + Len(t)
      /\ \A i \in 1 .. Len(key) : d[i] = key[i]
      /\ d[Len(key) + 1] = Top
  BY <1>1, <1>2, ConcatFacts
<1> HIDE DEF c, d
<1>7. Above(c, d, Len(key) + 1) /\ Len(key) + 1 \in Nat
  BY <1>2, <1>3, <1>4, <1>5, <1>6 DEF Above
<1> QED
  BY <1>5, <1>6, <1>7, LessFacts DEF c, d

\* The key and the block number can be read back from a composite key.
LEMMA ReadBack ==
    ASSUME NEW x \in Bytes, NEW n \in 0 .. MaxUint
    PROVE  /\ KeyOf(makeTimeTraversalKey(x, n)) = x
           /\ BlockOf(makeTimeTraversalKey(x, n)) = n
<1> DEFINE c == makeTimeTraversalKey(x, n)
<1>1. Len(x) \in Nat /\ Width \in Nat
  BY BytesFacts, ConstantFacts
<1>2. /\ c \in Bytes /\ Len(c) = Len(x) + Width
      /\ \A i \in 1 .. Len(x) : c[i] = x[i]
  BY CompositeFacts
<1>3. SubSeq(c, 1, Len(x)) = x
  <2> HIDE DEF c
  <2>1. \A i \in 1 .. Len(x) : c[i] \in Byte
    BY <1>1, <1>2, LenProperties DEF Bytes
  <2>2. /\ SubSeq(c, 1, Len(x)) \in Seq(Byte)
        /\ Len(SubSeq(c, 1, Len(x))) = IF 1 <= Len(x) THEN Len(x) - 1 + 1 ELSE 0
        /\ \A i \in 1 .. Len(x) - 1 + 1 : SubSeq(c, 1, Len(x))[i] = c[1 + i - 1]
    <3>1. 1 \in Int /\ Len(x) \in Int
      BY <1>1
    <3> QED
      BY <2>1, <3>1, SubSeqProperties
  <2>3. /\ Len(SubSeq(c, 1, Len(x))) = Len(x)
        /\ \A i \in 1 .. Len(x) : SubSeq(c, 1, Len(x))[i] = x[i]
    BY <1>1, <1>2, <2>2
  <2> QED
    BY <2>2, <2>3, SeqEqual DEF Bytes
<1>4. KeyOf(c) = x
  <2> HIDE DEF c
  <2>1. Len(c) - Width = Len(x)
    BY <1>1, <1>2
  <2> QED
    BY <1>3, <2>1 DEF KeyOf
<1>5. \A m \in 0 .. MaxUint : c = makeTimeTraversalKey(x, m) => m = n
  BY CompositeInjective
<1>6. BlockOf(c) = n
  <2>1. BlockOf(c) = CHOOSE m \in 0 .. MaxUint : c = makeTimeTraversalKey(x, m)
    BY <1>4 DEF BlockOf
  <2> QED
    BY <1>5, <2>1
<1> QED
  BY <1>4, <1>6

\* A database of composite keys, and a part of TypeOK.
Composites(d) == \A c \in DOMAIN d : \E x \in Names, n \in 0 .. MaxBlock : c = makeTimeTraversalKey(x, n)

LEMMA BlockIsNumber == 0 .. MaxBlock \subseteq 0 .. MaxUint
  BY ConstantFacts

\* The versions of a database are its entries.
LEMMA VersionFacts ==
    ASSUME NEW d, Composites(d)
    PROVE  \A t : t \in VersionsIn(d) <=>
              \E x \in Names, n \in 0 .. MaxBlock :
                 /\ makeTimeTraversalKey(x, n) \in DOMAIN d
                 /\ t = [key |-> x, block |-> n, val |-> d[makeTimeTraversalKey(x, n)]]
<1>1. \A x \in Names, n \in 0 .. MaxBlock :
         KeyOf(makeTimeTraversalKey(x, n)) = x /\ BlockOf(makeTimeTraversalKey(x, n)) = n
  BY ReadBack, NamesAreBytes, BlockIsNumber
<1> QED
  BY <1>1 DEF VersionsIn, Composites

\* Keys apart, the range of Get holds the versions of its key up to the block.
LEMMA GetRange ==
    ASSUME KeysApart, NEW key \in Names, NEW B \in 0 .. MaxBlock,
           NEW x \in Names, NEW n \in 0 .. MaxBlock
    PROVE  LET c == makeTimeTraversalKey(x, n)
           IN  /\ ~ Less(c, makeTimeTraversalKey(key, B))
               /\ Less(c, Append(makeTimeTraversalKey(key, 0), 0))
               <=> x = key /\ n <= B
<1> DEFINE c == makeTimeTraversalKey(x, n)
           start == makeTimeTraversalKey(key, B)
           last == makeTimeTraversalKey(key, 0)
           end == Append(last, 0)
<1>1. /\ x \in Bytes /\ key \in Bytes /\ 0 \in 0 .. MaxUint
      /\ n \in 0 .. MaxUint /\ B \in 0 .. MaxUint
  BY NamesAreBytes, BlockIsNumber, ConstantFacts
<1>2. c \in Bytes /\ start \in Bytes /\ last \in Bytes
  BY <1>1, CompositeFacts
<1>3. /\ end \in Bytes /\ Len(end) = Len(last) + 1
      /\ \A i \in 1 .. Len(last) : end[i] = last[i]
  <2> HIDE DEF last
  <2> QED
    BY <1>2, AppendProperties, ConstantFacts DEF Bytes
<1>4. ASSUME ~ Less(c, start), Less(c, end) PROVE x = key /\ n <= B
  <2> DEFINE s == BigEndian(MaxUint - B)
             e == BigEndian(MaxUint - 0) \o <<0>>
  <2>1. /\ MaxUint - B \in 0 .. MaxUint /\ MaxUint - 0 \in 0 .. MaxUint /\ MaxUint - n \in 0 .. MaxUint
        /\ <<0>> \in Bytes
    BY <1>1, ConstantFacts DEF Bytes
  <2>2. s \in Bytes /\ e \in Bytes /\ BigEndian(MaxUint - n) \in Bytes
    BY <2>1, BigEndianFacts, ConcatFacts
  <2>3. start = key \o s /\ c = x \o BigEndian(MaxUint - n)
    BY DEF makeTimeTraversalKey
  <2>4. end = key \o e
    <3>1. last = key \o BigEndian(MaxUint - 0)
      BY DEF makeTimeTraversalKey
    <3>2. end = last \o <<0>>
      <4> HIDE DEF last
      <4> QED
        BY <1>2, AppendIsConcat, ConstantFacts DEF Bytes
    <3>3. BigEndian(MaxUint - 0) \in Bytes
      BY <2>1, BigEndianFacts
    <3> DEFINE z == BigEndian(MaxUint - 0)
               y == <<0>>
    <3>4. key \in Seq(Byte) /\ z \in Seq(Byte) /\ y \in Seq(Byte)
      BY <1>1, <2>1, <3>3 DEF Bytes
    <3>5. last = key \o z /\ end = last \o y /\ e = z \o y
      BY <3>1, <3>2
    <3> HIDE DEF z, y, last, end, e
    <3>6. (key \o z) \o y = key \o (z \o y)
      BY ONLY <3>4, ConcatAssociative
    <3> QED
      BY <3>5, <3>6
  <2>5. s[1] = Top /\ Len(s) >= 1
    <3>1. B \in Nat /\ B < Power[Width - 1]
      BY ConstantFacts, PowerFacts DEF KeysApart
    <3> QED
      BY <2>1, <3>1, FirstDigit, BigEndianFacts, ConstantFacts
  <2> HIDE DEF s, e, start, c, end
  <2>6. ~ Less(end, c)
    BY <1>2, <1>3, <1>4, LessAsymmetric
  <2>7. IsPrefix(key, c)
    <3>1. IsPrefix(key, start) /\ IsPrefix(key, end)
      BY <1>1, <2>2, <2>3, <2>4, ConcatPrefix
    <3> QED
      BY <1>1, <1>2, <1>3, <1>4, <2>6, <3>1, Between
  <2>8. IsPrefix(key, x)
    BY <2>7, PrefixOfComposite DEF c
  <2>9. x = key
    <3>1. SUFFICES ASSUME x # key PROVE FALSE
      OBVIOUS
    <3>2. IsStrictPrefix(key, x)
      BY <2>8, <3>1 DEF IsStrictPrefix
    <3>3. Less(c, start)
      BY <2>2, <2>3, <2>5, <3>2, ExtensionFirst
    <3> QED
      BY <1>4, <3>3
  <2>10. ~ (B < n)
    BY <1>1, <1>4, <2>9, VersionsOrdered DEF c, start
  <2> QED
    BY <2>9, <2>10, ConstantFacts
<1>5. ASSUME x = key, n <= B PROVE ~ Less(c, start) /\ Less(c, end)
  <2>1. ~ Less(c, start)
    BY <1>1, <1>5, VersionsOrdered, ConstantFacts
  <2>2. c = last \/ Less(c, last)
    <3>1. CASE n = 0
      BY <1>5, <3>1
    <3>2. CASE 0 < n
      BY <1>1, <1>5, <3>2, VersionsOrdered
    <3> QED
      BY <1>1, <3>1, <3>2
  <2> HIDE DEF c, start, last, end
  <2>3. IsStrictPrefix(last, end)
    BY <1>2, <1>3, BytesFacts, PrefixFacts
  <2>4. Less(last, end)
    BY <2>3 DEF Less
  <2>5. Less(c, end)
    BY <1>2, <1>3, <2>2, <2>4, LessTransitive
  <2> QED
    BY <2>1, <2>5
<1> QED
  BY <1>4, <1>5

-----------------------------------------------------------------------------
(* Reads *)

\* Get, on a database of composite keys.
LEMMA GetIsWrapped ==
    ASSUME Composites(disk), KeysApart
    PROVE  \A key \in Names, B \in 0 .. MaxBlock : Get(key, B) = V!WrappedGet(Versions, key, B)
<1> SUFFICES ASSUME NEW key \in Names, NEW B \in 0 .. MaxBlock
             PROVE  Get(key, B) = V!WrappedGet(Versions, key, B)
  OBVIOUS
<1> DEFINE K(x, n) == makeTimeTraversalKey(x, n)
           start == K(key, B)
           end == Append(K(key, 0), 0)
           In(c) == ~ Less(c, start) /\ Less(c, end)
<1>1. \A x \in Names, n \in 0 .. MaxBlock : K(x, n) \in Bytes
  BY CompositeFacts, NamesAreBytes, BlockIsNumber
<1>2. start \in Bytes /\ end \in Bytes
  <2>1. 0 \in 0 .. MaxBlock
    BY ConstantFacts
  <2>2. start \in Bytes /\ K(key, 0) \in Bytes
    BY <1>1, <2>1
  <2> HIDE DEF K
  <2> QED
    BY <2>2, AppendProperties, ConstantFacts DEF Bytes
<1>3. \A x \in Names, n \in 0 .. MaxBlock : In(K(x, n)) <=> x = key /\ n <= B
  BY GetRange
<1>4. \A n, m \in 0 .. MaxBlock : Less(K(key, n), K(key, m)) <=> m < n
  BY VersionsOrdered, NamesAreBytes, BlockIsNumber
<1>5. \A c \in DOMAIN disk : c \in Bytes /\ \E x \in Names, n \in 0 .. MaxBlock : c = K(x, n)
  BY <1>1 DEF Composites
<1>6. \A t : t \in Versions <=>
              \E x \in Names, n \in 0 .. MaxBlock :
                 K(x, n) \in DOMAIN disk /\ t = [key |-> x, block |-> n, val |-> disk[K(x, n)]]
  BY VersionFacts DEF Versions
<1>7. Get(key, B) = {disk[c] : c \in {c \in Seek(start) : Less(c, end)}}
  BY DEF Get
<1> HIDE DEF K, start, end
<1>8. ASSUME NEW c \in Seek(start), Less(c, end)
      PROVE  disk[c] \in V!WrappedGet(Versions, key, B)
  <2>1. c \in DOMAIN disk /\ ~ Less(c, start)
        /\ \A d \in DOMAIN disk : Less(d, start) \/ ~ Less(d, c)
    BY DEF Seek
  <2>2. PICK n \in 0 .. MaxBlock : c = K(key, n) /\ n <= B
    BY <1>3, <1>5, <1>8, <2>1
  <2> DEFINE t == [key |-> key, block |-> n, val |-> disk[c]]
  <2>3. t \in Versions
    BY <1>6, <2>1, <2>2
  <2>4. ASSUME NEW u \in Versions, u.key = key, u.block <= B PROVE u.block <= n
    <3>1. PICK m \in 0 .. MaxBlock : u.block = m /\ K(key, m) \in DOMAIN disk
      BY <1>6, <2>4
    <3>2. ~ Less(K(key, m), start)
      BY <1>3, <2>4, <3>1
    <3>3. ~ Less(K(key, m), c)
      BY <2>1, <3>1, <3>2
    <3> QED
      BY <1>4, <2>2, <3>1, <3>3, ConstantFacts
  <2> QED
    BY <2>2, <2>3, <2>4 DEF V!WrappedGet, V!Newest
<1>9. ASSUME NEW v \in V!WrappedGet(Versions, key, B)
      PROVE  \E c \in Seek(start) : Less(c, end) /\ v = disk[c]
  <2>1. PICK t \in Versions : /\ t.key = key /\ t.block <= B /\ t.val = v
                              /\ \A u \in Versions : u.key = key /\ u.block <= B => u.block <= t.block
    BY DEF V!WrappedGet, V!Newest
  <2>2. PICK n \in 0 .. MaxBlock : /\ t.block = n /\ K(key, n) \in DOMAIN disk
                                   /\ v = disk[K(key, n)]
    BY <1>6, <2>1
  <2> DEFINE c == K(key, n)
  <2>3. In(c)
    BY <1>3, <2>1, <2>2
  <2>4. ASSUME NEW d \in DOMAIN disk, ~ Less(d, start), Less(d, c) PROVE FALSE
    <3>1. Less(d, end)
      BY <1>1, <1>2, <1>5, <2>3, <2>4, LessTransitive
    <3>2. PICK m \in 0 .. MaxBlock : d = K(key, m) /\ m <= B
      BY <1>3, <1>5, <2>4, <3>1
    <3>3. m <= n
      <4> DEFINE u == [key |-> key, block |-> m, val |-> disk[d]]
      <4>1. u \in Versions
        BY <1>6, <3>2
      <4>2. u.key = key /\ u.block = m
        OBVIOUS
      <4> QED
        BY <2>1, <2>2, <3>2, <4>1, <4>2
    <3> QED
      BY <1>4, <2>4, <3>2, <3>3, ConstantFacts
  <2> QED
    BY <2>2, <2>3, <2>4 DEF Seek
<1> QED
  BY <1>7, <1>8, <1>9

-----------------------------------------------------------------------------
(* Writes *)

\* Databases: maps from finitely many byte sequences.
Disks == UNION {[D -> Values] : D \in {D \in SUBSET Bytes : IsFiniteSet(D)}}

Entries == Seq([key : Names, val : Values])

\* What the loop over the first j entries of a batch has made of the database.
LoopInv(d, entries, chosen, n, j) ==
    /\ DOMAIN d = DOMAIN disk \cup {makeTimeTraversalKey(entries[i].key, n) : i \in chosen \cap (1 .. j)}
    /\ \A i \in chosen \cap (1 .. j) :
          (\A k \in chosen \cap (i + 1 .. j) : entries[k].key # entries[i].key)
              => d[makeTimeTraversalKey(entries[i].key, n)] = entries[i].val
    /\ \A c \in DOMAIN disk :
          (\A i \in chosen \cap (1 .. j) : c # makeTimeTraversalKey(entries[i].key, n)) => d[c] = disk[c]

LEMMA EntryFacts ==
    ASSUME NEW entries \in Entries
    PROVE  /\ Len(entries) \in Nat /\ DOMAIN entries = 1 .. Len(entries)
           /\ \A i \in 1 .. Len(entries) : entries[i].key \in Names /\ entries[i].val \in Values
<1>1. /\ Len(entries) \in Nat /\ DOMAIN entries = 1 .. Len(entries)
      /\ entries \in [1 .. Len(entries) -> [key : Names, val : Values]]
  BY LenProperties DEF Entries
<1> QED
  BY <1>1

LEMMA StoredFacts ==
    ASSUME NEW d \in Disks, NEW c \in Bytes, NEW val \in Values
    PROVE  /\ Stored(d, c, val) \in Disks /\ DOMAIN Stored(d, c, val) = DOMAIN d \cup {c}
           /\ Stored(d, c, val)[c] = val
           /\ \A x \in DOMAIN d : x # c => Stored(d, c, val)[x] = d[x]
<1>1. PICK D \in SUBSET Bytes : IsFiniteSet(D) /\ d \in [D -> Values]
  BY DEF Disks
<1>2. Stored(d, c, val) \in [D \cup {c} -> Values] /\ D \cup {c} \in SUBSET Bytes
  BY <1>1 DEF Stored
<1>3. IsFiniteSet(D \cup {c})
  BY <1>1, FS_AddElement
<1> QED
  BY <1>1, <1>2, <1>3 DEF Disks, Stored

LEMMA WrittenFacts ==
    ASSUME disk \in Disks, NEW entries \in Entries, NEW chosen \in SUBSET (DOMAIN entries),
           NEW n \in 0 .. MaxBlock
    PROVE  /\ Written(entries, chosen, n) \in Disks
           /\ LoopInv(Written(entries, chosen, n), entries, chosen, n, Len(entries))
<1> DEFINE N == Len(entries)
           K(i) == makeTimeTraversalKey(entries[i].key, n)
           step == [i \in 1 .. N |-> [d \in Disks |->
                       IF i \in chosen THEN Stored(d, K(i), entries[i].val) ELSE d]]
           F(g) == [i \in 0 .. N |->
                       IF i = 0 THEN disk
                       ELSE IF i \in chosen THEN Stored(g[i - 1], K(i), entries[i].val)
                       ELSE g[i - 1]]
           after == CHOOSE g : g = F(g)
<1>1. /\ N \in Nat /\ chosen \subseteq 1 .. N
      /\ \A i \in 1 .. N : entries[i].key \in Names /\ entries[i].val \in Values
  BY EntryFacts
<1>2. \A i \in 1 .. N : K(i) \in Bytes
  BY <1>1, CompositeFacts, NamesAreBytes, BlockIsNumber
<1>3. \A i, k \in 1 .. N : K(i) = K(k) => entries[i].key = entries[k].key
  BY <1>1, CompositeInjective, NamesAreBytes, BlockIsNumber
<1>4. Written(entries, chosen, n) = after[N]
  BY DEF Written
<1> HIDE DEF K
<1>5. step \in Steps(N, Disks)
  BY <1>1, <1>2, StoredFacts DEF Steps
<1>6. PICK f : IsIteration(f, N, Disks, disk, step)
  <2> HIDE DEF step, N
  <2> QED
    BY <1>1, <1>5, Iteration
<1>7. /\ f \in [0 .. N -> Disks] /\ f[0] = disk
      /\ \A i \in 1 .. N : f[i - 1] \in Disks /\ f[i] = step[i][f[i - 1]]
  <2> HIDE DEF step
  <2>1. \A i \in 1 .. N : i - 1 \in 0 .. N
    BY <1>1
  <2> QED
    BY <1>6, <2>1 DEF IsIteration
<1>8. f = F(f)
  <2>1. \A i \in 1 .. N : f[i] = IF i \in chosen THEN Stored(f[i - 1], K(i), entries[i].val) ELSE f[i - 1]
    BY <1>7
  <2> HIDE DEF step
  <2>2. \A i \in 0 .. N : f[i] = IF i = 0 THEN disk
                                ELSE IF i \in chosen THEN Stored(f[i - 1], K(i), entries[i].val)
                                ELSE f[i - 1]
    BY <1>1, <1>7, <2>1
  <2> QED
    BY <1>7, <2>2
<1>9. after = F(after)
  <2> HIDE DEF F
  <2> QED
    BY <1>8
<1>10. /\ after[0] = disk
       /\ \A i \in 1 .. N : after[i] = IF i \in chosen
                                     THEN Stored(after[i - 1], K(i), entries[i].val)
                                     ELSE after[i - 1]
  <2> DEFINE b == after
  <2>1. b = F(b)
    BY <1>9
  <2> HIDE DEF after, b
  <2>2. \A i \in 0 .. N : b[i] = IF i = 0 THEN disk
                                ELSE IF i \in chosen THEN Stored(b[i - 1], K(i), entries[i].val)
                                ELSE b[i - 1]
    BY <2>1
  <2>3. b[0] = disk /\ \A i \in 1 .. N : b[i] = IF i \in chosen THEN Stored(b[i - 1], K(i), entries[i].val)
                                            ELSE b[i - 1]
    BY <1>1, <2>2
  <2> QED
    BY <2>3 DEF b
<1> HIDE DEF after, step, F
<1> DEFINE Good(j) == after[j] \in Disks /\ LoopInv(after[j], entries, chosen, n, j)
           Bad == {j \in 0 .. N : ~ Good(j)}
<1>11. Good(0)
  <2>1. chosen \cap (1 .. 0) = {}
    BY <1>1
  <2> QED
    BY <1>10, <2>1 DEF LoopInv
<1>12. ASSUME NEW j \in 1 .. N, Good(j - 1) PROVE Good(j)
  <2> DEFINE d == after[j - 1]
             e == after[j]
  <2>1. d \in Disks /\ LoopInv(d, entries, chosen, n, j - 1)
    BY <1>12
  <2>2. e = IF j \in chosen THEN Stored(d, K(j), entries[j].val) ELSE d
    BY <1>10
  <2> HIDE DEF d, e
  <2>3. CASE j \notin chosen
    <3>1. e = d /\ chosen \cap (1 .. j) = chosen \cap (1 .. j - 1)
      BY <1>1, <2>2, <2>3
    <3>2. \A i \in 1 .. N : chosen \cap (i + 1 .. j) = chosen \cap (i + 1 .. j - 1)
      BY <1>1, <2>3
    <3>3. LoopInv(e, entries, chosen, n, j)
      BY <1>1, <2>1, <3>1, <3>2 DEF LoopInv
    <3> QED
      BY <2>1, <3>1, <3>3 DEF d, e
  <2>4. CASE j \in chosen
    <3>1. /\ e \in Disks /\ DOMAIN e = DOMAIN d \cup {K(j)} /\ e[K(j)] = entries[j].val
          /\ \A c \in DOMAIN d : c # K(j) => e[c] = d[c]
      BY <1>1, <1>2, <2>1, <2>2, <2>4, StoredFacts
    <3>2. chosen \cap (1 .. j) = (chosen \cap (1 .. j - 1)) \cup {j}
      BY <1>1, <2>4
    <3>3. /\ DOMAIN d = DOMAIN disk \cup {K(i) : i \in chosen \cap (1 .. j - 1)}
          /\ \A i \in chosen \cap (1 .. j - 1) :
                (\A k \in chosen \cap (i + 1 .. j - 1) : entries[k].key # entries[i].key)
                    => d[K(i)] = entries[i].val
          /\ \A c \in DOMAIN disk :
                (\A i \in chosen \cap (1 .. j - 1) : c # K(i)) => d[c] = disk[c]
      BY <2>1 DEF LoopInv, K
    <3>4. DOMAIN e = DOMAIN disk \cup {K(i) : i \in chosen \cap (1 .. j)}
      BY <3>1, <3>2, <3>3
    <3>5. ASSUME NEW i \in chosen \cap (1 .. j),
                 \A k \in chosen \cap (i + 1 .. j) : entries[k].key # entries[i].key
          PROVE  e[K(i)] = entries[i].val
      <4>1. CASE i = j
        BY <3>1, <4>1
      <4>2. CASE i \in chosen \cap (1 .. j - 1)
        <5>1. j \in chosen \cap (i + 1 .. j) /\ i \in 1 .. N
          BY <1>1, <2>4, <4>2
        <5>2. K(i) # K(j)
          BY <1>3, <3>5, <5>1
        <5>3. \A k \in chosen \cap (i + 1 .. j - 1) : k \in chosen \cap (i + 1 .. j)
          BY <1>1
        <5>4. d[K(i)] = entries[i].val /\ K(i) \in DOMAIN d
          BY <3>3, <3>5, <4>2, <5>3
        <5> QED
          BY <3>1, <5>2, <5>4
      <4> QED
        BY <3>2, <4>1, <4>2
    <3>6. ASSUME NEW c \in DOMAIN disk, \A i \in chosen \cap (1 .. j) : c # K(i)
          PROVE  e[c] = disk[c]
      <4>1. c \in DOMAIN d /\ c # K(j) /\ d[c] = disk[c]
        BY <3>2, <3>3, <3>6
      <4> QED
        BY <3>1, <4>1
    <3>7. LoopInv(e, entries, chosen, n, j)
      BY <3>4, <3>5, <3>6 DEF LoopInv, K
    <3> QED
      BY <3>1, <3>7 DEF e
  <2> QED
    BY <2>3, <2>4
<1>13. Bad = {}
  <2> HIDE DEF Good
  <2>1. SUFFICES ASSUME Bad # {} PROVE FALSE
    OBVIOUS
  <2>2. Bad \in SUBSET Nat
    BY <1>1
  <2>3. PICK j \in Bad : \A k \in Bad : j <= k
    <3> HIDE DEF Bad
    <3> QED
      BY <2>1, <2>2, LeastNumber
  <2>4. j \in 1 .. N /\ j - 1 \in 0 .. N /\ j - 1 \notin Bad
    BY <1>1, <1>11, <2>3
  <2> QED
    BY <1>12, <2>3, <2>4
<1>14. Good(N)
  <2> HIDE DEF Good
  <2> QED
    BY <1>1, <1>13
<1> QED
  BY <1>4, <1>14

LEMMA DiskFacts ==
    ASSUME NEW d \in Disks
    PROVE  /\ DOMAIN d \subseteq Bytes /\ IsFiniteSet(DOMAIN d)
           /\ \A c \in DOMAIN d : d[c] \in Values
  BY DEF Disks

-----------------------------------------------------------------------------
(* Type correctness *)

DiskInv == disk \in Disks /\ Composites(disk)

LEMMA DiskInvTypes ==
    ASSUME DiskInv
    PROVE  TypeOK
<1>1. Composites(disk) /\ \A c \in DOMAIN disk : disk[c] \in Values
  BY DiskFacts DEF DiskInv
<1>2. ASSUME NEW t \in Versions
      PROVE  t.key \in Names /\ t.block \in 0 .. MaxBlock /\ t.val \in Values
  <2>1. PICK x \in Names, n \in 0 .. MaxBlock :
           /\ makeTimeTraversalKey(x, n) \in DOMAIN disk
           /\ t = [key |-> x, block |-> n, val |-> disk[makeTimeTraversalKey(x, n)]]
    BY <1>1, VersionFacts DEF Versions
  <2> QED
    BY <1>1, <2>1
<1> QED
  BY <1>1, <1>2 DEF TypeOK, Composites

\* Whatever part of a batch reaches the database, it holds composite keys only.
LEMMA WrittenComposites ==
    ASSUME DiskInv, NEW entries \in Entries, NEW chosen \in SUBSET (DOMAIN entries),
           NEW n \in 0 .. MaxBlock
    PROVE  /\ Written(entries, chosen, n) \in Disks
           /\ Composites(Written(entries, chosen, n))
<1> DEFINE d == Written(entries, chosen, n)
<1>1. d \in Disks /\ LoopInv(d, entries, chosen, n, Len(entries))
  BY WrittenFacts DEF DiskInv
<1>2. DOMAIN entries = 1 .. Len(entries) /\ \A i \in 1 .. Len(entries) : entries[i].key \in Names
  BY EntryFacts
<1> HIDE DEF d
<1>3. Composites(d)
  BY <1>1, <1>2 DEF LoopInv, DiskInv, Composites
<1> QED
  BY <1>1, <1>3 DEF d

THEOREM StoreInvariance == Spec => []DiskInv
<1>1. Init => DiskInv
  <2>1. <<>> \in [{} -> Values] /\ {} \in SUBSET Bytes /\ IsFiniteSet({})
    BY FS_EmptySet
  <2>2. <<>> \in Disks
    BY <2>1 DEF Disks
  <2> QED
    BY <2>1, <2>2 DEF Init, DiskInv, Composites
<1>2. DiskInv /\ [Next]_disk => DiskInv'
  <2> SUFFICES ASSUME DiskInv, [Next]_disk PROVE DiskInv'
    OBVIOUS
  <2>1. CASE UNCHANGED disk
    BY <2>1 DEF DiskInv, Composites
  <2>2. CASE Next
    <3>1. PICK entries \in Batches, IfNotExist \in BOOLEAN, n \in 0 .. MaxBlock :
             \/ SetAll(entries, IfNotExist, n)
             \/ SetAllFails(entries, IfNotExist, n)
             \/ Len(entries) = 1 /\ Set(entries[1], IfNotExist, n)
      BY <2>2 DEF Next
    <3>2. entries \in Entries
      BY TimeTravelKeysAssumption DEF Entries
    <3>3. Admitted(entries, IfNotExist) \in SUBSET (DOMAIN entries)
      BY DEF Admitted
    <3>4. CASE SetAll(entries, IfNotExist, n) \/ SetAllFails(entries, IfNotExist, n)
      <4>1. PICK chosen \in SUBSET (DOMAIN entries) : disk' = Written(entries, chosen, n)
        BY <3>3, <3>4 DEF SetAll, SetAllFails, PartialStore, Store
      <4> QED
        BY <3>2, <4>1, WrittenComposites DEF DiskInv, Composites
    <3>5. CASE Len(entries) = 1 /\ Set(entries[1], IfNotExist, n)
      <4> DEFINE c == makeTimeTraversalKey(entries[1].key, n)
      <4>1. entries[1].key \in Names /\ entries[1].val \in Values
        BY <3>2, <3>5, EntryFacts
      <4>2. c \in Bytes
        BY <4>1, CompositeFacts, NamesAreBytes, BlockIsNumber
      <4>3. disk' = Stored(disk, c, entries[1].val)
        BY <3>5 DEF Set
      <4>4. disk' \in Disks /\ DOMAIN disk' = DOMAIN disk \cup {c}
        <5> HIDE DEF c
        <5> QED
          BY <4>1, <4>2, <4>3, StoredFacts DEF DiskInv
      <4> QED
        BY <4>1, <4>4 DEF DiskInv, Composites
    <3> QED
      BY <3>1, <3>4, <3>5
  <2> QED
    BY <2>1, <2>2
<1> QED
  BY <1>1, <1>2, PTL DEF Spec

\* Every entry of the database is a version of a key (TypeOK).
THEOREM StoreTypeCorrect == Spec => []TypeOK
<1>1. DiskInv => TypeOK
  BY DiskInvTypes
<1> QED
  BY <1>1, StoreInvariance, PTL

\* Get finds the newest version of its key that is not above the block (GetsAgree).
THEOREM GetFindsNewest == Spec => []GetsAgree
<1>1. DiskInv => GetsAgree
  BY GetIsWrapped DEF DiskInv, GetsAgree
<1> QED
  BY <1>1, StoreInvariance, PTL

-----------------------------------------------------------------------------
(* Writes against the versions of Backend *)

\* A sequence is not below what it starts with.
LEMMA PrefixNotAbove ==
    ASSUME NEW a \in Bytes, NEW b \in Bytes, IsPrefix(a, b)
    PROVE  ~ Less(b, a)
<1>1. CASE a = b
  BY <1>1, LessAsymmetric
<1>2. CASE a # b
  <2>1. Less(a, b)
    BY <1>2 DEF Less, IsStrictPrefix
  <2> QED
    BY <2>1, LessAsymmetric
<1> QED
  BY <1>1, <1>2

\* The scan of IfNotExist finds the versions of the keys that extend the one asked for.
LEMMA ScanFinds ==
    ASSUME DiskInv, KeysApart, NEW key \in Names
    PROVE  Exists(key) <=> V!Exists(Versions, key)
<1> DEFINE K(x, n) == makeTimeTraversalKey(x, n)
<1>1. key \in Bytes /\ DOMAIN disk \subseteq Bytes /\ IsFiniteSet(DOMAIN disk)
  BY NamesAreBytes, DiskFacts DEF DiskInv
<1>2. \A c \in DOMAIN disk : \E x \in Names, n \in 0 .. MaxBlock : c = K(x, n)
  BY DEF DiskInv, Composites
<1>3. V!Exists(Versions, key) <=>
         \E x \in Names, n \in 0 .. MaxBlock : K(x, n) \in DOMAIN disk /\ IsPrefix(key, x)
  <2>1. \A t : t \in Versions <=>
              \E x \in Names, n \in 0 .. MaxBlock :
                 K(x, n) \in DOMAIN disk /\ t = [key |-> x, block |-> n, val |-> disk[K(x, n)]]
    BY VersionFacts DEF DiskInv, Versions
  <2>2. V!Exists(Versions, key) <=> \E t \in Versions : t.key \in Names /\ IsPrefix(key, t.key)
    BY DEF V!Exists, Extensions
  <2> HIDE DEF K
  <2>3. ASSUME NEW t \in Versions, t.key \in Names, IsPrefix(key, t.key)
        PROVE  \E x \in Names, n \in 0 .. MaxBlock : K(x, n) \in DOMAIN disk /\ IsPrefix(key, x)
    <3>1. PICK x \in Names, n \in 0 .. MaxBlock :
             K(x, n) \in DOMAIN disk /\ t = [key |-> x, block |-> n, val |-> disk[K(x, n)]]
      BY <2>1
    <3>2. t.key = x
      BY <3>1
    <3> QED
      BY <2>3, <3>1, <3>2
  <2>4. ASSUME NEW x \in Names, NEW n \in 0 .. MaxBlock, K(x, n) \in DOMAIN disk, IsPrefix(key, x)
        PROVE  \E t \in Versions : t.key \in Names /\ IsPrefix(key, t.key)
    <3> DEFINE t == [key |-> x, block |-> n, val |-> disk[K(x, n)]]
    <3>1. t \in Versions
      BY <2>1, <2>4
    <3>2. t.key = x
      OBVIOUS
    <3> QED
      BY <2>4, <3>1, <3>2
  <2> QED
    BY <2>2, <2>3, <2>4
<1>4. \A x \in Names, n \in 0 .. MaxBlock : IsPrefix(key, K(x, n)) <=> IsPrefix(key, x)
  BY PrefixOfComposite
<1> HIDE DEF K
<1>5. ASSUME NEW c \in Seek(key), IsPrefix(key, c)
      PROVE  \E x \in Names, n \in 0 .. MaxBlock : K(x, n) \in DOMAIN disk /\ IsPrefix(key, x)
  BY <1>2, <1>4, <1>5 DEF Seek
<1>6. ASSUME NEW x \in Names, NEW n \in 0 .. MaxBlock, K(x, n) \in DOMAIN disk, IsPrefix(key, x)
      PROVE  \E c \in Seek(key) : IsPrefix(key, c)
  <2> DEFINE T == {c \in DOMAIN disk : ~ Less(c, key)}
  <2>1. IsPrefix(key, K(x, n)) /\ K(x, n) \in Bytes
    BY <1>1, <1>4, <1>6
  <2>2. K(x, n) \in T
    BY <1>1, <1>6, <2>1, PrefixNotAbove
  <2>3. T \in SUBSET Bytes /\ IsFiniteSet(T)
    <3>1. T \in SUBSET (DOMAIN disk)
      OBVIOUS
    <3> HIDE DEF T
    <3> QED
      BY <1>1, <3>1, FS_Subset
  <2>4. PICK c \in T : \A d \in T : ~ Less(d, c)
    <3> HIDE DEF T
    <3> QED
      BY <2>2, <2>3, FirstOfFinite
  <2>5. c \in Seek(key)
    BY <2>4 DEF Seek
  <2>6. c \in Bytes /\ ~ Less(c, key) /\ ~ Less(K(x, n), c)
    BY <2>2, <2>3, <2>4
  <2>7. IsPrefix(key, key)
    BY <1>1, BytesFacts, PrefixFacts
  <2>8. IsPrefix(key, c)
    BY <1>1, <2>1, <2>6, <2>7, Between
  <2> QED
    BY <2>5, <2>8
<1> QED
  BY <1>3, <1>5, <1>6 DEF Exists

\* The last entry of its key among the chosen ones.
IsLast(entries, chosen, i) ==
    \A j \in chosen \cap (i + 1 .. Len(entries)) : entries[j].key # entries[i].key

LEMMA LastExists ==
    ASSUME NEW entries \in Entries, NEW chosen \in SUBSET (1 .. Len(entries)), NEW i \in chosen
    PROVE  \E l \in chosen : entries[l].key = entries[i].key /\ IsLast(entries, chosen, l)
<1> DEFINE N == Len(entries)
           Same(l) == l \in chosen /\ entries[l].key = entries[i].key
           After == {m \in 0 .. N - 1 : Same(N - m)}
<1>1. N \in Nat /\ i \in 1 .. N /\ chosen \subseteq 1 .. N
  BY EntryFacts
<1>2. \A l \in 1 .. N : N - l \in 0 .. N - 1 /\ N - (N - l) = l
  BY <1>1
<1>3. N - i \in After
  BY <1>1, <1>2
<1>4. PICK m \in After : \A k \in After : m <= k
  <2>1. After \in SUBSET Nat
    BY <1>1
  <2> HIDE DEF After
  <2> QED
    BY <1>3, <2>1, LeastNumber
<1>5. Same(N - m) /\ m \in 0 .. N - 1
  BY <1>4
<1>6. ASSUME NEW j \in chosen \cap (N - m + 1 .. N), entries[j].key = entries[N - m].key PROVE FALSE
  <2>1. j \in 1 .. N /\ Same(j)
    BY <1>1, <1>5, <1>6
  <2>2. N - j \in After
    BY <1>2, <2>1
  <2>3. m <= N - j
    BY <1>4, <2>2
  <2> HIDE DEF N
  <2> QED
    BY <1>1, <1>5, <2>1, <2>3
<1> QED
  BY <1>5, <1>6 DEF IsLast

LEMMA BatchFacts ==
    ASSUME NEW entries \in Entries
    PROVE  /\ DOMAIN Batch(entries) = {entries[i].key : i \in 1 .. Len(entries)}
           /\ \A i \in 1 .. Len(entries) :
                 IsLast(entries, 1 .. Len(entries), i) => Batch(entries)[entries[i].key] = entries[i].val
<1>1. Len(entries) \in Nat /\ DOMAIN entries = 1 .. Len(entries)
  BY EntryFacts
<1>2. {e.key : e \in Range(entries)} = {entries[i].key : i \in 1 .. Len(entries)}
  BY <1>1 DEF Range
<1>3. ASSUME NEW i \in 1 .. Len(entries), IsLast(entries, 1 .. Len(entries), i)
      PROVE  Batch(entries)[entries[i].key] = entries[i].val
  <2> DEFINE key == entries[i].key
             Ends(l) == entries[l].key = key /\ \A j \in l + 1 .. Len(entries) : entries[j].key # key
             last == CHOOSE l \in DOMAIN entries : Ends(l)
  <2>1. key \in {e.key : e \in Range(entries)}
    BY <1>2
  <2>2. Batch(entries)[key] = entries[last].val
    BY <2>1 DEF Batch
  <2>3. Ends(i) /\ i \in DOMAIN entries
    BY <1>1, <1>3 DEF IsLast
  <2>4. last \in DOMAIN entries /\ Ends(last)
    <3> HIDE DEF Ends
    <3> QED
      BY <2>3
  <2> HIDE DEF last
  <2>5. last = i
    BY <1>1, <2>3, <2>4
  <2> QED
    BY <2>2, <2>5
<1> QED
  BY <1>2, <1>3 DEF Batch

\* The chosen entries of a batch put the last value of each key among the versions.
LEMMA WrittenIsPut ==
    ASSUME DiskInv, NEW entries \in Entries, NEW chosen \in SUBSET (DOMAIN entries),
           NEW n \in 0 .. MaxBlock, NEW A, DOMAIN A = {entries[i].key : i \in chosen},
           \A i \in chosen : IsLast(entries, chosen, i) => A[entries[i].key] = entries[i].val
    PROVE  VersionsIn(Written(entries, chosen, n)) = V!Put(Versions, A, n)
<1> DEFINE K(x, m) == makeTimeTraversalKey(x, m)
           N == Len(entries)
           d == Written(entries, chosen, n)
<1>1. /\ DOMAIN entries = 1 .. N /\ N \in Nat /\ chosen \subseteq 1 .. N
      /\ \A i \in 1 .. N : entries[i].key \in Names
  BY EntryFacts
<1>2. Composites(d) /\ LoopInv(d, entries, chosen, n, N)
  BY WrittenFacts, WrittenComposites DEF DiskInv
<1>3. \A x, y \in Names, m, o \in 0 .. MaxBlock : K(x, m) = K(y, o) => x = y /\ m = o
  BY CompositeInjective, NamesAreBytes, BlockIsNumber
<1> HIDE DEF K, d
<1>4. DOMAIN A \subseteq Names
  BY <1>1
<1>5. chosen \cap (1 .. N) = chosen
  BY <1>1
<1>6. DOMAIN d = DOMAIN disk \cup {K(k, n) : k \in DOMAIN A}
  <2>1. DOMAIN d = DOMAIN disk \cup {K(entries[i].key, n) : i \in chosen}
    BY <1>2, <1>5 DEF LoopInv, K
  <2> QED
    BY <2>1
<1>7. ASSUME NEW k \in DOMAIN A PROVE d[K(k, n)] = A[k]
  <2>1. PICK i \in chosen : entries[i].key = k
    OBVIOUS
  <2>2. PICK l \in chosen : entries[l].key = k /\ IsLast(entries, chosen, l)
    BY <1>1, <2>1, LastExists
  <2>3. d[K(k, n)] = entries[l].val
    BY <1>2, <1>5, <2>2 DEF LoopInv, IsLast, K
  <2> QED
    BY <2>2, <2>3
<1>8. ASSUME NEW c \in DOMAIN disk, \A k \in DOMAIN A : c # K(k, n) PROVE d[c] = disk[c]
  <2>1. \A i \in chosen \cap (1 .. N) : c # makeTimeTraversalKey(entries[i].key, n)
    BY <1>5, <1>8 DEF K
  <2> QED
    BY <1>2, <2>1 DEF LoopInv
<1>9. \A t : t \in VersionsIn(d) <=>
              \E x \in Names, m \in 0 .. MaxBlock :
                 K(x, m) \in DOMAIN d /\ t = [key |-> x, block |-> m, val |-> d[K(x, m)]]
  BY <1>2, VersionFacts DEF K
<1>10. \A t : t \in Versions <=>
              \E x \in Names, m \in 0 .. MaxBlock :
                 K(x, m) \in DOMAIN disk /\ t = [key |-> x, block |-> m, val |-> disk[K(x, m)]]
  BY VersionFacts DEF DiskInv, Versions, K
<1>11. \A t : t \in V!Put(Versions, A, n) <=>
              \/ t \in Versions /\ (t.key \in DOMAIN A => t.block # n)
              \/ \E k \in DOMAIN A : t = [key |-> k, block |-> n, val |-> A[k]]
  BY DEF V!Put
<1>12. ASSUME NEW t \in VersionsIn(d) PROVE t \in V!Put(Versions, A, n)
  <2>1. PICK x \in Names, m \in 0 .. MaxBlock :
           K(x, m) \in DOMAIN d /\ t = [key |-> x, block |-> m, val |-> d[K(x, m)]]
    BY <1>9
  <2>2. CASE x \in DOMAIN A /\ m = n
    BY <1>7, <1>11, <2>1, <2>2
  <2>3. CASE ~ (x \in DOMAIN A /\ m = n)
    <3>1. \A k \in DOMAIN A : K(x, m) # K(k, n)
      BY <1>3, <1>4, <2>3
    <3>2. K(x, m) \in DOMAIN disk /\ d[K(x, m)] = disk[K(x, m)]
      BY <1>6, <1>8, <2>1, <3>1
    <3>3. t \in Versions /\ t.key = x /\ t.block = m
      BY <1>10, <2>1, <3>2
    <3> QED
      BY <1>11, <2>3, <3>3
  <2> QED
    BY <2>2, <2>3
<1>13. ASSUME NEW t \in V!Put(Versions, A, n) PROVE t \in VersionsIn(d)
  <2>1. CASE t \in Versions /\ (t.key \in DOMAIN A => t.block # n)
    <3>1. PICK x \in Names, m \in 0 .. MaxBlock :
             K(x, m) \in DOMAIN disk /\ t = [key |-> x, block |-> m, val |-> disk[K(x, m)]]
      BY <1>10, <2>1
    <3>2. ~ (x \in DOMAIN A /\ m = n)
      BY <2>1, <3>1
    <3>3. \A k \in DOMAIN A : K(x, m) # K(k, n)
      BY <1>3, <1>4, <3>2
    <3>4. K(x, m) \in DOMAIN d /\ d[K(x, m)] = disk[K(x, m)]
      BY <1>6, <1>8, <3>1, <3>3
    <3> QED
      BY <1>9, <3>1, <3>4
  <2>2. CASE \E k \in DOMAIN A : t = [key |-> k, block |-> n, val |-> A[k]]
    <3>1. PICK k \in DOMAIN A : t = [key |-> k, block |-> n, val |-> A[k]]
      BY <2>2
    <3>2. k \in Names /\ K(k, n) \in DOMAIN d /\ d[K(k, n)] = A[k]
      BY <1>4, <1>6, <1>7
    <3> QED
      BY <1>9, <3>1, <3>2
  <2> QED
    BY <1>11, <2>1, <2>2
<1> QED
  BY <1>12, <1>13 DEF d

\* SetAll on bytes, on a database of composite keys.
LEMMA StoreIsWrapped ==
    ASSUME DiskInv, KeysApart, NEW entries \in Entries, NEW IfNotExist \in BOOLEAN,
           NEW n \in 0 .. MaxBlock
    PROVE  VersionsIn(Store(entries, IfNotExist, n))
              = V!WrappedSetAll(Versions, Batch(entries), IfNotExist, n)
<1> DEFINE N == Len(entries)
           chosen == Admitted(entries, IfNotExist)
           A == V!Admitted(Versions, Batch(entries), IfNotExist)
<1>1. /\ DOMAIN entries = 1 .. N /\ N \in Nat
      /\ \A i \in 1 .. N : entries[i].key \in Names
  BY EntryFacts
<1>2. \A i : i \in chosen <=> i \in 1 .. N /\ (IfNotExist => ~ Exists(entries[i].key))
  BY <1>1 DEF Admitted
<1>3. Store(entries, IfNotExist, n) = Written(entries, chosen, n) /\ chosen \in SUBSET (DOMAIN entries)
  BY DEF Store, Admitted
<1>4. /\ DOMAIN A = {k \in DOMAIN Batch(entries) : IfNotExist => ~ V!Exists(Versions, k)}
      /\ \A k \in DOMAIN A : A[k] = Batch(entries)[k]
  BY DEF V!Admitted, V!Restrict
<1>5. V!WrappedSetAll(Versions, Batch(entries), IfNotExist, n) = V!Put(Versions, A, n)
  BY DEF V!WrappedSetAll
<1> HIDE DEF chosen, A
<1>6. DOMAIN A = {entries[i].key : i \in chosen}
  <2>1. \A k : k \in DOMAIN Batch(entries) <=> \E i \in 1 .. N : entries[i].key = k
    BY BatchFacts
  <2>2. \A k \in Names : Exists(k) <=> V!Exists(Versions, k)
    BY ScanFinds
  <2>3. \A k \in DOMAIN Batch(entries) : k \in Names
    BY <1>1, <2>1
  <2>4. \A k : k \in DOMAIN A <=> k \in DOMAIN Batch(entries) /\ (IfNotExist => ~ Exists(k))
    BY <1>4, <2>2, <2>3
  <2> QED
    BY <1>2, <2>1, <2>4
<1>7. ASSUME NEW i \in chosen, IsLast(entries, chosen, i) PROVE A[entries[i].key] = entries[i].val
  <2>1. i \in 1 .. N /\ \A j \in 1 .. N : entries[j].key = entries[i].key => j \in chosen
    BY <1>2
  <2>2. IsLast(entries, 1 .. N, i)
    BY <1>7, <2>1 DEF IsLast
  <2>3. Batch(entries)[entries[i].key] = entries[i].val
    BY <2>1, <2>2, BatchFacts
  <2> QED
    BY <1>4, <1>6, <2>3
<1>8. VersionsIn(Written(entries, chosen, n)) = V!Put(Versions, A, n)
  BY <1>3, <1>6, <1>7, WrittenIsPut
<1> QED
  BY <1>3, <1>5, <1>8

\* A SetAll leaves one version for each key of its batch, less those that
\* IfNotExist skips (SetsAgree).
THEOREM StoreWritesVersions == Spec => []SetsAgree
<1>1. Batches \subseteq Entries
  BY TimeTravelKeysAssumption DEF Entries
<1>2. ASSUME DiskInv, KeysApart, NEW entries \in Batches, NEW IfNotExist \in BOOLEAN,
             NEW n \in 0 .. MaxBlock,
             \A key \in DOMAIN Batch(entries) : IfNotExist /\ Exists(key) => HasVersion(key)
      PROVE  LET batch   == Batch(entries)
                 skipped == {key \in DOMAIN batch : IfNotExist /\ HasVersion(key)}
             IN  VersionsIn(Store(entries, IfNotExist, n))
                     = V!Put(Versions, Restrict(batch, DOMAIN batch \ skipped), n)
  <2> DEFINE batch == Batch(entries)
             skipped == {key \in DOMAIN batch : IfNotExist /\ HasVersion(key)}
  <2>1. \A key \in DOMAIN batch : key \in Names
    <3>1. \A k : k \in DOMAIN batch <=> \E i \in 1 .. Len(entries) : entries[i].key = k
      BY <1>1, BatchFacts
    <3>2. \A i \in 1 .. Len(entries) : entries[i].key \in Names
      BY <1>1, EntryFacts
    <3> HIDE DEF batch
    <3> QED
      BY <3>1, <3>2
  <2>2. ASSUME NEW key \in DOMAIN batch, HasVersion(key) PROVE Exists(key)
    <3>1. key \in Names /\ key \in Bytes
      BY <2>1, NamesAreBytes
    <3>2. key \in Extensions[key]
      BY <3>1, PrefixFacts, BytesFacts DEF Extensions
    <3>3. V!Exists(Versions, key)
      BY <2>2, <3>2 DEF HasVersion, V!Exists
    <3> QED
      BY <1>2, <3>1, <3>3, ScanFinds
  <2>3. \A key \in DOMAIN batch : Exists(key) <=> V!Exists(Versions, key)
    BY <1>2, <2>1, ScanFinds
  <2> HIDE DEF batch
  <2>4. {key \in DOMAIN batch : IfNotExist => ~ V!Exists(Versions, key)} = DOMAIN batch \ skipped
    BY <1>2, <2>2, <2>3 DEF batch
  <2>5. V!Admitted(Versions, batch, IfNotExist) = Restrict(batch, DOMAIN batch \ skipped)
    BY <2>4 DEF V!Admitted, V!Restrict, Restrict
  <2>6. VersionsIn(Store(entries, IfNotExist, n)) = V!WrappedSetAll(Versions, batch, IfNotExist, n)
    BY <1>1, <1>2, StoreIsWrapped DEF batch
  <2>7. VersionsIn(Store(entries, IfNotExist, n))
           = V!Put(Versions, Restrict(batch, DOMAIN batch \ skipped), n)
    BY <2>5, <2>6 DEF V!WrappedSetAll
  <2> QED
    BY <2>7 DEF batch
<1>3. DiskInv => SetsAgree
  BY <1>2 DEF SetsAgree
<1> QED
  BY <1>3, StoreInvariance, PTL

\* What a batch has for a key at its last entry is one of its values for it.
LEMMA BatchIsSelection ==
    ASSUME NEW entries \in Entries
    PROVE  \A k \in DOMAIN Batch(entries) : [key |-> k, val |-> Batch(entries)[k]] \in Range(entries)
<1> TAKE k \in DOMAIN Batch(entries)
<1>1. PICK i \in 1 .. Len(entries) : entries[i].key = k
  BY BatchFacts
<1>2. PICK l \in 1 .. Len(entries) : entries[l].key = k /\ IsLast(entries, 1 .. Len(entries), l)
  BY <1>1, LastExists
<1>3. Batch(entries)[k] = entries[l].val
  BY <1>2, BatchFacts
<1>4. entries[l] \in [key : Names, val : Values] /\ entries[l] \in Range(entries)
  <2>1. /\ DOMAIN entries = 1 .. Len(entries)
        /\ entries \in [1 .. Len(entries) -> [key : Names, val : Values]]
    BY LenProperties DEF Entries
  <2> QED
    BY <2>1 DEF Range
<1>5. entries[l] = [key |-> entries[l].key, val |-> entries[l].val]
  BY <1>4
<1> QED
  BY <1>2, <1>3, <1>4, <1>5

\* A part of a SetAll on bytes, on a database of composite keys.
LEMMA PartIsPartial ==
    ASSUME DiskInv, KeysApart, NEW entries \in Entries, NEW IfNotExist \in BOOLEAN,
           NEW n \in 0 .. MaxBlock, NEW d \in PartialStore(entries, IfNotExist, n)
    PROVE  \E batch \in Selections(entries) :
              VersionsIn(d) \in V!PartialSetAll(Versions, batch, IfNotExist, n)
<1> DEFINE N == Len(entries)
           keys == {e.key : e \in Range(entries)}
<1>1. /\ DOMAIN entries = 1 .. N /\ N \in Nat
      /\ \A i \in 1 .. N : entries[i].key \in Names /\ entries[i].val \in Values
      /\ entries \in [1 .. N -> [key : Names, val : Values]]
  BY EntryFacts, LenProperties DEF Entries
<1>2. PICK committed \in SUBSET Admitted(entries, IfNotExist) : d = Written(entries, committed, n)
  BY DEF PartialStore
<1>3. /\ committed \in SUBSET (1 .. N)
      /\ \A i \in committed : IfNotExist => ~ Exists(entries[i].key)
  BY <1>1, <1>2 DEF Admitted
<1> DEFINE D == {entries[i].key : i \in committed}
           Ends(k, l) == entries[l].key = k /\ IsLast(entries, committed, l)
           last(k) == CHOOSE l \in committed : Ends(k, l)
           batch == [k \in keys |-> IF k \in D THEN entries[last(k)].val ELSE Batch(entries)[k]]
<1>4. \A i \in 1 .. N : entries[i].key \in keys /\ entries[i] \in Range(entries)
  BY <1>1 DEF Range
<1>5. ASSUME NEW k \in D PROVE last(k) \in committed /\ Ends(k, last(k))
  <2>1. \E l \in committed : Ends(k, l)
    BY <1>3, LastExists
  <2> HIDE DEF Ends
  <2> QED
    BY <2>1
<1>6. D \subseteq keys /\ DOMAIN batch = keys
  BY <1>3, <1>4
<1>7. batch \in Selections(entries)
  <2>1. ASSUME NEW k \in keys PROVE [key |-> k, val |-> batch[k]] \in Range(entries) /\ batch[k] \in Values
    <3>1. CASE k \in D
      <4> DEFINE l == last(k)
      <4>1. l \in 1 .. N /\ entries[l].key = k /\ batch[k] = entries[l].val
        BY <1>3, <1>5, <3>1
      <4> HIDE DEF last, l, batch
      <4>2. entries[l] \in [key : Names, val : Values]
        BY <1>1, <4>1
      <4>3. entries[l] = [key |-> k, val |-> batch[k]]
        BY <4>1, <4>2
      <4> QED
        BY <1>1, <1>4, <4>1, <4>3
    <3>2. CASE k \notin D
      <4>1. batch[k] = Batch(entries)[k] /\ k \in DOMAIN Batch(entries)
        BY <3>2 DEF Batch
      <4>2. [key |-> k, val |-> batch[k]] \in Range(entries)
        BY <4>1, BatchIsSelection
      <4> HIDE DEF batch
      <4>3. batch[k] \in Values
        BY <1>1, <4>2 DEF Range
      <4> QED
        BY <4>2, <4>3
    <3> QED
      BY <3>1, <3>2
  <2>2. batch = [k \in keys |-> batch[k]]
    OBVIOUS
  <2> HIDE DEF batch, keys
  <2>3. batch \in [keys -> Values]
    BY <2>1, <2>2
  <2> QED
    BY <1>6, <2>1, <2>3 DEF Selections, keys
<1> DEFINE admitted == V!Admitted(Versions, batch, IfNotExist)
           A == V!Restrict(admitted, D)
<1>8. DOMAIN admitted = {k \in keys : IfNotExist => ~ V!Exists(Versions, k)}
      /\ \A k \in DOMAIN admitted : admitted[k] = batch[k]
  <2> HIDE DEF batch
  <2> QED
    BY <1>6 DEF V!Admitted, V!Restrict
<1>9. D \in SUBSET DOMAIN admitted
  <2>1. \A k \in Names : Exists(k) <=> V!Exists(Versions, k)
    BY ScanFinds
  <2>2. ASSUME NEW i \in committed
        PROVE  entries[i].key \in keys /\ (IfNotExist => ~ V!Exists(Versions, entries[i].key))
    BY <1>1, <1>3, <1>4, <2>1
  <2> HIDE DEF batch, admitted, keys
  <2> QED
    BY <1>8, <2>2
<1>10. DOMAIN A = D /\ \A k \in D : A[k] = batch[k]
  <2> HIDE DEF batch, D, admitted
  <2> QED
    BY <1>8, <1>9 DEF V!Restrict
<1>11. ASSUME NEW i \in committed, IsLast(entries, committed, i)
       PROVE  A[entries[i].key] = entries[i].val
  <2> DEFINE k == entries[i].key
             l == last(k)
  <2>1. k \in D /\ k \in keys
    BY <1>6
  <2>2. l \in committed /\ entries[l].key = k /\ IsLast(entries, committed, l)
    BY <1>5, <2>1
  <2>3. A[k] = entries[l].val
    <3> HIDE DEF A
    <3> QED
      BY <1>10, <2>1
  <2> HIDE DEF l
  <2>4. l = i
    BY <1>1, <1>3, <1>11, <2>2 DEF IsLast
  <2> QED
    BY <2>3, <2>4
<1> HIDE DEF A, D, batch, admitted
<1>12. VersionsIn(d) = V!Put(Versions, A, n)
  <2>1. committed \in SUBSET (DOMAIN entries) /\ DOMAIN A = {entries[i].key : i \in committed}
    BY <1>1, <1>3, <1>10 DEF D
  <2> QED
    BY <1>2, <1>11, <2>1, WrittenIsPut
<1>13. V!Put(Versions, A, n) \in V!PartialSetAll(Versions, batch, IfNotExist, n)
  BY <1>9 DEF V!PartialSetAll, A, admitted
<1> QED
  BY <1>7, <1>12, <1>13

\* Wherever a SetAll ends early, no version is lost and what is new is an entry
\* of the batch (PartsAgree).
THEOREM PartsAreWritten == Spec => []PartsAgree
<1>1. Batches \subseteq Entries
  BY TimeTravelKeysAssumption DEF Entries
<1>2. ASSUME DiskInv, KeysApart, NEW entries \in Batches, NEW IfNotExist \in BOOLEAN,
             NEW n \in 0 .. MaxBlock, NEW d \in PartialStore(entries, IfNotExist, n)
      PROVE  LET after == VersionsIn(d)
             IN  /\ \A t \in Versions \ after :
                       /\ ~ IfNotExist /\ t.block = n
                       /\ \E u \in after : u.key = t.key /\ u.block = n
                 /\ \A t \in after \ Versions :
                       t.block = n /\ [key |-> t.key, val |-> t.val] \in Range(entries)
  <2> DEFINE after == VersionsIn(d)
             admitted(batch) == V!Admitted(Versions, batch, IfNotExist)
  <2>1. PICK batch \in Selections(entries) : after \in V!PartialSetAll(Versions, batch, IfNotExist, n)
    BY <1>1, <1>2, PartIsPartial
  <2>2. PICK D \in SUBSET DOMAIN admitted(batch) :
           after = V!Put(Versions, V!Restrict(admitted(batch), D), n)
    BY <2>1 DEF V!PartialSetAll
  <2>3. /\ DOMAIN admitted(batch) = {k \in DOMAIN batch : IfNotExist => ~ V!Exists(Versions, k)}
        /\ \A k \in DOMAIN admitted(batch) : admitted(batch)[k] = batch[k]
    BY DEF V!Admitted, V!Restrict
  <2>4. \A k \in DOMAIN batch : k \in Names /\ [key |-> k, val |-> batch[k]] \in Range(entries)
    <3>1. /\ DOMAIN entries = 1 .. Len(entries)
          /\ \A i \in 1 .. Len(entries) : entries[i].key \in Names
      BY <1>1, EntryFacts
    <3>2. /\ DOMAIN batch = {e.key : e \in Range(entries)}
          /\ \A k \in DOMAIN batch : [key |-> k, val |-> batch[k]] \in Range(entries)
      BY <2>1 DEF Selections
    <3> QED
      BY <3>1, <3>2 DEF Range
  <2> HIDE DEF after, admitted
  <2> DEFINE part == V!Restrict(admitted(batch), D)
             new == {[key |-> k, block |-> n, val |-> part[k]] : k \in DOMAIN part}
  <2>5. DOMAIN part = D /\ \A k \in D : part[k] = batch[k]
    BY <2>2, <2>3 DEF V!Restrict
  <2> HIDE DEF part
  <2>6. after = {t \in Versions : t.key \in D => t.block # n} \cup new
    BY <2>2, <2>5 DEF V!Put, part
  <2>7. ASSUME NEW t \in Versions \ after
        PROVE  /\ ~ IfNotExist /\ t.block = n
               /\ \E u \in after : u.key = t.key /\ u.block = n
    <3>1. t.key \in D /\ t.block = n
      BY <2>6, <2>7
    <3>2. ~ IfNotExist
      <4>1. t.key \in Names /\ t.key \in Bytes
        BY <2>2, <2>3, <2>4, <3>1, NamesAreBytes
      <4>2. t.key \in Extensions[t.key]
        BY <4>1, PrefixFacts, BytesFacts DEF Extensions
      <4>3. V!Exists(Versions, t.key)
        BY <2>7, <4>2 DEF V!Exists
      <4> QED
        BY <2>2, <2>3, <3>1, <4>3
    <3>3. [key |-> t.key, block |-> n, val |-> part[t.key]] \in after
      BY <2>5, <2>6, <3>1
    <3> QED
      BY <3>1, <3>2, <3>3
  <2>8. ASSUME NEW t \in after \ Versions
        PROVE  t.block = n /\ [key |-> t.key, val |-> t.val] \in Range(entries)
    <3>1. PICK k \in D : t = [key |-> k, block |-> n, val |-> batch[k]]
      BY <2>5, <2>6, <2>8
    <3>2. k \in DOMAIN batch
      BY <2>2, <2>3
    <3> QED
      BY <2>4, <3>1, <3>2
  <2> QED
    BY <2>7, <2>8 DEF after
<1>3. DiskInv => PartsAgree
  BY <1>2 DEF PartsAgree
<1> QED
  BY <1>3, StoreInvariance, PTL

\* A Set is a SetAll of one entry.
LEMMA SetIsStore ==
    ASSUME DiskInv, NEW entries \in Entries, Len(entries) = 1, NEW IfNotExist \in BOOLEAN,
           NEW n \in 0 .. MaxBlock, Set(entries[1], IfNotExist, n)
    PROVE  disk' = Store(entries, IfNotExist, n)
<1> DEFINE c == makeTimeTraversalKey(entries[1].key, n)
           d == Store(entries, IfNotExist, n)
           e == Stored(disk, c, entries[1].val)
<1>1. DOMAIN entries = {1} /\ entries[1].key \in Names /\ entries[1].val \in Values
  BY EntryFacts
<1>2. c \in Bytes
  BY <1>1, CompositeFacts, NamesAreBytes, BlockIsNumber
<1>3. Admitted(entries, IfNotExist) = {1} /\ disk' = e
  BY <1>1 DEF Set, Admitted
<1>4. d \in Disks /\ LoopInv(d, entries, {1}, n, 1)
  BY <1>1, <1>3, WrittenFacts DEF Store, DiskInv
<1> HIDE DEF d
<1>5. {1} \cap (1 .. 1) = {1} /\ {1} \cap (1 + 1 .. 1) = {}
  OBVIOUS
<1>6. /\ DOMAIN d = DOMAIN disk \cup {c} /\ d[c] = entries[1].val
      /\ \A x \in DOMAIN disk : x # c => d[x] = disk[x]
  BY <1>4, <1>5 DEF LoopInv
<1> HIDE DEF c
<1>7. /\ e \in Disks /\ DOMAIN e = DOMAIN disk \cup {c} /\ e[c] = entries[1].val
      /\ \A x \in DOMAIN disk : x # c => e[x] = disk[x]
  BY <1>1, <1>2, StoredFacts DEF DiskInv
<1> HIDE DEF e
<1>8. d = [x \in DOMAIN d |-> d[x]] /\ e = [x \in DOMAIN e |-> e[x]]
  BY <1>4, <1>7 DEF Disks
<1>9. d = e
  BY <1>6, <1>7, <1>8
<1> QED
  BY <1>3, <1>9 DEF d

\* A call, and what Backend says of it.
VersionCall ==
    \E entries \in Batches, IfNotExist \in BOOLEAN, n \in 0 .. MaxBlock :
        \/ /\ SetAll(entries, IfNotExist, n)
           /\ Versions' = V!WrappedSetAll(Versions, Batch(entries), IfNotExist, n)
        \/ /\ SetAllFails(entries, IfNotExist, n)
           /\ \E batch \in Selections(entries) :
                 Versions' \in V!PartialSetAll(Versions, batch, IfNotExist, n)
        \/ /\ Len(entries) = 1 /\ Set(entries[1], IfNotExist, n)
           /\ Versions' = V!WrappedSetAll(Versions, Batch(entries), IfNotExist, n)

\* The store on bytes implements the one on versions: it starts without any, and
\* each of its calls does to them what Backend says of that call (setter.go:31-133).
THEOREM BytesImplementVersions ==
    ASSUME KeysApart
    PROVE  Spec => Versions = {} /\ [][VersionCall]_disk
<1>1. Init => Versions = {}
  BY DEF Init, Versions, VersionsIn
<1>2. DiskInv /\ Next => VersionCall
  <2> SUFFICES ASSUME DiskInv, Next PROVE VersionCall
    OBVIOUS
  <2>1. PICK entries \in Batches, IfNotExist \in BOOLEAN, n \in 0 .. MaxBlock :
           \/ SetAll(entries, IfNotExist, n)
           \/ SetAllFails(entries, IfNotExist, n)
           \/ Len(entries) = 1 /\ Set(entries[1], IfNotExist, n)
    BY DEF Next
  <2>2. entries \in Entries /\ Versions' = VersionsIn(disk')
    BY TimeTravelKeysAssumption DEF Entries, Versions, VersionsIn, KeyOf, BlockOf
  <2>3. VersionsIn(Store(entries, IfNotExist, n))
           = V!WrappedSetAll(Versions, Batch(entries), IfNotExist, n)
    BY <2>2, StoreIsWrapped
  <2>4. CASE SetAll(entries, IfNotExist, n)
    BY <2>2, <2>3, <2>4 DEF SetAll, VersionCall
  <2>5. CASE SetAllFails(entries, IfNotExist, n)
    <3>1. disk' \in PartialStore(entries, IfNotExist, n)
      BY <2>5 DEF SetAllFails
    <3>2. \E batch \in Selections(entries) :
             VersionsIn(disk') \in V!PartialSetAll(Versions, batch, IfNotExist, n)
      BY <2>2, <3>1, PartIsPartial
    <3> QED
      BY <2>2, <2>5, <3>2 DEF VersionCall
  <2>6. CASE Len(entries) = 1 /\ Set(entries[1], IfNotExist, n)
    <3>1. disk' = Store(entries, IfNotExist, n)
      BY <2>2, <2>6, SetIsStore
    <3> QED
      BY <2>2, <2>3, <2>6, <3>1 DEF VersionCall
  <2> QED
    BY <2>1, <2>4, <2>5, <2>6
<1> QED
  BY <1>1, <1>2, StoreInvariance, PTL DEF Spec

-----------------------------------------------------------------------------
(* GetFirst, and the order of keys *)

\* Sequences that differ keep their order whatever follows them.
LEMMA OrderOfExtensions ==
    ASSUME NEW a \in Bytes, NEW b \in Bytes, NEW c \in Bytes, NEW d \in Bytes,
           IsPrefix(a, c), IsPrefix(b, d), Less(a, b), ~ IsPrefix(a, b)
    PROVE  Less(c, d)
<1>1. PICK i \in Nat : Above(a, b, i)
  BY LessFacts
<1>2. /\ Len(a) \in Nat /\ Len(b) \in Nat /\ Len(c) \in Nat /\ Len(d) \in Nat
      /\ Len(a) <= Len(c) /\ \A j \in 1 .. Len(a) : a[j] = c[j]
      /\ Len(b) <= Len(d) /\ \A j \in 1 .. Len(b) : b[j] = d[j]
  BY BytesFacts, PrefixFacts
<1>3. i <= Len(a)
  BY <1>1, <1>2, PrefixFacts DEF Above
<1>4. /\ i \in 1 .. Len(b) /\ a[i] < b[i]
      /\ \A j \in 1 .. i - 1 : a[j] = b[j]
  BY <1>1, <1>3 DEF Above
<1>5. i \in 1 .. Len(d) /\ i <= Len(c) + 1
  BY <1>2, <1>3, <1>4
<1>6. \A j \in 1 .. i - 1 : c[j] = d[j]
  BY <1>2, <1>3, <1>4
<1>7. c[i] < d[i]
  BY <1>2, <1>3, <1>4
<1>8. Above(c, d, i)
  BY <1>5, <1>6, <1>7 DEF Above
<1> QED
  BY <1>8, LessFacts

LEMMA ToppedFacts ==
    ASSUME NEW x \in Bytes
    PROVE  /\ Append(x, Top) \in Bytes /\ Len(Append(x, Top)) = Len(x) + 1
           /\ \A i \in 1 .. Len(x) : Append(x, Top)[i] = x[i]
           /\ Append(x, Top)[Len(x) + 1] = Top
  BY AppendProperties, ConstantFacts DEF Bytes

\* Keys apart, no key followed by Top starts with another one followed by Top.
LEMMA ToppedApart ==
    ASSUME KeysApart, NEW x \in Names, NEW y \in Names, IsPrefix(Append(x, Top), Append(y, Top))
    PROVE  x = y
<1> DEFINE a == Append(x, Top)
           b == Append(y, Top)
<1>1. x \in Bytes /\ y \in Bytes /\ Len(x) \in Nat /\ Len(y) \in Nat
  BY NamesAreBytes, BytesFacts
<1>2. /\ a \in Bytes /\ Len(a) = Len(x) + 1
      /\ \A i \in 1 .. Len(x) : a[i] = x[i]
      /\ a[Len(x) + 1] = Top
  BY <1>1, ToppedFacts
<1>3. /\ b \in Bytes /\ Len(b) = Len(y) + 1
      /\ \A i \in 1 .. Len(y) : b[i] = y[i]
      /\ b[Len(y) + 1] = Top
  BY <1>1, ToppedFacts
<1>4. IsPrefix(a, b)
  OBVIOUS
<1> HIDE DEF a, b
<1>5. Len(x) <= Len(y) /\ \A i \in 1 .. Len(x) + 1 : a[i] = b[i]
  BY <1>1, <1>2, <1>3, <1>4, PrefixFacts
<1>6. \A i \in 1 .. Len(x) : x[i] = y[i]
  BY <1>1, <1>2, <1>3, <1>5
<1>7. CASE Len(x) = Len(y)
  BY <1>1, <1>6, <1>7, SeqEqual DEF Bytes
<1>8. CASE Len(x) < Len(y)
  <2>1. IsStrictPrefix(x, y)
    BY <1>1, <1>6, <1>8, PrefixFacts
  <2>2. y[Len(x) + 1] < Top
    BY <2>1 DEF KeysApart
  <2>3. y[Len(x) + 1] = Top
    BY <1>1, <1>2, <1>3, <1>5, <1>8
  <2> QED
    BY <2>2, <2>3, ConstantFacts
<1> QED
  BY <1>1, <1>5, <1>7, <1>8

\* Keys apart, the versions of two keys sort as the keys do.
LEMMA CompositesOrdered ==
    ASSUME KeysApart, NEW x \in Names, NEW y \in Names, x # y,
           NEW n \in 0 .. MaxBlock, NEW m \in 0 .. MaxBlock
    PROVE  Less(makeTimeTraversalKey(x, n), makeTimeTraversalKey(y, m))
              <=> Less(Append(x, Top), Append(y, Top))
<1>1. ASSUME NEW z \in Names, NEW k \in 0 .. MaxBlock
      PROVE  /\ Append(z, Top) \in Bytes /\ makeTimeTraversalKey(z, k) \in Bytes
             /\ IsPrefix(Append(z, Top), makeTimeTraversalKey(z, k))
  <2> DEFINE a == Append(z, Top)
             c == makeTimeTraversalKey(z, k)
  <2>1. z \in Bytes /\ Len(z) \in Nat /\ k \in 0 .. MaxUint /\ Width \in Nat \ {0}
    BY NamesAreBytes, BlockIsNumber, BytesFacts, ConstantFacts
  <2>2. BigEndian(MaxUint - k)[1] = Top
    <3>1. k \in Nat /\ k < Power[Width - 1]
      BY ConstantFacts, PowerFacts DEF KeysApart
    <3> QED
      BY <3>1, FirstDigit
  <2>3. /\ c \in Bytes /\ Len(c) = Len(z) + Width
        /\ \A i \in 1 .. Len(z) : c[i] = z[i]
        /\ c[Len(z) + 1] = Top
    BY <2>1, <2>2, CompositeFacts
  <2>4. /\ a \in Bytes /\ Len(a) = Len(z) + 1
        /\ \A i \in 1 .. Len(z) : a[i] = z[i]
        /\ a[Len(z) + 1] = Top
    BY <2>1, ToppedFacts
  <2> HIDE DEF a, c
  <2>5. IsPrefix(a, c)
    BY <2>1, <2>3, <2>4, PrefixFacts
  <2> QED
    BY <2>3, <2>4, <2>5 DEF a, c
<1>2. ASSUME Less(Append(x, Top), Append(y, Top))
      PROVE  Less(makeTimeTraversalKey(x, n), makeTimeTraversalKey(y, m))
  BY <1>1, <1>2, ToppedApart, OrderOfExtensions
<1>3. ASSUME ~ Less(Append(x, Top), Append(y, Top))
      PROVE  ~ Less(makeTimeTraversalKey(x, n), makeTimeTraversalKey(y, m))
  <2>1. Append(x, Top) # Append(y, Top)
    <3>1. Append(x, Top) = Append(y, Top) => IsPrefix(Append(x, Top), Append(y, Top))
      BY <1>1, BytesFacts, PrefixFacts
    <3> QED
      BY <3>1, ToppedApart
  <2>2. Less(Append(y, Top), Append(x, Top))
    BY <1>1, <1>3, <2>1, LessTotal
  <2>3. Less(makeTimeTraversalKey(y, m), makeTimeTraversalKey(x, n))
    BY <1>1, <2>2, ToppedApart, OrderOfExtensions
  <2> QED
    BY <1>1, <2>3, LessAsymmetric
<1> QED
  BY <1>2, <1>3

\* Rank orders the keys as their versions sort.
LEMMA RankFacts ==
    ASSUME IsFiniteSet(Names), NEW x \in Names, NEW y \in Names
    PROVE  Rank[x] <= Rank[y] <=> ~ Less(Append(y, Top), Append(x, Top))
<1> DEFINE Under(k) == {z \in Names : Less(Append(z, Top), Append(k, Top))}
<1>1. \A z \in Names : Append(z, Top) \in Bytes
  BY NamesAreBytes, ToppedFacts
<1>2. Rank[x] = Cardinality(Under(x)) /\ Rank[y] = Cardinality(Under(y))
  BY DEF Rank
<1>3. ASSUME NEW k \in Names PROVE IsFiniteSet(Under(k)) /\ Cardinality(Under(k)) \in Nat
  <2>1. Under(k) \in SUBSET Names
    OBVIOUS
  <2> HIDE DEF Under
  <2> QED
    BY <2>1, FS_Subset, FS_CardinalityType
<1>4. ASSUME ~ Less(Append(y, Top), Append(x, Top)) PROVE Rank[x] <= Rank[y]
  <2>1. Under(x) \in SUBSET Under(y)
    BY <1>1, <1>4, LessTotal, LessTransitive
  <2> HIDE DEF Under
  <2> QED
    BY <1>2, <1>3, <2>1, FS_Subset
<1>5. ASSUME Less(Append(y, Top), Append(x, Top)) PROVE ~ (Rank[x] <= Rank[y])
  <2>1. Under(y) \in SUBSET Under(x)
    BY <1>1, <1>5, LessTransitive
  <2>2. y \in Under(x) /\ y \notin Under(y)
    BY <1>1, <1>5, LessAsymmetric
  <2> HIDE DEF Under
  <2>3. /\ Cardinality(Under(y)) <= Cardinality(Under(x))
        /\ Cardinality(Under(x)) = Cardinality(Under(y)) => Under(x) = Under(y)
    BY <1>3, <2>1, FS_Subset
  <2>4. Cardinality(Under(x)) \in Nat /\ Cardinality(Under(y)) \in Nat
    BY <1>3
  <2>5. Cardinality(Under(x)) # Cardinality(Under(y))
    BY <2>2, <2>3
  <2> QED
    BY <1>2, <2>3, <2>4, <2>5
<1> QED
  BY <1>4, <1>5

\* The bounds of GetFirst.
FirstBegin(key) == key \o [i \in 1 .. Width |-> 0]
FirstEnd(key) == Append(key \o [i \in 1 .. Width |-> Top], 0)

LEMMA FirstBoundFacts ==
    ASSUME NEW key \in Bytes
    PROVE  /\ FirstBegin(key) \in Bytes /\ Len(FirstBegin(key)) = Len(key) + Width
           /\ \A i \in 1 .. Len(key) : FirstBegin(key)[i] = key[i]
           /\ \A i \in 1 .. Width : FirstBegin(key)[Len(key) + i] = 0
           /\ FirstEnd(key) \in Bytes /\ Len(FirstEnd(key)) = Len(key) + Width + 1
           /\ \A i \in 1 .. Len(key) : FirstEnd(key)[i] = key[i]
           /\ \A i \in 1 .. Width : FirstEnd(key)[Len(key) + i] = Top
<1> DEFINE zeros == [i \in 1 .. Width |-> 0]
           tops == [i \in 1 .. Width |-> Top]
<1>1. Width \in Nat /\ Len(key) \in Nat /\ 0 \in Byte /\ Top \in Byte
  BY BytesFacts, ConstantFacts
<1>2. /\ zeros \in Bytes /\ Len(zeros) = Width /\ \A i \in 1 .. Width : zeros[i] = 0
      /\ tops \in Bytes /\ Len(tops) = Width /\ \A i \in 1 .. Width : tops[i] = Top
  BY <1>1 DEF Bytes
<1> HIDE DEF zeros, tops
<1>3. /\ key \o zeros \in Bytes /\ Len(key \o zeros) = Len(key) + Width
      /\ \A i \in 1 .. Len(key) : (key \o zeros)[i] = key[i]
      /\ \A i \in 1 .. Width : (key \o zeros)[Len(key) + i] = 0
  <2>1. /\ key \o zeros \in Bytes /\ Len(key \o zeros) = Len(key) + Len(zeros)
        /\ \A i \in 1 .. Len(key) : (key \o zeros)[i] = key[i]
        /\ \A i \in 1 .. Len(zeros) : (key \o zeros)[Len(key) + i] = zeros[i]
    BY <1>2, ConcatFacts
  <2> QED
    BY <1>2, <2>1
<1> DEFINE c == key \o tops
<1>4. /\ c \in Bytes /\ Len(c) = Len(key) + Width
      /\ \A i \in 1 .. Len(key) : c[i] = key[i]
      /\ \A i \in 1 .. Width : c[Len(key) + i] = Top
  <2>1. /\ c \in Bytes /\ Len(c) = Len(key) + Len(tops)
        /\ \A i \in 1 .. Len(key) : c[i] = key[i]
        /\ \A i \in 1 .. Len(tops) : c[Len(key) + i] = tops[i]
    BY <1>2, ConcatFacts
  <2> HIDE DEF c
  <2> QED
    BY <1>2, <2>1
<1> HIDE DEF c
<1>5. /\ Append(c, 0) \in Bytes /\ Len(Append(c, 0)) = Len(c) + 1
      /\ \A i \in 1 .. Len(c) : Append(c, 0)[i] = c[i]
  BY <1>1, <1>4, AppendProperties DEF Bytes
<1>6. \A i \in 1 .. Len(key) : Append(c, 0)[i] = key[i]
  BY <1>1, <1>4, <1>5
<1>7. ASSUME NEW i \in 1 .. Width PROVE Append(c, 0)[Len(key) + i] = Top
  <2>1. Len(key) + i \in 1 .. Len(c)
    BY <1>1, <1>4
  <2>2. c[Len(key) + i] = Top
    BY <1>4
  <2> QED
    BY <1>5, <2>1, <2>2
<1> QED
  BY <1>1, <1>3, <1>4, <1>5, <1>6, <1>7 DEF FirstBegin, FirstEnd, zeros, tops, c

\* Keys apart, the range of GetFirst holds the versions of the keys that start
\* with the one asked for.
LEMMA FirstRange ==
    ASSUME KeysApart, NEW key \in Names, NEW x \in Names, NEW n \in 0 .. MaxBlock
    PROVE  LET c == makeTimeTraversalKey(x, n)
           IN  ~ Less(c, FirstBegin(key)) /\ Less(c, FirstEnd(key)) <=> IsPrefix(key, x)
<1> DEFINE c == makeTimeTraversalKey(x, n)
           begin == FirstBegin(key)
           end == FirstEnd(key)
           L == Len(key)
<1>1. x \in Bytes /\ key \in Bytes /\ n \in 0 .. MaxUint
  BY NamesAreBytes, BlockIsNumber
<1>2. /\ L \in Nat /\ Len(x) \in Nat /\ Width \in Nat \ {0} /\ Top \in Nat
      /\ \A i \in 1 .. Len(x) : x[i] \in Nat
  BY <1>1, BytesFacts, ConstantFacts
<1>3. /\ c \in Bytes /\ Len(c) = Len(x) + Width
      /\ \A i \in 1 .. Len(x) : c[i] = x[i]
      /\ \A i \in 1 .. Len(c) : c[i] \in Nat /\ c[i] <= Top
  BY <1>1, CompositeFacts, BytesFacts
<1>4. /\ begin \in Bytes /\ Len(begin) = L + Width
      /\ \A i \in 1 .. L : begin[i] = key[i]
      /\ \A i \in 1 .. Width : begin[L + i] = 0
      /\ end \in Bytes /\ Len(end) = L + Width + 1
      /\ \A i \in 1 .. L : end[i] = key[i]
      /\ \A i \in 1 .. Width : end[L + i] = Top
  BY <1>1, FirstBoundFacts
<1>5. IsPrefix(key, c) <=> IsPrefix(key, x)
  BY PrefixOfComposite
<1> HIDE DEF c, begin, end
<1>6. ASSUME ~ Less(c, begin), Less(c, end) PROVE IsPrefix(key, x)
  <2>1. IsPrefix(key, begin) /\ IsPrefix(key, end)
    <3>1. L <= Len(begin) /\ L <= Len(end)
      BY <1>2, <1>4
    <3> QED
      BY <1>1, <1>4, <3>1, PrefixFacts
  <2>2. ~ Less(end, c)
    BY <1>3, <1>4, <1>6, LessAsymmetric
  <2> QED
    BY <1>1, <1>3, <1>4, <1>5, <1>6, <2>1, <2>2, Between
<1>7. ASSUME IsPrefix(key, x) PROVE ~ Less(c, begin) /\ Less(c, end)
  <2>1. L <= Len(x) /\ \A i \in 1 .. L : key[i] = x[i]
    BY <1>1, <1>7, PrefixFacts
  <2>2. \A i \in 1 .. L : c[i] = begin[i] /\ c[i] = end[i] /\ c[i] \in Nat
    BY <1>2, <1>3, <1>4, <2>1
  <2>3. ASSUME NEW i \in Nat, Above(c, begin, i) PROVE FALSE
    <3>1. i \in 1 .. L + Width /\ i <= Len(c) /\ c[i] < begin[i]
      BY <1>2, <1>3, <1>4, <2>1, <2>3 DEF Above
    <3>2. i > L
      BY <1>2, <2>2, <3>1
    <3>3. i - L \in 1 .. Width /\ L + (i - L) = i
      BY <1>2, <3>1, <3>2
    <3>4. begin[i] = 0
      BY <1>4, <3>3
    <3>5. c[i] \in Nat
      BY <1>3, <3>1
    <3> QED
      BY <3>1, <3>4, <3>5
  <2>4. ~ Less(c, begin)
    BY <1>3, <1>4, <2>3, LessFacts
  <2>5. CASE L < Len(x)
    <3>1. x[L + 1] < Top
      <4>1. IsStrictPrefix(key, x)
        BY <1>1, <2>1, <2>5, PrefixFacts
      <4> QED
        BY <4>1 DEF KeysApart
    <3>2. c[L + 1] = x[L + 1] /\ end[L + 1] = Top
      <4>1. L + 1 \in 1 .. Len(x) /\ 1 \in 1 .. Width
        BY <1>2, <2>5
      <4> QED
        BY <1>3, <1>4, <4>1
    <3>3. Above(c, end, L + 1)
      BY <1>2, <1>3, <1>4, <2>2, <2>5, <3>1, <3>2 DEF Above
    <3> QED
      BY <1>2, <1>3, <1>4, <3>3, LessFacts, <2>4
  <2>6. CASE L = Len(x)
    <3>1. Len(c) # Len(end)
      BY <1>2, <1>3, <1>4, <2>6
    <3>2. ASSUME NEW i \in Nat, Above(end, c, i) PROVE FALSE
      <4>1. i \in 1 .. L + Width /\ end[i] < c[i]
        BY <1>2, <1>3, <1>4, <2>6, <3>2 DEF Above
      <4>2. i > L
        BY <1>2, <2>2, <4>1
      <4>3. i - L \in 1 .. Width /\ L + (i - L) = i
        BY <1>2, <4>1, <4>2
      <4>4. end[i] = Top
        BY <1>4, <4>3
      <4>5. c[i] \in Nat /\ c[i] <= Top
        BY <1>2, <1>3, <2>6, <4>1
      <4> QED
        BY <1>2, <4>1, <4>4, <4>5
    <3>3. ~ Less(end, c)
      BY <1>3, <1>4, <3>2, LessFacts
    <3> QED
      BY <1>3, <1>4, <2>4, <3>1, <3>3, LessTotal
  <2> QED
    BY <1>2, <2>1, <2>5, <2>6
<1> QED
  BY <1>6, <1>7 DEF c, begin, end

\* Keys apart, the order of two versions in the database: by block within a key,
\* by rank between keys, and what extends a key first.
LEMMA VersionOrder ==
    ASSUME KeysApart, IsFiniteSet(Names), NEW x \in Names, NEW y \in Names,
           NEW n \in 0 .. MaxBlock, NEW m \in 0 .. MaxBlock
    PROVE  /\ x = y => (Less(makeTimeTraversalKey(x, n), makeTimeTraversalKey(y, m)) <=> m < n)
           /\ x # y => (Less(makeTimeTraversalKey(x, n), makeTimeTraversalKey(y, m))
                          <=> ~ (Rank[y] <= Rank[x]))
           /\ IsStrictPrefix(y, x) => Less(makeTimeTraversalKey(x, n), makeTimeTraversalKey(y, m))
<1>1. /\ x \in Bytes /\ y \in Bytes
      /\ n \in 0 .. MaxUint /\ m \in 0 .. MaxUint
      /\ MaxUint - n \in 0 .. MaxUint /\ MaxUint - m \in 0 .. MaxUint
  BY NamesAreBytes, BlockIsNumber, ConstantFacts
<1>2. x = y => (Less(makeTimeTraversalKey(x, n), makeTimeTraversalKey(y, m)) <=> m < n)
  BY <1>1, VersionsOrdered
<1>3. x # y => (Less(makeTimeTraversalKey(x, n), makeTimeTraversalKey(y, m))
                  <=> ~ (Rank[y] <= Rank[x]))
  BY CompositesOrdered, RankFacts
<1>4. ASSUME IsStrictPrefix(y, x)
      PROVE  Less(makeTimeTraversalKey(x, n), makeTimeTraversalKey(y, m))
  <2>1. m \in Nat /\ m < Power[Width - 1]
    BY ConstantFacts, PowerFacts DEF KeysApart
  <2>2. /\ BigEndian(MaxUint - n) \in Bytes /\ BigEndian(MaxUint - m) \in Bytes
        /\ Len(BigEndian(MaxUint - m)) >= 1 /\ BigEndian(MaxUint - m)[1] = Top
    BY <1>1, <2>1, BigEndianFacts, FirstDigit, ConstantFacts
  <2> QED
    BY <1>4, <2>2, ExtensionFirst DEF makeTimeTraversalKey
<1> QED
  BY <1>2, <1>3, <1>4

\* GetFirst, on a database of composite keys.
LEMMA FirstIsWrapped ==
    ASSUME Composites(disk), KeysApart, IsFiniteSet(Names), NEW key \in Names
    PROVE  GetFirst(key) = V!WrappedGetFirst(Versions, key, 0)
<1> DEFINE K(x, n) == makeTimeTraversalKey(x, n)
           begin == FirstBegin(key)
           end == FirstEnd(key)
           Under(t) == t \in Versions /\ t.key \in Names /\ IsPrefix(key, t.key)
           Landing(t) == /\ Under(t)
                         /\ \A u : Under(u) => \/ t.key = key
                                               \/ u.key # key /\ Rank[u.key] <= Rank[t.key]
           Found(t) == Landing(t) /\ \A u : Landing(u) /\ u.key = t.key => t.block <= u.block
<1>1. /\ key \in Bytes /\ begin \in Bytes /\ end \in Bytes
      /\ \A x \in Names, n \in 0 .. MaxBlock : K(x, n) \in Bytes
  BY CompositeFacts, NamesAreBytes, BlockIsNumber, FirstBoundFacts
<1>2. \A x \in Names, n \in 0 .. MaxBlock :
         ~ Less(K(x, n), begin) /\ Less(K(x, n), end) <=> IsPrefix(key, x)
  BY FirstRange
<1>3. IsPrefix(key, begin) /\ IsPrefix(key, end)
  <2>1. /\ Len(begin) = Len(key) + Width /\ Len(end) = Len(key) + Width + 1
        /\ \A i \in 1 .. Len(key) : key[i] = begin[i] /\ key[i] = end[i]
    BY <1>1, FirstBoundFacts
  <2>2. Len(key) \in Nat /\ Width \in Nat
    BY <1>1, BytesFacts, ConstantFacts
  <2> HIDE DEF begin, end
  <2> QED
    BY <1>1, <2>1, <2>2, PrefixFacts
<1>4. \A x, y \in Names, n, m \in 0 .. MaxBlock :
         /\ x = y => (Less(K(x, n), K(y, m)) <=> m < n)
         /\ x # y => (Less(K(x, n), K(y, m)) <=> ~ (Rank[y] <= Rank[x]))
         /\ IsStrictPrefix(y, x) => Less(K(x, n), K(y, m))
  BY VersionOrder
<1>5. \A x \in Names, n \in 0 .. MaxBlock : IsPrefix(key, K(x, n)) <=> IsPrefix(key, x)
  BY PrefixOfComposite
<1>6. \A c \in DOMAIN disk : c \in Bytes /\ \E x \in Names, n \in 0 .. MaxBlock : c = K(x, n)
  BY <1>1 DEF Composites
<1>7. \A t : t \in Versions <=>
              \E x \in Names, n \in 0 .. MaxBlock :
                 K(x, n) \in DOMAIN disk /\ t = [key |-> x, block |-> n, val |-> disk[K(x, n)]]
  BY VersionFacts DEF Versions
<1>8. GetFirst(key) = {disk[c] : c \in {c \in SeekReverse(end) : ~ Less(c, begin) /\ Less(c, end)}}
  BY DEF GetFirst, FirstBegin, FirstEnd
<1> HIDE DEF K, begin, end
<1>9. /\ \A v : v \in V!WrappedGetFirst(Versions, key, 0) <=> \E t : Found(t) /\ v = t.val
      /\ \A t : Found(t) => t \in Versions
  <2>1. Extensions[key] = {x \in Names : IsPrefix(key, x)}
    BY DEF Extensions
  <2> DEFINE UnderSet == {t \in Versions : t.key \in Extensions[key]}
             LandingSet == {t \in UnderSet : \A u \in UnderSet :
                            t.key = key \/ (u.key # key /\ Rank[u.key] <= Rank[t.key])}
  <2>2. V!Oldest(Versions, key) = {t \in LandingSet : \A u \in LandingSet : u.key = t.key => t.block <= u.block}
    BY DEF V!Oldest
  <2>3. \A t : t \in UnderSet <=> Under(t)
    BY <2>1
  <2> HIDE DEF Under, UnderSet
  <2>4. \A t : t \in LandingSet <=> Landing(t)
    BY <2>3
  <2> HIDE DEF Landing, LandingSet
  <2>5. \A t : t \in V!Oldest(Versions, key) <=> Found(t)
    BY <2>2, <2>4
  <2>6. \A t : Found(t) => t \in Versions
    BY DEF Landing, Under
  <2> QED
    BY <2>5, <2>6 DEF V!WrappedGetFirst
<1>10. \A t : Under(t) <=>
              \E x \in Names, n \in 0 .. MaxBlock :
                 /\ K(x, n) \in DOMAIN disk /\ IsPrefix(key, x)
                 /\ t = [key |-> x, block |-> n, val |-> disk[K(x, n)]]
  BY <1>7
<1> HIDE DEF Under
<1>11. ASSUME NEW c \in SeekReverse(end), ~ Less(c, begin), Less(c, end)
       PROVE  \E t : Found(t) /\ disk[c] = t.val
  <2>1. c \in DOMAIN disk /\ \A d \in DOMAIN disk : Less(end, d) \/ ~ Less(c, d)
    BY DEF SeekReverse
  <2>2. PICK x \in Names, n \in 0 .. MaxBlock : c = K(x, n) /\ IsPrefix(key, x)
    BY <1>2, <1>6, <1>11, <2>1
  <2> DEFINE t == [key |-> x, block |-> n, val |-> disk[c]]
  <2>3. Under(t) /\ t.key = x /\ t.block = n /\ t.val = disk[c]
    BY <1>10, <2>1, <2>2
  <2> HIDE DEF t
  <2>4. ASSUME NEW u, Under(u)
        PROVE  \E y \in Names, m \in 0 .. MaxBlock :
                  u.key = y /\ u.block = m /\ ~ Less(K(x, n), K(y, m))
    <3>1. PICK y \in Names, m \in 0 .. MaxBlock :
             /\ K(y, m) \in DOMAIN disk /\ IsPrefix(key, y)
             /\ u.key = y /\ u.block = m
      BY <1>10, <2>4
    <3>2. ~ Less(end, K(y, m))
      BY <1>1, <1>2, <3>1, LessAsymmetric
    <3> QED
      BY <2>1, <2>2, <3>1, <3>2
  <2>5. ASSUME NEW u, Under(u), x # key PROVE u.key # key /\ Rank[u.key] <= Rank[x]
    <3>1. PICK y \in Names, m \in 0 .. MaxBlock : u.key = y /\ ~ Less(K(x, n), K(y, m))
      BY <2>4, <2>5
    <3>2. y # key
      BY <1>4, <2>2, <2>5, <3>1 DEF IsStrictPrefix
    <3>3. CASE y # x
      BY <1>4, <3>1, <3>2, <3>3
    <3>4. CASE y = x
      <4>1. ~ Less(Append(x, Top), Append(x, Top))
        BY NamesAreBytes, ToppedFacts, LessAsymmetric
      <4> QED
        BY <3>1, <3>2, <3>4, <4>1, RankFacts
    <3> QED
      BY <3>3, <3>4
  <2>6. Landing(t)
    BY <2>3, <2>5
  <2>7. ASSUME NEW u, Landing(u), u.key = t.key PROVE t.block <= u.block
    <3>1. PICK y \in Names, m \in 0 .. MaxBlock :
             u.key = y /\ u.block = m /\ ~ Less(K(x, n), K(y, m))
      BY <2>4, <2>7
    <3>2. ~ (m < n)
      BY <1>4, <2>3, <2>7, <3>1
    <3> QED
      BY <2>3, <3>1, <3>2, ConstantFacts
  <2> HIDE DEF Landing
  <2> QED
    BY <2>3, <2>6, <2>7
<1>12. ASSUME NEW t, Found(t)
       PROVE  \E c \in SeekReverse(end) : ~ Less(c, begin) /\ Less(c, end) /\ disk[c] = t.val
  <2>1. PICK x \in Names, n \in 0 .. MaxBlock :
           /\ K(x, n) \in DOMAIN disk /\ IsPrefix(key, x)
           /\ t = [key |-> x, block |-> n, val |-> disk[K(x, n)]]
    BY <1>10, <1>12
  <2> DEFINE c == K(x, n)
  <2>2. t.key = x /\ t.block = n /\ t.val = disk[c]
    BY <2>1
  <2>3. c \in Bytes /\ ~ Less(c, begin) /\ Less(c, end)
    BY <1>1, <1>2, <2>1
  <2>4. ASSUME NEW d \in DOMAIN disk, ~ Less(end, d), Less(c, d) PROVE FALSE
    <3>1. PICK y \in Names, m \in 0 .. MaxBlock : d = K(y, m)
      BY <1>6
    <3>2. ~ Less(d, begin)
      BY <1>1, <1>6, <2>3, <2>4, LessTransitive
    <3>3. IsPrefix(key, y)
      BY <1>1, <1>3, <1>5, <1>6, <2>4, <3>1, <3>2, Between
    <3> DEFINE u == [key |-> y, block |-> m, val |-> disk[d]]
    <3>4. Under(u) /\ u.key = y /\ u.block = m
      BY <1>10, <3>1, <3>3
    <3> HIDE DEF u
    <3>5. CASE y = x
      <4>1. Landing(u)
        BY <1>12, <2>2, <3>4, <3>5
      <4>2. n <= m
        BY <1>12, <2>2, <3>4, <3>5, <4>1
      <4>3. m < n
        BY <1>4, <2>4, <3>1, <3>5
      <4> QED
        BY <4>2, <4>3, ConstantFacts
    <3>6. CASE y # x /\ x = key
      <4>1. Less(K(y, m), K(x, n))
        BY <1>4, <3>3, <3>6 DEF IsStrictPrefix
      <4> QED
        BY <1>1, <2>4, <3>1, <4>1, LessAsymmetric
    <3>7. CASE y # x /\ x # key
      <4>1. Rank[y] <= Rank[x]
        BY <1>12, <2>2, <3>4, <3>7
      <4> QED
        BY <1>4, <2>4, <3>1, <3>7, <4>1
    <3> QED
      BY <3>5, <3>6, <3>7
  <2>5. c \in SeekReverse(end)
    <3>1. c \in DOMAIN disk /\ ~ Less(end, c)
      BY <1>1, <2>1, <2>3, LessAsymmetric
    <3> HIDE DEF c
    <3> QED
      BY <2>4, <3>1 DEF SeekReverse
  <2> QED
    BY <2>2, <2>3, <2>5
<1> HIDE DEF Found
<1> QED
  BY <1>8, <1>9, <1>11, <1>12

\* Of a key that has versions, WrappedGetFirst finds the oldest.
LEMMA WrappedIsOldest ==
    ASSUME NEW key \in Names, HasVersion(key)
    PROVE  LET own == {t \in Versions : t.key = key}
           IN  V!WrappedGetFirst(Versions, key, 0)
                  = {t.val : t \in {t \in own : \A u \in own : t.block <= u.block}}
<1> DEFINE own == {t \in Versions : t.key = key}
           Under == {t \in Versions : t.key \in Extensions[key]}
           Landing == {t \in Under : \A u \in Under :
                          t.key = key \/ (u.key # key /\ Rank[u.key] <= Rank[t.key])}
<1>1. key \in Extensions[key]
  BY NamesAreBytes, PrefixFacts, BytesFacts DEF Extensions
<1>2. PICK o \in Versions : o.key = key
  BY DEF HasVersion
<1>3. V!Oldest(Versions, key) = {t \in Landing : \A u \in Landing : u.key = t.key => t.block <= u.block}
  BY DEF V!Oldest
<1>4. o \in Under /\ own \subseteq Under
  BY <1>1, <1>2
<1>5. Landing = own
  BY <1>2, <1>4
<1>6. V!Oldest(Versions, key) = {t \in own : \A u \in own : t.block <= u.block}
  <2> HIDE DEF Landing
  <2> QED
    BY <1>3, <1>5
<1> QED
  BY <1>6 DEF V!WrappedGetFirst

\* GetFirst of a key that was stored finds its oldest version (FirstsAgree), with
\* finitely many keys to rank.
THEOREM GetFirstFindsOldest ==
    ASSUME IsFiniteSet(Names)
    PROVE  Spec => []FirstsAgree
<1>1. DiskInv => FirstsAgree
  BY FirstIsWrapped, WrappedIsOldest DEF DiskInv, FirstsAgree
<1> QED
  BY <1>1, StoreInvariance, PTL

-----------------------------------------------------------------------------
(* The Postgres store over the same versions *)

\* Of the rows the statement gives for some keys, those of one key are the versions Get looks for.
LEMMA DistinctIsNewest ==
    ASSUME NEW rows, NEW keys, NEW i \in DOMAIN keys, NEW B
    PROVE  {r \in P!DistinctOn(rows, keys, B) : r.key = keys[i]} = V!Newest(rows, keys[i], B)
<1>1. keys[i] \in Range(keys)
  BY DEF Range
<1>2. \A r : r \in P!DistinctOn(rows, keys, B) <=>
              /\ r \in rows /\ r.key \in Range(keys) /\ r.block <= B
              /\ \A s \in rows : s.key \in Range(keys) /\ s.block <= B /\ s.key = r.key
                                   => s.block <= r.block
  BY DEF P!DistinctOn, P!Range, Range
<1>3. \A r : r \in V!Newest(rows, keys[i], B) <=>
              /\ r \in rows /\ r.key = keys[i] /\ r.block <= B
              /\ \A s \in rows : s.key = keys[i] /\ s.block <= B => s.block <= r.block
  BY DEF V!Newest
<1> QED
  BY <1>1, <1>2, <1>3

\* What the store answers for two keys, and what it leaves out when rows are lost.
LEMMA TableAnswers ==
    ASSUME NEW rows, NEW key1, NEW key2, NEW B
    PROVE  LET keys  == <<key1, key2>>
               found == <<V!WrappedGet(rows, key1, B), V!WrappedGet(rows, key2, B)>>
           IN  /\ P!Convertible(B) => found \in P!GetAtBlock(rows, keys, B)
               /\ \A answer \in P!GetAtBlock(rows, keys, B), i \in 1 .. 2 :
                     answer[i] \subseteq found[i]
<1> DEFINE keys == <<key1, key2>>
           found == <<V!WrappedGet(rows, key1, B), V!WrappedGet(rows, key2, B)>>
           all == P!DistinctOn(rows, keys, B)
           Of(came) == [i \in DOMAIN keys |-> {r.val : r \in {r \in came : r.key = keys[i]}}]
<1>1. DOMAIN keys = 1 .. 2 /\ keys[1] = key1 /\ keys[2] = key2
  OBVIOUS
<1>2. \A i \in 1 .. 2 : found[i] = V!WrappedGet(rows, keys[i], B)
  OBVIOUS
<1>3. \A i \in 1 .. 2 : {r.val : r \in {r \in all : r.key = keys[i]}} = found[i]
  <2> HIDE DEF keys, found
  <2> QED
    BY <1>1, <1>2, DistinctIsNewest DEF V!WrappedGet
<1>4. /\ P!Convertible(B) => P!GetAtBlock(rows, keys, B) = {Of(came) : came \in SUBSET all}
      /\ ~ P!Convertible(B) => P!GetAtBlock(rows, keys, B) = {}
  BY DEF P!GetAtBlock
<1>5. Of(all) = found
  <2>1. Of(all) = [i \in 1 .. 2 |-> found[i]]
    <3> HIDE DEF all, found
    <3> QED
      BY <1>1, <1>3
  <2>2. found = [i \in 1 .. 2 |-> found[i]]
    OBVIOUS
  <2> QED
    BY <2>1, <2>2
<1>6. ASSUME NEW came \in SUBSET all, NEW i \in 1 .. 2 PROVE Of(came)[i] \subseteq found[i]
  <2> HIDE DEF all, found, keys
  <2>1. Of(came)[i] = {r.val : r \in {r \in came : r.key = keys[i]}}
    BY <1>1
  <2>2. found[i] = {r.val : r \in {r \in all : r.key = keys[i]}}
    BY <1>3
  <2> QED
    BY <2>1, <2>2
<1> HIDE DEF Of, all, keys, found
<1>7. P!Convertible(B) => found \in P!GetAtBlock(rows, keys, B)
  BY <1>4, <1>5
<1>8. \A answer \in P!GetAtBlock(rows, keys, B), i \in 1 .. 2 : answer[i] \subseteq found[i]
  BY <1>4, <1>6
<1> QED
  BY <1>7, <1>8 DEF found, keys

\* Get of postgres_time_traversal answers as badger_time_traversal does, or leaves
\* values out (PostgresAgrees).
THEOREM PostgresReadsNewest == Spec => []PostgresAgrees
<1>1. ASSUME NEW key1 \in Names, NEW key2 \in Names, NEW B \in 0 .. MaxUint
      PROVE  LET found   == <<V!WrappedGet(Versions, key1, B), V!WrappedGet(Versions, key2, B)>>
                 answers == P!GetAtBlock(Versions, <<key1, key2>>, B)
             IN  /\ B <= MaxUint \div 2 => found \in answers
                 /\ \A answer \in answers, i \in 1 .. 2 : answer[i] \subseteq found[i]
  BY TableAnswers DEF P!Convertible
<1>2. PostgresAgrees
  BY <1>1 DEF PostgresAgrees
<1> QED
  BY <1>2, PTL
=============================================================================
