------------------------- MODULE RestartDataProofs -------------------------
(***************************************************************************)
(* What the files of an asynchronous restart hold.  First, theorems about  *)
(* ReorderInfo and RestartGather: every value is in its place in the file, *)
(* for every number of PEs, every decomposition, every order the PEs keep  *)
(* their points in, every width of a mask word and every list of           *)
(* variables.  Then about RestartFiles, for every number of domains,       *)
(* servers and dates: a run never loses a checkpoint that was written to   *)
(* its end, however often it crashes and restarts from links of different  *)
(* dates.                                                                  *)
(***************************************************************************)
EXTENDS RestartGather, RestartFiles, FiniteSetTheorems, SequenceTheorems, WellFoundedInduction, NaturalsInduction, TLAPS

(* ----------------------------- running sums ---------------------------- *)

LEMMA LeastNat ==
    ASSUME NEW S \in SUBSET Nat, S # {}
    PROVE  \E m \in S : \A x \in S : m <= x
  <1> DEFINE R == {ss \in Nat \X Nat : ss[1] < ss[2]}
  <1>1. OpToRel(<, Nat) = R
    BY Zenon DEF OpToRel
  <1>2. IsWellFoundedOn(R, Nat)
    BY <1>1, NatLessThanWellFounded, Zenon
  <1>3. \E m \in S : \A x \in S : <<x, m>> \notin R
    <2> HIDE DEF R
    <2> QED BY <1>2, WFMin
  <1>4. PICK m \in S : \A x \in S : <<x, m>> \notin R
    BY <1>3
  <1>5. ASSUME NEW x \in S, x < m PROVE FALSE
    <2>1. <<x, m>> \in Nat \X Nat /\ <<x, m>>[1] = x /\ <<x, m>>[2] = m
      OBVIOUS
    <2>2. <<x, m>> \in R
      BY <2>1, <1>5
    <2> QED BY <2>2, <1>4
  <1> QED BY <1>5

Counts(count, n) == \A k \in 0 .. n - 1 : count[k] \in Nat

Sums(f, count, n) ==
    /\ f = [k \in 0 .. n |-> f[k]]
    /\ f[0] = 0
    /\ \A k \in 0 .. n - 1 : f[k + 1] = f[k] + count[k]

LEMMA SumsNat ==
    ASSUME NEW n \in Nat, NEW count, Counts(count, n), NEW f, Sums(f, count, n)
    PROVE  \A k \in 0 .. n : f[k] \in Nat
  <1> DEFINE bad == {k \in 0 .. n : f[k] \notin Nat}
  <1>1. ASSUME bad # {} PROVE FALSE
    <2>1. bad \subseteq Nat
      OBVIOUS
    <2> HIDE DEF bad
    <2>2. PICK m \in bad : \A x \in bad : m <= x
      BY <1>1, <2>1, LeastNat
    <2>3. m \in 0 .. n /\ f[m] \notin Nat
      BY DEF bad
    <2>4. m # 0
      BY <2>3 DEF Sums
    <2>5. m - 1 \in 0 .. n - 1 /\ m - 1 \in 0 .. n /\ ~(m <= m - 1) /\ (m - 1) + 1 = m
      BY <2>3, <2>4
    <2>6. f[m - 1] \in Nat
      BY <2>2, <2>5 DEF bad
    <2>7. f[m] = f[m - 1] + count[m - 1] /\ count[m - 1] \in Nat
      BY <2>5 DEF Sums, Counts
    <2> QED BY <2>3, <2>6, <2>7
  <1> QED BY <1>1

LEMMA SumsUnique ==
    ASSUME NEW n \in Nat, NEW count, NEW f, Sums(f, count, n), NEW h, Sums(h, count, n)
    PROVE  f = h
  <1> DEFINE bad == {k \in 0 .. n : f[k] # h[k]}
  <1>1. ASSUME bad # {} PROVE FALSE
    <2>1. bad \subseteq Nat
      OBVIOUS
    <2> HIDE DEF bad
    <2>2. PICK m \in bad : \A x \in bad : m <= x
      BY <1>1, <2>1, LeastNat
    <2>3. m \in 0 .. n /\ f[m] # h[m]
      BY DEF bad
    <2>4. m # 0
      BY <2>3 DEF Sums
    <2>5. m - 1 \in 0 .. n - 1 /\ m - 1 \in 0 .. n /\ ~(m <= m - 1) /\ (m - 1) + 1 = m
      BY <2>3, <2>4
    <2>6. f[m - 1] = h[m - 1]
      BY <2>2, <2>5 DEF bad
    <2>7. f[m] = f[m - 1] + count[m - 1] /\ h[m] = h[m - 1] + count[m - 1]
      BY <2>5 DEF Sums
    <2> QED BY <2>3, <2>6, <2>7
  <1>2. \A k \in 0 .. n : f[k] = h[k]
    BY <1>1
  <1>3. f = [k \in 0 .. n |-> f[k]] /\ h = [k \in 0 .. n |-> h[k]]
    BY DEF Sums
  <1> QED BY <1>2, <1>3

LEMMA SumsExist ==
    ASSUME NEW n \in Nat, NEW count, Counts(count, n)
    PROVE  \E f : Sums(f, count, n)
  <1> DEFINE bad == {d \in 0 .. n : ~ \E f : Sums(f, count, d)}
  <1>1. ASSUME bad # {} PROVE FALSE
    <2>1. bad \subseteq Nat
      OBVIOUS
    <2> HIDE DEF bad
    <2>2. PICK m \in bad : \A x \in bad : m <= x
      BY <1>1, <2>1, LeastNat
    <2>3. m \in 0 .. n /\ ~ \E f : Sums(f, count, m)
      BY DEF bad
    <2>4. CASE m = 0
      <3> DEFINE z == [k \in 0 .. 0 |-> 0]
      <3>1. Sums(z, count, 0)
        BY DEF Sums
      <3> QED BY <3>1, <2>3, <2>4
    <2>5. CASE m # 0
      <3>1. m - 1 \in 0 .. n /\ ~(m <= m - 1) /\ m - 1 \in Nat
        BY <2>3, <2>5
      <3>2. PICK f : Sums(f, count, m - 1)
        BY <3>1, <2>2 DEF bad
      <3> DEFINE h == [k \in 0 .. m |-> IF k = m THEN f[m - 1] + count[m - 1] ELSE f[k]]
      <3>3. h = [k \in 0 .. m |-> h[k]] /\ h[0] = 0
        BY <2>3, <2>5, <3>2 DEF Sums
      <3>4. ASSUME NEW k \in 0 .. m - 1 PROVE h[k + 1] = h[k] + count[k]
        <4>1. k \in 0 .. m /\ k + 1 \in 0 .. m /\ k # m /\ h[k] = f[k]
          BY <2>3
        <4>2. CASE k = m - 1
          BY <4>1, <4>2, <2>3
        <4>3. CASE k # m - 1
          <5>1. k \in 0 .. (m - 1) - 1 /\ k + 1 # m
            BY <4>3, <2>3
          <5>2. f[k + 1] = f[k] + count[k]
            BY <5>1, <3>2 DEF Sums
          <5> QED BY <4>1, <5>1, <5>2
        <4> QED BY <4>2, <4>3
      <3> HIDE DEF h
      <3>5. Sums(h, count, m)
        BY <3>3, <3>4 DEF Sums
      <3> QED BY <3>5, <2>3
    <2> QED BY <2>4, <2>5
  <1>2. n \in 0 .. n
    OBVIOUS
  <1> QED BY <1>1, <1>2

(* The loop accumulates what it counts.                                    *)
LEMMA RunningSums ==
    ASSUME NEW n \in Nat, NEW count, Counts(count, n)
    PROVE  Sums(RunningSum(count, n), count, n)
  <1> DEFINE Eq(h) == h = [k \in 0 .. n |-> IF k = 0 THEN 0 ELSE h[k - 1] + count[k - 1]]
             acc == CHOOSE h : Eq(h)
  <1>1. PICK f : Sums(f, count, n)
    BY SumsExist
  <1>2. Eq(f)
    <2>1. f = [k \in 0 .. n |-> f[k]]
      BY <1>1 DEF Sums
    <2>2. \A k \in 0 .. n : f[k] = IF k = 0 THEN 0 ELSE f[k - 1] + count[k - 1]
      <3> TAKE k \in 0 .. n
      <3>1. CASE k = 0
        BY <3>1, <1>1 DEF Sums
      <3>2. CASE k # 0
        <4>1. k - 1 \in 0 .. n - 1 /\ (k - 1) + 1 = k
          BY <3>2
        <4>2. f[(k - 1) + 1] = f[k - 1] + count[k - 1]
          BY <4>1, <1>1 DEF Sums
        <4> QED BY <3>2, <4>1, <4>2
      <3> QED BY <3>1, <3>2
    <2> DEFINE r == [k \in 0 .. n |-> IF k = 0 THEN 0 ELSE f[k - 1] + count[k - 1]]
    <2>3. f = r
      BY <2>1, <2>2
    <2> QED BY <2>3
  <1>3. Eq(acc)
    <2> HIDE DEF Eq
    <2> QED BY <1>2
  <1>4. RunningSum(count, n) = acc
    BY Zenon DEF RunningSum
  <1> HIDE DEF acc
  <1>5. Sums(acc, count, n)
    <2>1. acc = [k \in 0 .. n |-> IF k = 0 THEN 0 ELSE acc[k - 1] + count[k - 1]]
      BY <1>3
    <2> HIDE DEF Eq
    <2>2. \A k \in 0 .. n : acc[k] = IF k = 0 THEN 0 ELSE acc[k - 1] + count[k - 1]
      BY <2>1, Zenon
    <2>3. acc = [k \in 0 .. n |-> acc[k]]
      BY <2>1, Zenon
    <2>4. acc[0] = 0
      BY <2>2
    <2>5. ASSUME NEW k \in 0 .. n - 1 PROVE acc[k + 1] = acc[k] + count[k]
      <3>1. k + 1 \in 0 .. n /\ k + 1 # 0 /\ (k + 1) - 1 = k
        OBVIOUS
      <3> QED BY <3>1, <2>2
    <2> QED BY <2>3, <2>4, <2>5 DEF Sums
  <1> QED BY <1>4, <1>5

LEMMA SumsGrow ==
    ASSUME NEW n \in Nat, NEW count, Counts(count, n), NEW f, Sums(f, count, n),
           NEW i \in 0 .. n, NEW j \in 0 .. n, i <= j
    PROVE  f[i] <= f[j]
  <1> DEFINE bad == {k \in i .. n : ~(f[i] <= f[k])}
  <1>0. \A k \in 0 .. n : f[k] \in Nat
    BY SumsNat
  <1>1. ASSUME bad # {} PROVE FALSE
    <2>1. bad \subseteq Nat
      OBVIOUS
    <2> HIDE DEF bad
    <2>2. PICK m \in bad : \A x \in bad : m <= x
      BY <1>1, <2>1, LeastNat
    <2>3. m \in i .. n /\ ~(f[i] <= f[m])
      BY DEF bad
    <2>4. m # i
      BY <2>3, <1>0
    <2>5. m - 1 \in 0 .. n - 1 /\ m - 1 \in i .. n /\ m - 1 \in 0 .. n /\ ~(m <= m - 1) /\ (m - 1) + 1 = m /\ m \in 0 .. n
      BY <2>3, <2>4
    <2>6. f[i] <= f[m - 1]
      BY <2>2, <2>5 DEF bad
    <2>7. f[m] = f[m - 1] + count[m - 1] /\ count[m - 1] \in Nat
      BY <2>5 DEF Sums, Counts
    <2>8. f[m - 1] \in Nat /\ f[i] \in Nat /\ f[m] \in Nat
      BY <2>5, <1>0
    <2> QED BY <2>3, <2>6, <2>7, <2>8
  <1>2. j \in i .. n
    OBVIOUS
  <1> QED BY <1>1, <1>2


(* ------------------------------- counting ------------------------------ *)

Below(S, x) == {j \in S : j < x}

LEMMA CountParts ==
    ASSUME NEW A, IsFiniteSet(A), NEW B, IsFiniteSet(B), A \cap B = {}
    PROVE  IsFiniteSet(A \cup B) /\ Cardinality(A \cup B) = Cardinality(A) + Cardinality(B)
  <1>1. Cardinality(A \cup B) = Cardinality(A) + Cardinality(B) - Cardinality(A \cap B) /\ IsFiniteSet(A \cup B)
    BY FS_Union
  <1>2. Cardinality(A \cap B) = 0
    BY FS_EmptySet
  <1>3. Cardinality(A) \in Nat /\ Cardinality(B) \in Nat
    BY FS_CardinalityType
  <1> QED BY <1>1, <1>2, <1>3

LEMMA BelowCount ==
    ASSUME NEW S, IsFiniteSet(S), NEW x
    PROVE  IsFiniteSet(Below(S, x)) /\ Cardinality(Below(S, x)) \in Nat
  BY FS_Subset, FS_CardinalityType DEF Below

LEMMA BelowAnother ==
    ASSUME NEW S \in SUBSET Nat, IsFiniteSet(S), NEW i \in S, NEW j \in S, i < j
    PROVE  Cardinality(Below(S, i)) < Cardinality(Below(S, j))
  <1>1. IsFiniteSet(Below(S, i)) /\ Cardinality(Below(S, i)) \in Nat
        /\ IsFiniteSet(Below(S, j)) /\ Cardinality(Below(S, j)) \in Nat
    BY BelowCount
  <1>2. i \notin Below(S, i) /\ Below(S, i) \cup {i} \in SUBSET Below(S, j)
    <2>1. i \in Nat /\ j \in Nat /\ \A k \in S : k \in Nat
      OBVIOUS
    <2>2. \A k \in S : k < i => k < j
      BY <2>1
    <2>3. ~(i < i)
      BY <2>1
    <2> QED BY <2>2, <2>3 DEF Below
  <1>3. Cardinality(Below(S, i) \cup {i}) = Cardinality(Below(S, i)) + 1
    BY <1>1, <1>2, FS_AddElement
  <1>4. Cardinality(Below(S, i) \cup {i}) <= Cardinality(Below(S, j))
    BY <1>1, <1>2, FS_Subset
  <1> QED BY <1>1, <1>3, <1>4

(* The sorted points, and the place of each of them.                       *)
LEMMA AscendingPlaces ==
    ASSUME NEW S \in SUBSET Nat, IsFiniteSet(S)
    PROVE  /\ Cardinality(S) \in Nat
           /\ Ascending(S) \in [1 .. Cardinality(S) -> S]
           /\ \A n \in 1 .. Cardinality(S) : Cardinality(Below(S, Ascending(S)[n])) = n - 1
           /\ \A i \in S : /\ Cardinality(Below(S, i)) + 1 \in 1 .. Cardinality(S)
                           /\ Ascending(S)[Cardinality(Below(S, i)) + 1] = i
  <1> DEFINE c == Cardinality(S)
             f == [i \in S |-> Cardinality(Below(S, i)) + 1]
  <1>1. c \in Nat
    BY FS_CardinalityType
  <1>2. ASSUME NEW i \in S PROVE Cardinality(Below(S, i)) \in Nat /\ Cardinality(Below(S, i)) + 1 \in 1 .. c
    <2>1. Below(S, i) \in SUBSET (S \ {i})
      BY DEF Below
    <2>2. IsFiniteSet(S \ {i}) /\ Cardinality(S \ {i}) = c - 1
      BY FS_RemoveElement
    <2>3. Cardinality(Below(S, i)) <= c - 1
      BY <2>1, <2>2, FS_Subset
    <2>4. Cardinality(Below(S, i)) \in Nat
      BY BelowCount
    <2> QED BY <2>3, <2>4, <1>1
  <1>3. f \in [S -> 1 .. c]
    BY <1>2
  <1>4. ASSUME NEW i \in S, NEW j \in S, Cardinality(Below(S, i)) = Cardinality(Below(S, j)) PROVE i = j
    <2>1. i < j => FALSE
      BY BelowAnother, <1>2, <1>4
    <2>2. j < i => FALSE
      BY BelowAnother, <1>2, <1>4
    <2>3. i \in Nat /\ j \in Nat
      OBVIOUS
    <2> QED BY <2>1, <2>2, <2>3
  <1>5. f \in Injection(S, 1 .. c)
    <2>1. \A i, j \in S : f[i] = f[j] => i = j
      BY <1>2, <1>4
    <2> HIDE DEF f, c
    <2> QED BY <1>3, <2>1 DEF Injection, IsInjective
  <1>6. f \in Surjection(S, 1 .. c)
    <2>1. IsFiniteSet(1 .. c) /\ Cardinality(1 .. c) = c
      BY <1>1, FS_Interval
    <2> HIDE DEF f
    <2> QED BY <1>5, <2>1, FS_Injection
  <1>7. \A n \in 1 .. c : \E i \in S : f[i] = n
    <2> HIDE DEF f, c
    <2> QED BY <1>6 DEF Surjection
  <1>8. ASSUME NEW n \in 1 .. c
        PROVE  Ascending(S)[n] \in S /\ Cardinality(Below(S, Ascending(S)[n])) = n - 1
    <2>1. PICK i \in S : f[i] = n
      BY <1>7
    <2>2. Cardinality(Below(S, i)) = n - 1
      BY <2>1, <1>2
    <2>3. \E x \in S : Cardinality({j \in S : j < x}) = n - 1
      BY <2>2 DEF Below
    <2>4. Ascending(S)[n] = CHOOSE x \in S : Cardinality({j \in S : j < x}) = n - 1
      BY <1>8 DEF Ascending
    <2> DEFINE y == CHOOSE x \in S : Cardinality({j \in S : j < x}) = n - 1
    <2>5. y \in S /\ Cardinality({j \in S : j < y}) = n - 1
      BY <2>3
    <2> HIDE DEF y
    <2> QED BY <2>4, <2>5 DEF Below
  <1>9. Ascending(S) \in [1 .. c -> S]
    <2> DEFINE nth(n) == CHOOSE i \in S : Cardinality({j \in S : j < i}) = n - 1
               r == [n \in 1 .. c |-> nth(n)]
    <2>0. Ascending(S) = r
      BY Zenon DEF Ascending
    <2> HIDE DEF nth
    <2>1. Ascending(S) = [n \in 1 .. c |-> Ascending(S)[n]]
      <3>1. r = [n \in 1 .. c |-> r[n]]
        OBVIOUS
      <3> HIDE DEF r
      <3> QED BY <2>0, <3>1
    <2> HIDE DEF r, c
    <2> QED BY <1>8, <2>1
  <1>10. ASSUME NEW i \in S PROVE Ascending(S)[Cardinality(Below(S, i)) + 1] = i
    <2> DEFINE n == Cardinality(Below(S, i)) + 1
    <2>1. n \in 1 .. c /\ n - 1 = Cardinality(Below(S, i))
      BY <1>2
    <2> HIDE DEF n
    <2>2. Ascending(S)[n] \in S /\ Cardinality(Below(S, Ascending(S)[n])) = Cardinality(Below(S, i))
      BY <1>8, <2>1
    <2>3. Ascending(S)[n] = i
      BY <2>2, <1>4
    <2> QED BY <2>3 DEF n
  <1> QED BY <1>1, <1>2, <1>8, <1>9, <1>10

(* ------------------------- words of a bit mask ------------------------- *)

LEMMA DivMod ==
    ASSUME NEW a \in Nat, NEW b \in Nat \ {0}
    PROVE  /\ a \div b \in Nat /\ a % b \in 0 .. b - 1
           /\ a = b * (a \div b) + (a % b)
  OBVIOUS

LEMMA TimesGrows ==
    ASSUME NEW a \in Nat, NEW b \in Nat, a < b, NEW c \in Nat
    PROVE  c * a \in Nat /\ c * b \in Nat /\ c * a + c <= c * b
  <1>1. PICK d \in Nat : b = (a + 1) + d
    <2>1. b - a - 1 \in Nat /\ b = (a + 1) + (b - a - 1)
      OBVIOUS
    <2> QED BY <2>1
  <1>2. c * b = c * a + c + c * d /\ c * d \in Nat /\ c * a \in Nat
    BY <1>1
  <1> QED BY <1>2

LEMMA DivIs ==
    ASSUME NEW b \in Nat \ {0}, NEW q \in Nat, NEW r \in 0 .. b - 1
    PROVE  (b * q + r) \div b = q /\ (b * q + r) % b = r /\ b * q + r \in Nat
  <1> DEFINE a == b * q + r
  <1>1. a \in Nat /\ b * q \in Nat
    OBVIOUS
  <1> DEFINE x == a \div b
             y == a % b
  <1>2. x \in Nat /\ y \in 0 .. b - 1 /\ a = b * x + y
    BY <1>1, DivMod
  <1>3. b * q + r = b * x + y
    BY <1>2
  <1> HIDE DEF x, y, a
  <1>4. x < q => FALSE
    <2> SUFFICES ASSUME x < q PROVE FALSE
      OBVIOUS
    <2>1. b * x \in Nat /\ b * q \in Nat /\ b * x + b <= b * q
      BY <1>2, TimesGrows
    <2> QED BY <2>1, <1>2, <1>3
  <1>5. q < x => FALSE
    <2> SUFFICES ASSUME q < x PROVE FALSE
      OBVIOUS
    <2>1. b * x \in Nat /\ b * q \in Nat /\ b * q + b <= b * x
      BY <1>2, TimesGrows
    <2> QED BY <2>1, <1>2, <1>3
  <1>6. x = q
    BY <1>2, <1>4, <1>5
  <1>7. y = r
    BY <1>2, <1>3, <1>6, <1>1
  <1> QED BY <1>1, <1>6, <1>7 DEF x, y, a

Word(i) == (i - 1) \div Bits
Bit(i)  == (i - 1) % Bits

LEMMA WordBit ==
    ASSUME NEW i \in Nat \ {0}
    PROVE  /\ Word(i) \in Nat /\ Bit(i) \in 0 .. Bits - 1
           /\ i - 1 = Bits * Word(i) + Bit(i)
  <1>1. i - 1 \in Nat /\ Bits \in Nat \ {0}
    BY ReorderAssumption
  <1> QED BY <1>1, DivMod DEF Word, Bit

LEMMA WordOrder ==
    ASSUME NEW i \in Nat \ {0}, NEW j \in Nat \ {0}
    PROVE  /\ Word(i) < Word(j) => i < j
           /\ Word(i) = Word(j) => (Bit(i) < Bit(j) <=> i < j)
  <1>1. /\ Word(i) \in Nat /\ Bit(i) \in 0 .. Bits - 1 /\ i - 1 = Bits * Word(i) + Bit(i)
        /\ Word(j) \in Nat /\ Bit(j) \in 0 .. Bits - 1 /\ j - 1 = Bits * Word(j) + Bit(j)
        /\ Bits \in Nat
    BY WordBit, ReorderAssumption
  <1> DEFINE v == Word(i)
             w == Word(j)
             x == Bit(i)
             y == Bit(j)
  <1> HIDE DEF v, w, x, y
  <1>2. /\ v \in Nat /\ x \in 0 .. Bits - 1 /\ i - 1 = Bits * v + x
        /\ w \in Nat /\ y \in 0 .. Bits - 1 /\ j - 1 = Bits * w + y
    BY <1>1 DEF v, w, x, y
  <1>3. ASSUME v < w PROVE i < j
    <2>1. Bits * v \in Nat /\ Bits * w \in Nat /\ Bits * v + Bits <= Bits * w
      BY <1>1, <1>2, <1>3, TimesGrows
    <2> QED BY <2>1, <1>2, <1>1
  <1>4. ASSUME v = w PROVE x < y <=> i < j
    <2>1. Bits * v \in Int
      BY <1>1, <1>2
    <2>2. i - 1 = Bits * v + x /\ j - 1 = Bits * v + y
      BY <1>2, <1>4
    <2> QED BY <2>1, <2>2, <1>2
  <1> QED BY <1>3, <1>4 DEF v, w, x, y

LEMMA WordInMask ==
    ASSUME NEW g \in Grid, NEW i \in Points(g)
    PROVE  /\ NOcc(g) \in Nat /\ Words(g) = 0 .. NOcc(g) - 1
           /\ Word(i) \in Words(g)
           /\ i \in Nat \ {0}
  <1>1. NPoints[g] \in Nat \ {0} /\ Bits \in Nat \ {0} /\ i \in 1 .. NPoints[g]
    BY ReorderAssumption DEF Points
  <1>2. Word(i) \in Nat /\ Bit(i) \in 0 .. Bits - 1 /\ i - 1 = Bits * Word(i) + Bit(i) /\ i \in Nat \ {0}
    BY <1>1, WordBit
  <1> DEFINE n == NPoints[g] + Bits - 1
             q == n \div Bits
             r == n % Bits
  <1>3. q \in Nat /\ r \in 0 .. Bits - 1 /\ n = Bits * q + r
    <2>1. n \in Nat
      BY <1>1
    <2> HIDE DEF n
    <2> QED BY <2>1, <1>1, DivMod
  <1> DEFINE w == Word(i)
             x == Bit(i)
  <1> HIDE DEF q, r, w, x
  <1>4. ASSUME ~(w < q) PROVE FALSE
    <2>1. w \in Nat /\ x \in 0 .. Bits - 1 /\ i - 1 = Bits * w + x
      BY <1>2 DEF w, x
    <2>2. q < w \/ q = w
      BY <2>1, <1>3, <1>4
    <2>3. Bits * q \in Nat /\ Bits * w \in Nat /\ Bits * q <= Bits * w
      <3>1. CASE q = w
        BY <3>1, <1>1, <1>3
      <3>2. CASE q < w
        BY <3>2, <1>1, <1>3, <2>1, TimesGrows
      <3> QED BY <2>2, <3>1, <3>2
    <2> QED BY <2>1, <2>3, <1>1, <1>3
  <1>5. NOcc(g) = q
    BY DEF NOcc, q
  <1> QED BY <1>2, <1>3, <1>4, <1>5 DEF Words, w

(* Points of the same word have bits of their own.                         *)
LEMMA BitsCount ==
    ASSUME NEW T \in SUBSET (Nat \ {0}), IsFiniteSet(T), NEW w, \A i \in T : Word(i) = w
    PROVE  Cardinality({Bit(i) : i \in T}) = Cardinality(T)
  <1> DEFINE B == {Bit(i) : i \in T}
             f == [i \in T |-> Bit(i)]
  <1>1. f \in [T -> B] /\ \A b \in B : \E i \in T : f[i] = b
    OBVIOUS
  <1>2. ASSUME NEW i \in T, NEW j \in T, f[i] = f[j] PROVE i = j
    <2>1. Bit(i) = Bit(j) /\ Word(i) = w /\ Word(j) = w
      BY <1>2
    <2>2. i - 1 = Bits * w + Bit(i) /\ j - 1 = Bits * w + Bit(i)
      BY <2>1, WordBit
    <2>3. i - 1 = j - 1
      BY <2>2
    <2> QED BY <2>3
  <1> HIDE DEF f, B
  <1>3. f \in Bijection(T, B)
    BY <1>1, <1>2 DEF Bijection, Injection, Surjection, IsInjective
  <1>4. ExistsBijection(T, B)
    BY <1>3 DEF ExistsBijection
  <1> QED BY <1>4, FS_Bijection DEF B

(* ----------------------- construction of the infos --------------------- *)

Decomposed ==
    /\ \A g \in Grid : owner[g] \in [Points(g) -> PE \cup {Unused}]
    /\ \A g \in Grid : \A p \in PE : local[g][p] \in Orders[g]

Used(g)    == {i \in Points(g) : owner[g][i] \in PE}
Mine(g, p) == {i \in Points(g) : owner[g][i] = p}
NMine(g, p) == Cardinality(Mine(g, p))

LEMMA PointsFinite ==
    ASSUME NEW g \in Grid
    PROVE  /\ Points(g) \in SUBSET (Nat \ {0}) /\ IsFiniteSet(Points(g))
           /\ Cardinality(Points(g)) = NPoints[g] /\ NPoints[g] \in Nat
           /\ \A S \in SUBSET Points(g) : IsFiniteSet(S) /\ Cardinality(S) \in Nat /\ S \in SUBSET Nat
  <1>1. NPoints[g] \in Nat \ {0}
    BY ReorderAssumption
  <1>2. IsFiniteSet(1 .. NPoints[g]) /\ Cardinality(1 .. NPoints[g]) = NPoints[g]
    BY <1>1, FS_Interval
  <1>3. Points(g) \in SUBSET (Nat \ {0})
    BY <1>1 DEF Points
  <1>4. ASSUME NEW S \in SUBSET Points(g) PROVE IsFiniteSet(S) /\ Cardinality(S) \in Nat /\ S \in SUBSET Nat
    <2>1. IsFiniteSet(S)
      BY <1>2, FS_Subset DEF Points
    <2> QED BY <2>1, <1>3, FS_CardinalityType
  <1> QED BY <1>1, <1>2, <1>3, <1>4 DEF Points

LEMMA SequenceFrom ==
    ASSUME NEW S, NEW n \in Nat, NEW s \in [1 .. n -> S]
    PROVE  s \in Seq(S) /\ Len(s) = n /\ DOMAIN s = 1 .. n
  <1>1. s \in Seq(S)
    OBVIOUS
  <1>2. Len(s) \in Nat /\ DOMAIN s = 1 .. Len(s) /\ DOMAIN s = 1 .. n
    BY <1>1
  <1>3. Len(s) = n
    <2> DEFINE l == Len(s)
    <2>1. l \in Nat /\ 1 .. l = 1 .. n
      BY <1>2
    <2> HIDE DEF l
    <2>2. l <= n
      <3>1. l = 0 \/ l \in 1 .. l
        BY <2>1
      <3>2. l = 0 \/ l \in 1 .. n
        BY <3>1, <2>1
      <3> QED BY <3>2, <2>1
    <2>3. n <= l
      <3>1. n = 0 \/ n \in 1 .. n
        OBVIOUS
      <3>2. n = 0 \/ n \in 1 .. l
        BY <3>1, <2>1
      <3> QED BY <3>2, <2>1
    <2> QED BY <2>1, <2>2, <2>3 DEF l
  <1> QED BY <1>1, <1>2, <1>3

(* What a PE packs: its points in global order, each once.                 *)
LEMMA PacksItsPoints ==
    ASSUME NEW g \in Grid, NEW p \in PE
    PROVE  /\ NMine(g, p) \in Nat
           /\ GlbIdxOwn(g, p) \in [1 .. NMine(g, p) -> Mine(g, p)]
           /\ DOMAIN GlbIdxOwn(g, p) = 1 .. NMine(g, p)
           /\ ToSet(GlbIdxOwn(g, p)) = Mine(g, p)
           /\ \A i \in Mine(g, p) : \E n \in 1 .. NMine(g, p) : GlbIdxOwn(g, p)[n] = i
  <1> DEFINE S == Mine(g, p)
  <1>1. S \in SUBSET Nat /\ IsFiniteSet(S)
    BY PointsFinite DEF Mine
  <1>2. GlbIdxOwn(g, p) = Ascending(S)
    BY DEF GlbIdxOwn, Mine
  <1> HIDE DEF S
  <1>3. /\ Cardinality(S) \in Nat
        /\ Ascending(S) \in [1 .. Cardinality(S) -> S]
        /\ \A i \in S : /\ Cardinality(Below(S, i)) + 1 \in 1 .. Cardinality(S)
                        /\ Ascending(S)[Cardinality(Below(S, i)) + 1] = i
    BY <1>1, AscendingPlaces
  <1>4. \A i \in S : \E n \in 1 .. Cardinality(S) : Ascending(S)[n] = i
    BY <1>3
  <1>5. ToSet(Ascending(S)) = S
    BY <1>3, <1>4 DEF ToSet
  <1> QED BY <1>2, <1>3, <1>4, <1>5 DEF S, NMine

LEMMA KeepsItsPoints ==
    ASSUME Decomposed, NEW g \in Grid, NEW p \in PE
    PROVE  /\ Len(OwnIdx(g, p)) = NMine(g, p)
           /\ \A n \in 1 .. NMine(g, p) : local[g][p][OwnIdx(g, p)[n]] = GlbIdxOwn(g, p)[n]
  <1> DEFINE c == NMine(g, p)
             at(n) == CHOOSE l \in DOMAIN local[g][p] : local[g][p][l] = GlbIdxOwn(g, p)[n]
             r == [n \in 1 .. c |-> at(n)]
  <1>1. c \in Nat /\ DOMAIN GlbIdxOwn(g, p) = 1 .. c /\ \A n \in 1 .. c : GlbIdxOwn(g, p)[n] \in Points(g)
    BY PacksItsPoints DEF Mine
  <1>2. OwnIdx(g, p) = r
    BY <1>1, Zenon DEF OwnIdx
  <1>3. ToSet(local[g][p]) = Points(g)
    BY ReorderAssumption DEF Decomposed
  <1>4. ASSUME NEW n \in 1 .. c PROVE at(n) \in DOMAIN local[g][p] /\ local[g][p][at(n)] = GlbIdxOwn(g, p)[n]
    <2>1. \E l \in DOMAIN local[g][p] : local[g][p][l] = GlbIdxOwn(g, p)[n]
      BY <1>1, <1>3 DEF ToSet
    <2> QED BY <2>1
  <1> HIDE DEF at, c
  <1>5. r \in [1 .. c -> DOMAIN local[g][p]]
    BY <1>4
  <1>6. Len(r) = c
    <2> HIDE DEF r
    <2> QED BY <1>1, <1>5, SequenceFrom
  <1> QED BY <1>2, <1>4, <1>6 DEF c

LowerPEs(g, p) == {i \in Points(g) : owner[g][i] \in 0 .. p - 1}

(* The parts follow each other in the order of the PEs.                    *)
LEMMA PartsFollow ==
    ASSUME NEW g \in Grid, NEW own, own = [p \in PE |-> NMine(g, p)]
    PROVE  /\ Counts(own, NPE)
           /\ NPE \in Nat
           /\ RunningSum(own, NPE) = [p \in 0 .. NPE |-> Cardinality(LowerPEs(g, p))]
           /\ RunningSum(own, NPE)[NPE] = Cardinality(Used(g))
  <1> DEFINE f == [p \in 0 .. NPE |-> Cardinality(LowerPEs(g, p))]
  <1>0. NPE \in Nat \ {0} /\ PE = 0 .. NPE - 1
    BY ReorderAssumption DEF PE
  <1>1. Counts(own, NPE)
    BY <1>0, PacksItsPoints DEF Counts
  <1>2. ASSUME NEW k \in 0 .. NPE - 1 PROVE f[k + 1] = f[k] + own[k]
    <2>1. IsFiniteSet(LowerPEs(g, k)) /\ IsFiniteSet(Mine(g, k))
      BY PointsFinite DEF LowerPEs, Mine
    <2>2. LowerPEs(g, k) \cap Mine(g, k) = {}
      BY DEF LowerPEs, Mine
    <2>3. LowerPEs(g, k + 1) = LowerPEs(g, k) \cup Mine(g, k)
      <3>1. \A x : x \in 0 .. (k + 1) - 1 <=> x \in 0 .. k - 1 \/ x = k
        OBVIOUS
      <3> QED BY <3>1, Zenon DEF LowerPEs, Mine
    <2>4. Cardinality(LowerPEs(g, k + 1)) = Cardinality(LowerPEs(g, k)) + Cardinality(Mine(g, k))
      BY <2>1, <2>2, <2>3, CountParts
    <2>5. k \in 0 .. NPE /\ k + 1 \in 0 .. NPE /\ k \in PE
      BY <1>0
    <2> QED BY <2>4, <2>5 DEF NMine
  <1>3. f[0] = 0
    <2>1. LowerPEs(g, 0) = {}
      BY DEF LowerPEs
    <2>2. 0 \in 0 .. NPE
      BY <1>0
    <2> QED BY <2>1, <2>2, FS_EmptySet
  <1>4. f = [k \in 0 .. NPE |-> f[k]]
    OBVIOUS
  <1>5. f[NPE] = Cardinality(Used(g))
    BY <1>0 DEF LowerPEs, Used
  <1> HIDE DEF f
  <1>6. Sums(f, own, NPE)
    BY <1>2, <1>3, <1>4 DEF Sums
  <1>7. Sums(RunningSum(own, NPE), own, NPE)
    BY <1>0, <1>1, RunningSums
  <1>8. RunningSum(own, NPE) = f
    BY <1>0, <1>6, <1>7, SumsUnique
  <1> QED BY <1>0, <1>1, <1>5, <1>8 DEF f

InWord(g, w)       == {i \in Used(g) : Word(i) = w}
EarlierWords(g, w) == {i \in Used(g) : Word(i) < w}

(* The reduced mask has a bit for each used point.                         *)
LEMMA MaskOfUsed ==
    ASSUME NEW g \in Grid, NEW w \in Words(g)
    PROVE  Reduced(g)[w] = {Bit(i) : i \in InWord(g, w)}
  <1>1. ASSUME NEW p \in PE
        PROVE  OccMask(g, ToSet(GlbIdxOwn(g, p)))[w] = {Bit(i) : i \in {j \in Mine(g, p) : Word(j) = w}}
    <2>1. ToSet(GlbIdxOwn(g, p)) = Mine(g, p)
      BY PacksItsPoints
    <2>2. OccMask(g, Mine(g, p))[w] = {(i - 1) % Bits : i \in {j \in Mine(g, p) : (j - 1) \div Bits = w}}
      BY DEF OccMask
    <2> QED BY <2>1, <2>2 DEF Word, Bit
  <1>2. Reduced(g)[w] = UNION {OccMask(g, ToSet(GlbIdxOwn(g, p)))[w] : p \in PE}
    BY Zenon DEF Reduced
  <1>3. ASSUME NEW b \in Reduced(g)[w] PROVE b \in {Bit(i) : i \in InWord(g, w)}
    <2>1. PICK p \in PE : b \in OccMask(g, ToSet(GlbIdxOwn(g, p)))[w]
      BY <1>2
    <2>2. PICK i \in Mine(g, p) : Word(i) = w /\ b = Bit(i)
      BY <2>1, <1>1
    <2>3. i \in InWord(g, w)
      BY <2>2 DEF InWord, Used, Mine
    <2> QED BY <2>2, <2>3
  <1>4. ASSUME NEW i \in InWord(g, w) PROVE Bit(i) \in Reduced(g)[w]
    <2>1. PICK p \in PE : i \in Mine(g, p) /\ Word(i) = w
      BY DEF InWord, Used, Mine
    <2>2. Bit(i) \in OccMask(g, ToSet(GlbIdxOwn(g, p)))[w]
      BY <2>1, <1>1
    <2> QED BY <2>2, <1>2
  <1> QED BY <1>3, <1>4

LEMMA UsedFinite ==
    ASSUME NEW g \in Grid
    PROVE  /\ Used(g) \in SUBSET Points(g) /\ Used(g) \in SUBSET (Nat \ {0})
           /\ \A S \in SUBSET Used(g) : /\ IsFiniteSet(S) /\ Cardinality(S) \in Nat
                                        /\ S \in SUBSET (Nat \ {0})
  <1>1. Used(g) \in SUBSET Points(g)
    BY DEF Used
  <1> QED BY <1>1, PointsFinite

(* The prefix sums count the used points of the words before.              *)
LEMMA WordsFollow ==
    ASSUME NEW g \in Grid
    PROVE  /\ RunningSum(Popcnt(g, Reduced(g)), NOcc(g))
                = [w \in 0 .. NOcc(g) |-> Cardinality(EarlierWords(g, w))]
           /\ RunningSum(Popcnt(g, Reduced(g)), NOcc(g))[NOcc(g)] = Cardinality(Used(g))
           /\ NOcc(g) \in Nat /\ Words(g) = 0 .. NOcc(g) - 1
  <1> DEFINE N == NOcc(g)
             pop == Popcnt(g, Reduced(g))
             f == [w \in 0 .. N |-> Cardinality(EarlierWords(g, w))]
  <1>0. N \in Nat /\ Words(g) = 0 .. N - 1 /\ \A i \in Points(g) : Word(i) \in Words(g)
    <2>1. 1 \in Points(g)
      BY ReorderAssumption DEF Points
    <2> QED BY <2>1, WordInMask
  <1>1. ASSUME NEW w \in 0 .. N - 1
        PROVE  pop[w] = Cardinality(InWord(g, w)) /\ Cardinality(InWord(g, w)) \in Nat
    <2>1. pop[w] = Cardinality(Reduced(g)[w])
      BY <1>0 DEF Popcnt
    <2>2. InWord(g, w) \in SUBSET Used(g) /\ \A i \in InWord(g, w) : Word(i) = w
      BY DEF InWord
    <2>3. IsFiniteSet(InWord(g, w)) /\ InWord(g, w) \in SUBSET (Nat \ {0}) /\ Cardinality(InWord(g, w)) \in Nat
      BY <2>2, UsedFinite
    <2>4. Cardinality({Bit(i) : i \in InWord(g, w)}) = Cardinality(InWord(g, w))
      BY <2>2, <2>3, BitsCount
    <2> QED BY <1>0, <2>1, <2>3, <2>4, MaskOfUsed
  <1>2. ASSUME NEW w \in 0 .. N - 1 PROVE f[w + 1] = f[w] + pop[w]
    <2>1. EarlierWords(g, w) \in SUBSET Used(g) /\ InWord(g, w) \in SUBSET Used(g)
      BY DEF EarlierWords, InWord
    <2>2. EarlierWords(g, w) \cap InWord(g, w) = {}
      <3>1. ~(w < w)
        OBVIOUS
      <3> QED BY <3>1 DEF EarlierWords, InWord
    <2>3. EarlierWords(g, w + 1) = EarlierWords(g, w) \cup InWord(g, w)
      <3>1. \A i \in Used(g) : Word(i) \in Nat
        BY UsedFinite, WordBit
      <3>2. \A i \in Used(g) : Word(i) < w + 1 <=> (Word(i) < w \/ Word(i) = w)
        BY <3>1
      <3> QED BY <3>2 DEF EarlierWords, InWord
    <2>4. Cardinality(EarlierWords(g, w + 1)) = Cardinality(EarlierWords(g, w)) + Cardinality(InWord(g, w))
      BY <2>1, <2>2, <2>3, UsedFinite, CountParts
    <2>5. w \in 0 .. N /\ w + 1 \in 0 .. N
      BY <1>0
    <2> QED BY <1>1, <2>4, <2>5
  <1>3. f[0] = 0
    <2>1. EarlierWords(g, 0) = {}
      <3>1. \A i \in Used(g) : Word(i) \in Nat
        BY UsedFinite, WordBit
      <3> QED BY <3>1 DEF EarlierWords
    <2>2. 0 \in 0 .. N
      BY <1>0
    <2> QED BY <2>1, <2>2, FS_EmptySet
  <1>4. f = [k \in 0 .. N |-> f[k]]
    OBVIOUS
  <1>5. f[N] = Cardinality(Used(g))
    <2>1. EarlierWords(g, N) = Used(g)
      <3>1. \A i \in Used(g) : Word(i) < N
        BY <1>0, UsedFinite
      <3> QED BY <3>1 DEF EarlierWords
    <2>2. N \in 0 .. N
      BY <1>0
    <2> QED BY <2>1, <2>2
  <1> HIDE DEF f, pop
  <1>6. Sums(f, pop, N) /\ Counts(pop, N)
    BY <1>1, <1>2, <1>3, <1>4 DEF Sums, Counts
  <1>7. Sums(RunningSum(pop, N), pop, N)
    BY <1>0, <1>6, RunningSums
  <1>8. RunningSum(pop, N) = f
    BY <1>0, <1>6, <1>7, SumsUnique
  <1> QED BY <1>0, <1>5, <1>8 DEF f, pop

LEMMA RankBelow ==
    ASSUME NEW g \in Grid, NEW i \in Used(g)
    PROVE  Rank(g, i) = Cardinality(Below(Used(g), i)) + 1
  <1>1. Below(Used(g), i) \in SUBSET Used(g) /\ i \notin Below(Used(g), i)
    <2>1. ~(i < i)
      BY UsedFinite
    <2> QED BY <2>1 DEF Below
  <1>2. {j \in 1 .. i : owner[g][j] \in PE} = Below(Used(g), i) \cup {i}
    <2>1. i \in 1 .. NPoints[g] /\ NPoints[g] \in Nat
      BY UsedFinite, PointsFinite DEF Points
    <2>2. \A j : j \in 1 .. i <=> (j \in 1 .. NPoints[g] /\ (j < i \/ j = i))
      BY <2>1
    <2>3. owner[g][i] \in PE
      BY DEF Used
    <2> QED BY <2>1, <2>2, <2>3 DEF Below, Used, Points
  <1>3. IsFiniteSet(Below(Used(g), i))
    BY <1>1, UsedFinite
  <1>4. Cardinality(Below(Used(g), i) \cup {i}) = Cardinality(Below(Used(g), i)) + 1
    BY <1>1, <1>3, FS_AddElement
  <1> QED BY <1>2, <1>4 DEF Rank

(* The words before and the bits below make the rank.                      *)
LEMMA IndexIsRank ==
    ASSUME NEW g \in Grid, NEW p \in PE, NEW n \in 1 .. NMine(g, p)
    PROVE  ReorderIndexOwn(g, Reduced(g), GlbIdxOwn(g, p))[n] = Rank(g, GlbIdxOwn(g, p)[n])
  <1> DEFINE i == GlbIdxOwn(g, p)[n]
             w == Word(i)
             b == Bit(i)
             low == {j \in InWord(g, w) : j < i}
  <1>1. n \in DOMAIN GlbIdxOwn(g, p) /\ i \in Mine(g, p)
    BY PacksItsPoints
  <1>2. i \in Used(g) /\ i \in Nat \ {0} /\ w \in Words(g) /\ w \in Nat /\ b \in 0 .. Bits - 1
    BY <1>1, WordInMask, WordBit DEF Mine, Used
  <1>3. ReorderIndexOwn(g, Reduced(g), GlbIdxOwn(g, p))[n]
          = PfxSum(g, Reduced(g))[w] + Cardinality(Reduced(g)[w] \intersect 0 .. b - 1) + 1
    BY <1>1, Zenon DEF ReorderIndexOwn, Word, Bit
  <1> HIDE DEF i
  <1>4. PfxSum(g, Reduced(g))[w] = Cardinality(EarlierWords(g, w))
    <2>1. w \in 0 .. NOcc(g)
      BY <1>2, WordsFollow
    <2>2. PfxSum(g, Reduced(g))[w] = RunningSum(Popcnt(g, Reduced(g)), NOcc(g))[w]
      BY <1>2 DEF PfxSum
    <2> QED BY <2>1, <2>2, WordsFollow
  <1>5. Reduced(g)[w] \intersect 0 .. b - 1 = {Bit(j) : j \in low}
    <2>1. Reduced(g)[w] = {Bit(j) : j \in InWord(g, w)}
      BY <1>2, MaskOfUsed
    <2>2. ASSUME NEW j \in InWord(g, w) PROVE Bit(j) \in 0 .. b - 1 <=> j < i
      <3>1. j \in Nat \ {0} /\ Word(j) = w
        BY UsedFinite DEF InWord
      <3>2. Bit(j) < b <=> j < i
        BY <3>1, <1>2, WordOrder
      <3>3. Bit(j) \in 0 .. Bits - 1 /\ Bits \in Nat
        BY <3>1, WordBit, ReorderAssumption
      <3> HIDE DEF b
      <3> QED BY <3>2, <3>3, <1>2
    <2> QED BY <2>1, <2>2
  <1>6. low \in SUBSET Used(g) /\ \A j \in low : Word(j) = w
    BY DEF InWord
  <1>7. Cardinality({Bit(j) : j \in low}) = Cardinality(low)
    <2>1. IsFiniteSet(low) /\ low \in SUBSET (Nat \ {0})
      BY <1>6, UsedFinite
    <2> HIDE DEF low
    <2> QED BY <1>6, <2>1, BitsCount
  <1>8. Below(Used(g), i) = EarlierWords(g, w) \cup low /\ EarlierWords(g, w) \cap low = {}
    <2>1. ASSUME NEW j \in Used(g) PROVE j < i <=> (Word(j) < w \/ (Word(j) = w /\ j < i))
      <3>1. j \in Nat \ {0} /\ Word(j) \in Nat /\ Word(i) \in Nat
        BY <1>2, UsedFinite, WordBit
      <3>2. (Word(j) < Word(i) => j < i) /\ (Word(i) < Word(j) => i < j)
        BY <3>1, <1>2, WordOrder
      <3> DEFINE v == Word(j)
      <3> HIDE DEF v, w
      <3>3. v \in Nat /\ w \in Nat /\ (v < w => j < i) /\ (w < v => i < j)
        BY <3>1, <3>2 DEF v, w
      <3>4. j < i <=> (v < w \/ (v = w /\ j < i))
        BY <3>3, <3>1, <1>2
      <3> QED BY <3>4 DEF v
    <2>2. \A j \in EarlierWords(g, w) : Word(j) # w
      <3>1. ~(w < w)
        BY <1>2
      <3> QED BY <3>1 DEF EarlierWords
    <2> QED BY <2>1, <2>2 DEF Below, EarlierWords, InWord
  <1>9. Cardinality(Below(Used(g), i)) = Cardinality(EarlierWords(g, w)) + Cardinality(low)
    <2>1. EarlierWords(g, w) \in SUBSET Used(g)
      BY DEF EarlierWords
    <2>2. IsFiniteSet(EarlierWords(g, w)) /\ IsFiniteSet(low)
      BY <2>1, <1>6, UsedFinite
    <2> HIDE DEF low
    <2> QED BY <1>8, <2>2, CountParts
  <1>10. Rank(g, i) = Cardinality(Below(Used(g), i)) + 1
    BY <1>2, RankBelow
  <1> QED BY <1>3, <1>4, <1>5, <1>7, <1>9, <1>10 DEF i

Offset(g, p) == Cardinality(LowerPEs(g, p))
Total(g)     == Cardinality(Used(g))

LEMMA InfoIs ==
    ASSUME Decomposed, NEW g \in Grid
    PROVE  /\ MaskToReorderInfo(g).pe_own = [p \in PE |-> NMine(g, p)]
           /\ MaskToReorderInfo(g).pe_off = [p \in PE |-> Offset(g, p)]
           /\ MaskToReorderInfo(g).n_glb = Total(g)
           /\ MaskToReorderInfo(g).counted = Total(g)
           /\ \A p \in PE : /\ MaskToReorderInfo(g).own_idx[p] = OwnIdx(g, p)
                            /\ MaskToReorderInfo(g).reorder_index_own[p]
                                 = ReorderIndexOwn(g, Reduced(g), GlbIdxOwn(g, p))
  <1> DEFINE own == [p \in PE |-> Len(OwnIdx(g, p))]
             m == MaskToReorderInfo(g)
  <1>1. /\ m.pe_own = own /\ m.pe_off = PeOff(own) /\ m.n_glb = RunningSum(own, NPE)[NPE]
        /\ m.counted = RunningSum(Popcnt(g, Reduced(g)), NOcc(g))[NOcc(g)]
        /\ m.own_idx = [p \in PE |-> OwnIdx(g, p)]
        /\ m.reorder_index_own = [p \in PE |-> ReorderIndexOwn(g, Reduced(g), GlbIdxOwn(g, p))]
    BY DEF MaskToReorderInfo
  <1>2. own = [p \in PE |-> NMine(g, p)]
    BY KeepsItsPoints
  <1> HIDE DEF m, own
  <1>3. /\ RunningSum(own, NPE) = [p \in 0 .. NPE |-> Cardinality(LowerPEs(g, p))]
        /\ RunningSum(own, NPE)[NPE] = Total(g)
    BY <1>2, PartsFollow DEF Total
  <1>4. PeOff(own) = [p \in PE |-> Offset(g, p)]
    <2>1. \A p \in PE : p \in 0 .. NPE
      BY ReorderAssumption DEF PE
    <2>2. \A p \in PE : RunningSum(own, NPE)[p] = Offset(g, p)
      BY <1>3, <2>1 DEF Offset
    <2>3. PeOff(own) = [p \in PE |-> RunningSum(own, NPE)[p]]
      BY DEF PeOff
    <2> QED BY <2>2, <2>3
  <1>5. m.counted = Total(g)
    BY <1>1, WordsFollow DEF Total
  <1> QED BY <1>1, <1>2, <1>3, <1>4, <1>5 DEF m

(* The offsets and sizes of the parts tile the gathered array.             *)
LEMMA PartsTile ==
    ASSUME NEW g \in Grid
    PROVE  /\ Total(g) \in Nat
           /\ \A p \in PE : /\ Offset(g, p) \in Nat /\ NMine(g, p) \in Nat
                            /\ Offset(g, p) + NMine(g, p) <= Total(g)
           /\ \A p, q \in PE : p < q => Offset(g, p) + NMine(g, p) <= Offset(g, q)
           /\ \A j \in 1 .. Total(g) :
                 \E p \in PE : j \in Offset(g, p) + 1 .. Offset(g, p) + NMine(g, p)
  <1> DEFINE own == [p \in PE |-> NMine(g, p)]
             s == RunningSum(own, NPE)
  <1>1. /\ Counts(own, NPE) /\ NPE \in Nat
        /\ s = [p \in 0 .. NPE |-> Cardinality(LowerPEs(g, p))] /\ s[NPE] = Total(g)
    BY PartsFollow DEF Total
  <1>2. Sums(s, own, NPE)
    BY <1>1, RunningSums
  <1>3. \A p \in PE : p \in 0 .. NPE - 1 /\ p \in 0 .. NPE /\ p + 1 \in 0 .. NPE
    BY <1>1 DEF PE
  <1>4. \A p \in PE : own[p] = NMine(g, p) /\ NMine(g, p) \in Nat
    BY PacksItsPoints
  <1>5. \A p \in PE : s[p] = Offset(g, p) /\ s[p + 1] = Offset(g, p) + NMine(g, p)
    <2>1. \A p \in PE : s[p] = Offset(g, p)
      BY <1>1, <1>3 DEF Offset
    <2> HIDE DEF s, own
    <2>2. \A p \in PE : s[p + 1] = s[p] + own[p]
      BY <1>2, <1>3 DEF Sums
    <2> QED BY <2>1, <2>2, <1>4
  <1> HIDE DEF s, own
  <1>6. \A k \in 0 .. NPE : s[k] \in Nat
    BY <1>1, <1>2, SumsNat
  <1>7. \A j, k \in 0 .. NPE : j <= k => s[j] <= s[k]
    BY <1>1, <1>2, SumsGrow
  <1>8. Total(g) \in Nat /\ \A p \in PE : Offset(g, p) \in Nat
    <2>1. NPE \in 0 .. NPE
      BY <1>1
    <2> QED BY <2>1, <1>1, <1>3, <1>5, <1>6
  <1>9. ASSUME NEW p \in PE PROVE Offset(g, p) + NMine(g, p) <= Total(g)
    <2>1. p + 1 \in 0 .. NPE /\ NPE \in 0 .. NPE /\ p + 1 <= NPE
      BY <1>1, <1>3
    <2>2. s[p + 1] <= s[NPE]
      BY <2>1, <1>7
    <2> QED BY <2>2, <1>1, <1>5
  <1>10. ASSUME NEW p \in PE, NEW q \in PE, p < q PROVE Offset(g, p) + NMine(g, p) <= Offset(g, q)
    <2>1. p + 1 \in 0 .. NPE /\ q \in 0 .. NPE /\ p + 1 <= q
      BY <1>1, <1>3, <1>10
    <2>2. s[p + 1] <= s[q]
      BY <2>1, <1>7
    <2> QED BY <2>2, <1>5
  <1>11. ASSUME NEW j \in 1 .. Total(g)
         PROVE  \E p \in PE : j \in Offset(g, p) + 1 .. Offset(g, p) + NMine(g, p)
    <2> DEFINE S == {k \in 0 .. NPE : j <= s[k]}
    <2>1. NPE \in S /\ S \subseteq Nat
      BY <1>1
    <2> HIDE DEF S
    <2>2. PICK m \in S : \A x \in S : m <= x
      BY <2>1, LeastNat
    <2>3. m \in 0 .. NPE /\ j <= s[m]
      BY DEF S
    <2>4. m # 0
      BY <2>3, <1>2, <1>8 DEF Sums
    <2>5. m - 1 \in PE /\ (m - 1) + 1 = m /\ ~(m <= m - 1) /\ m - 1 \in 0 .. NPE
      BY <2>3, <2>4, <1>1 DEF PE
    <2>6. ~(j <= s[m - 1])
      BY <2>2, <2>5 DEF S
    <2>7. s[m - 1] = Offset(g, m - 1) /\ s[m] = Offset(g, m - 1) + NMine(g, m - 1)
      BY <2>5, <1>5
    <2>8. Offset(g, m - 1) \in Nat /\ NMine(g, m - 1) \in Nat
      BY <2>5, <1>4, <1>8
    <2> DEFINE p == m - 1
    <2>9. p \in PE /\ j \in Nat /\ j <= Offset(g, p) + NMine(g, p) /\ ~(j <= Offset(g, p))
          /\ Offset(g, p) \in Nat /\ NMine(g, p) \in Nat
      BY <2>3, <2>5, <2>6, <2>7, <2>8, <1>8
    <2> HIDE DEF p
    <2> QED BY <2>9
  <1> QED BY <1>4, <1>8, <1>9, <1>10, <1>11

LEMMA PartUnique ==
    ASSUME NEW g \in Grid, NEW p \in PE, NEW q \in PE,
           NEW j \in Offset(g, p) + 1 .. Offset(g, p) + NMine(g, p),
           j \in Offset(g, q) + 1 .. Offset(g, q) + NMine(g, q)
    PROVE  p = q
  <1> DEFINE a == Offset(g, p)
             b == Offset(g, q)
             c == NMine(g, p)
             d == NMine(g, q)
  <1>1. a \in Nat /\ b \in Nat /\ c \in Nat /\ d \in Nat /\ (p < q => a + c <= b) /\ (q < p => b + d <= a)
    BY PartsTile
  <1>2. j \in a + 1 .. a + c /\ j \in b + 1 .. b + d
    OBVIOUS
  <1> HIDE DEF a, b, c, d
  <1>3. ~(p < q) /\ ~(q < p)
    BY <1>1, <1>2
  <1>4. p \in Int /\ q \in Int
    BY DEF PE
  <1> QED BY <1>3, <1>4

(* The n-th point of PE p lands where its rank says.                       *)
LEMMA GatheredIs ==
    ASSUME Decomposed, NEW g \in Grid
    PROVE  /\ Gathered(MaskToReorderInfo(g)) = [j \in 1 .. Total(g) |-> Gathered(MaskToReorderInfo(g))[j]]
           /\ \A p \in PE : \A n \in 1 .. NMine(g, p) :
                /\ Offset(g, p) + n \in 1 .. Total(g)
                /\ Gathered(MaskToReorderInfo(g))[Offset(g, p) + n] = Rank(g, GlbIdxOwn(g, p)[n])
  <1> DEFINE m == MaskToReorderInfo(g)
             pe(j) == CHOOSE q \in PE : j \in m.pe_off[q] + 1 .. m.pe_off[q] + m.pe_own[q]
             elt(j) == m.reorder_index_own[pe(j)][j - m.pe_off[pe(j)]]
  <1>1. Gathered(m) = [j \in 1 .. m.n_glb |-> elt(j)]
    BY Zenon DEF Gathered
  <1>2. /\ m.n_glb = Total(g)
        /\ \A q \in PE : /\ m.pe_off[q] = Offset(g, q) /\ m.pe_own[q] = NMine(g, q)
                         /\ m.reorder_index_own[q] = ReorderIndexOwn(g, Reduced(g), GlbIdxOwn(g, q))
    BY InfoIs
  <1> HIDE DEF m
  <1>3. ASSUME NEW p \in PE, NEW n \in 1 .. NMine(g, p)
        PROVE  /\ Offset(g, p) + n \in 1 .. Total(g)
               /\ elt(Offset(g, p) + n) = Rank(g, GlbIdxOwn(g, p)[n])
    <2>1. Offset(g, p) \in Nat /\ NMine(g, p) \in Nat /\ Offset(g, p) + NMine(g, p) <= Total(g) /\ Total(g) \in Nat
      BY PartsTile
    <2> DEFINE j == Offset(g, p) + n
    <2>2. j \in 1 .. Total(g) /\ j \in Offset(g, p) + 1 .. Offset(g, p) + NMine(g, p) /\ j - Offset(g, p) = n
      <3> DEFINE a == Offset(g, p)
                 c == NMine(g, p)
      <3>1. a \in Nat /\ c \in Nat /\ a + c <= Total(g) /\ Total(g) \in Nat /\ n \in 1 .. c
        BY <2>1
      <3> HIDE DEF a, c
      <3>2. a + n \in 1 .. Total(g) /\ a + n \in a + 1 .. a + c /\ (a + n) - a = n
        BY <3>1
      <3> QED BY <3>2 DEF a, c
    <2> HIDE DEF j
    <2>3. \E q \in PE : j \in m.pe_off[q] + 1 .. m.pe_off[q] + m.pe_own[q]
      BY <2>2, <1>2
    <2>4. pe(j) \in PE /\ j \in m.pe_off[pe(j)] + 1 .. m.pe_off[pe(j)] + m.pe_own[pe(j)]
      BY <2>3
    <2> HIDE DEF pe
    <2>5. pe(j) = p
      BY <2>2, <2>4, <1>2, PartUnique
    <2>6. elt(j) = ReorderIndexOwn(g, Reduced(g), GlbIdxOwn(g, p))[n]
      BY <2>5, <1>2, <2>2
    <2> QED BY <2>2, <2>6, IndexIsRank DEF j
  <1> HIDE DEF elt
  <1>4. Gathered(m) = [j \in 1 .. Total(g) |-> Gathered(m)[j]] /\ \A j \in 1 .. Total(g) : Gathered(m)[j] = elt(j)
    BY <1>1, <1>2
  <1> QED BY <1>3, <1>4 DEF m

(* ------------------------- what the infos say -------------------------- *)

(* What r, the stored info of a grid, tells both sides.                    *)
Tells(g, r) ==
    /\ r.n_glb = Total(g)
    /\ r.pe_own = [p \in PE |-> NMine(g, p)]
    /\ r.pe_off = [p \in PE |-> Offset(g, p)]
    /\ r.reorder_index = [j \in 1 .. Total(g) |-> r.reorder_index[j]]
    /\ \A p \in PE : \A n \in 1 .. NMine(g, p) :
         /\ local[g][p][r.own_idx[p][n]] = GlbIdxOwn(g, p)[n]
         /\ r.reorder_index[Offset(g, p) + n] = Rank(g, GlbIdxOwn(g, p)[n])

GridInv ==
    /\ Decomposed
    /\ ri = [g \in Grid |-> ri[g]]
    /\ \A g \in Grid : ri[g] = NoInfo \/ Tells(g, ri[g])

LEMMA ConstructTells ==
    ASSUME Decomposed, NEW g \in Grid,
           NEW r, r = [n_glb   |-> MaskToReorderInfo(g).n_glb,
                       pe_own  |-> MaskToReorderInfo(g).pe_own,
                       pe_off  |-> MaskToReorderInfo(g).pe_off,
                       own_idx |-> MaskToReorderInfo(g).own_idx,
                       reorder_index |-> Gathered(MaskToReorderInfo(g))]
    PROVE  Tells(g, r)
  <1>1. /\ r.n_glb = MaskToReorderInfo(g).n_glb /\ r.pe_own = MaskToReorderInfo(g).pe_own
        /\ r.pe_off = MaskToReorderInfo(g).pe_off /\ r.own_idx = MaskToReorderInfo(g).own_idx
        /\ r.reorder_index = Gathered(MaskToReorderInfo(g))
    OBVIOUS
  <1>2. \A p \in PE : \A n \in 1 .. NMine(g, p) : local[g][p][r.own_idx[p][n]] = GlbIdxOwn(g, p)[n]
    <2>1. \A p \in PE : r.own_idx[p] = OwnIdx(g, p)
      BY <1>1, InfoIs
    <2>2. \A p \in PE : \A n \in 1 .. NMine(g, p) : local[g][p][OwnIdx(g, p)[n]] = GlbIdxOwn(g, p)[n]
      BY KeepsItsPoints
    <2> QED BY <2>1, <2>2
  <1>3. /\ r.reorder_index = [j \in 1 .. Total(g) |-> r.reorder_index[j]]
        /\ \A p \in PE : \A n \in 1 .. NMine(g, p) :
             r.reorder_index[Offset(g, p) + n] = Rank(g, GlbIdxOwn(g, p)[n])
    <2> DEFINE h == Gathered(MaskToReorderInfo(g))
    <2>1. /\ h = [j \in 1 .. Total(g) |-> h[j]]
          /\ \A p \in PE : \A n \in 1 .. NMine(g, p) : h[Offset(g, p) + n] = Rank(g, GlbIdxOwn(g, p)[n])
      BY GatheredIs
    <2>2. r.reorder_index = h
      BY <1>1
    <2> HIDE DEF h
    <2> QED BY <2>1, <2>2
  <1>4. r.n_glb = Total(g) /\ r.pe_own = [p \in PE |-> NMine(g, p)] /\ r.pe_off = [p \in PE |-> Offset(g, p)]
    BY <1>1, InfoIs
  <1> QED BY <1>2, <1>3, <1>4 DEF Tells

(* The places are the ranks: each place of the gathered array is filled    *)
(* from one point of one PE.                                               *)
LEMMA RanksFill ==
    ASSUME NEW g \in Grid
    PROVE  /\ \A i \in Used(g) : Rank(g, i) \in 1 .. Total(g)
           /\ \A j \in 1 .. Total(g) : \E i \in Used(g) : Rank(g, i) = j
           /\ \A i, j \in Used(g) : Rank(g, i) = Rank(g, j) => i = j
  <1> DEFINE S == Used(g)
  <1>1. S \in SUBSET Nat /\ IsFiniteSet(S)
    BY UsedFinite
  <1>2. \A i \in S : Rank(g, i) = Cardinality(Below(S, i)) + 1
    BY RankBelow
  <1>3. Total(g) = Cardinality(S)
    BY DEF Total
  <1> HIDE DEF S
  <1>4. /\ Cardinality(S) \in Nat
        /\ Ascending(S) \in [1 .. Cardinality(S) -> S]
        /\ \A n \in 1 .. Cardinality(S) : Cardinality(Below(S, Ascending(S)[n])) = n - 1
        /\ \A i \in S : /\ Cardinality(Below(S, i)) + 1 \in 1 .. Cardinality(S)
                        /\ Ascending(S)[Cardinality(Below(S, i)) + 1] = i
    BY <1>1, AscendingPlaces
  <1>5. \A j \in 1 .. Total(g) : \E i \in S : Rank(g, i) = j
    <2> TAKE j \in 1 .. Total(g)
    <2>1. j \in 1 .. Cardinality(S) /\ j \in Int
      BY <1>3
    <2>2. Ascending(S)[j] \in S /\ Cardinality(Below(S, Ascending(S)[j])) = j - 1
      BY <2>1, <1>4
    <2>3. Rank(g, Ascending(S)[j]) = (j - 1) + 1
      BY <2>2, <1>2
    <2>4. (j - 1) + 1 = j
      BY <2>1
    <2> QED BY <2>2, <2>3, <2>4
  <1>6. \A i, j \in S : Rank(g, i) = Rank(g, j) => i = j
    <2> TAKE i, j \in S
    <2> HAVE Rank(g, i) = Rank(g, j)
    <2>1. Ascending(S)[Rank(g, i)] = i /\ Ascending(S)[Rank(g, j)] = j
      BY <1>2, <1>4
    <2> QED BY <2>1
  <1> QED BY <1>2, <1>3, <1>4, <1>5, <1>6 DEF S

LEMMA PlacesAreRanks ==
    ASSUME Decomposed, NEW g \in Grid, NEW r, Tells(g, r)
    PROVE  /\ \A p \in PE : \A n \in 1 .. r.pe_own[p] :
                /\ GlbIdxOwn(g, p)[n] \in Used(g)
                /\ r.pe_off[p] + n \in 1 .. Total(g)
                /\ r.reorder_index[r.pe_off[p] + n] = Rank(g, local[g][p][r.own_idx[p][n]])
           /\ ToSet(r.reorder_index) = 1 .. Total(g)
           /\ \A j \in 1 .. Total(g) :
                \E p \in PE : \E n \in 1 .. r.pe_own[p] : r.reorder_index[r.pe_off[p] + n] = j
  <1>1. \A p \in PE : r.pe_own[p] = NMine(g, p) /\ r.pe_off[p] = Offset(g, p)
    BY DEF Tells
  <1>2. ASSUME NEW p \in PE, NEW n \in 1 .. NMine(g, p)
        PROVE  /\ GlbIdxOwn(g, p)[n] \in Used(g)
               /\ Offset(g, p) + n \in 1 .. Total(g)
               /\ r.reorder_index[Offset(g, p) + n] = Rank(g, local[g][p][r.own_idx[p][n]])
               /\ r.reorder_index[Offset(g, p) + n] = Rank(g, GlbIdxOwn(g, p)[n])
    <2>1. GlbIdxOwn(g, p)[n] \in Used(g)
      BY PacksItsPoints DEF Mine, Used
    <2>2. Offset(g, p) + n \in 1 .. Total(g)
      BY GatheredIs
    <2> QED BY <2>1, <2>2 DEF Tells
  <1>3. \A j \in 1 .. Total(g) :
          \E p \in PE : \E n \in 1 .. NMine(g, p) : r.reorder_index[Offset(g, p) + n] = j
    <2> TAKE j \in 1 .. Total(g)
    <2>1. PICK i \in Used(g) : Rank(g, i) = j
      BY RanksFill
    <2>2. PICK p \in PE : i \in Mine(g, p)
      BY DEF Used, Mine
    <2>3. PICK n \in 1 .. NMine(g, p) : GlbIdxOwn(g, p)[n] = i
      BY <2>2, PacksItsPoints
    <2>4. r.reorder_index[Offset(g, p) + n] = j
      BY <2>1, <2>3, <1>2
    <2> QED BY <2>4
  <1>4. ToSet(r.reorder_index) = 1 .. Total(g)
    <2> DEFINE x == r.reorder_index
    <2>1. x = [j \in 1 .. Total(g) |-> x[j]]
      BY DEF Tells
    <2>2. \A j \in 1 .. Total(g) : x[j] \in 1 .. Total(g)
      <3> TAKE j \in 1 .. Total(g)
      <3>1. PICK p \in PE : j \in Offset(g, p) + 1 .. Offset(g, p) + NMine(g, p)
        BY PartsTile
      <3>2. j - Offset(g, p) \in 1 .. NMine(g, p) /\ Offset(g, p) + (j - Offset(g, p)) = j
        <4> DEFINE a == Offset(g, p)
                   c == NMine(g, p)
        <4>1. a \in Nat /\ c \in Nat /\ j \in a + 1 .. a + c
          BY <3>1, PartsTile
        <4> HIDE DEF a, c
        <4>2. j - a \in 1 .. c /\ a + (j - a) = j
          BY <4>1
        <4> QED BY <4>2 DEF a, c
      <3> DEFINE n == j - Offset(g, p)
      <3>3. n \in 1 .. NMine(g, p) /\ Offset(g, p) + n = j
        BY <3>2
      <3> HIDE DEF n
      <3>4. GlbIdxOwn(g, p)[n] \in Used(g) /\ x[j] = Rank(g, GlbIdxOwn(g, p)[n])
        BY <3>3, <1>2
      <3> HIDE DEF x
      <3> QED BY <3>4, RanksFill
    <2>3. \A j \in 1 .. Total(g) : \E k \in 1 .. Total(g) : x[k] = j
      BY <1>2, <1>3
    <2> HIDE DEF x
    <2>4. ToSet(x) = 1 .. Total(g)
      <3>1. DOMAIN x = 1 .. Total(g)
        BY <2>1
      <3> QED BY <3>1, <2>2, <2>3 DEF ToSet
    <2> QED BY <2>4 DEF x
  <1> QED BY <1>1, <1>2, <1>3, <1>4

LEMMA GridInit ==
    ASSUME ReorderInit
    PROVE  GridInv
  <1>1. ASSUME NEW g \in Grid PROVE owner[g] \in [Points(g) -> PE \cup {Unused}]
    <2>1. owner[g] \in UNION {[Points(h) -> PE \cup Holes] : h \in Grid} /\ DOMAIN owner[g] = Points(g)
      BY DEF ReorderInit
    <2>2. PICK h \in Grid : owner[g] \in [Points(h) -> PE \cup Holes]
      BY <2>1
    <2>3. Points(h) = Points(g)
      BY <2>1, <2>2
    <2>4. Holes \subseteq {Unused}
      BY ReorderAssumption
    <2> QED BY <2>2, <2>3, <2>4
  <1>2. \A g \in Grid : \A p \in PE : local[g][p] \in Orders[g]
    BY DEF ReorderInit
  <1>3. ri = [g \in Grid |-> ri[g]] /\ \A g \in Grid : ri[g] = NoInfo
    BY DEF ReorderInit
  <1> QED BY <1>1, <1>2, <1>3 DEF GridInv, Decomposed

LEMMA SamePoints ==
    ASSUME NEW g \in Grid, UNCHANGED <<owner, local>>
    PROVE  /\ Used(g)' = Used(g) /\ Total(g)' = Total(g)
           /\ \A p \in PE : /\ Mine(g, p)' = Mine(g, p) /\ NMine(g, p)' = NMine(g, p)
                            /\ Offset(g, p)' = Offset(g, p)
                            /\ GlbIdxOwn(g, p)' = GlbIdxOwn(g, p)
           /\ \A i \in Used(g) : Rank(g, i)' = Rank(g, i)
  <1>1. owner' = owner
    OBVIOUS
  <1>2. Used(g)' = Used(g)
    BY <1>1 DEF Used
  <1>3. \A p \in PE : Mine(g, p)' = Mine(g, p) /\ LowerPEs(g, p)' = LowerPEs(g, p)
    BY <1>1 DEF Mine, LowerPEs
  <1>4. \A p \in PE : GlbIdxOwn(g, p)' = GlbIdxOwn(g, p)
    <2> TAKE p \in PE
    <2>1. {i \in Points(g) : owner'[g][i] = p} = {i \in Points(g) : owner[g][i] = p}
      BY <1>1
    <2> QED BY <2>1 DEF GlbIdxOwn
  <1>5. \A i \in Used(g) : Rank(g, i)' = Rank(g, i)
    <2> TAKE i \in Used(g)
    <2>1. {j \in 1 .. i : owner'[g][j] \in PE} = {j \in 1 .. i : owner[g][j] \in PE}
      BY <1>1
    <2> QED BY <2>1 DEF Rank
  <1> QED BY <1>2, <1>3, <1>4, <1>5 DEF Total, NMine, Offset

LEMMA StillTells ==
    ASSUME NEW g \in Grid, UNCHANGED <<owner, local>>, NEW r, Tells(g, r)
    PROVE  Tells(g, r)'
  <1>1. /\ Total(g)' = Total(g)
        /\ \A p \in PE : /\ NMine(g, p)' = NMine(g, p) /\ Offset(g, p)' = Offset(g, p)
                         /\ GlbIdxOwn(g, p)' = GlbIdxOwn(g, p)
        /\ local' = local
    BY SamePoints
  <1>2. \A p \in PE : \A n \in 1 .. NMine(g, p) : Rank(g, GlbIdxOwn(g, p)[n])' = Rank(g, GlbIdxOwn(g, p)[n])
    <2> TAKE p \in PE
    <2> TAKE n \in 1 .. NMine(g, p)
    <2>1. owner' = owner /\ GlbIdxOwn(g, p)' = GlbIdxOwn(g, p)
      BY <1>1
    <2> QED BY <2>1 DEF Rank
  <1>3. \A p \in PE : \A n \in 1 .. NMine(g, p) :
          /\ local[g][p][r.own_idx[p][n]] = GlbIdxOwn(g, p)[n]
          /\ r.reorder_index[Offset(g, p) + n] = Rank(g, GlbIdxOwn(g, p)[n])
    BY DEF Tells
  <1>4. \A p \in PE : \A n \in 1 .. NMine(g, p) :
          /\ local'[g][p][r.own_idx[p][n]] = GlbIdxOwn(g, p)'[n]
          /\ r.reorder_index[Offset(g, p)' + n] = Rank(g, GlbIdxOwn(g, p)[n])'
    BY <1>1, <1>2, <1>3
  <1> QED BY <1>1, <1>4 DEF Tells

LEMMA GridStep ==
    ASSUME GridInv, (\E g \in Grid : Construct(g)) \/ UNCHANGED reorderVars
    PROVE  GridInv'
  <1>0. UNCHANGED <<owner, local>>
    BY DEF Construct, reorderVars
  <1>1. Decomposed'
    BY <1>0 DEF GridInv, Decomposed
  <1>2. CASE UNCHANGED reorderVars
    <2>1. ri' = ri
      BY <1>2 DEF reorderVars
    <2>2. \A g \in Grid : ri'[g] = NoInfo \/ Tells(g, ri[g])'
      <3> TAKE g \in Grid
      <3>1. ri[g] = NoInfo \/ Tells(g, ri[g])
        BY DEF GridInv
      <3>2. PICK r : r = ri[g]
        OBVIOUS
      <3>3. ri'[g] = r
        BY <2>1, <3>2
      <3>4. Tells(g, r) => Tells(g, r)'
        BY <1>0, StillTells
      <3> QED BY <3>1, <3>2, <3>3, <3>4
    <2> QED BY <1>1, <2>1, <2>2 DEF GridInv
  <1>3. CASE \E g \in Grid : Construct(g)
    <2>1. PICK g \in Grid : Construct(g)
      BY <1>3
    <2>2. PICK r : r = [n_glb   |-> MaskToReorderInfo(g).n_glb,
                        pe_own  |-> MaskToReorderInfo(g).pe_own,
                        pe_off  |-> MaskToReorderInfo(g).pe_off,
                        own_idx |-> MaskToReorderInfo(g).own_idx,
                        reorder_index |-> Gathered(MaskToReorderInfo(g))]
      OBVIOUS
    <2>3. ri' = [ri EXCEPT ![g] = r]
      BY <2>1, <2>2, Zenon DEF Construct
    <2>4. Tells(g, r)
      BY <2>2, ConstructTells DEF GridInv
    <2>5. Tells(g, r)'
      BY <2>4, <1>0, StillTells
    <2>6. ri' = [h \in Grid |-> ri'[h]] /\ ri'[g] = r /\ \A h \in Grid : h # g => ri'[h] = ri[h]
      BY <2>3 DEF GridInv
    <2>7. ASSUME NEW h \in Grid PROVE ri'[h] = NoInfo \/ Tells(h, ri[h])'
      <3>1. CASE h = g
        BY <3>1, <2>5, <2>6
      <3>2. CASE h # g
        <4>1. PICK s : s = ri[h]
          OBVIOUS
        <4>2. ri'[h] = s
          BY <4>1, <3>2, <2>6
        <4>3. s = NoInfo \/ Tells(h, s)
          BY <4>1 DEF GridInv
        <4>4. Tells(h, s) => Tells(h, s)'
          BY <1>0, StillTells
        <4> QED BY <4>2, <4>3, <4>4
      <3> QED BY <3>1, <3>2
    <2> QED BY <1>1, <2>6, <2>7 DEF GridInv
  <1> QED BY <1>2, <1>3

LEMMA GridGathers ==
    ASSUME GridInv, [GatherNext]_gatherVars
    PROVE  GridInv'
  <1>1. ASSUME NEW g \in Grid, ConstructGrid(g) PROVE Construct(g)
    BY <1>1 DEF ConstructGrid
  <1>2. (\E g \in Grid : Construct(g)) \/ UNCHANGED reorderVars
    BY <1>1 DEF GatherNext, gatherVars, reorderVars, OpenMpiWindow, PostVar, SkipVar, BeginWriteData,
                SkipCollect, CollectChunk, EndWriteData, NextRestart
  <1> QED BY <1>2, GridStep

LEMMA GridAlways == GatherSpec => []GridInv
  <1>1. GatherInit => GridInv
    BY GridInit DEF GatherInit
  <1> QED BY <1>1, GridGathers, PTL DEF GatherSpec

(* Whatever the decomposition of the points, the orders the PEs keep them  *)
(* in, the points nobody owns and the width of a mask word: the n-th point *)
(* a PE packs is placed by its rank among the used points, and the parts   *)
(* of all PEs fill the global array (mask2reorder_info and                 *)
(* transfer_reorder_info).                                                 *)
THEOREM PlacesHold == GatherSpec => []PlacedByRank
  <1>1. ASSUME GridInv PROVE PlacedByRank
    <2> SUFFICES ASSUME NEW g \in Grid, ri[g] # NoInfo
                 PROVE  /\ \A p \in PE : \A n \in 1 .. ri[g].pe_own[p] :
                             ri[g].reorder_index[ri[g].pe_off[p] + n]
                               = Rank(g, local[g][p][ri[g].own_idx[p][n]])
                        /\ ToSet(ri[g].reorder_index) = 1 .. ri[g].n_glb
      BY DEF PlacedByRank
    <2>1. Tells(g, ri[g]) /\ Decomposed
      BY <1>1 DEF GridInv
    <2>2. ri[g].n_glb = Total(g)
      BY <2>1 DEF Tells
    <2> QED BY <2>1, <2>2, PlacesAreRanks
  <1> QED BY <1>1, GridAlways, PTL

(* The bits counted in the mask are the points counted by the PEs:         *)
(* occmask_pfxsum never stops the model with 'Bit-counting failed'.        *)
THEOREM BitsAreCounted ==
    GatherSpec => [](\A g \in Grid : MaskToReorderInfo(g).counted = MaskToReorderInfo(g).n_glb)
  <1>1. GridInv => \A g \in Grid : MaskToReorderInfo(g).counted = MaskToReorderInfo(g).n_glb
    BY InfoIs DEF GridInv
  <1> QED BY <1>1, GridAlways, PTL

(* ------------------------ the layout of a window ----------------------- *)

NVar == Len(varData)

(* The words a PE posts of a variable, and where those of each begin: of   *)
(* variable v at Start(p)[v - 1].                                          *)
Posted(v, p) ==
    IF HasValidTimeLevel(v)
    THEN PostedWords(varData[v].kind, NElements(v, p))
    ELSE 0

Start(p) == RunningSum([v \in 0 .. NVar - 1 |-> Posted(v + 1, p)], NVar)

Halves(v, p) == PerElement(varData[v].kind) * NElements(v, p)

SetupInv ==
    /\ varData \in Seq([hgrid: Grid, kind: Kind, nlevs: Nat \ {0}, tlev: {-1, 1, 2}])
    /\ chunkSize \in Int
    /\ Aligned([vars |-> varData, chunk |-> chunkSize])
    /\ varData # <<>> => \A g \in Grid : ToSet(owner[g]) \subseteq PE
    /\ pc \in {"construct", "post", "collect", "written"}
    /\ pc # "construct" => Ready

(* What a PE has posted lies where Start says.                             *)
PostInv(p) ==
    /\ next[p] \in 1 .. NVar + 1
    /\ pc = "construct" => next[p] = 1 /\ offset[p] = 0
    /\ pc # "construct" => win[p] = [h \in 1 .. 2 * WindowSize(p) |-> win[p][h]]
    /\ pc = "collect" => next[p] = NVar + 1
    /\ pc \in {"post", "collect"} =>
         /\ offset[p] = Start(p)[next[p] - 1]
         /\ \A v \in 1 .. next[p] - 1 : HasValidTimeLevel(v) =>
              \A h \in 1 .. Halves(v, p) :
                 win[p][2 * Start(p)[v - 1] + h] = PostedHalf(p, v, h)

(* The restart PE is at a level of a variable, with the same offsets.      *)
ReadInv ==
    /\ iv \in 1 .. NVar + 1
    /\ lev \in Nat \ {0}
    /\ lev # 1 => /\ iv \in 1 .. NVar /\ HasValidTimeLevel(iv)
                  /\ lev <= varData[iv].nlevs
                  /\ varData[iv].kind = "narrow" => lev % 2 = 1
    /\ \A p \in PE :
         /\ ioff[p] \in Nat
         /\ lev = 1 => ioff[p] = Start(p)[iv - 1]
         /\ lev # 1 => 2 * ioff[p]
                         = 2 * Start(p)[iv - 1]
                             + PerElement(varData[iv].kind)
                               * ((lev - 1) * NOwn(varData[iv].hgrid, p))

FileShape ==
    /\ file = [v \in 1 .. NVar |-> file[v]]
    /\ \A v \in 1 .. NVar :
         /\ file[v] = [k \in 1 .. varData[v].nlevs |-> file[v][k]]
         /\ \A k \in 1 .. varData[v].nlevs :
              file[v][k] = [j \in 1 .. NPoints[varData[v].hgrid] |-> file[v][k][j]]

LevelExact(v, k) ==
    \A i \in Points(varData[v].hgrid) :
        file[v][k][Rank(varData[v].hgrid, i)] = Value(v, k, i)

ReadSoFar ==
    \A v \in 1 .. NVar : HasValidTimeLevel(v) =>
        \A k \in 1 .. varData[v].nlevs :
            v < iv \/ (v = iv /\ k < lev) => LevelExact(v, k)

PerPE ==
    /\ win = [p \in PE |-> win[p]] /\ next = [p \in PE |-> next[p]]
    /\ offset = [p \in PE |-> offset[p]]

GatherInv ==
    /\ GridInv /\ SetupInv /\ PerPE
    /\ \A p \in PE : PostInv(p)
    /\ pc = "construct" => nnow = 1 /\ restart = 0
    /\ pc = "collect" => ReadInv /\ FileShape /\ ReadSoFar
    /\ pc = "written" => \A v \in 1 .. NVar : HasValidTimeLevel(v) =>
                            \A k \in 1 .. varData[v].nlevs : LevelExact(v, k)

LEMMA VarFacts ==
    ASSUME SetupInv
    PROVE  /\ NVar \in Nat /\ DOMAIN varData = 1 .. NVar
           /\ \A v \in 1 .. NVar : /\ varData[v].hgrid \in Grid /\ varData[v].kind \in Kind
                                   /\ varData[v].nlevs \in Nat \ {0}
                                   /\ PerElement(varData[v].kind) \in {1, 2}
  <1>1. varData \in Seq([hgrid: Grid, kind: Kind, nlevs: Nat \ {0}, tlev: {-1, 1, 2}])
    BY DEF SetupInv
  <1>2. NVar \in Nat /\ DOMAIN varData = 1 .. NVar
    BY <1>1 DEF NVar
  <1>3. \A v \in 1 .. NVar : varData[v] \in [hgrid: Grid, kind: Kind, nlevs: Nat \ {0}, tlev: {-1, 1, 2}]
    <2> DEFINE T == [hgrid: Grid, kind: Kind, nlevs: Nat \ {0}, tlev: {-1, 1, 2}]
    <2>1. varData \in Seq(T)
      BY <1>1
    <2> HIDE DEF T
    <2>2. \A v \in 1 .. Len(varData) : varData[v] \in T
      BY <2>1
    <2> QED BY <2>2 DEF T, NVar
  <1> QED BY <1>2, <1>3 DEF PerElement

LEMMA OwnFacts ==
    ASSUME GridInv, SetupInv, pc # "construct"
    PROVE  \A g \in Grid : /\ Tells(g, ri[g])
                           /\ \A p \in PE : NOwn(g, p) = NMine(g, p) /\ NOwn(g, p) \in Nat
  <1>1. \A g \in Grid : Tells(g, ri[g])
    BY DEF SetupInv, Ready, GridInv
  <1>2. \A g \in Grid : \A p \in PE : ri[g].pe_own[p] = NMine(g, p)
    BY <1>1 DEF Tells
  <1> QED BY <1>1, <1>2, PacksItsPoints DEF NOwn

LEMMA SumsCompare ==
    ASSUME NEW n \in Nat, NEW a, Counts(a, n), NEW b, Counts(b, n), \A k \in 0 .. n - 1 : a[k] <= b[k],
           NEW f, Sums(f, a, n), NEW h, Sums(h, b, n), NEW j \in 0 .. n
    PROVE  f[j] <= h[j]
  <1> DEFINE bad == {k \in 0 .. n : ~(f[k] <= h[k])}
  <1>0. \A k \in 0 .. n : f[k] \in Nat /\ h[k] \in Nat
    BY SumsNat
  <1>1. ASSUME bad # {} PROVE FALSE
    <2>1. bad \subseteq Nat
      OBVIOUS
    <2> HIDE DEF bad
    <2>2. PICK m \in bad : \A x \in bad : m <= x
      BY <1>1, <2>1, LeastNat
    <2>3. m \in 0 .. n /\ ~(f[m] <= h[m])
      BY DEF bad
    <2>4. m # 0
      BY <2>3 DEF Sums
    <2>5. m - 1 \in 0 .. n - 1 /\ m - 1 \in 0 .. n /\ ~(m <= m - 1) /\ (m - 1) + 1 = m
      BY <2>3, <2>4
    <2>6. f[m - 1] <= h[m - 1]
      BY <2>2, <2>5 DEF bad
    <2>7. f[m] = f[m - 1] + a[m - 1] /\ h[m] = h[m - 1] + b[m - 1]
      BY <2>5 DEF Sums
    <2>8. a[m - 1] \in Nat /\ b[m - 1] \in Nat /\ a[m - 1] <= b[m - 1] /\ f[m - 1] \in Nat /\ h[m - 1] \in Nat
      BY <2>5, <1>0 DEF Counts
    <2> QED BY <2>3, <2>6, <2>7, <2>8
  <1> QED BY <1>1

LEMMA ElementFacts ==
    ASSUME GridInv, SetupInv, pc # "construct", NEW p \in PE, NEW v \in 1 .. NVar
    PROVE  /\ NElements(v, p) \in Nat /\ Halves(v, p) \in Nat /\ Posted(v, p) \in Nat
           /\ Posted(v, p) <= NElements(v, p)
           /\ HasValidTimeLevel(v) => Halves(v, p) <= 2 * Posted(v, p)
  <1> DEFINE n == NElements(v, p)
             kind == varData[v].kind
  <1>1. n \in Nat
    <2>1. varData[v].hgrid \in Grid /\ varData[v].nlevs \in Nat
      BY VarFacts
    <2>2. NOwn(varData[v].hgrid, p) \in Nat
      BY <2>1, OwnFacts
    <2> QED BY <2>1, <2>2 DEF NElements
  <1>2. Halves(v, p) = (IF kind = "dp" THEN 2 ELSE 1) * n
    BY DEF Halves, PerElement
  <1>3. Posted(v, p) = IF HasValidTimeLevel(v) THEN (IF kind = "dp" THEN n ELSE (n + 1) \div 2) ELSE 0
    BY DEF Posted, PostedWords
  <1> HIDE DEF n, kind
  <1>4. Halves(v, p) \in Nat /\ Posted(v, p) \in Nat /\ Posted(v, p) <= n
        /\ (HasValidTimeLevel(v) => Halves(v, p) <= 2 * Posted(v, p))
    BY <1>1, <1>2, <1>3
  <1> QED BY <1>1, <1>4 DEF n

(* The parts of the window follow each other and fit into it.              *)
LEMMA Layout ==
    ASSUME GridInv, SetupInv, pc # "construct", NEW p \in PE
    PROVE  /\ WindowSize(p) \in Nat
           /\ Start(p)[0] = 0
           /\ \A v \in 0 .. NVar : Start(p)[v] \in Nat /\ Start(p)[v] <= WindowSize(p)
           /\ \A v \in 1 .. NVar : Start(p)[v] = Start(p)[v - 1] + Posted(v, p)
           /\ \A u, v \in 0 .. NVar : u <= v => Start(p)[u] <= Start(p)[v]
  <1> DEFINE a == [v \in 0 .. NVar - 1 |-> Posted(v + 1, p)]
             b == [v \in 0 .. NVar - 1 |-> NElements(v + 1, p)]
             s == RunningSum(a, NVar)
             t == RunningSum(b, NVar)
  <1>0. NVar \in Nat /\ \A v \in 0 .. NVar - 1 : v + 1 \in 1 .. NVar
    BY VarFacts
  <1>1. Start(p) = s
    BY DEF Start
  <1>2. WindowSize(p) = t[NVar]
    BY DEF WindowSize, NVar
  <1>3. Counts(a, NVar) /\ Counts(b, NVar) /\ \A k \in 0 .. NVar - 1 : a[k] <= b[k]
    BY <1>0, ElementFacts DEF Counts
  <1>4. \A v \in 0 .. NVar - 1 : a[v] = Posted(v + 1, p)
    OBVIOUS
  <1> HIDE DEF a, b
  <1>5. Sums(s, a, NVar) /\ Sums(t, b, NVar)
    BY <1>0, <1>3, RunningSums
  <1> HIDE DEF s, t
  <1>6. \A v \in 0 .. NVar : s[v] \in Nat /\ t[v] \in Nat /\ s[v] <= t[v]
    BY <1>0, <1>3, <1>5, SumsNat, SumsCompare
  <1>7. \A u, v \in 0 .. NVar : u <= v => s[u] <= s[v] /\ t[u] <= t[v]
    BY <1>0, <1>3, <1>5, SumsGrow
  <1>8. \A v \in 0 .. NVar : s[v] <= t[NVar] /\ t[NVar] \in Nat
    <2> TAKE v \in 0 .. NVar
    <2>1. NVar \in 0 .. NVar /\ v <= NVar
      BY <1>0
    <2>2. s[v] <= t[v] /\ t[v] <= t[NVar] /\ s[v] \in Nat /\ t[v] \in Nat /\ t[NVar] \in Nat
      BY <2>1, <1>6, <1>7
    <2> QED BY <2>2
  <1>9. \A v \in 1 .. NVar : s[v] = s[v - 1] + Posted(v, p)
    <2> TAKE v \in 1 .. NVar
    <2>1. v - 1 \in 0 .. NVar - 1 /\ (v - 1) + 1 = v
      BY <1>0
    <2>2. s[(v - 1) + 1] = s[v - 1] + a[v - 1]
      BY <2>1, <1>5 DEF Sums
    <2> QED BY <2>1, <2>2, <1>4
  <1>10. s[0] = 0 /\ 0 \in 0 .. NVar
    BY <1>0, <1>5 DEF Sums
  <1> QED BY <1>0, <1>1, <1>2, <1>6, <1>7, <1>8, <1>9, <1>10

(* ------------------------------ the chunks ----------------------------- *)

LEMMA ChunkFacts ==
    ASSUME SetupInv, NEW v \in 1 .. NVar
    PROVE  /\ Chunk \in Nat \ {0}
           /\ varData[v].kind = "narrow" => Chunk >= varData[v].nlevs \/ Chunk % 2 = 0
  <1> DEFINE L == {varData[u].nlevs : u \in DOMAIN varData}
  <1>0. NVar \in Nat /\ DOMAIN varData = 1 .. NVar /\ \A u \in 1 .. NVar : varData[u].nlevs \in Nat \ {0}
    BY VarFacts
  <1>1. L \in SUBSET (Nat \ {0}) /\ varData[v].nlevs \in L
    BY <1>0
  <1>2. IsFiniteSet(L)
    <2>1. IsFiniteSet(1 .. NVar)
      BY <1>0, FS_Interval
    <2> DEFINE f == [u \in 1 .. NVar |-> varData[u].nlevs]
    <2>2. f \in [1 .. NVar -> L] /\ \A x \in L : \E u \in 1 .. NVar : f[u] = x
      BY <1>0
    <2> HIDE DEF f, L
    <2>3. f \in Surjection(1 .. NVar, L)
      BY <2>2 DEF Surjection
    <2> QED BY <2>1, <2>3, FS_Surjection
  <1> HIDE DEF L
  <1>3. \E m \in L : \A x \in L : m >= x
    <2> DEFINE m == Ascending(L)[Cardinality(L)]
    <2>1. Cardinality(L) \in Nat /\ Cardinality(L) # 0
      BY <1>1, <1>2, FS_CardinalityType, FS_EmptySet
    <2>2. Cardinality(L) \in 1 .. Cardinality(L) /\ L \in SUBSET Nat
      BY <2>1, <1>1
    <2>3. m \in L /\ Cardinality(Below(L, m)) = Cardinality(L) - 1
          /\ \A x \in L : Cardinality(Below(L, x)) + 1 \in 1 .. Cardinality(L)
      BY <2>2, <1>2, AscendingPlaces
    <2> HIDE DEF m
    <2>4. ASSUME NEW x \in L, m < x PROVE FALSE
      <3>1. Cardinality(Below(L, m)) < Cardinality(Below(L, x))
        BY <2>2, <2>3, <2>4, <1>2, BelowAnother
      <3>2. Cardinality(Below(L, x)) \in Nat
        BY <1>2, BelowCount
      <3> QED BY <3>1, <3>2, <2>1, <2>3
    <2> QED BY <2>3, <2>4, <1>1
  <1>4. MaxLevs \in L /\ \A x \in L : MaxLevs >= x
    <2>1. MaxLevs = CHOOSE m \in L : \A x \in L : m >= x
      BY DEF MaxLevs, Max, L
    <2> QED BY <2>1, <1>3
  <1>5. MaxLevs \in Nat \ {0} /\ MaxLevs >= varData[v].nlevs /\ chunkSize \in Int
    BY <1>1, <1>4 DEF SetupInv
  <1>6. chunkSize > 0 => Min({chunkSize, MaxLevs}) = IF chunkSize <= MaxLevs THEN chunkSize ELSE MaxLevs
    <2> DEFINE two == {chunkSize, MaxLevs}
               best == IF chunkSize <= MaxLevs THEN chunkSize ELSE MaxLevs
    <2>1. best \in two /\ \A y \in two : best <= y
      BY <1>5
    <2>2. Min(two) = CHOOSE x \in two : \A y \in two : x <= y
      BY DEF Min
    <2>3. \A x \in two : x \in Int
      BY <1>5
    <2> HIDE DEF two, best
    <2>4. Min(two) \in two /\ \A y \in two : Min(two) <= y
      BY <2>1, <2>2
    <2>5. Min(two) = best
      BY <2>1, <2>3, <2>4
    <2> QED BY <2>5 DEF two, best
  <1>7. varData[v].kind = "narrow" => chunkSize <= 0 \/ chunkSize >= varData[v].nlevs \/ chunkSize % 2 = 0
    BY <1>0 DEF SetupInv, Aligned
  <1>8. Chunk = IF chunkSize > 0 THEN Min({chunkSize, MaxLevs}) ELSE MaxLevs
    BY DEF Chunk
  <1>9. CASE chunkSize > 0
    BY <1>5, <1>6, <1>7, <1>8, <1>9, <1>0
  <1>10. CASE ~(chunkSize > 0)
    BY <1>5, <1>8, <1>10
  <1> QED BY <1>9, <1>10

(* ------------------------- what a step leaves -------------------------- *)

SameLayout == UNCHANGED <<owner, local, ri, varData, chunkSize, nnow>>

LEMMA LayoutStays ==
    ASSUME SameLayout
    PROVE  /\ NVar' = NVar /\ Chunk' = Chunk
           /\ \A p : /\ Start(p)' = Start(p) /\ WindowSize(p)' = WindowSize(p)
                     /\ \A v : /\ Halves(v, p)' = Halves(v, p) /\ NElements(v, p)' = NElements(v, p)
                               /\ Posted(v, p)' = Posted(v, p)
           /\ \A v : HasValidTimeLevel(v)' = HasValidTimeLevel(v)
           /\ \A g, p : NOwn(g, p)' = NOwn(g, p)
           /\ \A g, i : Rank(g, i)' = Rank(g, i)
  <1>0. owner' = owner /\ ri' = ri /\ varData' = varData /\ nnow' = nnow /\ chunkSize' = chunkSize
    BY DEF SameLayout
  <1>1. NVar' = NVar
    BY <1>0 DEF NVar
  <1>2. \A g, p : NOwn(g, p)' = NOwn(g, p)
    BY <1>0 DEF NOwn
  <1>3. \A v : HasValidTimeLevel(v)' = HasValidTimeLevel(v)
    BY <1>0 DEF HasValidTimeLevel
  <1>4. \A v, p : NElements(v, p)' = NElements(v, p)
    BY <1>0, <1>2 DEF NElements
  <1>5. \A v, p : Halves(v, p)' = Halves(v, p) /\ Posted(v, p)' = Posted(v, p)
    BY <1>0, <1>3, <1>4 DEF Halves, Posted
  <1>6. \A p : Start(p)' = Start(p)
    <2> TAKE p
    <2>1. [v \in 0 .. NVar' - 1 |-> Posted(v + 1, p)'] = [v \in 0 .. NVar - 1 |-> Posted(v + 1, p)]
      BY <1>1, <1>5
    <2> QED BY <2>1, <1>1 DEF Start
  <1>7. \A p : WindowSize(p)' = WindowSize(p)
    <2> TAKE p
    <2>0. Len(varData') = NVar /\ Len(varData) = NVar
      BY <1>0 DEF NVar
    <2>1. [v \in 0 .. NVar - 1 |-> NElements(v + 1, p)'] = [v \in 0 .. NVar - 1 |-> NElements(v + 1, p)]
      BY <1>4
    <2>2. WindowSize(p) = RunningSum([v \in 0 .. NVar - 1 |-> NElements(v + 1, p)], NVar)[NVar]
      BY <2>0, Zenon DEF WindowSize
    <2>3. WindowSize(p)' = RunningSum([v \in 0 .. NVar - 1 |-> NElements(v + 1, p)'], NVar)[NVar]
      BY <2>0, Zenon DEF WindowSize
    <2> QED BY <2>1, <2>2, <2>3
  <1>8. \A g, i : Rank(g, i)' = Rank(g, i)
    <2> TAKE g, i
    <2>1. {j \in 1 .. i : owner'[g][j] \in PE} = {j \in 1 .. i : owner[g][j] \in PE}
      BY <1>0
    <2> QED BY <2>1 DEF Rank
  <1>9. Chunk' = Chunk
    <2>1. MaxLevs' = MaxLevs
      BY <1>0 DEF MaxLevs
    <2> QED BY <2>1, <1>0 DEF Chunk
  <1> QED BY <1>1, <1>2, <1>3, <1>4, <1>5, <1>6, <1>7, <1>8, <1>9

LEMMA HalfStays ==
    ASSUME SameLayout, restart' = restart
    PROVE  /\ \A p, v, h : PostedHalf(p, v, h)' = PostedHalf(p, v, h)
           /\ \A v, k, i : Value(v, k, i)' = Value(v, k, i)
  <1>0. local' = local /\ ri' = ri /\ varData' = varData /\ restart' = restart
    BY DEF SameLayout
  <1>1. \A v, k, i : Value(v, k, i)' = Value(v, k, i)
    BY <1>0 DEF Value
  <1>2. \A p, v, h : PostedHalf(p, v, h)' = PostedHalf(p, v, h)
    BY <1>0 DEF PostedHalf, Value, NOwn
  <1> QED BY <1>1, <1>2

LEMMA SetupStays ==
    ASSUME SetupInv, SameLayout, pc' \in {"construct", "post", "collect", "written"},
           pc' # "construct" => pc # "construct" \/ Ready
    PROVE  SetupInv'
  <1>1. varData' = varData /\ chunkSize' = chunkSize /\ owner' = owner /\ ri' = ri
    BY DEF SameLayout
  <1>2. Aligned([vars |-> varData', chunk |-> chunkSize'])
    BY <1>1 DEF SetupInv
  <1>3. pc' # "construct" => Ready'
    BY <1>1 DEF SetupInv, Ready
  <1> QED BY <1>1, <1>2, <1>3 DEF SetupInv

(* What is posted stays posted while the window stays.                     *)
LEMMA PostStays ==
    ASSUME SameLayout, restart' = restart, NEW p \in PE, PostInv(p),
           win'[p] = win[p], next'[p] = next[p], offset'[p] = offset[p],
           pc' = "construct" <=> pc = "construct", pc' = "collect" => next[p] = NVar + 1,
           pc' \in {"post", "collect"} => pc \in {"post", "collect"}
    PROVE  PostInv(p)'
  <1>1. /\ NVar' = NVar /\ Start(p)' = Start(p) /\ WindowSize(p)' = WindowSize(p)
        /\ \A v : Halves(v, p)' = Halves(v, p) /\ HasValidTimeLevel(v)' = HasValidTimeLevel(v)
    BY LayoutStays
  <1>2. \A v, h : PostedHalf(p, v, h)' = PostedHalf(p, v, h)
    BY HalfStays
  <1>4. pc' \in {"post", "collect"} =>
         /\ offset'[p] = Start(p)'[next'[p] - 1]
         /\ \A v \in 1 .. next'[p] - 1 : HasValidTimeLevel(v)' =>
              \A h \in 1 .. Halves(v, p)' :
                 win'[p][2 * Start(p)'[v - 1] + h] = PostedHalf(p, v, h)'
    BY <1>1, <1>2 DEF PostInv
  <1> QED BY <1>1, <1>4 DEF PostInv

(* ------------------------------- posting ------------------------------- *)

LEMMA GatherInits ==
    ASSUME GatherInit, \A s \in Setups : Aligned(s)
    PROVE  GatherInv
  <1>1. GridInv
    BY GridInit DEF GatherInit
  <1>2. SetupInv
    <2>1. PICK s \in Setups : varData = s.vars /\ chunkSize = s.chunk
      BY DEF GatherInit
    <2>2. s.vars \in Seq([hgrid: Grid, kind: Kind, nlevs: Nat \ {0}, tlev: {-1, 1, 2}]) /\ s.chunk \in Int
      BY GatherAssumption
    <2>3. Aligned([vars |-> varData, chunk |-> chunkSize])
      BY <2>1 DEF Aligned
    <2>4. pc = "construct" /\ (varData # <<>> => \A g \in Grid : ToSet(owner[g]) \subseteq PE)
      BY DEF GatherInit
    <2> QED BY <2>1, <2>2, <2>3, <2>4 DEF SetupInv
  <1>3. ASSUME NEW p \in PE PROVE PostInv(p)
    <2>1. next[p] = 1 /\ offset[p] = 0 /\ pc = "construct"
      BY DEF GatherInit
    <2>2. NVar \in Nat
      BY <1>2, VarFacts
    <2> QED BY <2>1, <2>2 DEF PostInv
  <1>4. pc = "construct" /\ nnow = 1 /\ restart = 0
    BY DEF GatherInit
  <1>5. PerPE
    BY DEF GatherInit, PerPE
  <1> QED BY <1>1, <1>2, <1>3, <1>4, <1>5 DEF GatherInv

(* A part of a function on 1 .. n is overwritten.                          *)
LEMMA Overwrite ==
    ASSUME NEW n \in Nat, NEW w, w = [h \in 1 .. n |-> w[h]], NEW a \in Nat, NEW c \in Nat, a + c <= n,
           NEW f, NEW u, u = [h \in 1 .. n |-> IF h \in a + 1 .. a + c THEN f[h - a] ELSE w[h]]
    PROVE  /\ u = [h \in 1 .. n |-> u[h]]
           /\ \A h \in 1 .. c : u[a + h] = f[h]
           /\ \A h \in 1 .. a : u[h] = w[h]
  <1>3. u = [h \in 1 .. n |-> u[h]]
    OBVIOUS
  <1>4. ASSUME NEW h \in 1 .. c PROVE u[a + h] = f[h]
    <2>1. a + h \in 1 .. n /\ a + h \in a + 1 .. a + c /\ (a + h) - a = h
      OBVIOUS
    <2> QED BY <2>1
  <1>5. ASSUME NEW h \in 1 .. a PROVE u[h] = w[h]
    <2>1. h \in 1 .. n /\ ~(h \in a + 1 .. a + c)
      OBVIOUS
    <2> QED BY <2>1
  <1> QED BY <1>3, <1>4, <1>5

LEMMA PostVarPosts ==
    ASSUME GridInv, SetupInv, PerPE, NEW p \in PE, PostInv(p), PostVar(p)
    PROVE  PostInv(p)'
  <1> DEFINE v == next[p]
             a == 2 * offset[p]
             c == Halves(v, p)
  <1>1. /\ pc = "post" /\ pc' = "post" /\ v \in 1 .. NVar /\ HasValidTimeLevel(v)
        /\ SameLayout /\ restart' = restart
    BY DEF PostVar, PostInv, SameLayout, NVar
  <1>2. /\ NVar' = NVar /\ Start(p)' = Start(p) /\ WindowSize(p)' = WindowSize(p)
        /\ \A x : Halves(x, p)' = Halves(x, p) /\ HasValidTimeLevel(x)' = HasValidTimeLevel(x)
        /\ \A x, h : PostedHalf(p, x, h)' = PostedHalf(p, x, h)
    BY <1>1, LayoutStays, HalfStays
  <1>3. /\ win[p] = [h \in 1 .. 2 * WindowSize(p) |-> win[p][h]] /\ offset[p] = Start(p)[v - 1]
        /\ \A u \in 1 .. v - 1 : HasValidTimeLevel(u) =>
              \A h \in 1 .. Halves(u, p) : win[p][2 * Start(p)[u - 1] + h] = PostedHalf(p, u, h)
    BY <1>1 DEF PostInv
  <1>4. /\ WindowSize(p) \in Nat /\ NVar \in Nat
        /\ \A u \in 0 .. NVar : Start(p)[u] \in Nat /\ Start(p)[u] <= WindowSize(p)
        /\ \A u \in 1 .. NVar : Start(p)[u] = Start(p)[u - 1] + Posted(u, p)
        /\ \A u, x \in 0 .. NVar : u <= x => Start(p)[u] <= Start(p)[x]
    BY <1>1, Layout, VarFacts
  <1>5. \A u \in 1 .. NVar : /\ Halves(u, p) \in Nat /\ Posted(u, p) \in Nat
                             /\ HasValidTimeLevel(u) => Halves(u, p) <= 2 * Posted(u, p)
    BY <1>1, ElementFacts
  <1>6. \A u \in 1 .. NVar : u - 1 \in 0 .. NVar /\ u \in 0 .. NVar /\ u \in Int
    BY <1>4
  <1>7. a \in Nat /\ c \in Nat /\ a + c <= 2 * WindowSize(p) /\ 2 * WindowSize(p) \in Nat
    <2> DEFINE s == Start(p)[v - 1]
               e == Start(p)[v]
               q == Posted(v, p)
    <2>1. s \in Nat /\ e \in Nat /\ e = s + q /\ q \in Nat /\ c \in Nat /\ c <= 2 * q /\ e <= WindowSize(p) /\ a = 2 * s
      BY <1>1, <1>3, <1>4, <1>5, <1>6
    <2> HIDE DEF s, e, q, c, a
    <2> QED BY <2>1, <1>4
  <1> DEFINE f == [h \in 1 .. c |-> PostedHalf(p, v, h)]
  <1>8. win'[p] = [h \in 1 .. 2 * WindowSize(p) |-> IF h \in a + 1 .. a + c THEN f[h - a] ELSE win[p][h]]
    <2> DEFINE u == [h \in DOMAIN win[p] |-> IF h \in a + 1 .. a + c THEN PostedHalf(p, v, h - a) ELSE win[p][h]]
    <2>1. win' = [win EXCEPT ![p] = u]
      BY Zenon DEF PostVar, Halves
    <2>2. win'[p] = u
      <3> HIDE DEF u
      <3> QED BY <2>1 DEF PerPE
    <2>3. DOMAIN win[p] = 1 .. 2 * WindowSize(p)
      BY <1>3
    <2>4. \A h \in a + 1 .. a + c : f[h - a] = PostedHalf(p, v, h - a)
      <3> HIDE DEF a, c
      <3>1. \A h \in a + 1 .. a + c : h - a \in 1 .. c
        BY <1>7
      <3> QED BY <3>1
    <2> HIDE DEF f, a, c
    <2>5. u = [h \in 1 .. 2 * WindowSize(p) |-> IF h \in a + 1 .. a + c THEN f[h - a] ELSE win[p][h]]
      BY <2>3, <2>4
    <2> QED BY <2>2, <2>5
  <1>9. offset'[p] = offset[p] + Posted(v, p) /\ next'[p] = v + 1
    BY <1>1 DEF PostVar, Posted, PerPE
  <1>10. /\ win'[p] = [h \in 1 .. 2 * WindowSize(p) |-> win'[p][h]]
         /\ \A h \in 1 .. c : win'[p][a + h] = PostedHalf(p, v, h)
         /\ \A h \in 1 .. a : win'[p][h] = win[p][h]
    <2>1. \A h \in 1 .. c : f[h] = PostedHalf(p, v, h)
      OBVIOUS
    <2>2. PICK u : u = win'[p]
      OBVIOUS
    <2>3. PICK w : w = win[p]
      OBVIOUS
    <2> HIDE DEF f, a, c
    <2>4. /\ w = [h \in 1 .. 2 * WindowSize(p) |-> w[h]]
          /\ u = [h \in 1 .. 2 * WindowSize(p) |-> IF h \in a + 1 .. a + c THEN f[h - a] ELSE w[h]]
      BY <2>2, <2>3, <1>3, <1>8
    <2>5. /\ u = [h \in 1 .. 2 * WindowSize(p) |-> u[h]]
          /\ \A h \in 1 .. c : u[a + h] = f[h]
          /\ \A h \in 1 .. a : u[h] = w[h]
      BY <2>4, <1>7, Overwrite
    <2> QED BY <2>1, <2>2, <2>3, <2>5
  <1>11. offset'[p] = Start(p)[v] /\ v + 1 \in 1 .. NVar + 1 /\ (v + 1) - 1 = v
    <2>1. Start(p)[v] = offset[p] + Posted(v, p)
      BY <1>1, <1>3, <1>4
    <2> QED BY <2>1, <1>1, <1>4, <1>9
  <1>12. ASSUME NEW u \in 1 .. v, HasValidTimeLevel(u), NEW h \in 1 .. Halves(u, p)
         PROVE  win'[p][2 * Start(p)[u - 1] + h] = PostedHalf(p, u, h)
    <2>1. CASE u = v
      BY <2>1, <1>3, <1>10, <1>12
    <2>2. CASE u # v
      <3>1. u \in 1 .. v - 1 /\ u \in 1 .. NVar /\ u \in 0 .. NVar /\ u - 1 \in 0 .. NVar /\ v - 1 \in 0 .. NVar /\ u <= v - 1
        BY <2>2, <1>1, <1>4
      <3> DEFINE s == Start(p)[u - 1]
                 e == Start(p)[u]
                 q == Posted(u, p)
                 z == Start(p)[v - 1]
                 k == Halves(u, p)
      <3>2. /\ s \in Nat /\ e = s + q /\ q \in Nat /\ k \in Nat /\ k <= 2 * q /\ e <= z /\ z \in Nat
            /\ a = 2 * z /\ h \in 1 .. k
        BY <3>1, <1>3, <1>4, <1>5, <1>12
      <3>3. win[p][2 * s + h] = PostedHalf(p, u, h)
        BY <3>1, <1>3, <1>12
      <3> HIDE DEF s, e, q, z, k, a
      <3>4. 2 * s + h \in 1 .. a
        BY <3>2
      <3>5. win'[p][2 * s + h] = PostedHalf(p, u, h)
        BY <3>3, <3>4, <1>10
      <3> QED BY <3>5 DEF s
    <2> QED BY <2>1, <2>2
  <1> HIDE DEF v
  <1>13. /\ next'[p] \in 1 .. NVar' + 1
         /\ offset'[p] = Start(p)'[next'[p] - 1]
         /\ win'[p] = [h \in 1 .. 2 * WindowSize(p)' |-> win'[p][h]]
    BY <1>2, <1>9, <1>10, <1>11
  <1>14. \A u \in 1 .. next'[p] - 1 : HasValidTimeLevel(u)' =>
              \A h \in 1 .. Halves(u, p)' :
                 win'[p][2 * Start(p)'[u - 1] + h] = PostedHalf(p, u, h)'
    BY <1>2, <1>9, <1>11, <1>12
  <1> QED BY <1>1, <1>13, <1>14 DEF PostInv

LEMMA StartsAtZero ==
    GridInv /\ SetupInv /\ pc # "construct" => \A q \in PE : Start(q)[0] = 0
  BY Layout

LEMMA StepConstruct ==
    ASSUME GatherInv, NEW g \in Grid, ConstructGrid(g)
    PROVE  GatherInv'
  <1>1. GridInv'
    BY GridStep DEF ConstructGrid, GatherInv
  <1>2. /\ pc = "construct" /\ pc' = "construct" /\ varData' = varData /\ chunkSize' = chunkSize
        /\ owner' = owner /\ win' = win /\ next' = next /\ offset' = offset
        /\ nnow' = nnow /\ restart' = restart
    BY DEF ConstructGrid, Construct
  <1>3. SetupInv'
    <2>1. Aligned([vars |-> varData', chunk |-> chunkSize'])
      BY <1>2 DEF GatherInv, SetupInv
    <2> QED BY <1>2, <2>1 DEF GatherInv, SetupInv
  <1>4. ASSUME NEW p \in PE PROVE PostInv(p)'
    <2>1. next[p] \in 1 .. NVar + 1 /\ next[p] = 1 /\ offset[p] = 0
      BY <1>2 DEF GatherInv, PostInv
    <2>2. NVar' = NVar
      BY <1>2 DEF NVar
    <2> QED BY <1>2, <2>1, <2>2 DEF PostInv
  <1> QED BY <1>1, <1>2, <1>3, <1>4 DEF GatherInv, PerPE

LEMMA StepOpen ==
    ASSUME GatherInv, OpenMpiWindow
    PROVE  GatherInv'
  <1>0. GridInv'
    BY GridGathers DEF GatherInv, GatherNext
  <1>1. /\ pc = "construct" /\ pc' = "post" /\ Ready /\ SameLayout /\ next' = next /\ offset' = offset
    BY DEF OpenMpiWindow, SameLayout
  <1>2. SetupInv'
    BY <1>1, SetupStays DEF GatherInv
  <1>3. ASSUME NEW p \in PE PROVE PostInv(p)'
    <2>1. next[p] = 1 /\ offset[p] = 0 /\ next[p] \in 1 .. NVar + 1
      BY <1>1 DEF GatherInv, PostInv
    <2>2. NVar' = NVar /\ WindowSize(p)' = WindowSize(p)
      BY <1>1, LayoutStays
    <2>3. Start(p)'[0] = 0
      <3>1. (GridInv /\ SetupInv /\ pc # "construct" => \A q \in PE : Start(q)[0] = 0)'
        BY StartsAtZero, PTL
      <3> QED BY <3>1, <1>0, <1>1, <1>2
    <2>4. win' = [q \in PE |-> [h \in 1 .. 2 * WindowSize(q) |-> Junk]]
      BY DEF OpenMpiWindow
    <2>5. win'[p] = [h \in 1 .. 2 * WindowSize(p) |-> win'[p][h]]
      <3>1. win'[p] = [h \in 1 .. 2 * WindowSize(p) |-> Junk]
        BY <2>4
      <3> QED BY <3>1
    <2> QED BY <1>1, <2>1, <2>2, <2>3, <2>5 DEF PostInv
  <1>4. PerPE'
    <2>1. win' = [q \in PE |-> [h \in 1 .. 2 * WindowSize(q) |-> Junk]]
      BY DEF OpenMpiWindow
    <2> QED BY <2>1, <1>1 DEF PerPE, GatherInv
  <1> QED BY <1>0, <1>1, <1>2, <1>3, <1>4 DEF GatherInv

LEMMA StepPost ==
    ASSUME GatherInv, NEW p \in PE, PostVar(p)
    PROVE  GatherInv'
  <1>0. GridInv'
    BY GridGathers DEF GatherInv, GatherNext
  <1>1. pc = "post" /\ pc' = "post" /\ SameLayout /\ restart' = restart
    BY DEF PostVar, SameLayout
  <1>2. SetupInv'
    BY <1>1, SetupStays DEF GatherInv
  <1>3. /\ PerPE'
        /\ \A q \in PE : q # p => win'[q] = win[q] /\ next'[q] = next[q] /\ offset'[q] = offset[q]
    <2>1. PICK u : win' = [win EXCEPT ![p] = u]
      <3>1. \E u : win' = [win EXCEPT ![p] = u]
        BY Zenon DEF PostVar
      <3> QED BY <3>1
    <2>2. PICK x, y : offset' = [offset EXCEPT ![p] = x] /\ next' = [next EXCEPT ![p] = y]
      BY DEF PostVar
    <2> QED BY <2>1, <2>2 DEF PerPE, GatherInv
  <1>4. ASSUME NEW q \in PE PROVE PostInv(q)'
    <2>1. CASE q = p
      BY <2>1, PostVarPosts DEF GatherInv
    <2>2. CASE q # p
      BY <2>2, <1>1, <1>3, PostStays DEF GatherInv
    <2> QED BY <2>1, <2>2
  <1> QED BY <1>0, <1>1, <1>2, <1>3, <1>4 DEF GatherInv

LEMMA StepSkip ==
    ASSUME GatherInv, NEW p \in PE, SkipVar(p)
    PROVE  GatherInv'
  <1>0. GridInv'
    BY GridGathers DEF GatherInv, GatherNext
  <1>1. /\ pc = "post" /\ pc' = "post" /\ SameLayout /\ restart' = restart
        /\ win' = win /\ offset' = offset /\ next' = [next EXCEPT ![p] = @ + 1]
        /\ next[p] <= NVar /\ ~HasValidTimeLevel(next[p])
    BY DEF SkipVar, SameLayout, NVar
  <1>2. SetupInv'
    BY <1>1, SetupStays DEF GatherInv
  <1>3. PerPE' /\ next'[p] = next[p] + 1 /\ \A q \in PE : q # p => next'[q] = next[q]
    BY <1>1 DEF PerPE, GatherInv
  <1>4. PostInv(p)'
    <2> DEFINE v == next[p]
    <2>0. v \in 1 .. NVar + 1 /\ NVar \in Nat
      BY VarFacts DEF GatherInv, PostInv
    <2>1. v \in 1 .. NVar /\ NVar \in Nat /\ ~HasValidTimeLevel(v)
      BY <1>1, <2>0
    <2>2. /\ NVar' = NVar /\ Start(p)' = Start(p) /\ WindowSize(p)' = WindowSize(p)
          /\ \A x : Halves(x, p)' = Halves(x, p) /\ HasValidTimeLevel(x)' = HasValidTimeLevel(x)
          /\ \A x, h : PostedHalf(p, x, h)' = PostedHalf(p, x, h)
      BY <1>1, LayoutStays, HalfStays
    <2>3. Start(p)[v] = Start(p)[v - 1]
      <3>1. Posted(v, p) = 0
        BY <2>1 DEF Posted
      <3>2. Start(p)[v] = Start(p)[v - 1] + Posted(v, p) /\ Start(p)[v - 1] \in Nat
        <4>1. v - 1 \in 0 .. NVar
          BY <2>1
        <4> QED BY <4>1, <2>1, <1>1, Layout DEF GatherInv
      <3> QED BY <3>1, <3>2
    <2>4. /\ win[p] = [h \in 1 .. 2 * WindowSize(p) |-> win[p][h]] /\ offset[p] = Start(p)[v - 1]
          /\ \A u \in 1 .. v - 1 : HasValidTimeLevel(u) =>
                \A h \in 1 .. Halves(u, p) : win[p][2 * Start(p)[u - 1] + h] = PostedHalf(p, u, h)
      BY <1>1 DEF GatherInv, PostInv
    <2>5. next'[p] = v + 1
      BY <1>3
    <2> HIDE DEF v
    <2>6. \A u \in 1 .. v : HasValidTimeLevel(u) => u \in 1 .. v - 1
      BY <2>1
    <2>7. v + 1 \in 1 .. NVar + 1 /\ (v + 1) - 1 = v
      BY <2>1
    <2>8. \A u \in 1 .. v : HasValidTimeLevel(u)' =>
              \A h \in 1 .. Halves(u, p)' : win'[p][2 * Start(p)'[u - 1] + h] = PostedHalf(p, u, h)'
      BY <1>1, <2>2, <2>4, <2>6
    <2> QED BY <1>1, <2>2, <2>3, <2>4, <2>5, <2>7, <2>8 DEF PostInv
  <1>5. ASSUME NEW q \in PE, q # p PROVE PostInv(q)'
    BY <1>1, <1>3, <1>5, PostStays DEF GatherInv
  <1> QED BY <1>0, <1>1, <1>2, <1>3, <1>4, <1>5 DEF GatherInv

LEMMA StepBegin ==
    ASSUME GatherInv, BeginWriteData
    PROVE  GatherInv'
  <1>0. GridInv'
    BY GridGathers DEF GatherInv, GatherNext
  <1>1. /\ pc = "post" /\ pc' = "collect" /\ SameLayout /\ restart' = restart
        /\ win' = win /\ next' = next /\ offset' = offset
        /\ iv' = 1 /\ lev' = 1 /\ ioff' = [p \in PE |-> 0]
        /\ \A p \in PE : next[p] > NVar /\ ioff'[p] = 0
    BY DEF BeginWriteData, SameLayout, NVar
  <1>2. SetupInv'
    BY <1>1, SetupStays DEF GatherInv
  <1>3. ASSUME NEW p \in PE PROVE PostInv(p)'
    <2>0. next[p] \in 1 .. NVar + 1 /\ NVar \in Nat
      BY VarFacts DEF GatherInv, PostInv
    <2>1. next[p] = NVar + 1
      BY <1>1, <2>0
    <2> QED BY <1>1, <2>1, PostStays DEF GatherInv
  <1>4. PerPE'
    BY <1>1 DEF PerPE, GatherInv
  <1>5. NVar' = NVar /\ NVar \in Nat /\ DOMAIN varData = 1 .. NVar /\ varData' = varData
    BY <1>1, LayoutStays, VarFacts DEF GatherInv, SameLayout
  <1>6. ReadInv'
    <2>1. ASSUME NEW p \in PE PROVE ioff'[p] = 0 /\ Start(p)'[1 - 1] = 0
      <3>1. Start(p)' = Start(p)
        BY <1>1, LayoutStays
      <3>2. Start(p)[0] = 0
        BY <1>1, StartsAtZero DEF GatherInv
      <3>3. 1 - 1 = 0
        OBVIOUS
      <3> QED BY <3>1, <3>2, <3>3, <1>1
    <2> QED BY <1>1, <1>5, <2>1 DEF ReadInv
  <1>7. FileShape'
    <2> DEFINE row(v) == [j \in 1 .. NPoints[varData[v].hgrid] |-> NoValue]
               column(v) == [k \in 1 .. varData[v].nlevs |-> row(v)]
    <2>1. file' = [v \in 1 .. NVar |-> column(v)]
      BY <1>5, Zenon DEF BeginWriteData
    <2> HIDE DEF column
    <2>2. file' = [v \in 1 .. NVar |-> file'[v]] /\ \A v \in 1 .. NVar : file'[v] = column(v)
      BY <2>1
    <2>3. \A v \in 1 .. NVar :
            /\ column(v) = [k \in 1 .. varData[v].nlevs |-> column(v)[k]]
            /\ \A k \in 1 .. varData[v].nlevs : column(v)[k] = row(v)
      <3> HIDE DEF row
      <3> QED BY DEF column
    <2>4. \A v \in 1 .. NVar : row(v) = [j \in 1 .. NPoints[varData[v].hgrid] |-> row(v)[j]]
      OBVIOUS
    <2> HIDE DEF row
    <2>5. \A v \in 1 .. NVar : /\ file'[v] = [k \in 1 .. varData[v].nlevs |-> file'[v][k]]
                               /\ \A k \in 1 .. varData[v].nlevs : file'[v][k] = row(v)
      BY <2>2, <2>3
    <2>6. file' = [v \in 1 .. NVar |-> file'[v]]
      BY <2>2
    <2> QED BY <1>5, <2>4, <2>5, <2>6 DEF FileShape
  <1>8. ReadSoFar'
    <2>1. \A v \in 1 .. NVar : \A k \in 1 .. varData[v].nlevs : ~(v < 1 \/ (v = 1 /\ k < 1))
      BY VarFacts DEF GatherInv
    <2> QED BY <1>1, <1>5, <2>1 DEF ReadSoFar
  <1> QED BY <1>0, <1>1, <1>2, <1>3, <1>4, <1>6, <1>7, <1>8 DEF GatherInv

LEMMA StepNext ==
    ASSUME GatherInv, NextRestart
    PROVE  GatherInv'
  <1>0. GridInv'
    BY GridGathers DEF GatherInv, GatherNext
  <1>1. /\ pc = "written" /\ pc' = "post" /\ UNCHANGED <<owner, local, ri, varData, chunkSize, win>>
        /\ next' = [p \in PE |-> 1] /\ offset' = [p \in PE |-> 0]
    BY DEF NextRestart
  <1>2. SetupInv'
    <2>1. Aligned([vars |-> varData', chunk |-> chunkSize'])
      BY <1>1 DEF GatherInv, SetupInv
    <2>2. Ready'
      BY <1>1 DEF GatherInv, SetupInv, Ready
    <2> QED BY <1>1, <2>1, <2>2 DEF GatherInv, SetupInv
  <1>3. ASSUME NEW p \in PE PROVE PostInv(p)'
    <2>1. next'[p] = 1 /\ offset'[p] = 0
      BY <1>1
    <2>2. NVar' = NVar /\ NVar \in Nat
      BY <1>1, VarFacts DEF NVar, GatherInv
    <2>3. WindowSize(p)' = WindowSize(p)
      <3>0. Len(varData') = NVar /\ Len(varData) = NVar
        BY <1>1 DEF NVar
      <3>1. \A v : NElements(v, p)' = NElements(v, p)
        BY <1>1 DEF NElements, NOwn
      <3>2. [v \in 0 .. NVar - 1 |-> NElements(v + 1, p)'] = [v \in 0 .. NVar - 1 |-> NElements(v + 1, p)]
        BY <3>1
      <3>3. WindowSize(p) = RunningSum([v \in 0 .. NVar - 1 |-> NElements(v + 1, p)], NVar)[NVar]
        BY <3>0, Zenon DEF WindowSize
      <3>4. WindowSize(p)' = RunningSum([v \in 0 .. NVar - 1 |-> NElements(v + 1, p)'], NVar)[NVar]
        BY <3>0, Zenon DEF WindowSize
      <3> QED BY <3>2, <3>3, <3>4
    <2>4. Start(p)'[0] = 0
      <3>1. (GridInv /\ SetupInv /\ pc # "construct" => \A q \in PE : Start(q)[0] = 0)'
        BY StartsAtZero, PTL
      <3> QED BY <3>1, <1>0, <1>1, <1>2
    <2>5. win[p] = [h \in 1 .. 2 * WindowSize(p) |-> win[p][h]]
      BY <1>1 DEF GatherInv, PostInv
    <2> QED BY <1>1, <2>1, <2>2, <2>3, <2>4, <2>5 DEF PostInv
  <1>4. PerPE'
    BY <1>1 DEF PerPE, GatherInv
  <1> QED BY <1>0, <1>1, <1>2, <1>3, <1>4 DEF GatherInv

(* ------------------------------- fetching ------------------------------ *)

LEMMA StepSkipCollect ==
    ASSUME GatherInv, SkipCollect
    PROVE  GatherInv'
  <1>0. GridInv'
    BY GridGathers DEF GatherInv, GatherNext
  <1>1. /\ pc = "collect" /\ pc' = "collect" /\ SameLayout /\ restart' = restart
        /\ win' = win /\ next' = next /\ offset' = offset /\ ioff' = ioff /\ lev' = lev /\ file' = file
        /\ iv <= NVar /\ ~HasValidTimeLevel(iv) /\ iv' = iv + 1 /\ varData' = varData
    BY DEF SkipCollect, SameLayout, NVar
  <1>2. SetupInv'
    BY <1>1, SetupStays DEF GatherInv
  <1>3. ASSUME NEW p \in PE PROVE PostInv(p)'
    <2>1. next[p] = NVar + 1
      BY <1>1 DEF GatherInv, PostInv
    <2> QED BY <1>1, <2>1, PostStays DEF GatherInv
  <1>4. PerPE'
    BY <1>1 DEF PerPE, GatherInv
  <1>5. /\ NVar' = NVar /\ NVar \in Nat /\ \A v : HasValidTimeLevel(v)' = HasValidTimeLevel(v)
        /\ \A p : Start(p)' = Start(p)
        /\ \A v, k, i : Value(v, k, i)' = Value(v, k, i)
        /\ \A g, i : Rank(g, i)' = Rank(g, i)
    BY <1>1, LayoutStays, HalfStays, VarFacts DEF GatherInv
  <1>6. ReadInv
    BY <1>1 DEF GatherInv
  <1>7. lev = 1 /\ iv \in 1 .. NVar /\ iv + 1 \in 1 .. NVar + 1 /\ (iv + 1) - 1 = iv
    <2>1. lev = 1 /\ iv \in 1 .. NVar + 1
      BY <1>1, <1>6 DEF ReadInv
    <2> QED BY <2>1, <1>1, <1>5
  <1>8. ReadInv'
    <2>1. ASSUME NEW p \in PE PROVE ioff[p] \in Nat /\ ioff[p] = Start(p)[iv]
      <3>1. ioff[p] \in Nat /\ ioff[p] = Start(p)[iv - 1]
        BY <1>6, <1>7 DEF ReadInv
      <3>2. Start(p)[iv] = Start(p)[iv - 1] + Posted(iv, p) /\ Posted(iv, p) = 0
        BY <1>1, <1>7, Layout DEF GatherInv, Posted
      <3> QED BY <3>1, <3>2
    <2> QED BY <1>1, <1>5, <1>7, <2>1 DEF ReadInv
  <1>9. FileShape'
    BY <1>1, <1>5 DEF FileShape, GatherInv
  <1>10. ReadSoFar'
    <2>1. \A v, k : LevelExact(v, k)' = LevelExact(v, k)
      BY <1>1, <1>5 DEF LevelExact
    <2>2. ASSUME NEW v \in 1 .. NVar, HasValidTimeLevel(v), NEW k \in 1 .. varData[v].nlevs,
                 v < iv + 1 \/ (v = iv + 1 /\ k < lev)
          PROVE  LevelExact(v, k)
      <3>1. v # iv
        BY <2>2, <1>1
      <3>2. v < iv
        <4>1. varData[v].nlevs \in Nat
          BY VarFacts DEF GatherInv
        <4>2. ~(k < 1)
          BY <4>1
        <4> QED BY <2>2, <3>1, <4>2, <1>7
      <3> QED BY <3>2, <2>2, <1>1 DEF GatherInv, ReadSoFar
    <2> QED BY <1>1, <1>5, <2>1, <2>2 DEF ReadSoFar
  <1> QED BY <1>0, <1>1, <1>2, <1>3, <1>4, <1>8, <1>9, <1>10 DEF GatherInv

LEMMA StepEnd ==
    ASSUME GatherInv, EndWriteData
    PROVE  GatherInv'
  <1>0. GridInv'
    BY GridGathers DEF GatherInv, GatherNext
  <1>1. /\ pc = "collect" /\ pc' = "written" /\ SameLayout /\ restart' = restart
        /\ win' = win /\ next' = next /\ offset' = offset /\ file' = file /\ iv > NVar /\ varData' = varData
    BY DEF EndWriteData, SameLayout, NVar
  <1>2. SetupInv'
    BY <1>1, SetupStays DEF GatherInv
  <1>3. ASSUME NEW p \in PE PROVE PostInv(p)'
    BY <1>1, PostStays DEF GatherInv
  <1>4. PerPE'
    BY <1>1 DEF PerPE, GatherInv
  <1>5. /\ NVar' = NVar /\ NVar \in Nat /\ \A v : HasValidTimeLevel(v)' = HasValidTimeLevel(v)
        /\ \A v, k, i : Value(v, k, i)' = Value(v, k, i)
        /\ \A g, i : Rank(g, i)' = Rank(g, i)
    BY <1>1, LayoutStays, HalfStays, VarFacts DEF GatherInv
  <1>6. \A v, k : LevelExact(v, k)' = LevelExact(v, k)
    BY <1>1, <1>5 DEF LevelExact
  <1>7. \A v \in 1 .. NVar : v < iv
    <2>1. iv \in 1 .. NVar + 1
      BY <1>1 DEF GatherInv, ReadInv
    <2> QED BY <2>1, <1>1, <1>5
  <1>8. \A v \in 1 .. NVar : HasValidTimeLevel(v) => \A k \in 1 .. varData[v].nlevs : LevelExact(v, k)
    BY <1>1, <1>7 DEF GatherInv, ReadSoFar
  <1> QED BY <1>0, <1>1, <1>2, <1>3, <1>4, <1>5, <1>6, <1>8 DEF GatherInv

LEMMA Distribute ==
    ASSUME NEW a \in Int, NEW b \in Int, NEW n \in Int
    PROVE  (a + b) * n = a * n + b * n /\ (a - b) * n = a * n - b * n
           /\ a * n \in Int /\ b * n \in Int
  OBVIOUS

(* Half b of element x of a variable is half h of those it posts.          *)
HalfOf(v, x, b, h) ==
    /\ x \in Nat /\ PerElement(varData[v].kind) \in {1, 2}
    /\ b \in 0 .. PerElement(varData[v].kind) - 1
    /\ h = PerElement(varData[v].kind) * x + 1 + b

ElementValue(p, v, x) ==
    Value(v, x \div NOwn(varData[v].hgrid, p) + 1,
          local[varData[v].hgrid][p][ri[varData[v].hgrid].own_idx[p][(x % NOwn(varData[v].hgrid, p)) + 1]])

LEMMA HalfAt ==
    ASSUME NEW p, NEW v, NEW x, NEW b, NEW h, HalfOf(v, x, b, h)
    PROVE  PostedHalf(p, v, h) = <<ElementValue(p, v, x), b>>
  <1> DEFINE w == PerElement(varData[v].kind)
             n == NOwn(varData[v].hgrid, p)
  <1>0. w \in {1, 2} /\ b \in 0 .. w - 1 /\ x \in Nat /\ h = w * x + 1 + b
    BY DEF HalfOf
  <1>1. (h - 1) \div w = x /\ (h - 1) % w = b
    <2>1. w \in {1, 2} /\ b \in 0 .. w - 1
      BY <1>0
    <2> HIDE DEF w
    <2>2. CASE w = 1
      <3>1. b = 0 /\ h - 1 = x
        BY <1>0, <2>1, <2>2
      <3> QED BY <1>0, <3>1, <2>2
    <2>3. CASE w = 2
      <3>1. h - 1 = 2 * x + b /\ b \in {0, 1}
        BY <1>0, <2>1, <2>3
      <3> QED BY <1>0, <3>1, <2>3
    <2> QED BY <2>1, <2>2, <2>3
  <1>2. PostedHalf(p, v, h)
          = <<Value(v, ((h - 1) \div w) \div n + 1,
                    local[varData[v].hgrid][p][ri[varData[v].hgrid].own_idx[p][(((h - 1) \div w) % n) + 1]]),
              (h - 1) % w>>
    BY Zenon DEF PostedHalf
  <1> QED BY <1>1, <1>2 DEF ElementValue

Holds(w, a, kind, val) ==
    \A b \in 0 .. PerElement(kind) - 1 : a + b \in DOMAIN w /\ w[a + b] = <<val, b>>

LEMMA ElementIs ==
    ASSUME NEW w, NEW a \in Nat, NEW kind \in Kind, NEW val, Holds(w, a, kind, val)
    PROVE  Element(w, a, kind) = val
  <1> DEFINE m == PerElement(kind) - 1
             halves == [k \in 0 .. m |-> IF a + k \in DOMAIN w THEN w[a + k] ELSE Junk]
  <1>1. Element(w, a, kind) = IF \A k \in DOMAIN halves : halves[k] = <<halves[0][1], k>>
                              THEN halves[0][1] ELSE NoValue
    BY Zenon DEF Element
  <1>2. m \in Nat
    BY DEF PerElement, Kind
  <1> HIDE DEF m
  <1>3. DOMAIN halves = 0 .. m /\ \A k \in 0 .. m : halves[k] = <<val, k>>
    BY DEF m, Holds
  <1> HIDE DEF halves
  <1>4. halves[0] = <<val, 0>> /\ halves[0][1] = val
    BY <1>2, <1>3
  <1> QED BY <1>1, <1>3, <1>4

(* The restart PE takes element e of level k from where PE p posted it.    *)
LEMMA FetchedElement ==
    ASSUME GatherInv, pc = "collect", iv \in 1 .. NVar, HasValidTimeLevel(iv), NEW p \in PE,
           NEW k \in lev .. varData[iv].nlevs, NEW e \in 1 .. NOwn(varData[iv].hgrid, p)
    PROVE  Element(win[p],
                   2 * ioff[p] + PerElement(varData[iv].kind)
                                   * ((k - lev) * NOwn(varData[iv].hgrid, p) + e - 1) + 1,
                   varData[iv].kind)
             = Value(iv, k, local[varData[iv].hgrid][p][ri[varData[iv].hgrid].own_idx[p][e]])
  <1> DEFINE g == varData[iv].hgrid
             kind == varData[iv].kind
             w == PerElement(kind)
             n == NOwn(g, p)
             L == varData[iv].nlevs
             s == Start(p)[iv - 1]
             x == (k - 1) * n + (e - 1)
             a == 2 * ioff[p] + w * ((k - lev) * n + e - 1) + 1
  <1>1. g \in Grid /\ kind \in Kind /\ L \in Nat /\ w \in {1, 2} /\ NVar \in Nat
    BY VarFacts DEF GatherInv
  <1>2. n \in Nat
    BY <1>1, OwnFacts DEF GatherInv
  <1>3. s \in Nat /\ Start(p)[iv] = s + Posted(iv, p) /\ Start(p)[iv] <= WindowSize(p) /\ WindowSize(p) \in Nat
    <2>1. iv - 1 \in 0 .. NVar /\ iv \in 0 .. NVar
      BY <1>1
    <2> QED BY <2>1, Layout DEF GatherInv
  <1>4. /\ lev \in Nat \ {0} /\ ioff[p] \in Nat
        /\ lev = 1 => ioff[p] = s
        /\ lev # 1 => 2 * ioff[p] = 2 * s + w * ((lev - 1) * n)
    BY DEF GatherInv, ReadInv
  <1>5. /\ Posted(iv, p) \in Nat /\ Halves(iv, p) \in Nat /\ Halves(iv, p) <= 2 * Posted(iv, p)
        /\ Halves(iv, p) = w * (L * n)
    BY ElementFacts DEF GatherInv, Halves, NElements
  <1>6. next[p] - 1 = NVar
    <2>1. next[p] = NVar + 1
      BY DEF GatherInv, PostInv
    <2> QED BY <2>1, <1>1
  <1>7. /\ win[p] = [h \in 1 .. 2 * WindowSize(p) |-> win[p][h]]
        /\ \A h \in 1 .. Halves(iv, p) : win[p][2 * s + h] = PostedHalf(p, iv, h)
    BY <1>6 DEF GatherInv, PostInv
  <1>8. k \in lev .. L /\ e \in 1 .. n
    OBVIOUS
  <1> DEFINE halves == Halves(iv, p)
             posted == Posted(iv, p)
             size == WindowSize(p)
             t == ioff[p]
  <1>9. 2 * t = 2 * s + w * ((lev - 1) * n)
    <2>1. lev = 1 => (lev - 1) * n = 0
      BY <1>2
    <2>2. w * 0 = 0
      BY <1>1
    <2>3. CASE lev = 1
      BY <1>3, <1>4, <2>1, <2>2, <2>3
    <2> QED BY <1>4, <2>3
  <1> HIDE DEF g, kind, w, n, L, s, halves, posted, size, t
  <1>10. x \in Nat /\ a = 2 * s + w * x + 1 /\ x \div n = k - 1 /\ x % n = e - 1 /\ x + 1 <= L * n
    <2> DEFINE y == (k - lev) * n
               z == (lev - 1) * n
               q == (k - 1) * n
    <2>1. q = z + y /\ q \in Int /\ z \in Int /\ y \in Int
      <3>1. k \in Int /\ lev \in Int /\ n \in Int
        BY <1>1, <1>2, <1>4, <1>8
      <3>2. (k - 1) = (lev - 1) + (k - lev) /\ lev - 1 \in Int /\ k - lev \in Int
        BY <3>1
      <3> QED BY <3>1, <3>2, Distribute
    <2>2. n \in Nat \ {0} /\ k - 1 \in Nat /\ e - 1 \in 0 .. n - 1
      BY <1>2, <1>4, <1>8
    <2>3. (n * (k - 1) + (e - 1)) \div n = k - 1 /\ (n * (k - 1) + (e - 1)) % n = e - 1
          /\ n * (k - 1) + (e - 1) \in Nat
      BY <2>2, DivIs
    <2>4. n * (k - 1) = q
      BY <2>2
    <2>5. x = n * (k - 1) + (e - 1)
      BY <2>4
    <2>6. x \in Nat /\ x \div n = k - 1 /\ x % n = e - 1
      BY <2>3, <2>5
    <2>7. n * (k - 1) + n <= n * L /\ n * L = L * n
      <3>1. k - 1 < L /\ k - 1 \in Nat
        BY <1>1, <1>4, <1>8
      <3> QED BY <3>1, <1>1, <1>2, TimesGrows
    <2>8. x + 1 <= L * n
      <3>1. L * n \in Int /\ x = q + (e - 1)
        BY <1>1, <1>2
      <3>2. q + n <= L * n
        BY <2>4, <2>7
      <3> HIDE DEF q, x
      <3> QED BY <3>1, <3>2, <2>1, <2>2, <1>2
    <2>9. a = 2 * s + w * x + 1
      <3>1. a = 2 * t + w * (y + e - 1) + 1 /\ 2 * t = 2 * s + w * z /\ x = q + (e - 1)
        BY <1>9 DEF t
      <3> HIDE DEF q, x, y, z, a
      <3>2. w = 1 \/ w = 2
        BY <1>1
      <3>3. t \in Int /\ s \in Int /\ e \in Int
        BY <1>3, <1>4, <1>8, <1>2 DEF t, s
      <3> QED BY <3>1, <3>2, <3>3, <2>1
    <2> QED BY <2>6, <2>8, <2>9
  <1>11. ASSUME NEW b \in 0 .. w - 1
         PROVE  /\ a + b \in DOMAIN win[p]
                /\ win[p][a + b] = <<Value(iv, k, local[g][p][ri[g].own_idx[p][e]]), b>>
    <2> DEFINE h == w * x + 1 + b
    <2>0. x \in Nat
      BY <1>10
    <2> HIDE DEF x, a
    <2>1. PostedHalf(p, iv, h)
            = <<Value(iv, x \div n + 1, local[g][p][ri[g].own_idx[p][(x % n) + 1]]), b>>
      <3>1. HalfOf(iv, x, b, h)
        BY <1>1, <2>0 DEF HalfOf, w, kind
      <3>2. PostedHalf(p, iv, h) = <<ElementValue(p, iv, x), b>>
        BY <3>1, HalfAt
      <3> QED BY <3>2 DEF ElementValue, g, n
    <2>2. x \div n + 1 = k /\ (x % n) + 1 = e
      BY <1>10, <1>8, <1>4, <1>1, <1>2
    <2>3. h \in 1 .. halves /\ a + b = 2 * s + h /\ 2 * s + h \in 1 .. 2 * size
      <3> DEFINE m == L * n
      <3>1. /\ x \in Nat /\ x + 1 <= m /\ halves = w * m /\ w \in {1, 2} /\ s \in Nat /\ posted \in Nat
            /\ halves <= 2 * posted /\ s + posted <= size /\ size \in Nat /\ a = 2 * s + w * x + 1
        BY <1>1, <1>3, <1>5, <1>10 DEF halves, posted, size
      <3>2. m \in Nat
        BY <1>1, <1>2
      <3> HIDE DEF m
      <3>3. CASE w = 1
        BY <3>1, <3>2, <3>3
      <3>4. CASE w = 2
        BY <3>1, <3>2, <3>4
      <3> QED BY <3>1, <3>3, <3>4
    <2> HIDE DEF h
    <2>4. win[p][2 * s + h] = PostedHalf(p, iv, h)
      BY <2>3, <1>7 DEF halves, s
    <2>5. 2 * s + h \in DOMAIN win[p]
      BY <2>3, <1>7 DEF size
    <2> QED BY <2>1, <2>2, <2>3, <2>4, <2>5 DEF h
  <1>12. a \in Nat
    <2> HIDE DEF x, a
    <2>1. w = 1 \/ w = 2
      BY <1>1
    <2> QED BY <2>1, <1>3, <1>10 DEF s
  <1> HIDE DEF x, a
  <1>13. Element(win[p], a, kind) = Value(iv, k, local[g][p][ri[g].own_idx[p][e]])
    <2>1. PICK m : m = win[p]
      OBVIOUS
    <2>2. PICK val : val = Value(iv, k, local[g][p][ri[g].own_idx[p][e]])
      OBVIOUS
    <2>3. \A b \in 0 .. PerElement(kind) - 1 : a + b \in DOMAIN m /\ m[a + b] = <<val, b>>
      BY <1>11, <2>1, <2>2 DEF w
    <2>4. Element(m, a, kind) = val
      <3>1. Holds(m, a, kind, val)
        BY <2>3 DEF Holds
      <3> QED BY <3>1, <1>1, <1>12, ElementIs
    <2> QED BY <2>1, <2>2, <2>4
  <1> QED BY <1>13 DEF a, g, kind, w, n

(* Each place of the global array has a source, and it is the point of     *)
(* that rank.                                                              *)
LEMMA SourceIs ==
    ASSUME GridInv, SetupInv, pc # "construct", NEW g \in Grid, NEW i \in Used(g)
    PROVE  /\ Source(g, Rank(g, i))[1] \in PE
           /\ Source(g, Rank(g, i))[2] \in 1 .. NOwn(g, Source(g, Rank(g, i))[1])
           /\ local[g][Source(g, Rank(g, i))[1]]
                   [ri[g].own_idx[Source(g, Rank(g, i))[1]][Source(g, Rank(g, i))[2]]] = i
  <1> DEFINE j == Rank(g, i)
             R == ri[g]
             All == UNION {{p} \X (1 .. NOwn(g, p)) : p \in PE}
             src == CHOOSE s \in All : R.reorder_index[R.pe_off[s[1]] + s[2]] = j
  <1>1. Source(g, j) = src
    BY Zenon DEF Source
  <1>2. Tells(g, R) /\ Decomposed /\ \A p \in PE : R.pe_own[p] = NOwn(g, p)
    BY OwnFacts DEF GridInv, NOwn
  <1>3. j \in 1 .. Total(g)
    BY RanksFill
  <1> HIDE DEF R, j
  <1>4. PICK p \in PE : \E n \in 1 .. NOwn(g, p) : R.reorder_index[R.pe_off[p] + n] = j
    BY <1>2, <1>3, PlacesAreRanks
  <1>5. PICK n \in 1 .. NOwn(g, p) : R.reorder_index[R.pe_off[p] + n] = j
    BY <1>4
  <1>6. src \in All /\ R.reorder_index[R.pe_off[src[1]] + src[2]] = j
    <2>1. <<p, n>> \in All /\ <<p, n>>[1] = p /\ <<p, n>>[2] = n
      OBVIOUS
    <2> HIDE DEF All
    <2> QED BY <2>1, <1>5
  <1> HIDE DEF src
  <1>7. src[1] \in PE /\ src[2] \in 1 .. NOwn(g, src[1])
    BY <1>6
  <1>8. PICK q, m : q = src[1] /\ m = src[2]
    OBVIOUS
  <1>9. q \in PE /\ m \in 1 .. NOwn(g, q) /\ R.reorder_index[R.pe_off[q] + m] = j
    BY <1>6, <1>7, <1>8
  <1>10. local[g][q][R.own_idx[q][m]] = i
    <2>1. m \in 1 .. R.pe_own[q] /\ NOwn(g, q) = NMine(g, q)
      BY <1>2, <1>9, OwnFacts
    <2>2. GlbIdxOwn(g, q)[m] \in Used(g) /\ R.reorder_index[R.pe_off[q] + m] = Rank(g, local[g][q][R.own_idx[q][m]])
      BY <2>1, <1>2, <1>9, PlacesAreRanks
    <2>3. local[g][q][R.own_idx[q][m]] = GlbIdxOwn(g, q)[m]
      BY <2>1, <1>2, <1>9 DEF Tells
    <2>4. Rank(g, GlbIdxOwn(g, q)[m]) = Rank(g, i)
      BY <2>2, <2>3, <1>9 DEF j
    <2> QED BY <2>2, <2>3, <2>4, RanksFill
  <1>11. Source(g, Rank(g, i)) = src
    BY <1>1 DEF j
  <1> QED BY <1>9, <1>8, <1>10, <1>11 DEF R

LEMMA AllUsed ==
    ASSUME GridInv, SetupInv, NVar # 0, NEW g \in Grid
    PROVE  Used(g) = Points(g)
  <1>1. varData # <<>>
    BY DEF NVar
  <1>2. ToSet(owner[g]) \subseteq PE
    BY <1>1 DEF SetupInv
  <1>3. owner[g] \in [Points(g) -> PE \cup {Unused}]
    BY DEF GridInv, Decomposed
  <1>4. \A i \in Points(g) : owner[g][i] \in PE
    BY <1>2, <1>3 DEF ToSet
  <1> QED BY <1>4 DEF Used

LEMMA LevelsAre ==
    ASSUME SetupInv, ReadInv, iv \in 1 .. NVar
    PROVE  /\ lev \in 1 .. varData[iv].nlevs
           /\ Chunk \in Nat \ {0}
           /\ MoreChunks => Levels = Chunk /\ lev + Chunk <= varData[iv].nlevs
           /\ ~MoreChunks => Levels = varData[iv].nlevs - lev + 1 /\ varData[iv].nlevs < lev + Chunk
  <1> DEFINE L == varData[iv].nlevs
             c == Chunk
             top == lev + c - 1
  <1>1. L \in Nat \ {0} /\ c \in Nat \ {0}
    BY VarFacts, ChunkFacts
  <1>2. lev \in 1 .. L
    BY <1>1 DEF ReadInv
  <1>3. Levels = Min({top, L}) - lev + 1 /\ (MoreChunks <=> lev + c <= L)
    BY DEF Levels, MoreChunks
  <1> HIDE DEF L, c
  <1>4. Min({top, L}) = IF top <= L THEN top ELSE L
    <2> DEFINE two == {top, L}
               best == IF top <= L THEN top ELSE L
    <2>1. best \in two /\ \A y \in two : best <= y
      BY <1>1, <1>2
    <2>2. Min(two) = CHOOSE x \in two : \A y \in two : x <= y
      BY DEF Min
    <2>3. \A x \in two : x \in Int
      BY <1>1, <1>2
    <2> HIDE DEF two, best
    <2>4. Min(two) \in two /\ \A y \in two : Min(two) <= y
      BY <2>1, <2>2
    <2>5. Min(two) = best
      BY <2>1, <2>3, <2>4
    <2> QED BY <2>5 DEF two, best
  <1>5. /\ lev + c <= L => Levels = c
        /\ ~(lev + c <= L) => Levels = L - lev + 1 /\ L < lev + c
    BY <1>1, <1>2, <1>3, <1>4
  <1> QED BY <1>1, <1>2, <1>3, <1>5 DEF L, c

(* Both sides count the same words, provided that a chunk which is not the *)
(* last of its variable takes whole words.                                 *)
LEMMA OffsetsAgree ==
    ASSUME GatherInv, pc = "collect", iv \in 1 .. NVar, HasValidTimeLevel(iv), NEW p \in PE,
           NEW t, t = ioff[p] + FetchedWords(varData[iv].kind, Levels * NOwn(varData[iv].hgrid, p))
    PROVE  /\ t \in Nat
           /\ ~MoreChunks => t = Start(p)[iv]
           /\ MoreChunks => 2 * t = 2 * Start(p)[iv - 1]
                                      + PerElement(varData[iv].kind)
                                        * (((lev + Chunk) - 1) * NOwn(varData[iv].hgrid, p))
           /\ MoreChunks /\ varData[iv].kind = "narrow" => (lev + Chunk) % 2 = 1
  <1> DEFINE g == varData[iv].hgrid
             kind == varData[iv].kind
             w == PerElement(kind)
             n == NOwn(g, p)
             L == varData[iv].nlevs
             s == Start(p)[iv - 1]
             e == Start(p)[iv]
             c == Chunk
             M == Levels
             f == ioff[p]
  <1>1. /\ g \in Grid /\ kind \in Kind /\ L \in Nat \ {0} /\ n \in Nat
        /\ w = IF kind = "dp" THEN 2 ELSE 1
    BY VarFacts, OwnFacts DEF GatherInv, PerElement
  <1>2. s \in Nat /\ e \in Nat /\ e = s + PostedWords(kind, L * n)
    <2>1. iv - 1 \in 0 .. NVar /\ iv \in 0 .. NVar
      BY VarFacts DEF GatherInv
    <2>2. Posted(iv, p) = PostedWords(kind, L * n)
      BY DEF Posted, NElements
    <2> QED BY <2>1, <2>2, Layout DEF GatherInv
  <1>3. /\ lev \in Nat \ {0} /\ f \in Nat /\ (lev = 1 => f = s)
        /\ (lev # 1 => 2 * f = 2 * s + w * ((lev - 1) * n))
        /\ (lev # 1 /\ kind = "narrow" => lev % 2 = 1)
    BY DEF GatherInv, ReadInv
  <1>4. /\ lev \in 1 .. L /\ c \in Nat \ {0}
        /\ MoreChunks => M = c /\ lev + c <= L
        /\ ~MoreChunks => M = L - lev + 1 /\ L < lev + c
    BY LevelsAre DEF GatherInv
  <1>5. kind = "narrow" => c >= L \/ c % 2 = 0
    BY ChunkFacts DEF GatherInv
  <1>6. t = f + FetchedWords(kind, M * n)
    OBVIOUS
  <1>7. 2 * f = 2 * s + w * ((lev - 1) * n)
    <2>1. lev = 1 => (lev - 1) * n = 0
      BY <1>1
    <2>2. w * 0 = 0
      BY <1>1
    <2>3. CASE lev = 1
      BY <1>2, <1>3, <2>1, <2>2, <2>3
    <2> QED BY <1>3, <2>3
  <1>8. kind = "dp" \/ kind = "narrow"
    BY <1>1 DEF Kind
  <1> HIDE DEF g, kind, w, n, L, s, e, c, M, f
  <1>9. CASE kind = "dp"
    <2>1. w = 2 /\ t = f + M * n /\ e = s + L * n
      BY <1>1, <1>2, <1>6, <1>9 DEF FetchedWords, PostedWords
    <2>2. kind # "narrow"
      BY <1>9
    <2>3. M \in Nat
      <3>1. CASE MoreChunks
        BY <3>1, <1>4
      <3>2. CASE ~MoreChunks
        BY <3>2, <1>1, <1>3, <1>4
      <3> QED BY <3>1, <3>2
    <2> DEFINE z == (lev - 1) * n
               y == M * n
    <2>4. z \in Int /\ y \in Nat /\ (lev - 1 + M) * n = z + y
      <3>1. lev - 1 \in Int /\ M \in Int /\ n \in Int
        BY <1>1, <1>3, <2>3
      <3> QED BY <3>1, <2>3, <1>1, Distribute
    <2>5. f = s + z
      BY <2>1, <2>4, <1>2, <1>3, <1>7
    <2>6. CASE MoreChunks
      <3>1. (lev + c) - 1 = lev - 1 + M
        BY <2>6, <1>3, <1>4
      <3>2. ((lev + c) - 1) * n = z + y
        BY <3>1, <2>4
      <3> DEFINE q == ((lev + c) - 1) * n
      <3>3. q = z + y /\ t = f + y
        BY <3>2, <2>1
      <3> HIDE DEF q, z, y
      <3>4. 2 * t = 2 * s + 2 * q /\ t \in Nat
        BY <3>3, <2>4, <2>5, <1>2, <1>3
      <3> QED BY <3>4, <2>1, <2>2, <2>6 DEF q, w, s, n, c, kind, g
    <2>7. CASE ~MoreChunks
      <3>1. lev - 1 + M = L
        BY <2>7, <1>1, <1>3, <1>4
      <3>2. L * n = z + y
        BY <3>1, <2>4
      <3> DEFINE q == L * n
      <3>3. q = z + y /\ t = f + y /\ e = s + q
        BY <3>2, <2>1
      <3> HIDE DEF q, z, y
      <3>4. t = e /\ t \in Nat
        BY <3>3, <2>4, <2>5, <1>2, <1>3
      <3> QED BY <3>4, <2>7 DEF e
    <2> QED BY <2>6, <2>7
  <1>10. CASE kind = "narrow"
    <2>1. w = 1 /\ t = f + (M * n + 1) \div 2 /\ e = s + (L * n + 1) \div 2
      BY <1>1, <1>2, <1>6, <1>10 DEF FetchedWords, PostedWords
    <2>2. PICK d \in Nat : lev - 1 = 2 * d
      <3>1. lev % 2 = 1
        BY <1>3, <1>10
      <3>2. (lev - 1) \div 2 \in Nat /\ lev - 1 = 2 * ((lev - 1) \div 2)
        BY <3>1, <1>3
      <3> QED BY <3>2
    <2>3. M \in Nat
      <3>1. CASE MoreChunks
        BY <3>1, <1>4
      <3>2. CASE ~MoreChunks
        BY <3>2, <1>1, <1>3, <1>4
      <3> QED BY <3>1, <3>2
    <2> DEFINE b == d * n
               y == M * n
    <2>4. b \in Nat /\ y \in Nat /\ (lev - 1) * n = 2 * b
      <3>1. (2 * d) * n = 2 * (d * n)
        BY <1>1
      <3> QED BY <3>1, <2>2, <2>3, <1>1
    <2>5. f = s + b
      <3> DEFINE z == (lev - 1) * n
      <3>1. 2 * f = 2 * s + 1 * z /\ z = 2 * b
        BY <1>7, <2>1, <2>4
      <3> HIDE DEF z, b
      <3> QED BY <3>1, <2>4, <1>2, <1>3
    <2>6. (lev - 1 + M) * n = 2 * b + y
      <3>1. lev - 1 \in Int /\ M \in Int /\ n \in Int
        BY <1>1, <1>3, <2>3
      <3>2. (lev - 1 + M) * n = (lev - 1) * n + M * n
        BY <3>1, Distribute
      <3> QED BY <3>2, <2>4
    <2>7. CASE MoreChunks
      <3>1. M = c /\ c % 2 = 0
        BY <2>7, <1>4, <1>5, <1>10, <1>1, <1>3
      <3>2. PICK k \in Nat : c = 2 * k
        <4>1. c \div 2 \in Nat /\ c = 2 * (c \div 2)
          BY <3>1, <1>4
        <4> QED BY <4>1
      <3> DEFINE x == k * n
      <3>3. x \in Nat /\ y = 2 * x
        <4>1. (2 * k) * n = 2 * (k * n)
          BY <1>1
        <4> QED BY <4>1, <3>1, <3>2, <1>1
      <3>4. (lev + c) - 1 = lev - 1 + M
        BY <3>1, <1>3, <1>4
      <3> DEFINE q == ((lev + c) - 1) * n
      <3>5. q = 2 * b + y /\ t = f + (y + 1) \div 2
        BY <3>4, <2>6, <2>1
      <3> HIDE DEF q, x, y, b
      <3>6. 2 * t = 2 * s + 1 * q /\ t \in Nat
        BY <3>3, <3>5, <2>4, <2>5, <1>2, <1>3
      <3>7. (lev + c) % 2 = 1
        BY <2>2, <3>2, <1>3
      <3> QED BY <3>6, <3>7, <2>1, <2>7 DEF q, w, s, n, c, kind, g
    <2>8. CASE ~MoreChunks
      <3>1. lev - 1 + M = L
        BY <2>8, <1>1, <1>3, <1>4
      <3> DEFINE q == L * n
      <3>2. q = 2 * b + y /\ t = f + (y + 1) \div 2 /\ e = s + (q + 1) \div 2
        BY <3>1, <2>1, <2>6
      <3> HIDE DEF q, y, b
      <3>3. t = e /\ t \in Nat
        BY <3>2, <2>4, <2>5, <1>2, <1>3
      <3> QED BY <3>3, <2>8 DEF e
    <2> QED BY <2>7, <2>8
  <1> QED BY <1>8, <1>9, <1>10

FetchedFrom(k, s) ==
    Element(win[s[1]],
            2 * ioff[s[1]] + PerElement(varData[iv].kind)
                               * ((k - lev) * NOwn(varData[iv].hgrid, s[1]) + s[2] - 1) + 1,
            varData[iv].kind)

(* The rows of the file a chunk fills.                                     *)
FetchedRow(k) == [j \in 1 .. NPoints[varData[iv].hgrid] |-> FetchedFrom(k, Source(varData[iv].hgrid, j))]

LEMMA FetchedIsExact ==
    ASSUME GatherInv, pc = "collect", iv \in 1 .. NVar, HasValidTimeLevel(iv),
           NEW k \in lev .. varData[iv].nlevs, NEW i \in Points(varData[iv].hgrid)
    PROVE  FetchedRow(k)[Rank(varData[iv].hgrid, i)] = Value(iv, k, i)
  <1> DEFINE g == varData[iv].hgrid
             j == Rank(g, i)
  <1>1. g \in Grid /\ NVar # 0 /\ GridInv /\ SetupInv
    BY VarFacts DEF GatherInv
  <1>2. i \in Used(g) /\ Used(g) = Points(g)
    BY <1>1, AllUsed
  <1>3. j \in 1 .. NPoints[g]
    <2>1. Total(g) = NPoints[g]
      BY <1>1, <1>2, PointsFinite DEF Total
    <2> QED BY <1>1, <1>2, <2>1, RanksFill
  <1>4. PICK s : s = Source(g, j)
    OBVIOUS
  <1>5. s[1] \in PE /\ s[2] \in 1 .. NOwn(g, s[1]) /\ local[g][s[1]][ri[g].own_idx[s[1]][s[2]]] = i
    BY <1>1, <1>2, <1>4, SourceIs
  <1>6. FetchedFrom(k, s) = Value(iv, k, i)
    <2>1. PICK p \in PE : p = s[1]
      BY <1>5
    <2>2. PICK e \in 1 .. NOwn(g, p) : e = s[2]
      BY <1>5, <2>1
    <2>3. FetchedFrom(k, s) = Value(iv, k, local[g][p][ri[g].own_idx[p][e]])
      BY <2>1, <2>2, FetchedElement DEF FetchedFrom
    <2> QED BY <2>1, <2>2, <2>3, <1>5
  <1>7. FetchedRow(k)[j] = FetchedFrom(k, s)
    <2> HIDE DEF j
    <2> QED BY <1>3, <1>4 DEF FetchedRow
  <1> QED BY <1>6, <1>7

LEMMA CollectFills ==
    ASSUME GatherInv, CollectChunk
    PROVE  /\ iv \in 1 .. NVar /\ HasValidTimeLevel(iv)
           /\ file' = [v \in 1 .. NVar |-> file'[v]]
           /\ \A v \in 1 .. NVar : v # iv => file'[v] = file[v]
           /\ file'[iv] = [k \in 1 .. varData[iv].nlevs |->
                              IF k \in lev .. lev + Levels - 1 THEN FetchedRow(k) ELSE file[iv][k]]
  <1> DEFINE filled == [k \in DOMAIN file[iv] |->
                           IF k \in lev .. lev + Levels - 1
                           THEN [j \in DOMAIN file[iv][k] |-> FetchedFrom(k, Source(varData[iv].hgrid, j))]
                           ELSE file[iv][k]]
             L == varData[iv].nlevs
  <1>1. pc = "collect" /\ iv <= NVar /\ HasValidTimeLevel(iv) /\ file' = [file EXCEPT ![iv] = filled]
    BY Zenon DEF CollectChunk, NVar, FetchedFrom
  <1>2. iv \in 1 .. NVar
    <2>1. iv \in 1 .. NVar + 1 /\ NVar \in Nat
      BY <1>1, VarFacts DEF GatherInv, ReadInv
    <2> QED BY <2>1, <1>1
  <1>3. /\ file = [v \in 1 .. NVar |-> file[v]]
        /\ file[iv] = [k \in 1 .. L |-> file[iv][k]]
        /\ \A k \in 1 .. L : file[iv][k] = [j \in 1 .. NPoints[varData[iv].hgrid] |-> file[iv][k][j]]
    BY <1>1, <1>2 DEF GatherInv, FileShape
  <1>4. DOMAIN file[iv] = 1 .. L
    BY <1>3
  <1>5. \A k \in 1 .. L : DOMAIN file[iv][k] = 1 .. NPoints[varData[iv].hgrid]
    <2> TAKE k \in 1 .. L
    <2>1. PICK r : r = file[iv][k]
      OBVIOUS
    <2>2. r = [j \in 1 .. NPoints[varData[iv].hgrid] |-> r[j]]
      BY <2>1, <1>3
    <2> QED BY <2>1, <2>2
  <1>6. \A k \in 1 .. L :
          [j \in DOMAIN file[iv][k] |-> FetchedFrom(k, Source(varData[iv].hgrid, j))] = FetchedRow(k)
    BY <1>5 DEF FetchedRow
  <1>7. filled = [k \in 1 .. L |-> IF k \in lev .. lev + Levels - 1 THEN FetchedRow(k) ELSE file[iv][k]]
    BY <1>4, <1>6
  <1> HIDE DEF filled
  <1>8. /\ file' = [v \in 1 .. NVar |-> file'[v]] /\ file'[iv] = filled
        /\ \A v \in 1 .. NVar : v # iv => file'[v] = file[v]
    BY <1>1, <1>2, <1>3
  <1> QED BY <1>1, <1>2, <1>7, <1>8

LEMMA StepCollect ==
    ASSUME GatherInv, CollectChunk
    PROVE  GatherInv'
  <1>0. GridInv'
    BY GridGathers DEF GatherInv, GatherNext
  <1>1. /\ pc = "collect" /\ pc' = "collect" /\ SameLayout /\ restart' = restart
        /\ win' = win /\ next' = next /\ offset' = offset /\ varData' = varData
        /\ MoreChunks => lev' = lev + Chunk /\ iv' = iv
        /\ ~MoreChunks => lev' = 1 /\ iv' = iv + 1
    BY DEF CollectChunk, SameLayout
  <1>2. SetupInv'
    BY <1>1, SetupStays DEF GatherInv
  <1>3. ASSUME NEW p \in PE PROVE PostInv(p)'
    <2>1. next[p] = NVar + 1
      BY <1>1 DEF GatherInv, PostInv
    <2> QED BY <1>1, <2>1, PostStays DEF GatherInv
  <1>4. PerPE'
    BY <1>1 DEF PerPE, GatherInv
  <1>5. /\ NVar' = NVar /\ NVar \in Nat /\ \A v : HasValidTimeLevel(v)' = HasValidTimeLevel(v)
        /\ \A p : Start(p)' = Start(p)
        /\ \A v, k, i : Value(v, k, i)' = Value(v, k, i)
        /\ \A g, i : Rank(g, i)' = Rank(g, i)
        /\ \A g, p : NOwn(g, p)' = NOwn(g, p)
    BY <1>1, LayoutStays, HalfStays, VarFacts DEF GatherInv
  <1>6. ReadInv /\ FileShape /\ ReadSoFar /\ SetupInv
    BY <1>1 DEF GatherInv
  <1> DEFINE L == varData[iv].nlevs
             upper == lev + Levels - 1
  <1>7. /\ iv \in 1 .. NVar /\ HasValidTimeLevel(iv)
        /\ file' = [v \in 1 .. NVar |-> file'[v]]
        /\ \A v \in 1 .. NVar : v # iv => file'[v] = file[v]
        /\ file'[iv] = [k \in 1 .. L |-> IF k \in lev .. upper THEN FetchedRow(k) ELSE file[iv][k]]
    BY CollectFills
  <1>8. /\ lev \in 1 .. L /\ Chunk \in Nat \ {0} /\ L \in Nat \ {0}
        /\ MoreChunks => upper = (lev + Chunk) - 1 /\ lev + Chunk <= L
        /\ ~MoreChunks => upper = L /\ L < lev + Chunk
    <2>1. L \in Nat \ {0}
      BY <1>6, <1>7, VarFacts
    <2>2. /\ lev \in 1 .. L /\ Chunk \in Nat \ {0}
          /\ MoreChunks => Levels = Chunk /\ lev + Chunk <= L
          /\ ~MoreChunks => Levels = L - lev + 1 /\ L < lev + Chunk
      BY <1>6, <1>7, LevelsAre
    <2> HIDE DEF L
    <2>3. CASE MoreChunks
      BY <2>1, <2>2, <2>3
    <2>4. CASE ~MoreChunks
      BY <2>1, <2>2, <2>4
    <2> QED BY <2>1, <2>2, <2>3, <2>4
  <1>9. upper <= L /\ upper \in Int
    BY <1>8
  <1>10. ReadInv'
    <2>1. ASSUME NEW p \in PE
          PROVE  /\ ioff'[p] \in Nat
                 /\ ~MoreChunks => ioff'[p] = Start(p)[iv]
                 /\ MoreChunks => 2 * ioff'[p] = 2 * Start(p)[iv - 1]
                                      + PerElement(varData[iv].kind)
                                        * (((lev + Chunk) - 1) * NOwn(varData[iv].hgrid, p))
                 /\ MoreChunks /\ varData[iv].kind = "narrow" => (lev + Chunk) % 2 = 1
      <3>1. ioff' = [q \in PE |-> ioff[q] + FetchedWords(varData[iv].kind, Levels * NOwn(varData[iv].hgrid, q))]
        BY DEF CollectChunk
      <3>2. ioff'[p] = ioff[p] + FetchedWords(varData[iv].kind, Levels * NOwn(varData[iv].hgrid, p))
        BY <3>1
      <3> QED BY <3>2, <1>1, <1>7, OffsetsAgree
    <2>2. MoreChunks /\ varData[iv].kind = "narrow" => (lev + Chunk) % 2 = 1
      <3>1. 0 \in PE
        BY ReorderAssumption DEF PE
      <3> QED BY <2>1, <3>1
    <2>3. CASE MoreChunks
      <3>1. lev + Chunk \in Nat \ {0} /\ lev + Chunk # 1 /\ lev + Chunk <= L
        BY <1>8, <2>3
      <3>2. lev' = lev + Chunk /\ iv' = iv
        BY <1>1, <2>3
      <3> QED BY <1>1, <1>5, <1>7, <2>1, <2>2, <2>3, <3>1, <3>2 DEF ReadInv
    <2>4. CASE ~MoreChunks
      <3>1. lev' = 1 /\ iv' = iv + 1 /\ iv + 1 \in 1 .. NVar + 1 /\ (iv + 1) - 1 = iv
        BY <1>1, <1>5, <1>7, <2>4
      <3> QED BY <1>5, <2>1, <2>4, <3>1 DEF ReadInv
    <2> QED BY <2>3, <2>4
  <1>11. FileShape'
    <2>1. ASSUME NEW v \in 1 .. NVar
          PROVE  /\ file'[v] = [k \in 1 .. varData[v].nlevs |-> file'[v][k]]
                 /\ \A k \in 1 .. varData[v].nlevs :
                      file'[v][k] = [j \in 1 .. NPoints[varData[v].hgrid] |-> file'[v][k][j]]
      <3>1. CASE v # iv
        BY <3>1, <1>6, <1>7 DEF FileShape
      <3>2. CASE v = iv
        <4>1. PICK c : c = file'[iv]
          OBVIOUS
        <4>2. c = [k \in 1 .. L |-> IF k \in lev .. upper THEN FetchedRow(k) ELSE file[iv][k]]
          BY <4>1, <1>7
        <4>3. \A k \in 1 .. L : file[iv][k] = [j \in 1 .. NPoints[varData[iv].hgrid] |-> file[iv][k][j]]
          BY <1>6, <1>7 DEF FileShape
        <4>4. \A k : FetchedRow(k) = [j \in 1 .. NPoints[varData[iv].hgrid] |-> FetchedRow(k)[j]]
          BY DEF FetchedRow
        <4> HIDE DEF L, upper
        <4>5. c = [k \in 1 .. L |-> c[k]]
          BY <4>2
        <4>6. ASSUME NEW k \in 1 .. L PROVE c[k] = [j \in 1 .. NPoints[varData[iv].hgrid] |-> c[k][j]]
          <5>1. c[k] = IF k \in lev .. upper THEN FetchedRow(k) ELSE file[iv][k]
            BY <4>2
          <5>2. PICK r : r = c[k]
            OBVIOUS
          <5>3. r = [j \in 1 .. NPoints[varData[iv].hgrid] |-> r[j]]
            <6>1. CASE k \in lev .. upper
              BY <5>1, <5>2, <4>4, <6>1
            <6>2. CASE ~(k \in lev .. upper)
              BY <5>1, <5>2, <4>3, <6>2
            <6> QED BY <6>1, <6>2
          <5> QED BY <5>2, <5>3
        <4> QED BY <3>2, <4>1, <4>5, <4>6 DEF L
      <3> QED BY <3>1, <3>2
    <2> QED BY <1>1, <1>5, <1>7, <2>1 DEF FileShape
  <1>12. ASSUME NEW v \in 1 .. NVar, HasValidTimeLevel(v), NEW k \in 1 .. varData[v].nlevs,
                v < iv \/ (v = iv /\ k <= upper)
         PROVE  LevelExact(v, k)'
    <2> SUFFICES ASSUME NEW i \in Points(varData[v].hgrid)
                 PROVE  file'[v][k][Rank(varData[v].hgrid, i)] = Value(v, k, i)
      BY <1>1, <1>5 DEF LevelExact
    <2>1. CASE v < iv
      <3>1. v # iv
        BY <2>1, <1>7
      <3>2. LevelExact(v, k)
        BY <2>1, <1>6, <1>12 DEF ReadSoFar
      <3> QED BY <3>1, <3>2, <1>7 DEF LevelExact
    <2>2. CASE v = iv /\ k < lev
      <3>1. ~(k \in lev .. upper) /\ k \in 1 .. L
        BY <2>2, <1>8, <1>9
      <3>2. file'[iv][k] = file[iv][k]
        BY <3>1, <1>7
      <3>3. LevelExact(v, k)
        BY <2>2, <1>6, <1>12 DEF ReadSoFar
      <3> QED BY <2>2, <3>2, <3>3 DEF LevelExact
    <2>3. CASE v = iv /\ k >= lev
      <3>1. k \in lev .. upper /\ k \in 1 .. L /\ k \in lev .. L
        BY <2>3, <1>8, <1>9, <1>12, <1>7
      <3>2. file'[iv][k] = FetchedRow(k)
        BY <3>1, <1>7
      <3>3. FetchedRow(k)[Rank(varData[iv].hgrid, i)] = Value(iv, k, i)
        BY <2>3, <3>1, <1>1, <1>7, FetchedIsExact
      <3> QED BY <2>3, <3>2, <3>3
    <2> QED BY <2>1, <2>2, <2>3, <1>12, <1>8
  <1>13. ReadSoFar'
    <2>1. ASSUME NEW v \in 1 .. NVar, HasValidTimeLevel(v), NEW k \in 1 .. varData[v].nlevs,
                 v < iv' \/ (v = iv' /\ k < lev')
          PROVE  LevelExact(v, k)'
      <3>1. CASE MoreChunks
        <4>1. lev' = lev + Chunk /\ iv' = iv /\ upper = (lev + Chunk) - 1
          BY <3>1, <1>1, <1>8
        <4>2. v < iv \/ (v = iv /\ k <= upper)
          BY <2>1, <4>1, <1>8, <1>9
        <4> QED BY <4>2, <2>1, <1>12
      <3>2. CASE ~MoreChunks
        <4>1. lev' = 1 /\ iv' = iv + 1 /\ upper = L
          BY <3>2, <1>1, <1>8
        <4>2. varData[v].nlevs \in Nat
          BY <1>6, VarFacts
        <4>3. ~(k < 1)
          BY <4>2
        <4>4. v < iv + 1
          BY <2>1, <4>1, <4>3
        <4>5. v < iv \/ v = iv
          BY <4>4, <1>5, <1>7
        <4>6. v = iv => k <= upper
          BY <4>1, <4>2
        <4> QED BY <4>5, <4>6, <2>1, <1>12
      <3> QED BY <3>1, <3>2
    <2> QED BY <1>1, <1>5, <2>1 DEF ReadSoFar
  <1> QED BY <1>0, <1>1, <1>2, <1>3, <1>4, <1>10, <1>11, <1>13 DEF GatherInv

LEMMA GatherStutters ==
    ASSUME GatherInv, UNCHANGED gatherVars
    PROVE  GatherInv'
  <1>0. GridInv'
    BY GridGathers DEF GatherInv
  <1>1. /\ pc' = pc /\ SameLayout /\ restart' = restart /\ win' = win /\ next' = next /\ offset' = offset
        /\ iv' = iv /\ lev' = lev /\ ioff' = ioff /\ file' = file /\ varData' = varData /\ nnow' = nnow
    BY DEF gatherVars, SameLayout
  <1>2. SetupInv'
    BY <1>1, SetupStays DEF GatherInv, SetupInv
  <1>3. ASSUME NEW p \in PE PROVE PostInv(p)'
    <2>1. pc = "collect" => next[p] = NVar + 1
      BY DEF GatherInv, PostInv
    <2> QED BY <1>1, <2>1, PostStays DEF GatherInv
  <1>4. PerPE'
    BY <1>1 DEF PerPE, GatherInv
  <1>5. /\ NVar' = NVar /\ \A v : HasValidTimeLevel(v)' = HasValidTimeLevel(v)
        /\ \A p : Start(p)' = Start(p)
        /\ \A v, k, i : Value(v, k, i)' = Value(v, k, i)
        /\ \A g, i : Rank(g, i)' = Rank(g, i)
        /\ \A g, p : NOwn(g, p)' = NOwn(g, p)
    BY <1>1, LayoutStays, HalfStays
  <1>6. \A v, k : LevelExact(v, k)' = LevelExact(v, k)
    BY <1>1, <1>5 DEF LevelExact
  <1>7. ReadInv => ReadInv'
    BY <1>1, <1>5 DEF ReadInv
  <1>8. FileShape => FileShape'
    BY <1>1, <1>5 DEF FileShape
  <1>9. ReadSoFar => ReadSoFar'
    BY <1>1, <1>5, <1>6 DEF ReadSoFar
  <1> QED BY <1>0, <1>1, <1>2, <1>3, <1>4, <1>5, <1>6, <1>7, <1>8, <1>9 DEF GatherInv

LEMMA GatherStep ==
    ASSUME GatherInv, [GatherNext]_gatherVars
    PROVE  GatherInv'
  <1>1. CASE UNCHANGED gatherVars
    BY <1>1, GatherStutters
  <1>2. CASE \E g \in Grid : ConstructGrid(g)
    BY <1>2, StepConstruct
  <1>3. CASE OpenMpiWindow
    BY <1>3, StepOpen
  <1>4. CASE \E p \in PE : PostVar(p)
    BY <1>4, StepPost
  <1>5. CASE \E p \in PE : SkipVar(p)
    BY <1>5, StepSkip
  <1>6. CASE BeginWriteData
    BY <1>6, StepBegin
  <1>7. CASE SkipCollect
    BY <1>7, StepSkipCollect
  <1>8. CASE CollectChunk
    BY <1>8, StepCollect
  <1>9. CASE EndWriteData
    BY <1>9, StepEnd
  <1>10. CASE NextRestart
    BY <1>10, StepNext
  <1> QED
    BY <1>1, <1>2, <1>3, <1>4, <1>5, <1>6, <1>7, <1>8, <1>9, <1>10 DEF GatherNext

(* Every value of a written file is this checkpoint's value of its         *)
(* variable, level and point: for every number of PEs and of points, every *)
(* decomposition and local order, every list of variables, every chunk     *)
(* size and every number of checkpoints, as long as no narrow variable is  *)
(* cut into chunks of an odd number of levels.  postData and collectData   *)
(* then step through the window alike, though they share no layout.  Where *)
(* the hypothesis fails, MCRestartGatherNarrow.cfg shows a wrong file.     *)
THEOREM FilesAreExact ==
    ASSUME \A s \in Setups : Aligned(s)
    PROVE  GatherSpec => []FileExact
  <1>1. GatherInit => GatherInv
    BY GatherInits
  <1>2. GatherInv /\ [GatherNext]_gatherVars => GatherInv'
    BY GatherStep
  <1>3. GatherInv => FileExact
    <2> SUFFICES ASSUME GatherInv, pc = "written", NEW v \in DOMAIN varData, HasValidTimeLevel(v),
                        NEW k \in 1 .. varData[v].nlevs, NEW i \in Points(varData[v].hgrid)
                 PROVE  file[v][k][Rank(varData[v].hgrid, i)] = Value(v, k, i)
      BY DEF FileExact
    <2>1. v \in 1 .. NVar
      BY VarFacts DEF GatherInv
    <2>2. LevelExact(v, k)
      BY <2>1 DEF GatherInv
    <2> QED BY <2>2 DEF LevelExact
  <1> QED BY <1>1, <1>2, <1>3, PTL DEF GatherSpec

(* -------------------- files, links, crashes and loads ------------------ *)

Stages == {"todo", "created", "put", "linked", "closed"}
Dates  == Date \cup {None}

TypeOK ==
    /\ run \in {"up", "down", "failed"} /\ date \in Date
    /\ ldom \in SUBSET Dom /\ last \in Date /\ ckpt \in Dates
    /\ stage \in [Dom -> Stages]
    /\ files \in [Dom -> [Date -> {"absent", "open", "complete"}]]
    /\ link \in [Dom -> Dates] /\ loaded \in [Dom -> Dates]
    /\ completed \in Dates /\ torn \in BOOLEAN

(* Every domain that is due is active: nests start in time.                *)
DueActive == ActiveAt(date) \subseteq ldom

(* Checkpoints are newer than the last that was completed: a run starts    *)
(* from no older date.                                                     *)
Newer ==
    /\ completed <= last
    /\ ckpt # None => run = "up" /\ ckpt = last /\ completed < ckpt

(* Files are written for the checkpoint under way only, and those of its   *)
(* domains that are closed are whole and linked.                           *)
Progress ==
    /\ ckpt = None => \A d \in Dom : stage[d] = "closed"
    /\ ckpt # None => \A d \in Dom :
           /\ stage[d] = "linked" => link[d] = ckpt
           /\ stage[d] = "closed" /\ d \in ActiveAt(ckpt) =>
                  files[d][ckpt] = "complete" /\ link[d] = ckpt

(* Between checkpoints that no crash hit, the links name one date.         *)
OneDate ==
    ~torn /\ ckpt = None /\ completed # None =>
        \A d \in ActiveAt(completed) : link[d] = completed

FilesInv == TypeOK /\ DueActive /\ Newer /\ Progress /\ CompletedKept /\ OneDate

-----------------------------------------------------------------------------
LEMMA DateFacts ==
    /\ Date \subseteq Nat /\ \A t \in Dates : t \in Int
    /\ None \in Dates /\ None \notin Date /\ \A t \in Date : None < t
    /\ 0 \in Date /\ 1 \in Dom
    /\ \A t \in Date : 1 \in ActiveAt(t)
    /\ \A t \in Date : ActiveAt(t) \subseteq Dom
    /\ MaxDate \in Nat /\ \A t \in Date : t < MaxDate => t + 1 \in Date
  BY FilesAssumption DEF Date, Dates, None, Dom, ActiveAt

LEMMA InitFiles == Init => FilesInv
  <1> SUFFICES ASSUME Init PROVE FilesInv
    OBVIOUS
  <1>1. TypeOK
    BY DateFacts DEF Init, TypeOK, Stages, Dates, ActiveAt
  <1> QED
    BY <1>1, DateFacts DEF Init, FilesInv, DueActive, Newer, Progress, CompletedKept, OneDate

(* The next step of the time loop: what is due then is active, or starts.  *)
LEMMA StepDue ==
    ASSUME TypeOK, DueActive, Step
    PROVE  DueActive' /\ ldom' \in SUBSET Dom
  <1>1. /\ date \in Nat /\ date' = date + 1 /\ ldom' = Running \cup Starting
    BY DateFacts DEF Step, TypeOK
  <1>2. ASSUME NEW d \in ActiveAt(date + 1) PROVE d \in Running \cup Starting
    <2>1. d \in Dom /\ DomStart[d] \in Nat /\ DomEnd[d] \in Nat
          /\ DomStart[d] <= date + 1 /\ date + 1 < DomEnd[d]
      BY DateFacts, FilesAssumption DEF ActiveAt
    <2>2. CASE DomStart[d] <= date
      <3>1. d \in ActiveAt(date) /\ date < DomEnd[d]
        BY <1>1, <2>1, <2>2 DEF ActiveAt
      <3> QED
        BY <3>1 DEF DueActive, Running
    <2>3. CASE ~(DomStart[d] <= date)
      <3>1. DomStart[d] = date + 1 /\ DomStart[d] # 0
        BY <1>1, <2>1, <2>3
      <3>2. d # 1
        BY <3>1, FilesAssumption
      <3>3. Parent[d] \in Dom /\ DomStart[Parent[d]] \in Nat /\ DomEnd[Parent[d]] \in Nat
        BY <2>1, <3>2, DateFacts, FilesAssumption
      <3>4. DomStart[Parent[d]] < DomStart[d] /\ DomStart[d] <= DomEnd[Parent[d]]
        BY <2>1, <3>1, <3>2, NestsInTime
      <3>5. DomStart[Parent[d]] <= date /\ date < DomEnd[Parent[d]]
        BY <1>1, <3>1, <3>3, <3>4
      <3>6. Parent[d] \in Running
        BY <3>3, <3>5 DEF DueActive, ActiveAt, Running
      <3> QED
        BY <1>2, <2>1, <3>2, <3>6 DEF Starting
    <2> QED
      BY <2>2, <2>3
  <1>3. Running \cup Starting \subseteq Dom
    BY DEF Running, Starting, TypeOK
  <1>4. ActiveAt(date') \subseteq ldom'
    BY <1>1, <1>2
  <1> QED
    BY <1>1, <1>3, <1>4 DEF DueActive, ActiveAt

LEMMA StepFiles ==
    ASSUME FilesInv, Step
    PROVE  FilesInv'
  <1>1. /\ date \in Date /\ date < MaxDate /\ date' = date + 1 /\ UNCHANGED <<run, last, ckpt, stage,
               files, link, loaded, completed, torn>>
    BY DEF Step, FilesInv, TypeOK
  <1>2. DueActive' /\ ldom' \in SUBSET Dom
    BY StepDue DEF FilesInv
  <1>3. TypeOK'
    BY <1>1, <1>2, DateFacts DEF FilesInv, TypeOK
  <1>4. Newer' /\ Progress' /\ CompletedKept' /\ OneDate'
    BY <1>1 DEF FilesInv, Newer, Progress, CompletedKept, OneDate, ActiveAt
  <1> QED
    BY <1>2, <1>3, <1>4 DEF FilesInv

LEMMA BeginFiles ==
    ASSUME FilesInv, BeginCheckpoint
    PROVE  FilesInv'
  <1>1. /\ run = "up" /\ ckpt = None /\ last < date /\ ckpt' = date /\ last' = date
        /\ stage' = [d \in Dom |-> IF d \in ldom THEN "todo" ELSE "closed"]
        /\ UNCHANGED <<run, date, ldom, files, link, loaded, completed, torn>>
    BY DEF BeginCheckpoint
  <1>2. TypeOK'
    BY <1>1 DEF FilesInv, TypeOK, Dates, Stages
  <1>3. last \in Int /\ date \in Int /\ completed \in Int /\ date # None
    BY DateFacts DEF FilesInv, TypeOK, Dates
  <1>4. completed <= date /\ completed < date
    BY <1>1, <1>3 DEF FilesInv, Newer
  <1>5. \A d \in Dom : stage'[d] = "closed" => d \notin ActiveAt(date)
    BY <1>1 DEF FilesInv, DueActive
  <1>6. Newer'
    BY <1>1, <1>4 DEF Newer
  <1>7. Progress'
    BY <1>1, <1>3, <1>5 DEF Progress, ActiveAt
  <1>8. DueActive' /\ CompletedKept' /\ OneDate'
    BY <1>1, <1>3 DEF FilesInv, DueActive, CompletedKept, OneDate, ActiveAt
  <1> QED
    BY <1>2, <1>6, <1>7, <1>8 DEF FilesInv

(* While a checkpoint is written its date is newer than the completed one, *)
(* so writing its files spares those.                                      *)
LEMMA Writing ==
    ASSUME FilesInv, NEW d \in Dom, stage[d] # "closed"
    PROVE  /\ ckpt \in Date /\ ckpt # None /\ ckpt # completed /\ completed <= ckpt
           /\ run = "up"
  <1>1. ckpt # None /\ ckpt \in Date /\ ckpt \in Int
    BY DateFacts DEF FilesInv, Progress, TypeOK, Dates
  <1>2. completed \in Int /\ completed < ckpt /\ run = "up"
    BY <1>1, DateFacts DEF FilesInv, Newer, TypeOK
  <1> QED
    BY <1>1, <1>2

LEMMA WriteFiles ==
    ASSUME FilesInv, NEW d \in Dom, CreateFile(d) \/ WriteData(d) \/ CloseFile(d)
    PROVE  FilesInv'
  <1>1. /\ stage[d] # "closed"
        /\ UNCHANGED <<run, date, ldom, last, ckpt, link, loaded, completed, torn>>
    BY DEF CreateFile, WriteData, CloseFile
  <1>2. PICK c \in Date : c = ckpt
    BY <1>1, Writing
  <1>3. c # None /\ c # completed /\ completed <= c
    BY <1>1, <1>2, Writing
  <1>4. PICK s \in Stages :
            /\ stage' = [stage EXCEPT ![d] = s] /\ s # "linked"
            /\ s = "closed" => stage[d] = "linked" /\ files'[d][c] = "complete"
    <2>1. CASE CloseFile(d)
      BY <1>2, <2>1 DEF CloseFile, Stages, FilesInv, TypeOK
    <2>2. CASE CreateFile(d) \/ WriteData(d)
      BY <2>2 DEF CreateFile, WriteData, Stages
    <2> QED
      BY <2>1, <2>2
  <1>5. /\ files' \in [Dom -> [Date -> {"absent", "open", "complete"}]]
        /\ \A e \in Dom, t \in Date : e # d \/ t # c => files'[e][t] = files[e][t]
    <2>1. CASE WriteData(d)
      BY <2>1 DEF WriteData, FilesInv, TypeOK
    <2>2. CASE CreateFile(d)
      BY <1>2, <2>2 DEF CreateFile, FilesInv, TypeOK
    <2>3. CASE CloseFile(d)
      BY <1>2, <2>3 DEF CloseFile, FilesInv, TypeOK
    <2> QED
      BY <2>1, <2>2, <2>3
  <1>6. TypeOK'
    BY <1>1, <1>4, <1>5 DEF FilesInv, TypeOK
  <1>7. /\ stage'[d] = s
        /\ \A e \in Dom \ {d} : stage'[e] = stage[e] /\ files'[e] = files[e]
    <2>1. \A e \in Dom \ {d} : files'[e] = files[e]
      BY <1>5 DEF FilesInv, TypeOK
    <2> QED
      BY <1>4, <2>1 DEF FilesInv, TypeOK
  <1>8. Progress'
    <2>1. ASSUME NEW e \in Dom
          PROVE  /\ stage'[e] = "linked" => link[e] = c
                 /\ stage'[e] = "closed" /\ e \in ActiveAt(c) =>
                        files'[e][c] = "complete" /\ link[e] = c
      <3>1. CASE e = d
        BY <1>2, <1>3, <1>4, <1>7, <3>1 DEF FilesInv, Progress
      <3>2. CASE e # d
        BY <1>2, <1>3, <1>7, <3>2 DEF FilesInv, Progress
      <3> QED
        BY <3>1, <3>2
    <2> QED
      BY <1>1, <1>2, <1>3, <2>1 DEF Progress, ActiveAt
  <1>9. CompletedKept'
    <2>1. ASSUME completed # None, NEW e \in ActiveAt(completed)
          PROVE  files'[e][completed] = "complete" /\ link[e] >= completed
      <3>1. e \in Dom /\ completed \in Date
        BY <2>1 DEF ActiveAt, FilesInv, TypeOK, Dates
      <3> QED
        BY <1>3, <1>5, <2>1, <3>1 DEF FilesInv, CompletedKept
    <2> QED
      BY <1>1, <2>1 DEF CompletedKept, ActiveAt
  <1>10. DueActive' /\ Newer' /\ OneDate'
    BY <1>1, <1>2, <1>3 DEF FilesInv, DueActive, Newer, OneDate, ActiveAt
  <1> QED
    BY <1>6, <1>8, <1>9, <1>10 DEF FilesInv

LEMMA LinkFiles ==
    ASSUME FilesInv, NEW d \in Dom, CreateLink(d)
    PROVE  FilesInv'
  <1>1. /\ stage[d] = "put" /\ stage' = [stage EXCEPT ![d] = "linked"]
        /\ link' = [link EXCEPT ![d] = ckpt]
        /\ UNCHANGED <<run, date, ldom, last, ckpt, files, loaded, completed, torn>>
    BY DEF CreateLink, LinkName
  <1>2. ckpt \in Date /\ ckpt # None /\ completed <= ckpt /\ ckpt \in Int /\ completed \in Int
    BY <1>1, Writing, DateFacts DEF FilesInv, TypeOK
  <1>3. /\ link'[d] = ckpt /\ stage'[d] = "linked"
        /\ \A e \in Dom \ {d} : link'[e] = link[e] /\ stage'[e] = stage[e]
    BY <1>1 DEF FilesInv, TypeOK
  <1>4. TypeOK'
    BY <1>1, <1>2 DEF FilesInv, TypeOK, Stages, Dates
  <1>5. Progress'
    BY <1>1, <1>2, <1>3 DEF FilesInv, Progress, ActiveAt
  <1>6. CompletedKept'
    <2>1. ASSUME completed # None, NEW e \in ActiveAt(completed)
          PROVE  files[e][completed] = "complete" /\ link'[e] >= completed
      <3>1. e \in Dom
        BY <2>1 DEF ActiveAt
      <3>2. CASE e = d
        BY <1>2, <1>3, <2>1, <3>2 DEF FilesInv, CompletedKept
      <3>3. CASE e # d
        BY <1>3, <2>1, <3>1, <3>3 DEF FilesInv, CompletedKept
      <3> QED
        BY <3>2, <3>3
    <2> QED
      BY <1>1, <2>1 DEF CompletedKept, ActiveAt
  <1>7. DueActive' /\ Newer' /\ OneDate'
    BY <1>1, <1>2 DEF FilesInv, DueActive, Newer, OneDate, ActiveAt
  <1> QED
    BY <1>4, <1>5, <1>6, <1>7 DEF FilesInv

LEMMA EndFiles ==
    ASSUME FilesInv, EndCheckpoint
    PROVE  FilesInv'
  <1>1. /\ ckpt # None /\ (\A d \in Dom : stage[d] = "closed")
        /\ ckpt' = None /\ completed' = ckpt /\ torn' = FALSE
        /\ UNCHANGED <<run, date, ldom, last, stage, files, link, loaded>>
    BY DEF EndCheckpoint, AllClosed
  <1>2. ckpt \in Date /\ ckpt = last /\ ckpt <= ckpt
    BY <1>1, DateFacts DEF FilesInv, TypeOK, Dates, Newer
  <1>3. \A d \in ActiveAt(ckpt) : /\ files[d][ckpt] = "complete" /\ link[d] = ckpt
                                  /\ link[d] >= ckpt
    BY <1>1, <1>2 DEF FilesInv, Progress, ActiveAt
  <1>4. TypeOK'
    BY <1>1, <1>2 DEF FilesInv, TypeOK, Dates
  <1>5. CompletedKept' /\ OneDate'
    BY <1>1, <1>3 DEF CompletedKept, OneDate, ActiveAt
  <1>6. DueActive' /\ Newer' /\ Progress'
    BY <1>1, <1>2 DEF FilesInv, DueActive, Newer, Progress, ActiveAt
  <1> QED
    BY <1>4, <1>5, <1>6 DEF FilesInv

LEMMA CrashFiles ==
    ASSUME FilesInv, Crash \/ LoadFails
    PROVE  FilesInv'
  <1>1. CASE Crash
    <2>1. /\ ckpt' = None /\ torn' = (torn \/ ckpt # None) /\ run' = "down"
          /\ stage' = [d \in Dom |-> "closed"]
          /\ UNCHANGED <<date, ldom, last, files, link, loaded, completed>>
      BY <1>1 DEF Crash
    <2>2. TypeOK'
      BY <2>1 DEF FilesInv, TypeOK, Stages, Dates
    <2>3. OneDate'
      BY <2>1 DEF FilesInv, TypeOK, OneDate, ActiveAt
    <2>4. DueActive' /\ Newer' /\ Progress' /\ CompletedKept'
      BY <2>1 DEF FilesInv, DueActive, Newer, Progress, CompletedKept, ActiveAt
    <2> QED
      BY <2>2, <2>3, <2>4 DEF FilesInv
  <1>2. CASE LoadFails
    <2>1. /\ run = "down" /\ run' = "failed"
          /\ UNCHANGED <<date, ldom, last, ckpt, stage, files, link, loaded, completed, torn>>
      BY <1>2 DEF LoadFails
    <2> QED
      BY <2>1 DEF FilesInv, TypeOK, DueActive, Newer, Progress, CompletedKept, OneDate, ActiveAt
  <1> QED
    BY <1>1, <1>2

(* The date of a run that loads is no older than the completed checkpoint, *)
(* which covered domain 1.                                                 *)
LEMMA LoadDate ==
    ASSUME FilesInv, Load
    PROVE  link[1] \in Date /\ completed <= link[1]
  <1>1. link[1] # None
    BY DateFacts DEF Load, Needed, Readable
  <1>2. link[1] \in Date
    BY <1>1, DateFacts DEF FilesInv, TypeOK, Dates
  <1>3. PICK l \in Date : l = link[1]
    BY <1>2
  <1>4. l \in Nat /\ None < l
    BY DateFacts
  <1>5. CASE completed = None
    BY <1>2, <1>3, <1>4, <1>5 DEF None
  <1>6. CASE completed # None
    <2>1. completed \in Date /\ completed \in Int
      BY <1>6, DateFacts DEF FilesInv, TypeOK, Dates
    <2>2. 1 \in ActiveAt(completed)
      BY <2>1, DateFacts
    <2>3. l >= completed
      BY <1>3, <1>6, <2>2 DEF FilesInv, CompletedKept
    <2> QED
      BY <1>2, <1>3, <1>4, <2>1, <2>3
  <1> QED
    BY <1>5, <1>6

LEMMA LoadFiles ==
    ASSUME FilesInv, Load
    PROVE  FilesInv'
  <1>1. /\ run = "down" /\ run' = "up" /\ date' = link[1] /\ last' = link[1]
        /\ ldom' = ActiveAt(link[1])
        /\ loaded' = [d \in Dom |-> IF d \in Needed THEN link[d] ELSE link[1]]
        /\ UNCHANGED <<ckpt, stage, files, link, completed, torn>>
    BY DEF Load
  <1>2. link[1] \in Date /\ completed <= link[1]
    BY LoadDate
  <1>3. TypeOK'
    BY <1>1, <1>2, DateFacts DEF FilesInv, TypeOK, Dates
  <1>4. DueActive' /\ Newer'
    BY <1>1, <1>2 DEF FilesInv, DueActive, Newer, ActiveAt
  <1>5. Progress' /\ CompletedKept' /\ OneDate'
    BY <1>1 DEF FilesInv, Progress, CompletedKept, OneDate, ActiveAt
  <1> QED
    BY <1>3, <1>4, <1>5 DEF FilesInv

LEMMA FilesStep == FilesInv /\ [Next]_vars => FilesInv'
  <1> SUFFICES ASSUME FilesInv, [Next]_vars PROVE FilesInv'
    OBVIOUS
  <1>1. CASE UNCHANGED vars
    BY <1>1 DEF vars, FilesInv, TypeOK, DueActive, Newer, Progress, CompletedKept, OneDate, ActiveAt
  <1> QED
    BY <1>1, StepFiles, BeginFiles, WriteFiles, LinkFiles, EndFiles, CrashFiles, LoadFiles
       DEF Next

(* What the files, the links and the dates of a run have to do with each   *)
(* other.                                                                  *)
THEOREM FilesHold == Spec => []FilesInv
  BY InitFiles, FilesStep, PTL DEF Spec

(* The files of the last checkpoint written to its end stay whole on disk. *)
THEOREM CompletedStays == Spec => []CompletedKept
  <1>1. FilesInv => CompletedKept
    BY DEF FilesInv
  <1> QED
    BY <1>1, FilesHold, PTL

(* A run never starts from an older date than that checkpoint's.           *)
THEOREM WorkKept == Spec => NoWorkLost
  <1>1. FilesInv /\ [Next]_vars => [run = "down" /\ run' = "up" => date' >= completed]_vars
    <2> SUFFICES ASSUME FilesInv, Next, run = "down", run' = "up" PROVE date' >= completed
      OBVIOUS
    <2>1. Load
      BY DEF Next, Step, BeginCheckpoint, EndCheckpoint, CreateFile, WriteData, CreateLink,
         CloseFile, Crash, LoadFails
    <2>2. date' \in Int /\ completed \in Int /\ completed <= date'
      BY <2>1, LoadDate, DateFacts DEF Load, FilesInv, TypeOK
    <2> QED
      BY <2>2
  <1> QED
    BY <1>1, FilesHold, PTL DEF Spec, NoWorkLost

(* Unless the crash hit a checkpoint, the next run finds all it needs, of  *)
(* one date.                                                               *)
THEOREM RestartsClean == Spec => CleanRestart
  <1>1. FilesInv /\ [Next]_vars =>
          [run = "down" /\ run' # run /\ ~torn /\ completed # None =>
             run' = "up" /\ \A d \in Dom : loaded'[d] = loaded'[1]]_vars
    <2> SUFFICES ASSUME FilesInv, Next, run = "down", run' # run, ~torn, completed # None
                 PROVE  run' = "up" /\ \A d \in Dom : loaded'[d] = loaded'[1]
      OBVIOUS
    <2>1. Load \/ LoadFails
      BY DEF Next, Step, BeginCheckpoint, EndCheckpoint, CreateFile, WriteData, CreateLink,
         CloseFile, Crash
    <2>2. ckpt = None /\ completed \in Date
      BY DEF FilesInv, Newer, TypeOK, Dates
    <2>3. \A d \in ActiveAt(completed) : link[d] = completed /\ files[d][completed] = "complete"
      BY <2>2 DEF FilesInv, OneDate, CompletedKept
    <2>4. link[1] = completed /\ Needed = ActiveAt(completed)
      BY <2>2, <2>3, DateFacts DEF Needed
    <2>5. ~LoadFails
      BY <2>3, <2>4 DEF LoadFails, Sound
    <2>6. loaded' = [d \in Dom |-> IF d \in Needed THEN link[d] ELSE link[1]]
      BY <2>1, <2>5 DEF Load
    <2>7. \A d \in Dom : loaded'[d] = completed
      BY <2>3, <2>4, <2>6
    <2> QED
      BY <2>1, <2>5, <2>7, DateFacts DEF Load
  <1> QED
    BY <1>1, FilesHold, PTL DEF Spec, CleanRestart
=============================================================================
