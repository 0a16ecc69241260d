-------------------------- MODULE GribLookupProofs --------------------------
(***************************************************************************)
(* What is proved of the lookups for every file, grid, bitmap, place and   *)
(* time.  Rounding and wrapping give the nearest column and row; counting  *)
(* bits gives a point its own value; the loop over the records keeps the   *)
(* preferred one of those seen so far; and the preferred u and v belong    *)
(* together if every u has its v.                                          *)
(***************************************************************************)
EXTENDS GribLookup, FiniteSetTheorems, TLAPS

-----------------------------------------------------------------------------
(* Whole numbers. *)

\* A whole number of steps of d that is less than one step is none.
LEMMA LessThanAStep ==
  ASSUME NEW d \in Nat \ {0}, NEW k \in Int, Magnitude(d * k) < d
  PROVE  k = 0
<1>1. ASSUME k >= 1 PROVE FALSE
  <2>1. k - 1 \in Nat /\ d * k = d + d * (k - 1) /\ d * (k - 1) \in Nat
    BY <1>1
  <2> QED  BY <2>1 DEF Magnitude
<1>2. ASSUME k <= -1 PROVE FALSE
  <2>1. -k - 1 \in Nat /\ d * k = -(d + d * (-k - 1)) /\ d * (-k - 1) \in Nat
    BY <1>2
  <2> QED  BY <2>1 DEF Magnitude
<1> QED  BY <1>1, <1>2

LEMMA Quotient ==
  ASSUME NEW n \in Nat, NEW d \in Nat \ {0}
  PROVE  /\ n \div d \in Nat /\ n % d \in 0..(d - 1)
         /\ n = d * (n \div d) + (n % d)
OBVIOUS

\* std::lround is within half a step ...
LEMMA LroundIsNear ==
  ASSUME NEW x \in Int, NEW d \in Nat \ {0}
  PROVE  Lround(x, d) \in Int /\ 2 * Magnitude(x - d * Lround(x, d)) <= d
<1>1. ASSUME NEW n \in Nat
      PROVE  LET q == (2 * n + d) \div (2 * d)
             IN  q \in Nat /\ 2 * Magnitude(n - d * q) <= d
  <2> DEFINE q == (2 * n + d) \div (2 * d)
             r == (2 * n + d) % (2 * d)
  <2>1. 2 * n + d \in Nat /\ 2 * d \in Nat \ {0}
    OBVIOUS
  <2>2. q \in Nat /\ r \in 0..(2 * d - 1) /\ 2 * n + d = (2 * d) * q + r
    BY <2>1, Quotient
  <2> HIDE DEF q, r
  <2>3. d * q \in Int /\ (2 * d) * q = 2 * (d * q)
    BY <2>2
  <2>4. 2 * Magnitude(n - d * q) <= d
    BY <2>2, <2>3 DEF Magnitude
  <2> QED  BY <2>2, <2>4 DEF q
<1>2. CASE x >= 0
  <2> DEFINE q == (2 * x + d) \div (2 * d)
  <2>1. q \in Nat /\ 2 * Magnitude(x - d * q) <= d
    BY <1>1, <1>2
  <2>2. Lround(x, d) = q
    BY <1>2 DEF Lround
  <2> HIDE DEF q
  <2> QED  BY <2>1, <2>2
<1>3. CASE x < 0
  <2> DEFINE q == (2 * (-x) + d) \div (2 * d)
  <2>1. q \in Nat /\ 2 * Magnitude((-x) - d * q) <= d
    BY <1>1, <1>3
  <2>2. Lround(x, d) = -q
    BY <1>3 DEF Lround
  <2> HIDE DEF q
  <2>3. d * (-q) = -(d * q) /\ d * q \in Int
    BY <2>1
  <2> QED  BY <2>1, <2>2, <2>3 DEF Magnitude
<1> QED  BY <1>2, <1>3

\* ... and nothing else is as near.
LEMMA LroundIs ==
  ASSUME NEW x \in Int, NEW d \in Nat \ {0}, NEW c \in Int, 2 * Magnitude(x - d * c) < d
  PROVE  Lround(x, d) = c
<1> DEFINE r == Lround(x, d)
<1>1. r \in Int /\ 2 * Magnitude(x - d * r) <= d
  BY LroundIsNear
<1> HIDE DEF r
<1>2. d * r \in Int /\ d * c \in Int /\ d * (r - c) = d * r - d * c /\ r - c \in Int
  BY <1>1
<1>3. Magnitude(d * (r - c)) < d
  BY <1>1, <1>2 DEF Magnitude
<1>4. r - c = 0
  BY <1>2, <1>3, LessThanAStep
<1> QED  BY <1>1, <1>4 DEF r

\* The point at a column and a row, and back.
LEMMA PointOfRowAndColumn ==
  ASSUME NEW ni \in Nat \ {0}, NEW nj \in Nat \ {0},
         NEW col \in 0..(ni - 1), NEW row \in 0..(nj - 1)
  PROVE  /\ row * ni + col \in 0..(ni * nj - 1)
         /\ (row * ni + col) % ni = col /\ (row * ni + col) \div ni = row
<1> DEFINE p == row * ni + col
<1>1. row * ni \in Nat /\ p \in Nat
  OBVIOUS
<1>2. p < ni * nj
  <2>1. nj - 1 - row \in Nat /\ ni * (nj - 1 - row) \in Nat
    OBVIOUS
  <2>2. ni * nj = row * ni + ni + ni * (nj - 1 - row)
    OBVIOUS
  <2> QED  BY <1>1, <2>1, <2>2
<1>3. p \div ni = row /\ p % ni = col
  <2>1. p \div ni \in Nat /\ p % ni \in 0..(ni - 1) /\ p = ni * (p \div ni) + (p % ni)
    BY <1>1, Quotient
  <2> DEFINE q == p \div ni
             r == p % ni
  <2>2. ni * (q - row) = col - r
    <3>1. q \in Nat /\ r \in 0..(ni - 1) /\ row * ni + col = ni * q + r
      BY <2>1
    <3> HIDE DEF q, r
    <3>2. ni * (q - row) = ni * q - row * ni
      BY <3>1
    <3> QED  BY <3>1, <3>2
  <2>3. Magnitude(ni * (q - row)) < ni /\ q - row \in Int
    BY <2>1, <2>2 DEF Magnitude
  <2>4. q - row = 0
    BY <2>3, LessThanAStep
  <2> HIDE DEF p
  <2>5. ni * (q - row) = 0
    BY <2>4
  <2>6. q \in Nat /\ r \in Nat
    BY <2>1
  <2> HIDE DEF q, r
  <2>7. q = row /\ r = col
    BY <2>2, <2>4, <2>5, <2>6
  <2> QED  BY <2>7 DEF q, r
<1>4. ni * nj \in Nat
  OBVIOUS
<1> QED  BY <1>1, <1>2, <1>3, <1>4

\* A point is at a column and a row.
LEMMA RowAndColumnOfPoint ==
  ASSUME NEW ni \in Nat \ {0}, NEW nj \in Nat \ {0}, NEW p \in 0..(ni * nj - 1)
  PROVE  /\ p % ni \in 0..(ni - 1) /\ p \div ni \in 0..(nj - 1)
         /\ p = (p \div ni) * ni + (p % ni)
<1>1. ni * nj \in Nat /\ p \in Nat
  OBVIOUS
<1>2. p \div ni \in Nat /\ p % ni \in 0..(ni - 1) /\ p = ni * (p \div ni) + (p % ni)
  BY <1>1, Quotient
<1> DEFINE q == p \div ni
<1>3. ASSUME q >= nj PROVE FALSE
  <2>1. q - nj \in Nat /\ ni * (q - nj) \in Nat /\ ni * q = ni * nj + ni * (q - nj)
    <3>1. q \in Nat
      BY <1>2
    <3> HIDE DEF q
    <3> QED  BY <1>3, <3>1
  <2> QED  BY <1>1, <1>2, <2>1
<1>4. ni * q = q * ni
  BY <1>2
<1> QED  BY <1>2, <1>3, <1>4
-----------------------------------------------------------------------------
(* FindNearest. *)

Files == m_messages \in Seq(Records)

LEMMA FieldsOfAFile ==
  ASSUME Files, NEW i \in DOMAIN m_messages
  PROVE  /\ m_messages[i] \in Records /\ i \in 1..Len(m_messages)
         /\ m_messages[i].valid_time \in Int /\ m_messages[i].level \in Int
<1>1. i \in 1..Len(m_messages) /\ m_messages[i] \in Records
  BY DEF Files
<1> QED  BY <1>1, RecordsAssumption

LEMMA DiffIsANumber ==
  ASSUME Files, NEW i \in DOMAIN m_messages, NEW time \in Int
  PROVE  Diff(i, time) \in Nat
BY FieldsOfAFile DEF Diff, Magnitude

LEMMA LeastNumber ==
  ASSUME NEW T, T \subseteq Nat, T # {}
  PROVE  \E m \in T : \A k \in T : m <= k
<1>1. PICK m \in T : \A k \in T : ~(<<k, m>> \in OpToRel(<, Nat))
  BY NatLessThanWellFounded, WFMin
<1>2. ASSUME NEW k \in T PROVE m <= k
  <2>1. ~(k < m)
    BY <1>1 DEF OpToRel
  <2> QED  BY <2>1
<1> QED  BY <1>2

\* The body of the loop: what is chosen after n records, f before them.
Chosen(f, product, number, time, n) ==
  IF n = 0 THEN Nothing
  ELSE IF Wanted(m_messages[n], product, number) /\ Better(n, f[n - 1], time)
       THEN n ELSE f[n - 1]

Loops(f, product, number, time, n) ==
  \A k \in 0..n : f[k] = Chosen(f, product, number, time, k)

LEMMA SameBefore ==
  ASSUME NEW f, NEW g, NEW n, NEW product, NEW number, NEW time,
         n # 0 => f[n - 1] = g[n - 1]
  PROVE  Chosen(f, product, number, time, n) = Chosen(g, product, number, time, n)
BY DEF Chosen

LEMMA LoopsExist ==
  ASSUME NEW product, NEW number, NEW time, NEW n \in Nat
  PROVE  \E f : Loops(f, product, number, time, n)
<1> DEFINE Lacking == {k \in Nat : ~\E f : Loops(f, product, number, time, k)}
           Body(f, k) == Chosen(f, product, number, time, k)
<1> SUFFICES ASSUME Lacking # {} PROVE FALSE
  OBVIOUS
<1>1. PICK k \in Lacking : \A j \in Lacking : k <= j
  BY LeastNumber
<1>2. CASE k = 0
  <2> DEFINE f == [j \in 0..0 |-> Nothing]
  <2>1. f[0] = Body(f, 0)
    BY DEF Chosen
  <2> HIDE DEF f, Body
  <2>2. Loops(f, product, number, time, 0)
    <3>1. \A j \in 0..0 : j = 0
      OBVIOUS
    <3> QED  BY <2>1, <3>1 DEF Loops, Body
  <2> QED  BY <1>1, <1>2, <2>2
<1>3. CASE k # 0
  <2>1. k - 1 \in Nat /\ k - 1 \notin Lacking
    BY <1>1, <1>3
  <2>2. PICK f : Loops(f, product, number, time, k - 1)
    BY <2>1
  <2> DEFINE g == [j \in 0..k |-> IF j = k THEN Body(f, k) ELSE f[j]]
  <2>3. ASSUME NEW j \in 0..k PROVE g[j] = Body(g, j)
    <3>1. g[j] = Body(f, j)
      <4>1. CASE j = k
        BY <4>1
      <4>2. CASE j # k
        <5>1. j \in 0..(k - 1)
          BY <1>1, <4>2
        <5> QED  BY <2>2, <4>2, <5>1 DEF Loops
      <4> QED  BY <4>1, <4>2
    <3>2. j # 0 => f[j - 1] = g[j - 1]
      OBVIOUS
    <3> HIDE DEF g
    <3> QED  BY <3>1, <3>2, SameBefore
  <2> HIDE DEF g
  <2>4. Loops(g, product, number, time, k)
    BY <2>3 DEF Loops
  <2> QED  BY <1>1, <2>4
<1> QED  BY <1>2, <1>3

LEMMA BestLoops ==
  ASSUME Files, NEW product, NEW number, NEW time
  PROVE  Loops(Best(product, number, time), product, number, time, Len(m_messages))
<1> DEFINE N == Len(m_messages)
           Body(f, n) == Chosen(f, product, number, time, n)
<1>0. N \in Nat
  BY DEF Files
<1>1. PICK f : Loops(f, product, number, time, N)
  BY <1>0, LoopsExist
<1> DEFINE g == [n \in 0..N |-> f[n]]
<1>2. ASSUME NEW n \in 0..N PROVE g[n] = Body(g, n)
  <2>1. g[n] = Body(f, n)
    BY <1>1 DEF Loops
  <2>2. n # 0 => f[n - 1] = g[n - 1]
    BY <1>0
  <2> HIDE DEF g
  <2> QED  BY <2>1, <2>2, SameBefore
<1>3. g = [n \in 0..N |-> Body(g, n)]
  <2>1. g = [n \in 0..N |-> g[n]]
    OBVIOUS
  <2> HIDE DEF g
  <2> QED  BY <1>2, <2>1
<1> DEFINE b == Best(product, number, time)
<1>4. b = CHOOSE best : best = [n \in 0..N |-> Body(best, n)]
  BY DEF Best, Chosen
<1> HIDE DEF g, b
<1>5. b = [n \in 0..N |-> Body(b, n)]
  BY <1>3, <1>4
<1> QED  BY <1>5 DEF Loops, b

\* Record `best` is nearer than record i, or at a lower level, or earlier in
\* the file, or is i.
Preferred(best, i, time) ==
  \/ Diff(best, time) < Diff(i, time)
  \/ /\ Diff(best, time) = Diff(i, time)
     /\ \/ m_messages[best].level < m_messages[i].level
        \/ m_messages[best].level = m_messages[i].level /\ best <= i

\* The loop invariant: what is chosen after n records.
ChosenOf(best, product, number, time, n) ==
  LET seen == {i \in Candidates(product, number) : i <= n}
  IN  \/ best = Nothing /\ seen = {}
      \/ best \in seen /\ \A i \in seen : Preferred(best, i, time)

LEMMA ChosenIsPreferred ==
  ASSUME Files, NEW product, NEW number, NEW time \in Int, NEW n \in Nat,
         n + 1 <= Len(m_messages), NEW f,
         ChosenOf(f[n], product, number, time, n)
  PROVE  ChosenOf(Chosen(f, product, number, time, n + 1), product, number, time, n + 1)
<1> DEFINE All     == Candidates(product, number)
           seen(k) == {i \in All : i <= k}
           b       == f[n]
           c       == Chosen(f, product, number, time, n + 1)
           wanted  == Wanted(m_messages[n + 1], product, number)
<1>1. /\ n + 1 \in DOMAIN m_messages /\ n + 1 # 0 /\ (n + 1) - 1 = n
      /\ All \subseteq DOMAIN m_messages /\ DOMAIN m_messages \subseteq Nat \ {0}
  BY DEF Files, Candidates
<1>2. n + 1 \in All <=> wanted
  BY <1>1 DEF Candidates
<1>3. seen(n + 1) = IF wanted THEN seen(n) \cup {n + 1} ELSE seen(n)
  BY <1>1, <1>2
<1>4. c = IF wanted /\ Better(n + 1, b, time) THEN n + 1 ELSE b
  BY <1>1 DEF Chosen
<1>5. \A i \in All : Diff(i, time) \in Nat /\ m_messages[i].level \in Int
  BY <1>1, DiffIsANumber, FieldsOfAFile
<1>6. \/ b = Nothing /\ seen(n) = {}
      \/ b \in seen(n) /\ \A i \in seen(n) : Preferred(b, i, time)
  BY DEF ChosenOf
<1> HIDE DEF b, c, wanted, All
<1>7. CASE ~wanted
  BY <1>3, <1>4, <1>6, <1>7 DEF ChosenOf, All, c
<1>8. CASE wanted /\ b = Nothing
  <2>1. c = n + 1 /\ seen(n) = {}
    BY <1>1, <1>4, <1>6, <1>8 DEF Better, Nothing
  <2>2. seen(n + 1) = {n + 1}
    BY <1>3, <1>8, <2>1
  <2>3. Preferred(n + 1, n + 1, time)
    BY DEF Preferred
  <2> QED  BY <2>1, <2>2, <2>3 DEF ChosenOf, All, c
<1>9. CASE wanted /\ b # Nothing
  <2>1. /\ b \in All /\ b <= n /\ b \in Nat /\ n + 1 \in All
        /\ \A i \in seen(n) : Preferred(b, i, time)
    BY <1>1, <1>2, <1>6, <1>9
  <2>2. /\ Diff(b, time) \in Nat /\ Diff(n + 1, time) \in Nat
        /\ m_messages[b].level \in Int /\ m_messages[n + 1].level \in Int
    BY <1>5, <2>1
  <2>3. CASE Better(n + 1, b, time)
    <3>1. c = n + 1
      BY <1>4, <1>9, <2>3
    <3>2. ASSUME NEW i \in seen(n) PROVE Preferred(n + 1, i, time)
      <4>1. Diff(i, time) \in Nat /\ m_messages[i].level \in Int /\ Preferred(b, i, time)
        BY <1>5, <2>1
      <4> QED  BY <1>9, <2>2, <2>3, <4>1 DEF Preferred, Better
    <3>3. Preferred(n + 1, n + 1, time)
      BY DEF Preferred
    <3> QED  BY <1>3, <1>9, <2>1, <3>1, <3>2, <3>3 DEF ChosenOf, All, c
  <2>4. CASE ~Better(n + 1, b, time)
    <3>1. c = b
      BY <1>4, <2>4
    <3>2. Preferred(b, n + 1, time)
      BY <1>9, <2>1, <2>2, <2>4 DEF Preferred, Better
    <3> QED  BY <1>3, <1>9, <2>1, <3>1, <3>2 DEF ChosenOf, All, c
  <2> QED  BY <2>3, <2>4
<1> QED  BY <1>7, <1>8, <1>9

LEMMA NearestIsPreferred ==
  ASSUME Files, NEW product, NEW number, NEW time \in Int
  PROVE  ChosenOf(FindNearest(product, number, time), product, number, time, Len(m_messages))
<1> DEFINE N       == Len(m_messages)
           b       == Best(product, number, time)
           Good(n) == ChosenOf(b[n], product, number, time, n)
           Bad     == {n \in 0..N : ~Good(n)}
<1>0. N \in Nat /\ DOMAIN m_messages = 1..N
  BY DEF Files
<1>1. Loops(b, product, number, time, N)
  BY BestLoops
<1> HIDE DEF b
<1> SUFFICES ASSUME Bad # {} PROVE FALSE
  BY <1>0 DEF FindNearest, b
<1>2. PICK n \in Bad : \A k \in Bad : n <= k
  <2>1. Bad \subseteq Nat
    BY <1>0
  <2> HIDE DEF Bad
  <2> QED  BY <2>1, LeastNumber
<1>3. b[n] = Chosen(b, product, number, time, n)
  BY <1>1, <1>2 DEF Loops
<1>4. CASE n = 0
  <2>1. b[n] = Nothing /\ {i \in Candidates(product, number) : i <= n} = {}
    BY <1>0, <1>3, <1>4 DEF Chosen, Candidates
  <2> QED  BY <1>2, <2>1 DEF ChosenOf
<1>5. CASE n # 0
  <2> DEFINE k == n - 1
  <2>1. k \in Nat /\ k + 1 = n /\ k + 1 <= N /\ k \in 0..N /\ k \notin Bad
    BY <1>0, <1>2, <1>5
  <2>2. Good(k)
    BY <2>1
  <2> HIDE DEF k
  <2>3. ChosenOf(Chosen(b, product, number, time, k + 1), product, number, time, k + 1)
    BY <2>1, <2>2, ChosenIsPreferred
  <2> QED  BY <1>2, <1>3, <2>1, <2>3
<1> QED  BY <1>4, <1>5
-----------------------------------------------------------------------------
(* The two components of a vector. *)

\* The later of two members of a set has more of it before it.
LEMMA BeforeGrows ==
  ASSUME NEW S, S \subseteq Int, IsFiniteSet(S), NEW a \in S, NEW b \in S
  PROVE  /\ Before(S, a) \in Nat /\ Before(S, b) \in Nat
         /\ a < b => Before(S, a) < Before(S, b)
<1> DEFINE A == {q \in S : q < a}
           B == {q \in S : q < b}
<1>1. A \in SUBSET S /\ B \in SUBSET S
  OBVIOUS
<1>2. IsFiniteSet(A) /\ IsFiniteSet(B)
  BY <1>1, FS_Subset
<1>3. Cardinality(A) \in Nat /\ Cardinality(B) \in Nat
  BY <1>2, FS_CardinalityType
<1>4. ASSUME a < b PROVE Cardinality(A) < Cardinality(B)
  <2>1. A \in SUBSET B /\ a \in B /\ a \notin A
    <3>1. a \in Int /\ b \in Int /\ \A q \in S : q \in Int
      OBVIOUS
    <3>2. \A q \in S : q < a => q < b
      BY <1>4, <3>1
    <3>3. \A q \in A : q \in B
      BY <3>2
    <3>4. a \in B /\ a \notin A
      BY <1>4, <3>1
    <3> HIDE DEF A, B
    <3> QED  BY <3>3, <3>4
  <2> HIDE DEF A, B
  <2>2. Cardinality(A) <= Cardinality(B) /\ (Cardinality(B) = Cardinality(A) => B = A)
    BY <1>2, <2>1, FS_Subset
  <2> QED  BY <1>3, <2>1, <2>2
<1> QED  BY <1>3, <1>4 DEF Before

LEMMA BeforeTells ==
  ASSUME NEW S, S \subseteq Int, IsFiniteSet(S), NEW a \in S, NEW b \in S,
         Before(S, a) <= Before(S, b)
  PROVE  a <= b
<1>1. a \in Int /\ b \in Int
  OBVIOUS
<1>2. Before(S, a) \in Nat /\ Before(S, b) \in Nat /\ (b < a => Before(S, b) < Before(S, a))
  BY BeforeGrows
<1> QED  BY <1>1, <1>2

LEMMA CandidatesAreRecords ==
  ASSUME Files, NEW product, NEW number
  PROVE  /\ Candidates(product, number) \subseteq Nat \ {0}
         /\ IsFiniteSet(Candidates(product, number))
         /\ \A i \in Candidates(product, number) :
              i \in DOMAIN m_messages /\ m_messages[i] \in Records /\ i <= Len(m_messages)
<1>1. DOMAIN m_messages = 1..Len(m_messages) /\ Len(m_messages) \in Nat
  BY DEF Files
<1>2. IsFiniteSet(1..Len(m_messages)) /\ Candidates(product, number) \in SUBSET (1..Len(m_messages))
  BY <1>1, FS_Interval DEF Candidates
<1>3. IsFiniteSet(Candidates(product, number))
  BY <1>2, FS_Subset
<1> QED  BY <1>1, <1>2, <1>3, FieldsOfAFile

\* Records of one forecast differ in nothing but the component.
LEMMA OneForecastOneField ==
  ASSUME NEW f \in Records, NEW g \in Records, SameForecast(f, g)
  PROVE  /\ f.valid_time = g.valid_time /\ f.level = g.level
         /\ f.lo1 = g.lo1 /\ f.di = g.di /\ f.ni = g.ni /\ f.i_increasing = g.i_increasing
         /\ f.la1 = g.la1 /\ f.dj = g.dj /\ f.nj = g.nj /\ f.j_increasing = g.j_increasing
         /\ f.present = g.present /\ f.packed = g.packed
         /\ f.bitmap = g.bitmap /\ f.num_bits = g.num_bits
<1> DEFINE h == [f EXCEPT !.number = "u"]
           k == [g EXCEPT !.number = "u"]
<1>1. h = k
  BY DEF SameForecast
<1>2. /\ h.valid_time = f.valid_time /\ h.level = f.level
      /\ h.lo1 = f.lo1 /\ h.di = f.di /\ h.ni = f.ni /\ h.i_increasing = f.i_increasing
      /\ h.la1 = f.la1 /\ h.dj = f.dj /\ h.nj = f.nj /\ h.j_increasing = f.j_increasing
      /\ h.present = f.present /\ h.packed = f.packed
      /\ h.bitmap = f.bitmap /\ h.num_bits = f.num_bits
  BY RecordsAssumption
<1>3. /\ k.valid_time = g.valid_time /\ k.level = g.level
      /\ k.lo1 = g.lo1 /\ k.di = g.di /\ k.ni = g.ni /\ k.i_increasing = g.i_increasing
      /\ k.la1 = g.la1 /\ k.dj = g.dj /\ k.nj = g.nj /\ k.j_increasing = g.j_increasing
      /\ k.present = g.present /\ k.packed = g.packed
      /\ k.bitmap = g.bitmap /\ k.num_bits = g.num_bits
  BY RecordsAssumption
<1> HIDE DEF h, k
<1> QED  BY <1>1, <1>2, <1>3

\* They answer alike.
LEMMA OneForecastOneAnswer ==
  ASSUME NEW f \in Records, NEW g \in Records, SameForecast(f, g), NEW lat, NEW lon
  PROVE  SampleAt(f, lat, lon) = SampleAt(g, lat, lon)
<1>1. Points(f) = Points(g)
  BY OneForecastOneField DEF Points
<1>2. Column(f, lon) = Column(g, lon) /\ Row(f, lat) = Row(g, lat)
  BY OneForecastOneField DEF Column, Row, LonDiff
<1>3. \A p : Excluded(f, p) <=> Excluded(g, p)
  BY OneForecastOneField DEF Excluded
<1>4. {q \in Points(f) : ~Excluded(f, q)} = {q \in Points(g) : ~Excluded(g, q)}
  BY <1>1, <1>3
<1>5. \A p : UnpackedBefore(f, p) = UnpackedBefore(g, p)
  BY <1>4 DEF UnpackedBefore
<1>6. Values(f) = Values(g)
  <2>1. f.present = g.present /\ f.packed = g.packed
    BY OneForecastOneField
  <2> QED  BY <2>1 DEF Values
<1>7. UnpackSimple(f) = UnpackSimple(g)
  <2>1. f.num_bits = g.num_bits
    BY OneForecastOneField
  <2> QED  BY <1>1, <1>3, <1>5, <1>6, <2>1 DEF UnpackSimple
<1>8. f.ni = g.ni /\ f.nj = g.nj
  BY OneForecastOneField
<1> QED  BY <1>2, <1>7, <1>8 DEF SampleAt

\* The nearest u and the nearest v are of one forecast.
LEMMA NearestArePartners ==
  ASSUME Files, NEW product \in Products, NEW time \in Int,
         Paired(product), Candidates(product, "u") # {}
  PROVE  LET i == FindNearest(product, "u", time)
             j == FindNearest(product, "v", time)
         IN  /\ i \in Candidates(product, "u") /\ j \in Candidates(product, "v")
             /\ SameForecast(m_messages[i], m_messages[j])
<1> DEFINE us == Candidates(product, "u")
           vs == Candidates(product, "v")
           i  == FindNearest(product, "u", time)
           j  == FindNearest(product, "v", time)
<1>1. /\ \A k \in us : \E l \in vs : Partners(product, k, l)
      /\ \A l \in vs : \E k \in us : Partners(product, k, l)
  BY DEF Paired
<1>2. /\ \/ i = Nothing /\ us = {}
         \/ i \in us /\ \A k \in us : Preferred(i, k, time)
      /\ \/ j = Nothing /\ vs = {}
         \/ j \in vs /\ \A l \in vs : Preferred(j, l, time)
  <2>1. /\ ChosenOf(i, product, "u", time, Len(m_messages))
        /\ ChosenOf(j, product, "v", time, Len(m_messages))
    BY NearestIsPreferred
  <2>2. /\ {k \in us : k <= Len(m_messages)} = us
        /\ {l \in vs : l <= Len(m_messages)} = vs
    BY CandidatesAreRecords
  <2> QED  BY <2>1, <2>2 DEF ChosenOf
<1>3. /\ us \subseteq Int /\ IsFiniteSet(us) /\ vs \subseteq Int /\ IsFiniteSet(vs)
      /\ \A k \in us \cup vs : /\ k \in DOMAIN m_messages /\ m_messages[k] \in Records
                               /\ Diff(k, time) \in Nat /\ m_messages[k].level \in Int
                               /\ k \in Nat
  <2>1. /\ us \subseteq Nat \ {0} /\ IsFiniteSet(us) /\ vs \subseteq Nat \ {0} /\ IsFiniteSet(vs)
        /\ \A k \in us \cup vs : k \in DOMAIN m_messages /\ m_messages[k] \in Records
    BY CandidatesAreRecords
  <2> HIDE DEF us, vs
  <2> QED  BY <2>1, DiffIsANumber, FieldsOfAFile
<1>4. ASSUME NEW k \in us, NEW l \in vs, Partners(product, k, l)
      PROVE  /\ Diff(k, time) = Diff(l, time) /\ m_messages[k].level = m_messages[l].level
             /\ Before(us, k) = Before(vs, l)
             /\ SameForecast(m_messages[k], m_messages[l])
  BY <1>3, <1>4, OneForecastOneField DEF Partners, Diff
<1> HIDE DEF us, vs, i, j
<1>5. us # {} /\ vs # {}
  BY <1>1 DEF us
<1>6. i \in us /\ j \in vs
  BY <1>2, <1>5
<1>7. PICK l \in vs : Partners(product, i, l)
  BY <1>1, <1>6
<1>8. PICK k \in us : Partners(product, k, j)
  BY <1>1, <1>6
<1>9. Preferred(i, k, time) /\ Preferred(j, l, time)
  BY <1>2, <1>5
<1>10. i <= k /\ j <= l
  <2>1. /\ Diff(i, time) = Diff(l, time) /\ m_messages[i].level = m_messages[l].level
        /\ Diff(k, time) = Diff(j, time) /\ m_messages[k].level = m_messages[j].level
    BY <1>4, <1>6, <1>7, <1>8
  <2>2. /\ Diff(i, time) \in Nat /\ m_messages[i].level \in Int
        /\ Diff(j, time) \in Nat /\ m_messages[j].level \in Int
    BY <1>3, <1>6
  <2> QED  BY <1>9, <2>1, <2>2 DEF Preferred
<1>11. Before(us, i) <= Before(us, k)
  <2>1. /\ Before(us, i) \in Nat /\ Before(us, k) \in Nat
        /\ i < k => Before(us, i) < Before(us, k)
    BY <1>3, <1>6, BeforeGrows
  <2> QED  BY <1>3, <1>6, <1>10, <2>1
<1>12. l <= j
  <2>1. Before(vs, l) <= Before(vs, j)
    BY <1>4, <1>6, <1>7, <1>8, <1>11
  <2> QED  BY <1>3, <1>6, <2>1, BeforeTells
<1>13. l = j
  BY <1>3, <1>6, <1>10, <1>12
<1> QED  BY <1>4, <1>6, <1>7, <1>13 DEF us, vs, i, j
-----------------------------------------------------------------------------
(* UnpackSimple. *)

LEMMA FieldsOfARecord ==
  ASSUME NEW f \in Records
  PROVE  /\ f.ni \in Nat \ {0} /\ f.nj \in Nat \ {0} /\ f.di \in Nat \ {0} /\ f.dj \in Nat \ {0}
         /\ f.lo1 \in Int /\ f.la1 \in Int
         /\ f.i_increasing \in BOOLEAN /\ f.j_increasing \in BOOLEAN
         /\ f.packed \in Nat /\ f.num_bits \in Nat /\ f.bitmap \in {"none", "given", "short"}
         /\ f.present \subseteq Points(f) /\ (f.bitmap = "none" => f.present = Points(f))
BY RecordsAssumption

LEMMA PointsAreNumbers ==
  ASSUME NEW f \in Records
  PROVE  /\ Points(f) \subseteq Nat /\ f.present \subseteq Nat
         /\ IsFiniteSet(f.present) /\ Cardinality(f.present) \in Nat
<1>1. f.ni * f.nj \in Nat
  BY FieldsOfARecord
<1>2. Points(f) \subseteq Nat
  BY <1>1 DEF Points
<1>3. IsFiniteSet(Points(f))
  BY <1>1, FS_Interval DEF Points
<1>4. f.present \in SUBSET Points(f)
  BY FieldsOfARecord
<1>5. IsFiniteSet(f.present)
  BY <1>3, <1>4, FS_Subset
<1> QED  BY <1>2, <1>4, <1>5, FS_CardinalityType

\* Each value is for the point that has as many values before it.
LEMMA ValueOfAPoint ==
  ASSUME NEW f \in Records, NEW p \in f.present
  PROVE  /\ Before(f.present, p) \in Nat
         /\ Before(f.present, p) + 1 \in DOMAIN Values(f) <=> Before(f.present, p) < f.packed
         /\ Before(f.present, p) < f.packed => Values(f)[Before(f.present, p) + 1] = p
<1> DEFINE S == f.present
           n == Cardinality(S)
           b == Before(S, p)
           V == IF f.packed < n THEN f.packed ELSE n
<1>1. S \subseteq Int /\ IsFiniteSet(S) /\ n \in Nat /\ p \in S /\ f.packed \in Nat
  BY PointsAreNumbers, FieldsOfARecord
<1>2. b \in Nat /\ b < n
  <2> DEFINE A == {q \in S : q < p}
  <2>1. A \in SUBSET S /\ p \notin A
    <3>1. p \in Int
      BY <1>1
    <3> QED  BY <3>1
  <2>2. IsFiniteSet(A) /\ Cardinality(A) <= n /\ (n = Cardinality(A) => S = A)
    BY <1>1, <2>1, FS_Subset
  <2>3. Cardinality(A) \in Nat
    BY <2>2, FS_CardinalityType
  <2>4. b = Cardinality(A)
    BY DEF Before
  <2> HIDE DEF A, S, n, b
  <2> QED  BY <1>1, <2>1, <2>2, <2>3, <2>4
<1>3. DOMAIN Values(f) = 1..V
  BY DEF Values
<1>4. b + 1 \in DOMAIN Values(f) <=> b < f.packed
  <2> HIDE DEF b, n
  <2> QED  BY <1>1, <1>2, <1>3
<1>5. ASSUME b + 1 \in DOMAIN Values(f) PROVE Values(f)[b + 1] = p
  <2>1. Values(f)[b + 1] = CHOOSE q \in S : Before(S, q) = (b + 1) - 1
    BY <1>3, <1>5 DEF Values
  <2>2. (b + 1) - 1 = b
    BY <1>2
  <2> DEFINE c == CHOOSE q \in S : Before(S, q) = b
  <2>3. c \in S /\ Before(S, c) = b
    BY <1>1
  <2>4. c = p
    <3> HIDE DEF c, S
    <3>1. Before(S, c) <= Before(S, p) /\ Before(S, p) <= Before(S, c)
      BY <1>2, <2>3
    <3>2. c <= p /\ p <= c
      BY <1>1, <2>3, <3>1, BeforeTells
    <3> QED  BY <1>1, <2>3, <3>2
  <2> QED  BY <2>1, <2>2, <2>4
<1> QED  BY <1>2, <1>4, <1>5

\* What comes out is what the file has, a bitmap too short aside.
LEMMA UnpacksWhatIsFiled ==
  ASSUME NEW f \in Records, f.bitmap # "short", NEW p \in Points(f)
  PROVE  /\ UnpackSimple(f)[p] = IF p \in Filed(f) THEN FiledValue(f, p) ELSE NaN
         /\ p \in Filed(f) => FiledValue(f, p) # NaN
<1> DEFINE S == f.present
           b == Before(S, p)
<1>1. ~Excluded(f, p) <=> p \in S
  BY FieldsOfARecord DEF Excluded
<1>2. {q \in Points(f) : ~Excluded(f, q)} = S
  BY FieldsOfARecord DEF Excluded
<1>3. UnpackedBefore(f, p) = b
  BY <1>2 DEF UnpackedBefore
<1>4. UnpackSimple(f)[p] =
        CASE Excluded(f, p) -> NaN
          [] ~Excluded(f, p) /\ f.num_bits = 0 -> ReferenceValue
          [] OTHER -> IF b + 1 \in DOMAIN Values(f) THEN Values(f)[b + 1] ELSE NaN
  BY <1>3 DEF UnpackSimple
<1>5. p \in Nat
  BY PointsAreNumbers
<1>6. CASE p \notin S
  BY <1>1, <1>4, <1>6 DEF Filed
<1>7. CASE p \in S /\ f.num_bits = 0
  BY <1>1, <1>4, <1>7 DEF Filed, FiledValue, ReferenceValue, NaN
<1>8. CASE p \in S /\ f.num_bits # 0
  <2>1. UnpackSimple(f)[p] = IF b + 1 \in DOMAIN Values(f) THEN Values(f)[b + 1] ELSE NaN
    BY <1>1, <1>4, <1>8
  <2>2. /\ b + 1 \in DOMAIN Values(f) <=> b < f.packed
        /\ b < f.packed => Values(f)[b + 1] = p
    BY <1>8, ValueOfAPoint
  <2>3. p \in Filed(f) <=> b < f.packed
    BY <1>8 DEF Filed
  <2>4. FiledValue(f, p) = p /\ p # NaN
    BY <1>5, <1>8 DEF FiledValue, NaN
  <2> QED  BY <2>1, <2>2, <2>3, <2>4
<1> QED  BY <1>6, <1>7, <1>8
-----------------------------------------------------------------------------
(* SampleAt. *)

LEMMA Remainder ==
  ASSUME NEW x \in Int
  PROVE  x % Circle \in 0..(Circle - 1) /\ \E k \in Int : x % Circle = x + Circle * k
<1>1. Circle \in Nat \ {0}
  BY CircleAssumption
<1>2. x \div Circle \in Int /\ x % Circle \in 0..(Circle - 1)
      /\ x = Circle * (x \div Circle) + (x % Circle)
  BY <1>1
<1> DEFINE k == -(x \div Circle)
<1>3. k \in Int /\ x % Circle = x + Circle * k
  <2> DEFINE q == x \div Circle
             r == x % Circle
  <2>1. q \in Int /\ r \in Int /\ x = Circle * q + r
    BY <1>2
  <2> HIDE DEF q, r
  <2>2. -q \in Int /\ r = x + Circle * (-q)
    BY <1>1, <2>1
  <2> QED  BY <2>2 DEF q, r
<1> QED  BY <1>2, <1>3

\* The difference of two longitudes, the shorter way round.
LEMMA WrappedIsADifference ==
  ASSUME NEW x \in Int, NEW y \in Int
  PROVE  LET z == Wrapped((x % Circle) - (y % Circle))
         IN  z \in Int /\ 2 * Magnitude(z) <= Circle /\ \E k \in Int : z = x - y + Circle * k
<1> DEFINE d == (x % Circle) - (y % Circle)
           z == Wrapped(d)
<1>1. PICK k \in Int : x % Circle = x + Circle * k
  BY Remainder
<1>2. PICK l \in Int : y % Circle = y + Circle * l
  BY Remainder
<1>3. d \in Int /\ -Circle < d /\ d < Circle
  BY CircleAssumption, Remainder
<1>4. Circle \in Nat \ {0} /\ Half(Circle) \in Nat /\ 2 * Half(Circle) = Circle
  BY CircleAssumption DEF Half
<1>5. d = x - y + Circle * (k - l)
  <2>1. Circle * (k - l) = Circle * k - Circle * l /\ Circle * k \in Int /\ Circle * l \in Int
    BY <1>4
  <2> QED  BY <1>1, <1>2, <2>1
<1> HIDE DEF d
<1>6. /\ Circle * ((k - l) - 1) = Circle * (k - l) - Circle
      /\ Circle * ((k - l) + 1) = Circle * (k - l) + Circle
      /\ Circle * (k - l) \in Int
  BY <1>4
<1>7. z \in {d, d - Circle, d + Circle} /\ 2 * Magnitude(z) <= Circle
  BY <1>3, <1>4 DEF Wrapped, Magnitude
<1>8. \E m \in {k - l, (k - l) - 1, (k - l) + 1} : z = x - y + Circle * m
  BY <1>3, <1>4, <1>5, <1>6, <1>7
<1> QED  BY <1>3, <1>4, <1>7, <1>8 DEF d

\* No other way round is shorter, and one shorter than half the circle is it.
LEMMA WrappedIsShortest ==
  ASSUME NEW x \in Int, NEW y \in Int, NEW k \in Int
  PROVE  LET z == Wrapped((x % Circle) - (y % Circle))
             e == x - y + Circle * k
         IN  /\ Magnitude(z) <= Magnitude(e)
             /\ 2 * Magnitude(e) < Circle => z = e
<1> DEFINE z == Wrapped((x % Circle) - (y % Circle))
           e == x - y + Circle * k
<1>1. Circle \in Nat \ {0}
  BY CircleAssumption
<1>2. z \in Int /\ 2 * Magnitude(z) <= Circle
  BY WrappedIsADifference
<1>3. PICK l \in Int : z = x - y + Circle * l
  BY WrappedIsADifference
<1>4. e \in Int /\ e - z = Circle * (k - l) /\ k - l \in Int
  <2>1. Circle * (k - l) = Circle * k - Circle * l /\ Circle * k \in Int /\ Circle * l \in Int
    BY <1>1
  <2> QED  BY <1>3, <2>1
<1> HIDE DEF z, e
<1>5. ASSUME Magnitude(e - z) < Circle PROVE e = z
  <2>1. k - l = 0
    BY <1>1, <1>4, <1>5, LessThanAStep
  <2>2. Circle * (k - l) = 0
    BY <1>1, <2>1
  <2> QED  BY <1>2, <1>4, <2>2
<1>6. Magnitude(z) <= Magnitude(e)
  BY <1>1, <1>2, <1>4, <1>5 DEF Magnitude
<1>7. 2 * Magnitude(e) < Circle => z = e
  BY <1>1, <1>2, <1>4, <1>5 DEF Magnitude
<1> QED  BY <1>6, <1>7 DEF z, e

\* The meridian of a column, and how far it is from a place.
ColumnMeridian(f, col) == (f.lo1 + Signed(col * f.di, f.i_increasing)) % Circle
RowParallel(f, row)    == f.la1 + Signed(row * f.dj, f.j_increasing)

LEMMA SignedIsANumber ==
  ASSUME NEW x \in Int, NEW up \in BOOLEAN
  PROVE  Signed(x, up) \in Int /\ Magnitude(Signed(x, up)) = Magnitude(x)
BY DEF Signed, Magnitude

LEMMA SignedDifference ==
  ASSUME NEW x \in Int, NEW y \in Int, NEW up \in BOOLEAN
  PROVE  /\ Magnitude(x - Signed(y, up)) = Magnitude(Signed(x, up) - y)
         /\ Signed(Signed(y, up) - x, up) = y - Signed(x, up)
BY DEF Signed, Magnitude

LEMMA MagnitudeIsANumber ==
  ASSUME NEW x \in Int
  PROVE  Magnitude(x) \in Nat
BY DEF Magnitude

LEMMA ColumnIsNear ==
  ASSUME NEW f \in Records, NEW lon \in Int
  PROVE  /\ Column(f, lon) \in Int
         /\ 2 * Apart(ColumnMeridian(f, Column(f, lon)), lon) <= f.di
<1> DEFINE w   == LonDiff(f, lon)
           up  == f.i_increasing
           col == Column(f, lon)
           s   == Signed(col * f.di, up)
           M   == ColumnMeridian(f, col)
<1>0. /\ f.di \in Nat \ {0} /\ f.lo1 \in Int /\ up \in BOOLEAN /\ Circle \in Nat \ {0}
  BY FieldsOfARecord, CircleAssumption
<1>1. PICK k \in Int : w = lon - f.lo1 + Circle * k
  BY <1>0, WrappedIsADifference DEF LonDiff
<1>2. w \in Int
  BY <1>0, WrappedIsADifference DEF LonDiff
<1>3. Signed(w, up) \in Int
  BY <1>0, <1>2, SignedIsANumber
<1>4. col \in Int /\ 2 * Magnitude(Signed(w, up) - f.di * col) <= f.di
  BY <1>0, <1>3, LroundIsNear DEF Column
<1> HIDE DEF w, up, col
<1>5. col * f.di \in Int /\ f.di * col = col * f.di
  BY <1>0, <1>4
<1>6. s \in Int /\ Magnitude(s - w) = Magnitude(Signed(w, up) - f.di * col)
  <2>1. s \in Int /\ Magnitude(w - s) = Magnitude(Signed(w, up) - col * f.di)
    BY <1>0, <1>2, <1>5, SignedIsANumber, SignedDifference
  <2>2. Magnitude(w - s) = Magnitude(s - w)
    BY <1>2, <2>1 DEF Magnitude
  <2> QED  BY <1>5, <2>1, <2>2
<1>7. M = (f.lo1 + s) % Circle
  BY DEF ColumnMeridian, up
<1> HIDE DEF s, M
<1>8. PICK l \in Int : M = (f.lo1 + s) + Circle * l
  <2>1. f.lo1 + s \in Int
    BY <1>0, <1>6
  <2> QED  BY <1>7, <2>1, Remainder
<1>9. M \in Int
  BY <1>0, <1>6, <1>7, Remainder
<1>10. s - w = M - lon + Circle * (-l - k)
  <2>1. Circle * (-l - k) = -(Circle * l) - Circle * k /\ Circle * l \in Int /\ Circle * k \in Int
    BY <1>0
  <2> QED  BY <1>0, <1>1, <1>6, <1>8, <2>1
<1>11. Apart(M, lon) <= Magnitude(s - w)
  BY <1>9, <1>10, WrappedIsShortest DEF Apart
<1>12. Apart(M, lon) \in Int
  <2>1. Wrapped((M % Circle) - (lon % Circle)) \in Int
    BY <1>9, WrappedIsADifference
  <2> QED  BY <2>1, MagnitudeIsANumber DEF Apart
<1>13. 2 * Apart(M, lon) <= f.di
  <2>1. Magnitude(s - w) \in Int
    BY <1>2, <1>6 DEF Magnitude
  <2> QED  BY <1>0, <1>4, <1>6, <1>11, <1>12, <2>1
<1> QED  BY <1>4, <1>13 DEF M, col

LEMMA NearColumnIsFound ==
  ASSUME NEW f \in Records, Regional(f), NEW lon \in Int, NEW c \in 0..(f.ni - 1),
         2 * Apart(ColumnMeridian(f, c), lon) < f.di
  PROVE  Column(f, lon) = c
<1> DEFINE up == f.i_increasing
           s  == Signed(c * f.di, up)
           M  == ColumnMeridian(f, c)
           z  == Wrapped((M % Circle) - (lon % Circle))
           e  == s - z
<1>0. /\ f.di \in Nat \ {0} /\ f.ni \in Nat \ {0} /\ f.lo1 \in Int /\ up \in BOOLEAN
      /\ Circle \in Nat \ {0} /\ c \in Nat /\ c <= f.ni - 1
  BY FieldsOfARecord, CircleAssumption
<1>1. c * f.di \in Nat /\ c * f.di + f.di <= f.ni * f.di /\ f.ni * f.di \in Nat
  <2>1. f.ni - 1 - c \in Nat /\ (f.ni - 1 - c) * f.di \in Nat
    BY <1>0
  <2>2. f.ni * f.di = c * f.di + f.di + (f.ni - 1 - c) * f.di /\ c * f.di \in Nat
    BY <1>0
  <2>3. f.ni * f.di \in Nat
    BY <1>0
  <2> QED  BY <1>0, <2>1, <2>2, <2>3
<1> HIDE DEF up
<1>2. s \in Int /\ Magnitude(s) = c * f.di
  <2>1. s \in Int /\ Magnitude(s) = Magnitude(c * f.di)
    BY <1>0, <1>1, SignedIsANumber
  <2>2. Magnitude(c * f.di) = c * f.di
    <3> DEFINE n == c * f.di
    <3>1. n \in Nat
      BY <1>1
    <3> HIDE DEF n
    <3>2. Magnitude(n) = n
      BY <3>1 DEF Magnitude
    <3> QED  BY <3>2 DEF n
  <2> QED  BY <2>1, <2>2
<1>3. M = (f.lo1 + s) % Circle
  BY DEF ColumnMeridian, up
<1>4. 2 * Magnitude(z) < f.di
  BY DEF Apart
<1> HIDE DEF s, M
<1>5. PICK l \in Int : M = (f.lo1 + s) + Circle * l
  <2>1. f.lo1 + s \in Int
    BY <1>0, <1>2
  <2> QED  BY <1>3, <2>1, Remainder
<1>6. M \in Int
  BY <1>0, <1>2, <1>3, Remainder
<1>7. PICK k \in Int : z = M - lon + Circle * k
  BY <1>6, WrappedIsADifference
<1>8. z \in Int
  BY <1>6, WrappedIsADifference
<1> HIDE DEF z
<1>9. e \in Int /\ e = lon - f.lo1 + Circle * (-l - k)
  <2>1. Circle * (-l - k) = -(Circle * l) - Circle * k /\ Circle * l \in Int /\ Circle * k \in Int
    BY <1>0
  <2>2. s - z \in Int
    BY <1>2, <1>8
  <2> QED  BY <1>0, <1>2, <1>5, <1>6, <1>7, <1>8, <2>1, <2>2
<1>10. 2 * Magnitude(e) < Circle
  <2>1. 2 * (f.ni * f.di) <= Circle
    BY DEF Regional
  <2> DEFINE a == c * f.di
             b == f.ni * f.di
  <2>2. a \in Nat /\ b \in Nat /\ a + f.di <= b /\ 2 * b <= Circle /\ Magnitude(s) = a
    BY <1>1, <1>2, <2>1
  <2> HIDE DEF a, b
  <2> QED  BY <1>0, <1>2, <1>4, <1>8, <2>2 DEF Magnitude
<1>11. LonDiff(f, lon) = e
  <2>1. 2 * Magnitude(lon - f.lo1 + Circle * (-l - k)) < Circle /\ -l - k \in Int
    BY <1>9, <1>10
  <2> HIDE DEF e
  <2> QED  BY <1>0, <1>9, <2>1, WrappedIsShortest DEF LonDiff
<1>12. Signed(e, up) = c * f.di - Signed(z, up) /\ Signed(z, up) \in Int
       /\ Magnitude(Signed(z, up)) = Magnitude(z) /\ Signed(e, up) \in Int
  <2>1. c * f.di \in Int
    BY <1>1
  <2>2. Signed(e, up) = c * f.di - Signed(z, up)
    BY <1>0, <1>8, <2>1, SignedDifference DEF s
  <2> HIDE DEF e
  <2> QED  BY <1>0, <1>8, <1>9, <2>2, SignedIsANumber
<1>13. 2 * Magnitude(Signed(e, up) - f.di * c) < f.di
  <2> DEFINE a == c * f.di
             y == Signed(z, up)
  <2>1. f.di * c = a /\ a \in Int /\ y \in Int /\ Signed(e, up) = a - y /\ Magnitude(y) = Magnitude(z)
    BY <1>0, <1>1, <1>12
  <2> HIDE DEF a, y, e
  <2>2. Magnitude((a - y) - a) = Magnitude(y)
    BY <2>1 DEF Magnitude
  <2> QED  BY <1>4, <2>1, <2>2
<1> HIDE DEF e
<1>14. Lround(Signed(e, up), f.di) = c
  <2> DEFINE x == Signed(e, up)
             d == f.di
  <2>1. x \in Int /\ d \in Nat \ {0} /\ c \in Int /\ 2 * Magnitude(x - d * c) < d
    BY <1>0, <1>12, <1>13
  <2> HIDE DEF x, d
  <2>2. Lround(x, d) = c
    BY <2>1, LroundIs
  <2> QED  BY <2>2 DEF x, d
<1> QED  BY <1>11, <1>14 DEF Column, up

LEMMA RowIsNear ==
  ASSUME NEW f \in Records, NEW lat \in Int
  PROVE  /\ Row(f, lat) \in Int
         /\ 2 * Magnitude(RowParallel(f, Row(f, lat)) - lat) <= f.dj
<1> DEFINE up  == f.j_increasing
           x   == Signed(lat - f.la1, up)
           row == Row(f, lat)
           s   == Signed(row * f.dj, up)
<1>0. f.dj \in Nat \ {0} /\ f.la1 \in Int /\ up \in BOOLEAN /\ lat - f.la1 \in Int
  BY FieldsOfARecord
<1>1. x \in Int
  BY <1>0, SignedIsANumber
<1>2. row \in Int /\ 2 * Magnitude(x - f.dj * row) <= f.dj
  BY <1>0, <1>1, LroundIsNear DEF Row
<1> HIDE DEF up, row
<1>3. row * f.dj \in Int /\ f.dj * row = row * f.dj
  BY <1>0, <1>2
<1>4. s \in Int /\ Magnitude((lat - f.la1) - s) = Magnitude(x - row * f.dj)
  <2> DEFINE a == lat - f.la1
             n == row * f.dj
  <2>1. a \in Int /\ n \in Int /\ up \in BOOLEAN
    BY <1>0, <1>3
  <2> HIDE DEF a, n, up
  <2>2. Signed(n, up) \in Int /\ Magnitude(a - Signed(n, up)) = Magnitude(Signed(a, up) - n)
    BY <2>1, SignedIsANumber, SignedDifference
  <2> QED  BY <2>2 DEF a, n
<1>5. RowParallel(f, row) = f.la1 + s
  BY DEF RowParallel, up
<1> HIDE DEF x, s
<1>6. Magnitude(RowParallel(f, row) - lat) = Magnitude((lat - f.la1) - s)
  BY <1>0, <1>4, <1>5 DEF Magnitude
<1> QED  BY <1>2, <1>3, <1>4, <1>6 DEF row

LEMMA NearRowIsFound ==
  ASSUME NEW f \in Records, NEW lat \in Int, NEW r \in Nat,
         2 * Magnitude(RowParallel(f, r) - lat) < f.dj
  PROVE  Row(f, lat) = r
<1> DEFINE up == f.j_increasing
           x  == Signed(lat - f.la1, up)
           s  == Signed(r * f.dj, up)
<1>0. /\ f.dj \in Nat \ {0} /\ f.la1 \in Int /\ up \in BOOLEAN /\ lat - f.la1 \in Int
      /\ r * f.dj \in Int /\ f.dj * r = r * f.dj
  BY FieldsOfARecord
<1>1. x \in Int
  BY <1>0, SignedIsANumber
<1>2. s \in Int /\ Magnitude((lat - f.la1) - s) = Magnitude(x - r * f.dj)
  <2> DEFINE a == lat - f.la1
             n == r * f.dj
  <2>1. a \in Int /\ n \in Int /\ up \in BOOLEAN
    BY <1>0
  <2> HIDE DEF a, n, up
  <2>2. Signed(n, up) \in Int /\ Magnitude(a - Signed(n, up)) = Magnitude(Signed(a, up) - n)
    BY <2>1, SignedIsANumber, SignedDifference
  <2> QED  BY <2>2 DEF a, n
<1>3. RowParallel(f, r) = f.la1 + s
  BY DEF RowParallel
<1> HIDE DEF x, s, up
<1>4. Magnitude(RowParallel(f, r) - lat) = Magnitude((lat - f.la1) - s)
  BY <1>0, <1>2, <1>3 DEF Magnitude
<1>5. 2 * Magnitude(x - f.dj * r) < f.dj
  BY <1>0, <1>2, <1>4
<1>6. Lround(x, f.dj) = r
  <2> DEFINE d == f.dj
  <2>1. x \in Int /\ d \in Nat \ {0} /\ r \in Int /\ 2 * Magnitude(x - d * r) < d
    BY <1>0, <1>1, <1>5
  <2> HIDE DEF d
  <2>2. Lround(x, d) = r
    BY <2>1, LroundIs
  <2> QED  BY <2>2 DEF d
<1> QED  BY <1>6 DEF Row, x, up

\* The point at a column and a row lies on their meridian and parallel.
LEMMA WhereAPointLies ==
  ASSUME NEW f \in Records, NEW p \in Points(f)
  PROVE  /\ p % f.ni \in 0..(f.ni - 1) /\ p \div f.ni \in 0..(f.nj - 1)
         /\ p = (p \div f.ni) * f.ni + (p % f.ni)
         /\ Meridian(f, p) = ColumnMeridian(f, p % f.ni)
         /\ Parallel(f, p) = RowParallel(f, p \div f.ni)
<1>1. p \in 0..(f.ni * f.nj - 1) /\ f.ni \in Nat \ {0} /\ f.nj \in Nat \ {0}
  BY FieldsOfARecord DEF Points
<1>2. /\ p % f.ni \in 0..(f.ni - 1) /\ p \div f.ni \in 0..(f.nj - 1)
      /\ p = (p \div f.ni) * f.ni + (p % f.ni)
  BY <1>1, RowAndColumnOfPoint
<1> QED  BY <1>2 DEF Meridian, Parallel, ColumnMeridian, RowParallel

LEMMA AnswersAreNear ==
  ASSUME NEW f \in Records, f.bitmap # "short", NEW lat \in Int, NEW lon \in Int,
         SampleAt(f, lat, lon) # NaN
  PROVE  \E p \in Filed(f) : NearBy(f, p, lat, lon) /\ SampleAt(f, lat, lon) = FiledValue(f, p)
<1> DEFINE col == Column(f, lon)
           row == Row(f, lat)
           p   == row * f.ni + col
<1>1. /\ col \in 0..(f.ni - 1) /\ row \in 0..(f.nj - 1)
      /\ SampleAt(f, lat, lon) = UnpackSimple(f)[p]
  BY DEF SampleAt
<1>2. f.ni \in Nat \ {0} /\ f.nj \in Nat \ {0}
  BY FieldsOfARecord
<1>3. 2 * Apart(ColumnMeridian(f, col), lon) <= f.di /\ 2 * Magnitude(RowParallel(f, row) - lat) <= f.dj
  BY ColumnIsNear, RowIsNear
<1> HIDE DEF col, row
<1>4. p \in Points(f) /\ p % f.ni = col /\ p \div f.ni = row
  <2> DEFINE ni == f.ni
             nj == f.nj
  <2>1. ni \in Nat \ {0} /\ nj \in Nat \ {0} /\ col \in 0..(ni - 1) /\ row \in 0..(nj - 1)
    BY <1>1, <1>2
  <2> HIDE DEF ni, nj
  <2>2. /\ row * ni + col \in 0..(ni * nj - 1)
        /\ (row * ni + col) % ni = col /\ (row * ni + col) \div ni = row
    BY <2>1, PointOfRowAndColumn
  <2> QED  BY <2>2 DEF Points, ni, nj
<1> HIDE DEF p
<1>5. p \in Filed(f) /\ SampleAt(f, lat, lon) = FiledValue(f, p)
  BY <1>1, <1>4, UnpacksWhatIsFiled
<1>6. NearBy(f, p, lat, lon)
  BY <1>3, <1>4, WhereAPointLies DEF NearBy
<1> QED  BY <1>5, <1>6

LEMMA NearPointsAnswer ==
  ASSUME NEW f \in Records, f.bitmap # "short", Regional(f), NEW lat \in Int, NEW lon \in Int,
         NEW p \in Filed(f), Around(f, p, lat, lon)
  PROVE  SampleAt(f, lat, lon) # NaN
<1>1. p \in Points(f)
  BY FieldsOfARecord DEF Filed
<1> DEFINE c == p % f.ni
           r == p \div f.ni
<1>2. /\ c \in 0..(f.ni - 1) /\ r \in 0..(f.nj - 1) /\ p = r * f.ni + c
      /\ Meridian(f, p) = ColumnMeridian(f, c) /\ Parallel(f, p) = RowParallel(f, r)
  BY <1>1, WhereAPointLies
<1> HIDE DEF c, r
<1>3. 2 * Apart(ColumnMeridian(f, c), lon) < f.di /\ 2 * Magnitude(RowParallel(f, r) - lat) < f.dj
  BY <1>2 DEF Around
<1>4. Column(f, lon) = c
  BY <1>2, <1>3, NearColumnIsFound
<1>5. Row(f, lat) = r
  BY <1>2, <1>3, NearRowIsFound
<1>6. SampleAt(f, lat, lon) = UnpackSimple(f)[p]
  BY <1>2, <1>4, <1>5 DEF SampleAt
<1> QED  BY <1>1, <1>6, UnpacksWhatIsFiled
-----------------------------------------------------------------------------
LEMMA FilesInvariant == Spec => []Files
<1>1. Init => Files
  BY DEF Init, Files
<1>2. Files /\ [Next]_m_messages => Files'
  <2> SUFFICES ASSUME Files, [Next]_m_messages PROVE Files'
    OBVIOUS
  <2>1. ASSUME NEW f \in Records, PushBack(f) PROVE Files'
    BY <2>1 DEF PushBack, Files
  <2>2. CASE UNCHANGED m_messages
    BY <2>2 DEF Files
  <2> QED  BY <2>1, <2>2 DEF Next
<1> QED  BY <1>1, <1>2, PTL DEF Spec

(***************************************************************************)
(* FindNearest answers with the record nearest in time, at the lowest of   *)
(* the levels that are as near and with the first in the file of those,    *)
(* and with none only if there is none (grib_reader.cpp:336-365).          *)
(***************************************************************************)
THEOREM AnswersNearestRecord == Spec => []NearestFirst
<1>1. Files => NearestFirst
  <2> SUFFICES ASSUME Files, NEW product \in Products, NEW number \in Components,
                      NEW time \in Queries
               PROVE  LET best == FindNearest(product, number, time)
                      IN  /\ best = Nothing <=> Candidates(product, number) = {}
                          /\ \A i \in Candidates(product, number) : Preferred(best, i, time)
    BY DEF NearestFirst, Preferred
  <2> DEFINE best == FindNearest(product, number, time)
             All  == Candidates(product, number)
  <2>1. time \in Int /\ Len(m_messages) \in Nat
    BY QueriesAssumption DEF Files
  <2>2. ChosenOf(best, product, number, time, Len(m_messages))
    BY <2>1, NearestIsPreferred
  <2>3. All = {i \in All : i <= Len(m_messages)} /\ 0 \notin All
    BY DEF Candidates, Files
  <2> HIDE DEF best, All
  <2>4. \/ best = Nothing /\ All = {}
        \/ best \in All /\ \A i \in All : Preferred(best, i, time)
    BY <2>2, <2>3 DEF ChosenOf, All
  <2> QED  BY <2>3, <2>4 DEF best, All, Nothing
<1> QED  BY <1>1, FilesInvariant, PTL

(***************************************************************************)
(* Wind and current are a vector of one forecast, though u and v are       *)
(* looked up apart (grib_reader.cpp:392-430), in every file that has both  *)
(* components of every forecast in one order.                              *)
(***************************************************************************)
THEOREM AnswersOneForecast == Spec => []VectorOfOneForecast
<1>1. Files => VectorOfOneForecast
  <2> SUFFICES ASSUME Files, NEW product \in Products, NEW time \in Queries
               PROVE  /\ \A place \in Places :
                           LET answer == Lookup(product, place[1], place[2], time)
                           IN  /\ answer.u = NaN <=> answer.v = NaN
                               /\ Paired(product) => answer.u = answer.v
                      /\ Paired(product) /\ Candidates(product, "u") # {} =>
                           SameForecast(m_messages[FindNearest(product, "u", time)],
                                        m_messages[FindNearest(product, "v", time)])
    BY DEF VectorOfOneForecast
  <2>0. time \in Int
    BY QueriesAssumption
  <2>1. ASSUME Paired(product), Candidates(product, "u") # {}
        PROVE  SameForecast(m_messages[FindNearest(product, "u", time)],
                            m_messages[FindNearest(product, "v", time)])
    BY <2>0, <2>1, NearestArePartners
  <2>2. ASSUME NEW place \in Places
        PROVE  LET answer == Lookup(product, place[1], place[2], time)
               IN  /\ answer.u = NaN <=> answer.v = NaN
                   /\ Paired(product) => answer.u = answer.v
    <3> DEFINE i == FindNearest(product, "u", time)
               j == FindNearest(product, "v", time)
               u == SampleAt(m_messages[i], place[1], place[2])
               v == SampleAt(m_messages[j], place[1], place[2])
               answer == Lookup(product, place[1], place[2], time)
    <3>1. \/ answer = [u |-> NaN, v |-> NaN]
          \/ i # Nothing /\ u # NaN /\ v # NaN /\ answer = [u |-> u, v |-> v]
      BY DEF Lookup, NotAvailable
    <3>2. ASSUME Paired(product), i # Nothing PROVE u = v
      <4>1. Candidates(product, "u") # {}
        <5>1. ChosenOf(i, product, "u", time, Len(m_messages))
          BY <2>0, NearestIsPreferred
        <5> QED  BY <3>2, <5>1 DEF ChosenOf
      <4>2. m_messages[i] \in Records /\ m_messages[j] \in Records
        BY <2>0, <3>2, <4>1, NearestArePartners, CandidatesAreRecords
      <4> QED  BY <2>1, <3>2, <4>1, <4>2, OneForecastOneAnswer
    <3> HIDE DEF u, v, i, j, answer
    <3>3. (answer.u = NaN <=> answer.v = NaN) /\ (Paired(product) => answer.u = answer.v)
      BY <3>1, <3>2
    <3> QED  BY <3>3 DEF answer
  <2> QED  BY <2>1, <2>2
<1> QED  BY <1>1, FilesInvariant, PTL

(***************************************************************************)
(* A field answers with what the file has for the nearest point, whatever  *)
(* the grid, the direction of scanning, the meridians it crosses, the      *)
(* points the bitmap leaves out and the end of the data; and a grid of     *)
(* less than half the globe answers near each of its points that has a     *)
(* value (UnpackSimple and SampleAt, grib_reader.cpp:91-128, :371-390).    *)
(***************************************************************************)
THEOREM AnswersNearPoints == Spec => []AnswersNearestPoint
<1>1. Files => AnswersNearestPoint
  <2> SUFFICES ASSUME Files, NEW f \in Loaded, f.bitmap # "short",
                      NEW lat \in Latitudes, NEW lon \in Longitudes
               PROVE  LET v == SampleAt(f, lat, lon)
                      IN  /\ v # NaN => \E p \in Filed(f) :
                               NearBy(f, p, lat, lon) /\ v = FiledValue(f, p)
                          /\ Regional(f) /\ (\E p \in Filed(f) : Around(f, p, lat, lon)) => v # NaN
    BY DEF AnswersNearestPoint
  <2>1. f \in Records
    BY DEF Loaded, Files
  <2>2. lat \in Int /\ lon \in Int
    BY QueriesAssumption, CircleAssumption DEF Longitudes
  <2>3. SampleAt(f, lat, lon) # NaN => \E p \in Filed(f) :
          NearBy(f, p, lat, lon) /\ SampleAt(f, lat, lon) = FiledValue(f, p)
    BY <2>1, <2>2, AnswersAreNear
  <2>4. ASSUME Regional(f), NEW p \in Filed(f), Around(f, p, lat, lon)
        PROVE  SampleAt(f, lat, lon) # NaN
    BY <2>1, <2>2, <2>4, NearPointsAnswer
  <2> QED  BY <2>3, <2>4
<1> QED  BY <1>1, FilesInvariant, PTL
=============================================================================
