------------------------ MODULE PositionParseProofs ------------------------
(***************************************************************************)
(* What is proved of the position parser, for every text of any length and *)
(* whatever numerals there are: it accepts the documented notations and    *)
(* nothing else, reads from them the place they say, and reads back what   *)
(* OpenCPN shows.                                                          *)
(*                                                                         *)
(* A text is followed from its characters to its words, which leave out    *)
(* white space and marks, from there to the tokens of ParseCoordinate, and *)
(* from their numbers and their letter to a coordinate; then a position is *)
(* cut into its two coordinates, in the one way it can be.                 *)
(***************************************************************************)
EXTENDS PositionParse, WellFoundedInduction, SequenceTheorems, TLAPS

(***************************************************************************)
(* Induction over the numbers in a set, and the loops of the parser: each  *)
(* is a function of how far the text has been read.                        *)
(***************************************************************************)
LEMMA LeastOfSome ==
  ASSUME NEW S, S \subseteq Nat, S # {}
  PROVE  \E m \in S : \A k \in S : m <= k
<1>1. PICK m \in S : \A k \in S : ~(<<k, m>> \in OpToRel(<, Nat))
  BY NatLessThanWellFounded, WFMin
<1>2. ASSUME NEW k \in S PROVE m <= k
  <2>1. ~(k < m)
    BY <1>1 DEF OpToRel
  <2> QED  BY <2>1
<1> QED  BY <1>2

\* What holds of 0, and of every successor, holds of every number.
LEMMA StepByStep ==
  ASSUME NEW S, 0 \in S, \A n \in Nat : n \in S => n + 1 \in S
  PROVE  Nat \subseteq S
<1> DEFINE Lacking == Nat \ S
<1> SUFFICES ASSUME Lacking # {} PROVE FALSE
  OBVIOUS
<1>1. PICK k \in Lacking : \A j \in Lacking : k <= j
  BY LeastOfSome
<1>2. k # 0 /\ k - 1 \in Nat /\ (k - 1) + 1 = k
  BY <1>1
<1>3. k - 1 \in S
  BY <1>1, <1>2
<1> QED  BY <1>1, <1>2, <1>3

CutTurn(f, s, separators, n) ==
  IF n = 0 THEN <<>>
  ELSE IF s[n] \in separators THEN f[n - 1]
  ELSE IF n = 1 \/ s[n - 1] \in separators THEN Append(f[n - 1], <<s[n]>>)
  ELSE [f[n - 1] EXCEPT ![Len(f[n - 1])] = Append(@, s[n])]

WordTurn(f, s, n) ==
  IF n = 0 THEN <<>>
  ELSE IF s[n] \in White THEN f[n - 1] ELSE Append(f[n - 1], s[n])

Turn(f, s, cutting, n) == IF cutting THEN CutTurn(f, s, White, n) ELSE WordTurn(f, s, n)

\* A turn of a loop looks back one step at most.
LEMMA SameTurn ==
  ASSUME NEW f, NEW g, NEW s, NEW cutting, NEW n, n # 0 => f[n - 1] = g[n - 1]
  PROVE  Turn(f, s, cutting, n) = Turn(g, s, cutting, n)
<1>1. CutTurn(f, s, White, n) = CutTurn(g, s, White, n)
  BY DEF CutTurn
<1>2. WordTurn(f, s, n) = WordTurn(g, s, n)
  BY DEF WordTurn
<1> QED  BY <1>1, <1>2 DEF Turn

\* So there is a function that is each of its turns.
LEMMA TurnsExist ==
  ASSUME NEW s, NEW cutting, NEW N \in Nat
  PROVE  \E f : f = [n \in 0..N |-> Turn(f, s, cutting, n)]
<1> DEFINE Body(f, n) == Turn(f, s, cutting, n)
           S == {k \in Nat : \E f : \A n \in 0..k : f[n] = Body(f, n)}
<1>1. 0 \in S
  <2> DEFINE f == [n \in 0..0 |-> <<>>]
  <2>1. f[0] = Body(f, 0)
    BY DEF Turn, CutTurn, WordTurn
  <2> HIDE DEF f, Body
  <2>2. \A n \in 0..0 : f[n] = Body(f, n)
    <3>1. \A n \in 0..0 : n = 0
      OBVIOUS
    <3> QED  BY <2>1, <3>1
  <2> QED  BY <2>2
<1>2. ASSUME NEW k \in Nat, k \in S PROVE k + 1 \in S
  <2>1. PICK f : \A n \in 0..k : f[n] = Body(f, n)
    BY <1>2
  <2> DEFINE g == [n \in 0..(k + 1) |-> IF n = k + 1 THEN Body(f, n) ELSE f[n]]
  <2>2. ASSUME NEW n \in 0..(k + 1) PROVE g[n] = Body(g, n)
    <3>1. g[n] = Body(f, n)
      <4>1. CASE n = k + 1
        BY <4>1
      <4>2. CASE n # k + 1
        <5>1. n \in 0..k
          BY <4>2
        <5> QED  BY <2>1, <4>2, <5>1
      <4> QED  BY <4>1, <4>2
    <3>2. n # 0 => f[n - 1] = g[n - 1]
      OBVIOUS
    <3> HIDE DEF g
    <3> QED  BY <3>1, <3>2, SameTurn
  <2> HIDE DEF g
  <2> QED  BY <2>2
<1>3. N \in S
  BY <1>1, <1>2, StepByStep
<1>4. PICK f : \A n \in 0..N : f[n] = Body(f, n)
  BY <1>3
<1> DEFINE g == [n \in 0..N |-> f[n]]
<1>5. ASSUME NEW n \in 0..N PROVE g[n] = Body(g, n)
  <2>1. g[n] = Body(f, n)
    BY <1>4
  <2>2. n # 0 => f[n - 1] = g[n - 1]
    OBVIOUS
  <2> HIDE DEF g
  <2> QED  BY <2>1, <2>2, SameTurn
<1>6. g = [n \in 0..N |-> Body(g, n)]
  <2>1. g = [n \in 0..N |-> g[n]]
    OBVIOUS
  <2> HIDE DEF g, Body
  <2> QED  BY <1>5, <2>1
<1> HIDE DEF g
<1> QED  BY <1>6

\* cut and words, as the definitions have them.
Cuts(f, s)   == \A n \in 0..Len(s) : f[n] = CutTurn(f, s, White, n)
Spells(f, s) == \A n \in 0..Len(s) : f[n] = WordTurn(f, s, n)

\* Tokens is what its loop has made of the whole text.
LEMMA TokensAreCut ==
  ASSUME NEW s, Len(s) \in Nat
  PROVE  \E f : Cuts(f, s) /\ Tokens(s) = f[Len(s)]
<1> DEFINE b == CHOOSE f : f = [n \in 0..Len(s) |-> CutTurn(f, s, White, n)]
<1>1. PICK f : f = [n \in 0..Len(s) |-> Turn(f, s, TRUE, n)]
  BY TurnsExist
<1>2. f = [n \in 0..Len(s) |-> CutTurn(f, s, White, n)]
  BY <1>1 DEF Turn
<1>3. Tokens(s) = b[Len(s)]
  BY DEF Tokens, Cut, CutTurn
<1>4. b = [n \in 0..Len(s) |-> CutTurn(b, s, White, n)]
  BY <1>2
<1> HIDE DEF b
<1> QED  BY <1>3, <1>4 DEF Cuts

\* And so is Words.
LEMMA WordsAreSpelt ==
  ASSUME NEW s, Len(s) \in Nat
  PROVE  \E f : Spells(f, s) /\ Words(s) = f[Len(s)]
<1> DEFINE b == CHOOSE f : f = [n \in 0..Len(s) |-> WordTurn(f, s, n)]
<1>1. PICK f : f = [n \in 0..Len(s) |-> Turn(f, s, FALSE, n)]
  BY TurnsExist
<1>2. f = [n \in 0..Len(s) |-> WordTurn(f, s, n)]
  BY <1>1 DEF Turn
<1>3. Words(s) = b[Len(s)]
  BY DEF Words, WordTurn
<1>4. b = [n \in 0..Len(s) |-> WordTurn(b, s, n)]
  BY <1>2
<1> HIDE DEF b
<1> QED  BY <1>3, <1>4 DEF Spells
-----------------------------------------------------------------------------
(***************************************************************************)
(* The words of a text: white space is not in them, and the words of two   *)
(* texts together are the words of both.                                   *)
(***************************************************************************)
LEMMA SpellsWords ==
  ASSUME NEW E, NEW s \in Seq(E), NEW w, Spells(w, s)
  PROVE  \A n \in 0..Len(s) : w[n] \in Seq(E \ White)
<1> DEFINE S == {n \in Nat : n <= Len(s) => w[n] \in Seq(E \ White)}
<1>0. Len(s) \in Nat
  OBVIOUS
<1>1. 0 \in S
  <2>1. w[0] = <<>>
    BY <1>0 DEF Spells, WordTurn
  <2> QED  BY <2>1, EmptySeq
<1>2. ASSUME NEW n \in Nat, n \in S PROVE n + 1 \in S
  <2> SUFFICES ASSUME n + 1 <= Len(s) PROVE w[n + 1] \in Seq(E \ White)
    OBVIOUS
  <2>1. w[n] \in Seq(E \ White) /\ s[n + 1] \in E
    BY <1>0, <1>2
  <2>2. w[n + 1] = IF s[n + 1] \in White THEN w[n] ELSE Append(w[n], s[n + 1])
    <3>1. n + 1 \in 0..Len(s) /\ n + 1 # 0 /\ (n + 1) - 1 = n
      BY <1>0
    <3> QED  BY <3>1 DEF Spells, WordTurn
  <2> QED  BY <2>1, <2>2
<1> HIDE DEF S
<1>3. Nat \subseteq S
  BY <1>1, <1>2, StepByStep
<1> QED  BY <1>0, <1>3 DEF S

\* White space is no word.
LEMMA WordsType ==
  ASSUME NEW E, NEW s \in Seq(E)
  PROVE  Words(s) \in Seq(E \ White)
<1>1. Len(s) \in Nat
  OBVIOUS
<1>2. PICK w : Spells(w, s) /\ Words(s) = w[Len(s)]
  BY <1>1, WordsAreSpelt
<1> QED  BY <1>1, <1>2, SpellsWords

\* The words of two texts, one after the other.
LEMMA WordsJoin ==
  ASSUME NEW E, NEW x \in Seq(E), NEW y \in Seq(E)
  PROVE  Words(x \o y) = Words(x) \o Words(y)
<1> DEFINE z == x \o y
           a == Len(x)
<1>0. /\ a \in Nat /\ Len(y) \in Nat /\ Len(z) = a + Len(y)
      /\ \A n \in 1..a : z[n] = x[n]
      /\ \A n \in 1..Len(y) : z[a + n] = y[n]
  OBVIOUS
<1>1. PICK u : Spells(u, x) /\ Words(x) = u[a]
  BY <1>0, WordsAreSpelt
<1>2. PICK v : Spells(v, y) /\ Words(y) = v[Len(y)]
  BY <1>0, WordsAreSpelt
<1> HIDE DEF z
<1>3. PICK w : Spells(w, z) /\ Words(z) = w[Len(z)]
  <2>1. Len(z) \in Nat
    BY <1>0
  <2> QED  BY <2>1, WordsAreSpelt
<1>4. ASSUME NEW n \in Nat, n + 1 <= a
      PROVE  /\ u[n + 1] = IF z[n + 1] \in White THEN u[n] ELSE Append(u[n], z[n + 1])
             /\ w[n + 1] = IF z[n + 1] \in White THEN w[n] ELSE Append(w[n], z[n + 1])
  <2>1. /\ n + 1 \in 0..a /\ n + 1 \in 0..Len(z) /\ n + 1 # 0 /\ (n + 1) - 1 = n
        /\ n + 1 \in 1..a
    BY <1>0, <1>4
  <2>2. z[n + 1] = x[n + 1]
    BY <1>0, <2>1
  <2> QED  BY <1>1, <1>3, <2>1, <2>2 DEF Spells, WordTurn
<1>5. w[a] = u[a]
  <2> DEFINE S == {n \in Nat : n <= a => w[n] = u[n]}
  <2>1. 0 \in S
    BY <1>0, <1>1, <1>3 DEF Spells, WordTurn
  <2>2. ASSUME NEW n \in Nat, n \in S PROVE n + 1 \in S
    BY <1>0, <1>4, <2>2
  <2> HIDE DEF S
  <2>3. a \in S
    BY <1>0, <2>1, <2>2, StepByStep
  <2> QED  BY <1>0, <2>3 DEF S
<1>6. ASSUME NEW n \in Nat, n + 1 <= Len(y)
      PROVE  /\ v[n + 1] = IF y[n + 1] \in White THEN v[n] ELSE Append(v[n], y[n + 1])
             /\ w[a + (n + 1)] = IF y[n + 1] \in White THEN w[a + n]
                                 ELSE Append(w[a + n], y[n + 1])
  <2>1. /\ n + 1 \in 0..Len(y) /\ n + 1 # 0 /\ (n + 1) - 1 = n /\ n + 1 \in 1..Len(y)
        /\ a + (n + 1) \in 0..Len(z) /\ a + (n + 1) # 0 /\ (a + (n + 1)) - 1 = a + n
    BY <1>0, <1>6
  <2>2. z[a + (n + 1)] = y[n + 1]
    <3> DEFINE m == n + 1
    <3>1. m \in 1..Len(y)
      BY <2>1
    <3> HIDE DEF m
    <3>2. z[a + m] = y[m]
      BY <1>0, <3>1
    <3> QED  BY <3>2 DEF m
  <2> QED  BY <1>2, <1>3, <2>1, <2>2 DEF Spells, WordTurn
<1>7. u[a] \in Seq(E) /\ \A n \in 0..Len(y) : v[n] \in Seq(E)
  <2>1. u[a] \in Seq(E \ White) /\ \A n \in 0..Len(y) : v[n] \in Seq(E \ White)
    <3>1. a \in 0..a
      BY <1>0
    <3>2. u[a] \in Seq(E \ White)
      BY <1>1, <3>1, SpellsWords
    <3>3. \A n \in 0..Len(y) : v[n] \in Seq(E \ White)
      BY <1>2, SpellsWords
    <3> QED  BY <3>2, <3>3
  <2> QED  BY <2>1
<1>8. w[a + Len(y)] = u[a] \o v[Len(y)]
  <2> DEFINE S == {n \in Nat : n <= Len(y) => w[a + n] = u[a] \o v[n]}
  <2>1. 0 \in S
    <3>1. v[0] = <<>>
      BY <1>0, <1>2 DEF Spells, WordTurn
    <3>2. u[a] \o <<>> = u[a] /\ a + 0 = a
      BY <1>0, <1>7
    <3> QED  BY <1>5, <3>1, <3>2
  <2>2. ASSUME NEW n \in Nat, n \in S PROVE n + 1 \in S
    <3> DEFINE m == n + 1
    <3> SUFFICES ASSUME m <= Len(y) PROVE w[a + m] = u[a] \o v[m]
      <4>1. m \in Nat
        OBVIOUS
      <4> HIDE DEF m
      <4>2. m \in S
        BY <4>1
      <4> QED  BY <4>2 DEF m
    <3>0. n \in 0..Len(y) /\ n + 1 \in 1..Len(y) /\ n <= Len(y)
      BY <1>0
    <3>1. w[a + n] = u[a] \o v[n] /\ v[n] \in Seq(E) /\ u[a] \in Seq(E) /\ y[n + 1] \in E
      <4>1. w[a + n] = u[a] \o v[n]
        BY <2>2, <3>0
      <4>2. y[n + 1] \in E
        BY <3>0, ElementOfSeq
      <4> QED  BY <1>7, <3>0, <4>1, <4>2
    <3>2. CASE w[a + (n + 1)] = w[a + n] /\ v[n + 1] = v[n]
      BY <3>1, <3>2
    <3>3. CASE /\ w[a + (n + 1)] = Append(w[a + n], y[n + 1])
               /\ v[n + 1] = Append(v[n], y[n + 1])
      <4> DEFINE p == u[a]
                 q == v[n]
                 e == y[n + 1]
                 r == w[a + n]
                 t == v[n + 1]
      <4>1. p \in Seq(E) /\ q \in Seq(E) /\ e \in E /\ r = p \o q /\ t = Append(q, e)
        BY <3>1, <3>3
      <4> HIDE DEF p, q, e, r, t
      <4>2. p \o t = Append(r, e)
        BY <4>1
      <4> QED  BY <3>3, <4>2 DEF p, e, r, t
    <3> QED  BY <1>6, <3>2, <3>3
  <2> HIDE DEF S
  <2>3. Len(y) \in S
    BY <1>0, <2>1, <2>2, StepByStep
  <2>4. Len(y) <= Len(y)
    BY <1>0
  <2> QED  BY <2>3, <2>4 DEF S
<1> QED  BY <1>0, <1>1, <1>2, <1>3, <1>5, <1>8 DEF z

\* White space has no words.
LEMMA WordsOfWhite ==
  ASSUME NEW E, NEW s \in Seq(E), \A i \in 1..Len(s) : s[i] \in White
  PROVE  Words(s) = <<>>
<1>0. Len(s) \in Nat
  OBVIOUS
<1>1. PICK w : Spells(w, s) /\ Words(s) = w[Len(s)]
  BY <1>0, WordsAreSpelt
<1> DEFINE S == {n \in Nat : n <= Len(s) => w[n] = <<>>}
<1>2. 0 \in S
  BY <1>0, <1>1 DEF Spells, WordTurn
<1>3. ASSUME NEW n \in Nat, n \in S PROVE n + 1 \in S
  <2> SUFFICES ASSUME n + 1 <= Len(s) PROVE w[n + 1] = <<>>
    OBVIOUS
  <2>1. n + 1 \in 0..Len(s) /\ n + 1 # 0 /\ (n + 1) - 1 = n /\ n + 1 \in 1..Len(s) /\ n <= Len(s)
    BY <1>0
  <2>2. w[n] = <<>>
    BY <1>3, <2>1
  <2> QED  BY <1>1, <2>1, <2>2 DEF Spells, WordTurn
<1> HIDE DEF S
<1>4. Nat \subseteq S
  BY <1>2, <1>3, StepByStep
<1> QED  BY <1>0, <1>1, <1>4 DEF S

\* Any other character is a word.
LEMMA WordsOfOne ==
  ASSUME NEW e
  PROVE  Words(<<e>>) = IF e \in White THEN <<>> ELSE <<e>>
<1> DEFINE s == <<e>>
<1>0. Len(s) = 1 /\ s[1] = e /\ Len(s) \in Nat
  OBVIOUS
<1> HIDE DEF s
<1>1. PICK w : Spells(w, s) /\ Words(s) = w[Len(s)]
  BY <1>0, WordsAreSpelt
<1>2. 0 \in 0..Len(s) /\ 1 \in 0..Len(s) /\ 1 - 1 = 0 /\ 1 # 0
  BY <1>0
<1>3. w[0] = <<>> /\ w[1] = IF e \in White THEN w[0] ELSE Append(w[0], e)
  BY <1>0, <1>1, <1>2 DEF Spells, WordTurn
<1>4. Append(<<>>, e) = <<e>>
  OBVIOUS
<1> QED  BY <1>0, <1>1, <1>3, <1>4 DEF s
-----------------------------------------------------------------------------
(***************************************************************************)
(* The tokens of a text are its words, put together where nothing          *)
(* separates them: token k is the words from the one after off[k - 1] to   *)
(* off[k].                                                                 *)
(***************************************************************************)
TokenEnds(off, T, W) ==
  /\ off \in [0..Len(T) -> 0..Len(W)] /\ off[0] = 0 /\ off[Len(T)] = Len(W)
  /\ \A k \in 1..Len(T) :
       /\ Len(T[k]) >= 1 /\ off[k] = off[k - 1] + Len(T[k])
       /\ \A j \in 1..Len(T[k]) : T[k][j] = W[off[k - 1] + j]

\* No token has two numerals side by side.
Apart(T) ==
  \A k \in 1..Len(T) : \A j \in 1..(Len(T[k]) - 1) :
    ~(T[k][j] \in Numerals /\ T[k][j + 1] \in Numerals)

\* Where a token's characters are among the words.
LEMMA WithinWords ==
  ASSUME NEW l \in Nat, NEW x \in 0..l, NEW y \in 0..l, NEW n \in Nat, y = x + n,
         NEW j \in 1..n
  PROVE  x + j \in 1..l
OBVIOUS

\* A character after white space begins a token.
LEMMA NewToken ==
  ASSUME NEW E, NEW T \in Seq(Seq(E)), NEW W \in Seq(E), NEW e \in E,
         NEW off, TokenEnds(off, T, W), Apart(T)
  PROVE  /\ \E o : TokenEnds(o, Append(T, <<e>>), Append(W, e))
         /\ Apart(Append(T, <<e>>))
<1> DEFINE U == Append(T, <<e>>)
           V == Append(W, e)
           n == Len(T)
           l == Len(W)
           o == [k \in 0..(n + 1) |-> IF k = n + 1 THEN l + 1 ELSE off[k]]
<1>0. /\ n \in Nat /\ l \in Nat /\ Len(U) = n + 1 /\ Len(V) = l + 1
      /\ \A k \in 1..n : U[k] = T[k]
      /\ \A k \in 1..l : V[k] = W[k]
      /\ U[n + 1] = <<e>> /\ V[l + 1] = e
  OBVIOUS
<1>1. /\ Len(<<e>>) = 1 /\ <<e>>[1] = e
  OBVIOUS
<1> HIDE DEF U, V, n, l
<1>2. /\ off \in [0..n -> 0..l] /\ off[0] = 0 /\ off[n] = l
      /\ \A k \in 1..n :
           /\ Len(T[k]) >= 1 /\ off[k] = off[k - 1] + Len(T[k])
           /\ \A j \in 1..Len(T[k]) : T[k][j] = W[off[k - 1] + j]
  BY DEF TokenEnds, n, l
<1>3. /\ o \in [0..(n + 1) -> 0..(l + 1)] /\ o[0] = 0 /\ o[n + 1] = l + 1
      /\ \A k \in 0..n : o[k] = off[k]
  BY <1>0, <1>2
<1> HIDE DEF o
<1>4. ASSUME NEW k \in 1..(n + 1)
      PROVE  /\ Len(U[k]) >= 1 /\ o[k] = o[k - 1] + Len(U[k])
             /\ \A j \in 1..Len(U[k]) : U[k][j] = V[o[k - 1] + j]
  <2>1. CASE k = n + 1
    <3>1. k - 1 = n /\ n \in 0..n /\ U[k] = <<e>>
      BY <1>0, <2>1
    <3>2. o[k - 1] = l /\ o[k] = l + 1
      BY <1>2, <1>3, <2>1, <3>1
    <3>3. \A j \in 1..1 : j = 1
      OBVIOUS
    <3> QED  BY <1>0, <1>1, <3>1, <3>2, <3>3
  <2>2. CASE k # n + 1
    <3>1. k \in 1..n /\ k \in 0..n /\ k - 1 \in 0..n
      BY <1>0, <2>2
    <3>2. U[k] = T[k] /\ o[k] = off[k] /\ o[k - 1] = off[k - 1]
      BY <1>0, <1>3, <3>1
    <3>3. T[k] \in Seq(E)
      BY <3>1, ElementOfSeq DEF n
    <3>4. ASSUME NEW j \in 1..Len(T[k]) PROVE T[k][j] = V[off[k - 1] + j]
      <4> DEFINE i == off[k - 1] + j
      <4>1. /\ Len(T[k]) \in Nat /\ off[k] \in 0..l /\ off[k - 1] \in 0..l
            /\ off[k] = off[k - 1] + Len(T[k])
        <5>1. Len(T[k]) \in Nat
          BY <3>3, LenProperties
        <5> QED  BY <1>2, <3>1, <5>1
      <4>2. i \in 1..l
        <5>1. l \in Nat
          BY <1>0
        <5> QED  BY <4>1, <5>1, WithinWords
      <4>3. T[k][j] = W[i]
        BY <1>2, <3>1
      <4> HIDE DEF i
      <4> QED  BY <1>0, <4>2, <4>3 DEF i
    <3> QED  BY <1>2, <3>1, <3>2, <3>4
  <2> QED  BY <2>1, <2>2
<1>5. TokenEnds(o, U, V)
  BY <1>0, <1>3, <1>4 DEF TokenEnds
<1>6. Apart(U)
  <2> SUFFICES ASSUME NEW k \in 1..(n + 1), NEW j \in 1..(Len(U[k]) - 1)
               PROVE  ~(U[k][j] \in Numerals /\ U[k][j + 1] \in Numerals)
    BY <1>0 DEF Apart
  <2>1. CASE k = n + 1
    <3>1. Len(U[k]) = 1
      BY <1>0, <1>1, <2>1
    <3> QED  BY <3>1
  <2>2. CASE k # n + 1
    <3>1. k \in 1..n /\ k \in 1..Len(T)
      BY <1>0, <2>2 DEF n
    <3> QED  BY <1>0, <3>1 DEF Apart
  <2> QED  BY <2>1, <2>2
<1> QED  BY <1>5, <1>6 DEF U, V

\* Any other one belongs to the last token.
LEMMA LongerToken ==
  ASSUME NEW E, NEW T \in Seq(Seq(E)), NEW W \in Seq(E), NEW e \in E,
         NEW off, TokenEnds(off, T, W), Apart(T), T # <<>>,
         e \in Numerals => Last(Last(T)) \notin Numerals
  PROVE  LET U == [T EXCEPT ![Len(T)] = Append(@, e)]
         IN  /\ \E o : TokenEnds(o, U, Append(W, e))
             /\ Apart(U)
<1> DEFINE n == Len(T)
           l == Len(W)
           t == Append(T[n], e)
           U == [T EXCEPT ![n] = t]
           V == Append(W, e)
           o == [k \in 0..n |-> IF k = n THEN l + 1 ELSE off[k]]
           m == Len(T[n])
<1>0. /\ n \in Nat \ {0} /\ l \in Nat /\ Len(U) = n /\ Len(V) = l + 1
      /\ \A k \in 1..(n - 1) : U[k] = T[k]
      /\ \A k \in 1..l : V[k] = W[k]
      /\ U[n] = t /\ V[l + 1] = e
  <2>1. n \in Nat \ {0} /\ n \in 1..Len(T) /\ T[n] \in Seq(E)
    BY EmptySeq, ElementOfSeq
  <2>2. t \in Seq(E)
    BY <2>1, AppendProperties
  <2>3. /\ Len(U) = n /\ \A k \in 1..n : U[k] = IF k = n THEN t ELSE T[k]
    BY <2>1, <2>2, ExceptSeq
  <2>4. /\ l \in Nat /\ Len(V) = l + 1 /\ \A k \in 1..l : V[k] = W[k]
        /\ V[l + 1] = e
    OBVIOUS
  <2> HIDE DEF U, V, t, l
  <2>5. \A k \in 1..(n - 1) : k \in 1..n /\ k # n
    BY <2>1
  <2> QED  BY <2>1, <2>3, <2>4, <2>5
<1>1. /\ T[n] \in Seq(E) /\ m \in Nat /\ Len(t) = m + 1
      /\ \A j \in 1..m : t[j] = T[n][j]
      /\ t[m + 1] = e
  <2>1. T[n] \in Seq(E)
    <3>1. n \in 1..Len(T)
      <4>1. Len(T) \in Nat \ {0}
        BY EmptySeq
      <4> QED  BY <4>1
    <3> QED  BY <3>1, ElementOfSeq
  <2> DEFINE q == T[n]
  <2>2. q \in Seq(E)
    BY <2>1
  <2> HIDE DEF q
  <2>3. Len(q) \in Nat /\ Len(Append(q, e)) = Len(q) + 1
        /\ (\A j \in 1..Len(q) : Append(q, e)[j] = q[j]) /\ Append(q, e)[Len(q) + 1] = e
    BY <2>2, AppendProperties
  <2> QED  BY <2>1, <2>3 DEF q
<1> HIDE DEF U, V, t
<1>2. /\ off \in [0..n -> 0..l] /\ off[0] = 0 /\ off[n] = l
      /\ \A k \in 1..n :
           /\ Len(T[k]) >= 1 /\ off[k] = off[k - 1] + Len(T[k])
           /\ \A j \in 1..Len(T[k]) : T[k][j] = W[off[k - 1] + j]
  BY DEF TokenEnds
<1> HIDE DEF n, l, m
<1>3. /\ o \in [0..n -> 0..(l + 1)] /\ o[0] = 0 /\ o[n] = l + 1
      /\ \A k \in 0..(n - 1) : o[k] = off[k]
  BY <1>0, <1>2
<1> HIDE DEF o
<1>4. ASSUME NEW k \in 1..n
      PROVE  /\ Len(U[k]) >= 1 /\ o[k] = o[k - 1] + Len(U[k])
             /\ \A j \in 1..Len(U[k]) : U[k][j] = V[o[k - 1] + j]
  <2>0. /\ k \in 0..n /\ k - 1 \in 0..n /\ k - 1 \in 0..(n - 1)
        /\ T[k] \in Seq(E) /\ Len(T[k]) \in Nat
        /\ off[k] \in 0..l /\ off[k - 1] \in 0..l
        /\ off[k] = off[k - 1] + Len(T[k]) /\ o[k - 1] = off[k - 1]
    <3>1. k \in 0..n /\ k - 1 \in 0..n /\ k - 1 \in 0..(n - 1)
      BY <1>0
    <3>2. T[k] \in Seq(E)
      BY ElementOfSeq DEF n
    <3>3. Len(T[k]) \in Nat
      BY <3>2, LenProperties
    <3>4. off[k] \in 0..l /\ off[k - 1] \in 0..l
      BY <1>2, <3>1
    <3> QED  BY <1>2, <1>3, <3>1, <3>2, <3>3, <3>4
  <2>1. ASSUME NEW j \in 1..Len(T[k]) PROVE T[k][j] = V[off[k - 1] + j]
    <3> DEFINE i == off[k - 1] + j
    <3>1. i \in 1..l
      <4>1. l \in Nat
        BY <1>0
      <4> QED  BY <2>0, <4>1, WithinWords
    <3>2. T[k][j] = W[i]
      BY <1>2
    <3> HIDE DEF i
    <3> QED  BY <1>0, <3>1, <3>2 DEF i
  <2>2. CASE k = n
    <3>1. U[k] = t /\ Len(T[k]) = m /\ o[k] = l + 1 /\ l = off[k - 1] + m
      BY <1>0, <1>2, <1>3, <2>0, <2>2 DEF m
    <3>2. ASSUME NEW j \in 1..(m + 1) PROVE t[j] = V[off[k - 1] + j]
      <4>1. CASE j = m + 1
        <5>1. off[k - 1] + j = l + 1
          <6>1. off[k - 1] \in Int /\ m \in Int /\ l = off[k - 1] + m /\ j = m + 1
            BY <1>0, <1>1, <2>0, <3>1, <4>1
          <6> QED  BY <6>1
        <5> QED  BY <1>0, <1>1, <4>1, <5>1
      <4>2. CASE j # m + 1
        <5>1. j \in 1..m
          BY <1>1, <4>2
        <5> QED  BY <1>1, <2>1, <2>2, <3>1, <5>1
      <4> QED  BY <4>1, <4>2
    <3>3. o[k] = o[k - 1] + (m + 1) /\ m + 1 >= 1
      <4> DEFINE z == off[k - 1]
      <4>1. z \in Int /\ m \in Nat /\ o[k] = l + 1 /\ l = z + m /\ o[k - 1] = z
        BY <1>0, <1>1, <2>0, <3>1
      <4> HIDE DEF z
      <4> QED  BY <4>1
    <3> QED  BY <1>1, <2>0, <3>1, <3>2, <3>3
  <2>3. CASE k # n
    <3>1. k \in 1..(n - 1) /\ k \in 0..(n - 1)
      BY <1>0, <2>3
    <3>2. U[k] = T[k] /\ o[k] = off[k]
      BY <1>0, <1>3, <3>1
    <3> QED  BY <1>2, <2>0, <2>1, <3>2
  <2> QED  BY <2>2, <2>3
<1>5. TokenEnds(o, U, V)
  BY <1>0, <1>3, <1>4 DEF TokenEnds
<1>6. Apart(U)
  <2> SUFFICES ASSUME NEW k \in 1..n, NEW j \in 1..(Len(U[k]) - 1)
               PROVE  ~(U[k][j] \in Numerals /\ U[k][j + 1] \in Numerals)
    BY <1>0 DEF Apart
  <2>1. CASE k = n
    <3>1. U[k] = t /\ j \in 1..m
      BY <1>0, <1>1, <2>1
    <3>2. CASE j = m
      <4>1. t[j] = T[n][m] /\ t[j + 1] = e /\ Last(Last(T)) = T[n][m]
        BY <1>1, <3>1, <3>2 DEF Last, n, m
      <4> QED  BY <3>1, <4>1
    <3>3. CASE j # m
      <4>1. j + 1 \in 1..m /\ j \in 1..(Len(T[n]) - 1) /\ n \in 1..Len(T)
        BY <1>0, <1>1, <3>1, <3>3 DEF m, n
      <4>2. t[j] = T[n][j] /\ t[j + 1] = T[n][j + 1]
        BY <1>1, <3>1, <4>1
      <4> QED  BY <3>1, <4>1, <4>2 DEF Apart
    <3> QED  BY <3>2, <3>3
  <2>2. CASE k # n
    <3>1. k \in 1..(n - 1) /\ k \in 1..Len(T)
      BY <1>0, <2>2 DEF n
    <3> QED  BY <1>0, <3>1 DEF Apart
  <2> QED  BY <2>1, <2>2
<1> QED  BY <1>5, <1>6 DEF U, V, t, n
\* And is then its last character.
LEMMA LastOfLonger ==
  ASSUME NEW E, NEW T \in Seq(Seq(E)), T # <<>>, NEW e \in E
  PROVE  LET U == [T EXCEPT ![Len(T)] = Append(@, e)]
         IN  U \in Seq(Seq(E)) /\ U # <<>> /\ Last(Last(U)) = e
<1> DEFINE n == Len(T)
           t == Append(T[n], e)
           U == [T EXCEPT ![n] = t]
<1>1. n \in 1..Len(T) /\ n \in Nat \ {0} /\ T[n] \in Seq(E)
  BY EmptySeq, ElementOfSeq
<1>2. t \in Seq(E) /\ Len(t) = Len(T[n]) + 1 /\ t[Len(t)] = e
  BY <1>1
<1>3. U \in Seq(Seq(E)) /\ Len(U) = n /\ U[n] = t
  BY <1>1, <1>2, ExceptSeq
<1> HIDE DEF U, t
<1>4. U # <<>>
  BY <1>1, <1>3
<1> QED  BY <1>2, <1>3, <1>4 DEF Last, U, t

\* The tokens of a text are its words, and numerals stay apart in them.
LEMMA TokensAreWords ==
  ASSUME NEW E, NEW s \in Seq(E), Separate(s)
  PROVE  /\ Tokens(s) \in Seq(Seq(E)) /\ Apart(Tokens(s))
         /\ \E off : TokenEnds(off, Tokens(s), Words(s))
<1>0. Len(s) \in Nat /\ DOMAIN s = 1..Len(s)
  OBVIOUS
<1>1. PICK f : Cuts(f, s) /\ Tokens(s) = f[Len(s)]
  BY <1>0, TokensAreCut
<1>2. PICK w : Spells(w, s) /\ Words(s) = w[Len(s)]
  BY <1>0, WordsAreSpelt
<1> DEFINE Agree(n) == /\ f[n] \in Seq(Seq(E)) /\ w[n] \in Seq(E) /\ Apart(f[n])
                       /\ \E off : TokenEnds(off, f[n], w[n])
                       /\ n > 0 /\ s[n] \notin White => f[n] # <<>> /\ Last(Last(f[n])) = s[n]
           S == {n \in Nat : n <= Len(s) => Agree(n)}
<1>3. Agree(0)
  <2>1. f[0] = <<>> /\ w[0] = <<>>
    <3>1. 0 \in 0..Len(s)
      BY <1>0
    <3>2. f[0] = CutTurn(f, s, White, 0) /\ w[0] = WordTurn(w, s, 0)
      BY <1>1, <1>2, <3>1 DEF Cuts, Spells
    <3> QED  BY <3>2 DEF CutTurn, WordTurn
  <2>2. \E off : TokenEnds(off, <<>>, <<>>)
    <3> DEFINE o == [k \in 0..0 |-> 0]
    <3>1. Len(<<>>) = 0 /\ o \in [0..0 -> 0..0] /\ o[0] = 0
      OBVIOUS
    <3> HIDE DEF o
    <3>2. TokenEnds(o, <<>>, <<>>)
      BY <3>1 DEF TokenEnds
    <3> QED  BY <3>2
  <2>3. Apart(<<>>) /\ <<>> \in Seq(Seq(E)) /\ <<>> \in Seq(E)
    BY EmptySeq DEF Apart
  <2> QED  BY <2>1, <2>2, <2>3
<1>4. ASSUME NEW n \in Nat, n + 1 <= Len(s), Agree(n) PROVE Agree(n + 1)
  <2> DEFINE m == n + 1
             e == s[m]
  <2>1. m \in 0..Len(s) /\ m # 0 /\ m - 1 = n /\ m > 0 /\ m \in DOMAIN s /\ e \in E
        /\ (m = 1 <=> n = 0) /\ (n # 0 => n > 0 /\ m > 1)
    <3>1. m \in 1..Len(s)
      BY <1>0, <1>4
    <3>2. e \in E
      BY <3>1, ElementOfSeq
    <3> QED  BY <1>0, <3>1, <3>2
  <2> HIDE DEF m
  <2>2. /\ f[m] = IF e \in White THEN f[n]
                  ELSE IF n = 0 \/ s[n] \in White THEN Append(f[n], <<e>>)
                  ELSE [f[n] EXCEPT ![Len(f[n])] = Append(@, e)]
        /\ w[m] = IF e \in White THEN w[n] ELSE Append(w[n], e)
    <3>1. f[m] = CutTurn(f, s, White, m) /\ w[m] = WordTurn(w, s, m)
      BY <1>1, <1>2, <2>1 DEF Cuts, Spells
    <3> QED  BY <2>1, <3>1 DEF CutTurn, WordTurn
  <2>3. /\ f[n] \in Seq(Seq(E)) /\ w[n] \in Seq(E) /\ Apart(f[n])
        /\ n > 0 /\ s[n] \notin White => f[n] # <<>> /\ Last(Last(f[n])) = s[n]
    BY <1>4
  <2>4. PICK off : TokenEnds(off, f[n], w[n])
    BY <1>4
  <2>5. CASE e \in White
    <3>1. f[m] = f[n] /\ w[m] = w[n]
      BY <2>2, <2>5
    <3>2. Agree(m)
      BY <2>3, <2>4, <2>5, <3>1
    <3> QED  BY <3>2 DEF m
  <2>6. CASE e \notin White /\ (n = 0 \/ s[n] \in White)
    <3>1. f[m] = Append(f[n], <<e>>) /\ w[m] = Append(w[n], e)
      BY <2>2, <2>6
    <3>2. Apart(f[m]) /\ \E o : TokenEnds(o, f[m], w[m])
      BY <2>1, <2>3, <2>4, <3>1, NewToken
    <3>3. f[m] \in Seq(Seq(E)) /\ w[m] \in Seq(E) /\ f[m] # <<>> /\ Last(Last(f[m])) = e
      <4> DEFINE T == f[n]
                 W == w[n]
      <4>1. T \in Seq(Seq(E)) /\ W \in Seq(E) /\ e \in E
        BY <2>1, <2>3
      <4> HIDE DEF T, W, e
      <4>2. /\ Append(T, <<e>>) \in Seq(Seq(E)) /\ Append(W, e) \in Seq(E)
            /\ Append(T, <<e>>) # <<>> /\ Append(T, <<e>>)[Len(Append(T, <<e>>))] = <<e>>
            /\ <<e>>[Len(<<e>>)] = e
        BY <4>1
      <4> QED  BY <3>1, <4>2 DEF Last, T, W
    <3>4. Agree(m)
      BY <3>2, <3>3
    <3> QED  BY <3>4 DEF m
  <2>7. CASE e \notin White /\ ~(n = 0 \/ s[n] \in White)
    <3>1. f[m] = [f[n] EXCEPT ![Len(f[n])] = Append(@, e)] /\ w[m] = Append(w[n], e)
      BY <2>2, <2>7
    <3>2. f[n] # <<>> /\ Last(Last(f[n])) = s[n]
      BY <2>1, <2>3, <2>7
    <3>3. e \in Numerals => Last(Last(f[n])) \notin Numerals
      BY <2>1, <2>7, <3>2 DEF Separate
    <3>4. Apart(f[m]) /\ \E o : TokenEnds(o, f[m], w[m])
      <4> DEFINE T == f[n]
                 W == w[n]
                 U == [T EXCEPT ![Len(T)] = Append(@, e)]
      <4>1. T \in Seq(Seq(E)) /\ W \in Seq(E) /\ e \in E
        BY <2>1, <2>3
      <4>2. /\ T # <<>> /\ Apart(T) /\ TokenEnds(off, T, W)
            /\ e \in Numerals => Last(Last(T)) \notin Numerals
        BY <2>3, <2>4, <3>2, <3>3
      <4> HIDE DEF T, W, e
      <4>3. Apart(U) /\ \E o : TokenEnds(o, U, Append(W, e))
        BY <4>1, <4>2, LongerToken
      <4> QED  BY <3>1, <4>3 DEF T, W
    <3>5. f[m] \in Seq(Seq(E)) /\ f[m] # <<>> /\ Last(Last(f[m])) = e
      <4> DEFINE T == f[n]
                 U == [T EXCEPT ![Len(T)] = Append(@, e)]
      <4>1. T \in Seq(Seq(E)) /\ T # <<>> /\ e \in E
        BY <2>1, <2>3, <3>2
      <4> HIDE DEF T, e
      <4>2. U \in Seq(Seq(E)) /\ U # <<>> /\ Last(Last(U)) = e
        BY <4>1, LastOfLonger
      <4> QED  BY <3>1, <4>2 DEF T
    <3>6. w[m] \in Seq(E)
      BY <2>1, <2>3, <3>1, AppendProperties
    <3>7. Agree(m)
      BY <3>4, <3>5, <3>6
    <3> QED  BY <3>7 DEF m
  <2> QED  BY <2>5, <2>6, <2>7
<1> HIDE DEF Agree
<1>5. 0 \in S
  BY <1>3
<1>6. ASSUME NEW n \in Nat, n \in S PROVE n + 1 \in S
  <2>1. n + 1 \in Nat /\ (n + 1 <= Len(s) => n <= Len(s))
    BY <1>0
  <2> QED  BY <1>4, <1>6, <2>1
<1>7. Len(s) \in S
  <2> HIDE DEF S
  <2> QED  BY <1>0, <1>5, <1>6, StepByStep
<1>8. Agree(Len(s))
  <2>1. Len(s) <= Len(s)
    BY <1>0
  <2> QED  BY <1>7, <2>1
<1> QED  BY <1>1, <1>2, <1>8 DEF Agree
-----------------------------------------------------------------------------
(***************************************************************************)
(* A coordinate is one number, or one to three numbers and a letter, which *)
(* may be a token of its own or the end of the last one.                   *)
(***************************************************************************)
Spaced(T, ds, l) ==
  /\ Len(T) = Len(ds) + 1 /\ T[Len(ds) + 1] = <<l>>
  /\ \A i \in 1..Len(ds) : T[i] = <<ds[i]>>
Glued(T, ds, l) ==
  /\ Len(T) = Len(ds) /\ T[Len(ds)] = <<ds[Len(ds)], l>>
  /\ \A i \in 1..(Len(ds) - 1) : T[i] = <<ds[i]>>
Written(W, ds, l) ==
  /\ Len(W) = Len(ds) + 1 /\ W[Len(ds) + 1] = l
  /\ \A i \in 1..Len(ds) : W[i] = ds[i]

\* Tokens of one character each end where their number says.
LEMMA FirstTokenEnds ==
  ASSUME NEW T, NEW W, NEW off, TokenEnds(off, T, W), Len(T) \in Nat, NEW k \in 0..Len(T), k <= 3,
         \A i \in 1..k : Len(T[i]) = 1
  PROVE  off[k] = k /\ \A i \in 1..k : W[i] = T[i][1]
<1>1. /\ off[0] = 0
      /\ \A i \in 1..Len(T) : /\ off[i] = off[i - 1] + Len(T[i])
                              /\ \A j \in 1..Len(T[i]) : T[i][j] = W[off[i - 1] + j]
  BY DEF TokenEnds
<1>2. ASSUME NEW i \in 1..k, off[i - 1] = i - 1
      PROVE  off[i] = i /\ W[i] = T[i][1]
  <2>1. i \in 1..Len(T) /\ Len(T[i]) = 1 /\ 1 \in 1..Len(T[i]) /\ i - 1 + 1 = i
    OBVIOUS
  <2> QED  BY <1>1, <1>2, <2>1
<1>3. k >= 1 => off[1] = 1 /\ W[1] = T[1][1]
  <2>1. k >= 1 => 1 \in 1..k /\ 1 - 1 = 0
    OBVIOUS
  <2> QED  BY <1>1, <1>2, <2>1
<1>4. k >= 2 => off[2] = 2 /\ W[2] = T[2][1]
  <2>1. k >= 2 => 2 \in 1..k /\ 2 - 1 = 1 /\ k >= 1
    OBVIOUS
  <2> QED  BY <1>2, <1>3, <2>1
<1>5. k >= 3 => off[3] = 3 /\ W[3] = T[3][1]
  <2>1. k >= 3 => 3 \in 1..k /\ 3 - 1 = 2 /\ k >= 2
    OBVIOUS
  <2> QED  BY <1>2, <1>4, <2>1
<1>6. k \in {0, 1, 2, 3} /\ (k = 0 => off[k] = 0)
  BY <1>1
<1>7. \A i \in 1..k : i = 1 \/ (i = 2 /\ k >= 2) \/ (i = 3 /\ k >= 3)
  BY <1>6
<1>8. k >= 1 \/ k = 0
  BY <1>6
<1> QED  BY <1>3, <1>4, <1>5, <1>6, <1>7, <1>8

\* Numbers and a letter as tokens are the same as words.
LEMMA WordsOfNumbers ==
  ASSUME NEW T, NEW W \in Seq(Elements), NEW off, TokenEnds(off, T, W), Len(T) \in Nat,
         NEW ds \in Seq(Numerals), Len(ds) \in 1..3, NEW l, Spaced(T, ds, l) \/ Glued(T, ds, l)
  PROVE  Written(W, ds, l)
<1> DEFINE k == Len(ds)
<1>0. /\ off[Len(T)] = Len(W)
      /\ \A i \in 1..Len(T) : /\ off[i] = off[i - 1] + Len(T[i])
                              /\ \A j \in 1..Len(T[i]) : T[i][j] = W[off[i - 1] + j]
  BY DEF TokenEnds
<1>1. \A x : Len(<<x>>) = 1 /\ <<x>>[1] = x
  OBVIOUS
<1>2. \A x, y : Len(<<x, y>>) = 2 /\ <<x, y>>[1] = x /\ <<x, y>>[2] = y
  OBVIOUS
<1>3. CASE Spaced(T, ds, l)
  <2>1. /\ Len(T) = k + 1 /\ T[k + 1] = <<l>> /\ k \in 0..Len(T) /\ k <= 3
        /\ \A i \in 1..k : T[i] = <<ds[i]>>
    BY <1>3 DEF Spaced
  <2> HIDE DEF k
  <2>2. off[k] = k /\ \A i \in 1..k : W[i] = T[i][1]
    <3>1. \A i \in 1..k : Len(T[i]) = 1
      BY <1>1, <2>1
    <3>2. k \in 0..Len(T) /\ k <= 3
      BY <2>1
    <3> QED  BY <3>1, <3>2, FirstTokenEnds
  <2>3. k \in Nat /\ k + 1 \in 1..Len(T) /\ (k + 1) - 1 = k
    BY <2>1
  <2>4. Len(T[k + 1]) = 1 /\ T[k + 1][1] = l /\ 1 \in 1..Len(T[k + 1])
    BY <1>1, <2>1
  <2>5. off[k + 1] = k + 1 /\ l = W[k + 1]
    BY <1>0, <2>2, <2>3, <2>4
  <2> QED  BY <1>0, <1>1, <2>1, <2>2, <2>5 DEF Written, k
<1>4. CASE Glued(T, ds, l)
  <2>1. /\ Len(T) = k /\ T[k] = <<ds[k], l>> /\ k - 1 \in 0..Len(T) /\ k - 1 <= 3 /\ k \in 1..3
        /\ \A i \in 1..(k - 1) : T[i] = <<ds[i]>>
    BY <1>4 DEF Glued
  <2> HIDE DEF k
  <2>2. off[k - 1] = k - 1 /\ \A i \in 1..(k - 1) : W[i] = T[i][1]
    <3> DEFINE h == k - 1
    <3>1. \A i \in 1..h : Len(T[i]) = 1
      BY <1>1, <2>1
    <3>2. h \in 0..Len(T) /\ h <= 3
      BY <2>1
    <3> HIDE DEF h
    <3>3. off[h] = h /\ \A i \in 1..h : W[i] = T[i][1]
      BY <3>1, <3>2, FirstTokenEnds
    <3> QED  BY <3>3 DEF h
  <2>3. k \in 1..Len(T) /\ Len(T[k]) = 2 /\ T[k][1] = ds[k] /\ T[k][2] = l
        /\ 1 \in 1..Len(T[k]) /\ 2 \in 1..Len(T[k])
    BY <1>2, <2>1
  <2>4. off[k] = k - 1 + 2 /\ ds[k] = W[k - 1 + 1] /\ l = W[k - 1 + 2]
    BY <1>0, <2>2, <2>3
  <2>5. Len(W) = k + 1 /\ W[k] = ds[k] /\ W[k + 1] = l
    <3>1. k - 1 + 2 = k + 1 /\ k - 1 + 1 = k
      BY <2>1
    <3> QED  BY <1>0, <2>1, <2>4, <3>1
  <2>6. ASSUME NEW i \in 1..k PROVE W[i] = ds[i]
    <3>1. CASE i = k
      BY <2>5, <3>1
    <3>2. CASE i # k
      <4>1. i \in 1..(k - 1)
        BY <2>1, <3>2
      <4> QED  BY <1>1, <2>1, <2>2, <4>1
    <3> QED  BY <3>1, <3>2
  <2> QED  BY <2>5, <2>6 DEF Written, k
<1> QED  BY <1>3, <1>4

\* And such words come as one of the two kinds of tokens.
LEMMA NumbersOfWords ==
  ASSUME NEW T \in Seq(Seq(Elements)), NEW W \in Seq(Elements), NEW off, TokenEnds(off, T, W), Apart(T),
         NEW ds \in Seq(Numerals), Len(ds) \in 1..3, NEW l, Written(W, ds, l)
  PROVE  Spaced(T, ds, l) \/ Glued(T, ds, l)
<1> DEFINE k == Len(ds)
           n == Len(T)
<1>0. /\ off \in [0..n -> 0..(k + 1)] /\ off[0] = 0 /\ off[n] = k + 1
      /\ \A i \in 1..n : /\ Len(T[i]) >= 1 /\ off[i] = off[i - 1] + Len(T[i])
                         /\ \A j \in 1..Len(T[i]) : T[i][j] = W[off[i - 1] + j]
  BY DEF TokenEnds, Written
<1>1. /\ \A i \in 1..k : W[i] = ds[i] /\ W[i] \in Numerals
      /\ W[k + 1] = l
  BY ElementOfSeq DEF Written
<1>2. \A i \in 1..n : T[i] \in Seq(Elements) /\ Len(T[i]) \in Nat
  BY ElementOfSeq
<1>3. n \in Nat /\ k \in 1..3
  OBVIOUS
<1> HIDE DEF n, k
\* While there are numbers left another token begins.
<1>4. ASSUME NEW i \in 0..k, i <= n, off[i] = i
      PROVE  /\ i + 1 \in 1..n
             /\ \A j \in 1..Len(T[i + 1]) : T[i + 1][j] = W[i + j]
             /\ off[i + 1] = i + Len(T[i + 1]) /\ off[i + 1] <= k + 1
  <2>1. i # n
    BY <1>0, <1>3, <1>4
  <2>2. i + 1 \in 1..n /\ (i + 1) - 1 = i /\ i + 1 \in 0..n
    BY <1>3, <1>4, <2>1
  <2>3. off[i + 1] \in 0..(k + 1)
    BY <1>0, <2>2
  <2>4. /\ off[i + 1] = off[i] + Len(T[i + 1])
        /\ \A j \in 1..Len(T[i + 1]) : T[i + 1][j] = W[off[i] + j]
    BY <1>0, <2>2
  <2> QED  BY <1>4, <2>2, <2>3, <2>4
\* Two numbers are never one token.
<1>5. ASSUME NEW i \in 0..(k - 2), i <= n, off[i] = i
      PROVE  i + 1 \in 1..n /\ off[i + 1] = i + 1 /\ T[i + 1] = <<ds[i + 1]>>
  <2>1. i \in 0..k /\ i + 1 \in 1..k /\ i + 2 \in 1..k
    BY <1>3
  <2>2. /\ i + 1 \in 1..n /\ off[i + 1] = i + Len(T[i + 1])
        /\ \A j \in 1..Len(T[i + 1]) : T[i + 1][j] = W[i + j]
    BY <1>4, <1>5, <2>1
  <2> DEFINE t == T[i + 1]
  <2>3. t \in Seq(Elements) /\ Len(t) \in Nat /\ Len(t) >= 1
    BY <1>0, <1>2, <2>2
  <2>4. Len(t) = 1
    <3> DEFINE m == Len(t)
    <3>1. m \in Nat /\ m >= 1
      BY <2>3
    <3>2. ASSUME m >= 2 PROVE FALSE
      <4> HIDE DEF m
      <4>1. 1 \in 1..m /\ 2 \in 1..m /\ 1 \in 1..(m - 1) /\ 1 + 1 = 2
        BY <3>1, <3>2
      <4>2. t[1] = W[i + 1] /\ t[2] = W[i + 2]
        BY <2>2, <4>1 DEF m
      <4>3. ~(t[1] \in Numerals /\ t[1 + 1] \in Numerals)
        BY <2>2, <4>1 DEF Apart, n, m
      <4> QED  BY <1>1, <2>1, <4>1, <4>2, <4>3
    <3> HIDE DEF m
    <3>3. m = 1
      BY <3>1, <3>2
    <3> QED  BY <3>3 DEF m
  <2>5. t[1] = ds[i + 1]
    <3>1. 1 \in 1..Len(t)
      BY <2>4
    <3> QED  BY <1>1, <2>1, <2>2, <3>1
  <2>6. t = <<ds[i + 1]>>
    <3> HIDE DEF t
    <3> QED  BY <2>3, <2>4, <2>5
  <2> QED  BY <2>2, <2>4, <2>6
<1>6. /\ off[k - 1] = k - 1 /\ k - 1 <= n
      /\ \A i \in 1..(k - 1) : T[i] = <<ds[i]>>
  <2>1. k >= 2 => 1 \in 1..n /\ off[1] = 1 /\ T[1] = <<ds[1]>>
    <3>1. k >= 2 => 0 \in 0..(k - 2) /\ 0 <= n /\ 0 + 1 = 1
      BY <1>3
    <3> QED  BY <1>0, <1>5, <3>1
  <2>2. k >= 3 => 2 \in 1..n /\ off[2] = 2 /\ T[2] = <<ds[2]>>
    <3>1. k >= 3 => k >= 2 /\ 1 \in 0..(k - 2) /\ 1 + 1 = 2 /\ (1 \in 1..n => 1 <= n)
      BY <1>3
    <3> QED  BY <1>5, <2>1, <3>1
  <2>3. k = 1 \/ k = 2 \/ k = 3
    BY <1>3
  <2>4. CASE k = 1
    <3>1. k - 1 = 0
      BY <2>4
    <3> QED  BY <1>0, <1>3, <3>1
  <2>5. CASE k = 2
    <3>1. k - 1 = 1 /\ \A i \in 1..1 : i = 1
      BY <2>5
    <3> QED  BY <1>3, <2>1, <2>5, <3>1
  <2>6. CASE k = 3
    <3>1. k - 1 = 2 /\ \A i \in 1..2 : i = 1 \/ i = 2
      BY <2>6
    <3> QED  BY <1>3, <2>1, <2>2, <2>6, <3>1
  <2> QED  BY <2>3, <2>4, <2>5, <2>6
\* The last number, with or without the letter.
<1> DEFINE t == T[k]
<1>7. /\ k \in 1..n /\ off[k] = k - 1 + Len(t) /\ off[k] <= k + 1
      /\ \A j \in 1..Len(t) : t[j] = W[k - 1 + j]
      /\ t \in Seq(Elements) /\ Len(t) \in {1, 2}
  <2>1. k - 1 \in 0..k /\ (k - 1) + 1 = k
    BY <1>3
  <2>2. /\ k \in 1..n /\ off[k] = k - 1 + Len(t) /\ off[k] <= k + 1
        /\ \A j \in 1..Len(t) : t[j] = W[k - 1 + j]
    BY <1>4, <1>6, <2>1
  <2>3. t \in Seq(Elements) /\ Len(t) \in Nat /\ Len(t) >= 1
    BY <1>0, <1>2, <2>2
  <2> DEFINE m == Len(t)
             x == off[k]
  <2>4. m \in Nat /\ m >= 1 /\ x = k - 1 + m /\ x <= k + 1
    BY <2>2, <2>3
  <2> HIDE DEF m, x
  <2>5. m \in {1, 2}
    BY <1>3, <2>4
  <2> QED  BY <2>2, <2>3, <2>5 DEF m
<1>8. t[1] = ds[k] /\ (Len(t) = 2 => t[2] = l)
  <2>0. k - 1 + 1 = k /\ k \in 1..k /\ k - 1 + 2 = k + 1
    BY <1>3
  <2>1. 1 \in 1..Len(t)
    <3> DEFINE m == Len(t)
    <3>1. m \in {1, 2}
      BY <1>7
    <3> HIDE DEF m
    <3>2. 1 \in 1..m
      BY <3>1
    <3> QED  BY <3>2 DEF m
  <2>2. Len(t) = 2 => 2 \in 1..Len(t)
    BY <1>7
  <2> QED  BY <1>1, <1>7, <2>0, <2>1, <2>2
<1>9. CASE Len(t) = 2
  <2>1. t = <<ds[k], l>>
    <3> HIDE DEF t
    <3> QED  BY <1>7, <1>8, <1>9
  <2>2. off[k] = k + 1
    BY <1>3, <1>7, <1>9
  <2>3. n = k
    <3> SUFFICES ASSUME n # k PROVE FALSE
      OBVIOUS
    <3>1. k + 1 \in 1..n /\ (k + 1) - 1 = k /\ k + 1 \in 0..n
      BY <1>3, <1>7
    <3>2. off[k + 1] = off[k] + Len(T[k + 1]) /\ Len(T[k + 1]) >= 1 /\ off[k + 1] \in 0..(k + 1)
          /\ Len(T[k + 1]) \in Nat
      BY <1>0, <1>2, <3>1
    <3> DEFINE m == Len(T[k + 1])
               x == off[k + 1]
    <3>3. x = k + 1 + m /\ m \in Nat /\ m >= 1 /\ x \in 0..(k + 1)
      BY <2>2, <3>2
    <3> HIDE DEF m, x
    <3> QED  BY <1>3, <3>3
  <2> QED  BY <1>6, <2>1, <2>3 DEF Glued, n, k
<1>10. CASE Len(t) = 1
  <2>1. t = <<ds[k]>> /\ off[k] = k
    <3>1. off[k] = k
      BY <1>3, <1>7, <1>10
    <3> HIDE DEF t
    <3> QED  BY <1>7, <1>8, <1>10, <3>1
  <2> DEFINE u == T[k + 1]
  <2>2. /\ k + 1 \in 1..n /\ off[k + 1] = k + Len(u) /\ off[k + 1] <= k + 1
        /\ \A j \in 1..Len(u) : u[j] = W[k + j]
    <3>1. k \in 0..k /\ k <= n
      BY <1>3, <1>7
    <3> QED  BY <1>4, <2>1, <3>1
  <2>3. u \in Seq(Elements) /\ Len(u) = 1
    <3>1. u \in Seq(Elements) /\ Len(u) \in Nat /\ Len(u) >= 1
      BY <1>0, <1>2, <2>2
    <3> DEFINE m == Len(u)
               x == off[k + 1]
    <3>2. x = k + m /\ m \in Nat /\ m >= 1 /\ x <= k + 1
      BY <2>2, <3>1
    <3> HIDE DEF m, x
    <3>3. m = 1
      BY <1>3, <3>2
    <3> QED  BY <3>1, <3>3 DEF m
  <2>4. u[1] = l
    <3>1. 1 \in 1..Len(u)
      BY <2>3
    <3> QED  BY <1>1, <2>2, <3>1
  <2>5. u = <<l>>
    <3> HIDE DEF u
    <3> QED  BY <2>3, <2>4
  <2>6. n = k + 1
    <3> SUFFICES ASSUME n # k + 1 PROVE FALSE
      OBVIOUS
    <3>1. k + 2 \in 1..n /\ (k + 2) - 1 = k + 1 /\ k + 2 \in 0..n
      BY <1>3, <2>2
    <3>2. off[k + 2] = off[k + 1] + Len(T[k + 2]) /\ Len(T[k + 2]) >= 1 /\ off[k + 2] \in 0..(k + 1)
          /\ Len(T[k + 2]) \in Nat
      BY <1>0, <1>2, <3>1
    <3> DEFINE m == Len(T[k + 2])
               x == off[k + 2]
    <3>3. x = k + 1 + m /\ m \in Nat /\ m >= 1 /\ x \in 0..(k + 1)
      BY <2>2, <2>3, <3>2
    <3> HIDE DEF m, x
    <3> QED  BY <1>3, <3>3
  <2>7. \A i \in 1..k : T[i] = <<ds[i]>>
    <3>1. \A i \in 1..k : i = k \/ i \in 1..(k - 1)
      BY <1>3
    <3> QED  BY <1>6, <2>1, <3>1
  <2> QED  BY <2>5, <2>6, <2>7 DEF Spaced, n, k
<1> QED  BY <1>7, <1>9, <1>10

(***************************************************************************)
(* The letter and the numbers of such tokens, and back.                    *)
(***************************************************************************)
OneEach(N, ds) == DOMAIN N = 1..Len(ds) /\ \A i \in 1..Len(ds) : N[i] = <<ds[i]>>

\* All but the last element.
LEMMA FrontOf ==
  ASSUME NEW E, NEW q \in Seq(E), q # <<>>
  PROVE  /\ Len(q) \in Nat \ {0} /\ Front(q) \in Seq(E) /\ Len(Front(q)) = Len(q) - 1
         /\ \A i \in 1..(Len(q) - 1) : Front(q)[i] = q[i]
<1> DEFINE n == Len(q)
           f == SubSeq(q, 1, n - 1)
<1>1. n \in Nat \ {0} /\ \A i \in 1..n : q[i] \in E
  BY EmptySeq, ElementOfSeq
<1> HIDE DEF n
<1>2. 1 \in Int /\ n - 1 \in Int /\ \A i \in 1..(n - 1) : q[i] \in E
  BY <1>1
<1>3. /\ f \in Seq(E) /\ Len(f) = IF 1 <= n - 1 THEN n - 1 - 1 + 1 ELSE 0
      /\ \A i \in 1..(n - 1 - 1 + 1) : f[i] = q[1 + i - 1]
  BY <1>2, SubSeqProperties
<1> HIDE DEF f
<1>4. /\ n - 1 - 1 + 1 = n - 1 /\ (1 <= n - 1 \/ n - 1 = 0)
      /\ \A i \in 1..(n - 1) : 1 + i - 1 = i
  BY <1>1
<1>5. Len(f) = n - 1 /\ \A i \in 1..(n - 1) : f[i] = q[i]
  BY <1>3, <1>4
<1> QED  BY <1>1, <1>3, <1>5 DEF Front, n, f

\* Another element instead of the last, or none.
LEMMA FrontAndMore ==
  ASSUME NEW E, NEW q \in Seq(E), q # <<>>, NEW e \in E
  PROVE  /\ DOMAIN (Front(q) \o <<e>>) = 1..Len(q) /\ (Front(q) \o <<e>>)[Len(q)] = e
         /\ \A i \in 1..(Len(q) - 1) : (Front(q) \o <<e>>)[i] = q[i]
         /\ DOMAIN (Front(q) \o <<>>) = 1..(Len(q) - 1)
         /\ \A i \in 1..(Len(q) - 1) : (Front(q) \o <<>>)[i] = q[i]
<1> DEFINE f == Front(q)
           n == Len(q)
<1>1. /\ n \in Nat \ {0} /\ f \in Seq(E) /\ Len(f) = n - 1
      /\ \A i \in 1..(n - 1) : f[i] = q[i]
  BY FrontOf
<1> HIDE DEF f, n
<1>2. /\ DOMAIN (f \o <<e>>) = 1..n /\ (f \o <<e>>)[n] = e
      /\ \A i \in 1..(n - 1) : (f \o <<e>>)[i] = f[i]
  BY <1>1
<1>3. /\ DOMAIN (f \o <<>>) = 1..(n - 1)
      /\ \A i \in 1..(n - 1) : (f \o <<>>)[i] = f[i]
  BY <1>1
<1> QED  BY <1>1, <1>2, <1>3 DEF f, n

\* ExtractHemisphere finds the letter of either kind, and leaves the numbers.
LEMMA HemisphereOf ==
  ASSUME NEW T \in Seq(Seq(Elements)), NEW ds \in Seq(Numerals), Len(ds) \in 1..3,
         NEW l \in Letters, Spaced(T, ds, l) \/ Glued(T, ds, l)
  PROVE  /\ T # <<>> /\ ExtractHemisphere(T) = l
         /\ OneEach(WithoutHemisphere(T), ds)
<1> DEFINE k == Len(ds)
           n == Len(T)
           last == T[n]
<1>1. k \in 1..3 /\ n \in Nat
  OBVIOUS
<1>2. \A x : Len(<<x>>) = 1 /\ <<x>>[1] = x
  OBVIOUS
<1>3. \A x, y : Len(<<x, y>>) = 2 /\ <<x, y>>[1] = x /\ <<x, y>>[2] = y
  OBVIOUS
<1>4. n \in 1..4 /\ T # <<>>
  <2>1. n = k + 1 \/ n = k
    BY DEF Spaced, Glued
  <2> HIDE DEF k, n
  <2>2. n \in 1..4
    BY <1>1, <2>1
  <2>3. T = <<>> => n = 0
    BY DEF n
  <2> QED  BY <2>2, <2>3
<1>5. "none" \notin Letters
  BY DEF Letters, HemisphereLetters
<1>6. last \in Seq(Elements) /\ Last(T) = last /\ Last(last) = last[Len(last)]
  BY <1>4, ElementOfSeq DEF Last
<1>7. CASE Spaced(T, ds, l)
  <2>1. n = k + 1 /\ last = <<l>> /\ \A i \in 1..k : T[i] = <<ds[i]>>
    BY <1>7 DEF Spaced
  <2>2. Len(last) = 1 /\ Last(last) = l
    BY <1>2, <1>6, <2>1
  <2>3. ExtractHemisphere(T) = l
    BY <1>4, <1>6, <2>2 DEF ExtractHemisphere
  <2>4. WithoutHemisphere(T) = Front(T) \o <<>>
    BY <1>5, <1>6, <2>2, <2>3 DEF WithoutHemisphere
  <2>5. n - 1 = k
    BY <1>1, <2>1
  <2>6. /\ DOMAIN (Front(T) \o <<>>) = 1..k
        /\ \A i \in 1..k : (Front(T) \o <<>>)[i] = T[i]
    <3>1. /\ DOMAIN (Front(T) \o <<>>) = 1..(n - 1)
          /\ \A i \in 1..(n - 1) : (Front(T) \o <<>>)[i] = T[i]
      BY <1>4, <1>6, FrontAndMore
    <3> HIDE DEF k, n
    <3> QED  BY <2>5, <3>1
  <2> QED  BY <1>4, <2>1, <2>3, <2>4, <2>6 DEF OneEach
<1>8. CASE Glued(T, ds, l)
  <2>1. n = k /\ last = <<ds[k], l>> /\ \A i \in 1..(k - 1) : T[i] = <<ds[i]>>
    BY <1>8 DEF Glued
  <2>2. Len(last) = 2 /\ Last(last) = l /\ last # <<>>
    BY <1>3, <1>6, <2>1
  <2>3. ExtractHemisphere(T) = l
    BY <1>4, <1>6, <2>2 DEF ExtractHemisphere
  <2> DEFINE f == Front(last)
  <2>4. WithoutHemisphere(T) = Front(T) \o <<f>>
    BY <1>5, <1>6, <2>2, <2>3 DEF WithoutHemisphere
  <2>5. f = <<ds[k]>> /\ f \in Seq(Elements)
    <3>1. /\ f \in Seq(Elements) /\ Len(f) = Len(last) - 1
          /\ \A i \in 1..(Len(last) - 1) : f[i] = last[i]
      BY <1>6, <2>2, FrontOf
    <3>2. Len(f) = 1 /\ f[1] = ds[k]
      <4>1. Len(last) - 1 = 1 /\ 1 \in 1..1 /\ last[1] = ds[k]
        BY <1>3, <2>1, <2>2
      <4> HIDE DEF f, last
      <4> QED  BY <3>1, <4>1
    <3> HIDE DEF f
    <3> QED  BY <3>1, <3>2
  <2> HIDE DEF f
  <2>6. /\ DOMAIN (Front(T) \o <<f>>) = 1..n /\ (Front(T) \o <<f>>)[n] = f
        /\ \A i \in 1..(n - 1) : (Front(T) \o <<f>>)[i] = T[i]
    <3>1. T \in Seq(Seq(Elements)) /\ f \in Seq(Elements)
      BY <2>5
    <3> QED  BY <1>4, <3>1, FrontAndMore
  <2>7. \A i \in 1..k : i = k \/ i \in 1..(k - 1)
    BY <1>1
  <2> DEFINE N == Front(T) \o <<f>>
  <2>8. \A i \in 1..k : N[i] = <<ds[i]>>
    BY <2>1, <2>5, <2>6, <2>7
  <2> QED  BY <1>4, <2>1, <2>3, <2>4, <2>6, <2>8 DEF OneEach
<1> QED  BY <1>7, <1>8

\* If numbers are left, the tokens were of one of the kinds, or had no letter.
LEMMA ShapeOfAccepted ==
  ASSUME NEW T \in Seq(Seq(Elements)), T # <<>>, \A i \in 1..Len(T) : Len(T[i]) >= 1,
         NEW ds \in Seq(Numerals), Len(ds) \in 1..3, OneEach(WithoutHemisphere(T), ds),
         NEW l, l = ExtractHemisphere(T)
  PROVE  \/ l = "none" /\ OneEach(T, ds)
         \/ l \in Letters /\ (Spaced(T, ds, l) \/ Glued(T, ds, l))
<1> DEFINE k == Len(ds)
           n == Len(T)
           last == T[n]
           h == Len(last)
<1>1. k \in 1..3 /\ n \in Nat \ {0}
  BY EmptySeq
<1>2. last \in Seq(Elements) /\ Last(T) = last /\ Last(last) = last[h] /\ h \in Nat /\ h >= 1
  <2>1. n \in 1..n
    BY <1>1
  <2>2. last \in Seq(Elements)
    BY <2>1, ElementOfSeq
  <2> QED  BY <2>1, <2>2, LenProperties DEF Last
<1>3. CASE l = "none"
  BY <1>3 DEF WithoutHemisphere
<1>4. CASE l # "none"
  <2>1. l \in Letters /\ last[h] = l
    BY <1>2, <1>4 DEF ExtractHemisphere
  <2>2. CASE h = 1
    <3>1. WithoutHemisphere(T) = Front(T) \o <<>>
      BY <1>2, <1>4, <2>2 DEF WithoutHemisphere
    <3>2. /\ DOMAIN (Front(T) \o <<>>) = 1..(n - 1)
          /\ \A i \in 1..(n - 1) : (Front(T) \o <<>>)[i] = T[i]
      BY <1>2, FrontAndMore
    <3>3. 1..(n - 1) = 1..k /\ \A i \in 1..k : T[i] = <<ds[i]>>
      BY <3>1, <3>2 DEF OneEach
    <3>4. n = k + 1
      <4> HIDE DEF n, k
      <4> QED  BY <1>1, <3>3
    <3>5. last = <<l>>
      <4> HIDE DEF last
      <4> QED  BY <1>2, <2>1, <2>2
    <3> QED  BY <2>1, <3>3, <3>4, <3>5 DEF Spaced
  <2>3. CASE h # 1
    <3> DEFINE f == Front(last)
    <3>1. WithoutHemisphere(T) = Front(T) \o <<f>>
      BY <1>2, <1>4, <2>3 DEF WithoutHemisphere
    <3>2. /\ f \in Seq(Elements) /\ Len(f) = h - 1
          /\ \A i \in 1..(h - 1) : f[i] = last[i]
      <4>1. last # <<>>
        <5> HIDE DEF last
        <5> QED  BY <1>2
      <4> HIDE DEF last
      <4> QED  BY <1>2, <4>1, FrontOf
    <3> HIDE DEF f
    <3>3. /\ DOMAIN (Front(T) \o <<f>>) = 1..n /\ (Front(T) \o <<f>>)[n] = f
          /\ \A i \in 1..(n - 1) : (Front(T) \o <<f>>)[i] = T[i]
      BY <3>2, FrontAndMore
    <3> DEFINE N == Front(T) \o <<f>>
    <3>4. DOMAIN N = 1..k /\ \A i \in 1..k : N[i] = <<ds[i]>>
      BY <3>1 DEF OneEach
    <3> HIDE DEF N
    <3>5. 1..n = 1..k
      BY <3>3, <3>4 DEF N
    <3>6. n = k
      <4> HIDE DEF n, k
      <4> QED  BY <1>1, <3>5
    <3>7. f = <<ds[k]>>
      <4>1. N[n] = f
        BY <3>3 DEF N
      <4>2. k \in 1..k
        <5> HIDE DEF k
        <5> QED  BY <1>1
      <4> QED  BY <3>4, <3>6, <4>1, <4>2
    <3>8. h = 2 /\ last[1] = ds[k]
      <4>1. Len(f) = 1 /\ f[1] = ds[k]
        BY <3>7
      <4>2. h = 2
        <5>1. h - 1 = 1 /\ h \in Nat
          BY <1>2, <3>2, <4>1
        <5> HIDE DEF h
        <5> QED  BY <5>1
      <4>3. 1 \in 1..(h - 1)
        BY <4>2
      <4> QED  BY <3>2, <4>1, <4>2, <4>3
    <3>9. last = <<ds[k], l>>
      <4> HIDE DEF last
      <4> QED  BY <1>2, <2>1, <3>8
    <3>10. \A i \in 1..(k - 1) : T[i] = <<ds[i]>>
      <4>1. \A i \in 1..(k - 1) : i \in 1..k /\ i \in 1..(n - 1)
        BY <1>1, <3>6
      <4> QED  BY <3>3, <3>4, <4>1 DEF N
    <3> QED  BY <2>1, <3>6, <3>9, <3>10 DEF Glued
  <2> QED  BY <2>2, <2>3
<1> QED  BY <1>3, <1>4
-----------------------------------------------------------------------------
(***************************************************************************)
(* What the numbers and the letter say, and when they are in order.        *)
(***************************************************************************)
LEMMA AppendedIsWritten ==
  ASSUME NEW E, NEW W \in Seq(E), NEW ds \in Seq(E), NEW l \in E
  PROVE  Written(W, ds, l) <=> W = Append(ds, l)
<1> DEFINE k == Len(ds)
           V == Append(ds, l)
<1>1. k \in Nat
  OBVIOUS
<1>2. V \in Seq(E) /\ Len(V) = k + 1 /\ V[k + 1] = l /\ \A i \in 1..k : V[i] = ds[i]
  BY <1>1
<1>3. ASSUME Written(W, ds, l) PROVE W = V
  <2>1. Len(W) = k + 1 /\ W[k + 1] = l /\ \A i \in 1..k : W[i] = ds[i]
    BY <1>3 DEF Written
  <2> HIDE DEF V, k
  <2>2. \A i \in 1..Len(W) : W[i] = V[i]
    <3>1. \A i \in 1..Len(W) : i = k + 1 \/ i \in 1..k
      BY <1>1, <2>1
    <3> QED  BY <1>2, <2>1, <3>1
  <2>3. Len(W) = Len(V)
    BY <1>2, <2>1
  <2> QED  BY <1>2, <2>2, <2>3
<1> HIDE DEF V
<1>4. ASSUME W = V PROVE Written(W, ds, l)
  BY <1>2, <1>4 DEF Written
<1> QED  BY <1>3, <1>4 DEF V

ValuesOf(ds) == [i \in 1..Len(ds) |-> Number(Value[ds[i]])]

\* What ParseCoordinate does with them.
Reading(ds, l, is_latitude) ==
  IF l = "A" THEN Refused("letter")
  ELSE IF l # "none" /\ (l \in {"N", "S"}) # is_latitude THEN Refused("axis")
  ELSE IF Len(ds) = 1 THEN DecimalDegrees(ValuesOf(ds)[1], l, is_latitude)
  ELSE DegreesMinutes(ValuesOf(ds), l, is_latitude)

\* ParseCoordinate on such tokens is what Reading says.
LEMMA ReadsNumbers ==
  ASSUME NEW s, NEW is_latitude, NEW ds \in Seq(Numerals), Len(ds) \in 1..3, NEW l,
         Tokens(s) # <<>>, l = ExtractHemisphere(Tokens(s)),
         OneEach(WithoutHemisphere(Tokens(s)), ds)
  PROVE  ParseCoordinate(s, is_latitude) = Reading(ds, l, is_latitude)
<1> DEFINE N == WithoutHemisphere(Tokens(s))
           k == Len(ds)
           v == [i \in DOMAIN N |-> ParseNumber(N[i])]
<1>1. DOMAIN N = 1..k /\ \A i \in 1..k : N[i] = <<ds[i]>>
  BY DEF OneEach
<1>2. k \in 1..3 /\ \A i \in 1..k : ds[i] \in Numerals
  BY ElementOfSeq
<1>3. \A x : Len(<<x>>) = 1 /\ <<x>>[1] = x
  OBVIOUS
<1> HIDE DEF N, k
<1>4. v = ValuesOf(ds)
  <2>1. ASSUME NEW i \in 1..k PROVE v[i] = Number(Value[ds[i]])
    <3>1. i \in DOMAIN N /\ Len(N[i]) = 1 /\ N[i][1] = ds[i]
      BY <1>1, <1>3
    <3> QED  BY <3>1 DEF ParseNumber
  <2>2. v = [i \in 1..k |-> v[i]]
    BY <1>1
  <2> HIDE DEF v
  <2> QED  BY <2>1, <2>2 DEF ValuesOf, k
<1>5. ~ \E i \in DOMAIN N : ~IsNumber(N[i])
  BY <1>1, <1>2, <1>3 DEF IsNumber
<1>6. DOMAIN N \in {1..1, 1..2, 1..3} /\ (2 \notin DOMAIN N <=> k = 1)
  <2>1. k = 1 \/ k = 2 \/ k = 3
    BY <1>2
  <2>2. 2 \notin 1..1 /\ 2 \in 1..2 /\ 2 \in 1..3
    OBVIOUS
  <2>3. 1 # 2 /\ 1 # 3
    OBVIOUS
  <2> QED  BY <1>1, <2>1, <2>2, <2>3
<1> HIDE DEF v
<1>7. ParseCoordinate(s, is_latitude) =
        IF l = "A" THEN Refused("letter")
        ELSE IF l # "none" /\ (l \in {"N", "S"}) # is_latitude THEN Refused("axis")
        ELSE IF 2 \notin DOMAIN N THEN DecimalDegrees(v[1], l, is_latitude)
        ELSE DegreesMinutes(v, l, is_latitude)
  BY <1>5, <1>6 DEF ParseCoordinate, N, v
<1> QED  BY <1>4, <1>6, <1>7 DEF Reading, k

Total(ds) ==
  3600 * Value[ds[1]] + (IF Len(ds) >= 2 THEN 60 * Value[ds[2]] ELSE 0)
                      + (IF Len(ds) = 3 THEN Value[ds[3]] ELSE 0)
Side(l) == IF l \in {"N", "E"} THEN 1 ELSE -1
AxisLetters(is_latitude) == IF is_latitude THEN {"N", "S"} ELSE {"E", "W"}
Bounded(n, is_latitude) ==
  -(3600 * MaxDegrees(is_latitude)) <= n /\ n <= 3600 * MaxDegrees(is_latitude)
InOrder(ds, l, is_latitude) ==
  /\ l \in AxisLetters(is_latitude)
  /\ \A i \in 1..Len(ds) : Value[ds[i]] >= 0
  /\ \A i \in 2..Len(ds) : Value[ds[i]] < 600
  /\ Bounded(Side(l) * Total(ds), is_latitude)

\* The numbers of the model on finite numbers.
LEMMA Arithmetic ==
  ASSUME NEW a \in Int, NEW b \in Int
  PROVE  /\ Plus(Number(a), Number(b)) = Number(a + b)
         /\ Times(a, Number(b)) = Number(a * b)
         /\ (Below(Number(a), b) <=> a < b) /\ (Above(Number(a), b) <=> a > b)
BY DEF Plus, Times, Number, Below, Above

\* InRange on a finite number.
LEMMA InRangeOfNumber ==
  ASSUME NEW n \in Int, NEW is_latitude
  PROVE  InRange(Number(n), is_latitude) =
           IF Bounded(n, is_latitude) THEN Accepted(Number(n)) ELSE Refused("range")
<1> DEFINE m == MaxDegrees(is_latitude)
<1>1. m \in Int
  BY DEF MaxDegrees
<1>2. InRange(Number(n), is_latitude) =
        IF Above(Number(n), 3600 * m) \/ Below(Number(n), -3600 * m)
        THEN Refused("range") ELSE Accepted(Number(n))
  BY DEF InRange
<1> HIDE DEF m
<1>3. Above(Number(n), 3600 * m) <=> n > 3600 * m
  BY <1>1 DEF Above, Number
<1>4. Below(Number(n), -3600 * m) <=> n < -3600 * m
  BY <1>1 DEF Below, Number
<1>5. Bounded(n, is_latitude) <=> ~(n > 3600 * m) /\ ~(n < -3600 * m)
  BY <1>1 DEF Bounded, m
<1> QED  BY <1>2, <1>3, <1>4, <1>5

\* Towards on a finite number.
LEMMA TowardsNumber ==
  ASSUME NEW n \in Int, NEW l \in HemisphereLetters
  PROVE  Towards(l, Number(n)) = Number(Side(l) * n)
<1>1. Times(-1, Number(n)) = Number(-1 * n) /\ 1 * n = n
  BY Arithmetic
<1> QED  BY <1>1 DEF Towards, Side, HemisphereLetters

\* A letter of the right axis is neither unknown nor of the other one.
LEMMA LetterIsSide ==
  ASSUME NEW l \in Letters, NEW is_latitude \in BOOLEAN
  PROVE  /\ l \in AxisLetters(is_latitude) <=>
              ~(l = "A" \/ (l # "none" /\ (l \in {"N", "S"}) # is_latitude))
         /\ l \in AxisLetters(is_latitude) => l \in HemisphereLetters
         /\ l # "none"
BY DEF Letters, HemisphereLetters, AxisLetters

\* The values of the numbers, up to three.
LEMMA ValuesAre ==
  ASSUME NEW ds \in Seq(Numerals)
  PROVE  /\ DOMAIN ValuesOf(ds) = 1..Len(ds)
         /\ \A i \in 1..Len(ds) : /\ Value[ds[i]] \in Int
                                  /\ ValuesOf(ds)[i] = Number(Value[ds[i]])
<1>1. \A i \in 1..Len(ds) : ds[i] \in Numerals
  BY ElementOfSeq
<1> QED  BY <1>1, ValueAssumption DEF ValuesOf

\* One number without a letter is accepted exactly when it is in range.
LEMMA ReadingAlone ==
  ASSUME NEW ds \in Seq(Numerals), Len(ds) \in 1..3, NEW is_latitude
  PROVE  LET r == Reading(ds, "none", is_latitude)
             n == 3600 * Value[ds[1]]
         IN  /\ r.ok => Len(ds) = 1 /\ Bounded(n, is_latitude) /\ r.degrees = Number(n)
             /\ Len(ds) = 1 /\ Bounded(n, is_latitude) => r = Accepted(Number(n))
<1> DEFINE r == Reading(ds, "none", is_latitude)
           n == 3600 * Value[ds[1]]
<1>1. CASE Len(ds) = 1
  <2>1. 1 \in 1..Len(ds)
    BY <1>1
  <2>2. Value[ds[1]] \in Int /\ ValuesOf(ds)[1] = Number(Value[ds[1]])
    BY <2>1, ValuesAre
  <2>3. Times(3600, ValuesOf(ds)[1]) = Number(n) /\ n \in Int
    BY <2>2 DEF Times, Number
  <2>4. r = InRange(Number(n), is_latitude)
    BY <1>1, <2>3 DEF Reading, DecimalDegrees, Towards
  <2> HIDE DEF r, n
  <2>5. r = IF Bounded(n, is_latitude) THEN Accepted(Number(n)) ELSE Refused("range")
    BY <2>3, <2>4, InRangeOfNumber
  <2> QED  BY <1>1, <2>5 DEF Accepted, Refused, r, n
<1>2. CASE Len(ds) # 1
  <2>1. r = Refused("hemisphere")
    BY <1>2 DEF Reading, DegreesMinutes
  <2> QED  BY <1>2, <2>1 DEF Refused
<1> QED  BY <1>1, <1>2

\* Numbers with a letter are accepted exactly when they are in order.
LEMMA ReadingInOrder ==
  ASSUME NEW ds \in Seq(Numerals), Len(ds) \in 1..3, NEW l \in Letters,
         NEW is_latitude \in BOOLEAN
  PROVE  LET r == Reading(ds, l, is_latitude)
             n == Side(l) * Total(ds)
         IN  /\ r.ok => InOrder(ds, l, is_latitude) /\ r.degrees = Number(n)
             /\ InOrder(ds, l, is_latitude) => r = Accepted(Number(n))
             /\ n \in Int
<1> DEFINE r == Reading(ds, l, is_latitude)
           v == ValuesOf(ds)
           k == Len(ds)
           a == Value[ds[1]]
           b == Value[ds[2]]
           e == Value[ds[3]]
           m == MaxDegrees(is_latitude)
           sum == Total(ds)
           side == Side(l)
<1>0. k \in 1..3 /\ m \in {900, 1800} /\ side \in {-1, 1}
  BY DEF MaxDegrees, Side
<1>1. /\ DOMAIN v = 1..k
      /\ a \in Int /\ v[1] = Number(a)
      /\ k >= 2 => b \in Int /\ v[2] = Number(b)
      /\ k = 3 => e \in Int /\ v[3] = Number(e)
  <2>1. /\ DOMAIN v = 1..k
        /\ \A i \in 1..k : Value[ds[i]] \in Int /\ v[i] = Number(Value[ds[i]])
    BY ValuesAre
  <2>2. 1 \in 1..k /\ (k >= 2 => 2 \in 1..k) /\ (k = 3 => 3 \in 1..k)
    <3> HIDE DEF k
    <3> QED  BY <1>0
  <2> HIDE DEF v
  <2> QED  BY <2>1, <2>2
<1>2. sum = 3600 * a + (IF k >= 2 THEN 60 * b ELSE 0) + (IF k = 3 THEN e ELSE 0)
  BY DEF Total
<1>3. InOrder(ds, l, is_latitude) <=>
        /\ l \in AxisLetters(is_latitude)
        /\ a >= 0
        /\ k >= 2 => b >= 0 /\ b < 600
        /\ k = 3 => e >= 0 /\ e < 600
        /\ Bounded(side * sum, is_latitude)
  <2>1. /\ 1 \in 1..k /\ (k >= 2 => 2 \in 1..k /\ 2 \in 2..k) /\ (k = 3 => 3 \in 1..k /\ 3 \in 2..k)
        /\ \A i \in 1..k : i = 1 \/ (i = 2 /\ k >= 2) \/ (i = 3 /\ k = 3)
        /\ \A i \in 2..k : (i = 2 /\ k >= 2) \/ (i = 3 /\ k = 3)
        /\ k = 3 => k >= 2
    <3> HIDE DEF k
    <3> QED  BY <1>0
  <2>2. InOrder(ds, l, is_latitude) <=>
          /\ l \in AxisLetters(is_latitude)
          /\ \A i \in 1..k : Value[ds[i]] >= 0
          /\ \A i \in 2..k : Value[ds[i]] < 600
          /\ Bounded(side * sum, is_latitude)
    BY DEF InOrder
  <2> HIDE DEF k, sum, side
  <2> QED  BY <2>1, <2>2
<1> HIDE DEF v, k, a, b, e, m, sum, side, r
<1>4. sum \in Int /\ side * sum \in Int
  <2>1. sum \in Int
    BY <1>0, <1>1, <1>2
  <2>2. side = 1 \/ side = -1
    BY <1>0
  <2> QED  BY <2>1, <2>2
<1>5. CASE l \notin AxisLetters(is_latitude)
  <2>1. r = Refused("letter") \/ r = Refused("axis")
    BY <1>5, LetterIsSide DEF Reading, r
  <2> QED  BY <1>3, <1>4, <1>5, <2>1 DEF Refused, r, side, sum
<1>6. CASE l \in AxisLetters(is_latitude)
  <2>1. r = IF k = 1 THEN DecimalDegrees(v[1], l, is_latitude)
                     ELSE DegreesMinutes(v, l, is_latitude)
    BY <1>6, LetterIsSide DEF Reading, r, v, k
  <2>2. l \in HemisphereLetters /\ l # "none"
    BY <1>6, LetterIsSide
  <2>3. InRange(Towards(l, Number(sum)), is_latitude) =
          IF Bounded(side * sum, is_latitude) THEN Accepted(Number(side * sum))
                                              ELSE Refused("range")
    <3>1. Towards(l, Number(sum)) = Number(side * sum)
      BY <1>4, <2>2, TowardsNumber DEF side
    <3> QED  BY <1>4, <3>1, InRangeOfNumber
  <2>4. CASE k = 1
    <3>1. Times(3600, v[1]) = Number(sum) /\ (Below(v[1], 0) <=> a < 0)
      <4>1. Times(3600, Number(a)) = Number(3600 * a) /\ (Below(Number(a), 0) <=> a < 0)
        BY <1>1 DEF Times, Below, Number
      <4>2. sum = 3600 * a
        BY <1>1, <1>2, <2>4
      <4> QED  BY <1>1, <4>1, <4>2
    <3>2. r = IF a < 0 THEN Refused("sign")
              ELSE IF Bounded(side * sum, is_latitude) THEN Accepted(Number(side * sum))
              ELSE Refused("range")
      BY <2>1, <2>2, <2>3, <2>4, <3>1 DEF DecimalDegrees
    <3>3. InOrder(ds, l, is_latitude) <=> ~(a < 0) /\ Bounded(side * sum, is_latitude)
      BY <1>1, <1>3, <1>6, <2>4
    <3> QED  BY <1>4, <3>2, <3>3 DEF Accepted, Refused, r, side, sum
  <2>5. CASE k # 1
    <3>1. k >= 2 /\ b \in Int /\ v[2] = Number(b)
      BY <1>0, <1>1, <2>5
    <3> DEFINE g == IF k = 3 THEN e ELSE 0
    <3>2. g \in Int /\ SecondsOf(v) = Number(g)
      <4>1. 3 \in 1..k <=> k = 3
        BY <1>0
      <4> QED  BY <1>1, <4>1 DEF SecondsOf
    <3>3. sum = 3600 * a + 60 * b + g
      BY <1>2, <3>1
    <3> HIDE DEF g
    <3>4. /\ Below(v[1], 0) <=> a < 0
          /\ Sixtieths(v[2]) <=> ~(b < 0) /\ ~(b > 599)
          /\ Sixtieths(SecondsOf(v)) <=> ~(g < 0) /\ ~(g > 599)
          /\ Above(v[1], m) <=> a > m
      <4>1. m \in Int
        BY <1>0
      <4>2. ASSUME NEW x \in Int, NEW y \in Int
            PROVE  /\ Below(Number(x), 0) <=> x < 0
                   /\ Sixtieths(Number(x)) <=> ~(x < 0) /\ ~(x > 599)
                   /\ Above(Number(x), y) <=> x > y
        BY DEF Below, Above, Number, Sixtieths
      <4> QED  BY <1>1, <3>1, <3>2, <4>1, <4>2
    <3>5. Plus(Times(3600, v[1]), Plus(Times(60, v[2]), SecondsOf(v))) = Number(sum)
      <4>1. Times(3600, v[1]) = Number(3600 * a) /\ Times(60, v[2]) = Number(60 * b)
        BY <1>1, <3>1 DEF Times, Number
      <4> DEFINE x == 3600 * a
                 y == 60 * b
      <4>2. x \in Int /\ y \in Int /\ sum = x + (y + g) /\ y + g \in Int
        BY <1>1, <3>1, <3>2, <3>3
      <4> HIDE DEF x, y
      <4>3. Plus(Number(y), Number(g)) = Number(y + g)
        BY <3>2, <4>2, Arithmetic
      <4>4. Plus(Number(x), Number(y + g)) = Number(x + (y + g))
        BY <4>2, Arithmetic
      <4> QED  BY <3>2, <4>1, <4>2, <4>3, <4>4 DEF x, y
    <3>6. r = IF a < 0 THEN Refused("sign")
              ELSE IF ~(~(b < 0) /\ ~(b > 599)) THEN Refused("minutes")
              ELSE IF ~(~(g < 0) /\ ~(g > 599)) THEN Refused("seconds")
              ELSE IF a > m THEN Refused("degrees")
              ELSE IF Bounded(side * sum, is_latitude) THEN Accepted(Number(side * sum))
              ELSE Refused("range")
      <4>1. r = DegreesMinutes(v, l, is_latitude)
        BY <2>1, <2>5
      <4> QED  BY <2>2, <2>3, <3>4, <3>5, <4>1 DEF DegreesMinutes, m
    <3>7. InOrder(ds, l, is_latitude) <=>
            /\ ~(a < 0) /\ ~(b < 0) /\ ~(b > 599) /\ ~(g < 0) /\ ~(g > 599)
            /\ Bounded(side * sum, is_latitude)
      <4>1. /\ a >= 0 <=> ~(a < 0)
            /\ (k >= 2 => b >= 0 /\ b < 600) <=> ~(b < 0) /\ ~(b > 599)
            /\ (k = 3 => e >= 0 /\ e < 600) <=> ~(g < 0) /\ ~(g > 599)
        BY <1>1, <3>1 DEF g
      <4> QED  BY <1>3, <1>6, <4>1
    <3>8. ~(a < 0) /\ ~(b < 0) /\ ~(g < 0) /\ Bounded(side * sum, is_latitude) => ~(a > m)
      <4> SUFFICES ASSUME ~(a < 0), ~(b < 0), ~(g < 0), a > m
                   PROVE  ~Bounded(side * sum, is_latitude)
        OBVIOUS
      <4>1. sum > 3600 * m /\ m > 0
        BY <1>0, <1>1, <3>1, <3>2, <3>3
      <4>2. side * sum = sum \/ side * sum = -sum
        BY <1>0, <1>4
      <4> DEFINE z == side * sum
      <4>3. ~(-(3600 * m) <= z /\ z <= 3600 * m)
        <5> HIDE DEF z
        <5> QED  BY <1>0, <1>4, <4>1, <4>2 DEF z
      <4> QED  BY <4>3 DEF Bounded, m
    <3>9. r.ok <=> r = Accepted(Number(side * sum))
      BY <3>6 DEF Accepted, Refused
    <3>10. r = Accepted(Number(side * sum)) => InOrder(ds, l, is_latitude)
      BY <3>6, <3>7 DEF Accepted, Refused
    <3>11. InOrder(ds, l, is_latitude) => r = Accepted(Number(side * sum))
      BY <3>6, <3>7, <3>8
    <3> QED  BY <1>4, <3>9, <3>10, <3>11 DEF Accepted, r, side, sum
  <2> QED  BY <2>4, <2>5
<1> QED  BY <1>5, <1>6
-----------------------------------------------------------------------------
(***************************************************************************)
(* The notations of a coordinate, as numbers and a letter.                 *)
(***************************************************************************)
Said(ds, l)  == [words |-> Append(ds, l), at |-> Side(l) * Total(ds)]
Alone(d)     == [words |-> <<d>>, at |-> 3600 * Value[d]]

\* Tuples of up to four, as sequences.
LEMMA ShortSequences ==
  ASSUME NEW E, NEW d \in E, NEW m \in E, NEW s \in E, NEW l \in E
  PROVE  /\ <<d>> \in Seq(E) /\ Len(<<d>>) = 1 /\ <<d>>[1] = d
         /\ <<d, m>> \in Seq(E) /\ Len(<<d, m>>) = 2 /\ <<d, m>>[1] = d /\ <<d, m>>[2] = m
         /\ <<d, m, s>> \in Seq(E) /\ Len(<<d, m, s>>) = 3 /\ <<d, m, s>>[1] = d
         /\ <<d, m, s>>[2] = m /\ <<d, m, s>>[3] = s
         /\ <<d, m, s, l>> \in Seq(E) /\ Len(<<d, m, s, l>>) = 4 /\ <<d, m, s, l>>[1] = d
         /\ <<d, m, s, l>>[2] = m /\ <<d, m, s, l>>[3] = s /\ <<d, m, s, l>>[4] = l
<1>1. <<d>> \in Seq(E) /\ Len(<<d>>) = 1 /\ <<d>>[1] = d
  OBVIOUS
<1>2. <<d, m>> \in Seq(E) /\ Len(<<d, m>>) = 2 /\ <<d, m>>[1] = d /\ <<d, m>>[2] = m
  OBVIOUS
<1>3. /\ <<d, m, s>> \in Seq(E) /\ Len(<<d, m, s>>) = 3 /\ <<d, m, s>>[1] = d
      /\ <<d, m, s>>[2] = m /\ <<d, m, s>>[3] = s
  OBVIOUS
<1>4. /\ <<d, m, s, l>> \in Seq(E) /\ Len(<<d, m, s, l>>) = 4 /\ <<d, m, s, l>>[1] = d
      /\ <<d, m, s, l>>[2] = m /\ <<d, m, s, l>>[3] = s /\ <<d, m, s, l>>[4] = l
  OBVIOUS
<1> QED  BY <1>1, <1>2, <1>3, <1>4

\* Tuples that go on with one element.
LEMMA AppendToOne ==
  ASSUME NEW E, NEW d \in E, NEW l \in E
  PROVE  Append(<<d>>, l) = <<d, l>>
<1> DEFINE a == <<d>>
           x == <<d, l>>
<1>1. a \in Seq(E) /\ Len(a) = 1 /\ a[1] = d
  BY ShortSequences
<1>2. x \in Seq(E) /\ Len(x) = 2 /\ x[1] = d /\ x[2] = l
  BY ShortSequences
<1> HIDE DEF a, x
<1>3. Written(x, a, l)
  BY <1>1, <1>2 DEF Written
<1>4. x = Append(a, l)
  BY <1>1, <1>2, <1>3, AppendedIsWritten
<1> QED  BY <1>4 DEF a, x

\* The same of two,
LEMMA AppendToTwo ==
  ASSUME NEW E, NEW d \in E, NEW m \in E, NEW l \in E
  PROVE  Append(<<d, m>>, l) = <<d, m, l>>
<1> DEFINE a == <<d, m>>
           x == <<d, m, l>>
<1>1. a \in Seq(E) /\ Len(a) = 2 /\ a[1] = d /\ a[2] = m
  BY ShortSequences
<1>2. x \in Seq(E) /\ Len(x) = 3 /\ x[1] = d /\ x[2] = m /\ x[3] = l
  BY ShortSequences
<1> HIDE DEF a, x
<1>3. Written(x, a, l)
  BY <1>1, <1>2 DEF Written
<1>4. x = Append(a, l)
  BY <1>1, <1>2, <1>3, AppendedIsWritten
<1> QED  BY <1>4 DEF a, x

\* and of three.
LEMMA AppendToThree ==
  ASSUME NEW E, NEW d \in E, NEW m \in E, NEW s \in E, NEW l \in E
  PROVE  Append(<<d, m, s>>, l) = <<d, m, s, l>>
<1> DEFINE a == <<d, m, s>>
           x == <<d, m, s, l>>
<1>1. a \in Seq(E) /\ Len(a) = 3 /\ a[1] = d /\ a[2] = m /\ a[3] = s
  BY ShortSequences
<1>2. x \in Seq(E) /\ Len(x) = 4 /\ x[1] = d /\ x[2] = m /\ x[3] = s /\ x[4] = l
  BY ShortSequences
<1> HIDE DEF a, x
<1>3. Written(x, a, l)
  BY <1>1, <1>2 DEF Written
<1>4. x = Append(a, l)
  BY <1>1, <1>2, <1>3, AppendedIsWritten
<1> QED  BY <1>4 DEF a, x

\* What one number says,
LEMMA TotalOfOne ==
  ASSUME NEW d \in Numerals
  PROVE  Total(<<d>>) = 3600 * Value[d] /\ Value[d] \in Int
<1>1. Len(<<d>>) = 1 /\ <<d>>[1] = d /\ Value[d] \in Int
  BY ValueAssumption
<1> QED  BY <1>1 DEF Total

\* what two say,
LEMMA TotalOfTwo ==
  ASSUME NEW d \in Numerals, NEW m \in Numerals
  PROVE  Total(<<d, m>>) = 3600 * Value[d] + 60 * Value[m]
<1>1. Value[d] \in Int /\ Value[m] \in Int
  BY ValueAssumption
<1>2. Len(<<d, m>>) = 2 /\ <<d, m>>[1] = d /\ <<d, m>>[2] = m
  OBVIOUS
<1> QED  BY <1>1, <1>2 DEF Total

\* and what three say.
LEMMA TotalOfThree ==
  ASSUME NEW d \in Numerals, NEW m \in Numerals, NEW s \in Numerals
  PROVE  Total(<<d, m, s>>) = 3600 * Value[d] + 60 * Value[m] + Value[s]
<1>1. Value[d] \in Int /\ Value[m] \in Int /\ Value[s] \in Int
  BY ValueAssumption
<1>2. Len(<<d, m, s>>) = 3 /\ <<d, m, s>>[1] = d /\ <<d, m, s>>[2] = m /\ <<d, m, s>>[3] = s
  OBVIOUS
<1> QED  BY <1>1, <1>2 DEF Total

Magnitudes == {n \in Numerals : Value[n] >= 0}
SixtiethsOf == {n \in Magnitudes : Value[n] < 600}

SaidAlone(co) == \E d \in Numerals : co = Alone(d)
SaidByOne(co, is_latitude) ==
  \E d \in Magnitudes, l \in AxisLetters(is_latitude) : co = Said(<<d>>, l)
SaidByTwo(co, is_latitude) ==
  \E d \in Magnitudes, m \in SixtiethsOf, l \in AxisLetters(is_latitude) :
    co = Said(<<d, m>>, l)
SaidByThree(co, is_latitude) ==
  \E d \in Magnitudes, m \in SixtiethsOf, s \in SixtiethsOf, l \in AxisLetters(is_latitude) :
    co = Said(<<d, m, s>>, l)

\* The notations, one by one.
LEMMA CoordinatesAre ==
  ASSUME NEW is_latitude \in BOOLEAN, NEW co
  PROVE  co \in Coordinates(is_latitude) <=>
           /\ Bounded(co.at, is_latitude)
           /\ \/ SaidAlone(co) \/ SaidByOne(co, is_latitude)
              \/ SaidByTwo(co, is_latitude) \/ SaidByThree(co, is_latitude)
<1> DEFINE letters == AxisLetters(is_latitude)
           b(d, l) == [words |-> <<d, l>>, at |-> Side(l) * 3600 * Value[d]]
           g(d, m, l) == [words |-> <<d, m, l>>,
                          at |-> Side(l) * (3600 * Value[d] + 60 * Value[m])]
           e(d, m, s, l) == [words |-> <<d, m, s, l>>,
                             at |-> Side(l) * (3600 * Value[d] + 60 * Value[m] + Value[s])]
           B == {b(d, l) : d \in Magnitudes, l \in letters}
           C == {g(d, m, l) : d \in Magnitudes, m \in SixtiethsOf, l \in letters}
           D == {e(d, m, s, l) :
                   d \in Magnitudes, m \in SixtiethsOf, s \in SixtiethsOf, l \in letters}
           A == {[words |-> <<d>>, at |-> 3600 * Value[d]] : d \in Numerals}
<1>0. Numerals \subseteq Elements /\ letters \subseteq Elements
  BY DEF Elements, AxisLetters, Letters, HemisphereLetters
<1>1. Coordinates(is_latitude) = {x \in A \cup B \cup C \cup D : Bounded(x.at, is_latitude)}
  <2>1. Coordinates(is_latitude) =
          {x \in A \cup B \cup C \cup D : -(3600 * MaxDegrees(is_latitude)) <= x.at
                                          /\ x.at <= 3600 * MaxDegrees(is_latitude)}
    BY DEF Coordinates, Magnitudes, SixtiethsOf, AxisLetters, Side
  <2> QED  BY <2>1 DEF Bounded
<1>2. co \in A <=> SaidAlone(co)
  BY DEF Alone, SaidAlone
<1>3. co \in B <=> SaidByOne(co, is_latitude)
  <2>1. ASSUME NEW d \in Magnitudes, NEW l \in letters PROVE b(d, l) = Said(<<d>>, l)
    <3>1. d \in Numerals
      BY DEF Magnitudes
    <3>2. Total(<<d>>) = 3600 * Value[d] /\ Value[d] \in Int
      BY <3>1, TotalOfOne
    <3>3. Side(l) * 3600 * Value[d] = Side(l) * (3600 * Value[d])
      <4>1. Side(l) = 1 \/ Side(l) = -1
        BY DEF Side
      <4> QED  BY <3>2, <4>1
    <3>4. Append(<<d>>, l) = <<d, l>>
      BY <1>0, <3>1, AppendToOne
    <3> QED  BY <3>2, <3>3, <3>4 DEF Said
  <2>2. co \in B <=> \E d \in Magnitudes, l \in letters : co = b(d, l)
    OBVIOUS
  <2> HIDE DEF B, b
  <2> QED  BY <2>1, <2>2 DEF SaidByOne
<1>4. co \in C <=> SaidByTwo(co, is_latitude)
  <2>1. ASSUME NEW d \in Magnitudes, NEW m \in SixtiethsOf, NEW l \in letters
        PROVE  g(d, m, l) = Said(<<d, m>>, l)
    <3>1. d \in Numerals /\ m \in Numerals
      BY DEF Magnitudes, SixtiethsOf
    <3>2. Total(<<d, m>>) = 3600 * Value[d] + 60 * Value[m]
      BY <3>1, TotalOfTwo
    <3>3. Append(<<d, m>>, l) = <<d, m, l>>
      BY <1>0, <3>1, AppendToTwo
    <3> QED  BY <3>2, <3>3 DEF Said
  <2>2. co \in C <=> \E d \in Magnitudes, m \in SixtiethsOf, l \in letters : co = g(d, m, l)
    OBVIOUS
  <2> HIDE DEF C, g
  <2> QED  BY <2>1, <2>2 DEF SaidByTwo
<1>5. co \in D <=> SaidByThree(co, is_latitude)
  <2>1. ASSUME NEW d \in Magnitudes, NEW m \in SixtiethsOf, NEW s \in SixtiethsOf,
               NEW l \in letters
        PROVE  e(d, m, s, l) = Said(<<d, m, s>>, l)
    <3>1. d \in Numerals /\ m \in Numerals /\ s \in Numerals
      BY DEF Magnitudes, SixtiethsOf
    <3>2. Total(<<d, m, s>>) = 3600 * Value[d] + 60 * Value[m] + Value[s]
      BY <3>1, TotalOfThree
    <3>3. Append(<<d, m, s>>, l) = <<d, m, s, l>>
      BY <1>0, <3>1, AppendToThree
    <3> QED  BY <3>2, <3>3 DEF Said
  <2>2. co \in D <=> \E d \in Magnitudes, m \in SixtiethsOf, s \in SixtiethsOf, l \in letters :
                      co = e(d, m, s, l)
    OBVIOUS
  <2> HIDE DEF D
  <2>3. ASSUME co \in D PROVE SaidByThree(co, is_latitude)
    <3>1. PICK d \in Magnitudes, m \in SixtiethsOf, s \in SixtiethsOf, l \in letters :
                 co = e(d, m, s, l)
      BY <2>2, <2>3
    <3> HIDE DEF e
    <3>2. co = Said(<<d, m, s>>, l)
      BY <2>1, <3>1
    <3> QED  BY <3>2 DEF SaidByThree
  <2>4. ASSUME SaidByThree(co, is_latitude) PROVE co \in D
    <3>1. PICK d \in Magnitudes, m \in SixtiethsOf, s \in SixtiethsOf, l \in letters :
                 co = Said(<<d, m, s>>, l)
      BY <2>4 DEF SaidByThree
    <3> HIDE DEF e
    <3>2. co = e(d, m, s, l)
      BY <2>1, <3>1
    <3> QED  BY <2>2, <3>2
  <2> QED  BY <2>3, <2>4
<1> HIDE DEF A, B, C, D
<1> QED  BY <1>1, <1>2, <1>3, <1>4, <1>5

\* Up to three numerals are one, two or three.
LEMMA UpToThree ==
  ASSUME NEW ds \in Seq(Numerals), Len(ds) \in 1..3
  PROVE  /\ \A i \in 1..Len(ds) : ds[i] \in Numerals
         /\ \/ Len(ds) = 1 /\ ds = <<ds[1]>>
            \/ Len(ds) = 2 /\ ds = <<ds[1], ds[2]>>
            \/ Len(ds) = 3 /\ ds = <<ds[1], ds[2], ds[3]>>
<1>1. \A i \in 1..Len(ds) : ds[i] \in Numerals
  BY ElementOfSeq
<1>2. Len(ds) = 1 \/ Len(ds) = 2 \/ Len(ds) = 3
  OBVIOUS
<1>3. Len(ds) = 1 => ds = <<ds[1]>>
  OBVIOUS
<1>4. Len(ds) = 2 => ds = <<ds[1], ds[2]>>
  OBVIOUS
<1>5. Len(ds) = 3 => ds = <<ds[1], ds[2], ds[3]>>
  OBVIOUS
<1> QED  BY <1>1, <1>2, <1>3, <1>4, <1>5

\* Numbers in order, with their letter, are a notation.
LEMMA SaidInOrder ==
  ASSUME NEW ds \in Seq(Numerals), Len(ds) \in 1..3, NEW l \in Letters,
         NEW is_latitude \in BOOLEAN, InOrder(ds, l, is_latitude)
  PROVE  Said(ds, l) \in Coordinates(is_latitude)
<1> DEFINE k == Len(ds)
           d == ds[1]
           m == ds[2]
           s == ds[3]
           co == Said(ds, l)
<1>1. \A i \in 1..k : ds[i] \in Numerals
  BY UpToThree
<1>2. (k = 1 /\ ds = <<d>>) \/ (k = 2 /\ ds = <<d, m>>) \/ (k = 3 /\ ds = <<d, m, s>>)
  BY UpToThree
<1>3. /\ l \in AxisLetters(is_latitude) /\ Bounded(co.at, is_latitude)
      /\ \A i \in 1..k : Value[ds[i]] >= 0
      /\ \A i \in 2..k : Value[ds[i]] < 600
  BY DEF InOrder, Said
<1>4. \A i \in 1..k : ds[i] \in Magnitudes
  BY <1>1, <1>3 DEF Magnitudes
<1>5. \A i \in 2..k : ds[i] \in SixtiethsOf
  <2>1. \A i \in 2..k : i \in 1..k
    OBVIOUS
  <2> QED  BY <1>3, <1>4, <2>1 DEF SixtiethsOf
<1>6. k = 1 => d \in Magnitudes
  BY <1>4
<1>7. k = 2 => d \in Magnitudes /\ m \in SixtiethsOf
  BY <1>4, <1>5
<1>8. k = 3 => d \in Magnitudes /\ m \in SixtiethsOf /\ s \in SixtiethsOf
  BY <1>4, <1>5
<1>9. k = 3 => ds = <<d, m, s>> /\ co = Said(<<d, m, s>>, l)
  BY <1>2
<1>14. (k = 1 => co = Said(<<d>>, l)) /\ (k = 2 => co = Said(<<d, m>>, l))
  BY <1>2
<1> HIDE DEF k, d, m, s, co
<1>10. k = 1 => SaidByOne(co, is_latitude)
  BY <1>3, <1>6, <1>14 DEF SaidByOne
<1>11. k = 2 => SaidByTwo(co, is_latitude)
  BY <1>3, <1>7, <1>14 DEF SaidByTwo
<1>12. k = 3 => SaidByThree(co, is_latitude)
  BY <1>3, <1>8, <1>9 DEF SaidByThree
<1>13. k = 1 \/ k = 2 \/ k = 3
  BY <1>2
<1> QED  BY <1>3, <1>10, <1>11, <1>12, <1>13, CoordinatesAre DEF co

\* Every notation is a number alone, or numbers in order and a letter.
LEMMA CoordinateForms ==
  ASSUME NEW is_latitude \in BOOLEAN, NEW co \in Coordinates(is_latitude)
  PROVE  \/ \E d \in Numerals : co = Alone(d) /\ Bounded(3600 * Value[d], is_latitude)
         \/ \E ds \in Seq(Numerals), l \in AxisLetters(is_latitude) :
              Len(ds) \in 1..3 /\ InOrder(ds, l, is_latitude) /\ co = Said(ds, l)
<1>1. Bounded(co.at, is_latitude)
  BY CoordinatesAre
<1>2. CASE SaidAlone(co)
  BY <1>1, <1>2 DEF Alone, SaidAlone
<1>3. CASE SaidByOne(co, is_latitude)
  <2>1. PICK d \in Magnitudes, l \in AxisLetters(is_latitude) : co = Said(<<d>>, l)
    BY <1>3 DEF SaidByOne
  <2> DEFINE ds == <<d>>
  <2>2. d \in Numerals /\ Value[d] >= 0
    BY DEF Magnitudes
  <2>3. ds \in Seq(Numerals) /\ Len(ds) = 1 /\ ds[1] = d /\ co = Said(ds, l)
    BY <2>1, <2>2, ShortSequences
  <2> HIDE DEF ds
  <2>4. /\ \A i \in 1..1 : i = 1
        /\ \A i \in 2..1 : FALSE
        /\ 1 \in 1..3
    OBVIOUS
  <2>5. InOrder(ds, l, is_latitude)
    BY <1>1, <2>2, <2>3, <2>4 DEF InOrder, Said
  <2> QED  BY <2>3, <2>4, <2>5
<1>4. CASE SaidByTwo(co, is_latitude)
  <2>1. PICK d \in Magnitudes, m \in SixtiethsOf, l \in AxisLetters(is_latitude) :
               co = Said(<<d, m>>, l)
    BY <1>4 DEF SaidByTwo
  <2> DEFINE ds == <<d, m>>
  <2>2. /\ d \in Numerals /\ Value[d] >= 0
        /\ m \in Numerals /\ Value[m] >= 0 /\ Value[m] < 600
    BY DEF Magnitudes, SixtiethsOf
  <2>3. ds \in Seq(Numerals) /\ Len(ds) = 2 /\ ds[1] = d /\ ds[2] = m /\ co = Said(ds, l)
    BY <2>1, <2>2, ShortSequences
  <2> HIDE DEF ds
  <2>4. /\ \A i \in 1..2 : i = 1 \/ i = 2
        /\ \A i \in 2..2 : i = 2
        /\ 2 \in 1..3
    OBVIOUS
  <2>5. InOrder(ds, l, is_latitude)
    BY <1>1, <2>2, <2>3, <2>4 DEF InOrder, Said
  <2> QED  BY <2>3, <2>4, <2>5
<1>5. CASE SaidByThree(co, is_latitude)
  <2>1. PICK d \in Magnitudes, m \in SixtiethsOf, s \in SixtiethsOf,
             l \in AxisLetters(is_latitude) : co = Said(<<d, m, s>>, l)
    BY <1>5 DEF SaidByThree
  <2> DEFINE ds == <<d, m, s>>
  <2>2. /\ d \in Numerals /\ Value[d] >= 0
        /\ m \in Numerals /\ Value[m] >= 0 /\ Value[m] < 600
        /\ s \in Numerals /\ Value[s] >= 0 /\ Value[s] < 600
    BY DEF Magnitudes, SixtiethsOf
  <2>3. /\ ds \in Seq(Numerals) /\ Len(ds) = 3 /\ ds[1] = d /\ ds[2] = m /\ ds[3] = s
        /\ co = Said(ds, l)
    BY <2>1, <2>2, ShortSequences
  <2> HIDE DEF ds
  <2>4. /\ \A i \in 1..3 : i = 1 \/ i = 2 \/ i = 3
        /\ \A i \in 2..3 : i = 2 \/ i = 3
        /\ 3 \in 1..3
    OBVIOUS
  <2>5. InOrder(ds, l, is_latitude)
    BY <1>1, <2>2, <2>3, <2>4 DEF InOrder, Said
  <2> QED  BY <2>3, <2>4, <2>5
<1> QED  BY <1>2, <1>3, <1>4, <1>5, CoordinatesAre
-----------------------------------------------------------------------------
(***************************************************************************)
(* One number alone.                                                       *)
(***************************************************************************)
LEMMA OneToken ==
  ASSUME NEW T \in Seq(Seq(Elements)), NEW W \in Seq(Elements), NEW off, TokenEnds(off, T, W),
         NEW d
  PROVE  Len(T) = 1 /\ T[1] = <<d>> <=> W = <<d>>
<1>0. /\ off \in [0..Len(T) -> 0..Len(W)] /\ off[0] = 0 /\ off[Len(T)] = Len(W)
      /\ \A k \in 1..Len(T) : /\ Len(T[k]) >= 1 /\ off[k] = off[k - 1] + Len(T[k])
                              /\ \A j \in 1..Len(T[k]) : T[k][j] = W[off[k - 1] + j]
  BY DEF TokenEnds
<1>1. Len(T) \in Nat /\ Len(W) \in Nat /\ 1 - 1 = 0 /\ 0 + 1 = 1
  OBVIOUS
<1>2. Len(<<d>>) = 1 /\ <<d>>[1] = d
  OBVIOUS
<1>3. ASSUME Len(T) = 1, T[1] = <<d>> PROVE W = <<d>>
  <2>1. 1 \in 1..Len(T) /\ 1 \in 1..1
    BY <1>3
  <2>2. Len(W) = 1 /\ W[1] = d
    BY <1>0, <1>1, <1>2, <1>3, <2>1
  <2> QED  BY <2>2
<1>4. ASSUME W = <<d>> PROVE Len(T) = 1 /\ T[1] = <<d>>
  <2>1. Len(W) = 1 /\ W[1] = d
    BY <1>2, <1>4
  <2>2. Len(T) # 0
    BY <1>0, <2>1
  <2>3. 1 \in 1..Len(T) /\ 1 \in 0..Len(T)
    BY <1>1, <2>2
  <2> DEFINE t == T[1]
             m == Len(t)
             x == off[1]
  <2>4. t \in Seq(Elements) /\ m \in Nat
    <3>1. t \in Seq(Elements)
      BY <2>3, ElementOfSeq
    <3> QED  BY <3>1, LenProperties
  <2>5. m >= 1 /\ x = 0 + m /\ x \in 0..1
    BY <1>0, <1>1, <2>1, <2>3
  <2> HIDE DEF m, x
  <2>6. m = 1 /\ x = 1
    BY <2>4, <2>5
  <2>7. t[1] = d
    <3>1. 1 \in 1..m
      BY <2>6
    <3>2. \A j \in 1..m : t[j] = W[off[1 - 1] + j]
      BY <1>0, <2>3 DEF m
    <3>3. t[1] = W[off[1 - 1] + 1]
      BY <3>1, <3>2
    <3> QED  BY <1>0, <1>1, <2>1, <3>3
  <2>8. t = <<d>>
    <3>1. Len(t) = 1
      BY <2>6 DEF m
    <3> HIDE DEF t
    <3> QED  BY <2>4, <2>7, <3>1
  <2>9. Len(T) = 1
    <3> SUFFICES ASSUME Len(T) # 1 PROVE FALSE
      OBVIOUS
    <3> DEFINE g == Len(T)
    <3>0. g \in Nat /\ g # 0 /\ g # 1
      BY <1>1, <2>2
    <3> HIDE DEF g
    <3>1. 2 \in 1..g /\ 2 \in 0..g /\ 2 - 1 = 1
      BY <3>0
    <3> USE DEF g
    <3> DEFINE n == Len(T[2])
               y == off[2]
    <3>2. T[2] \in Seq(Elements)
      BY <3>1, ElementOfSeq
    <3>3. n \in Nat
      BY <3>2, LenProperties
    <3>4. n >= 1 /\ y = x + n /\ y \in 0..1
      BY <1>0, <2>1, <3>1 DEF x
    <3> HIDE DEF n, y
    <3> QED  BY <2>6, <3>3, <3>4
  <2> QED  BY <2>8, <2>9
<1> QED  BY <1>3, <1>4

\* The kinds of characters have nothing in common.
LEMMA NumeralsApart ==
  /\ Numerals \subseteq Elements /\ Letters \subseteq Elements
  /\ \A d \in Numerals : d \notin Letters /\ d \notin White /\ d # Comma
  /\ "none" \notin Letters /\ "A" \in Letters
  /\ \A l \in Letters : l \notin White /\ l # Comma
  /\ Comma \in Elements /\ Blank \in Elements /\ Mark \in Elements
  /\ Comma \notin White
BY ValueAssumption DEF Elements, Letters, HemisphereLetters, White, Blank, Mark, Comma

\* A number alone has no letter.
LEMMA NumberAlone ==
  ASSUME NEW T, NEW d \in Numerals, Len(T) = 1, T[1] = <<d>>
  PROVE  /\ T # <<>> /\ ExtractHemisphere(T) = "none" /\ WithoutHemisphere(T) = T
<1>1. Last(T) = <<d>>
  BY DEF Last
<1>2. Last(<<d>>) = d
  BY DEF Last
<1>3. d \notin Letters
  BY NumeralsApart
<1>4. T # <<>>
  OBVIOUS
<1>5. ExtractHemisphere(T) = "none"
  BY <1>1, <1>2, <1>3 DEF ExtractHemisphere
<1> QED  BY <1>4, <1>5 DEF WithoutHemisphere

\* What WithoutHemisphere leaves are tokens.
LEMMA NumbersType ==
  ASSUME NEW T \in Seq(Seq(Elements))
  PROVE  /\ WithoutHemisphere(T) \in Seq(Seq(Elements))
         /\ ExtractHemisphere(T) \in Letters \cup {"none"}
<1>1. ExtractHemisphere(T) \in Letters \cup {"none"}
  BY DEF ExtractHemisphere
<1>2. CASE ExtractHemisphere(T) = "none"
  BY <1>1, <1>2 DEF WithoutHemisphere
<1>3. CASE ExtractHemisphere(T) # "none"
  <2>1. T # <<>>
    BY <1>3 DEF ExtractHemisphere
  <2> DEFINE f == Front(T)
             q == T[Len(T)]
             e == IF Len(q) = 1 THEN <<>> ELSE <<Front(q)>>
  <2>2. f \in Seq(Seq(Elements)) /\ Len(T) \in 1..Len(T)
    <3>1. f \in Seq(Seq(Elements)) /\ Len(T) \in Nat \ {0}
      BY <2>1, FrontOf
    <3> QED  BY <3>1
  <2>3. q \in Seq(Elements)
    BY <2>2, ElementOfSeq
  <2>4. Front(q) \in Seq(Elements)
    <3> HIDE DEF q
    <3>1. CASE q = <<>>
      <4>1. Front(q) = <<>>
        <5>1. Len(q) - 1 < 1 /\ Len(q) - 1 \in Int /\ 1 \in Int
          BY <3>1
        <5> QED  BY <5>1, SubSeqEmpty DEF Front
      <4> QED  BY <4>1
    <3>2. CASE q # <<>>
      BY <2>3, <3>2, FrontOf
    <3> QED  BY <3>1, <3>2
  <2>5. e \in Seq(Seq(Elements))
    BY <2>4
  <2>6. WithoutHemisphere(T) = f \o e
    BY <1>3 DEF WithoutHemisphere, Last
  <2> HIDE DEF e, f
  <2>7. f \o e \in Seq(Seq(Elements))
    BY <2>2, <2>5
  <2> QED  BY <1>1, <2>6, <2>7
<1> QED  BY <1>2, <1>3

(***************************************************************************)
(* A number that is finite has only finite parts.                          *)
(***************************************************************************)
LEMMA FiniteParts ==
  ASSUME NEW a, NEW b, NEW k, NEW l, NEW is_latitude
  PROVE  /\ Times(k, a).finite => a.finite
         /\ Plus(a, b).finite => a.finite /\ b.finite
         /\ Towards(l, a).finite => a.finite
         /\ InRange(a, is_latitude).ok => InRange(a, is_latitude).degrees = a
<1>1. /\ Times(k, a).finite => a.finite
      /\ Plus(a, b).finite => a.finite /\ b.finite
  BY DEF Times, Plus, Number, NaN
<1>2. Times(-1, a).finite => a.finite
  BY DEF Times, Number, NaN
<1>3. Towards(l, a).finite => a.finite
  BY <1>2 DEF Towards
<1>4. InRange(a, is_latitude).ok => InRange(a, is_latitude).degrees = a
  BY DEF InRange, Accepted, Refused
<1> QED  BY <1>1, <1>3, <1>4

\* An accepted number that is finite has been read from finite ones.
LEMMA FiniteNumbers ==
  ASSUME NEW v, NEW l, NEW is_latitude
  PROVE  /\ LET r == DecimalDegrees(v[1], l, is_latitude)
            IN  r.ok /\ r.degrees.finite => v[1].finite
         /\ LET r == DegreesMinutes(v, l, is_latitude)
            IN  r.ok /\ r.degrees.finite =>
                  v[1].finite /\ v[2].finite /\ SecondsOf(v).finite
<1> DEFINE r == DecimalDegrees(v[1], l, is_latitude)
           t == DegreesMinutes(v, l, is_latitude)
           x == Times(3600, v[1])
           y == Plus(x, Plus(Times(60, v[2]), SecondsOf(v)))
<1>1. r.ok => r = InRange(Towards(l, x), is_latitude)
  BY DEF DecimalDegrees, Refused
<1>2. t.ok => t = InRange(Towards(l, y), is_latitude)
  BY DEF DegreesMinutes, Refused
<1>3. r.ok /\ r.degrees.finite => x.finite
  <2> DEFINE p == Towards(l, x)
             q == InRange(p, is_latitude)
  <2>0. p.finite => x.finite
    <3> HIDE DEF x
    <3> QED  BY FiniteParts
  <2>1. q.ok => q.degrees = p
    <3> HIDE DEF p
    <3> QED  BY FiniteParts
  <2>2. r.ok => r = q
    BY <1>1
  <2> HIDE DEF r, x, p, q
  <2> QED  BY <2>0, <2>1, <2>2
<1>4. x.finite => v[1].finite
  BY FiniteParts
<1>5. t.ok /\ t.degrees.finite => y.finite
  <2> DEFINE p == Towards(l, y)
             q == InRange(p, is_latitude)
  <2>0. p.finite => y.finite
    <3> HIDE DEF y
    <3> QED  BY FiniteParts
  <2>1. q.ok => q.degrees = p
    <3> HIDE DEF p
    <3> QED  BY FiniteParts
  <2>2. t.ok => t = q
    BY <1>2
  <2> HIDE DEF t, y, p, q
  <2> QED  BY <2>0, <2>1, <2>2
<1> DEFINE z == Times(60, v[2])
           w == SecondsOf(v)
<1>6. z.finite => v[2].finite
  BY FiniteParts
<1>7. y.finite => x.finite /\ z.finite /\ w.finite
  <2> DEFINE u == Plus(z, w)
  <2>1. y = Plus(x, u)
    OBVIOUS
  <2>2. u.finite => z.finite /\ w.finite
    <3> HIDE DEF z, w
    <3> QED  BY FiniteParts
  <2> HIDE DEF x, u, y, z, w
  <2> QED  BY <2>1, <2>2, FiniteParts
<1> HIDE DEF x, y, z, w, r, t
<1> QED  BY <1>3, <1>4, <1>5, <1>6, <1>7 DEF r, t, w
-----------------------------------------------------------------------------
(***************************************************************************)
(* ParseCoordinate reads exactly the notations of a coordinate.            *)
(***************************************************************************)
LEMMA SameRange ==
  ASSUME NEW a \in Nat, NEW b \in Nat, 1..a = 1..b
  PROVE  a = b
<1>1. ASSUME NEW x \in Nat, NEW y \in Nat, x < y PROVE 1..x # 1..y
  <2>1. y \in 1..y /\ y \notin 1..x
    BY <1>1
  <2> QED  BY <2>1
<1>2. ~(a < b) /\ ~(b < a)
  BY <1>1
<1> QED  BY <1>2

\* Where a finite coordinate is accepted, every token left is a numeral.
LEMMA AcceptedNumbers ==
  ASSUME NEW s, Tokens(s) \in Seq(Seq(Elements)), NEW is_latitude,
         ParseCoordinate(s, is_latitude).ok, ParseCoordinate(s, is_latitude).degrees.finite
  PROVE  /\ Tokens(s) # <<>>
         /\ \E ds \in Seq(Numerals) :
              Len(ds) \in 1..3 /\ OneEach(WithoutHemisphere(Tokens(s)), ds)
<1> DEFINE T == Tokens(s)
           l == ExtractHemisphere(T)
           N == WithoutHemisphere(T)
           v == [i \in DOMAIN N |-> ParseNumber(N[i])]
           r == ParseCoordinate(s, is_latitude)
<1>1. /\ T # <<>> /\ DOMAIN N \in {1..1, 1..2, 1..3}
      /\ \A i \in DOMAIN N : IsNumber(N[i])
      /\ r = IF 2 \notin DOMAIN N THEN DecimalDegrees(v[1], l, is_latitude)
                                  ELSE DegreesMinutes(v, l, is_latitude)
  BY DEF ParseCoordinate, Refused
<1>2. N \in Seq(Seq(Elements)) /\ DOMAIN N = 1..Len(N) /\ Len(N) \in Nat
  <2>1. N \in Seq(Seq(Elements))
    BY NumbersType
  <2> HIDE DEF N
  <2> QED  BY <2>1
<1>3. /\ 2 \notin DOMAIN N => v[1].finite
      /\ 2 \in DOMAIN N => v[1].finite /\ v[2].finite /\ SecondsOf(v).finite
  <2>1. LET x == DecimalDegrees(v[1], l, is_latitude) IN x.ok /\ x.degrees.finite => v[1].finite
    <3> HIDE DEF v, l
    <3> QED  BY FiniteNumbers
  <2>2. LET x == DegreesMinutes(v, l, is_latitude)
        IN  x.ok /\ x.degrees.finite => v[1].finite /\ v[2].finite /\ SecondsOf(v).finite
    <3> HIDE DEF v, l
    <3> QED  BY FiniteNumbers
  <2> HIDE DEF v, l, N
  <2> QED  BY <1>1, <2>1, <2>2
<1>4. DOMAIN v = DOMAIN N /\ \A i \in DOMAIN N : v[i] = ParseNumber(N[i])
  OBVIOUS
<1> HIDE DEF N, v, l, T, r
<1> DEFINE k == Len(N)
<1>5. k \in 1..3 /\ DOMAIN N = 1..k
  <2>1. 1..k = 1..1 \/ 1..k = 1..2 \/ 1..k = 1..3
    BY <1>1, <1>2
  <2>2. k \in Nat
    BY <1>2
  <2> HIDE DEF k
  <2>4. 1..k = 1..1 => k = 1
    BY <2>2, SameRange
  <2>5. 1..k = 1..2 => k = 2
    BY <2>2, SameRange
  <2>6. 1..k = 1..3 => k = 3
    BY <2>2, SameRange
  <2>3. k \in 1..3
    BY <2>1, <2>4, <2>5, <2>6
  <2> QED  BY <1>2, <2>3 DEF k
<1>6. \A i \in 1..k : v[i].finite
  <2>1. 3 \in 1..k => SecondsOf(v) = v[3]
    BY <1>4, <1>5 DEF SecondsOf
  <2>2. \A i \in 1..k : i = 1 \/ (i = 2 /\ 2 \in 1..k) \/ (i = 3 /\ 2 \in 1..k /\ 3 \in 1..k)
    <3>1. k \in 1..3
      BY <1>5
    <3> HIDE DEF k
    <3> QED  BY <3>1
  <2> HIDE DEF k
  <2> QED  BY <1>3, <1>5, <2>1, <2>2
<1> DEFINE ds == [i \in 1..k |-> N[i][1]]
<1>7. ASSUME NEW i \in 1..k PROVE N[i] = <<ds[i]>> /\ ds[i] \in Numerals
  <2>1. N[i] \in Seq(Elements)
    BY <1>2, ElementOfSeq
  <2>2. Len(N[i]) = 1
    BY <1>4, <1>5, <1>6 DEF ParseNumber, NaN
  <2>3. N[i][1] \in Numerals
    <3>1. Len(<<"N", "A", "N">>) = 3
      OBVIOUS
    <3> QED  BY <1>1, <1>5, <2>2, <3>1 DEF IsNumber
  <2> DEFINE n == N[i]
  <2>4. n = <<n[1]>>
    <3>1. n \in Seq(Elements) /\ Len(n) = 1
      BY <2>1, <2>2
    <3> HIDE DEF n
    <3> QED  BY <3>1
  <2> QED  BY <2>3, <2>4
<1>8. ds \in Seq(Numerals) /\ Len(ds) = k
  <2>1. k \in Nat /\ \A i \in 1..k : N[i][1] \in Numerals
    BY <1>5, <1>7
  <2> HIDE DEF k
  <2> QED  BY <2>1
<1> HIDE DEF ds
<1>9. OneEach(N, ds)
  BY <1>5, <1>7, <1>8 DEF OneEach
<1> QED  BY <1>1, <1>5, <1>8, <1>9 DEF T, N

\* What ParseCoordinate accepts is written, and as it is written.
LEMMA CoordinateSound ==
  ASSUME NEW s \in Seq(Elements), Separate(s), NEW is_latitude \in BOOLEAN,
         ParseCoordinate(s, is_latitude).ok, ParseCoordinate(s, is_latitude).degrees.finite
  PROVE  \E co \in Coordinates(is_latitude) :
           co.words = Words(s) /\ ParseCoordinate(s, is_latitude).degrees = Number(co.at)
<1> DEFINE T == Tokens(s)
           W == Words(s)
           l == ExtractHemisphere(T)
           r == ParseCoordinate(s, is_latitude)
<1>1. T \in Seq(Seq(Elements)) /\ \E off : TokenEnds(off, T, W)
  BY TokensAreWords
<1>2. W \in Seq(Elements)
  <2>1. W \in Seq(Elements \ White)
    BY WordsType
  <2> HIDE DEF W
  <2> QED  BY <2>1
<1>3. PICK off : TokenEnds(off, T, W)
  BY <1>1
<1>4. T # <<>> /\ \E ds \in Seq(Numerals) : Len(ds) \in 1..3 /\ OneEach(WithoutHemisphere(T), ds)
  BY <1>1, AcceptedNumbers
<1>5. PICK ds \in Seq(Numerals) : Len(ds) \in 1..3 /\ OneEach(WithoutHemisphere(T), ds)
  BY <1>4
<1>6. r = Reading(ds, l, is_latitude)
  BY <1>4, <1>5, ReadsNumbers
<1>7. \A i \in 1..Len(T) : Len(T[i]) >= 1
  BY <1>3 DEF TokenEnds
<1>8. Len(T) \in Nat
  BY <1>1, LenProperties
<1>9. CASE l = "none" /\ OneEach(T, ds)
  <2>1. Len(ds) = 1 /\ Bounded(3600 * Value[ds[1]], is_latitude)
        /\ r.degrees = Number(3600 * Value[ds[1]])
    <3>1. LET x == Reading(ds, "none", is_latitude)
              n == 3600 * Value[ds[1]]
          IN  x.ok => Len(ds) = 1 /\ Bounded(n, is_latitude) /\ x.degrees = Number(n)
      BY <1>5, ReadingAlone
    <3> HIDE DEF l, r
    <3>2. r.ok
      BY DEF r
    <3> QED  BY <1>6, <1>9, <3>1, <3>2
  <2> DEFINE d == ds[1]
  <2>2. Len(T) = 1 /\ T[1] = <<d>> /\ d \in Numerals
    <3>1. DOMAIN T = 1..1 /\ T[1] = <<d>>
      <4>1. 1 \in 1..Len(ds)
        BY <2>1
      <4> QED  BY <1>9, <2>1, <4>1 DEF OneEach
    <3>2. 1..Len(T) = 1..1
      BY <1>1, <3>1, LenProperties
    <3>3. d \in Numerals
      <4>1. 1 \in 1..Len(ds)
        BY <2>1
      <4> QED  BY <4>1, ElementOfSeq
    <3>4. Len(T) = 1
      <4> DEFINE n == Len(T)
      <4>1. n \in Nat /\ 1..n = 1..1
        BY <1>8, <3>2
      <4> HIDE DEF n
      <4>2. n = 1
        BY <4>1
      <4> QED  BY <4>2 DEF n
    <3> QED  BY <3>1, <3>3, <3>4
  <2> HIDE DEF d
  <2>3. W = <<d>>
    <3> HIDE DEF T, W
    <3> QED  BY <1>1, <1>2, <1>3, <2>2, OneToken
  <2>4. Alone(d) \in Coordinates(is_latitude)
    <3>1. Alone(d).at = 3600 * Value[ds[1]]
      BY DEF Alone, d
    <3>2. SaidAlone(Alone(d))
      BY <2>2 DEF SaidAlone
    <3>3. Bounded(Alone(d).at, is_latitude)
      BY <2>1, <3>1
    <3> DEFINE a == Alone(d)
    <3> HIDE DEF a
    <3>4. a \in Coordinates(is_latitude)
      BY <3>2, <3>3, CoordinatesAre DEF a
    <3> QED  BY <3>4 DEF a
  <2>5. Alone(d).words = W /\ r.degrees = Number(Alone(d).at)
    BY <2>1, <2>3 DEF Alone, d
  <2> QED  BY <2>4, <2>5
<1>10. CASE l \in Letters /\ (Spaced(T, ds, l) \/ Glued(T, ds, l))
  <2>1. Written(W, ds, l)
    <3> HIDE DEF T, W, l
    <3> QED  BY <1>2, <1>3, <1>5, <1>8, <1>10, WordsOfNumbers
  <2>2. W = Append(ds, l)
    <3>1. ds \in Seq(Elements) /\ l \in Elements
      BY <1>10, NumeralsApart
    <3> HIDE DEF W, l
    <3> QED  BY <1>2, <2>1, <3>1, AppendedIsWritten
  <2>3. InOrder(ds, l, is_latitude) /\ r.degrees = Number(Side(l) * Total(ds))
    <3>1. LET x == Reading(ds, l, is_latitude)
          IN  x.ok => InOrder(ds, l, is_latitude) /\ x.degrees = Number(Side(l) * Total(ds))
      <4> HIDE DEF l
      <4> QED  BY <1>5, <1>10, ReadingInOrder
    <3>2. r.ok
      OBVIOUS
    <3> HIDE DEF r, l
    <3> QED  BY <1>6, <3>1, <3>2
  <2>4. Said(ds, l) \in Coordinates(is_latitude)
    <3> HIDE DEF l
    <3> QED  BY <1>5, <1>10, <2>3, SaidInOrder
  <2>5. Said(ds, l).words = W /\ r.degrees = Number(Said(ds, l).at)
    BY <2>2, <2>3 DEF Said
  <2> QED  BY <2>4, <2>5
<1>11. (l = "none" /\ OneEach(T, ds)) \/ (l \in Letters /\ (Spaced(T, ds, l) \/ Glued(T, ds, l)))
  BY <1>1, <1>4, <1>5, <1>7, ShapeOfAccepted
<1> QED  BY <1>9, <1>10, <1>11

\* What is written ParseCoordinate accepts.
LEMMA CoordinateComplete ==
  ASSUME NEW s \in Seq(Elements), Separate(s), NEW is_latitude \in BOOLEAN,
         NEW co \in Coordinates(is_latitude), Words(s) = co.words
  PROVE  ParseCoordinate(s, is_latitude) = Accepted(Number(co.at))
<1> DEFINE T == Tokens(s)
           W == Words(s)
           r == ParseCoordinate(s, is_latitude)
<1>1. T \in Seq(Seq(Elements)) /\ Apart(T) /\ \E off : TokenEnds(off, T, W)
  BY TokensAreWords
<1>2. W \in Seq(Elements)
  <2>1. W \in Seq(Elements \ White)
    BY WordsType
  <2> HIDE DEF W
  <2> QED  BY <2>1
<1>3. PICK off : TokenEnds(off, T, W)
  BY <1>1
<1>4. ASSUME NEW d \in Numerals, co = Alone(d), Bounded(3600 * Value[d], is_latitude)
      PROVE  r = Accepted(Number(co.at))
  <2>1. W = <<d>> /\ co.at = 3600 * Value[d]
    BY <1>4 DEF Alone
  <2>2. Len(T) = 1 /\ T[1] = <<d>>
    <3>1. T \in Seq(Seq(Elements)) /\ TokenEnds(off, T, W) /\ W \in Seq(Elements)
      BY <1>1, <1>2, <1>3
    <3> HIDE DEF T, W
    <3>2. Len(T) = 1 /\ T[1] = <<d>> <=> W = <<d>>
      BY <3>1, OneToken
    <3> QED  BY <2>1, <3>2
  <2>3. T # <<>> /\ ExtractHemisphere(T) = "none" /\ WithoutHemisphere(T) = T
    <3> HIDE DEF T
    <3> QED  BY <2>2, NumberAlone
  <2> DEFINE ds == <<d>>
  <2>4. ds \in Seq(Numerals) /\ Len(ds) = 1 /\ ds[1] = d
    OBVIOUS
  <2> HIDE DEF ds
  <2>5. OneEach(WithoutHemisphere(T), ds)
    <3>1. DOMAIN T = 1..1
      BY <1>1, <2>2, LenProperties
    <3>2. \A i \in 1..1 : i = 1
      OBVIOUS
    <3> HIDE DEF T
    <3> QED  BY <2>2, <2>3, <2>4, <3>1, <3>2 DEF OneEach
  <2>6. r = Reading(ds, "none", is_latitude)
    <3>1. Len(ds) \in 1..3
      BY <2>4
    <3> QED  BY <2>3, <2>4, <2>5, <3>1, ReadsNumbers
  <2>7. Reading(ds, "none", is_latitude) = Accepted(Number(3600 * Value[ds[1]]))
    <3>1. Len(ds) \in 1..3
      BY <2>4
    <3> QED  BY <1>4, <2>4, <3>1, ReadingAlone
  <2> QED  BY <2>1, <2>4, <2>6, <2>7
<1>5. ASSUME NEW ds \in Seq(Numerals), NEW l \in AxisLetters(is_latitude), Len(ds) \in 1..3,
             InOrder(ds, l, is_latitude), co = Said(ds, l)
      PROVE  r = Accepted(Number(co.at))
  <2>1. W = Append(ds, l) /\ co.at = Side(l) * Total(ds)
    BY <1>5 DEF Said
  <2>2. l \in Letters
    BY DEF AxisLetters, Letters, HemisphereLetters
  <2>3. Written(W, ds, l)
    <3>1. ds \in Seq(Elements) /\ l \in Elements
      BY <2>2, NumeralsApart
    <3> HIDE DEF W
    <3> QED  BY <1>2, <2>1, <3>1, AppendedIsWritten
  <2>4. Spaced(T, ds, l) \/ Glued(T, ds, l)
    <3> HIDE DEF T, W
    <3> QED  BY <1>1, <1>2, <1>3, <1>5, <2>3, NumbersOfWords
  <2>5. T # <<>> /\ ExtractHemisphere(T) = l /\ OneEach(WithoutHemisphere(T), ds)
    <3> HIDE DEF T
    <3> QED  BY <1>1, <1>5, <2>2, <2>4, HemisphereOf
  <2>6. r = Reading(ds, l, is_latitude)
    BY <1>5, <2>5, ReadsNumbers
  <2>7. Reading(ds, l, is_latitude) = Accepted(Number(Side(l) * Total(ds)))
    BY <1>5, <2>2, ReadingInOrder
  <2> QED  BY <2>1, <2>6, <2>7
<1> HIDE DEF r
<1>6. \/ \E d \in Numerals : co = Alone(d) /\ Bounded(3600 * Value[d], is_latitude)
      \/ \E ds \in Seq(Numerals), l \in AxisLetters(is_latitude) :
           Len(ds) \in 1..3 /\ InOrder(ds, l, is_latitude) /\ co = Said(ds, l)
  BY CoordinateForms
<1>7. r = Accepted(Number(co.at))
  BY <1>4, <1>5, <1>6
<1> QED  BY <1>7 DEF r
-----------------------------------------------------------------------------
(***************************************************************************)
(* Parts of a text.                                                        *)
(***************************************************************************)
LEMMA GreatestOfSome ==
  ASSUME NEW n \in Nat, NEW S, S \subseteq 1..n, S # {}
  PROVE  \E m \in S : \A k \in S : m >= k
<1> DEFINE R == {n - k : k \in S}
<1>1. R \subseteq Nat /\ R # {}
  <2>1. \A k \in S : n - k \in Nat
    OBVIOUS
  <2>2. \A q \in R : \E k \in S : q = n - k
    OBVIOUS
  <2>3. PICK k \in S : TRUE
    OBVIOUS
  <2>4. n - k \in R
    OBVIOUS
  <2> HIDE DEF R
  <2> QED  BY <2>1, <2>2, <2>4
<1>2. PICK r \in R : \A q \in R : r <= q
  BY <1>1, LeastOfSome
<1>3. PICK m \in S : r = n - m
  OBVIOUS
<1>4. ASSUME NEW k \in S PROVE m >= k
  <2>1. n - k \in R
    OBVIOUS
  <2>2. n - m <= n - k
    BY <1>2, <1>3, <2>1
  <2>3. m \in Int /\ k \in Int
    OBVIOUS
  <2> QED  BY <2>2, <2>3
<1> QED  BY <1>4

\* A part of a text is a text.
LEMMA PartType ==
  ASSUME NEW E, NEW t \in Seq(E), NEW a \in 1..(Len(t) + 1), NEW b \in 0..Len(t)
  PROVE  /\ SubSeq(t, a, b) \in Seq(E)
         /\ Len(SubSeq(t, a, b)) = IF a <= b THEN b - a + 1 ELSE 0
         /\ \A i \in 1..(b - a + 1) : SubSeq(t, a, b)[i] = t[a + i - 1]
<1>1. \A i \in a..b : t[i] \in E
  <2>1. \A i \in a..b : i \in 1..Len(t)
    OBVIOUS
  <2> QED  BY <2>1, ElementOfSeq
<1>2. a \in Int /\ b \in Int
  OBVIOUS
<1> QED  BY <1>1, <1>2, SubSeqProperties

\* A text cut in two.
LEMMA InTwo ==
  ASSUME NEW E, NEW t \in Seq(E), NEW a \in 0..Len(t)
  PROVE  t = SubSeq(t, 1, a) \o SubSeq(t, a + 1, Len(t))
<1> DEFINE n == Len(t)
<1>0. n \in Nat
  OBVIOUS
<1> HIDE DEF n
<1>1. 1 \in 1..(n + 1) /\ a \in (1 - 1)..n /\ n \in a..n
  BY <1>0 DEF n
<1>2. SubSeq(t, 1, a) \o SubSeq(t, a + 1, n) = SubSeq(t, 1, n)
  BY <1>1, ConcatAdjacentSubSeq DEF n
<1>3. SubSeq(t, 1, n) = t
  BY SubSeqFull DEF n
<1> QED  BY <1>2, <1>3 DEF n

\* Numerals that are apart are so in every part.
LEMMA SeparatePart ==
  ASSUME NEW E, NEW t \in Seq(E), Separate(t),
         NEW a \in 1..(Len(t) + 1), NEW b \in 0..Len(t)
  PROVE  Separate(SubSeq(t, a, b))
<1> DEFINE u == SubSeq(t, a, b)
           n == Len(t)
           m == b - a + 1
<1>1. /\ Len(u) = IF a <= b THEN m ELSE 0
      /\ \A i \in 1..m : u[i] = t[a + i - 1]
      /\ DOMAIN u = 1..Len(u)
  BY PartType
<1>2. DOMAIN t = 1..n /\ n \in Nat
  OBVIOUS
<1> HIDE DEF u
<1>3. ASSUME NEW i \in DOMAIN u, u[i] \in Numerals, i > 1
      PROVE  /\ u[i - 1] \notin Numerals
             /\ u[i - 1] = "E" /\ i > 2 => u[i - 2] \notin Numerals
  <2>1. i \in 1..m /\ i - 1 \in 1..m /\ (i > 2 => i - 2 \in 1..m)
    BY <1>1, <1>3
  <2> DEFINE j == a + i - 1
  <2>2. /\ j \in 1..n /\ j > 1 /\ a + (i - 1) - 1 = j - 1
        /\ i > 2 => j > 2 /\ a + (i - 2) - 1 = j - 2
    BY <1>2, <1>3, <2>1 DEF n
  <2>3. u[i] = t[j] /\ u[i - 1] = t[j - 1] /\ (i > 2 => u[i - 2] = t[j - 2])
    <3>1. u[i] = t[a + i - 1]
      BY <1>1, <2>1
    <3>2. u[i - 1] = t[a + (i - 1) - 1]
      BY <1>1, <2>1
    <3>3. i > 2 => u[i - 2] = t[a + (i - 2) - 1]
      BY <1>1, <2>1
    <3> QED  BY <2>2, <3>1, <3>2, <3>3
  <2> HIDE DEF j, n, m
  <2> QED  BY <1>2, <1>3, <2>2, <2>3 DEF Separate
<1> QED  BY <1>3 DEF Separate, u

(***************************************************************************)
(* Trim cuts white space only.                                             *)
(***************************************************************************)
LEMMA TrimIs ==
  ASSUME NEW E, NEW s \in Seq(E)
  PROVE  \/ Trim(s) = <<>> /\ \A i \in 1..Len(s) : s[i] = Blank
         \/ \E a \in 1..Len(s), b \in 1..Len(s) :
              /\ a <= b /\ Trim(s) = SubSeq(s, a, b)
              /\ \A i \in 1..(a - 1) : s[i] = Blank
              /\ \A i \in (b + 1)..Len(s) : s[i] = Blank
<1> DEFINE n == Len(s)
           P == {i \in DOMAIN s : s[i] # Blank}
<1>1. n \in Nat /\ DOMAIN s = 1..n
  OBVIOUS
<1>2. CASE P = {}
  BY <1>1, <1>2 DEF Trim
<1>3. CASE P # {}
  <2>1. P \subseteq 1..n /\ P \subseteq Nat
    BY <1>1
  <2>2. \E m \in P : \A k \in P : m <= k
    <3> HIDE DEF P
    <3> QED  BY <1>3, <2>1, LeastOfSome
  <2>3. \E m \in P : \A k \in P : m >= k
    <3> HIDE DEF P, n
    <3> QED  BY <1>1, <1>3, <2>1, GreatestOfSome
  <2> DEFINE a == Min(P)
             b == Max(P)
  <2>4. a \in P /\ \A k \in P : a <= k
    <3> HIDE DEF P
    <3> QED  BY <2>2 DEF Min
  <2>5. b \in P /\ \A k \in P : b >= k
    <3> HIDE DEF P
    <3> QED  BY <2>3 DEF Max
  <2>6. Trim(s) = SubSeq(s, a, b)
    BY <1>3 DEF Trim
  <2> HIDE DEF a, b
  <2>7. a \in 1..n /\ b \in 1..n /\ a <= b
    BY <2>1, <2>4, <2>5
  <2>8. ASSUME NEW i \in 1..(a - 1) PROVE s[i] = Blank
    <3>1. i \in 1..n /\ ~(a <= i)
      BY <1>1, <2>7
    <3> QED  BY <1>1, <2>4, <3>1
  <2>9. ASSUME NEW i \in (b + 1)..n PROVE s[i] = Blank
    <3>1. i \in 1..n /\ ~(b >= i)
      BY <1>1, <2>7
    <3> QED  BY <1>1, <2>5, <3>1
  <2> QED  BY <2>6, <2>7, <2>8, <2>9
<1> QED  BY <1>2, <1>3

\* Of three parts.
Joined(x, y, z) == x \o (y \o z)

\* The words of three parts.
LEMMA WordsOfThree ==
  ASSUME NEW E, NEW x \in Seq(E), NEW y \in Seq(E), NEW z \in Seq(E)
  PROVE  Words(Joined(x, y, z)) = Joined(Words(x), Words(y), Words(z))
<1>1. y \o z \in Seq(E)
  OBVIOUS
<1>2. Words(x \o (y \o z)) = Words(x) \o Words(y \o z)
  BY <1>1, WordsJoin
<1>3. Words(y \o z) = Words(y) \o Words(z)
  BY WordsJoin
<1> QED  BY <1>2, <1>3 DEF Joined

\* A text cut in three.
LEMMA InThree ==
  ASSUME NEW E, NEW t \in Seq(E), NEW a \in 1..Len(t), NEW b \in a..Len(t)
  PROVE  t = Joined(SubSeq(t, 1, a - 1), SubSeq(t, a, b), SubSeq(t, b + 1, Len(t)))
<1> DEFINE n == Len(t)
<1>0. n \in Nat
  OBVIOUS
<1>1. a - 1 \in 0..n /\ (a - 1) + 1 = a
  <2> HIDE DEF n
  <2> QED  BY <1>0 DEF n
<1>2. t = SubSeq(t, 1, a - 1) \o SubSeq(t, a, n)
  <2>1. t = SubSeq(t, 1, a - 1) \o SubSeq(t, (a - 1) + 1, n)
    BY <1>1, InTwo
  <2> QED  BY <1>1, <2>1
<1>3. a \in 1..(n + 1) /\ b \in (a - 1)..n /\ n \in b..n
  <2> HIDE DEF n
  <2> QED  BY <1>0 DEF n
<1>4. SubSeq(t, a, b) \o SubSeq(t, b + 1, n) = SubSeq(t, a, n)
  BY <1>3, ConcatAdjacentSubSeq
<1> QED  BY <1>2, <1>4 DEF Joined

\* Trim leaves the words as they are.
LEMMA TrimKeeps ==
  ASSUME NEW E, NEW s \in Seq(E)
  PROVE  /\ Trim(s) \in Seq(E) /\ Words(Trim(s)) = Words(s)
         /\ Separate(s) => Separate(Trim(s))
<1> DEFINE n == Len(s)
<1>0. n \in Nat
  OBVIOUS
<1>1. CASE Trim(s) = <<>> /\ \A i \in 1..n : s[i] = Blank
  <2>1. Words(s) = <<>>
    BY <1>1, WordsOfWhite DEF White
  <2>2. <<>> \in Seq(E) /\ Len(<<>>) = 0
    OBVIOUS
  <2>3. \A i \in 1..Len(<<>>) : <<>>[i] \in White
    OBVIOUS
  <2>4. Words(<<>>) = <<>>
    BY <2>2, <2>3, WordsOfWhite
  <2>5. Separate(<<>>)
    BY DEF Separate
  <2> QED  BY <1>1, <2>1, <2>2, <2>4, <2>5
<1>2. CASE \E a \in 1..n, b \in 1..n :
             /\ a <= b /\ Trim(s) = SubSeq(s, a, b)
             /\ \A i \in 1..(a - 1) : s[i] = Blank
             /\ \A i \in (b + 1)..n : s[i] = Blank
  <2>1. PICK a \in 1..n, b \in 1..n :
               /\ a <= b /\ Trim(s) = SubSeq(s, a, b)
               /\ \A i \in 1..(a - 1) : s[i] = Blank
               /\ \A i \in (b + 1)..n : s[i] = Blank
    BY <1>2
  <2> DEFINE x == SubSeq(s, 1, a - 1)
             y == SubSeq(s, a, b)
             z == SubSeq(s, b + 1, n)
  <2>2. /\ 1 \in 1..(n + 1) /\ a - 1 \in 0..n /\ a \in 1..(n + 1) /\ b \in 0..n
        /\ b + 1 \in 1..(n + 1) /\ n \in 0..n /\ b \in a..n
    <3> HIDE DEF n
    <3> QED  BY <1>0, <2>1
  <2>3. /\ x \in Seq(E) /\ Len(x) = IF 1 <= a - 1 THEN a - 1 - 1 + 1 ELSE 0
        /\ \A i \in 1..(a - 1 - 1 + 1) : x[i] = s[1 + i - 1]
    BY <2>2, PartType
  <2>4. y \in Seq(E)
    BY <2>2, PartType
  <2>5. /\ z \in Seq(E) /\ Len(z) = IF b + 1 <= n THEN n - (b + 1) + 1 ELSE 0
        /\ \A i \in 1..(n - (b + 1) + 1) : z[i] = s[b + 1 + i - 1]
    BY <2>2, PartType
  <2>6. s = Joined(x, y, z)
    BY <2>2, InThree
  <2> HIDE DEF x, y, z, n
  <2>7. \A i \in 1..Len(x) : x[i] \in White
    <3> SUFFICES ASSUME NEW i \in 1..Len(x) PROVE x[i] = Blank
      BY DEF White
    <3>1. i \in 1..(a - 1 - 1 + 1) /\ 1 + i - 1 = i /\ i \in 1..(a - 1)
      BY <2>3
    <3> QED  BY <2>1, <2>3, <3>1
  <2>8. \A i \in 1..Len(z) : z[i] \in White
    <3> SUFFICES ASSUME NEW i \in 1..Len(z) PROVE z[i] = Blank
      BY DEF White
    <3>1. i \in 1..(n - (b + 1) + 1) /\ b + 1 + i - 1 \in (b + 1)..n
      BY <1>0, <2>5
    <3> QED  BY <2>1, <2>5, <3>1
  <2>9. Words(s) = Words(y)
    <3>1. Words(x) = <<>> /\ Words(z) = <<>>
      BY <2>3, <2>5, <2>7, <2>8, WordsOfWhite
    <3>2. Words(s) = Joined(Words(x), Words(y), Words(z))
      <4>1. x \in Seq(E) /\ y \in Seq(E) /\ z \in Seq(E)
        BY <2>3, <2>4, <2>5
      <4> QED  BY <2>6, <4>1, WordsOfThree
    <3> DEFINE w == Words(y)
    <3>3. w \in Seq(E \ White)
      BY <2>4, WordsType
    <3> HIDE DEF w
    <3>4. Joined(<<>>, w, <<>>) = w
      BY <3>3 DEF Joined
    <3> QED  BY <3>1, <3>2, <3>4 DEF w
  <2>10. Separate(s) => Separate(y)
    BY <2>2, SeparatePart DEF y, n
  <2> QED  BY <2>1, <2>4, <2>9, <2>10 DEF y
<1> QED  BY <1>1, <1>2, TrimIs
-----------------------------------------------------------------------------
(***************************************************************************)
(* Where a text is cut: at the first of some characters.                   *)
(***************************************************************************)
LEMMA FindIs ==
  ASSUME NEW E, NEW t \in Seq(E), NEW C
  PROVE  \/ Find(t, C) = 0 /\ \A i \in 1..Len(t) : t[i] \notin C
         \/ /\ Find(t, C) \in 1..Len(t) /\ t[Find(t, C)] \in C
            /\ \A i \in 1..(Find(t, C) - 1) : t[i] \notin C
<1> DEFINE n == Len(t)
           P == {i \in DOMAIN t : t[i] \in C}
           m == Min(P)
<1>1. n \in Nat /\ DOMAIN t = 1..n
  OBVIOUS
<1>2. CASE P = {}
  BY <1>1, <1>2 DEF Find
<1>3. CASE P # {}
  <2>1. P \subseteq 1..n /\ P \subseteq Nat
    BY <1>1
  <2>2. \E k \in P : \A j \in P : k <= j
    <3> HIDE DEF P
    <3> QED  BY <1>3, <2>1, LeastOfSome
  <2>3. m \in P /\ \A j \in P : m <= j
    <3> HIDE DEF P
    <3> QED  BY <2>2 DEF Min
  <2>4. Find(t, C) = m
    BY <1>3 DEF Find
  <2> HIDE DEF m
  <2>5. m \in 1..n /\ t[m] \in C
    BY <2>1, <2>3
  <2>6. ASSUME NEW i \in 1..(m - 1) PROVE t[i] \notin C
    <3>1. i \in 1..n /\ ~(m <= i)
      BY <1>1, <2>5
    <3> QED  BY <1>1, <2>3, <3>1
  <2> QED  BY <2>4, <2>5, <2>6
<1> QED  BY <1>2, <1>3

\* A text with none of some characters.
LEMMA Without ==
  ASSUME NEW E, NEW t \in Seq(E), NEW C, \A i \in 1..Len(t) : t[i] \notin C
  PROVE  t \in Seq(E \ C)
<1>1. \A i \in 1..Len(t) : t[i] \in E \ C
  BY ElementOfSeq
<1> QED  BY <1>1

\* What is not in a text is not in its words.
LEMMA WordsAvoid ==
  ASSUME NEW E, NEW C, NEW t \in Seq(E \ C)
  PROVE  Words(t) \in Seq(E \ C)
<1> DEFINE w == Words(t)
           F == E \ C
<1>1. w \in Seq(F \ White)
  <2>1. t \in Seq(F)
    OBVIOUS
  <2> HIDE DEF F
  <2> QED  BY <2>1, WordsType
<1> HIDE DEF w
<1>2. w \in Seq(F)
  <2> HIDE DEF F
  <2> QED  BY <1>1
<1> QED  BY <1>2 DEF w

\* One character between two parts.
Around(s, x, q, y) ==
  /\ Len(s) = Len(x) + 1 + Len(y) /\ s[Len(x) + 1] = q
  /\ \A i \in 1..Len(x) : s[i] = x[i]
  /\ \A i \in 1..Len(y) : s[Len(x) + 1 + i] = y[i]

\* Where the character between two parts is.
LEMMA JoinedAround ==
  ASSUME NEW E, NEW x \in Seq(E), NEW y \in Seq(E), NEW q \in E
  PROVE  Joined(x, <<q>>, y) \in Seq(E) /\ Around(Joined(x, <<q>>, y), x, q, y)
<1> DEFINE v == <<q>> \o y
           s == x \o v
           a == Len(x)
           b == Len(y)
<1>0. a \in Nat /\ b \in Nat
  OBVIOUS
<1>1. v \in Seq(E) /\ Len(v) = 1 + b /\ v[1] = q /\ \A i \in 1..b : v[1 + i] = y[i]
  OBVIOUS
<1> HIDE DEF v
<1>2. /\ s \in Seq(E) /\ Len(s) = a + Len(v)
      /\ \A i \in 1..a : s[i] = x[i]
      /\ \A i \in 1..Len(v) : s[a + i] = v[i]
  <2>1. v \in Seq(E)
    BY <1>1
  <2> QED  BY <2>1
<1>3. Joined(x, <<q>>, y) = s
  BY DEF Joined, v
<1> HIDE DEF s, a, b
<1>4. Len(s) = a + 1 + b
  BY <1>0, <1>1, <1>2
<1>5. s[a + 1] = q
  <2>1. 1 \in 1..Len(v)
    BY <1>0, <1>1
  <2> QED  BY <1>1, <1>2, <2>1
<1>6. ASSUME NEW i \in 1..b PROVE s[a + 1 + i] = y[i]
  <2>1. 1 + i \in 1..Len(v) /\ a + 1 + i = a + (1 + i)
    BY <1>0, <1>1
  <2>2. s[a + (1 + i)] = v[1 + i]
    BY <1>2, <2>1
  <2> QED  BY <1>1, <2>1, <2>2
<1>7. Around(s, x, q, y)
  BY <1>2, <1>4, <1>5, <1>6 DEF Around, a, b
<1> QED  BY <1>2, <1>3, <1>7

\* A text can be cut at the first of some characters in one way only.
LEMMA FirstIsFirst ==
  ASSUME NEW E, NEW C, NEW x \in Seq(E \ C), NEW z \in Seq(E \ C),
         NEW y \in Seq(E), NEW u \in Seq(E), NEW q \in C, NEW d \in C, C \subseteq E,
         Joined(x, <<q>>, y) = Joined(z, <<d>>, u)
  PROVE  x = z /\ q = d /\ y = u
<1> DEFINE s == Joined(x, <<q>>, y)
           a == Len(x)
           e == Len(z)
<1>1. /\ x \in Seq(E) /\ z \in Seq(E) /\ a \in Nat /\ e \in Nat /\ Len(y) \in Nat /\ Len(u) \in Nat
      /\ q \in E /\ d \in E
  OBVIOUS
<1>2. /\ Len(s) = a + 1 + Len(y) /\ s[a + 1] = q
      /\ \A i \in 1..a : s[i] = x[i]
      /\ \A i \in 1..Len(y) : s[a + 1 + i] = y[i]
  <2>1. Around(s, x, q, y)
    BY <1>1, JoinedAround
  <2> HIDE DEF s
  <2> QED  BY <2>1 DEF Around
<1>3. /\ Len(s) = e + 1 + Len(u) /\ s[e + 1] = d
      /\ \A i \in 1..e : s[i] = z[i]
      /\ \A i \in 1..Len(u) : s[e + 1 + i] = u[i]
  <2>1. Around(Joined(z, <<d>>, u), z, d, u)
    BY <1>1, JoinedAround
  <2>2. Around(s, z, d, u)
    BY <2>1
  <2> HIDE DEF s
  <2> QED  BY <2>2 DEF Around
<1>4. /\ \A i \in 1..a : x[i] \notin C
      /\ \A i \in 1..e : z[i] \notin C
  <2>1. /\ \A i \in 1..a : x[i] \in E \ C
        /\ \A i \in 1..e : z[i] \in E \ C
    BY ElementOfSeq
  <2> QED  BY <2>1
<1> HIDE DEF s, a, e
<1>5. ~(a < e)
  <2> SUFFICES ASSUME a < e PROVE FALSE
    OBVIOUS
  <2>1. a + 1 \in 1..e
    BY <1>1
  <2> QED  BY <1>2, <1>3, <1>4, <2>1
<1>6. ~(e < a)
  <2> SUFFICES ASSUME e < a PROVE FALSE
    OBVIOUS
  <2>1. e + 1 \in 1..a
    BY <1>1
  <2> QED  BY <1>2, <1>3, <1>4, <2>1
<1>7. a = e
  BY <1>1, <1>5, <1>6
<1>8. q = d
  BY <1>2, <1>3, <1>7
<1>9. x = z
  <2>1. \A i \in 1..Len(x) : x[i] = z[i]
    BY <1>2, <1>3, <1>7 DEF a
  <2>2. Len(x) = Len(z)
    BY <1>7 DEF a, e
  <2> QED  BY <1>1, <2>1, <2>2, SeqEqual
<1>10. y = u
  <2>1. Len(y) = Len(u)
    <3> DEFINE g == Len(y)
               h == Len(u)
    <3>1. g \in Nat /\ h \in Nat /\ a + 1 + g = a + 1 + h
      BY <1>1, <1>2, <1>3, <1>7
    <3> HIDE DEF g, h
    <3>2. g = h
      BY <1>1, <3>1
    <3> QED  BY <3>2 DEF g, h
  <2>2. \A i \in 1..Len(y) : y[i] = u[i]
    BY <1>2, <1>3, <1>7, <2>1
  <2> QED  BY <2>1, <2>2, SeqEqual
<1> QED  BY <1>8, <1>9, <1>10

Parted(t, C, i, E) ==
  LET left  == SubSeq(t, 1, i - 1)
      right == SubSeq(t, i + 1, Len(t))
  IN  /\ left \in Seq(E \ C) /\ right \in Seq(E) /\ t[i] \in E
      /\ Words(left) \in Seq(E \ C) /\ Words(right) \in Seq(E)
      /\ Words(t) = Joined(Words(left), <<t[i]>>, Words(right))
      /\ SubSeq(t, 1, i) = left \o <<t[i]>>
      /\ Words(SubSeq(t, 1, i)) = Words(left) \o <<t[i]>>

\* The words of a text, cut at a character that is no white space.
LEMMA CutAt ==
  ASSUME NEW E, NEW C, NEW t \in Seq(E), NEW i \in 1..Len(t), t[i] \notin White,
         \A j \in 1..(i - 1) : t[j] \notin C
  PROVE  Parted(t, C, i, E)
<1> DEFINE n == Len(t)
           left == SubSeq(t, 1, i - 1)
           right == SubSeq(t, i + 1, n)
           one == SubSeq(t, i, i)
           q == t[i]
<1>0. n \in Nat /\ q \in E
  BY ElementOfSeq
<1>1. /\ 1 \in 1..(n + 1) /\ i - 1 \in 0..n /\ i + 1 \in 1..(n + 1) /\ n \in 0..n
      /\ i \in 1..(n + 1) /\ i \in 0..n /\ i \in i..n /\ i - 1 + 1 = i
  <2> HIDE DEF n
  <2> QED  BY <1>0 DEF n
<1>2. /\ left \in Seq(E) /\ Len(left) = (IF 1 <= i - 1 THEN i - 1 - 1 + 1 ELSE 0)
      /\ \A j \in 1..(i - 1 - 1 + 1) : left[j] = t[1 + j - 1]
  BY <1>1, PartType
<1>3. right \in Seq(E)
  BY <1>1, PartType
<1>4. /\ one \in Seq(E) /\ Len(one) = (IF i <= i THEN i - i + 1 ELSE 0)
      /\ \A j \in 1..(i - i + 1) : one[j] = t[i + j - 1]
  BY <1>1, PartType
<1>5. t = Joined(left, one, right)
  BY <1>1, InThree
<1>6. SubSeq(t, 1, i) = left \o one
  <2>1. 1 \in 1..(n + 1) /\ i - 1 \in (1 - 1)..n /\ i \in (i - 1)..n
    <3> HIDE DEF n
    <3> QED  BY <1>0 DEF n
  <2>2. SubSeq(t, 1, i - 1) \o SubSeq(t, i - 1 + 1, i) = SubSeq(t, 1, i)
    BY <2>1, ConcatAdjacentSubSeq
  <2> QED  BY <1>1, <2>2
<1> HIDE DEF left, right, one, n, q
<1>7. one = <<q>>
  <2>1. i - i + 1 = 1 /\ i <= i /\ i + 1 - 1 = i /\ 1 \in 1..1
    BY <1>0
  <2>2. Len(one) = 1 /\ one[1] = q
    BY <1>4, <2>1 DEF q
  <2> QED  BY <1>4, <2>2
<1>8. left \in Seq(E \ C)
  <2>1. \A j \in 1..Len(left) : left[j] \notin C
    <3> SUFFICES ASSUME NEW j \in 1..Len(left) PROVE left[j] \notin C
      OBVIOUS
    <3>1. j \in 1..(i - 1 - 1 + 1) /\ 1 + j - 1 = j /\ j \in 1..(i - 1)
      BY <1>2
    <3> QED  BY <1>2, <3>1
  <2> QED  BY <1>2, <2>1, Without
<1>9. Words(left) \in Seq(E \ C) /\ Words(right) \in Seq(E) /\ Words(left) \in Seq(E)
  <2>1. Words(left) \in Seq(E \ C)
    BY <1>8, WordsAvoid
  <2> DEFINE w == Words(right)
             y == Words(left)
  <2>2. w \in Seq(E \ White)
    BY <1>3, WordsType
  <2> HIDE DEF w
  <2>3. w \in Seq(E)
    BY <2>2
  <2>4. y \in Seq(E \ White)
    BY <1>2, WordsType
  <2> HIDE DEF y
  <2>5. y \in Seq(E)
    BY <2>4
  <2> QED  BY <2>1, <2>3, <2>5 DEF w, y
<1>10. Words(one) = <<q>>
  BY <1>7, WordsOfOne DEF q
<1>11. Words(t) = Joined(Words(left), <<q>>, Words(right))
  BY <1>2, <1>3, <1>4, <1>5, <1>10, WordsOfThree
<1>12. Words(SubSeq(t, 1, i)) = Words(left) \o <<q>>
  <2>1. Words(left \o one) = Words(left) \o Words(one)
    BY <1>2, <1>4, WordsJoin
  <2> QED  BY <1>6, <1>10, <2>1
<1> QED  BY <1>0, <1>3, <1>6, <1>7, <1>8, <1>9, <1>11, <1>12 DEF left, right, q, n, Parted
-----------------------------------------------------------------------------
(***************************************************************************)
(* The halves of a position.                                               *)
(***************************************************************************)
NorthSouth == {"N", "S"}
ByComma(w, x, y)  == x \in Seq(Elements \ {Comma}) /\ w = Joined(x, <<Comma>>, y)
ByLetter(w, x, y) ==
  /\ w \in Seq(Elements \ {Comma})
  /\ \E v \in Seq(Elements \ NorthSouth), l \in NorthSouth :
       x = v \o <<l>> /\ w = Joined(v, <<l>>, y)
Undivided(w) == w \in Seq(Elements \ {Comma}) /\ w \in Seq(Elements \ NorthSouth)

\* A part of a text, trimmed.
LEMMA PartTrimmed ==
  ASSUME NEW E, NEW t \in Seq(E), Separate(t),
         NEW a \in 1..(Len(t) + 1), NEW b \in 0..Len(t)
  PROVE  /\ Trim(SubSeq(t, a, b)) \in Seq(E) /\ Separate(Trim(SubSeq(t, a, b)))
         /\ Words(Trim(SubSeq(t, a, b))) = Words(SubSeq(t, a, b))
<1> DEFINE u == SubSeq(t, a, b)
<1>1. u \in Seq(E) /\ Separate(u)
  BY PartType, SeparatePart
<1> HIDE DEF u
<1>2. Trim(u) \in Seq(E) /\ Words(Trim(u)) = Words(u) /\ (Separate(u) => Separate(Trim(u)))
  BY <1>1, TrimKeeps
<1> QED  BY <1>1, <1>2 DEF u

\* SplitPosition's cut, before it is trimmed.
LEMMA CutWhere ==
  ASSUME NEW t \in Seq(Elements), NEW split,
         LET comma  == Find(t, {Comma})
             letter == Find(t, NorthSouth)
             cut    == IF comma # 0 THEN comma - 1 ELSE letter
             from   == IF comma # 0 THEN comma + 1 ELSE letter + 1
         IN  /\ split.lat = SubSeq(t, 1, cut)
             /\ split.lon = SubSeq(t, from, Len(t))
  PROVE  \/ ByComma(Words(t), Words(split.lat), Words(split.lon))
         \/ ByLetter(Words(t), Words(split.lat), Words(split.lon))
         \/ split.lat = <<>> /\ Undivided(Words(t))
<1> DEFINE comma == Find(t, {Comma})
           letter == Find(t, NorthSouth)
           n == Len(t)
<1>0. /\ Comma \notin White /\ Comma \in Elements
      /\ \A l \in NorthSouth : l \notin White /\ l \in Elements
      /\ n \in Nat
  BY DEF White, Comma, Elements, Letters, HemisphereLetters, NorthSouth, Blank, Mark
<1>1. \/ comma = 0 /\ \A i \in 1..n : t[i] \notin {Comma}
      \/ /\ comma \in 1..n /\ t[comma] \in {Comma}
         /\ \A i \in 1..(comma - 1) : t[i] \notin {Comma}
  BY FindIs
<1>2. \/ letter = 0 /\ \A i \in 1..n : t[i] \notin NorthSouth
      \/ /\ letter \in 1..n /\ t[letter] \in NorthSouth
         /\ \A i \in 1..(letter - 1) : t[i] \notin NorthSouth
  BY FindIs
<1>3. /\ comma # 0 => /\ split.lat = SubSeq(t, 1, comma - 1)
                      /\ split.lon = SubSeq(t, comma + 1, n)
      /\ comma = 0 => /\ split.lat = SubSeq(t, 1, letter)
                      /\ split.lon = SubSeq(t, letter + 1, n)
  OBVIOUS
<1> HIDE DEF comma, letter
<1>4. CASE comma # 0
  <2>1. comma \in 1..n /\ t[comma] = Comma /\ t[comma] \notin White
    BY <1>0, <1>1, <1>4
  <2>2. /\ Words(SubSeq(t, 1, comma - 1)) \in Seq(Elements \ {Comma})
        /\ Words(t) = Joined(Words(SubSeq(t, 1, comma - 1)), <<t[comma]>>,
                             Words(SubSeq(t, comma + 1, n)))
    <3>1. Parted(t, {Comma}, comma, Elements)
      BY <1>1, <1>4, <2>1, CutAt
    <3> QED  BY <3>1 DEF Parted
  <2>3. ByComma(Words(t), Words(split.lat), Words(split.lon))
    BY <1>3, <1>4, <2>1, <2>2 DEF ByComma
  <2> QED  BY <2>3
<1>5. CASE comma = 0
  <2>1. Words(t) \in Seq(Elements \ {Comma})
    <3>1. t \in Seq(Elements \ {Comma})
      BY <1>0, <1>1, <1>5, Without
    <3> QED  BY <3>1, WordsAvoid
  <2>2. CASE letter = 0
    <3>1. t \in Seq(Elements \ NorthSouth)
      BY <1>0, <1>2, <2>2, Without
    <3>2. Words(t) \in Seq(Elements \ NorthSouth)
      BY <3>1, WordsAvoid
    <3>3. split.lat = <<>>
      <4>1. split.lat = SubSeq(t, 1, 0)
        BY <1>3, <1>5, <2>2
      <4>2. SubSeq(t, 1, 0) = <<>>
        BY SubSeqEmpty
      <4> QED  BY <4>1, <4>2
    <3> QED  BY <2>1, <3>2, <3>3 DEF Undivided
  <2>3. CASE letter # 0
    <3>1. letter \in 1..n /\ t[letter] \in NorthSouth /\ t[letter] \notin White
      BY <1>0, <1>2, <2>3
    <3>2. /\ Words(SubSeq(t, 1, letter - 1)) \in Seq(Elements \ NorthSouth)
          /\ Words(t) = Joined(Words(SubSeq(t, 1, letter - 1)), <<t[letter]>>,
                               Words(SubSeq(t, letter + 1, n)))
          /\ Words(SubSeq(t, 1, letter)) = Words(SubSeq(t, 1, letter - 1)) \o <<t[letter]>>
      <4>1. Parted(t, NorthSouth, letter, Elements)
        BY <1>2, <2>3, <3>1, CutAt
      <4> QED  BY <4>1 DEF Parted
    <3>3. ByLetter(Words(t), Words(split.lat), Words(split.lon))
      BY <1>3, <1>5, <2>1, <3>1, <3>2 DEF ByLetter
    <3> QED  BY <3>3
  <2> QED  BY <2>2, <2>3
<1> QED  BY <1>4, <1>5

\* SplitPosition cuts the words at the first comma, or else after the first N or S.
LEMMA SplitsWords ==
  ASSUME NEW s \in Seq(Elements), Separate(s)
  PROVE  LET split == SplitPosition(s)
         IN  /\ split.lat \in Seq(Elements) /\ Separate(split.lat)
             /\ split.lon \in Seq(Elements) /\ Separate(split.lon)
             /\ \/ ByComma(Words(s), Words(split.lat), Words(split.lon))
                \/ ByLetter(Words(s), Words(split.lat), Words(split.lon))
                \/ split.lat = <<>> /\ Undivided(Words(s))
<1> DEFINE t == Trim(s)
           split == SplitPosition(s)
           comma == Find(t, {Comma})
           letter == Find(t, NorthSouth)
           n == Len(t)
           cut == IF comma # 0 THEN comma - 1 ELSE letter
           from == IF comma # 0 THEN comma + 1 ELSE letter + 1
           raw == [lat |-> SubSeq(t, 1, cut), lon |-> SubSeq(t, from, n)]
<1>1. t \in Seq(Elements) /\ Words(t) = Words(s) /\ Separate(t)
  BY TrimKeeps
<1>2. split.lat = Trim(raw.lat) /\ split.lon = Trim(raw.lon)
  BY DEF SplitPosition, NorthSouth
<1> HIDE DEF split
<1>3. n \in Nat /\ comma \in 0..n /\ letter \in 0..n
  <2> HIDE DEF t
  <2>1. n \in Nat
    BY <1>1
  <2>2. comma = 0 \/ comma \in 1..n
    BY <1>1, FindIs
  <2>3. letter = 0 \/ letter \in 1..n
    BY <1>1, FindIs
  <2> QED  BY <2>1, <2>2, <2>3
<1>4. /\ 1 \in 1..(n + 1) /\ cut \in 0..n
      /\ from \in 1..(n + 1) /\ n \in 0..n
  <2> HIDE DEF n, comma, letter
  <2> QED  BY <1>3
<1>5. /\ Trim(raw.lat) \in Seq(Elements) /\ Separate(Trim(raw.lat))
      /\ Words(Trim(raw.lat)) = Words(raw.lat)
  <2> HIDE DEF t, cut
  <2>1. raw.lat = SubSeq(t, 1, cut)
    OBVIOUS
  <2> HIDE DEF raw
  <2> QED  BY <1>1, <1>4, <2>1, PartTrimmed
<1>6. /\ Trim(raw.lon) \in Seq(Elements) /\ Separate(Trim(raw.lon))
      /\ Words(Trim(raw.lon)) = Words(raw.lon)
  <2> HIDE DEF t, from
  <2>1. raw.lon = SubSeq(t, from, n)
    OBVIOUS
  <2> HIDE DEF raw
  <2> QED  BY <1>1, <1>4, <2>1, PartTrimmed
<1>7. \/ ByComma(Words(t), Words(raw.lat), Words(raw.lon))
      \/ ByLetter(Words(t), Words(raw.lat), Words(raw.lon))
      \/ raw.lat = <<>> /\ Undivided(Words(t))
  <2> HIDE DEF t
  <2>1. raw.lat = SubSeq(t, 1, cut) /\ raw.lon = SubSeq(t, from, n)
    OBVIOUS
  <2> HIDE DEF raw
  <2> QED  BY <1>1, <2>1, CutWhere
<1>8. raw.lat = <<>> => split.lat = <<>>
  <2>1. Trim(<<>>) = <<>>
    BY DEF Trim
  <2> HIDE DEF raw
  <2> QED  BY <1>2, <2>1
<1> HIDE DEF raw, t
<1> QED  BY <1>1, <1>2, <1>5, <1>6, <1>7, <1>8 DEF split

\* The character between two parts is there.
LEMMA JoinedHas ==
  ASSUME NEW E, NEW C, NEW x \in Seq(E), NEW y \in Seq(E), NEW q \in E, q \in C
  PROVE  Joined(x, <<q>>, y) \notin Seq(E \ C)
<1> DEFINE s == Joined(x, <<q>>, y)
           a == Len(x)
           b == Len(y)
<1>1. s \in Seq(E) /\ Around(s, x, q, y)
  BY JoinedAround
<1>2. a \in Nat /\ b \in Nat
  OBVIOUS
<1> HIDE DEF s
<1>3. a + 1 \in 1..Len(s) /\ s[a + 1] = q
  <2>1. Len(s) = a + 1 + b /\ s[a + 1] = q
    BY <1>1 DEF Around
  <2> HIDE DEF a, b
  <2> QED  BY <1>2, <2>1
<1> HIDE DEF a
<1>4. s \in Seq(E \ C) => s[a + 1] \in E \ C
  BY <1>3, ElementOfSeq
<1>5. s \notin Seq(E \ C)
  BY <1>3, <1>4
<1> QED  BY <1>5 DEF s

\* It may as well be taken for the last one of the first part.
LEMMA JoinedIs ==
  ASSUME NEW E, NEW x \in Seq(E), NEW y \in Seq(E), NEW q \in E
  PROVE  /\ Joined(x, <<q>>, y) = (x \o <<q>>) \o y
         /\ x \o <<q>> \in Seq(E) /\ Len(x \o <<q>>) = Len(x) + 1 /\ Last(x \o <<q>>) = q
<1> DEFINE o == <<q>>
<1>1. o \in Seq(E) /\ Len(o) = 1 /\ o[1] = q
  OBVIOUS
<1> HIDE DEF o
<1>2. x \o (o \o y) = (x \o o) \o y
  BY <1>1
<1>3. /\ x \o o \in Seq(E) /\ Len(x \o o) = Len(x) + Len(o)
      /\ \A i \in 1..(Len(x) + Len(o)) :
           (x \o o)[i] = IF i <= Len(x) THEN x[i] ELSE o[i - Len(x)]
  BY <1>1, ConcatProperties
<1>4. (x \o o)[Len(x) + 1] = q
  <2> DEFINE a == Len(x)
  <2>1. a \in Nat
    OBVIOUS
  <2> HIDE DEF a
  <2>2. a + 1 \in 1..(a + 1) /\ ~(a + 1 <= a) /\ a + 1 - a = 1
    BY <2>1
  <2> QED  BY <1>1, <1>3, <2>2 DEF a
<1> QED  BY <1>2, <1>3, <1>4 DEF Joined, Last, o

\* A text begins with its first part.
LEMMA PrefixOfLonger ==
  ASSUME NEW E, NEW x \in Seq(E), NEW v \in Seq(E)
  PROVE  IsPrefix(x, x \o v)
<1> DEFINE w == x \o v
           a == Len(x)
<1>1. /\ a \in Nat /\ w \in Seq(E) /\ a <= Len(w) /\ Len(w) \in Nat
      /\ \A i \in 1..a : w[i] = x[i]
  OBVIOUS
<1> HIDE DEF w
<1>2. 1 \in 1..(Len(w) + 1) /\ a \in 0..Len(w) /\ 1 \in 1..(a + 1) /\ a \in 0..a
  <2> DEFINE n == Len(w)
  <2> HIDE DEF n, a
  <2> QED  BY <1>1 DEF n
<1>3. /\ SubSeq(w, 1, a) \in Seq(E)
      /\ Len(SubSeq(w, 1, a)) = IF 1 <= a THEN a - 1 + 1 ELSE 0
      /\ \A i \in 1..(a - 1 + 1) : SubSeq(w, 1, a)[i] = w[1 + i - 1]
  BY <1>1, <1>2, PartType
<1>4. SubSeq(x, 1, a) = x
  BY SubSeqFull
<1> DEFINE u == SubSeq(w, 1, a)
<1>5. u = x
  <2>1. u \in Seq(E) /\ Len(u) = (IF 1 <= a THEN a - 1 + 1 ELSE 0)
        /\ \A i \in 1..(a - 1 + 1) : u[i] = w[1 + i - 1]
    BY <1>3
  <2> HIDE DEF u
  <2>2. Len(u) = a
    <3> HIDE DEF a
    <3> QED  BY <1>1, <2>1
  <2>3. \A i \in 1..a : u[i] = x[i]
    <3> SUFFICES ASSUME NEW i \in 1..a PROVE u[i] = x[i]
      OBVIOUS
    <3>1. i \in 1..(a - 1 + 1) /\ 1 + i - 1 = i
      <4> HIDE DEF a
      <4> QED  BY <1>1
    <3> QED  BY <1>1, <2>1, <3>1
  <2> QED  BY <2>1, <2>2, <2>3, SeqEqual
<1>6. IsPrefix(x, w)
  <2> HIDE DEF u
  <2> QED  BY <1>1, <1>4, <1>5 DEF IsPrefix, u
<1> QED  BY <1>6 DEF w

\* Positions, taken apart.
LEMMA PositionsAre ==
  ASSUME NEW words
  PROVE  /\ \A e \in Positions(words) : \E la \in Latitudes, lo \in Longitudes :
              Follows(la, lo, words) /\ e = [lat |-> la.at, lon |-> lo.at]
         /\ \A la \in Latitudes, lo \in Longitudes :
              Follows(la, lo, words) /\ IsPrefix(la.words, words)
                => [lat |-> la.at, lon |-> lo.at] \in Positions(words)
<1>1. ASSUME NEW e \in Positions(words)
      PROVE  \E la \in Latitudes, lo \in Longitudes :
               Follows(la, lo, words) /\ e = [lat |-> la.at, lon |-> lo.at]
  BY DEF Positions
<1>2. ASSUME NEW la \in Latitudes, NEW lo \in Longitudes,
             Follows(la, lo, words), IsPrefix(la.words, words)
      PROVE  [lat |-> la.at, lon |-> lo.at] \in Positions(words)
  BY <1>2 DEF Positions
<1> QED  BY <1>1, <1>2

\* The words of a coordinate: numerals, and perhaps a letter after them.
Worded(w, letters) ==
  \/ w \in Seq(Numerals) /\ w # <<>>
  \/ \E v \in Seq(Numerals), l \in letters : w = v \o <<l>>

\* The words of every notation are so.
LEMMA CoordinateWords ==
  ASSUME NEW is_latitude \in BOOLEAN, NEW co \in Coordinates(is_latitude)
  PROVE  Worded(co.words, AxisLetters(is_latitude))
<1>1. CASE \E d \in Numerals : co = Alone(d) /\ Bounded(3600 * Value[d], is_latitude)
  <2>1. PICK d \in Numerals : co = Alone(d)
    BY <1>1
  <2>2. <<d>> \in Seq(Numerals) /\ <<d>> # <<>>
    OBVIOUS
  <2>3. co.words = <<d>>
    BY <2>1 DEF Alone
  <2> QED  BY <2>2, <2>3 DEF Worded
<1>2. CASE \E ds \in Seq(Numerals), l \in AxisLetters(is_latitude) :
              Len(ds) \in 1..3 /\ InOrder(ds, l, is_latitude) /\ co = Said(ds, l)
  <2>1. PICK ds \in Seq(Numerals), l \in AxisLetters(is_latitude) : co = Said(ds, l)
    BY <1>2
  <2>2. co.words = Append(ds, l)
    BY <2>1 DEF Said
  <2>3. Append(ds, l) = ds \o <<l>>
    OBVIOUS
  <2> QED  BY <2>2, <2>3 DEF Worded
<1> QED  BY <1>1, <1>2, CoordinateForms

\* They have no comma in them, and N or S only at their end.
LEMMA WordedType ==
  ASSUME NEW is_latitude \in BOOLEAN, NEW w, Worded(w, AxisLetters(is_latitude))
  PROVE  /\ w \in Seq(Elements \ {Comma}) /\ w \in Seq(Elements) /\ w # <<>>
         /\ Last(w) \in NorthSouth =>
              \E v \in Seq(Elements \ NorthSouth), l \in NorthSouth :
                v \in Seq(Elements) /\ w = v \o <<l>>
<1> DEFINE E == Elements \ {Comma}
<1>1. /\ Numerals \subseteq Elements \ NorthSouth /\ Numerals \subseteq E
      /\ \A l \in AxisLetters(is_latitude) : l \in E /\ l \in Elements
      /\ \A d \in Numerals : d \notin NorthSouth
  BY NumeralsApart DEF NorthSouth, Letters, HemisphereLetters, AxisLetters
<1>2. CASE w \in Seq(Numerals) /\ w # <<>>
  <2>1. w \in Seq(E) /\ w \in Seq(Elements)
    <3> HIDE DEF E
    <3> QED  BY <1>1, <1>2
  <2>2. Last(w) \in Numerals
    <3>1. Len(w) \in 1..Len(w)
      BY <1>2, EmptySeq
    <3> QED  BY <1>2, <3>1, ElementOfSeq DEF Last
  <2> QED  BY <1>1, <1>2, <2>1, <2>2
<1>3. CASE \E v \in Seq(Numerals), l \in AxisLetters(is_latitude) : w = v \o <<l>>
  <2>1. PICK v \in Seq(Numerals), l \in AxisLetters(is_latitude) : w = v \o <<l>>
    BY <1>3
  <2>2. v \in Seq(Elements \ NorthSouth) /\ v \in Seq(E) /\ v \in Seq(Elements)
    <3> HIDE DEF E
    <3> QED  BY <1>1
  <2>3. l \in E /\ l \in Elements
    BY <1>1
  <2>4. w \in Seq(E)
    <3> HIDE DEF E
    <3> QED  BY <2>1, <2>2, <2>3, JoinedIs
  <2>5. w \in Seq(Elements) /\ Last(w) = l /\ Len(w) = Len(v) + 1
    BY <2>1, <2>2, <2>3, JoinedIs
  <2>6. w # <<>>
    BY <2>2, <2>5
  <2> HIDE DEF E
  <2>7. Last(w) \in NorthSouth => l \in NorthSouth
    BY <2>5
  <2> QED  BY <2>1, <2>2, <2>4, <2>5, <2>6, <2>7 DEF E
<1> QED  BY <1>2, <1>3 DEF Worded

\* Both halves of an accepted text are accepted.
LEMMA AcceptedHalves ==
  ASSUME NEW s, ParsePos(s).ok
  PROVE  LET split == SplitPosition(s)
         IN  /\ split.lat # <<>> /\ split.lon # <<>>
             /\ ParseCoordinate(split.lat, TRUE).ok /\ ParseCoordinate(split.lon, FALSE).ok
             /\ ParsePos(s).lat = ParseCoordinate(split.lat, TRUE).degrees
             /\ ParsePos(s).lon = ParseCoordinate(split.lon, FALSE).degrees
BY DEF ParsePos

\* Coordinates that have been cut apart follow each other.
LEMMA FollowsSplit ==
  ASSUME NEW la, NEW lo, NEW w, la.words \in Seq(Elements), lo.words \in Seq(Elements),
         ByComma(w, la.words, lo.words) \/ ByLetter(w, la.words, lo.words)
  PROVE  Follows(la, lo, w) /\ IsPrefix(la.words, w)
<1> DEFINE x == la.words
           y == lo.words
<1>1. CASE ByComma(w, x, y)
  <2>1. Comma \in Elements
    BY NumeralsApart
  <2>2. w = Joined(x, <<Comma>>, y)
    BY <1>1 DEF ByComma
  <2>3. w = (x \o <<Comma>>) \o y
    BY <2>1, <2>2, JoinedIs
  <2>4. Follows(la, lo, w)
    BY <2>3 DEF Follows
  <2> DEFINE v == <<Comma>> \o y
  <2>5. v \in Seq(Elements)
    BY <2>1
  <2>6. w = x \o v
    BY <2>2 DEF Joined
  <2> HIDE DEF v
  <2>7. IsPrefix(x, w)
    BY <2>5, <2>6, PrefixOfLonger
  <2> QED  BY <2>4, <2>7
<1>2. CASE ByLetter(w, x, y)
  <2>1. PICK v \in Seq(Elements \ NorthSouth), l \in NorthSouth :
               x = v \o <<l>> /\ w = Joined(v, <<l>>, y)
    BY <1>2 DEF ByLetter
  <2>2. l \in Elements /\ v \in Seq(Elements)
    BY NumeralsApart DEF NorthSouth, Letters, HemisphereLetters
  <2>3. w = x \o y /\ Last(x) = l
    <3>0. y \in Seq(Elements)
      OBVIOUS
    <3> HIDE DEF y
    <3>1. Joined(v, <<l>>, y) = (v \o <<l>>) \o y /\ Last(v \o <<l>>) = l
      BY ONLY <2>2, <3>0, JoinedIs
    <3> QED  BY <2>1, <3>1
  <2>4. Follows(la, lo, w)
    BY <2>3 DEF Follows, NorthSouth
  <2>5. IsPrefix(x, w)
    BY <2>3, PrefixOfLonger
  <2> QED  BY <2>4, <2>5
<1> QED  BY <1>1, <1>2

(***************************************************************************)
(* ParsePos says only what is written: an accepted text is a latitude and  *)
(* a longitude in one of the notations, and means that place.              *)
(***************************************************************************)
THEOREM PositionSound ==
  ASSUME NEW s \in Seq(Elements), Separate(s),
         ParsePos(s).ok, ParsePos(s).lat.finite, ParsePos(s).lon.finite
  PROVE  [lat |-> ParsePos(s).lat.v, lon |-> ParsePos(s).lon.v] \in Positions(Words(s))
<1> DEFINE p == ParsePos(s)
           split == SplitPosition(s)
           x == split.lat
           y == split.lon
           w == Words(s)
<1>1. /\ x # <<>> /\ ParseCoordinate(x, TRUE).ok /\ ParseCoordinate(y, FALSE).ok
      /\ p.lat = ParseCoordinate(x, TRUE).degrees /\ p.lon = ParseCoordinate(y, FALSE).degrees
  BY AcceptedHalves
<1>2. /\ x \in Seq(Elements) /\ Separate(x) /\ y \in Seq(Elements) /\ Separate(y)
      /\ \/ ByComma(w, Words(x), Words(y))
         \/ ByLetter(w, Words(x), Words(y))
         \/ x = <<>> /\ Undivided(w)
  BY SplitsWords
<1>3. p.lat.finite /\ p.lon.finite
  OBVIOUS
<1> HIDE DEF p, x, y, w
<1>4. PICK la \in Coordinates(TRUE) :
             la.words = Words(x) /\ ParseCoordinate(x, TRUE).degrees = Number(la.at)
  BY <1>1, <1>2, <1>3, CoordinateSound
<1>5. PICK lo \in Coordinates(FALSE) :
             lo.words = Words(y) /\ ParseCoordinate(y, FALSE).degrees = Number(lo.at)
  BY <1>1, <1>2, <1>3, CoordinateSound
<1>6. la.words \in Seq(Elements) /\ lo.words \in Seq(Elements)
  BY CoordinateWords, WordedType
<1>7. Follows(la, lo, w) /\ IsPrefix(la.words, w)
  BY <1>1, <1>2, <1>4, <1>5, <1>6, FollowsSplit
<1>8. [lat |-> la.at, lon |-> lo.at] \in Positions(w)
  BY <1>7, PositionsAre DEF Latitudes, Longitudes
<1>9. p.lat.v = la.at /\ p.lon.v = lo.at
  <2>1. p.lat = Number(la.at) /\ p.lon = Number(lo.at)
    BY <1>1, <1>4, <1>5
  <2>2. Number(la.at).v = la.at /\ Number(lo.at).v = lo.at
    BY DEF Number
  <2> QED  BY <2>1, <2>2
<1> QED  BY <1>8, <1>9 DEF p, w

\* And coordinates that follow each other are cut apart between them.
LEMMA SplitFollows ==
  ASSUME NEW la \in Latitudes, NEW lo \in Longitudes, NEW w, Follows(la, lo, w),
         NEW x, NEW y \in Seq(Elements),
         \/ ByComma(w, x, y) \/ ByLetter(w, x, y) \/ Undivided(w)
  PROVE  x = la.words /\ y = lo.words
<1> DEFINE a == la.words
           b == lo.words
<1>1. /\ a \in Seq(Elements \ {Comma}) /\ a \in Seq(Elements)
      /\ b \in Seq(Elements \ {Comma}) /\ b \in Seq(Elements)
      /\ Last(a) \in NorthSouth =>
           \E v \in Seq(Elements \ NorthSouth), l \in NorthSouth :
             v \in Seq(Elements) /\ a = v \o <<l>>
  BY CoordinateWords, WordedType DEF Latitudes, Longitudes
<1>2. Comma \in Elements /\ NorthSouth \subseteq Elements /\ {Comma} \subseteq Elements
  BY NumeralsApart DEF NorthSouth, Letters, HemisphereLetters
<1> HIDE DEF a, b
<1>3. CASE w = a \o <<Comma>> \o b
  <2>1. w = Joined(a, <<Comma>>, b)
    BY <1>1, <1>2, <1>3, JoinedIs
  <2>2. w \notin Seq(Elements \ {Comma})
    BY <1>1, <1>2, <2>1, JoinedHas
  <2>3. ByComma(w, x, y)
    BY <2>2 DEF ByLetter, Undivided
  <2>4. x \in Seq(Elements \ {Comma}) /\ Joined(x, <<Comma>>, y) = Joined(a, <<Comma>>, b)
    BY <2>1, <2>3 DEF ByComma
  <2>5. x = a /\ y = b
    <3> DEFINE C == {Comma}
    <3>1. Comma \in C /\ C \subseteq Elements
      BY <1>2
    <3>2. x \in Seq(Elements \ C) /\ a \in Seq(Elements \ C)
      BY <1>1, <2>4
    <3> HIDE DEF C
    <3> QED  BY <1>1, <2>4, <3>1, <3>2, FirstIsFirst
  <2> QED  BY <2>5 DEF a, b
<1>4. CASE Last(a) \in NorthSouth /\ w = a \o b
  <2>1. PICK v \in Seq(Elements \ NorthSouth), l \in NorthSouth :
               v \in Seq(Elements) /\ a = v \o <<l>>
    BY <1>1, <1>4
  <2>2. w = Joined(v, <<l>>, b)
    BY <1>1, <1>2, <1>4, <2>1, JoinedIs
  <2>3. w \notin Seq(Elements \ NorthSouth)
    BY <1>1, <1>2, <2>1, <2>2, JoinedHas
  <2>4. w \in Seq(Elements \ {Comma})
    <3> DEFINE E == Elements \ {Comma}
    <3>1. a \in Seq(E) /\ b \in Seq(E)
      BY <1>1
    <3> HIDE DEF E
    <3>2. a \o b \in Seq(E)
      BY <3>1
    <3> QED  BY <1>4, <3>2 DEF E
  <2>5. ~ByComma(w, x, y)
    <3> SUFFICES ASSUME ByComma(w, x, y) PROVE FALSE
      OBVIOUS
    <3>1. x \in Seq(Elements \ {Comma}) /\ w = Joined(x, <<Comma>>, y)
      BY DEF ByComma
    <3>2. x \in Seq(Elements)
      BY <3>1
    <3>3. w \notin Seq(Elements \ {Comma})
      BY <1>2, <3>1, <3>2, JoinedHas
    <3> QED  BY <2>4, <3>3
  <2>6. ByLetter(w, x, y)
    BY <2>3, <2>5 DEF Undivided
  <2>7. PICK z \in Seq(Elements \ NorthSouth), d \in NorthSouth :
               x = z \o <<d>> /\ w = Joined(z, <<d>>, y)
    BY <2>6 DEF ByLetter
  <2>8. Joined(z, <<d>>, y) = Joined(v, <<l>>, b)
    BY <2>2, <2>7
  <2>9. z = v /\ d = l /\ y = b
    <3> DEFINE C == NorthSouth
    <3>1. l \in C /\ d \in C /\ C \subseteq Elements
      BY <1>2
    <3>2. z \in Seq(Elements \ C) /\ v \in Seq(Elements \ C)
      OBVIOUS
    <3> HIDE DEF C
    <3> QED  BY <1>1, <2>8, <3>1, <3>2, FirstIsFirst
  <2>10. x = a /\ y = b
    BY <2>1, <2>7, <2>9
  <2> QED  BY <2>10 DEF a, b
<1> QED  BY <1>3, <1>4 DEF Follows, NorthSouth, a, b

(***************************************************************************)
(* ParsePos accepts every position in one of the notations.                *)
(***************************************************************************)
THEOREM PositionComplete ==
  ASSUME NEW s \in Seq(Elements), Separate(s), NEW la \in Latitudes, NEW lo \in Longitudes,
         Follows(la, lo, Words(s))
  PROVE  /\ ParsePos(s).ok
         /\ ParsePos(s).lat = Number(la.at) /\ ParsePos(s).lon = Number(lo.at)
<1> DEFINE split == SplitPosition(s)
           x == split.lat
           y == split.lon
           w == Words(s)
<1>1. /\ x \in Seq(Elements) /\ Separate(x) /\ y \in Seq(Elements) /\ Separate(y)
      /\ ByComma(w, Words(x), Words(y)) \/ ByLetter(w, Words(x), Words(y)) \/ Undivided(w)
  BY SplitsWords
<1> HIDE DEF w
<1>2. Words(y) \in Seq(Elements)
  <2> HIDE DEF y
  <2> DEFINE u == Words(y)
  <2>1. u \in Seq(Elements \ White)
    BY <1>1, WordsType
  <2> HIDE DEF u
  <2>2. u \in Seq(Elements)
    BY <2>1
  <2> QED  BY <2>2 DEF u
<1>3. Words(x) = la.words /\ Words(y) = lo.words
  <2> HIDE DEF x, y
  <2>1. Follows(la, lo, w)
    BY DEF w
  <2> QED  BY <1>1, <1>2, <2>1, SplitFollows
<1>4. /\ ParseCoordinate(x, TRUE) = Accepted(Number(la.at))
      /\ ParseCoordinate(y, FALSE) = Accepted(Number(lo.at))
  <2> HIDE DEF x, y
  <2>1. la \in Coordinates(TRUE) /\ lo \in Coordinates(FALSE)
    BY DEF Latitudes, Longitudes
  <2> QED  BY <1>1, <1>3, <2>1, CoordinateComplete
<1>5. x # <<>> /\ y # <<>>
  <2>1. la.words # <<>> /\ lo.words # <<>>
    BY CoordinateWords, WordedType DEF Latitudes, Longitudes
  <2>2. Words(<<>>) = <<>>
    <3>1. <<>> \in Seq(Elements) /\ \A i \in 1..Len(<<>>) : <<>>[i] \in White
      OBVIOUS
    <3> QED  BY <3>1, WordsOfWhite
  <2> HIDE DEF x, y
  <2> QED  BY <1>3, <2>1, <2>2
<1> DEFINE px == ParseCoordinate(x, TRUE)
           py == ParseCoordinate(y, FALSE)
           p == ParsePos(s)
<1>6. p = [ok  |-> x # <<>> /\ y # <<>> /\ px.ok /\ py.ok,
           lat |-> px.degrees, lon |-> py.degrees]
  BY DEF ParsePos
<1>7. px = Accepted(Number(la.at)) /\ py = Accepted(Number(lo.at))
  BY <1>4
<1> HIDE DEF x, y, px, py, p
<1>8. ASSUME NEW r, NEW n, r = Accepted(n) PROVE r.ok /\ r.degrees = n
  BY <1>8 DEF Accepted
<1>9. px.ok /\ px.degrees = Number(la.at) /\ py.ok /\ py.degrees = Number(lo.at)
  BY <1>7, <1>8
<1>10. p.ok /\ p.lat = px.degrees /\ p.lon = py.degrees
  BY <1>5, <1>6, <1>9
<1> QED  BY <1>9, <1>10 DEF p
-----------------------------------------------------------------------------
(***************************************************************************)
(* A coordinate as it is shown is a coordinate as it may be written.       *)
(***************************************************************************)
LEMMA WordsByTurn ==
  ASSUME NEW E, NEW s \in Seq(E)
  PROVE  \E f : /\ f[Len(s)] = Words(s) /\ f[0] = <<>>
                /\ \A n \in 1..Len(s) :
                     f[n] = IF s[n] \in White THEN f[n - 1] ELSE Append(f[n - 1], s[n])
<1>1. Len(s) \in Nat
  OBVIOUS
<1>2. PICK f : Spells(f, s) /\ Words(s) = f[Len(s)]
  BY <1>1, WordsAreSpelt
<1>3. f[0] = <<>>
  BY <1>1, <1>2 DEF Spells, WordTurn
<1>4. \A n \in 1..Len(s) : n \in 0..Len(s) /\ n # 0
  BY <1>1
<1>5. \A n \in 1..Len(s) : f[n] = WordTurn(f, s, n)
  BY <1>2, <1>4 DEF Spells
<1>6. \A n \in 1..Len(s) :
        f[n] = IF s[n] \in White THEN f[n - 1] ELSE Append(f[n - 1], s[n])
  BY <1>4, <1>5 DEF WordTurn
<1> QED  BY <1>2, <1>3, <1>6

\* A letter after a blank.
LEMMA WordsOfLetter ==
  ASSUME NEW l \in Letters
  PROVE  Words(<<Blank, l>>) = <<l>>
<1> DEFINE s == <<Blank, l>>
<1>1. s \in Seq(Elements) /\ Len(s) = 2 /\ s[1] = Blank /\ s[2] = l
  BY NumeralsApart
<1> HIDE DEF s
<1>2. PICK f : /\ f[Len(s)] = Words(s) /\ f[0] = <<>>
               /\ \A n \in 1..Len(s) :
                     f[n] = IF s[n] \in White THEN f[n - 1] ELSE Append(f[n - 1], s[n])
  BY <1>1, WordsByTurn
<1>3. 1 \in 1..2 /\ 2 \in 1..2 /\ 1 - 1 = 0 /\ 2 - 1 = 1 /\ Blank \in White /\ l \notin White
  BY NumeralsApart DEF White
<1>4. f[1] = <<>>
  BY <1>1, <1>2, <1>3
<1>5. f[2] = Append(<<>>, l)
  BY <1>1, <1>2, <1>3, <1>4
<1>6. Append(<<>>, l) = <<l>>
  OBVIOUS
<1> QED  BY <1>1, <1>2, <1>5, <1>6 DEF s

ShownTwo(d, m)      == <<d, Mark, Blank, m, Mark>>
ShownThree(d, m, s) == <<d, Mark, Blank, m, Mark, Blank, s, Mark>>

\* Degrees and minutes as they are shown,
LEMMA TwoElements ==
  ASSUME NEW d \in Numerals, NEW m \in Numerals
  PROVE  LET x == ShownTwo(d, m)
         IN  /\ x \in Seq(Elements) /\ Len(x) = 5 /\ x[1] = d /\ x[2] = Mark
             /\ x[3] = Blank /\ x[4] = m /\ x[5] = Mark
BY NumeralsApart DEF ShownTwo

\* and with seconds.
LEMMA ThreeElements ==
  ASSUME NEW d \in Numerals, NEW m \in Numerals, NEW s \in Numerals
  PROVE  LET x == ShownThree(d, m, s)
         IN  /\ x \in Seq(Elements) /\ Len(x) = 8 /\ x[1] = d /\ x[2] = Mark
             /\ x[3] = Blank /\ x[4] = m /\ x[5] = Mark /\ x[6] = Blank
             /\ x[7] = s /\ x[8] = Mark
BY NumeralsApart DEF ShownThree

\* Their words are the numerals,
LEMMA WordsOfTwo ==
  ASSUME NEW d \in Numerals, NEW m \in Numerals
  PROVE  Words(ShownTwo(d, m)) = <<d, m>>
<1> DEFINE x == ShownTwo(d, m)
<1>1. /\ x \in Seq(Elements) /\ Len(x) = 5 /\ x[1] = d /\ x[2] = Mark
      /\ x[3] = Blank /\ x[4] = m /\ x[5] = Mark
  BY TwoElements
<1> HIDE DEF x
<1>2. PICK f : /\ f[Len(x)] = Words(x) /\ f[0] = <<>>
               /\ \A n \in 1..Len(x) :
                     f[n] = IF x[n] \in White THEN f[n - 1] ELSE Append(f[n - 1], x[n])
  BY <1>1, WordsByTurn
<1>3. Blank \in White /\ Mark \in White /\ d \notin White /\ m \notin White
  BY NumeralsApart DEF White
<1>4. f[1] = Append(f[0], d) /\ f[2] = f[1] /\ f[3] = f[2] /\ f[4] = Append(f[3], m) /\ f[5] = f[4]
  <2>1. /\ 1 \in 1..5 /\ 2 \in 1..5 /\ 3 \in 1..5 /\ 4 \in 1..5 /\ 5 \in 1..5
        /\ 1 - 1 = 0 /\ 2 - 1 = 1 /\ 3 - 1 = 2 /\ 4 - 1 = 3 /\ 5 - 1 = 4
    OBVIOUS
  <2> QED  BY <1>1, <1>2, <1>3, <2>1
<1>5. Append(<<>>, d) = <<d>>
  OBVIOUS
<1>6. f[1] = <<d>>
  BY <1>2, <1>4, <1>5
<1>7. f[5] = Append(<<d>>, m)
  BY <1>4, <1>6
<1> QED  BY <1>1, <1>2, <1>7, AppendToOne DEF x

\* all three of them.
LEMMA WordsOfShownThree ==
  ASSUME NEW d \in Numerals, NEW m \in Numerals, NEW s \in Numerals
  PROVE  Words(ShownThree(d, m, s)) = <<d, m, s>>
<1> DEFINE x == ShownThree(d, m, s)
<1>1. /\ x \in Seq(Elements) /\ Len(x) = 8 /\ x[1] = d /\ x[2] = Mark
      /\ x[3] = Blank /\ x[4] = m /\ x[5] = Mark /\ x[6] = Blank
      /\ x[7] = s /\ x[8] = Mark
  BY ThreeElements
<1> HIDE DEF x
<1>2. PICK f : /\ f[Len(x)] = Words(x) /\ f[0] = <<>>
               /\ \A n \in 1..Len(x) :
                     f[n] = IF x[n] \in White THEN f[n - 1] ELSE Append(f[n - 1], x[n])
  BY <1>1, WordsByTurn
<1>3. Blank \in White /\ Mark \in White /\ d \notin White /\ m \notin White /\ s \notin White
  BY NumeralsApart DEF White
<1>4. /\ f[1] = Append(f[0], d) /\ f[2] = f[1] /\ f[3] = f[2] /\ f[4] = Append(f[3], m)
      /\ f[5] = f[4] /\ f[6] = f[5] /\ f[7] = Append(f[6], s) /\ f[8] = f[7]
  <2>1. /\ 1 \in 1..8 /\ 2 \in 1..8 /\ 3 \in 1..8 /\ 4 \in 1..8
        /\ 5 \in 1..8 /\ 6 \in 1..8 /\ 7 \in 1..8 /\ 8 \in 1..8
        /\ 1 - 1 = 0 /\ 2 - 1 = 1 /\ 3 - 1 = 2 /\ 4 - 1 = 3
        /\ 5 - 1 = 4 /\ 6 - 1 = 5 /\ 7 - 1 = 6 /\ 8 - 1 = 7
    OBVIOUS
  <2> QED  BY <1>1, <1>2, <1>3, <2>1
<1>5. Append(<<>>, d) = <<d>>
  OBVIOUS
<1>6. f[1] = <<d>>
  BY <1>2, <1>4, <1>5
<1>7. f[4] = <<d, m>>
  BY <1>4, <1>6, AppendToOne
<1>8. f[8] = <<d, m, s>>
  BY <1>4, <1>7, AppendToTwo
<1> QED  BY <1>1, <1>2, <1>8 DEF x

\* A numeral only at the beginning and after a blank.
BlankBefore(x) ==
  \A i \in DOMAIN x : x[i] \in Numerals /\ i > 1 => x[i - 1] = Blank

\* Then the numerals are apart.
LEMMA BlankSeparates ==
  ASSUME NEW x, BlankBefore(x)
  PROVE  Separate(x)
<1>1. Blank \notin Numerals /\ Blank # "E"
  BY NumeralsApart DEF White, Blank
<1> QED  BY <1>1 DEF BlankBefore, Separate

\* Two such texts with a blank between them.
LEMMA BlankBeforeBoth ==
  ASSUME NEW x \in Seq(Elements), NEW y \in Seq(Elements), x # <<>>,
         BlankBefore(x), BlankBefore(y),
         Last(x) = Blank \/ (y # <<>> /\ y[1] \notin Numerals)
  PROVE  x \o y \in Seq(Elements) /\ BlankBefore(x \o y)
<1> DEFINE z == x \o y
           a == Len(x)
           b == Len(y)
<1>1. /\ z \in Seq(Elements) /\ a \in Nat \ {0} /\ b \in Nat /\ DOMAIN z = 1..(a + b)
      /\ DOMAIN x = 1..a /\ DOMAIN y = 1..b
  BY EmptySeq, ConcatProperties
<1>2. /\ \A i \in 1..a : z[i] = x[i]
      /\ \A i \in 1..b : z[a + i] = y[i]
  OBVIOUS
<1> HIDE DEF z
<1>3. SUFFICES ASSUME NEW i \in 1..(a + b), z[i] \in Numerals, i > 1
               PROVE  z[i - 1] = Blank
  BY <1>1 DEF BlankBefore, z
<1>4. CASE i <= a
  <2>1. i \in 1..a /\ i - 1 \in 1..a
    <3> HIDE DEF a, b
    <3> QED  BY <1>1, <1>3, <1>4
  <2> QED  BY <1>1, <1>2, <1>3, <2>1 DEF BlankBefore
<1>5. CASE i > a
  <2> DEFINE j == i - a
  <2>1. j \in 1..b /\ a + j = i
    <3> HIDE DEF a, b
    <3> QED  BY <1>1, <1>3, <1>5
  <2>2. y[j] \in Numerals
    <3> HIDE DEF j
    <3> QED  BY <1>2, <1>3, <2>1
  <2>3. CASE j = 1
    <3>1. i - 1 = a /\ a \in 1..a
      <4> HIDE DEF a, b
      <4> QED  BY <1>1, <2>1, <2>3
    <3>2. Last(x) = Blank
      BY <2>2, <2>3
    <3> QED  BY <1>2, <3>1, <3>2 DEF Last
  <2>4. CASE j # 1
    <3>1. j - 1 \in 1..b /\ a + (j - 1) = i - 1 /\ j > 1
      <4> HIDE DEF a, b
      <4> QED  BY <1>1, <2>1, <2>4
    <3>2. y[j - 1] = Blank
      <4> HIDE DEF j
      <4> QED  BY <1>1, <2>1, <2>2, <3>1 DEF BlankBefore
    <3>3. z[a + (j - 1)] = y[j - 1]
      <4> DEFINE k == j - 1
      <4>1. k \in 1..b
        BY <3>1
      <4> HIDE DEF k
      <4>2. z[a + k] = y[k]
        BY <1>2, <4>1
      <4> QED  BY <4>2 DEF k
    <3> QED  BY <3>1, <3>2, <3>3
  <2> QED  BY <2>3, <2>4
<1> QED  BY <1>1, <1>4, <1>5

\* What is shown is written so.
LEMMA ShownSpaced ==
  ASSUME NEW d \in Numerals, NEW m \in Numerals, NEW s \in Numerals
  PROVE  /\ BlankBefore(<<d>>) /\ BlankBefore(ShownTwo(d, m)) /\ BlankBefore(ShownThree(d, m, s))
<1>1. BlankBefore(<<d>>)
  BY DEF BlankBefore
<1>2. Mark \notin Numerals /\ Blank \notin Numerals
  BY NumeralsApart DEF White
<1>3. BlankBefore(ShownTwo(d, m))
  <2> DEFINE x == ShownTwo(d, m)
  <2>1. /\ x \in Seq(Elements) /\ Len(x) = 5 /\ x[1] = d /\ x[2] = Mark
        /\ x[3] = Blank /\ x[4] = m /\ x[5] = Mark
    BY TwoElements
  <2> HIDE DEF x
  <2>2. DOMAIN x = 1..5 /\ \A i \in 1..5 : i \in {1, 2, 3, 4, 5}
    BY <2>1
  <2>3. 4 - 1 = 3
    OBVIOUS
  <2>4. BlankBefore(x)
    BY <1>2, <2>1, <2>2, <2>3 DEF BlankBefore
  <2> QED  BY <2>4 DEF x
<1>4. BlankBefore(ShownThree(d, m, s))
  <2> DEFINE x == ShownThree(d, m, s)
  <2>1. /\ x \in Seq(Elements) /\ Len(x) = 8 /\ x[1] = d /\ x[2] = Mark
        /\ x[3] = Blank /\ x[4] = m /\ x[5] = Mark /\ x[6] = Blank
        /\ x[7] = s /\ x[8] = Mark
    BY ThreeElements
  <2> HIDE DEF x
  <2>2. DOMAIN x = 1..8 /\ \A i \in 1..8 : i \in {1, 2, 3, 4, 5, 6, 7, 8}
    BY <2>1
  <2>3. 4 - 1 = 3 /\ 7 - 1 = 6
    OBVIOUS
  <2>4. BlankBefore(x)
    BY <1>2, <2>1, <2>2, <2>3 DEF BlankBefore
  <2> QED  BY <2>4 DEF x
<1> QED  BY <1>1, <1>3, <1>4

\* A text that shows one coordinate: as it is typed, and what it says.
ShowsAs(x, is_latitude, at) ==
  /\ x \in Seq(Elements) /\ x # <<>> /\ BlankBefore(x)
  /\ \E co \in Coordinates(is_latitude) : co.words = Words(x) /\ co.at = at

\* Numerals and then a letter show the coordinate that they say.
LEMMA ShowsLettered ==
  ASSUME NEW is_latitude \in BOOLEAN, NEW x \in Seq(Elements), x # <<>>, BlankBefore(x),
         NEW ds \in Seq(Numerals), Words(x) = ds, NEW l \in AxisLetters(is_latitude),
         Said(ds, l) \in Coordinates(is_latitude)
  PROVE  ShowsAs(x \o <<Blank, l>>, is_latitude, Side(l) * Total(ds))
<1> DEFINE e == <<Blank, l>>
           z == x \o e
           co == Said(ds, l)
<1>1. l \in Letters /\ l \in Elements /\ Blank \in Elements /\ Blank \notin Numerals
      /\ l \notin Numerals
  BY NumeralsApart DEF AxisLetters, Letters, HemisphereLetters, White
<1>2. /\ e \in Seq(Elements) /\ e # <<>> /\ e[1] = Blank
      /\ DOMAIN e = 1..2 /\ e[2] = l
  BY <1>1
<1>3. Words(e) = <<l>>
  BY <1>1, WordsOfLetter
<1> HIDE DEF e
<1>4. BlankBefore(e)
  <2>1. \A i \in 1..2 : i = 1 \/ i = 2
    OBVIOUS
  <2> QED  BY <1>1, <1>2, <2>1 DEF BlankBefore
<1>5. z \in Seq(Elements) /\ BlankBefore(z)
  BY <1>1, <1>2, <1>4, BlankBeforeBoth
<1>6. z # <<>>
  BY <1>2, ConcatEqualIffEmpty
<1>7. Words(z) = ds \o <<l>>
  BY <1>2, <1>3, WordsJoin
<1> HIDE DEF z
<1>8. ds \o <<l>> = Append(ds, l)
  OBVIOUS
<1>9. co.words = Append(ds, l) /\ co.at = Side(l) * Total(ds)
  BY DEF Said
<1> HIDE DEF co
<1>10. ShowsAs(z, is_latitude, Side(l) * Total(ds))
  BY <1>5, <1>6, <1>7, <1>8, <1>9 DEF ShowsAs, co
<1> QED  BY <1>10 DEF z, e

ShownParts == [d : Numerals, m : Numerals, s : Numerals, negative : BOOLEAN]
Proper(k)  == Value[k.d] >= 0 /\ Value[k.m] \in 0..599 /\ Value[k.s] \in 0..599

\* The letter that is shown is the one for the side of zero.
LEMMA LetterSide ==
  ASSUME NEW k \in ShownParts, NEW is_latitude \in BOOLEAN
  PROVE  LET l == Letter(is_latitude, k.negative)
         IN  l \in AxisLetters(is_latitude) /\ l \in Letters
             /\ Side(l) = IF k.negative THEN -1 ELSE 1
BY DEF Letter, AxisLetters, Letters, HemisphereLetters, Side, ShownParts

\* Signed degrees,
LEMMA ShowsOne ==
  ASSUME NEW is_latitude \in BOOLEAN, NEW k \in ShownParts, Proper(k), Shows("degrees", k),
         Bounded(Place(k), is_latitude)
  PROVE  ShowsAs(toSDMM("degrees", k, is_latitude), is_latitude, Place(k))
<1> DEFINE n == IF k.negative THEN CHOOSE q \in Negated(k.d) : TRUE ELSE k.d
           x == <<n>>
           at == 3600 * Value[n]
<1>1. /\ k.d \in Numerals /\ k.negative \in BOOLEAN
      /\ Value[k.m] = 0 /\ Value[k.s] = 0 /\ (k.negative => Negated(k.d) # {})
  BY DEF ShownParts, Shows
<1>2. toSDMM("degrees", k, is_latitude) = x
  BY DEF toSDMM
<1>3. n \in Numerals /\ Value[n] = IF k.negative THEN -Value[k.d] ELSE Value[k.d]
  <2>1. CASE k.negative
    <3>1. PICK q : q \in Negated(k.d)
      BY <1>1, <2>1
    <3>2. n \in Negated(k.d)
      BY <2>1, <3>1
    <3> HIDE DEF n
    <3> QED  BY <2>1, <3>2 DEF Negated
  <2>2. CASE ~k.negative
    BY <1>1, <2>2
  <2> QED  BY <2>1, <2>2
<1> HIDE DEF n
<1>4. Value[k.d] \in Int /\ Value[n] \in Int
  BY <1>1, <1>3, ValueAssumption
<1>5. Place(k) = 3600 * Value[n]
  <2>1. Place(k) = (IF k.negative THEN -1 ELSE 1) * (3600 * Value[k.d])
    BY <1>1, <1>4 DEF Place
  <2>2. CASE k.negative
    BY <1>3, <1>4, <2>1, <2>2
  <2>3. CASE ~k.negative
    BY <1>3, <1>4, <2>1, <2>3
  <2> QED  BY <2>2, <2>3
<1>6. x \in Seq(Elements) /\ x # <<>> /\ BlankBefore(x)
  BY <1>3, NumeralsApart DEF BlankBefore
<1>7. Words(x) = <<n>>
  BY <1>3, NumeralsApart, WordsOfOne
<1> DEFINE co == Alone(n)
<1>8. co.words = Words(x) /\ co.at = Place(k)
  BY <1>5, <1>7 DEF Alone
<1>9. co \in Coordinates(is_latitude)
  <2>1. SaidAlone(co)
    BY <1>3 DEF SaidAlone
  <2>2. Bounded(co.at, is_latitude)
    BY <1>8
  <2> HIDE DEF co
  <2> QED  BY <2>1, <2>2, CoordinatesAre
<1> HIDE DEF co, x
<1> QED  BY <1>2, <1>6, <1>8, <1>9 DEF ShowsAs

\* degrees and minutes,
LEMMA ShowsTwo ==
  ASSUME NEW is_latitude \in BOOLEAN, NEW k \in ShownParts, Proper(k), Shows("minutes", k),
         Bounded(Place(k), is_latitude)
  PROVE  ShowsAs(toSDMM("minutes", k, is_latitude), is_latitude, Place(k))
<1> DEFINE l == Letter(is_latitude, k.negative)
           x == ShownTwo(k.d, k.m)
           ds == <<k.d, k.m>>
           co == Said(ds, l)
<1>1. /\ k.d \in Magnitudes /\ k.m \in SixtiethsOf /\ Value[k.s] = 0
      /\ k.d \in Numerals /\ k.m \in Numerals
  BY DEF ShownParts, Shows, Proper, Magnitudes, SixtiethsOf
<1>2. toSDMM("minutes", k, is_latitude) = x \o <<Blank, l>>
  BY DEF toSDMM, ShownTwo
<1>3. l \in AxisLetters(is_latitude) /\ Side(l) = IF k.negative THEN -1 ELSE 1
  BY LetterSide
<1>4. Words(x) = ds
  BY <1>1, WordsOfTwo
<1>5. x \in Seq(Elements) /\ Len(x) = 5
  BY <1>1, TwoElements
<1>6. BlankBefore(x)
  BY <1>1, ShownSpaced
<1>7. ds \in Seq(Numerals)
  BY <1>1
<1> HIDE DEF l, x
<1>8. x # <<>>
  BY <1>5
<1>9. Total(ds) = 3600 * Value[k.d] + 60 * Value[k.m]
  BY <1>1, TotalOfTwo
<1>10. SaidByTwo(co, is_latitude)
  BY <1>1, <1>3 DEF SaidByTwo
<1> HIDE DEF ds
<1>11. Side(l) * Total(ds) = Place(k)
  <2>1. Value[k.d] \in Int /\ Value[k.m] \in Int
    BY <1>1, ValueAssumption
  <2> QED  BY <1>1, <1>3, <1>9, <2>1 DEF Place
<1>12. co \in Coordinates(is_latitude)
  <2>1. Bounded(co.at, is_latitude)
    BY <1>11 DEF Said
  <2> HIDE DEF co
  <2> QED  BY <1>10, <2>1, CoordinatesAre
<1>13. ShowsAs(x \o <<Blank, l>>, is_latitude, Side(l) * Total(ds))
  BY <1>3, <1>4, <1>5, <1>6, <1>7, <1>8, <1>12, ShowsLettered
<1> QED  BY <1>2, <1>11, <1>13

\* and degrees, minutes and seconds show the coordinate.
LEMMA ShowsThree ==
  ASSUME NEW is_latitude \in BOOLEAN, NEW k \in ShownParts, Proper(k), Shows("seconds", k),
         Bounded(Place(k), is_latitude)
  PROVE  ShowsAs(toSDMM("seconds", k, is_latitude), is_latitude, Place(k))
<1> DEFINE l == Letter(is_latitude, k.negative)
           x == ShownThree(k.d, k.m, k.s)
           ds == <<k.d, k.m, k.s>>
           co == Said(ds, l)
<1>1. /\ k.d \in Magnitudes /\ k.m \in SixtiethsOf /\ k.s \in SixtiethsOf
      /\ k.d \in Numerals /\ k.m \in Numerals /\ k.s \in Numerals
  BY DEF ShownParts, Shows, Proper, Magnitudes, SixtiethsOf
<1>2. toSDMM("seconds", k, is_latitude) = x \o <<Blank, l>>
  BY DEF toSDMM, ShownThree
<1>3. l \in AxisLetters(is_latitude) /\ Side(l) = IF k.negative THEN -1 ELSE 1
  BY LetterSide
<1>4. Words(x) = ds
  BY <1>1, WordsOfShownThree
<1>5. x \in Seq(Elements) /\ Len(x) = 8
  BY <1>1, ThreeElements
<1>6. BlankBefore(x)
  BY <1>1, ShownSpaced
<1>7. ds \in Seq(Numerals)
  BY <1>1
<1> HIDE DEF l, x
<1>8. x # <<>>
  BY <1>5
<1>9. Total(ds) = 3600 * Value[k.d] + 60 * Value[k.m] + Value[k.s]
  BY <1>1, TotalOfThree
<1>10. SaidByThree(co, is_latitude)
  BY <1>1, <1>3 DEF SaidByThree
<1> HIDE DEF ds
<1>11. Side(l) * Total(ds) = Place(k)
  BY <1>3, <1>9 DEF Place
<1>12. co \in Coordinates(is_latitude)
  <2>1. Bounded(co.at, is_latitude)
    BY <1>11 DEF Said
  <2> HIDE DEF co
  <2> QED  BY <1>10, <2>1, CoordinatesAre
<1>13. ShowsAs(x \o <<Blank, l>>, is_latitude, Side(l) * Total(ds))
  BY <1>3, <1>4, <1>5, <1>6, <1>7, <1>8, <1>12, ShowsLettered
<1> QED  BY <1>2, <1>11, <1>13

\* So does every format.
LEMMA ShownCoordinate ==
  ASSUME NEW format \in Formats, NEW is_latitude \in BOOLEAN, NEW k \in ShownParts,
         Proper(k), Shows(format, k), Bounded(Place(k), is_latitude)
  PROVE  ShowsAs(toSDMM(format, k, is_latitude), is_latitude, Place(k))
<1>1. CASE format = "degrees"
  BY <1>1, ShowsOne
<1>2. CASE format = "minutes"
  BY <1>2, ShowsTwo
<1>3. CASE format = "seconds"
  BY <1>3, ShowsThree
<1> QED  BY <1>1, <1>2, <1>3 DEF Formats

\* The last character of two parts.
LEMMA LastOfBoth ==
  ASSUME NEW E, NEW x \in Seq(E), NEW y \in Seq(E), y # <<>>
  PROVE  x \o y # <<>> /\ Last(x \o y) = Last(y)
<1> DEFINE z == x \o y
           a == Len(x)
           b == Len(y)
<1>1. /\ z \in Seq(E) /\ Len(z) = a + b
      /\ \A i \in 1..(a + b) : z[i] = IF i <= a THEN x[i] ELSE y[i - a]
  BY ConcatProperties
<1>2. a \in Nat /\ b \in Nat \ {0}
  BY EmptySeq
<1> HIDE DEF z, a, b
<1>3. a + b \in 1..(a + b) /\ ~(a + b <= a) /\ (a + b) - a = b
  BY <1>2
<1>4. z[a + b] = y[b]
  <2> DEFINE n == a + b
  <2>1. n \in 1..n /\ ~(n <= a) /\ n - a = b
    BY <1>3
  <2>2. \A i \in 1..n : z[i] = IF i <= a THEN x[i] ELSE y[i - a]
    BY <1>1
  <2> HIDE DEF n
  <2>3. z[n] = y[n - a]
    BY <2>1, <2>2
  <2> QED  BY <2>1, <2>3 DEF n
<1>5. z # <<>>
  BY <1>1, <1>2
<1>6. Last(z) = Last(y)
  BY <1>1, <1>4 DEF Last, b
<1> QED  BY <1>5, <1>6 DEF z

(***************************************************************************)
(* A position as it is shown is one of the documented notations of it.     *)
(***************************************************************************)
THEOREM ShownPosition ==
  ASSUME NEW format \in Formats, NEW lat \in ShownParts, NEW lon \in ShownParts,
         Proper(lat), Shows(format, lat), Bounded(Place(lat), TRUE),
         Proper(lon), Shows(format, lon), Bounded(Place(lon), FALSE)
  PROVE  LET s == FormatPosition(format, lat, lon)
         IN  /\ s \in Seq(Elements) /\ Separate(s)
             /\ \E la \in Latitudes, lo \in Longitudes :
                  /\ la.at = Place(lat) /\ lo.at = Place(lon)
                  /\ Follows(la, lo, Words(s))
<1> DEFINE x == toSDMM(format, lat, TRUE)
           y == toSDMM(format, lon, FALSE)
           sep == <<Comma, Blank>>
           xs == x \o sep
           s == xs \o y
<1>1. ShowsAs(x, TRUE, Place(lat)) /\ ShowsAs(y, FALSE, Place(lon))
  BY ShownCoordinate
<1>2. FormatPosition(format, lat, lon) = s
  BY DEF FormatPosition
<1> HIDE DEF x, y
<1>3. /\ x \in Seq(Elements) /\ x # <<>> /\ BlankBefore(x)
      /\ y \in Seq(Elements) /\ y # <<>> /\ BlankBefore(y)
  BY <1>1 DEF ShowsAs
<1>4. /\ sep \in Seq(Elements) /\ sep # <<>> /\ sep[1] = Comma /\ sep[2] = Blank
      /\ Len(sep) = 2 /\ DOMAIN sep = 1..2 /\ Last(sep) = Blank
  BY NumeralsApart DEF Last
<1>5. Words(sep) = <<Comma>>
  <2>1. PICK f : /\ f[Len(sep)] = Words(sep) /\ f[0] = <<>>
                 /\ \A i \in 1..Len(sep) :
                      f[i] = IF sep[i] \in White THEN f[i - 1] ELSE Append(f[i - 1], sep[i])
    BY <1>4, WordsByTurn
  <2> HIDE DEF sep
  <2>2. 1 \in 1..2 /\ 2 \in 1..2 /\ 1 - 1 = 0 /\ 2 - 1 = 1 /\ Blank \in White /\ Comma \notin White
    BY NumeralsApart DEF White
  <2>3. f[1] = Append(<<>>, Comma) /\ f[2] = f[1]
    BY <1>4, <2>1, <2>2
  <2>4. Append(<<>>, Comma) = <<Comma>>
    OBVIOUS
  <2> QED  BY <1>4, <2>1, <2>3, <2>4
<1> HIDE DEF sep
<1>6. BlankBefore(sep)
  <2>1. Blank \notin Numerals /\ \A i \in 1..2 : i = 1 \/ i = 2
    BY NumeralsApart DEF White
  <2> QED  BY <1>4, <2>1 DEF BlankBefore
<1>7. xs \in Seq(Elements) /\ BlankBefore(xs)
  <2>1. sep[1] \notin Numerals
    BY <1>4, NumeralsApart
  <2> QED  BY <1>3, <1>4, <1>6, <2>1, BlankBeforeBoth
<1>8. xs # <<>> /\ Last(xs) = Blank
  BY <1>3, <1>4, LastOfBoth
<1>9. Words(xs) = Words(x) \o <<Comma>>
  BY <1>3, <1>4, <1>5, WordsJoin
<1> HIDE DEF xs
<1>10. s \in Seq(Elements) /\ BlankBefore(s)
  BY <1>3, <1>7, <1>8, BlankBeforeBoth
<1>11. Words(s) = (Words(x) \o <<Comma>>) \o Words(y)
  <2>1. Words(s) = Words(xs) \o Words(y)
    BY <1>3, <1>7, WordsJoin
  <2> QED  BY <1>9, <2>1
<1> HIDE DEF s
<1>12. PICK la \in Coordinates(TRUE) : la.words = Words(x) /\ la.at = Place(lat)
  BY <1>1 DEF ShowsAs
<1>13. PICK lo \in Coordinates(FALSE) : lo.words = Words(y) /\ lo.at = Place(lon)
  BY <1>1 DEF ShowsAs
<1>14. Follows(la, lo, Words(s))
  BY <1>11, <1>12, <1>13 DEF Follows
<1>15. Separate(s)
  BY <1>10, BlankSeparates
<1> QED  BY <1>2, <1>10, <1>12, <1>13, <1>14, <1>15 DEF Latitudes, Longitudes
=============================================================================
