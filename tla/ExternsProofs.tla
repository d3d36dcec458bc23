---------------------------- MODULE ExternsProofs ----------------------------
(***************************************************************************)
(* What the externs print, they read back: for words of any width, and for *)
(* any sequence of prints.                                                 *)
(***************************************************************************)
EXTENDS MCExterns, BlockProofs

-----------------------------------------------------------------------------
(* Numbers. *)

(***************************************************************************)
(* D spells n: the number grows from 0 to n as the digits are read, from   *)
(* the first to the last.                                                  *)
(***************************************************************************)
Spells(D, n) ==
  /\ D \in Seq(Digits) /\ Len(D) >= 1
  /\ \E v \in [0..Len(D) -> Nat] :
       /\ v[0] = 0 /\ v[Len(D)] = n
       /\ \A j \in 1..Len(D) : v[j] = 10 * v[j-1] + D[j] - 48

\* The last digit, and the others.
LEMMA LastDigit ==
  ASSUME NEW k \in Nat
  PROVE  /\ k % 10 \in 0..9 /\ k \div 10 \in Nat
         /\ k = 10 * (k \div 10) + (k % 10)
         /\ k < 10 => k \div 10 = 0 /\ k % 10 = k
         /\ k >= 10 => k \div 10 < k
BY Z3

\* What d[k] is made of.
Digit10(k) == << 48 + (k % 10) >>

DecimalFrom(d, k) == (IF k < 10 THEN << >> ELSE d[k \div 10]) \o Digit10(k)

\* The recursive function of Decimal exists.
LEMMA DecimalExists ==
  ASSUME NEW n \in Nat
  PROVE  \E d : d = [k \in 0..n |-> DecimalFrom(d, k)]
<1> DEFINE Bad == {m \in 0..n : ~ \E d : d = [k \in 0..m |-> DecimalFrom(d, k)]}
<1> SUFFICES ASSUME n \in Bad PROVE FALSE
  OBVIOUS
<1>1. PICK m \in Bad : \A l \in Bad : m <= l
  <2>1. Bad \in SUBSET Nat /\ Bad # {}
    OBVIOUS
  <2> HIDE DEF Bad
  <2> QED BY <2>1, LeastElement
<1>2. m \in 0..n
  OBVIOUS
<1>3. \E d : \A k \in 0..m-1 : DOMAIN d = 0..m-1 /\ d[k] = DecimalFrom(d, k)
  <2>1. CASE m = 0
    <3>1. 0..m-1 = {}
      BY <2>1
    <3> QED BY <3>1
  <2>2. CASE m # 0
    <3>1. m - 1 \in 0..n /\ ~(m <= m - 1)
      BY <1>2, <2>2
    <3>2. m - 1 \notin Bad
      <4> HIDE DEF Bad
      <4> QED BY <1>1, <3>1
    <3>3. PICK d : d = [k \in 0..m-1 |-> DecimalFrom(d, k)]
      BY <3>1, <3>2
    <3>4. DOMAIN d = 0..m-1 /\ \A k \in 0..m-1 : d[k] = DecimalFrom(d, k)
      BY <3>3
    <3> QED BY <3>4
  <2> QED BY <2>1, <2>2
<1>4. PICK d : \A k \in 0..m-1 : DOMAIN d = 0..m-1 /\ d[k] = DecimalFrom(d, k)
  BY <1>3
<1> DEFINE g == [k \in 0..m |-> IF k = m THEN DecimalFrom(d, m) ELSE d[k]]
<1>5. ASSUME NEW k \in 0..m PROVE g[k] = DecimalFrom(g, k)
  <2>1. k >= 10 => k \div 10 \in 0..m-1 /\ k \div 10 # m
    BY <1>2, LastDigit
  <2>2. k >= 10 => g[k \div 10] = d[k \div 10]
    BY <1>2, <2>1
  <2>3. ~(k < 10) <=> k >= 10
    BY <1>2
  <2>4. DecimalFrom(g, k) = DecimalFrom(d, k)
    <3> HIDE DEF g
    <3> QED BY <2>2, <2>3 DEF DecimalFrom
  <2>5. g[k] = DecimalFrom(d, k)
    BY <1>2, <1>4
  <2> QED BY <2>4, <2>5
<1>6. g = [k \in 0..m |-> DecimalFrom(g, k)]
  <2> DEFINE h == [k \in 0..m |-> DecimalFrom(g, k)]
  <2>1. DOMAIN g = 0..m /\ DOMAIN h = 0..m /\ g = [k \in 0..m |-> g[k]] /\ h = [k \in 0..m |-> h[k]]
    OBVIOUS
  <2>2. \A k \in 0..m : g[k] = h[k]
    BY <1>5
  <2> HIDE DEF g, h
  <2>3. g = h
    BY <2>1, <2>2
  <2> QED BY <2>3 DEF h
<1> HIDE DEF g
<1> QED BY <1>6

\* One more digit.
LEMMA SpellsMore ==
  ASSUME NEW k \in Nat, NEW D, Spells(D, k), NEW r \in 0..9
  PROVE  Spells(D \o << 48 + r >>, 10 * k + r)
<1> PICK E, L : E = D \o << 48 + r >> /\ L = Len(D)
  OBVIOUS
<1>0. D \in Seq(Digits) /\ L \in Nat /\ L >= 1 /\ 48 + r \in Digits
      /\ E = D \o << 48 + r >> /\ L = Len(D)
  BY DEF Spells, Digits
<1>1. PICK v \in [0..L -> Nat] :
        /\ v[0] = 0 /\ v[L] = k
        /\ \A j \in 1..L : v[j] = 10 * v[j-1] + D[j] - 48
  BY <1>0 DEF Spells
<1>2. /\ E \in Seq(Digits) /\ Len(E) = L + 1
      /\ E[L + 1] = 48 + r /\ \A j \in 1..L : E[j] = D[j]
  BY <1>0
<1> DEFINE w == [j \in 0..L+1 |-> IF j = L + 1 THEN 10 * k + r ELSE v[j]]
<1>3. /\ w \in [0..L+1 -> Nat]
      /\ w[L + 1] = 10 * k + r /\ \A j \in 0..L : w[j] = v[j]
  <2>1. 10 * k + r \in Nat
    OBVIOUS
  <2>2. ASSUME NEW j \in 0..L+1, j # L + 1 PROVE j \in 0..L
    BY <1>0, <2>2
  <2>3. \A j \in 0..L : j \in 0..L+1 /\ j # L + 1
    BY <1>0
  <2> QED BY <1>0, <1>1, <2>1, <2>2, <2>3
<1> HIDE DEF w
<1>4. ASSUME NEW j \in 1..L+1 PROVE w[j] = 10 * w[j-1] + E[j] - 48
  <2>1. CASE j = L + 1
    <3>1. w[j] = 10 * k + r /\ w[j-1] = k /\ E[j] = 48 + r
      BY <1>0, <1>1, <1>2, <1>3, <2>1
    <3> QED BY <3>1
  <2>2. CASE j \in 1..L
    <3>1. j \in 0..L /\ j - 1 \in 0..L
      BY <1>0, <2>2
    <3>2. w[j] = v[j] /\ w[j-1] = v[j-1] /\ E[j] = D[j]
      BY <1>2, <1>3, <2>2, <3>1
    <3> QED BY <1>1, <2>2, <3>2
  <2> QED BY <1>0, <2>1, <2>2
<1>5. w[0] = 0
  BY <1>0, <1>1, <1>3
<1>6. Len(E) >= 1 /\ w \in [0..Len(E) -> Nat] /\ w[Len(E)] = 10 * k + r
  BY <1>0, <1>2, <1>3
<1>7. Spells(E, 10 * k + r)
  <2>1. E \in Seq(Digits) /\ \A j \in 1..Len(E) : w[j] = 10 * w[j-1] + E[j] - 48
    BY <1>2, <1>4
  <2> QED BY ONLY <1>5, <1>6, <2>1 DEF Spells
<1> QED BY <1>0, <1>7

\* A single digit.
LEMMA SpellsDigit ==
  ASSUME NEW k \in 0..9
  PROVE  Spells(<< 48 + k >>, k)
<1> DEFINE D == << 48 + k >>
           v == [j \in 0..1 |-> IF j = 0 THEN 0 ELSE k]
<1>1. D \in Seq(Digits) /\ Len(D) = 1 /\ D[1] = 48 + k
  BY DEF Digits
<1>2. v \in [0..1 -> Nat] /\ v[0] = 0 /\ v[1] = k
  OBVIOUS
<1> HIDE DEF D, v
<1>3. ASSUME NEW j \in 1..1 PROVE v[j] = 10 * v[j-1] + D[j] - 48
  <2>1. j = 1 /\ j - 1 = 0
    OBVIOUS
  <2> QED BY <1>1, <1>2, <2>1
<1>4. /\ v \in [0..Len(D) -> Nat] /\ v[Len(D)] = k /\ Len(D) >= 1
      /\ \A j \in 1..Len(D) : v[j] = 10 * v[j-1] + D[j] - 48
  BY <1>1, <1>2, <1>3
<1>5. Spells(D, k)
  BY <1>1, <1>2, <1>4 DEF Spells
<1> QED BY <1>5 DEF D

\* std::cout spells the number it prints.
LEMMA DecimalSpells ==
  ASSUME NEW n \in Nat
  PROVE  Spells(Decimal(n), n)
<1>1. PICK d : d = [k \in 0..n |-> DecimalFrom(d, k)] /\ Decimal(n) = d[n]
  <2> DEFINE c == CHOOSE d : d = [k \in 0..n |-> DecimalFrom(d, k)]
  <2>1. c = [k \in 0..n |-> DecimalFrom(c, k)]
    BY DecimalExists
  <2>2. Decimal(n) = c[n]
    BY DEF Decimal, DecimalFrom, Digit10
  <2> QED BY <2>1, <2>2
<1>2. \A k \in 0..n : d[k] = DecimalFrom(d, k)
  BY <1>1
<1> DEFINE Bad == {k \in 0..n : ~Spells(d[k], k)}
<1> SUFFICES ASSUME n \in Bad PROVE FALSE
  <2>1. n \in 0..n
    OBVIOUS
  <2> QED BY <1>1, <2>1
<1>3. PICK k \in Bad : \A l \in Bad : k <= l
  <2>1. Bad \in SUBSET Nat /\ Bad # {}
    OBVIOUS
  <2> HIDE DEF Bad
  <2> QED BY <2>1, LeastElement
<1>4. k \in 0..n /\ k \in Nat /\ ~Spells(d[k], k)
  OBVIOUS
<1>5. CASE k < 10
  <2>1. d[k] = << >> \o << 48 + (k % 10) >> /\ k % 10 = k /\ k \in 0..9
    BY <1>2, <1>4, <1>5, LastDigit DEF DecimalFrom, Digit10
  <2>2. d[k] = << 48 + k >>
    BY <2>1
  <2> QED BY <1>4, <2>1, <2>2, SpellsDigit
<1>6. CASE k >= 10
  <2>1. PICK q, r : q = k \div 10 /\ r = k % 10
    OBVIOUS
  <2>2. q \in Nat /\ q < k /\ r \in 0..9 /\ k = 10 * q + r
    BY <1>4, <1>6, <2>1, LastDigit
  <2>3. q \in 0..n /\ ~(k <= q)
    BY <1>4, <2>2
  <2>4. q \notin Bad
    <3> HIDE DEF Bad
    <3> QED BY <1>3, <2>3
  <2>5. Spells(d[q], q)
    BY <2>3, <2>4
  <2>6. d[k] = d[q] \o << 48 + r >>
    <3>1. d[k] = DecimalFrom(d, k) /\ ~(k < 10)
      BY <1>2, <1>4, <1>6
    <3> QED BY ONLY <2>1, <3>1 DEF DecimalFrom, Digit10
  <2> QED BY <1>4, <2>2, <2>5, <2>6, SpellsMore
<1> QED BY <1>4, <1>5, <1>6

\* The function Number folds over the digits with has one value at each of them.
LEMMA NumberIs ==
  ASSUME NEW V, NEW i \in Nat, NEW k \in Int, k >= i - 1,
         NEW v \in [i-1..k -> Int], v[i-1] = 0,
         \A j \in i..k : v[j] = 10 * v[j-1] + V[j] - 48
  PROVE  Number(V, i, k) = v[k]
<1> DEFINE F(u) == [j \in i-1..k |-> IF j < i THEN 0 ELSE 10 * u[j-1] + V[j] - 48]
           c == CHOOSE u : u = F(u)
<1>1. v = F(v)
  <2>1. ASSUME NEW j \in i-1..k PROVE v[j] = F(v)[j]
    <3>1. j = i - 1 \/ j \in i..k
      OBVIOUS
    <3> QED BY <3>1
  <2>2. v = [j \in i-1..k |-> v[j]] /\ F(v) = [j \in i-1..k |-> F(v)[j]]
    OBVIOUS
  <2> HIDE DEF F
  <2> QED BY <2>1, <2>2
<1>2. c = F(c)
  BY <1>1
<1>3. Number(V, i, k) = c[k]
  BY DEF Number
<1> HIDE DEF c
<1>4. \A j \in i-1..k : c[j] = IF j < i THEN 0 ELSE 10 * c[j-1] + V[j] - 48
  <2>1. PICK u : u = c
    OBVIOUS
  <2>2. u = F(u)
    BY <1>2, <2>1
  <2>3. \A j \in i-1..k : u[j] = IF j < i THEN 0 ELSE 10 * u[j-1] + V[j] - 48
    BY <2>2
  <2> QED BY <2>1, <2>3
<1> HIDE DEF F
<1> DEFINE Bad == {m \in 0..k-i+1 : c[m + i - 1] # v[m + i - 1]}
<1>5. Bad = {}
  <2> SUFFICES ASSUME Bad # {} PROVE FALSE
    OBVIOUS
  <2>1. PICK m \in Bad : \A l \in Bad : m <= l
    <3>1. Bad \in SUBSET Nat
      OBVIOUS
    <3> HIDE DEF Bad
    <3> QED BY <3>1, LeastElement
  <2>2. PICK j : j = m + i - 1
    OBVIOUS
  <2>3. m \in 0..k-i+1 /\ j \in i-1..k /\ c[j] # v[j] /\ m = j - i + 1
    BY <2>2
  <2>4. CASE j = i - 1
    BY <1>4, <2>3, <2>4
  <2>5. CASE j \in i..k
    <3>1. m - 1 \in 0..k-i+1 /\ ~(m <= m - 1) /\ (m - 1) + i - 1 = j - 1
      BY <2>3, <2>5
    <3>2. m - 1 \notin Bad
      <4> HIDE DEF Bad
      <4> QED BY <2>1, <3>1
    <3>3. c[j-1] = v[j-1]
      BY <3>1, <3>2
    <3> QED BY <1>4, <2>3, <2>5, <3>3
  <2> QED BY <2>3, <2>4, <2>5
<1>6. c[k] = v[k]
  <2>1. k - i + 1 \in 0..k-i+1 /\ (k - i + 1) + i - 1 = k
    OBVIOUS
  <2>2. k - i + 1 \notin Bad
    <3> HIDE DEF Bad
    <3> QED BY <1>5
  <2> QED BY <2>1, <2>2
<1> QED BY <1>3, <1>6

-----------------------------------------------------------------------------
(* Reading. *)

\* The only place where a run of characters of S can end.
LEMMA EndOfIs ==
  ASSUME NEW V, NEW L \in Nat, L = Len(V), NEW S,
         NEW i \in Nat, NEW k \in i..L+1,
         k = L + 1 \/ V[k] \notin S,
         \A j \in i..k-1 : V[j] \in S
  PROVE  EndOf(V, i, S) = k
<1> DEFINE E(m) == /\ m = L + 1 \/ V[m] \notin S
                   /\ \A j \in i..m-1 : V[j] \in S
<1>1. E(k)
  OBVIOUS
<1>2. ASSUME NEW m \in i..L+1, E(m) PROVE m = k
  <2>1. CASE m < k
    <3>1. m \in i..k-1 /\ m # L + 1
      BY <2>1
    <3> QED BY <1>2, <3>1
  <2>2. CASE k < m
    <3>1. k \in i..m-1 /\ k # L + 1
      BY <2>2
    <3> QED BY <1>2, <3>1
  <2> QED BY <2>1, <2>2
<1>3. EndOf(V, i, S) = CHOOSE m \in i..L+1 : E(m)
  BY DEF EndOf
<1> HIDE DEF E
<1> QED BY <1>1, <1>2, <1>3

\* The input u is the text V, perhaps behind the blank that a number has left.
Follows(u, V) == u \in {V, << 32 >> \o V}

\* Skipping the one blank extern_printint has left, if any.
LEMMA SkipOne ==
  ASSUME NEW V \in Seq(Byte), Len(V) >= 1, V[1] \notin Blanks,
         NEW u \in {V, << 32 >> \o V}
  PROVE  SkipBlanks(u) = V
<1>1. PICK L \in Nat : L = Len(V)
  BY LenProperties
<1>2. CASE u = V
  <2>1. EndOf(u, 1, Blanks) = 1
    BY <1>1, <1>2, EndOfIs
  <2> QED BY <1>2, <2>1, SubSeqFull DEF SkipBlanks
<1>3. CASE u = << 32 >> \o V
  <2>1. 32 \in Byte /\ 32 \in Blanks
    BY DEF Byte, Blanks
  <2>2. u \in Seq(Byte) /\ Len(u) = L + 1 /\ u[1] = 32 /\ \A j \in 1..L : u[j + 1] = V[j]
    BY <1>1, <1>3, <2>1
  <2>3. u[2] \notin Blanks /\ 2 \in 1..L+1
    <3>1. 1 \in 1..L /\ 2 = 1 + 1
      BY <1>1
    <3> QED BY <2>2, <3>1, <1>1
  <2>4. EndOf(u, 1, Blanks) = 2
    <3>1. \A j \in 1..2-1 : u[j] \in Blanks
      BY <2>1, <2>2
    <3>2. L + 1 \in Nat /\ 2 \in 1..(L + 1) + 1
      BY <1>1, <2>3
    <3> QED BY <2>2, <2>3, <3>1, <3>2, EndOfIs
  <2>5. SkipBlanks(u) = SubSeq(u, 2, L + 1)
    BY <2>2, <2>4 DEF SkipBlanks
  <2>6. u = << 32 >> \o V /\ << 32 >> \in Seq(Byte) /\ Len(<< 32 >>) = 1
    BY <1>3, <2>1
  <2>7. SubSeq(u, 2, L + 1) = SubSeq(V, 1, L)
    BY <1>1, <2>2, SMTT(30)
  <2> QED BY <1>1, <2>5, <2>7, SubSeqFull
<1> QED BY <1>2, <1>3

\* The values v a number has as the L digits of V from position f on are read.
Counts(v, V, f, L) ==
  /\ v \in [0..L -> Nat] /\ v[0] = 0
  /\ \A j \in 1..L : v[j] = 10 * v[j-1] + V[f + j - 1] - 48

\* The digits D stand in V from position f on, and a blank behind them.
StandsAt(D, V, f) ==
  /\ f + Len(D) \in 1..Len(V) /\ V[f + Len(D)] = 32
  /\ \A j \in 1..Len(D) : V[f + j - 1] = D[j]

\* The digits may stand anywhere in a text.
LEMMA NumberAt ==
  ASSUME NEW V, NEW f \in Nat, NEW L \in Nat, NEW v, Counts(v, V, f, L)
  PROVE  Number(V, f, f + L - 1) = v[L]
<1>0. /\ v \in [0..L -> Nat] /\ v[0] = 0
      /\ \A j \in 1..L : v[j] = 10 * v[j-1] + V[f + j - 1] - 48
  BY DEF Counts
<1>1. PICK k, w : k = f + L - 1 /\ w = [j \in f-1..k |-> v[j - f + 1]]
  OBVIOUS
<1>2. f \in Nat /\ k \in Int /\ k >= f - 1
  BY <1>1
<1>3. ASSUME NEW j \in f-1..k PROVE w[j] = v[j - f + 1] /\ v[j - f + 1] \in Nat
  <2>1. j - f + 1 \in 0..L
    BY <1>1
  <2> QED BY <1>0, <1>1, <2>1
<1>4. w \in [f-1..k -> Int]
  <2>1. \A j \in f-1..k : w[j] \in Int
    BY <1>3
  <2> QED BY <1>1, <2>1
<1>5. w[f-1] = 0 /\ w[k] = v[L]
  <2>1. f - 1 \in f-1..k /\ (f - 1) - f + 1 = 0 /\ k \in f-1..k /\ k - f + 1 = L
    BY <1>1
  <2> QED BY <1>0, <1>3, <2>1
<1>6. ASSUME NEW j \in f..k PROVE w[j] = 10 * w[j-1] + V[j] - 48
  <2>1. PICK l : l = j - f + 1
    OBVIOUS
  <2>2. l \in 1..L /\ f + l - 1 = j /\ (j - 1) - f + 1 = l - 1 /\ j \in f-1..k /\ j - 1 \in f-1..k
    BY <1>1, <2>1
  <2>3. w[j] = v[l] /\ w[j-1] = v[l-1]
    BY <1>3, <2>1, <2>2
  <2> QED BY <1>0, <2>2, <2>3
<1>7. Number(V, f, k) = w[k]
  BY <1>2, <1>4, <1>5, <1>6, NumberIs
<1> QED BY <1>1, <1>5, <1>7

\* std::cin >> i reads the digits of a number up to the blank behind it.
LEMMA DigitsRead ==
  ASSUME NEW V \in Seq(Byte), NEW n \in Nat, NEW D, Spells(D, n),
         NEW f \in {1, 2}, StandsAt(D, V, f)
  PROVE  /\ EndOf(V, f, Digits) = f + Len(D)
         /\ Number(V, f, f + Len(D) - 1) = n
<1>0. PICK L : L = Len(D)
  OBVIOUS
<1>1. PICK m \in Nat : m = Len(V)
  BY LenProperties
<1>2. D \in Seq(Digits) /\ L \in Nat /\ L >= 1
  <2>1. D \in Seq(Digits) /\ Len(D) >= 1
    BY DEF Spells
  <2> QED BY <1>0, <2>1, LenProperties
<1>s. f + L \in 1..Len(V) /\ V[f + L] = 32 /\ \A j \in 1..L : V[f + j - 1] = D[j]
  BY <1>0 DEF StandsAt
<1>3. EndOf(V, f, Digits) = f + L
  <2>1. ASSUME NEW j \in f..f+L-1 PROVE V[j] \in Digits
    <3>1. j - f + 1 \in 1..L /\ f + (j - f + 1) - 1 = j
      BY <1>2
    <3>2. V[j] = D[j - f + 1]
      BY <1>s, <3>1
    <3> QED BY <1>0, <1>2, <3>1, <3>2, ElementOfSeq
  <2>2. 32 \notin Digits
    BY DEF Digits
  <2>3. f + L \in f..m+1 /\ f \in Nat /\ f + L - 1 = (f + L) - 1
    BY <1>1, <1>2, <1>s
  <2> QED BY <1>1, <1>s, <2>1, <2>2, <2>3, EndOfIs
<1>4. PICK v \in [0..L -> Nat] :
        /\ v[0] = 0 /\ v[L] = n
        /\ \A j \in 1..L : v[j] = 10 * v[j-1] + D[j] - 48
  BY <1>0 DEF Spells
<1>5. Counts(v, V, f, L)
  <2>1. ASSUME NEW j \in 1..L PROVE v[j] = 10 * v[j-1] + V[f + j - 1] - 48
    <3>1. v[j] = 10 * v[j-1] + D[j] - 48
      BY <1>4
    <3>2. V[f + j - 1] = D[j]
      BY <1>s
    <3> QED BY <3>1, <3>2
  <2>2. v \in [0..L -> Nat] /\ v[0] = 0
    BY <1>4
  <2> QED BY ONLY <2>1, <2>2 DEF Counts
<1>6. Number(V, f, f + L - 1) = v[L]
  <2>1. f \in Nat
    OBVIOUS
  <2> QED BY <1>2, <1>5, <2>1, NumberAt
<1> QED BY <1>0, <1>3, <1>4, <1>6

-----------------------------------------------------------------------------
(* What is printed, is read back. *)

\* A number as extern_printint prints it: the digits start at f, behind the sign if there is one.
PrintedAs(D, f, t) == ((IF f = 2 THEN << Minus >> \o D ELSE D) \o << 32 >>) \o t

\* Such a text: what its first character is, where the digits are, what follows them.
PrintedSo(V, D, f, t) ==
  /\ V \in Seq(Byte) /\ V[1] = (IF f = 2 THEN Minus ELSE D[1])
  /\ StandsAt(D, V, f)
  /\ SubSeq(V, f + Len(D), Len(V)) = << 32 >> \o t

\* extern_printint prints such a text.
LEMMA PrintedNumber ==
  ASSUME NEW D \in Seq(Digits), Len(D) >= 1, NEW f \in {1, 2}, NEW t \in Seq(Byte),
         NEW V, V = PrintedAs(D, f, t)
  PROVE  PrintedSo(V, D, f, t)
<1>0. PICK L \in Nat : L = Len(D) /\ L >= 1
  BY LenProperties
<1>1. PICK S : S = IF f = 2 THEN << Minus >> \o D ELSE D
  OBVIOUS
<1>2. D \in Seq(Byte) /\ Minus \in Byte /\ 32 \in Byte /\ << 32 >> \in Seq(Byte)
  <2>1. Digits \subseteq Byte /\ Minus \in Byte /\ 32 \in Byte
    BY DEF Digits, Byte, Minus
  <2>2. D \in Seq(Byte)
    BY <2>1, SeqMonotonic
  <2> QED BY <2>1, <2>2
<1>3. /\ S \in Seq(Byte) /\ Len(S) = f + L - 1
      /\ S[1] = IF f = 2 THEN Minus ELSE D[1]
      /\ \A j \in 1..L : S[f + j - 1] = D[j]
  <2>1. CASE f = 1
    <3>1. S = D /\ f + L - 1 = L /\ \A j \in 1..L : f + j - 1 = j
      BY <1>1, <2>1
    <3> QED BY <1>0, <1>2, <2>1, <3>1
  <2>2. CASE f = 2
    <3>1. S = << Minus >> \o D /\ << Minus >> \in Seq(Byte) /\ Len(<< Minus >>) = 1
      BY <1>1, <1>2, <2>2
    <3>2. S \in Seq(Byte) /\ Len(S) = L + 1 /\ S[1] = Minus /\ \A j \in 1..L : S[j + 1] = D[j]
      BY <1>0, <1>2, <3>1
    <3>3. f + L - 1 = L + 1 /\ \A j \in 1..L : f + j - 1 = j + 1
      BY <2>2
    <3> QED BY <2>2, <3>2, <3>3
  <2> QED BY <2>1, <2>2
<1>4. PICK R, K : R = S \o << 32 >> /\ K = f + L - 1
  OBVIOUS
<1>5. K \in Nat /\ K >= 1 /\ K = f + L - 1
  BY <1>0, <1>4
<1>6. /\ R \in Seq(Byte) /\ Len(R) = K + 1 /\ R[K + 1] = 32
      /\ \A j \in 1..K : R[j] = S[j]
  BY <1>2, <1>3, <1>4, <1>5
<1>7. V = R \o t
  BY <1>1, <1>4 DEF PrintedAs
<1>8. PICK T \in Nat : T = Len(t)
  BY LenProperties
<1>9. /\ V \in Seq(Byte) /\ Len(V) = K + 1 + T
      /\ \A j \in 1..K+1 : V[j] = R[j]
      /\ \A j \in 1..T : V[K + 1 + j] = t[j]
  <2>1. /\ V \in Seq(Byte) /\ Len(V) = Len(R) + Len(t)
        /\ \A j \in 1..Len(R) + Len(t) : V[j] = IF j <= Len(R) THEN R[j] ELSE t[j - Len(R)]
    <3>1. R \in Seq(Byte) /\ t \in Seq(Byte)
      BY <1>6
    <3>2. /\ R \o t \in Seq(Byte) /\ Len(R \o t) = Len(R) + Len(t)
          /\ \A j \in 1..Len(R) + Len(t) : (R \o t)[j] = IF j <= Len(R) THEN R[j] ELSE t[j - Len(R)]
      BY ONLY <3>1, ConcatProperties
    <3> QED BY <1>7, <3>2
  <2>2. Len(V) = K + 1 + T /\ \A j \in 1..K+1+T : V[j] = IF j <= K + 1 THEN R[j] ELSE t[j - (K + 1)]
    BY <1>6, <1>8, <2>1
  <2>3. ASSUME NEW j \in 1..K+1 PROVE V[j] = R[j]
    <3>1. j \in 1..K+1+T /\ j <= K + 1
      BY <1>5
    <3> QED BY <2>2, <3>1
  <2>4. ASSUME NEW j \in 1..T PROVE V[K + 1 + j] = t[j]
    <3>1. K + 1 + j \in 1..K+1+T /\ ~(K + 1 + j <= K + 1) /\ (K + 1 + j) - (K + 1) = j
      BY <1>5
    <3> QED BY <2>2, <3>1
  <2> QED BY <2>1, <2>2, <2>3, <2>4
<1>10. \A j \in 1..K : V[j] = S[j]
  BY <1>5, <1>6, <1>9
<1>11. V[1] = S[1] /\ V[K + 1] = 32
  <2>1. 1 \in 1..K /\ K + 1 \in 1..K+1
    BY <1>5
  <2> QED BY <1>6, <1>9, <1>10, <2>1
<1>12. ASSUME NEW j \in 1..L PROVE V[f + j - 1] = D[j]
  <2>1. f + j - 1 \in 1..K
    BY <1>5
  <2> QED BY <1>3, <1>10, <2>1
<1>13. SubSeq(V, K + 1, K + 1 + T) = << 32 >> \o t
  <2>1. /\ << 32 >> \o t \in Seq(Byte) /\ Len(<< 32 >> \o t) = T + 1
        /\ (<< 32 >> \o t)[1] = 32 /\ \A j \in 1..T : (<< 32 >> \o t)[j + 1] = t[j]
    BY <1>2, <1>8
  <2>2. PICK W, Z : W = SubSeq(V, K + 1, K + 1 + T) /\ Z = << 32 >> \o t
    OBVIOUS
  <2>3. W \in Seq(Byte) /\ Len(W) = T + 1 /\ \A j \in 1..T+1 : W[j] = V[K + j]
    <3>1. PICK a, b : a = K + 1 /\ b = K + 1 + T
      OBVIOUS
    <3>2. a \in Int /\ b \in Int /\ a <= b /\ b - a + 1 = T + 1
      BY <1>5, <3>1
    <3>3. \A j \in a..b : V[j] \in Byte
      <4>1. \A j \in a..b : j \in 1..Len(V)
        BY <1>5, <1>9, <3>1
      <4> QED BY <1>9, <4>1, ElementOfSeq
    <3>4. /\ SubSeq(V, a, b) \in Seq(Byte) /\ Len(SubSeq(V, a, b)) = IF a <= b THEN b - a + 1 ELSE 0
          /\ \A j \in 1..b-a+1 : SubSeq(V, a, b)[j] = V[a + j - 1]
      BY ONLY <3>2, <3>3, SubSeqProperties
    <3>5. W \in Seq(Byte) /\ Len(W) = T + 1 /\ \A j \in 1..T+1 : W[j] = V[a + j - 1]
      BY <2>2, <3>1, <3>2, <3>4
    <3>6. \A j \in 1..T+1 : a + j - 1 = K + j
      BY <1>5, <3>1
    <3> QED BY <3>5, <3>6
  <2>4. ASSUME NEW j \in 1..T+1 PROVE W[j] = Z[j]
    <3>1. CASE j = 1
      BY <1>11, <2>1, <2>2, <2>3, <3>1
    <3>2. CASE j # 1
      <4>1. PICK l : l = j - 1
        OBVIOUS
      <4>2. l \in 1..T /\ j = l + 1 /\ K + j = K + 1 + l
        BY <1>5, <1>8, <3>2, <4>1
      <4>3. W[j] = t[l]
        <5>1. W[j] = V[K + j] /\ V[K + 1 + l] = t[l]
          BY <1>9, <2>3, <4>2
        <5> QED BY <4>2, <5>1
      <4>4. Z[j] = t[l]
        BY <2>1, <2>2, <4>2
      <4> QED BY <4>3, <4>4
    <3> QED BY <3>1, <3>2
  <2>5. W = Z
    <3>1. Z \in Seq(Byte) /\ Len(Z) = Len(W)
      BY <2>1, <2>2, <2>3
    <3>2. \A j \in 1..Len(W) : W[j] = Z[j]
      BY <2>3, <2>4
    <3> QED BY <2>3, <3>1, <3>2, SeqEqual
  <2> QED BY <2>2, <2>5
<1>14. f + L = K + 1
  BY <1>5
<1>15. StandsAt(D, V, f)
  <2>1. f + L \in 1..Len(V)
    BY <1>0, <1>5, <1>8, <1>9
  <2> QED BY <1>0, <1>11, <1>12, <1>14, <2>1 DEF StandsAt
<1> QED BY <1>0, <1>3, <1>9, <1>11, <1>13, <1>14, <1>15 DEF PrintedSo

\* A word and its negative: one of them is printed, and is small enough to be read.
LEMMA SignedWord ==
  ASSUME NEW w \in Word
  PROVE  /\ Signed(w) < 0 => -Signed(w) \in Nat /\ -Signed(w) \in Word /\ (-(-Signed(w))) % Modulus = w
         /\ ~(Signed(w) < 0) => w \in Nat
<1>1. SignBit \in Nat /\ SignBit > 2 /\ Modulus = 2 * SignBit /\ w \in 0..Modulus-1
  BY SignBitAssumption DEF Modulus, Word
<1>2. CASE Signed(w) < 0
  <2>1. Signed(w) = w - Modulus /\ w >= SignBit
    BY <1>1, <1>2 DEF Signed
  <2>2. -Signed(w) = Modulus - w /\ Modulus - w \in Nat /\ Modulus - w \in 0..Modulus-1
    BY <1>1, <2>1
  <2>3. (-(Modulus - w)) % Modulus = w
    <3>1. -(Modulus - w) = w - Modulus
      BY <1>1
    <3>2. (w - Modulus) % Modulus = w
      BY <1>1, Z3
    <3> QED BY <3>1, <3>2
  <2> QED BY <1>2, <2>2, <2>3 DEF Word
<1>3. CASE ~(Signed(w) < 0)
  BY <1>1, <1>3
<1> QED BY <1>2, <1>3

(***************************************************************************)
(* '&' reads what '.' has printed, with or without the blank that the      *)
(* number before it has left, and leaves its own blank.                    *)
(***************************************************************************)
LEMMA IntReadsBack ==
  ASSUME NEW w \in Word, NEW t \in Seq(Byte),
         NEW u, Follows(u, extern_printint(w) \o t)
  PROVE  extern_getint([rest |-> u, failed |-> FALSE]) = {Read(w, << 32 >> \o t, FALSE)}
<1> PICK V, c : /\ V = extern_printint(w) \o t
                /\ c = [rest |-> u, failed |-> FALSE]
  OBVIOUS
<1>0. V = extern_printint(w) \o t /\ c = [rest |-> u, failed |-> FALSE]
  OBVIOUS
<1>u. u \in {V, << 32 >> \o V}
  BY <1>0 DEF Follows
<1>1. PICK n, f : /\ n = IF Signed(w) < 0 THEN -Signed(w) ELSE w
                  /\ f = IF Signed(w) < 0 THEN 2 ELSE 1
  OBVIOUS
<1>2. n \in Nat /\ n \in Word /\ f \in {1, 2} /\ w = IF f = 2 THEN (-n) % Modulus ELSE n
  BY <1>1, SignedWord
<1>3. PICK D : D = Decimal(n)
  OBVIOUS
<1>4. Spells(D, n) /\ D \in Seq(Digits) /\ Len(D) \in Nat /\ Len(D) >= 1
  <2>1. Spells(D, n)
    BY <1>2, <1>3, DecimalSpells
  <2>2. D \in Seq(Digits) /\ Len(D) >= 1
    BY <2>1 DEF Spells
  <2> QED BY <2>1, <2>2, LenProperties
<1>5. V = PrintedAs(D, f, t)
  <2>1. CASE Signed(w) < 0
    <3>1. extern_printint(w) = (<< Minus >> \o D) \o << 32 >>
      BY <1>1, <1>3, <2>1 DEF extern_printint
    <3> QED BY <1>0, <1>1, <2>1, <3>1 DEF PrintedAs
  <2>2. CASE ~(Signed(w) < 0)
    <3>1. extern_printint(w) = D \o << 32 >> /\ f # 2
      BY <1>1, <1>3, <2>2 DEF extern_printint
    <3> QED BY <1>0, <3>1 DEF PrintedAs
  <2> QED BY <2>1, <2>2
<1>6. /\ V \in Seq(Byte) /\ V[1] = (IF f = 2 THEN Minus ELSE D[1])
      /\ StandsAt(D, V, f)
      /\ SubSeq(V, f + Len(D), Len(V)) = << 32 >> \o t
  <2>1. D \in Seq(Digits) /\ Len(D) >= 1
    BY <1>4
  <2>2. f \in {1, 2} /\ t \in Seq(Byte)
    BY <1>2
  <2>3. PrintedSo(V, D, f, t)
    BY ONLY <1>5, <2>1, <2>2, PrintedNumber
  <2> QED BY <2>3 DEF PrintedSo
<1>7. D[1] \in Digits
  <2>1. 1 \in 1..Len(D)
    BY <1>4
  <2> QED BY <1>4, <2>1, ElementOfSeq
<1>8. V[1] \notin Blanks /\ (V[1] \in {Minus, Plus} <=> f = 2) /\ (V[1] = Minus <=> f = 2)
  <2>1. CASE f = 1
    <3>1. V[1] \in Digits
      BY <1>6, <1>7, <2>1
    <3>2. PICK b : b = V[1]
      OBVIOUS
    <3>3. b \in Digits
      BY ONLY <3>1, <3>2
    <3>4. b \notin Blanks /\ b # Minus /\ b # Plus
      BY ONLY <3>3 DEF Blanks, Minus, Plus, Digits
    <3>5. b \notin {Minus, Plus} /\ f # 2
      BY <2>1, <3>4
    <3> QED BY ONLY <3>2, <3>4, <3>5
  <2>2. CASE f = 2
    BY <1>6, <2>2 DEF Blanks, Minus, Plus
  <2> QED BY <1>2, <2>1, <2>2
<1>10. Len(V) >= 1 /\ V # << >> /\ Head(V) = V[1]
  <2>1. Len(V) >= 1
    BY <1>2, <1>4, <1>6, LenProperties DEF StandsAt
  <2>2. V # << >>
    BY <2>1, EmptySeq
  <2> QED BY <1>6, <2>1, <2>2
<1>11. SkipBlanks(u) = V
  BY <1>u, <1>6, <1>8, <1>10, SkipOne
<1>12. EndOf(V, f, Digits) = f + Len(D) /\ Number(V, f, f + Len(D) - 1) = n
  <2>1. V \in Seq(Byte) /\ StandsAt(D, V, f)
    BY <1>6
  <2>2. n \in Nat /\ f \in {1, 2}
    BY <1>2
  <2>3. Spells(D, n)
    BY <1>4
  <2> QED BY ONLY <2>1, <2>2, <2>3, DigitsRead
<1> DEFINE from == IF V # << >> /\ Head(V) \in {Minus, Plus} THEN 2 ELSE 1
           end  == EndOf(V, from, Digits)
<1>13. from = f
  BY <1>2, <1>8, <1>10
<1>14. end = f + Len(D) /\ Number(V, from, end - 1) = n /\ end # from
  <2>1. PICK a, b : a = from /\ b = end
    OBVIOUS
  <2>2. a = f /\ b = f + Len(D) /\ b # a
    <3>1. b = EndOf(V, a, Digits)
      BY <2>1
    <3>2. a = f /\ b = f + Len(D)
      BY <1>12, <1>13, <2>1, <3>1
    <3> QED BY <1>2, <1>4, <3>2
  <2>3. Number(V, f, f + Len(D) - 1) = n
    BY ONLY <1>12
  <2>4. Number(V, a, b - 1) = n
    <3>1. a = f /\ b - 1 = f + Len(D) - 1
      BY <1>2, <1>4, <2>2
    <3> QED BY ONLY <2>3, <3>1
  <2> HIDE DEF from, end
  <2> QED BY <2>1, <2>2, <2>4
<1>15. c.rest = u /\ c.failed = FALSE
  BY <1>0
<1>16. extern_getint(c) =
         IF end = from THEN {Read(0, SubSeq(V, end, Len(V)), TRUE)}
         ELSE IF Number(V, from, end - 1) \notin Word
           THEN {Read(Modulus - 1, SubSeq(V, end, Len(V)), TRUE)}
         ELSE {Read(IF Head(V) = Minus THEN (-Number(V, from, end - 1)) % Modulus
                    ELSE Number(V, from, end - 1), SubSeq(V, end, Len(V)), FALSE)}
  <2>1. ~(c.failed \/ V = << >>)
    BY <1>10, <1>15
  <2> QED BY <1>11, <1>15, <2>1 DEF extern_getint
<1> HIDE DEF from, end
<1>17. extern_getint(c) = {Read(IF Head(V) = Minus THEN (-n) % Modulus ELSE n, SubSeq(V, end, Len(V)), FALSE)}
  BY <1>2, <1>14, <1>16
<1>18. (IF Head(V) = Minus THEN (-n) % Modulus ELSE n) = w
  BY <1>2, <1>8, <1>10
<1> QED BY <1>0, <1>6, <1>14, <1>17, <1>18

(***************************************************************************)
(* '~' reads what ',' has printed, also behind the blank that a number has *)
(* left, unless it is a blank itself.                                      *)
(***************************************************************************)
LEMMA CharReadsBack ==
  ASSUME NEW b \in Byte, b \notin Blanks, NEW t \in Seq(Byte),
         NEW u, Follows(u, << b >> \o t)
  PROVE  extern_getchar([rest |-> u, failed |-> FALSE]) = {Read(Extended(b), t, FALSE)}
<1> PICK V, c : V = << b >> \o t /\ c = [rest |-> u, failed |-> FALSE]
  OBVIOUS
<1>0. V = << b >> \o t /\ c = [rest |-> u, failed |-> FALSE]
  OBVIOUS
<1>u. u \in {V, << 32 >> \o V}
  BY <1>0 DEF Follows
<1>2. b \in Byte /\ b \notin Blanks
  OBVIOUS
<1>3. V = << b >> \o t
  BY <1>0
<1>4. V \in Seq(Byte) /\ Len(V) >= 1 /\ V[1] = b /\ V # << >> /\ Head(V) = b /\ Tail(V) = t
  <2>1. V \in Seq(Byte) /\ Len(V) = Len(t) + 1 /\ V[1] = b /\ Len(t) \in Nat
    BY <1>2, <1>3
  <2>2. V # << >> /\ Len(V) >= 1
    BY <2>1
  <2>3. Head(V) = b
    BY <2>1, <2>2
  <2>4. Tail(V) = t
    <3>1. Tail(V) \in Seq(Byte) /\ Len(Tail(V)) = Len(t)
      BY <2>1, <2>2
    <3>2. ASSUME NEW j \in 1..Len(t) PROVE Tail(V)[j] = t[j]
      <4>1. Tail(V)[j] = V[j + 1] /\ V[j + 1] = t[j]
        BY <1>2, <1>3, <2>1, <2>2, <3>1
      <4> QED BY <4>1
    <3> QED BY <3>1, <3>2, SeqEqual
  <2> QED BY <2>1, <2>2, <2>3, <2>4
<1>5. SkipBlanks(u) = V
  BY <1>u, <1>2, <1>4, SkipOne
<1>6. c.rest = u /\ c.failed = FALSE
  BY <1>0
<1>7. extern_getchar(c) = {Read(Extended(Head(V)), Tail(V), FALSE)}
  BY <1>4, <1>5, <1>6 DEF extern_getchar
<1> QED BY <1>0, <1>4, <1>7
-----------------------------------------------------------------------------
(* What the prints leave for the reads. *)

Prints == [by : {".", ","}, word : Word]

\* What a print p adds to the text.
Encoded(p) == IF p.by = "." THEN extern_printint(p.word) ELSE extern_printchar(p.word)

\* The two kinds of prints.
LEMMA PrintsInt ==
  ASSUME NEW w \in Word, NEW p, p = [by |-> ".", word |-> w]
  PROVE  p \in Prints /\ Encoded(p) = extern_printint(w)
<1>1. p.by = "." /\ p.word = w
  OBVIOUS
<1>2. p \in Prints
  BY DEF Prints
<1> QED BY <1>1, <1>2 DEF Encoded

\* The same of a character.
LEMMA PrintsChar ==
  ASSUME NEW w \in Word, NEW p, p = [by |-> ",", word |-> w]
  PROVE  p \in Prints /\ Encoded(p) = extern_printchar(w)
<1>1. p.by = "," /\ p.word = w
  OBVIOUS
<1>2. p \in Prints
  BY DEF Prints
<1>3. p.by # "."
  BY <1>1
<1> QED BY <1>1, <1>2, <1>3 DEF Encoded

\* What a print adds is text.
LEMMA EncodedType ==
  ASSUME NEW p \in Prints
  PROVE  p.word \in Word /\ Encoded(p) \in Seq(Byte)
<1>1. PICK w : w = p.word
  OBVIOUS
<1>2. w \in Word
  BY <1>1 DEF Prints
<1>3. extern_printint(w) \in Seq(Byte)
  <2>1. PICK n : n = IF Signed(w) < 0 THEN -Signed(w) ELSE w
    OBVIOUS
  <2>2. n \in Nat
    BY <1>2, <2>1, SignedWord
  <2>3. PICK D : D = Decimal(n)
    OBVIOUS
  <2>4. D \in Seq(Digits)
    BY <2>2, <2>3, DecimalSpells DEF Spells
  <2>5. Digits \subseteq Byte /\ Minus \in Byte /\ 32 \in Byte
    BY DEF Digits, Byte, Minus
  <2>6. D \in Seq(Byte)
    BY <2>4, <2>5, SeqMonotonic
  <2>7. << Minus >> \in Seq(Byte) /\ << 32 >> \in Seq(Byte)
    BY <2>5
  <2>8. (<< Minus >> \o D) \o << 32 >> \in Seq(Byte) /\ D \o << 32 >> \in Seq(Byte)
    BY ONLY <2>6, <2>7
  <2> QED BY <2>1, <2>3, <2>8 DEF extern_printint
<1>4. extern_printchar(w) \in Seq(Byte)
  <2>1. w \in Nat
    BY <1>2, SignBitAssumption DEF Word, Modulus
  <2>2. w % 256 \in 0..255
    BY <2>1, Z3
  <2>3. << w % 256 >> \in Seq(Byte)
    BY <2>2 DEF Byte
  <2> QED BY <2>3 DEF extern_printchar
<1> QED BY <1>1, <1>2, <1>3, <1>4 DEF Encoded

(***************************************************************************)
(* tail[l] is the part of the text s that the prints behind the l-th of p  *)
(* have added.                                                             *)
(***************************************************************************)
Tails(tail, p, s) ==
  /\ tail \in [0..Len(p) -> Seq(Byte)]
  /\ tail[0] = s /\ tail[Len(p)] = << >>
  /\ \A l \in 1..Len(p) : tail[l-1] = Encoded(p[l]) \o tail[l]

\* Texts are put together in any order.
LEMMA ConcatBytes ==
  ASSUME NEW a \in Seq(Byte), NEW b \in Seq(Byte), NEW c \in Seq(Byte)
  PROVE  (a \o b) \o c = a \o (b \o c)
BY ConcatAssociative

\* One more print.
LEMMA TailsMore ==
  ASSUME NEW p \in Seq(Prints), NEW s, NEW tail, Tails(tail, p, s),
         NEW x \in Prints
  PROVE  \E more : Tails(more, Append(p, x), s \o Encoded(x))
<1>1. PICK L, e, q : L = Len(p) /\ e = Encoded(x) /\ q = Append(p, x)
  OBVIOUS
<1>2. L \in Nat /\ e \in Seq(Byte)
  BY <1>1, EncodedType
<1>3. q \in Seq(Prints) /\ Len(q) = L + 1 /\ q[L + 1] = x /\ \A l \in 1..L : q[l] = p[l]
  BY <1>1
<1>4. /\ tail \in [0..L -> Seq(Byte)] /\ tail[0] = s /\ tail[L] = << >>
      /\ \A l \in 1..L : tail[l-1] = Encoded(p[l]) \o tail[l]
  BY <1>1 DEF Tails
<1> DEFINE more == [l \in 0..L+1 |-> IF l = L + 1 THEN << >> ELSE tail[l] \o e]
<1>5. /\ more \in [0..L+1 -> Seq(Byte)]
      /\ more[L + 1] = << >> /\ \A l \in 0..L : more[l] = tail[l] \o e
  <2>1. \A l \in 0..L : tail[l] \o e \in Seq(Byte)
    BY <1>2, <1>4
  <2>2. ASSUME NEW l \in 0..L+1, l # L + 1 PROVE l \in 0..L
    BY <1>2, <2>2
  <2>3. \A l \in 0..L : l \in 0..L+1 /\ l # L + 1
    BY <1>2
  <2>4. << >> \in Seq(Byte) /\ L + 1 \in 0..L+1
    BY <1>2
  <2> QED BY <2>1, <2>2, <2>3, <2>4
<1> HIDE DEF more
<1>6. ASSUME NEW l \in 1..L+1 PROVE more[l-1] = Encoded(q[l]) \o more[l]
  <2>1. CASE l = L + 1
    <3>1. l - 1 = L /\ L \in 0..L
      BY <1>2, <2>1
    <3>2. more[l-1] = << >> \o e /\ Encoded(q[l]) = e /\ more[l] = << >>
      BY <1>1, <1>3, <1>4, <1>5, <2>1, <3>1
    <3>3. << >> \o e = e /\ e \o << >> = e
      BY <1>2
    <3> QED BY <3>2, <3>3
  <2>2. CASE l \in 1..L
    <3>1. l \in 0..L /\ l - 1 \in 0..L
      BY <1>2, <2>2
    <3>2. more[l-1] = tail[l-1] \o e /\ more[l] = tail[l] \o e /\ q[l] = p[l]
      BY <1>3, <1>5, <2>2, <3>1
    <3>3. PICK a, b : a = Encoded(p[l]) /\ b = tail[l]
      OBVIOUS
    <3>4. tail[l-1] = a \o b
      BY <1>4, <2>2, <3>3
    <3>5. p[l] \in Prints
      BY <1>1, <2>2, ElementOfSeq
    <3>6. a \in Seq(Byte)
      BY <3>3, <3>5, EncodedType
    <3>7. b \in Seq(Byte)
      BY <1>4, <3>1, <3>3
    <3>8. e \in Seq(Byte)
      BY <1>2
    <3>9. (a \o b) \o e = a \o (b \o e)
      BY ONLY <3>6, <3>7, <3>8, ConcatBytes
    <3> QED BY <3>2, <3>3, <3>4, <3>9
  <2>3. l = L + 1 \/ l \in 1..L
    BY <1>2
  <2> QED BY ONLY <2>1, <2>2, <2>3
<1>7. more[0] = s \o e
  <2>1. 0 \in 0..L
    BY <1>2
  <2>2. more[0] = tail[0] \o e
    BY <1>5, <2>1
  <2> QED BY <1>4, <2>2
<1>8. Tails(more, q, s \o e)
  BY <1>3, <1>5, <1>6, <1>7 DEF Tails
<1> QED BY <1>1, <1>8
\* No blank is printed with ','.
NoBlanks(p) == \A i \in 1..Len(p) : p[i].by = "," => p[i].word % 256 \notin Blanks

\* Where the input stands once k prints have been read: a number leaves its blank.
StandsBehind(u, p, s, k) ==
  \E tail : Tails(tail, p, s) /\ Follows(u, tail[k])

\* A single value, and what it leaves of the input.
Gives(results, w, u) == results = {Read(w, u, FALSE)}

(***************************************************************************)
(* The next read gives the word that was printed, and leaves the input     *)
(* behind it.                                                              *)
(***************************************************************************)
LEMMA NextReadsBack ==
  ASSUME NEW p \in Seq(Prints), NoBlanks(p), NEW s,
         NEW k \in Nat, k < Len(p),
         NEW u, StandsBehind(u, p, s, k),
         NEW c, c = [rest |-> u, failed |-> FALSE]
  PROVE  \E v : /\ StandsBehind(v, p, s, k + 1)
                /\ p[k + 1].by = "." => Gives(extern_getint(c), Kept(p[k + 1]), v)
                /\ p[k + 1].by = "," => Gives(extern_getchar(c), Kept(p[k + 1]), v)
<1>1. PICK tail : Tails(tail, p, s) /\ Follows(u, tail[k])
  BY DEF StandsBehind
<1>2. PICK L, x, w, V, t : /\ L = Len(p) /\ x = p[k + 1] /\ w = x.word
                           /\ V = tail[k] /\ t = tail[k + 1]
  OBVIOUS
<1>3. L \in Nat /\ k + 1 \in 1..L /\ k + 1 \in 0..L /\ (k + 1) - 1 = k
  BY <1>2
<1>4. V = Encoded(x) \o t /\ t \in Seq(Byte)
  BY <1>1, <1>2, <1>3 DEF Tails
<1>5. x \in Prints /\ w \in Word
  <2>1. x \in Prints
    BY <1>2, <1>3, ElementOfSeq
  <2> QED BY <1>2, <2>1, EncodedType
<1>6. Follows(u, V)
  BY <1>1, <1>2
<1>7. ASSUME NEW v \in {t, << 32 >> \o t} PROVE StandsBehind(v, p, s, k + 1)
  BY <1>1, <1>2, <1>7 DEF StandsBehind, Follows
<1>8. CASE x.by = "."
  <2>1. V = extern_printint(w) \o t /\ Kept(x) = w
    BY <1>2, <1>4, <1>8 DEF Encoded, Kept
  <2>2. extern_getint(c) = {Read(w, << 32 >> \o t, FALSE)}
    <3>1. c = [rest |-> u, failed |-> FALSE]
      OBVIOUS
    <3>2. Follows(u, extern_printint(w) \o t)
      BY <1>6, <2>1
    <3>3. t \in Seq(Byte)
      BY <1>4
    <3>4. w \in Word
      BY <1>5
    <3>5. extern_getint([rest |-> u, failed |-> FALSE]) = {Read(w, << 32 >> \o t, FALSE)}
      BY ONLY <3>2, <3>3, <3>4, IntReadsBack
    <3> QED BY <3>1, <3>5
  <2>3. Gives(extern_getint(c), Kept(x), << 32 >> \o t)
    BY <2>1, <2>2 DEF Gives
  <2>4. x.by # ","
    BY <1>8
  <2> QED BY <1>2, <1>7, <2>3, <2>4
<1>9. CASE x.by = ","
  <2>1. x.by # "."
    BY <1>9
  <2>2. PICK b : b = w % 256
    OBVIOUS
  <2>3. V = << b >> \o t /\ Kept(x) = Extended(b)
    BY <1>2, <1>4, <2>1, <2>2 DEF Encoded, Kept, extern_printchar
  <2>4. extern_getchar(c) = {Read(Extended(b), t, FALSE)}
    <3>1. c = [rest |-> u, failed |-> FALSE]
      OBVIOUS
    <3>2. b \notin Blanks
      BY <1>2, <1>3, <1>9, <2>2 DEF NoBlanks
    <3>3. b \in Byte
      <4>1. w \in Nat
        BY <1>5, SignBitAssumption DEF Word, Modulus
      <4>2. w % 256 \in 0..255
        BY <4>1, Z3
      <4> QED BY <2>2, <4>2 DEF Byte
    <3>4. Follows(u, << b >> \o t)
      BY <1>6, <2>3
    <3>5. t \in Seq(Byte)
      BY <1>4
    <3>6. extern_getchar([rest |-> u, failed |-> FALSE]) = {Read(Extended(b), t, FALSE)}
      BY ONLY <3>2, <3>3, <3>4, <3>5, CharReadsBack
    <3> QED BY <3>1, <3>6
  <2>5. Gives(extern_getchar(c), Kept(x), t)
    BY <2>3, <2>4 DEF Gives
  <2> QED BY <1>2, <1>7, <2>1, <2>5
<1>10. CASE x.by # "." /\ x.by # ","
  BY <1>2, <1>7, <1>10
<1> QED BY <1>8, <1>9, <1>10

-----------------------------------------------------------------------------
(* The two programs. *)

(***************************************************************************)
(* While the first program prints, nothing is read, and the tails of its   *)
(* text exist; once the second one reads, it stands behind what it has     *)
(* read, and that is what was printed.                                     *)
(***************************************************************************)
Printing == printed \in Seq(Prints) /\ \E tail : Tails(tail, printed, text)

NotReading == got = << >> /\ cin.failed

Reading ==
  /\ got \in Seq(Word) /\ Len(got) <= Len(printed)
  /\ \A i \in 1..Len(got) : ReadsBackAt(i)
  /\ \E u : /\ cin = [rest |-> u, failed |-> FALSE]
            /\ StandsBehind(u, printed, text, Len(got))

EchoInv ==
  /\ Printing
  /\ NotReading \/ (~Writing /\ (NoBlanks(printed) => Reading))

\* The invariant holds at first.
LEMMA EchoInit == Init => EchoInv
<1> SUFFICES ASSUME Init PROVE EchoInv
  OBVIOUS
<1>1. printed = << >> /\ text = << >> /\ NotReading
  BY DEF Init, NotReading
<1>2. PICK e : e = << >>
  OBVIOUS
<1>3. e \in Seq(Byte) /\ e \in Seq(Prints) /\ Len(e) = 0
  BY <1>2
<1>4. PICK tail : tail = [l \in 0..0 |-> e]
  OBVIOUS
<1>5. Tails(tail, e, e)
  <2>1. tail \in [0..0 -> Seq(Byte)] /\ tail[0] = e /\ 1..0 = {}
    BY <1>3, <1>4
  <2> QED BY <1>2, <1>3, <2>1 DEF Tails
<1> QED BY <1>1, <1>2, <1>3, <1>5 DEF EchoInv, Printing

\* A print of x.
LEMMA EchoPrint ==
  ASSUME EchoInv, Writing, NEW x \in Prints, printed' = Append(printed, x),
         text' = text \o Encoded(x), UNCHANGED <<cin, got>>
  PROVE  EchoInv'
<1>1. NotReading'
  BY DEF EchoInv, NotReading
<1>2. PICK p, q, s, r : p = printed /\ q = printed' /\ s = text /\ r = text'
  OBVIOUS
<1>3. p \in Seq(Prints) /\ q = Append(p, x) /\ r = s \o Encoded(x)
  BY <1>2 DEF EchoInv, Printing
<1>4. PICK tail : Tails(tail, p, s)
  BY <1>2 DEF EchoInv, Printing
<1>5. q \in Seq(Prints) /\ \E more : Tails(more, q, r)
  <2>1. \E more : Tails(more, Append(p, x), s \o Encoded(x))
    <3>1. x \in Prints
      OBVIOUS
    <3> QED BY ONLY <1>3, <1>4, <3>1, TailsMore
  <2>2. Append(p, x) \in Seq(Prints)
    BY <1>3
  <2> QED BY <1>3, <2>1, <2>2
<1>6. Printing'
  BY <1>2, <1>5 DEF Printing
<1> QED BY <1>1, <1>6 DEF EchoInv

\* The second program starts.
LEMMA EchoPipe == EchoInv /\ Pipe => EchoInv'
<1> SUFFICES ASSUME EchoInv, Pipe PROVE EchoInv'
  OBVIOUS
<1>1. ~Writing /\ got = << >> /\ cin.failed /\ cin' = [rest |-> text, failed |-> FALSE]
      /\ printed' = printed /\ text' = text /\ got' = got
  BY DEF Pipe
<1>2. Printing' /\ ~Writing'
  BY <1>1 DEF EchoInv, Printing, Writing
<1>3. Reading'
  <2>1. Len(got') = 0 /\ got' \in Seq(Word) /\ Len(printed') \in Nat
    BY <1>1, <1>2 DEF Printing
  <2>2. PICK tail : Tails(tail, printed', text')
    BY <1>2 DEF Printing
  <2>3. StandsBehind(text', printed', text', 0)
    BY <2>2 DEF StandsBehind, Tails, Follows
  <2>4. Len(got') <= Len(printed') /\ \A i \in 1..Len(got') : ReadsBackAt(i)'
    BY <2>1
  <2>5. cin' = [rest |-> text', failed |-> FALSE]
    BY <1>1
  <2>6. StandsBehind(text', printed', text', Len(got'))
    BY <2>1, <2>3
  <2> QED BY <2>1, <2>4, <2>5, <2>6 DEF Reading
<1> QED BY <1>2, <1>3 DEF EchoInv

\* What is read back is a word.
LEMMA KeptType ==
  ASSUME NEW p \in Prints
  PROVE  Kept(p) \in Word
<1>1. PICK w : w = p.word
  OBVIOUS
<1>2. w \in Word
  BY <1>1, EncodedType
<1>3. Extended(w % 256) \in Word
  <2>1. SignBit \in Nat /\ Modulus = 2 * SignBit /\ w \in 0..Modulus-1
    BY <1>2, SignBitAssumption DEF Modulus, Word
  <2>2. PICK b : b = w % 256
    OBVIOUS
  <2>3. b \in 0..255 /\ b \in 0..Modulus-1
    BY <2>1, <2>2, Z3
  <2> QED BY <2>1, <2>2, <2>3 DEF Extended, Word
<1> QED BY <1>1, <1>2, <1>3 DEF Kept

\* A read of one of the results, which NextReadsBack tells.
LEMMA EchoExtract ==
  ASSUME EchoInv, NEW by, NEW results, Extract(by, results),
         NoBlanks(printed) => Reading /\
           \E v : /\ Gives(results, Kept(printed[Len(got) + 1]), v)
                  /\ StandsBehind(v, printed, text, Len(got) + 1)
  PROVE  EchoInv'
<1>1. /\ ~cin.failed /\ Len(got) < Len(printed) /\ printed' = printed /\ text' = text
      /\ \E r \in results : cin' = r.cin /\ got' = Append(got, r.val)
  BY DEF Extract
<1>2. Printing' /\ ~Writing'
  BY <1>1 DEF EchoInv, NotReading, Printing, Writing
<1>3. ASSUME NoBlanks(printed) PROVE Reading'
  <2>1. PICK v : /\ Gives(results, Kept(printed[Len(got) + 1]), v)
                 /\ StandsBehind(v, printed, text, Len(got) + 1)
    BY <1>3
  <2>2. PICK k, g, h, p : k = Len(got) /\ g = got /\ h = got' /\ p = printed
    OBVIOUS
  <2>3. g \in Seq(Word) /\ k \in Nat /\ k = Len(g) /\ k < Len(p) /\ p \in Seq(Prints)
        /\ \A i \in 1..k : g[i] = Kept(p[i])
    <3>1. Reading
      BY <1>3
    <3>2. got \in Seq(Word) /\ printed \in Seq(Prints) /\ \A i \in 1..Len(got) : got[i] = Kept(printed[i])
      BY <3>1 DEF Reading, ReadsBackAt, EchoInv, Printing
    <3> QED BY <1>1, <2>2, <3>2
  <2>4. PICK w : w = Kept(p[k + 1])
    OBVIOUS
  <2>5. cin' = [rest |-> v, failed |-> FALSE] /\ h = Append(g, w)
    <3>1. results = {Read(w, v, FALSE)}
      BY <2>1, <2>2, <2>4 DEF Gives
    <3>2. Read(w, v, FALSE).cin = [rest |-> v, failed |-> FALSE] /\ Read(w, v, FALSE).val = w
      BY DEF Read
    <3> QED BY <1>1, <2>2, <3>1, <3>2
  <2>6. w \in Word
    <3>1. p[k + 1] \in Prints
      BY <2>3, ElementOfSeq
    <3> QED BY <2>4, <3>1, KeptType
  <2>7. h \in Seq(Word) /\ Len(h) = k + 1 /\ h[k + 1] = w /\ \A i \in 1..k : h[i] = g[i]
    BY <2>3, <2>5, <2>6
  <2>8. ASSUME NEW i \in 1..k+1 PROVE h[i] = Kept(p[i])
    <3>1. CASE i = k + 1
      BY <2>4, <2>7, <3>1
    <3>2. CASE i \in 1..k
      BY <2>3, <2>7, <3>2
    <3>3. i = k + 1 \/ i \in 1..k
      BY <2>3
    <3> QED BY ONLY <3>1, <3>2, <3>3
  <2>9. k + 1 <= Len(p)
    BY <2>3
  <2>10. StandsBehind(v, printed', text', k + 1)
    BY <1>1, <2>1, <2>2
  <2>11. got' = h /\ printed' = p
    BY <1>1, <2>2
  <2>12. \A i \in 1..Len(got') : ReadsBackAt(i)'
    BY <2>7, <2>8, <2>11 DEF ReadsBackAt
  <2> QED BY <2>5, <2>7, <2>9, <2>10, <2>11, <2>12 DEF Reading
<1>4. NoBlanks(printed)' => Reading'
  BY <1>1, <1>3
<1> QED BY <1>2, <1>4 DEF EchoInv
\* The next read, from where the input stands.
LEMMA EchoNext ==
  ASSUME EchoInv, ~NotReading, NoBlanks(printed), Len(got) < Len(printed)
  PROVE  \E v : /\ StandsBehind(v, printed, text, Len(got) + 1)
                /\ printed[Len(got) + 1].by = "." =>
                     Gives(extern_getint(cin), Kept(printed[Len(got) + 1]), v)
                /\ printed[Len(got) + 1].by = "," =>
                     Gives(extern_getchar(cin), Kept(printed[Len(got) + 1]), v)
<1>1. Reading
  BY DEF EchoInv
<1>2. PICK u : cin = [rest |-> u, failed |-> FALSE] /\ StandsBehind(u, printed, text, Len(got))
  BY <1>1 DEF Reading
<1>3. PICK k, p, s, c : k = Len(got) /\ p = printed /\ s = text /\ c = cin
  OBVIOUS
<1>4. p \in Seq(Prints) /\ k \in Nat
  BY <1>1, <1>3 DEF EchoInv, Printing, Reading
<1>5. NoBlanks(p) /\ k < Len(p) /\ StandsBehind(u, p, s, k)
  BY <1>2, <1>3
<1>6. c = [rest |-> u, failed |-> FALSE]
  BY <1>2, <1>3
<1>7. \E v : /\ StandsBehind(v, p, s, k + 1)
             /\ p[k + 1].by = "." => Gives(extern_getint(c), Kept(p[k + 1]), v)
             /\ p[k + 1].by = "," => Gives(extern_getchar(c), Kept(p[k + 1]), v)
  BY ONLY <1>4, <1>5, <1>6, NextReadsBack
<1> QED BY <1>3, <1>7

\* Every step keeps the invariant.
LEMMA EchoStep == EchoInv /\ [Next]_vars => EchoInv'
<1> SUFFICES ASSUME EchoInv, [Next]_vars PROVE EchoInv'
  OBVIOUS
<1>1. ASSUME NEW w \in Numbers, PrintInt(w) PROVE EchoInv'
  <2>1. PICK x : x = [by |-> ".", word |-> w]
    OBVIOUS
  <2>2. w \in Word
    BY PrintsAssumption
  <2>3. x \in Prints /\ Encoded(x) = extern_printint(w)
    BY <2>1, <2>2, PrintsInt
  <2> QED BY <1>1, <2>1, <2>3, EchoPrint DEF PrintInt
<1>2. ASSUME NEW w \in Characters, PrintChar(w) PROVE EchoInv'
  <2>1. PICK x : x = [by |-> ",", word |-> w]
    OBVIOUS
  <2>2. w \in Word
    BY PrintsAssumption
  <2>3. x \in Prints /\ Encoded(x) = extern_printchar(w)
    BY <2>1, <2>2, PrintsChar
  <2> QED BY <1>2, <2>1, <2>3, EchoPrint DEF PrintChar
<1>3. CASE Pipe
  BY <1>3, EchoPipe
<1>4. CASE ReadInt
  <2>1. Extract(".", extern_getint(cin)) /\ ~NotReading /\ Len(got) < Len(printed)
        /\ printed[Len(got) + 1].by = "."
    BY <1>4 DEF ReadInt, Extract, NotReading
  <2>2. NoBlanks(printed) => Reading
    BY <2>1 DEF EchoInv
  <2>3. NoBlanks(printed) =>
          \E v : /\ Gives(extern_getint(cin), Kept(printed[Len(got) + 1]), v)
                 /\ StandsBehind(v, printed, text, Len(got) + 1)
    BY <2>1, EchoNext
  <2> QED BY <2>1, <2>2, <2>3, EchoExtract
<1>5. CASE ReadChar
  <2>1. Extract(",", extern_getchar(cin)) /\ ~NotReading /\ Len(got) < Len(printed)
        /\ printed[Len(got) + 1].by = ","
    BY <1>5 DEF ReadChar, Extract, NotReading
  <2>2. NoBlanks(printed) => Reading
    BY <2>1 DEF EchoInv
  <2>3. NoBlanks(printed) =>
          \E v : /\ Gives(extern_getchar(cin), Kept(printed[Len(got) + 1]), v)
                 /\ StandsBehind(v, printed, text, Len(got) + 1)
    BY <2>1, EchoNext
  <2> QED BY <2>1, <2>2, <2>3, EchoExtract
<1>6. CASE UNCHANGED vars
  <2>1. printed' = printed /\ text' = text /\ cin' = cin /\ got' = got
    BY <1>6 DEF vars
  <2>2. Printing' <=> Printing
    BY <2>1 DEF Printing
  <2>3. Reading' <=> Reading
    BY <2>1 DEF Reading, ReadsBackAt
  <2> QED BY <2>1, <2>2, <2>3 DEF EchoInv, NotReading, Writing
<1>7. CASE Done
  BY <1>6, <1>7 DEF Done
<1> QED BY <1>1, <1>2, <1>3, <1>4, <1>5, <1>6, <1>7 DEF Next

(***************************************************************************)
(* The second program always stands behind what it has read, as long as    *)
(* the first one prints no blank with ','.                                 *)
(***************************************************************************)
THEOREM EchoInvariance == Spec => []EchoInv
<1> QED BY EchoInit, EchoStep, PTL DEF Spec

(***************************************************************************)
(* What '.' and ',' print, '&' and '~' read back, for words of every width *)
(* and for any number of prints in any order.                              *)
(***************************************************************************)
THEOREM PrintsReadBack == Spec => []ReadsBack
<1>1. EchoInv => ReadsBack
  <2> SUFFICES ASSUME EchoInv, NoBlanks(printed), NEW i \in 1..Len(got) PROVE ReadsBackAt(i)
    BY DEF ReadsBack, NoBlanks
  <2>1. CASE NotReading
    BY <2>1 DEF NotReading
  <2>2. CASE ~NotReading
    BY <2>2 DEF EchoInv, Reading
  <2> QED BY <2>1, <2>2
<1> QED BY <1>1, EchoInvariance, PTL
=============================================================================
