-------------------------- MODULE ComparisonsProofs --------------------------
(***************************************************************************)
(* For texts of any length, whatever the limits of the comparison are: what *)
(* is called a change turns the old text into the new one, and nothing     *)
(* else differs.  For any endpoints and any rules of single keywords: what *)
(* is left to nobody to handle loses no request, response or value.  And   *)
(* for any versions of a document: what readers are answered was derived   *)
(* from the sources with the current parser.                               *)
(***************************************************************************)
EXTENDS Comparisons, WellFoundedInduction, FiniteSetTheorems, TLAPS

-----------------------------------------------------------------------------
(* Induction and recursion over a measure                                  *)

LEMMA LeastNumber ==
    ASSUME NEW T, T \subseteq Nat, T # {}
    PROVE  \E n \in T : \A m \in T : n <= m
  <1> DEFINE R == {ss \in Nat \X Nat : ss[1] < ss[2]}
  <1>1. OpToRel(<, Nat) = R
    BY DEF OpToRel
  <1>2. IsWellFoundedOn(R, Nat)
    BY <1>1, NatLessThanWellFounded
  <1> HIDE DEF R
  <1>3. PICK n \in T : \A m \in T : ~(<<m, n>> \in R)
    BY <1>2, WFMin
  <1>4. ASSUME NEW m \in T PROVE n <= m
    <2>1. m \in Nat /\ n \in Nat /\ <<m, n>> \in Nat \X Nat
      OBVIOUS
    <2>2. <<m, n>>[1] = m /\ <<m, n>>[2] = n
      OBVIOUS
    <2>3. ~(m < n)
      BY <1>3, <2>1, <2>2 DEF R
    <2> QED BY <2>1, <2>3
  <1> QED BY <1>4

LEMMA OnMeasure ==
    ASSUME NEW P, NEW m \in [P -> Nat], NEW H,
           \A p \in P : (\A q \in P : m[q] < m[p] => q \in H) => p \in H
    PROVE  P \subseteq H
  <1> SUFFICES ASSUME NEW r \in P \ H PROVE FALSE
    OBVIOUS
  <1> DEFINE T == {m[p] : p \in P \ H}
  <1>1. T \subseteq Nat /\ T # {}
    OBVIOUS
  <1>2. PICK n \in T : \A k \in T : n <= k
    <2> HIDE DEF T
    <2> QED BY <1>1, LeastNumber
  <1>3. PICK p \in P \ H : n = m[p]
    OBVIOUS
  <1>4. ASSUME NEW q \in P, m[q] < m[p] PROVE q \in H
    <2> SUFFICES ASSUME q \notin H PROVE FALSE
      OBVIOUS
    <2>1. m[q] \in T
      OBVIOUS
    <2>2. m[p] <= m[q] /\ m[p] \in Nat /\ m[q] \in Nat
      <3> HIDE DEF T
      <3> QED BY <1>2, <1>3, <2>1
    <2> QED BY <1>4, <2>2
  <1> QED BY <1>3, <1>4

LEMMA OnNat ==
    ASSUME NEW N \in Nat, NEW H, 0 \in H, \A n \in 1 .. N : n - 1 \in H => n \in H
    PROVE  0 .. N \subseteq H
  <1> DEFINE m == [n \in 0 .. N |-> n]
  <1>1. m \in [0 .. N -> Nat]
    OBVIOUS
  <1>3. \A n \in 0 .. N : m[n] = n
    OBVIOUS
  <1>2. \A n \in 0 .. N : (\A q \in 0 .. N : m[q] < m[n] => q \in H) => n \in H
    <2> HIDE DEF m
    <2> SUFFICES ASSUME NEW n \in 0 .. N, \A q \in 0 .. N : m[q] < m[n] => q \in H PROVE n \in H
      OBVIOUS
    <2>1. CASE n = 0
      BY <2>1
    <2>2. CASE n # 0
      <3>1. n \in 1 .. N /\ n - 1 \in 0 .. N /\ m[n - 1] < m[n]
        BY <1>3, <2>2
      <3> QED BY <3>1
    <2> QED BY <2>1, <2>2
  <1> HIDE DEF m
  <1> DEFINE S == 0 .. N
  <1>4. m \in [S -> Nat] /\ \A n \in S : (\A q \in S : m[q] < m[n] => q \in H) => n \in H
    BY <1>1, <1>2
  <1> HIDE DEF S
  <1>5. S \subseteq H
    BY <1>4, OnMeasure
  <1> QED BY <1>5 DEF S

\* What a recursive definition makes: its first values, and of every other element what the
\* step makes of an element before it.
Unfolds(P, Stop, prev, first, step, f) ==
    \A p \in P : f[p] = IF p \in Stop THEN first[p] ELSE step[p][f[prev[p]]]

LEMMA Recursion ==
    ASSUME NEW P, NEW m \in [P -> Nat], NEW Stop, NEW prev \in [P -> P],
           \A p \in P \ Stop : m[prev[p]] < m[p],
           NEW X, NEW first \in [P -> X], NEW step \in [P -> [X -> X]]
    PROVE  \E f \in [P -> X] : Unfolds(P, Stop, prev, first, step, f)
  <1> DEFINE Below(n) == {p \in P : m[p] < n}
             Good(n, g) == g \in [Below(n) -> X] /\ Unfolds(Below(n), Stop, prev, first, step, g)
             T == {n \in Nat : \E g : Good(n, g)}
  <1>1. ASSUME NEW n \in Nat, NEW k \in Nat, NEW g, NEW h, Good(n, g), Good(k, h)
        PROVE  \A p \in P : p \in Below(n) /\ p \in Below(k) => g[p] = h[p]
    <2> DEFINE H == {p \in P : p \in Below(n) /\ p \in Below(k) => g[p] = h[p]}
    <2>1. \A p \in P : (\A q \in P : m[q] < m[p] => q \in H) => p \in H
      <3> SUFFICES ASSUME NEW p \in P, \A q \in P : m[q] < m[p] => q \in H,
                          p \in Below(n), p \in Below(k)
                   PROVE  g[p] = h[p]
        OBVIOUS
      <3>1. CASE p \in Stop
        BY <1>1, <3>1 DEF Unfolds
      <3>2. CASE p \notin Stop
        <4>1. prev[p] \in P /\ m[prev[p]] < m[p]
          BY <3>2
        <4>2. prev[p] \in Below(n) /\ prev[p] \in Below(k)
          BY <4>1
        <4>3. g[prev[p]] = h[prev[p]]
          BY <4>1, <4>2
        <4> QED BY <1>1, <3>2, <4>3 DEF Unfolds
      <3> QED BY <3>1, <3>2
    <2> HIDE DEF H
    <2>2. P \subseteq H
      BY <2>1, OnMeasure
    <2> QED BY <2>2 DEF H
  <1>2. ASSUME NEW n \in Nat PROVE n \in T
    <2>1. 0 \in T
      <3>1. Below(0) = {}
        OBVIOUS
      <3> DEFINE g == [p \in Below(0) |-> first[p]]
      <3>2. Good(0, g)
        BY <3>1 DEF Unfolds
      <3> HIDE DEF g, Good
      <3> QED BY <3>2
    <2>2. ASSUME NEW k \in 1 .. n, k - 1 \in T PROVE k \in T
      <3>1. PICK g : Good(k - 1, g)
        BY <2>2
      <3> DEFINE h == [p \in Below(k) |-> IF p \in Stop THEN first[p] ELSE step[p][g[prev[p]]]]
      <3>2. ASSUME NEW p \in Below(k), p \notin Stop PROVE prev[p] \in Below(k - 1)
        BY <3>2
      <3>3. h \in [Below(k) -> X]
        BY <3>1, <3>2
      <3>4. ASSUME NEW p \in Below(k - 1) PROVE p \in Below(k) /\ h[p] = g[p]
        BY <3>1, <3>4 DEF Unfolds
      <3>5. Unfolds(Below(k), Stop, prev, first, step, h)
        BY <3>2, <3>4 DEF Unfolds
      <3> HIDE DEF h
      <3>6. Good(k, h) /\ k \in Nat
        BY <3>3, <3>5
      <3> HIDE DEF Good
      <3> QED BY <3>6
    <2> HIDE DEF T
    <2>3. 0 .. n \subseteq T
      BY <2>1, <2>2, OnNat
    <2> QED BY <2>3
  <1> DEFINE G(n) == CHOOSE g : Good(n, g)
             f == [p \in P |-> G(m[p] + 1)[p]]
  <1>3. ASSUME NEW n \in Nat PROVE Good(n, G(n))
    <2>1. \E g : Good(n, g)
      BY <1>2
    <2> HIDE DEF Good
    <2> QED BY <2>1
  <1>4. ASSUME NEW p \in P PROVE /\ f[p] \in X
                                 /\ f[p] = IF p \in Stop THEN first[p] ELSE step[p][f[prev[p]]]
    <2>1. m[p] + 1 \in Nat /\ p \in Below(m[p] + 1)
      OBVIOUS
    <2>2. Good(m[p] + 1, G(m[p] + 1))
      BY <1>3, <2>1
    <2>3. f[p] = G(m[p] + 1)[p]
      OBVIOUS
    <2>4. f[p] \in X
      <3> HIDE DEF G
      <3> QED BY <2>1, <2>2, <2>3
    <2>5. CASE p \in Stop
      <3> HIDE DEF G, f
      <3> QED BY <2>1, <2>2, <2>3, <2>4, <2>5 DEF Unfolds
    <2>6. CASE p \notin Stop
      <3>1. prev[p] \in P /\ m[prev[p]] < m[p] /\ m[prev[p]] + 1 \in Nat
        BY <2>6
      <3>2. Good(m[prev[p]] + 1, G(m[prev[p]] + 1)) /\ f[prev[p]] = G(m[prev[p]] + 1)[prev[p]]
        BY <1>3, <3>1
      <3>3. prev[p] \in Below(m[p] + 1) /\ prev[p] \in Below(m[prev[p]] + 1)
        BY <3>1
      <3>4. G(m[p] + 1)[prev[p]] = f[prev[p]]
        <4> HIDE DEF G, f, Good
        <4> QED BY <1>1, <2>1, <2>2, <3>1, <3>2, <3>3
      <3> HIDE DEF G, f
      <3> QED BY <2>1, <2>2, <2>3, <2>4, <2>6, <3>4 DEF Unfolds
    <2> QED BY <2>4, <2>5, <2>6
  <1>5. f \in [P -> X]
    <2>1. f = [p \in P |-> f[p]]
      OBVIOUS
    <2> HIDE DEF f
    <2> QED BY <1>4, <2>1
  <1> HIDE DEF f
  <1> QED BY <1>4, <1>5 DEF Unfolds

-----------------------------------------------------------------------------
(* Stripping common ends                                                   *)

LEMMA LargestNumber ==
    ASSUME NEW N \in Nat, NEW T, T \subseteq 0 .. N, 0 \in T
    PROVE  Max(T) \in T
  <1> DEFINE U == {N - k : k \in T}
  <1>1. U \subseteq Nat /\ U # {}
    <2>1. ASSUME NEW k \in T PROVE N - k \in Nat
      <3>1. k \in 0 .. N
        OBVIOUS
      <3> HIDE DEF U
      <3> QED BY <3>1
    <2>2. N - 0 \in U
      OBVIOUS
    <2> QED BY <2>1, <2>2
  <1>2. PICK n \in U : \A k \in U : n <= k
    <2> HIDE DEF U
    <2> QED BY <1>1, LeastNumber
  <1>3. N - n \in T /\ \A k \in T : N - n >= k
    <2>1. PICK t \in T : n = N - t
      BY <1>2
    <2>2. ASSUME NEW k \in T PROVE t >= k
      <3>1. N - k \in U
        OBVIOUS
      <3>2. n <= N - k
        <4> HIDE DEF U
        <4> QED BY <1>2, <3>1
      <3> QED BY <2>1, <3>2
    <2>3. N - n = t
      BY <2>1
    <2> QED BY <2>2, <2>3
  <1> QED BY <1>3 DEF Max

LEMMA SmallerOfTwo ==
    ASSUME NEW i \in Int, NEW j \in Int
    PROVE  Min({i, j}) \in {i, j} /\ Min({i, j}) <= i /\ Min({i, j}) <= j
  <1>1. \E x \in {i, j} : \A y \in {i, j} : x =< y
    <2>1. CASE i <= j
      <3>1. \A y \in {i, j} : i <= y
        BY <2>1
      <3> QED BY <3>1
    <2>2. CASE ~ (i <= j)
      <3>1. \A y \in {i, j} : j <= y
        BY <2>2
      <3> QED BY <3>1
    <2> QED BY <2>1, <2>2
  <1> DEFINE x == Min({i, j})
  <1>2. x \in {i, j} /\ \A y \in {i, j} : x =< y
    BY <1>1 DEF Min
  <1> HIDE DEF x
  <1> QED BY <1>2 DEF x

\* A range of two texts that is not turned around.
Proper(from, to, r) ==
    /\ r \in Ranges(from, to)
    /\ r = Span(r.fs, r.fe, r.ts, r.te)
    /\ r.fs \in 1 .. Len(from) + 1 /\ r.fe \in 1 .. Len(from) + 1
    /\ r.ts \in 1 .. Len(to) + 1 /\ r.te \in 1 .. Len(to) + 1
    /\ r.fs <= r.fe /\ r.ts <= r.te

LEMMA SpanParts ==
    ASSUME NEW a, NEW b, NEW c, NEW d
    PROVE  /\ Span(a, b, c, d).fs = a /\ Span(a, b, c, d).fe = b
           /\ Span(a, b, c, d).ts = c /\ Span(a, b, c, d).te = d
  BY DEF Span

LEMMA EqualParts ==
    ASSUME NEW from, NEW to, NEW a, NEW b, NEW c, NEW d
    PROVE  Equal(from, to, Span(a, b, c, d)) <=>
             a <= b /\ b - a = d - c /\ \A i \in 0 .. (b - a - 1) : from[a + i] = to[c + i]
  <1> DEFINE r == Span(a, b, c, d)
  <1>1. r.fs = a /\ r.fe = b /\ r.ts = c /\ r.te = d
    BY SpanParts
  <1> HIDE DEF r
  <1>2. Equal(from, to, r) <=>
          a <= b /\ b - a = d - c /\ \A i \in 0 .. (b - a - 1) : from[a + i] = to[c + i]
    BY <1>1 DEF Equal
  <1> QED BY <1>2 DEF r

LEMMA RangeParts ==
    ASSUME NEW from, NEW to, NEW r \in Ranges(from, to)
    PROVE  /\ r.fs \in 1 .. Len(from) + 1 /\ r.fe \in 1 .. Len(from) + 1
           /\ r.ts \in 1 .. Len(to) + 1 /\ r.te \in 1 .. Len(to) + 1
           /\ r.fs <= r.fe /\ r.ts <= r.te
           /\ r = Span(r.fs, r.fe, r.ts, r.te)
           /\ Proper(from, to, r)
  BY DEF Ranges, Span, Proper

LEMMA ProperParts ==
    ASSUME NEW S, NEW from \in Seq(S), NEW to \in Seq(S), NEW r, Proper(from, to, r)
    PROVE  \E a \in Nat, b \in Nat, c \in Nat, d \in Nat :
              /\ r.fs = a /\ r.fe = b /\ r.ts = c /\ r.te = d
              /\ 1 <= a /\ a <= b /\ b <= Len(from) + 1 /\ 1 <= c /\ c <= d /\ d <= Len(to) + 1
  <1>1. Len(from) \in Nat /\ Len(to) \in Nat
    OBVIOUS
  <1> QED BY <1>1 DEF Proper

LEMMA ProperSpan ==
    ASSUME NEW S, NEW from \in Seq(S), NEW to \in Seq(S),
           NEW a \in Int, NEW b \in Int, NEW c \in Int, NEW d \in Int,
           1 <= a, a <= b, b <= Len(from) + 1, 1 <= c, c <= d, d <= Len(to) + 1
    PROVE  Proper(from, to, Span(a, b, c, d))
  <1>1. Len(from) \in Nat /\ Len(to) \in Nat
    OBVIOUS
  <1>2. /\ a \in 1 .. Len(from) + 1 /\ b \in 1 .. Len(from) + 1
        /\ c \in 1 .. Len(to) + 1 /\ d \in 1 .. Len(to) + 1
    BY <1>1
  <1>3. Span(a, b, c, d) \in Ranges(from, to)
    BY <1>2 DEF Span, Ranges
  <1> QED BY <1>2, <1>3, SpanParts DEF Proper

LEMMA StartStripped ==
    ASSUME NEW S, NEW from \in Seq(S), NEW to \in Seq(S), NEW r, Proper(from, to, r)
    PROVE  LET s == StripStart(from, to, r)
           IN /\ Proper(from, to, s)
              /\ s.fe = r.fe /\ s.te = r.te
              /\ Equal(from, to, Span(r.fs, s.fs, r.ts, s.ts))
  <1>1. PICK a \in Nat, b \in Nat, c \in Nat, d \in Nat :
               /\ r.fs = a /\ r.fe = b /\ r.ts = c /\ r.te = d
               /\ 1 <= a /\ a <= b /\ b <= Len(from) + 1 /\ 1 <= c /\ c <= d /\ d <= Len(to) + 1
    BY ProperParts
  <1> DEFINE N == Min({b - a, d - c})
             T == {n \in 0 .. N : \A i \in 0 .. (n - 1) : from[a + i] = to[c + i]}
             n == Max(T)
  <1>2. N \in Nat /\ N <= b - a /\ N <= d - c
    <2>1. PICK x \in Nat, y \in Nat : x = b - a /\ y = d - c
      BY <1>1
    <2>2. N = Min({x, y})
      BY <2>1
    <2>3. x \in Int /\ y \in Int
      OBVIOUS
    <2>4. Min({x, y}) \in {x, y} /\ Min({x, y}) <= x /\ Min({x, y}) <= y
      BY <2>3, SmallerOfTwo, Zenon
    <2> HIDE DEF N
    <2> QED BY <2>1, <2>2, <2>4
  <1>3. n \in T
    <2> HIDE DEF N
    <2>1. T \subseteq 0 .. N /\ 0 \in T
      BY <1>2
    <2> HIDE DEF T
    <2> QED BY <1>2, <2>1, LargestNumber
  <1>4. StripStart(from, to, r) = Span(a + n, b, c + n, d)
    <2> DEFINE N0 == Min({r.fe - r.fs, r.te - r.ts})
               T0 == {k \in 0 .. N0 : \A i \in 0 .. (k - 1) : from[r.fs + i] = to[r.ts + i]}
    <2>1. N0 = N
      BY <1>1
    <2>2. T0 = T
      <3> HIDE DEF N0, N
      <3>1. ASSUME NEW k PROVE k \in T0 <=> k \in T
        BY <1>1, <2>1
      <3> HIDE DEF T0, T
      <3> QED BY <3>1
    <2>3. StripStart(from, to, r) = LET m == Max(T0) IN Span(r.fs + m, r.fe, r.ts + m, r.te)
      BY DEF StripStart
    <2> HIDE DEF T0, T
    <2> QED BY <1>1, <2>2, <2>3
  <1>5. n \in Nat /\ n <= N /\ \A i \in 0 .. (n - 1) : from[a + i] = to[c + i]
    <2> HIDE DEF N, n
    <2> QED BY SMTT(30), <1>1, <1>2, <1>3
  <1> HIDE DEF N, T, n
  <1>6. /\ a + n \in Int /\ c + n \in Int /\ b \in Int /\ d \in Int
        /\ 1 <= a + n /\ a + n <= b /\ 1 <= c + n /\ c + n <= d
    BY <1>1, <1>2, <1>5
  <1>7. Proper(from, to, Span(a + n, b, c + n, d))
    BY <1>1, <1>6, ProperSpan
  <1>8. Equal(from, to, Span(a, a + n, c, c + n))
    <2>1. a <= a + n /\ (a + n) - a = (c + n) - c /\ (a + n) - a - 1 = n - 1
      BY <1>1, <1>5
    <2>2. \A i \in 0 .. ((a + n) - a - 1) : from[a + i] = to[c + i]
      BY <2>1, <1>5
    <2> QED BY <2>1, <2>2, EqualParts
  <1> QED BY <1>1, <1>4, <1>7, <1>8, SpanParts

LEMMA EndStripped ==
    ASSUME NEW S, NEW from \in Seq(S), NEW to \in Seq(S), NEW r, Proper(from, to, r)
    PROVE  LET s == StripEnd(from, to, r)
           IN /\ Proper(from, to, s)
              /\ s.fs = r.fs /\ s.ts = r.ts
              /\ Equal(from, to, Span(s.fe, r.fe, s.te, r.te))
  <1>1. PICK a \in Nat, b \in Nat, c \in Nat, d \in Nat :
               /\ r.fs = a /\ r.fe = b /\ r.ts = c /\ r.te = d
               /\ 1 <= a /\ a <= b /\ b <= Len(from) + 1 /\ 1 <= c /\ c <= d /\ d <= Len(to) + 1
    BY ProperParts
  <1> DEFINE N == Min({b - a, d - c})
             T == {n \in 0 .. N : \A i \in 1 .. n : from[b - i] = to[d - i]}
             n == Max(T)
  <1>2. N \in Nat /\ N <= b - a /\ N <= d - c
    <2>1. PICK x \in Nat, y \in Nat : x = b - a /\ y = d - c
      BY <1>1
    <2>2. N = Min({x, y})
      BY <2>1
    <2>3. x \in Int /\ y \in Int
      OBVIOUS
    <2>4. Min({x, y}) \in {x, y} /\ Min({x, y}) <= x /\ Min({x, y}) <= y
      BY <2>3, SmallerOfTwo, Zenon
    <2> HIDE DEF N
    <2> QED BY <2>1, <2>2, <2>4
  <1>3. n \in T
    <2> HIDE DEF N
    <2>1. T \subseteq 0 .. N /\ 0 \in T
      BY <1>2
    <2> HIDE DEF T
    <2> QED BY <1>2, <2>1, LargestNumber
  <1>4. StripEnd(from, to, r) = Span(a, b - n, c, d - n)
    <2> DEFINE N0 == Min({r.fe - r.fs, r.te - r.ts})
               T0 == {k \in 0 .. N0 : \A i \in 1 .. k : from[r.fe - i] = to[r.te - i]}
    <2>1. N0 = N
      BY <1>1
    <2>2. T0 = T
      <3> HIDE DEF N0, N
      <3>1. ASSUME NEW k PROVE k \in T0 <=> k \in T
        BY <1>1, <2>1
      <3> HIDE DEF T0, T
      <3> QED BY <3>1
    <2>3. StripEnd(from, to, r) = LET m == Max(T0) IN Span(r.fs, r.fe - m, r.ts, r.te - m)
      BY DEF StripEnd
    <2> HIDE DEF T0, T
    <2> QED BY <1>1, <2>2, <2>3
  <1>5. n \in Nat /\ n <= N /\ \A i \in 1 .. n : from[b - i] = to[d - i]
    <2> HIDE DEF N, n
    <2> QED BY SMTT(30), <1>1, <1>2, <1>3
  <1> HIDE DEF N, T, n
  <1>6. /\ b - n \in Int /\ d - n \in Int /\ a \in Int /\ c \in Int
        /\ a <= b - n /\ b - n <= Len(from) + 1
        /\ c <= d - n /\ d - n <= Len(to) + 1
    BY <1>1, <1>2, <1>5
  <1>7. Proper(from, to, Span(a, b - n, c, d - n))
    BY <1>1, <1>6, ProperSpan
  <1>8. Equal(from, to, Span(b - n, b, d - n, d))
    <2>1. b - n <= b /\ b - (b - n) = d - (d - n) /\ b - (b - n) - 1 = n - 1
      BY <1>1, <1>5
    <2>2. ASSUME NEW i \in 0 .. n - 1 PROVE from[(b - n) + i] = to[(d - n) + i]
      <3>1. n - i \in 1 .. n /\ b - (n - i) = (b - n) + i /\ d - (n - i) = (d - n) + i
        BY <1>1, <1>5
      <3> QED BY <1>5, <3>1
    <2> QED BY <2>1, <2>2, EqualParts
  <1> QED BY <1>1, <1>4, <1>7, <1>8, SpanParts

-----------------------------------------------------------------------------
(* Anchors                                                                 *)

\* Lines that are the same in both texts, in the order of both, with the old lines from a up to
\* but not including b and the new ones from c up to d.
Anchored(from, to, a, b, c, d, s) ==
    /\ s \in Seq(Nat \X Nat)
    /\ \A k \in 1 .. Len(s) : /\ a <= s[k][1] /\ s[k][1] < b
                              /\ c <= s[k][2] /\ s[k][2] < d
                              /\ from[s[k][1]] = to[s[k][2]]
    /\ \A j \in 1 .. Len(s) : \A k \in 1 .. Len(s) : j < k => s[j][1] < s[k][1] /\ s[j][2] < s[k][2]

LEMMA NothingAnchored ==
    ASSUME NEW from, NEW to, NEW a, NEW b, NEW c, NEW d
    PROVE  Anchored(from, to, a, b, c, d, <<>>)
  <1>1. <<>> \in Seq(Nat \X Nat) /\ Len(<<>>) = 0 /\ 1 .. 0 = {}
    OBVIOUS
  <1> QED BY <1>1 DEF Anchored

LEMMA AnchoredWider ==
    ASSUME NEW from, NEW to, NEW a \in Nat, NEW b \in Nat, NEW c \in Nat, NEW d \in Nat, NEW s,
           Anchored(from, to, a, b, c, d, s),
           NEW aa \in Nat, NEW bb \in Nat, NEW cc \in Nat, NEW dd \in Nat,
           aa <= a, b <= bb, cc <= c, d <= dd
    PROVE  Anchored(from, to, aa, bb, cc, dd, s)
  <1>1. s \in Seq(Nat \X Nat)
    BY Zenon DEF Anchored
  <1>2. ASSUME NEW k \in 1 .. Len(s)
        PROVE  /\ aa <= s[k][1] /\ s[k][1] < bb /\ cc <= s[k][2] /\ s[k][2] < dd
               /\ from[s[k][1]] = to[s[k][2]]
    <2>1. /\ a <= s[k][1] /\ s[k][1] < b /\ c <= s[k][2] /\ s[k][2] < d
          /\ from[s[k][1]] = to[s[k][2]]
      BY Zenon DEF Anchored
    <2>2. s[k] \in Nat \X Nat
      BY <1>1
    <2>3. PICK i \in Nat, j \in Nat : s[k][1] = i /\ s[k][2] = j
      BY <2>2
    <2> QED BY <2>1, <2>3
  <1> QED BY <1>2, Zenon DEF Anchored

LEMMA Pair ==
    ASSUME NEW i \in Nat, NEW j \in Nat
    PROVE  <<i, j>> \in Nat \X Nat /\ <<i, j>>[1] = i /\ <<i, j>>[2] = j
  OBVIOUS

LEMMA AnchoredLater ==
    ASSUME NEW from, NEW to, NEW a \in Nat, NEW b \in Nat, NEW c \in Nat, NEW d \in Nat, NEW s,
           Anchored(from, to, a, b, c, d, s),
           NEW i \in Nat, NEW j \in Nat, b <= i, d <= j, a <= i, c <= j, from[i] = to[j]
    PROVE  Anchored(from, to, a, i + 1, c, j + 1, Append(s, <<i, j>>))
  <1> DEFINE p == <<i, j>>
             t == Append(s, p)
  <1>1. p \in Nat \X Nat /\ p[1] = i /\ p[2] = j
    BY Pair
  <1>2. s \in Seq(Nat \X Nat)
    BY DEF Anchored
  <1>3. PICK n \in Nat : n = Len(s)
    BY <1>2
  <1> HIDE DEF p
  <1>4. t \in Seq(Nat \X Nat) /\ Len(t) = n + 1 /\ t[n + 1] = p /\ \A k \in 1 .. n : t[k] = s[k]
    BY <1>1, <1>2, <1>3
  <1>5. \A k \in 1 .. n : /\ s[k][1] \in Nat /\ s[k][2] \in Nat
                          /\ a <= s[k][1] /\ s[k][1] < b /\ c <= s[k][2] /\ s[k][2] < d
                          /\ from[s[k][1]] = to[s[k][2]]
    BY <1>3 DEF Anchored
  <1>6. \A k \in 1 .. n : \A l \in 1 .. n : k < l => s[k][1] < s[l][1] /\ s[k][2] < s[l][2]
    BY <1>3 DEF Anchored
  <1> HIDE DEF t
  <1>7. ASSUME NEW k \in 1 .. n + 1
        PROVE  /\ a <= t[k][1] /\ t[k][1] < i + 1 /\ c <= t[k][2] /\ t[k][2] < j + 1
               /\ from[t[k][1]] = to[t[k][2]]
    <2>1. CASE k = n + 1
      <3>1. t[k][1] = i /\ t[k][2] = j
        BY <1>1, <1>4, <2>1, Zenon
      <3> QED BY <3>1
    <2>2. CASE k \in 1 .. n
      <3>1. t[k] = s[k]
        BY <1>4, <2>2
      <3>2. /\ s[k][1] \in Nat /\ s[k][2] \in Nat /\ a <= s[k][1] /\ s[k][1] < b
            /\ c <= s[k][2] /\ s[k][2] < d /\ from[s[k][1]] = to[s[k][2]]
        BY <1>5, <2>2
      <3>3. s[k][1] < i + 1 /\ s[k][2] < j + 1
        BY <3>2
      <3> QED BY <3>1, <3>2, <3>3
    <2>3. k = n + 1 \/ k \in 1 .. n
      OBVIOUS
    <2> QED BY <2>1, <2>2, <2>3
  <1>8. ASSUME NEW k \in 1 .. n + 1, NEW l \in 1 .. n + 1, k < l
        PROVE  t[k][1] < t[l][1] /\ t[k][2] < t[l][2]
    <2>1. k \in 1 .. n
      BY <1>8
    <2>2. CASE l = n + 1
      <3>1. t[l][1] = i /\ t[l][2] = j /\ t[k] = s[k]
        BY <1>1, <1>4, <2>1, <2>2, Zenon
      <3>2. s[k][1] \in Nat /\ s[k][2] \in Nat /\ s[k][1] < b /\ s[k][2] < d
        BY <1>5, <2>1
      <3>3. s[k][1] < i /\ s[k][2] < j
        BY <3>2
      <3> QED BY <3>1, <3>3
    <2>3. CASE l \in 1 .. n
      BY <1>4, <1>6, <1>8, <2>1, <2>3
    <2> QED BY <2>2, <2>3
  <1>9. Anchored(from, to, a, i + 1, c, j + 1, t)
    BY <1>4, <1>7, <1>8 DEF Anchored
  <1> QED BY <1>9 DEF t, p

LEMMA AnchoredEarlier ==
    ASSUME NEW from, NEW to, NEW i \in Nat, NEW j \in Nat, NEW b \in Nat, NEW d \in Nat, NEW s,
           Anchored(from, to, i + 1, b, j + 1, d, s), i < b, j < d, from[i] = to[j]
    PROVE  Anchored(from, to, i, b, j, d, <<<<i, j>>>> \o s)
  <1> DEFINE p == <<i, j>>
             t == <<p>> \o s
  <1>1. p \in Nat \X Nat /\ p[1] = i /\ p[2] = j
    BY Pair
  <1>2. s \in Seq(Nat \X Nat)
    BY DEF Anchored
  <1>3. PICK n \in Nat : n = Len(s)
    BY <1>2
  <1> HIDE DEF p
  <1>4. /\ t \in Seq(Nat \X Nat) /\ Len(t) = n + 1 /\ t[1] = p
        /\ \A k \in 2 .. n + 1 : k - 1 \in 1 .. n /\ t[k] = s[k - 1]
    BY <1>1, <1>2, <1>3
  <1>5. \A k \in 1 .. n : /\ s[k][1] \in Nat /\ s[k][2] \in Nat
                          /\ i + 1 <= s[k][1] /\ s[k][1] < b /\ j + 1 <= s[k][2] /\ s[k][2] < d
                          /\ from[s[k][1]] = to[s[k][2]]
    BY SMTT(30), <1>3 DEF Anchored
  <1>6. \A k \in 1 .. n : \A l \in 1 .. n : k < l => s[k][1] < s[l][1] /\ s[k][2] < s[l][2]
    BY <1>3 DEF Anchored
  <1> HIDE DEF t
  <1>7. ASSUME NEW k \in 1 .. n + 1
        PROVE  /\ i <= t[k][1] /\ t[k][1] < b /\ j <= t[k][2] /\ t[k][2] < d
               /\ from[t[k][1]] = to[t[k][2]]
    <2>1. CASE k = 1
      <3>1. t[k][1] = i /\ t[k][2] = j
        BY <1>1, <1>4, <2>1, Zenon
      <3> QED BY <3>1
    <2>2. CASE k \in 2 .. n + 1
      <3>1. t[k] = s[k - 1] /\ k - 1 \in 1 .. n
        BY <1>4, <2>2
      <3>2. /\ s[k - 1][1] \in Nat /\ s[k - 1][2] \in Nat
            /\ i + 1 <= s[k - 1][1] /\ s[k - 1][1] < b /\ j + 1 <= s[k - 1][2] /\ s[k - 1][2] < d
            /\ from[s[k - 1][1]] = to[s[k - 1][2]]
        BY <1>5, <3>1
      <3>3. i <= s[k - 1][1] /\ j <= s[k - 1][2]
        BY <3>2
      <3> QED BY <3>1, <3>2, <3>3
    <2>3. k = 1 \/ k \in 2 .. n + 1
      OBVIOUS
    <2> QED BY <2>1, <2>2, <2>3
  <1>8. ASSUME NEW k \in 1 .. n + 1, NEW l \in 1 .. n + 1, k < l
        PROVE  t[k][1] < t[l][1] /\ t[k][2] < t[l][2]
    <2>1. l \in 2 .. n + 1
      BY <1>8
    <2>2. CASE k = 1
      <3>1. t[k][1] = i /\ t[k][2] = j /\ t[l] = s[l - 1] /\ l - 1 \in 1 .. n
        BY <1>1, <1>4, <2>1, <2>2, Zenon
      <3>2. s[l - 1][1] \in Nat /\ s[l - 1][2] \in Nat /\ i + 1 <= s[l - 1][1] /\ j + 1 <= s[l - 1][2]
        BY <1>5, <3>1
      <3>3. i < s[l - 1][1] /\ j < s[l - 1][2]
        BY <3>2
      <3> QED BY <3>1, <3>3
    <2>3. CASE k \in 2 .. n + 1
      <3>1. k - 1 \in 1 .. n /\ l - 1 \in 1 .. n /\ k - 1 < l - 1
        BY <1>8, <2>1, <2>3
      <3> QED BY <1>4, <1>6, <2>1, <2>3, <3>1
    <2> QED BY <2>2, <2>3
  <1>9. Anchored(from, to, i, b, j, d, t)
    BY <1>4, <1>7, <1>8 DEF Anchored
  <1> QED BY <1>9 DEF t, p

\* A range with natural numbers for its ends.
Bounded(r) == r.fs \in Nat /\ r.fe \in Nat /\ r.ts \in Nat /\ r.te \in Nat

LEMMA PointParts ==
    ASSUME NEW r, Bounded(r), NEW p \in Points(r)
    PROVE  /\ p[1] \in Nat /\ p[2] \in Nat /\ p = <<p[1], p[2]>>
           /\ r.fs <= p[1] /\ p[1] <= r.fe /\ r.ts <= p[2] /\ p[2] <= r.te
  <1>1. p[1] \in r.fs .. r.fe /\ p[2] \in r.ts .. r.te /\ p = <<p[1], p[2]>>
    BY DEF Points
  <1> QED BY <1>1 DEF Bounded

LEMMA PointIn ==
    ASSUME NEW r, Bounded(r), NEW i \in Nat, NEW j \in Nat,
           r.fs <= i, i <= r.fe, r.ts <= j, j <= r.te
    PROVE  <<i, j>> \in Points(r) /\ <<i, j>>[1] = i /\ <<i, j>>[2] = j
  <1>1. i \in r.fs .. r.fe /\ j \in r.ts .. r.te
    BY DEF Bounded
  <1> QED BY <1>1 DEF Points

\* Where the walk through the table goes from a point, and what it has then.
Onward(from, to, table, p) ==
    IF from[p[1]] = to[p[2]] THEN Keeping(p)
    ELSE IF table[Removing(p)] >= table[Adding(p)] THEN Removing(p) ELSE Adding(p)

Passed(from, to, p, s) == IF from[p[1]] = to[p[2]] THEN <<p>> \o s ELSE s

LEMMA OnwardParts ==
    ASSUME NEW from, NEW to, NEW table, NEW r, Bounded(r), NEW p \in Points(r), ~ AtEnd(r, p)
    PROVE  LET q == Onward(from, to, table, p)
           IN /\ q \in Points(r)
              /\ p[1] <= q[1] /\ p[2] <= q[2] /\ p[1] + p[2] < q[1] + q[2]
              /\ from[p[1]] = to[p[2]] => q[1] = p[1] + 1 /\ q[2] = p[2] + 1
              /\ p[1] < r.fe /\ p[2] < r.te
  <1>0. PICK a \in Nat, b \in Nat, c \in Nat, d \in Nat : r.fs = a /\ r.fe = b /\ r.ts = c /\ r.te = d
    BY DEF Bounded
  <1>1. PICK i \in Nat, j \in Nat : p[1] = i /\ p[2] = j /\ a <= i /\ i <= b /\ c <= j /\ j <= d
    BY <1>0, PointParts
  <1>2. i < b /\ j < d
    BY <1>0, <1>1 DEF AtEnd
  <1>3. \A q \in {<<i + 1, j + 1>>, <<i + 1, j>>, <<i, j + 1>>} :
           q \in Points(r) /\ i <= q[1] /\ j <= q[2] /\ i + j < q[1] + q[2]
    <2>1. \A k \in Nat : \A l \in Nat :
             a <= k /\ k <= b /\ c <= l /\ l <= d =>
               <<k, l>> \in Points(r) /\ <<k, l>>[1] = k /\ <<k, l>>[2] = l
      BY <1>0, PointIn
    <2>2. i + 1 \in Nat /\ j + 1 \in Nat /\ i + 1 <= b /\ j + 1 <= d /\ a <= i + 1 /\ c <= j + 1
      BY <1>1, <1>2
    <2>3. /\ <<i + 1, j + 1>> \in Points(r)
          /\ <<i + 1, j + 1>>[1] = i + 1 /\ <<i + 1, j + 1>>[2] = j + 1
      BY <1>1, <2>1, <2>2
    <2>4. <<i + 1, j>> \in Points(r) /\ <<i + 1, j>>[1] = i + 1 /\ <<i + 1, j>>[2] = j
      BY <1>1, <2>1, <2>2
    <2>5. <<i, j + 1>> \in Points(r) /\ <<i, j + 1>>[1] = i /\ <<i, j + 1>>[2] = j + 1
      BY <1>1, <2>1, <2>2
    <2>6. i + j < (i + 1) + (j + 1) /\ i + j < (i + 1) + j /\ i + j < i + (j + 1) /\ i <= i + 1 /\ j <= j + 1
          /\ i <= i /\ j <= j
      OBVIOUS
    <2> SUFFICES ASSUME NEW q \in {<<i + 1, j + 1>>, <<i + 1, j>>, <<i, j + 1>>}
                 PROVE  q \in Points(r) /\ i <= q[1] /\ j <= q[2] /\ i + j < q[1] + q[2]
      OBVIOUS
    <2>7. CASE q = <<i + 1, j + 1>>
      BY <2>3, <2>6, <2>7, Zenon
    <2>8. CASE q = <<i + 1, j>>
      BY <2>4, <2>6, <2>8, Zenon
    <2>9. CASE q = <<i, j + 1>>
      BY <2>5, <2>6, <2>9, Zenon
    <2> QED BY <2>7, <2>8, <2>9
  <1>4. Keeping(p) = <<i + 1, j + 1>> /\ Removing(p) = <<i + 1, j>> /\ Adding(p) = <<i, j + 1>>
    BY <1>1 DEF Keeping, Removing, Adding
  <1>5. Onward(from, to, table, p) \in {<<i + 1, j + 1>>, <<i + 1, j>>, <<i, j + 1>>}
    BY <1>4 DEF Onward
  <1>6. from[i] = to[j] => Onward(from, to, table, p) = <<i + 1, j + 1>>
    BY <1>1, <1>4 DEF Onward
  <1>7. <<i + 1, j + 1>>[1] = i + 1 /\ <<i + 1, j + 1>>[2] = j + 1
    OBVIOUS
  <1> DEFINE q == Onward(from, to, table, p)
  <1> HIDE DEF q
  <1>8. q \in Points(r) /\ i <= q[1] /\ j <= q[2] /\ i + j < q[1] + q[2]
    BY <1>3, <1>5 DEF q
  <1>9. from[i] = to[j] => q[1] = i + 1 /\ q[2] = j + 1
    BY <1>6, <1>7 DEF q
  <1>10. /\ q \in Points(r)
         /\ p[1] <= q[1] /\ p[2] <= q[2] /\ p[1] + p[2] < q[1] + q[2]
         /\ from[p[1]] = to[p[2]] => q[1] = p[1] + 1 /\ q[2] = p[2] + 1
         /\ p[1] < r.fe /\ p[2] < r.te
    BY <1>0, <1>1, <1>2, <1>8, <1>9
  <1> QED BY <1>10 DEF q

LEMMA WalkUnfolds ==
    ASSUME NEW from, NEW to, NEW table, NEW r, Bounded(r)
    PROVE  \E walk : /\ CommonLines(from, to, r, table) = walk[<<r.fs, r.ts>>]
                     /\ \A p \in Points(r) :
                           walk[p] = IF AtEnd(r, p) THEN <<>>
                                     ELSE Passed(from, to, p, walk[Onward(from, to, table, p)])
  <1>0. PICK a \in Nat, b \in Nat, c \in Nat, d \in Nat : r.fs = a /\ r.fe = b /\ r.ts = c /\ r.te = d
    BY DEF Bounded
  <1> DEFINE P == Points(r)
             Stop == {p \in P : AtEnd(r, p)}
             m == [p \in P |-> (b - p[1]) + (d - p[2])]
             prev == [p \in P |-> IF AtEnd(r, p) THEN p ELSE Onward(from, to, table, p)]
             X == Seq(P)
             first == [p \in P |-> <<>>]
             step == [p \in P |-> [s \in X |-> Passed(from, to, p, s)]]
  <1>1. m \in [P -> Nat]
    <2>1. ASSUME NEW p \in P PROVE (b - p[1]) + (d - p[2]) \in Nat
      <3>1. p[1] \in Nat /\ p[2] \in Nat /\ p[1] <= b /\ p[2] <= d
        BY <1>0, PointParts
      <3> QED BY <3>1
    <2> HIDE DEF P
    <2> QED BY <2>1
  <1>2. prev \in [P -> P]
    <2>1. ASSUME NEW p \in P, ~ AtEnd(r, p) PROVE Onward(from, to, table, p) \in P
      BY <2>1, OnwardParts
    <2> HIDE DEF P
    <2> QED BY <2>1
  <1>3. ASSUME NEW p \in P \ Stop PROVE m[prev[p]] < m[p]
    <2> DEFINE q == Onward(from, to, table, p)
    <2>1. q \in P /\ p[1] + p[2] < q[1] + q[2] /\ ~ AtEnd(r, p)
      BY OnwardParts
    <2>2. prev[p] = q
      BY <2>1
    <2> HIDE DEF q
    <2>3. p[1] \in Nat /\ p[2] \in Nat /\ q[1] \in Nat /\ q[2] \in Nat
      BY <2>1, PointParts
    <2>4. m[p] = (b - p[1]) + (d - p[2]) /\ m[q] = (b - q[1]) + (d - q[2])
      BY <2>1
    <2>5. (b - q[1]) + (d - q[2]) < (b - p[1]) + (d - p[2])
      BY <2>1, <2>3
    <2> QED BY <2>2, <2>4, <2>5
  <1>4. first \in [P -> X] /\ step \in [P -> [X -> X]]
    <2>1. ASSUME NEW p \in P, NEW s \in X PROVE Passed(from, to, p, s) \in X
      <3> HIDE DEF P
      <3>1. <<p>> \o s \in Seq(P)
        OBVIOUS
      <3> QED BY <3>1 DEF Passed
    <2>2. <<>> \in X
      OBVIOUS
    <2> HIDE DEF P, X
    <2> QED BY <2>1, <2>2
  <1>5. PICK f \in [P -> X] : Unfolds(P, Stop, prev, first, step, f)
    <2> HIDE DEF P, Stop, m, prev, X, first, step
    <2> QED BY <1>1, <1>2, <1>3, <1>4, Recursion
  <1> DEFINE Value(walk, p) == IF AtEnd(r, p) THEN <<>>
                               ELSE IF from[p[1]] = to[p[2]] THEN <<p>> \o walk[Keeping(p)]
                               ELSE walk[IF table[Removing(p)] >= table[Adding(p)]
                                         THEN Removing(p) ELSE Adding(p)]
             Walk == CHOOSE walk : walk = [p \in Points(r) |-> Value(walk, p)]
  <1>6. ASSUME NEW walk, NEW p
        PROVE  Value(walk, p) = IF AtEnd(r, p) THEN <<>>
                                ELSE Passed(from, to, p, walk[Onward(from, to, table, p)])
    BY DEF Passed, Onward
  <1>7. ASSUME NEW p \in P PROVE f[p] = Value(f, p)
    <2>1. CASE AtEnd(r, p)
      <3>1. p \in Stop /\ first[p] = <<>>
        BY <2>1
      <3>2. f[p] = first[p]
        <4> HIDE DEF Stop, prev, first, step, P
        <4> QED BY <1>5, <3>1 DEF Unfolds
      <3> QED BY <2>1, <3>1, <3>2
    <2>2. CASE ~ AtEnd(r, p)
      <3> DEFINE q == Onward(from, to, table, p)
      <3>1. p \notin Stop /\ prev[p] = q
        BY <2>2
      <3>2. q \in P
        BY <2>2, OnwardParts
      <3>3. f[q] \in X
        <4> HIDE DEF P, q, X
        <4> QED BY <1>5, <3>2
      <3>4. step[p][f[q]] = Passed(from, to, p, f[q])
        <4> HIDE DEF P, q, X
        <4> QED BY <3>3
      <3>5. f[p] = step[p][f[q]]
        <4> HIDE DEF Stop, prev, first, step, P, q
        <4> QED BY <1>5, <3>1 DEF Unfolds
      <3> HIDE DEF q, Value, Stop, prev, first, step, P
      <3>6. Value(f, p) = Passed(from, to, p, f[q])
        BY <1>6, <2>2 DEF q
      <3> QED BY <3>4, <3>5, <3>6
    <2> QED BY <2>1, <2>2
  <1>8. f = [p \in Points(r) |-> Value(f, p)]
    <2>1. f = [p \in P |-> f[p]]
      <3> HIDE DEF P, X
      <3> QED BY <1>5
    <2> HIDE DEF Value
    <2> QED BY <1>7, <2>1
  <1>9. Walk = [p \in Points(r) |-> Value(Walk, p)]
    <2> HIDE DEF Value
    <2> QED BY <1>8
  <1>10. CommonLines(from, to, r, table) = Walk[<<r.fs, r.ts>>]
    BY DEF CommonLines
  <1>11. ASSUME NEW p \in Points(r)
         PROVE  Walk[p] = IF AtEnd(r, p) THEN <<>>
                          ELSE Passed(from, to, p, Walk[Onward(from, to, table, p)])
    <2>1. Walk[p] = Value(Walk, p)
      <3> HIDE DEF Value
      <3>1. \A g : g = [u \in Points(r) |-> Value(Walk, u)] => g[p] = Value(Walk, p)
        <4> HIDE DEF Walk
        <4> QED OBVIOUS
      <3> QED BY <1>9, <3>1
    <2> HIDE DEF Value, Walk
    <2> QED BY <2>1, <1>6
  <1> HIDE DEF Walk
  <1> QED BY <1>10, <1>11

\* The longest common subsequence anchors a range, whatever the table says.
LEMMA LCSAnchored ==
    ASSUME NEW S, NEW from \in Seq(S), NEW to \in Seq(S), NEW r, Proper(from, to, r)
    PROVE  Anchored(from, to, r.fs, r.fe, r.ts, r.te, MarkdownLCSAnchors(from, to, r))
  <1> DEFINE table == LongestFrom(from, to, r)
  <1>1. PICK a \in Nat, b \in Nat, c \in Nat, d \in Nat :
               /\ r.fs = a /\ r.fe = b /\ r.ts = c /\ r.te = d
               /\ 1 <= a /\ a <= b /\ b <= Len(from) + 1 /\ 1 <= c /\ c <= d /\ d <= Len(to) + 1
    BY ProperParts
  <1>0. Bounded(r)
    BY <1>1 DEF Bounded
  <1>2. PICK walk : /\ CommonLines(from, to, r, table) = walk[<<r.fs, r.ts>>]
                    /\ \A p \in Points(r) :
                          walk[p] = IF AtEnd(r, p) THEN <<>>
                                    ELSE Passed(from, to, p, walk[Onward(from, to, table, p)])
    <2> HIDE DEF table
    <2> QED BY <1>0, WalkUnfolds
  <1> HIDE DEF table
  <1> DEFINE P == Points(r)
             m == [p \in P |-> (b - p[1]) + (d - p[2])]
             H == {p \in P : Anchored(from, to, p[1], b, p[2], d, walk[p])}
  <1>3. m \in [P -> Nat]
    <2>1. ASSUME NEW p \in P PROVE (b - p[1]) + (d - p[2]) \in Nat
      <3>1. PICK i \in Nat, j \in Nat : i = p[1] /\ j = p[2] /\ i <= b /\ j <= d
        BY <1>0, <1>1, PointParts
      <3>2. (b - i) + (d - j) \in Nat
        BY <3>1
      <3> QED BY <3>1, <3>2
    <2> HIDE DEF P
    <2> QED BY <2>1
  <1>4. ASSUME NEW p \in P, \A q \in P : m[q] < m[p] => q \in H PROVE p \in H
    <2>1. CASE AtEnd(r, p)
      <3>1. walk[p] = <<>>
        BY <1>2, <2>1
      <3>2. Anchored(from, to, p[1], b, p[2], d, walk[p])
        BY <3>1, NothingAnchored
      <3> QED BY <3>2
    <2>2. CASE ~ AtEnd(r, p)
      <3> DEFINE q == Onward(from, to, table, p)
      <3>1. /\ q \in P /\ p[1] <= q[1] /\ p[2] <= q[2] /\ p[1] + p[2] < q[1] + q[2]
            /\ from[p[1]] = to[p[2]] => q[1] = p[1] + 1 /\ q[2] = p[2] + 1
            /\ p[1] < b /\ p[2] < d
        <4>1. p[1] < r.fe /\ p[2] < r.te
          BY <1>0, <2>2, OnwardParts
        <4>2. /\ q \in P /\ p[1] <= q[1] /\ p[2] <= q[2] /\ p[1] + p[2] < q[1] + q[2]
              /\ from[p[1]] = to[p[2]] => q[1] = p[1] + 1 /\ q[2] = p[2] + 1
          BY <1>0, <2>2, OnwardParts
        <4> HIDE DEF q, P
        <4> QED BY <1>1, <4>1, <4>2
      <3>2. walk[p] = Passed(from, to, p, walk[q])
        BY <1>2, <2>2
      <3> HIDE DEF q
      <3>3. p[1] \in Nat /\ p[2] \in Nat /\ p = <<p[1], p[2]>> /\ q[1] \in Nat /\ q[2] \in Nat
        BY <1>0, <3>1, PointParts
      <3>4. m[p] = (b - p[1]) + (d - p[2]) /\ m[q] = (b - q[1]) + (d - q[2])
        BY <3>1
      <3>5. m[q] < m[p]
        <4>1. (b - q[1]) + (d - q[2]) < (b - p[1]) + (d - p[2])
          <5>1. PICK i \in Nat, j \in Nat, k \in Nat, l \in Nat :
                       p[1] = i /\ p[2] = j /\ q[1] = k /\ q[2] = l /\ i + j < k + l
            BY <3>1, <3>3
          <5>2. (b - k) + (d - l) < (b - i) + (d - j)
            BY <5>1
          <5> QED BY <5>1, <5>2
        <4> HIDE DEF m
        <4> QED BY <3>4, <4>1
      <3>6. Anchored(from, to, q[1], b, q[2], d, walk[q])
        <4>1. q \in H
          <5> HIDE DEF m, H
          <5> QED BY <1>4, <3>1, <3>5
        <4> QED BY <4>1
      <3>7. CASE from[p[1]] = to[p[2]]
        <4>1. walk[p] = <<<<p[1], p[2]>>>> \o walk[q]
          BY <3>2, <3>3, <3>7 DEF Passed
        <4>2. Anchored(from, to, p[1] + 1, b, p[2] + 1, d, walk[q])
          BY <3>1, <3>6, <3>7
        <4>3. Anchored(from, to, p[1], b, p[2], d, <<<<p[1], p[2]>>>> \o walk[q])
          BY <3>1, <3>3, <3>7, <4>2, AnchoredEarlier, Zenon
        <4> QED BY <4>1, <4>3, Zenon
      <3>8. CASE from[p[1]] # to[p[2]]
        <4>1. walk[p] = walk[q]
          BY <3>2, <3>8 DEF Passed
        <4>2. b <= b /\ d <= d
          BY <1>1
        <4>3. Anchored(from, to, p[1], b, p[2], d, walk[q])
          BY <3>1, <3>3, <3>6, <4>2, AnchoredWider, Zenon
        <4> QED BY <4>1, <4>3, Zenon
      <3> QED BY <3>7, <3>8
    <2> QED BY <2>1, <2>2
  <1>5. P \subseteq H
    <2> HIDE DEF P, m, H
    <2> QED BY <1>3, <1>4, OnMeasure
  <1>6. <<a, c>> \in P /\ <<a, c>>[1] = a /\ <<a, c>>[2] = c
    BY <1>0, <1>1, PointIn
  <1>7. Anchored(from, to, a, b, c, d, CommonLines(from, to, r, table))
    <2>1. <<a, c>> \in H
      <3> HIDE DEF P, H
      <3> QED BY <1>5, <1>6
    <2>2. Anchored(from, to, <<a, c>>[1], b, <<a, c>>[2], d, walk[<<a, c>>])
      BY <2>1
    <2> QED BY <1>1, <1>2, <1>6, <2>2
  <1>8. MarkdownLCSAnchors(from, to, r) \in {<<>>, CommonLines(from, to, r, table)}
    BY DEF MarkdownLCSAnchors, table
  <1> QED BY <1>1, <1>7, <1>8, NothingAnchored

-----------------------------------------------------------------------------
(* Patience sorting                                                        *)

\* Where a line goes: a pile, or the place after the last; the top of the pile before has an
\* earlier mate.
LEMMA PileFound ==
    ASSUME NEW D, NEW mate \in [D -> Nat], NEW t \in Seq(D), NEW i \in D
    PROVE  LET position == Min({p \in 1 .. Len(t) : mate[t[p]] >= mate[i]} \cup {Len(t) + 1})
           IN /\ position \in 1 .. Len(t) + 1
              /\ position # 1 => /\ position - 1 \in 1 .. Len(t)
                                 /\ t[position - 1] \in D /\ mate[t[position - 1]] < mate[i]
  <1> DEFINE T == {p \in 1 .. Len(t) : mate[t[p]] >= mate[i]} \cup {Len(t) + 1}
             position == Min(T)
  <1>1. PICK n \in Nat : n = Len(t)
    OBVIOUS
  <1>2. T \subseteq 1 .. n + 1 /\ T # {} /\ T \subseteq Nat
    BY <1>1
  <1>3. \A p \in 1 .. n : t[p] \in D /\ mate[t[p]] \in Nat
    BY <1>1
  <1>4. position \in T /\ \A k \in T : position <= k
    <2> HIDE DEF T
    <2>1. \E k \in T : \A l \in T : k <= l
      BY <1>2, LeastNumber
    <2> QED BY <2>1 DEF Min
  <1>5. position \in 1 .. n + 1
    <2> HIDE DEF T, position
    <2> QED BY <1>2, <1>4
  <1>6. ASSUME position # 1
        PROVE  position - 1 \in 1 .. n /\ t[position - 1] \in D /\ mate[t[position - 1]] < mate[i]
    <2> DEFINE q == position - 1
    <2>1. q \in 1 .. n /\ ~ (position <= q)
      <3> HIDE DEF position
      <3> QED BY <1>5, <1>6
    <2> HIDE DEF position
    <2>2. q \notin T
      <3> HIDE DEF T, q
      <3> QED BY <1>4, <2>1
    <2>3. ~ (mate[t[q]] >= mate[i])
      <3> HIDE DEF q
      <3> QED BY <1>1, <2>1, <2>2
    <2> HIDE DEF q
    <2>4. t[q] \in D /\ mate[t[q]] \in Nat /\ mate[i] \in Nat
      BY <1>3, <2>1
    <2>5. mate[t[q]] < mate[i]
      BY <2>3, <2>4
    <2> QED BY <2>1, <2>4, <2>5 DEF q
  <1> HIDE DEF T
  <1>7. position \in 1 .. Len(t) + 1
    <2> HIDE DEF position
    <2> QED BY <1>1, <1>5
  <1>8. position # 1 => /\ position - 1 \in 1 .. Len(t)
                        /\ t[position - 1] \in D /\ mate[t[position - 1]] < mate[i]
    <2> HIDE DEF position
    <2> QED BY <1>1, <1>6
  <1> QED BY <1>7, <1>8 DEF T

PileStates(D) == [tails : Seq(D), previous : [D -> D \cup {0}]]

\* Every line comes after the one it is linked to, on both sides.
Linked(D, mate, previous) ==
    \A k \in D : previous[k] # 0 => previous[k] < k /\ mate[previous[k]] < mate[k]

LEMMA PlaceKeeps ==
    ASSUME NEW D, D \subseteq Nat, 0 \notin D, NEW mate \in [D -> Nat], NEW piles \in PileStates(D),
           NEW i \in D
    PROVE  LET placed == Place(mate, piles, i)
           IN /\ placed \in PileStates(D)
              /\ (\A p \in 1 .. Len(piles.tails) : piles.tails[p] < i) =>
                   /\ \A q \in 1 .. Len(placed.tails) : placed.tails[q] <= i
                   /\ Linked(D, mate, piles.previous) => Linked(D, mate, placed.previous)
  <1>1. PICK t \in Seq(D), w \in [D -> D \cup {0}] : piles.tails = t /\ piles.previous = w
    BY DEF PileStates
  <1> DEFINE position == Min({p \in 1 .. Len(t) : mate[t[p]] >= mate[i]} \cup {Len(t) + 1})
             tt == IF position > Len(t) THEN Append(t, i) ELSE [t EXCEPT ![position] = i]
             ww == [w EXCEPT ![i] = IF position = 1 THEN 0 ELSE t[position - 1]]
             placed == Place(mate, piles, i)
  <1>2. placed = [tails |-> tt, previous |-> ww]
    BY <1>1 DEF Place
  <1>3. /\ position \in 1 .. Len(t) + 1
        /\ position # 1 => /\ position - 1 \in 1 .. Len(t)
                           /\ t[position - 1] \in D /\ mate[t[position - 1]] < mate[i]
    BY PileFound
  <1> HIDE DEF position
  <1>4. placed.tails = tt /\ placed.previous = ww
    BY <1>2
  <1>5. PICK n \in Nat : n = Len(t)
    OBVIOUS
  <1>6. tt \in Seq(D) /\ \A q \in 1 .. Len(tt) : tt[q] = i \/ (q \in 1 .. n /\ tt[q] = t[q])
    <2>1. CASE position > Len(t)
      <3>1. tt = Append(t, i)
        BY <2>1
      <3> HIDE DEF tt
      <3>2. tt \in Seq(D) /\ Len(tt) = n + 1 /\ tt[n + 1] = i /\ \A q \in 1 .. n : tt[q] = t[q]
        BY <1>5, <3>1
      <3>3. \A q \in 1 .. n + 1 : q = n + 1 \/ q \in 1 .. n
        OBVIOUS
      <3> QED BY <3>2, <3>3
    <2>2. CASE ~ (position > Len(t))
      <3>1. tt = [t EXCEPT ![position] = i] /\ position \in 1 .. n
        BY <2>2, <1>3, <1>5
      <3> HIDE DEF tt
      <3>2. tt \in Seq(D) /\ Len(tt) = n
        BY <1>5, <3>1
      <3>3. \A q \in 1 .. n : tt[q] = IF q = position THEN i ELSE t[q]
        BY <1>5, <3>1
      <3> QED BY <3>2, <3>3
    <2> QED BY <2>1, <2>2
  <1>7. ww \in [D -> D \cup {0}] /\ \A k \in D : ww[k] = IF k = i THEN IF position = 1 THEN 0 ELSE t[position - 1] ELSE w[k]
    BY <1>3
  <1> HIDE DEF tt, ww, placed
  <1>8. placed \in PileStates(D)
    BY <1>2, <1>6, <1>7 DEF PileStates
  <1>9. ASSUME \A p \in 1 .. Len(piles.tails) : piles.tails[p] < i
        PROVE  \A q \in 1 .. Len(placed.tails) : placed.tails[q] <= i
    <2> SUFFICES ASSUME NEW q \in 1 .. Len(tt) PROVE tt[q] <= i
      BY <1>4
    <2>1. \A p \in 1 .. n : t[p] < i /\ t[p] \in Nat
      <3>1. \A p \in 1 .. n : t[p] \in D
        BY <1>5
      <3> QED BY <1>1, <1>5, <1>9, <3>1
    <2>2. CASE tt[q] = i
      BY <2>2
    <2>3. CASE q \in 1 .. n /\ tt[q] = t[q]
      BY <2>1, <2>3
    <2> QED BY <1>6, <2>2, <2>3
  <1>10. ASSUME Linked(D, mate, piles.previous), \A p \in 1 .. Len(piles.tails) : piles.tails[p] < i
         PROVE  Linked(D, mate, placed.previous)
    <2> SUFFICES ASSUME NEW k \in D, ww[k] # 0 PROVE ww[k] < k /\ mate[ww[k]] < mate[k]
      BY <1>4 DEF Linked
    <2>1. CASE k = i
      <3>1. position # 1 /\ ww[k] = t[position - 1]
        BY <1>7, <2>1
      <3>2. position - 1 \in 1 .. Len(t) /\ mate[t[position - 1]] < mate[i]
        BY <1>3, <3>1
      <3>3. t[position - 1] < i
        <4> DEFINE q == position - 1
        <4> HIDE DEF q
        <4>1. q \in 1 .. Len(t)
          BY <3>2 DEF q
        <4>2. t[q] < i
          BY <1>1, <1>10, <4>1
        <4> QED BY <4>2 DEF q
      <3> QED BY <2>1, <3>1, <3>2, <3>3
    <2>2. CASE k # i
      <3>1. ww[k] = w[k]
        BY <1>7, <2>2
      <3>2. w[k] < k /\ mate[w[k]] < mate[k]
        BY <1>1, <1>10, <3>1 DEF Linked
      <3> QED BY <3>1, <3>2
    <2> QED BY <2>1, <2>2
  <1> QED BY <1>8, <1>9, <1>10 DEF placed

\* The piles after each line of a range.
Sorting(r, D, mate, placed) ==
    /\ placed \in [r.fs - 1 .. r.fe - 1 -> PileStates(D)]
    /\ placed[r.fs - 1] = [tails |-> <<>>, previous |-> [k \in D |-> 0]]
    /\ \A i \in r.fs .. r.fe - 1 :
          placed[i] = IF i \in D THEN Place(mate, placed[i - 1], i) ELSE placed[i - 1]

LEMMA PilesUnfold ==
    ASSUME NEW r, Bounded(r), 1 <= r.fs, r.fs <= r.fe,
           NEW D, D \subseteq r.fs .. r.fe - 1, NEW mate \in [D -> Nat]
    PROVE  \E placed : Piles(mate, r) = placed[r.fe - 1] /\ Sorting(r, D, mate, placed)
  <1>1. PICK a \in Nat, b \in Nat : r.fs = a /\ r.fe = b /\ 1 <= a /\ a <= b
    BY DEF Bounded
  <1> DEFINE P == a - 1 .. b - 1
             Stop == {a - 1}
             m == [i \in P |-> i - (a - 1)]
             prev == [i \in P |-> IF i = a - 1 THEN i ELSE i - 1]
             X == PileStates(D)
             none == [tails |-> <<>>, previous |-> [k \in D |-> 0]]
             first == [i \in P |-> none]
             Step(i, x) == IF i \in D THEN Place(mate, x, i) ELSE x
             step == [i \in P |-> [x \in X |-> Step(i, x)]]
  <1>2. m \in [P -> Nat] /\ prev \in [P -> P] /\ \A i \in P \ Stop : m[prev[i]] < m[i]
    <2>1. \A i \in P : i - (a - 1) \in Nat
      BY <1>1
    <2>2. \A i \in P : i # a - 1 => i - 1 \in P /\ (i - 1) - (a - 1) < i - (a - 1)
      BY <1>1
    <2>3. m \in [P -> Nat] /\ prev \in [P -> P]
      <3> HIDE DEF P
      <3> QED BY <2>1, <2>2
    <2>4. ASSUME NEW i \in P \ Stop PROVE m[prev[i]] < m[i]
      <3>1. i - 1 \in P /\ prev[i] = i - 1
        BY <2>2
      <3>2. m[i - 1] = (i - 1) - (a - 1) /\ m[i] = i - (a - 1)
        BY <3>1
      <3> HIDE DEF P, m, prev
      <3> QED BY <2>2, <3>1, <3>2
    <2> QED BY <2>3, <2>4
  <1>3. 0 \notin D /\ D \subseteq Nat
    BY <1>1
  <1>4. ASSUME NEW i \in P, NEW x \in X PROVE Step(i, x) \in X
    BY <1>3, PlaceKeeps
  <1>5. first \in [P -> X] /\ step \in [P -> [X -> X]]
    <2>1. none \in X
      <3>1. <<>> \in Seq(D) /\ [k \in D |-> 0] \in [D -> D \cup {0}]
        OBVIOUS
      <3> QED BY <3>1 DEF PileStates
    <2> HIDE DEF P, X, none, Step
    <2> QED BY <1>4, <2>1
  <1>6. PICK f \in [P -> X] : Unfolds(P, Stop, prev, first, step, f)
    <2> HIDE DEF P, Stop, m, prev, X, first, step
    <2> QED BY <1>2, <1>5, Recursion
  <1>7. ASSUME NEW i \in P PROVE f[i] = IF i = a - 1 THEN none ELSE Step(i, f[i - 1])
    <2>1. CASE i = a - 1
      <3>1. i \in Stop /\ first[i] = none
        BY <2>1
      <3> HIDE DEF P, Stop, prev, first, step, none
      <3> QED BY <1>6, <2>1, <3>1 DEF Unfolds
    <2>2. CASE i # a - 1
      <3>1. i \notin Stop /\ prev[i] = i - 1 /\ i - 1 \in P
        BY <1>1, <2>2
      <3>2. f[i - 1] \in X
        <4> HIDE DEF P, X
        <4> QED BY <1>6, <3>1
      <3>3. step[i][f[i - 1]] = Step(i, f[i - 1])
        <4> HIDE DEF P, X, Step
        <4> QED BY <3>2
      <3> HIDE DEF P, Stop, prev, first, step, none, Step
      <3> QED BY <1>6, <2>2, <3>1, <3>3 DEF Unfolds
    <2> QED BY <2>1, <2>2
  <1>8. f = [i \in P |-> IF i = a - 1 THEN none ELSE Step(i, f[i - 1])]
    <2>1. f = [i \in P |-> f[i]]
      <3> HIDE DEF P, X
      <3> QED BY <1>6
    <2> HIDE DEF P, none, Step
    <2> QED BY <1>7, <2>1
  <1> DEFINE Next1(g, i) == IF i = r.fs - 1 THEN [tails |-> <<>>, previous |-> [k \in DOMAIN mate |-> 0]]
                            ELSE IF i \in DOMAIN mate THEN Place(mate, g[i - 1], i) ELSE g[i - 1]
             placed == CHOOSE g : g = [i \in r.fs - 1 .. r.fe - 1 |-> Next1(g, i)]
  <1>9. \A g, i : Next1(g, i) = IF i = a - 1 THEN none ELSE Step(i, g[i - 1])
    <2>1. DOMAIN mate = D
      OBVIOUS
    <2> QED BY <1>1, <2>1
  <1>10. f = [i \in r.fs - 1 .. r.fe - 1 |-> Next1(f, i)]
    <2> HIDE DEF none, Step, Next1
    <2> QED BY <1>1, <1>8, <1>9
  <1>11. placed = [i \in r.fs - 1 .. r.fe - 1 |-> Next1(placed, i)]
    <2> HIDE DEF Next1
    <2> QED BY <1>10
  <1>12. Piles(mate, r) = placed[r.fe - 1]
    BY DEF Piles
  <1>13. ASSUME NEW i \in P PROVE placed[i] = IF i = a - 1 THEN none ELSE Step(i, placed[i - 1])
    <2>1. placed = [j \in P |-> Next1(placed, j)]
      <3> HIDE DEF Next1, placed
      <3> QED BY <1>1, <1>11
    <2>2. \A g : g = [j \in P |-> Next1(placed, j)] => g[i] = Next1(placed, i)
      <3> HIDE DEF Next1, placed, P
      <3> QED OBVIOUS
    <2> HIDE DEF Next1, placed, none, Step, P
    <2> QED BY <2>1, <2>2, <1>9
  <1>14. DOMAIN placed = P
    <2> HIDE DEF Next1, placed
    <2> QED BY <1>1, <1>11
  <1> HIDE DEF placed, Next1
  <1>15. \A i \in P : placed[i] \in X
    <2> DEFINE H == {i \in P : placed[i] \in X}
    <2>1. ASSUME NEW i \in P, \A j \in P : m[j] < m[i] => j \in H PROVE i \in H
      <3>1. CASE i = a - 1
        <4>1. none \in X
          <5>1. a - 1 \in P
            BY <1>1
          <5> HIDE DEF P, X, none
          <5> QED BY <1>5, <5>1
        <4> HIDE DEF none, X
        <4> QED BY <1>13, <3>1, <4>1
      <3>2. CASE i # a - 1
        <4>1. i - 1 \in P /\ m[i - 1] < m[i]
          BY <1>1, <1>2, <3>2
        <4>2. placed[i - 1] \in X
          <5> HIDE DEF m, P, X
          <5> QED BY <2>1, <4>1
        <4> HIDE DEF Step, X, P, none
        <4>3. Step(i, placed[i - 1]) \in X
          BY <1>4, <4>2
        <4> QED BY <1>13, <3>2, <4>3
      <3> QED BY <3>1, <3>2
    <2>2. P \subseteq H
      <3> HIDE DEF P, H, m
      <3> QED BY <1>2, <2>1, OnMeasure
    <2> HIDE DEF P, X
    <2> QED BY <2>2
  <1>16. placed \in [P -> X]
    <2>1. placed = [j \in P |-> placed[j]]
      <3> HIDE DEF P
      <3>1. placed = [i \in P |-> Next1(placed, i)]
        BY <1>1, <1>11 DEF P
      <3> QED BY <3>1
    <2> HIDE DEF P, X
    <2> QED BY <1>15, <2>1
  <1>17. a - 1 \in P /\ \A i \in a .. b - 1 : i \in P /\ i # a - 1
    BY <1>1
  <1>18. /\ placed[a - 1] = none
         /\ \A i \in a .. b - 1 : placed[i] = Step(i, placed[i - 1])
    <2> HIDE DEF P, none, Step
    <2> QED BY <1>13, <1>17
  <1>19. Sorting(r, D, mate, placed)
    <2> HIDE DEF P, none, Step
    <2>1. placed \in [r.fs - 1 .. r.fe - 1 -> X]
      BY <1>1, <1>16 DEF P
    <2>2. placed[r.fs - 1] = none
      BY <1>1, <1>18
    <2>3. \A i \in r.fs .. r.fe - 1 : placed[i] = Step(i, placed[i - 1])
      BY <1>1, <1>18
    <2> QED BY <2>1, <2>2, <2>3 DEF Sorting, none, Step
  <1> QED BY <1>12, <1>19

LEMMA PilesLinked ==
    ASSUME NEW r, Bounded(r), 1 <= r.fs, r.fs <= r.fe,
           NEW D, D \subseteq r.fs .. r.fe - 1, NEW mate \in [D -> Nat]
    PROVE  Piles(mate, r) \in PileStates(D) /\ Linked(D, mate, Piles(mate, r).previous)
  <1>1. PICK a \in Nat, b \in Nat : r.fs = a /\ r.fe = b /\ 1 <= a /\ a <= b
    BY DEF Bounded
  <1>2. PICK placed \in [a - 1 .. b - 1 -> PileStates(D)] :
           /\ Piles(mate, r) = placed[b - 1]
           /\ placed[a - 1] = [tails |-> <<>>, previous |-> [k \in D |-> 0]]
           /\ \A i \in a .. b - 1 :
                 placed[i] = IF i \in D THEN Place(mate, placed[i - 1], i) ELSE placed[i - 1]
    <2>1. PICK placed : Piles(mate, r) = placed[r.fe - 1] /\ Sorting(r, D, mate, placed)
      BY PilesUnfold
    <2>2. placed \in [a - 1 .. b - 1 -> PileStates(D)]
      BY <1>1, <2>1 DEF Sorting
    <2>3. placed[a - 1] = [tails |-> <<>>, previous |-> [k \in D |-> 0]]
      BY <1>1, <2>1 DEF Sorting
    <2>4. \A i \in a .. b - 1 :
             placed[i] = IF i \in D THEN Place(mate, placed[i - 1], i) ELSE placed[i - 1]
      BY <1>1, <2>1 DEF Sorting
    <2>5. Piles(mate, r) = placed[b - 1]
      BY <1>1, <2>1
    <2> QED BY <2>2, <2>3, <2>4, <2>5
  <1>3. 0 \notin D /\ D \subseteq Nat /\ D \subseteq Int
    BY <1>1
  <1> DEFINE P == a - 1 .. b - 1
             m == [i \in P |-> i - (a - 1)]
             Upto(i, x) == \A p \in 1 .. Len(x.tails) : x.tails[p] <= i
             H == {i \in P : Upto(i, placed[i]) /\ Linked(D, mate, placed[i].previous)}
  <1>4. m \in [P -> Nat]
    <2>1. \A i \in P : i - (a - 1) \in Nat
      BY <1>1
    <2> HIDE DEF P
    <2> QED BY <2>1
  <1>5. ASSUME NEW i \in P, \A j \in P : m[j] < m[i] => j \in H PROVE i \in H
    <2>1. CASE i = a - 1
      <3>1. placed[i].tails = <<>> /\ placed[i].previous = [k \in D |-> 0]
        <4>1. placed[i] = [tails |-> <<>>, previous |-> [k \in D |-> 0]]
          BY <1>2, <2>1, Zenon
        <4> QED BY <4>1
      <3>2. Upto(i, placed[i])
        <4>1. Len(<<>>) = 0 /\ 1 .. 0 = {}
          OBVIOUS
        <4> QED BY <3>1, <4>1
      <3>3. Linked(D, mate, placed[i].previous)
        BY <3>1 DEF Linked
      <3> QED BY <3>2, <3>3
    <2>2. CASE i # a - 1
      <3> DEFINE x == placed[i - 1]
      <3>1. i - 1 \in P /\ m[i - 1] < m[i] /\ i \in a .. b - 1 /\ i \in Nat
        BY <1>1, <2>2
      <3>2. Upto(i - 1, x) /\ Linked(D, mate, x.previous)
        <4>1. i - 1 \in H
          <5> HIDE DEF m, P, H
          <5> QED BY <1>5, <3>1
        <4> QED BY <4>1
      <3>3. x \in PileStates(D)
        BY <3>1
      <3>4. placed[i] = IF i \in D THEN Place(mate, x, i) ELSE x
        BY <1>2, <3>1
      <3> HIDE DEF x
      <3>5. PICK t \in Seq(D) : x.tails = t
        BY <3>3 DEF PileStates
      <3>6. \A p \in 1 .. Len(x.tails) : x.tails[p] \in Nat /\ x.tails[p] < i /\ x.tails[p] <= i
        <4>1. \A p \in 1 .. Len(t) : t[p] \in Nat /\ t[p] <= i - 1
          <5>1. \A p \in 1 .. Len(t) : t[p] \in D
            OBVIOUS
          <5>2. \A p \in 1 .. Len(t) : t[p] <= i - 1
            BY <3>2, <3>5
          <5> QED BY <1>3, <5>1, <5>2
        <4>2. \A p \in 1 .. Len(t) : t[p] < i /\ t[p] <= i
          BY <3>1, <4>1
        <4> QED BY <3>5, <4>1, <4>2
      <3>7. CASE i \in D
        <4> DEFINE y == Place(mate, x, i)
        <4>1. \A q \in 1 .. Len(y.tails) : y.tails[q] <= i
          BY <1>3, <3>3, <3>6, <3>7, PlaceKeeps
        <4>2. Linked(D, mate, y.previous)
          BY <1>3, <3>2, <3>3, <3>6, <3>7, PlaceKeeps
        <4> HIDE DEF y
        <4>3. placed[i] = y
          BY <3>4, <3>7 DEF y
        <4> QED BY <4>1, <4>2, <4>3
      <3>8. CASE i \notin D
        BY <3>2, <3>4, <3>6, <3>8
      <3> QED BY <3>7, <3>8
    <2> QED BY <2>1, <2>2
  <1>6. P \subseteq H
    <2> HIDE DEF P, m, H
    <2> QED BY <1>4, <1>5, OnMeasure
  <1>7. b - 1 \in P
    BY <1>1
  <1>8. Linked(D, mate, placed[b - 1].previous)
    <2> HIDE DEF P
    <2> QED BY <1>6, <1>7
  <1> QED BY <1>2, <1>7, <1>8

\* The anchors up to each line.
Traced(D, mate, previous, back) ==
    /\ back[0] = <<>>
    /\ \A i \in D : back[i] = Append(back[previous[i]], <<i, mate[i]>>)

LEMMA BackUnfolds ==
    ASSUME NEW D, D \subseteq Nat, 0 \notin D, NEW mate \in [D -> Nat], NEW previous \in [D -> D \cup {0}],
           Linked(D, mate, previous)
    PROVE  \E back : /\ \A last : AnchorsUpTo(mate, previous, last) = back[last]
                     /\ Traced(D, mate, previous, back)
  <1> DEFINE P == D \cup {0}
             Stop == {0}
             m == [i \in P |-> i]
             prev == [i \in P |-> IF i = 0 THEN 0 ELSE previous[i]]
             X == Seq(D \X Nat)
             first == [i \in P |-> <<>>]
             Step(i, s) == IF i = 0 THEN <<>> ELSE Append(s, <<i, mate[i]>>)
             step == [i \in P |-> [s \in X |-> Step(i, s)]]
  <1>1. m \in [P -> Nat] /\ prev \in [P -> P] /\ \A i \in P \ Stop : m[prev[i]] < m[i]
    <2>1. m \in [P -> Nat] /\ prev \in [P -> P]
      OBVIOUS
    <2>2. ASSUME NEW i \in P \ Stop PROVE m[prev[i]] < m[i]
      <3>1. i \in D /\ i # 0 /\ previous[i] \in P
        OBVIOUS
      <3>2. m[prev[i]] = previous[i] /\ m[i] = i
        BY <3>1
      <3>3. previous[i] < i
        <4>1. CASE previous[i] = 0
          <5>1. i \in Nat /\ i # 0
            BY <3>1
          <5> QED BY <4>1, <5>1
        <4>2. CASE previous[i] # 0
          BY <3>1, <4>2 DEF Linked
        <4> QED BY <4>1, <4>2
      <3> HIDE DEF m, prev
      <3> QED BY <3>2, <3>3
    <2> QED BY <2>1, <2>2
  <1>2. ASSUME NEW i \in P, NEW s \in X PROVE Step(i, s) \in X
    <2>1. CASE i = 0
      BY <2>1
    <2>2. CASE i # 0
      <3>1. <<i, mate[i]>> \in D \X Nat
        BY <2>2
      <3>2. Append(s, <<i, mate[i]>>) \in X
        BY <3>1
      <3> QED BY <2>2, <3>2
    <2> QED BY <2>1, <2>2
  <1>3. first \in [P -> X] /\ step \in [P -> [X -> X]]
    <2>1. <<>> \in X
      OBVIOUS
    <2> HIDE DEF P, X, Step
    <2> QED BY <1>2, <2>1
  <1>4. PICK f \in [P -> X] : Unfolds(P, Stop, prev, first, step, f)
    <2> HIDE DEF P, Stop, m, prev, X, first, step
    <2> QED BY <1>1, <1>3, Recursion
  <1>5. ASSUME NEW i \in P PROVE f[i] = IF i = 0 THEN <<>> ELSE Append(f[previous[i]], <<i, mate[i]>>)
    <2>1. CASE i = 0
      <3>1. i \in Stop /\ first[i] = <<>>
        BY <2>1
      <3> HIDE DEF P, Stop, prev, first, step
      <3> QED BY <1>4, <2>1, <3>1 DEF Unfolds
    <2>2. CASE i # 0
      <3>1. i \notin Stop /\ prev[i] = previous[i] /\ previous[i] \in P
        BY <2>2
      <3>2. f[previous[i]] \in X
        <4> HIDE DEF P, X
        <4> QED BY <1>4, <3>1
      <3>3. step[i][f[previous[i]]] = Step(i, f[previous[i]])
        <4> HIDE DEF P, X, Step
        <4> QED BY <3>2
      <3>4. f[i] = Step(i, f[previous[i]])
        <4> HIDE DEF P, Stop, prev, first, step, Step
        <4> QED BY <1>4, <3>1, <3>3 DEF Unfolds
      <3> QED BY <2>2, <3>4
    <2> QED BY <2>1, <2>2
  <1> DEFINE Value(g, i) == IF i = 0 THEN <<>> ELSE Append(g[previous[i]], <<i, mate[i]>>)
             Back == CHOOSE g : g = [i \in DOMAIN mate \cup {0} |-> Value(g, i)]
  <1>6. DOMAIN mate \cup {0} = P
    OBVIOUS
  <1>7. f = [i \in DOMAIN mate \cup {0} |-> Value(f, i)]
    <2>1. f = [i \in P |-> f[i]]
      <3> HIDE DEF P, X
      <3> QED BY <1>4
    <2>2. \A i \in P : f[i] = Value(f, i)
      BY <1>5
    <2> HIDE DEF P, Value
    <2> QED BY <1>6, <2>1, <2>2
  <1>8. Back = [i \in DOMAIN mate \cup {0} |-> Value(Back, i)]
    <2> HIDE DEF Value
    <2> QED BY <1>7
  <1>9. \A last : AnchorsUpTo(mate, previous, last) = Back[last]
    BY DEF AnchorsUpTo
  <1>10. ASSUME NEW i \in P PROVE Back[i] = Value(Back, i)
    <2>1. Back = [j \in P |-> Value(Back, j)]
      <3> HIDE DEF Value, Back, P
      <3> QED BY <1>6, <1>8
    <2>2. \A g : g = [j \in P |-> Value(Back, j)] => g[i] = Value(Back, i)
      <3> HIDE DEF Value, Back, P
      <3> QED OBVIOUS
    <2> HIDE DEF Value, Back, P
    <2> QED BY <2>1, <2>2
  <1> HIDE DEF Back
  <1>11. Back[0] = <<>> /\ \A i \in D : Back[i] = Append(Back[previous[i]], <<i, mate[i]>>)
    <2>1. Back[0] = <<>>
      BY <1>10
    <2>2. ASSUME NEW i \in D PROVE Back[i] = Append(Back[previous[i]], <<i, mate[i]>>)
      <3>1. i # 0 /\ i \in P
        OBVIOUS
      <3> QED BY <1>10, <3>1
    <2> QED BY <2>1, <2>2
  <1> QED BY <1>9, <1>11 DEF Traced

LEMMA BackAnchored ==
    ASSUME NEW from, NEW to, NEW a \in Nat, NEW c \in Nat, 1 <= a,
           NEW D, D \subseteq Nat, \A i \in D : a <= i,
           NEW mate \in [D -> Nat], \A i \in D : c <= mate[i] /\ from[i] = to[mate[i]],
           NEW previous \in [D -> D \cup {0}], Linked(D, mate, previous), NEW last \in D
    PROVE  Anchored(from, to, a, last + 1, c, mate[last] + 1, AnchorsUpTo(mate, previous, last))
  <1>1. 0 \notin D
    OBVIOUS
  <1>0. PICK back : /\ \A i : AnchorsUpTo(mate, previous, i) = back[i]
                    /\ Traced(D, mate, previous, back)
    BY <1>1, BackUnfolds
  <1>2. /\ \A i : AnchorsUpTo(mate, previous, i) = back[i]
        /\ back[0] = <<>>
        /\ \A i \in D : back[i] = Append(back[previous[i]], <<i, mate[i]>>)
    BY <1>0 DEF Traced
  <1> DEFINE Fits(i) == Anchored(from, to, a, i + 1, c, mate[i] + 1, back[i])
             H == {i \in D : Fits(i)}
             m == [i \in D |-> i]
  <1>3. m \in [D -> Nat] /\ \A i \in D : m[i] = i
    OBVIOUS
  <1>4. ASSUME NEW i \in D, \A j \in D : m[j] < m[i] => j \in H PROVE i \in H
    <2> DEFINE k == previous[i]
               j == mate[i]
    <2>1. i \in Nat /\ j \in Nat /\ a <= i /\ c <= j /\ from[i] = to[j] /\ k \in D \cup {0}
      OBVIOUS
    <2>2. back[i] = Append(back[k], <<i, j>>)
      BY <1>2
    <2>3. CASE k = 0
      <3>1. back[k] = <<>>
        BY <1>2, <2>3
      <3>2. Anchored(from, to, a, a, c, c, back[k])
        BY <3>1, NothingAnchored
      <3> HIDE DEF k, j
      <3>3. Anchored(from, to, a, i + 1, c, j + 1, Append(back[k], <<i, j>>))
        BY <2>1, <3>2, AnchoredLater
      <3> QED BY <2>2, <3>3 DEF j
    <2>4. CASE k # 0
      <3>1. k \in D /\ k < i /\ mate[k] < j
        BY <2>1, <2>4 DEF Linked
      <3>2. PICK l \in Nat : l = mate[k]
        BY <3>1
      <3>3. k \in H
        <4> HIDE DEF k, j, m, H
        <4> QED BY <1>3, <1>4, <3>1
      <3>4. Anchored(from, to, a, k + 1, c, l + 1, back[k])
        BY <3>2, <3>3
      <3>5. k \in Nat /\ k + 1 \in Nat /\ l + 1 \in Nat /\ k + 1 <= i /\ l + 1 <= j
        <4>1. k \in Nat
          BY <3>1
        <4> HIDE DEF k, j
        <4> QED BY <2>1, <3>1, <3>2, <4>1
      <3> HIDE DEF k, j
      <3>6. Anchored(from, to, a, i + 1, c, j + 1, Append(back[k], <<i, j>>))
        <4>1. PICK x \in Nat, y \in Nat : x = k + 1 /\ y = l + 1 /\ x <= i /\ y <= j
          BY <3>5
        <4>2. Anchored(from, to, a, x, c, y, back[k])
          BY <3>4, <4>1
        <4> QED BY <2>1, <4>1, <4>2, AnchoredLater
      <3> QED BY <2>2, <3>6 DEF j
    <2> QED BY <2>3, <2>4
  <1>5. D \subseteq H
    <2>1. m \in [D -> Nat] /\ \A i \in D : (\A j \in D : m[j] < m[i] => j \in H) => i \in H
      BY <1>3, <1>4
    <2> HIDE DEF H, m
    <2> QED BY ONLY <2>1, OnMeasure
  <1>6. Fits(last)
    BY <1>5
  <1> QED BY <1>2, <1>6

\* A line that occurs once on both sides has its mate.
LEMMA MatesFit ==
    ASSUME NEW S, NEW from \in Seq(S), NEW to \in Seq(S), NEW r, Proper(from, to, r)
    PROVE  LET mate == Mates(from, to, r)
               D == Unique(from, to, r)
           IN /\ D \subseteq r.fs .. r.fe - 1
              /\ mate \in [D -> r.ts .. r.te - 1] /\ DOMAIN mate = D
              /\ \A i \in D : from[i] = to[mate[i]]
  <1> DEFINE mate == Mates(from, to, r)
             D == Unique(from, to, r)
             J == r.ts .. r.te - 1
  <1>1. D \subseteq r.fs .. r.fe - 1
    BY DEF Unique
  <1>2. ASSUME NEW i \in D PROVE \E j \in J : to[j] = from[i]
    <2>1. Cardinality(Occurring(to, r.ts, r.te, from[i])) = 1
      BY DEF Unique
    <2>2. Occurring(to, r.ts, r.te, from[i]) # {}
      <3> DEFINE O == Occurring(to, r.ts, r.te, from[i])
      <3>1. Cardinality({}) = 0
        BY FS_EmptySet
      <3>2. Cardinality(O) # 0
        BY <2>1
      <3> HIDE DEF O
      <3>3. O # {}
        BY <3>1, <3>2, Zenon
      <3> QED BY <3>3 DEF O
    <2> QED BY <2>2 DEF Occurring
  <1>3. mate = [i \in D |-> CHOOSE j \in J : to[j] = from[i]]
    BY DEF Mates
  <1> HIDE DEF D, J, mate
  <1>4. \A i \in D : (CHOOSE j \in J : to[j] = from[i]) \in J /\ to[CHOOSE j \in J : to[j] = from[i]] = from[i]
    BY <1>2
  <1>5. mate \in [D -> J] /\ DOMAIN mate = D /\ \A i \in D : from[i] = to[mate[i]]
    BY <1>3, <1>4
  <1> QED BY <1>1, <1>5 DEF D, J, mate

LEMMA PatienceAnchored ==
    ASSUME NEW S, NEW from \in Seq(S), NEW to \in Seq(S), NEW r, Proper(from, to, r)
    PROVE  Anchored(from, to, r.fs, r.fe, r.ts, r.te, MarkdownPatienceAnchors(from, to, r))
  <1> DEFINE mate == Mates(from, to, r)
             D == Unique(from, to, r)
             piles == Piles(mate, r)
  <1>1. PICK a \in Nat, b \in Nat, c \in Nat, d \in Nat :
               /\ r.fs = a /\ r.fe = b /\ r.ts = c /\ r.te = d
               /\ 1 <= a /\ a <= b /\ b <= Len(from) + 1 /\ 1 <= c /\ c <= d /\ d <= Len(to) + 1
    BY ProperParts
  <1>2. Bounded(r) /\ 1 <= r.fs /\ r.fs <= r.fe
    BY <1>1 DEF Bounded
  <1>3. /\ D \subseteq r.fs .. r.fe - 1
        /\ mate \in [D -> r.ts .. r.te - 1]
        /\ \A i \in D : from[i] = to[mate[i]]
    BY MatesFit
  <1> HIDE DEF mate, D
  <1>4. \A i \in D : i \in Nat /\ a <= i /\ i + 1 <= b
    BY <1>1, <1>3
  <1>5. \A i \in D : mate[i] \in Nat /\ c <= mate[i] /\ mate[i] + 1 <= d
    <2>1. \A i \in D : mate[i] \in c .. d - 1
      BY <1>1, <1>3
    <2> QED BY <1>1, <2>1
  <1>6. mate \in [D -> Nat]
    BY <1>3, <1>5
  <1>7. piles \in PileStates(D) /\ Linked(D, mate, piles.previous)
    BY <1>2, <1>3, <1>6, PilesLinked
  <1> HIDE DEF piles
  <1>8. PICK t \in Seq(D), w \in [D -> D \cup {0}] : piles.tails = t /\ piles.previous = w
    BY <1>7 DEF PileStates
  <1>9. MarkdownPatienceAnchors(from, to, r) = IF t = <<>> THEN <<>> ELSE AnchorsUpTo(mate, w, Last(t))
    BY <1>8 DEF MarkdownPatienceAnchors, SortedAnchors, piles, mate
  <1>10. CASE t = <<>>
    BY <1>9, <1>10, NothingAnchored
  <1>11. CASE t # <<>>
    <2> DEFINE last == Last(t)
    <2>1. last \in D
      <3>1. PICK n \in Nat : n = Len(t)
        OBVIOUS
      <3>2. n # 0
        BY <1>11, <3>1
      <3>3. last = t[n] /\ n \in 1 .. n
        BY <3>1, <3>2 DEF Last
      <3> QED BY <3>1, <3>3
    <2> HIDE DEF last
    <2>2. PICK l \in Nat : l = mate[last] /\ l + 1 <= d
      BY <1>5, <2>1
    <2>3. last \in Nat /\ last + 1 \in Nat /\ last + 1 <= b /\ l + 1 \in Nat
      BY <1>4, <2>1
    <2>4. D \subseteq Nat /\ \A i \in D : a <= i
      BY <1>4
    <2>5. \A i \in D : c <= mate[i] /\ from[i] = to[mate[i]]
      BY <1>3, <1>5
    <2>6. Linked(D, mate, w)
      BY <1>7, <1>8
    <2>7. Anchored(from, to, a, last + 1, c, l + 1, AnchorsUpTo(mate, w, last))
      BY <1>1, <1>6, <2>1, <2>2, <2>4, <2>5, <2>6, BackAnchored
    <2>8. Anchored(from, to, a, b, c, d, AnchorsUpTo(mate, w, last))
      <3>1. a <= a /\ c <= c
        BY <1>1
      <3> QED BY <2>2, <2>3, <2>7, <3>1, AnchoredWider, Zenon
    <2> QED BY <1>1, <1>9, <1>11, <2>8 DEF last
  <1> QED BY <1>10, <1>11

LEMMA AnchorsFit ==
    ASSUME NEW S, NEW from \in Seq(S), NEW to \in Seq(S), NEW r, Proper(from, to, r)
    PROVE  Anchored(from, to, r.fs, r.fe, r.ts, r.te, Anchors(from, to, r))
  <1>1. Anchors(from, to, r) \in {MarkdownPatienceAnchors(from, to, r), MarkdownLCSAnchors(from, to, r)}
    BY DEF Anchors
  <1> QED BY <1>1, PatienceAnchored, LCSAnchored

-----------------------------------------------------------------------------
(* Blocks                                                                  *)

LEMMA GapProper ==
    ASSUME NEW S, NEW from \in Seq(S), NEW to \in Seq(S), NEW r, Proper(from, to, r),
           NEW s, Anchored(from, to, r.fs, r.fe, r.ts, r.te, s), NEW k \in 1 .. Len(s) + 1
    PROVE  Proper(from, to, Gap(r, s, k))
  <1>1. PICK a \in Nat, b \in Nat, c \in Nat, d \in Nat :
               /\ r.fs = a /\ r.fe = b /\ r.ts = c /\ r.te = d
               /\ 1 <= a /\ a <= b /\ b <= Len(from) + 1 /\ 1 <= c /\ c <= d /\ d <= Len(to) + 1
    BY ProperParts
  <1>2. PICK n \in Nat : n = Len(s)
    BY DEF Anchored
  <1>3. \A l \in 1 .. n : /\ s[l][1] \in Nat /\ s[l][2] \in Nat
                          /\ a <= s[l][1] /\ s[l][1] + 1 <= b /\ c <= s[l][2] /\ s[l][2] + 1 <= d
    <2> SUFFICES ASSUME NEW l \in 1 .. n
                 PROVE  /\ s[l][1] \in Nat /\ s[l][2] \in Nat
                        /\ a <= s[l][1] /\ s[l][1] + 1 <= b /\ c <= s[l][2] /\ s[l][2] + 1 <= d
      OBVIOUS
    <2>1. s \in Seq(Nat \X Nat)
      BY Zenon DEF Anchored
    <2>2. r.fs <= s[l][1] /\ s[l][1] < r.fe /\ r.ts <= s[l][2] /\ s[l][2] < r.te
      BY <1>2, Zenon DEF Anchored
    <2>3. s[l] \in Nat \X Nat
      BY <1>2, <2>1
    <2>4. PICK i \in Nat, j \in Nat : s[l][1] = i /\ s[l][2] = j
      BY <2>3
    <2> QED BY <1>1, <2>2, <2>4
  <1> DEFINE fs == IF k = 1 THEN a ELSE s[k - 1][1] + 1
             fe == IF k > n THEN b ELSE s[k][1]
             ts == IF k = 1 THEN c ELSE s[k - 1][2] + 1
             te == IF k > n THEN d ELSE s[k][2]
  <1>4. Gap(r, s, k) = Span(fs, fe, ts, te)
    BY <1>1, <1>2 DEF Gap
  <1>5. /\ fs \in Nat /\ fe \in Nat /\ ts \in Nat /\ te \in Nat
        /\ a <= fs /\ fs <= fe /\ fe <= b /\ c <= ts /\ ts <= te /\ te <= d
    <2>1. CASE k = 1 /\ k > n
      BY <1>1, <2>1
    <2>2. CASE k = 1 /\ ~ (k > n)
      <3>1. k \in 1 .. n
        BY <1>2, <2>2
      <3>2. PICK v \in Nat, w \in Nat : s[k][1] = v /\ s[k][2] = w /\ a <= v /\ v + 1 <= b /\ c <= w /\ w + 1 <= d
        BY <1>3, <3>1
      <3>3. fs = a /\ fe = v /\ ts = c /\ te = w
        BY <2>2, <3>2
      <3> HIDE DEF fs, fe, ts, te
      <3> QED BY <3>2, <3>3
    <2>3. CASE k # 1 /\ k > n
      <3>1. k - 1 \in 1 .. n
        BY <1>2, <2>3
      <3>2. PICK i \in Nat, j \in Nat : s[k - 1][1] = i /\ s[k - 1][2] = j /\ a <= i /\ i + 1 <= b /\ c <= j /\ j + 1 <= d
        BY <1>3, <3>1
      <3>3. fs = i + 1 /\ fe = b /\ ts = j + 1 /\ te = d
        BY <2>3, <3>2
      <3> HIDE DEF fs, fe, ts, te
      <3> QED BY <3>2, <3>3
    <2>4. CASE k # 1 /\ ~ (k > n)
      <3>1. k - 1 \in 1 .. n /\ k \in 1 .. n /\ k - 1 < k
        BY <1>2, <2>4
      <3>2. PICK i \in Nat, j \in Nat : s[k - 1][1] = i /\ s[k - 1][2] = j /\ a <= i /\ i + 1 <= b /\ c <= j /\ j + 1 <= d
        BY <1>3, <3>1
      <3>3. PICK v \in Nat, w \in Nat : s[k][1] = v /\ s[k][2] = w /\ a <= v /\ v + 1 <= b /\ c <= w /\ w + 1 <= d
        BY <1>3, <3>1
      <3>4. s[k - 1][1] < s[k][1] /\ s[k - 1][2] < s[k][2]
        <4>1. \A l \in 1 .. n : \A q \in 1 .. n : l < q => s[l][1] < s[q][1] /\ s[l][2] < s[q][2]
          BY <1>2 DEF Anchored
        <4> QED BY <3>1, <4>1
      <3>5. fs = i + 1 /\ fe = v /\ ts = j + 1 /\ te = w
        BY <2>4, <3>2, <3>3
      <3>6. i < v /\ j < w
        BY <3>2, <3>3, <3>4
      <3> HIDE DEF fs, fe, ts, te
      <3> QED BY <3>2, <3>3, <3>5, <3>6
    <2> QED BY <2>1, <2>2, <2>3, <2>4
  <1> HIDE DEF fs, fe, ts, te
  <1>6. /\ fs \in Int /\ fe \in Int /\ ts \in Int /\ te \in Int
        /\ 1 <= fs /\ fs <= fe /\ fe <= Len(from) + 1 /\ 1 <= ts /\ ts <= te /\ te <= Len(to) + 1
    BY <1>1, <1>5
  <1> QED BY <1>4, <1>6, ProperSpan

LEMMA EqualJoin ==
    ASSUME NEW from, NEW to, NEW a \in Int, NEW x \in Int, NEW b \in Int,
           NEW c \in Int, NEW y \in Int, NEW d \in Int,
           Equal(from, to, Span(a, x, c, y)), Equal(from, to, Span(x, b, y, d))
    PROVE  Equal(from, to, Span(a, b, c, d))
  <1>1. a <= x /\ x - a = y - c /\ \A i \in 0 .. (x - a - 1) : from[a + i] = to[c + i]
    <2>1. /\ Span(a, x, c, y).fs = a /\ Span(a, x, c, y).fe = x
          /\ Span(a, x, c, y).ts = c /\ Span(a, x, c, y).te = y
      BY SpanParts
    <2> QED BY <2>1 DEF Equal
  <1>2. x <= b /\ b - x = d - y /\ \A i \in 0 .. (b - x - 1) : from[x + i] = to[y + i]
    BY EqualParts
  <1>3. a <= b /\ b - a = d - c
    BY <1>1, <1>2
  <1>4. ASSUME NEW i \in 0 .. (b - a - 1) PROVE from[a + i] = to[c + i]
    <2>1. CASE i < x - a
      <3>1. i \in 0 .. (x - a - 1)
        BY <2>1
      <3> QED BY <1>1, <3>1
    <2>2. CASE ~ (i < x - a)
      <3>1. PICK j \in Int : j = i - (x - a)
        OBVIOUS
      <3>2. j \in 0 .. (b - x - 1) /\ x + j = a + i /\ y + j = c + i
        BY <1>1, <1>2, <2>2, <3>1
      <3>3. from[x + j] = to[y + j]
        BY <1>2, <3>2
      <3> QED BY <3>2, <3>3
    <2> QED BY <2>1, <2>2
  <1> QED BY <1>3, <1>4, EqualParts

LEMMA CoversNothing ==
    ASSUME NEW from, NEW to, NEW a, NEW b, NEW c, NEW d, Equal(from, to, Span(a, b, c, d))
    PROVE  Covers(from, to, Span(a, b, c, d), <<>>)
  <1> DEFINE r == Span(a, b, c, d)
  <1>1. Len(<<>>) = 0 /\ DOMAIN <<>> = {} /\ 0 .. 0 = {0}
    OBVIOUS
  <1>2. Between(r, <<>>, 0) = r
    BY <1>1, SpanParts DEF Between
  <1> HIDE DEF r
  <1> QED BY <1>1, <1>2 DEF Covers, r

LEMMA CoversOne ==
    ASSUME NEW S, NEW from \in Seq(S), NEW to \in Seq(S), NEW r, Proper(from, to, r),
           ~ (r.fs = r.fe /\ r.ts = r.te)
    PROVE  Covers(from, to, r, <<r>>)
  <1>1. PICK a \in Nat, b \in Nat, c \in Nat, d \in Nat :
               /\ r.fs = a /\ r.fe = b /\ r.ts = c /\ r.te = d
               /\ 1 <= a /\ a <= b /\ b <= Len(from) + 1 /\ 1 <= c /\ c <= d /\ d <= Len(to) + 1
    BY ProperParts
  <1> DEFINE s == <<r>>
  <1>2. Len(s) = 1 /\ DOMAIN s = {1} /\ s[1] = r /\ 0 .. 1 = {0, 1}
    OBVIOUS
  <1> HIDE DEF s
  <1>3. Nonempty(r)
    BY <1>1 DEF Nonempty
  <1>4. Between(r, s, 0) = Span(a, a, c, c) /\ Between(r, s, 1) = Span(b, b, d, d)
    BY <1>1, <1>2 DEF Between
  <1>5. ASSUME NEW i \in Nat, NEW j \in Nat PROVE Equal(from, to, Span(i, i, j, j))
    <2>1. i <= i /\ i - i = j - j /\ 0 .. (i - i - 1) = {}
      OBVIOUS
    <2> QED BY <2>1, EqualParts
  <1>6. Equal(from, to, Between(r, s, 0)) /\ Equal(from, to, Between(r, s, 1))
    BY <1>4, <1>5
  <1>7. Covers(from, to, r, s)
    BY <1>2, <1>3, <1>6 DEF Covers
  <1> QED BY <1>7 DEF s

LEMMA LineNumber ==
    ASSUME NEW m, NEW i \in 1 .. m
    PROVE  i \in Int
  OBVIOUS

LEMMA CoversJoin ==
    ASSUME NEW from, NEW to, NEW a \in Int, NEW x \in Int, NEW b \in Int,
           NEW c \in Int, NEW y \in Int, NEW d \in Int,
           NEW s \in Seq(Ranges(from, to)), NEW t \in Seq(Ranges(from, to)),
           Covers(from, to, Span(a, x, c, y), s), Covers(from, to, Span(x, b, y, d), t)
    PROVE  Covers(from, to, Span(a, b, c, d), s \o t)
  <1> DEFINE u == s \o t
             p == Span(a, x, c, y)
             q == Span(x, b, y, d)
             r == Span(a, b, c, d)
  <1>1. PICK n \in Nat, l \in Nat : n = Len(s) /\ l = Len(t)
    OBVIOUS
  <1>2. /\ Len(u) = n + l /\ DOMAIN u = 1 .. n + l
        /\ \A k \in 1 .. n : u[k] = s[k]
        /\ \A k \in 1 .. l : u[n + k] = t[k]
    BY <1>1
  <1>3. /\ p.fs = a /\ p.fe = x /\ p.ts = c /\ p.te = y
        /\ q.fs = x /\ q.fe = b /\ q.ts = y /\ q.te = d
        /\ r.fs = a /\ r.fe = b /\ r.ts = c /\ r.te = d
    BY SpanParts
  <1>4. /\ \A k \in 1 .. n : Nonempty(s[k])
        /\ \A k \in 0 .. n : Equal(from, to, Between(p, s, k))
    BY <1>1 DEF Covers
  <1>5. /\ \A k \in 1 .. l : Nonempty(t[k])
        /\ \A k \in 0 .. l : Equal(from, to, Between(q, t, k))
    BY <1>1 DEF Covers
  <1>6. /\ \A k \in 1 .. n : s[k] \in Ranges(from, to)
        /\ \A k \in 1 .. l : t[k] \in Ranges(from, to)
    BY <1>1
  <1> HIDE DEF u, p, q, r
  <1>7. ASSUME NEW k \in 1 .. n + l PROVE Nonempty(u[k])
    <2>1. CASE k \in 1 .. n
      BY <1>2, <1>4, <2>1
    <2>2. CASE k \notin 1 .. n
      <3>1. PICK j \in 1 .. l : k = n + j
        <4>1. k - n \in 1 .. l /\ k = n + (k - n)
          BY <2>2
        <4> QED BY <4>1
      <3> QED BY <1>2, <1>5, <3>1
    <2> QED BY <2>1, <2>2
  <1>8. ASSUME NEW k \in 0 .. n + l PROVE Equal(from, to, Between(r, u, k))
    <2>1. CASE k < n
      <3>1. k \in 0 .. n /\ k + 1 \in 1 .. n /\ k # n /\ k # n + l /\ (k # 0 => k \in 1 .. n)
        BY <2>1
      <3>2. u[k + 1] = s[k + 1] /\ (k # 0 => u[k] = s[k])
        BY <1>2, <3>1
      <3>3. Between(r, u, k) = Between(p, s, k)
        BY <1>1, <1>2, <1>3, <3>1, <3>2 DEF Between
      <3> QED BY <1>4, <3>1, <3>3
    <2>2. CASE k > n
      <3>1. PICK j \in 1 .. l : k = n + j
        <4>1. k - n \in 1 .. l /\ k = n + (k - n)
          BY <2>2
        <4> QED BY <4>1
      <3>2. j \in 0 .. l /\ j # 0 /\ k # 0 /\ (k = n + l <=> j = l) /\ (j # l => j + 1 \in 1 .. l /\ k + 1 = n + (j + 1))
        BY <2>2, <3>1
      <3>3. u[k] = t[j] /\ (j # l => u[k + 1] = t[j + 1])
        BY <1>2, <3>1, <3>2
      <3>4. Between(r, u, k) = Between(q, t, j)
        BY <1>1, <1>2, <1>3, <3>2, <3>3 DEF Between
      <3> QED BY <1>5, <3>2, <3>4
    <2>3. CASE k = n
      <3> DEFINE v == IF n = 0 THEN a ELSE s[n].fe
                 w == IF n = 0 THEN c ELSE s[n].te
                 f == IF l = 0 THEN b ELSE t[1].fs
                 g == IF l = 0 THEN d ELSE t[1].ts
      <3>1. v \in Int /\ w \in Int
        <4>1. CASE n = 0
          BY <4>1
        <4>2. CASE n # 0
          <5>1. s[n] \in Ranges(from, to)
            BY <1>6, <4>2
          <5>2. s[n].fe \in 1 .. Len(from) + 1 /\ s[n].te \in 1 .. Len(to) + 1
            BY <5>1, RangeParts
          <5>3. v = s[n].fe /\ w = s[n].te
            BY <4>2
          <5> HIDE DEF v, w
          <5> QED BY <5>2, <5>3, LineNumber, Zenon
        <4> QED BY <4>1, <4>2
      <3>2. f \in Int /\ g \in Int
        <4>1. CASE l = 0
          BY <4>1
        <4>2. CASE l # 0
          <5>1. t[1] \in Ranges(from, to)
            BY <1>6, <4>2
          <5>2. t[1].fs \in 1 .. Len(from) + 1 /\ t[1].ts \in 1 .. Len(to) + 1
            BY <5>1, RangeParts
          <5>3. f = t[1].fs /\ g = t[1].ts
            BY <4>2
          <5> HIDE DEF f, g
          <5> QED BY <5>2, <5>3, LineNumber, Zenon
        <4> QED BY <4>1, <4>2
      <3>3. Between(p, s, n) = Span(v, x, w, y)
        BY <1>1, <1>3 DEF Between
      <3>4. Between(q, t, 0) = Span(x, f, y, g)
        BY <1>1, <1>3 DEF Between
      <3>5. Between(r, u, k) = Span(v, f, w, g)
        <4>1. n # 0 => u[n] = s[n]
          BY <1>2
        <4>2. l # 0 => u[n + 1] = t[1] /\ n # n + l
          BY <1>2
        <4>3. l = 0 => n = n + l
          OBVIOUS
        <4> QED BY <1>2, <1>3, <2>3, <4>1, <4>2, <4>3 DEF Between
      <3> HIDE DEF v, w, f, g
      <3>6. Equal(from, to, Span(v, x, w, y)) /\ Equal(from, to, Span(x, f, y, g))
        BY <1>4, <1>5, <3>3, <3>4
      <3>7. Equal(from, to, Span(v, f, w, g))
        BY <3>1, <3>2, <3>6, EqualJoin
      <3> QED BY <3>5, <3>7
    <2> QED BY <2>1, <2>2, <2>3
  <1>9. Covers(from, to, r, u)
    BY <1>2, <1>7, <1>8 DEF Covers
  <1> QED BY <1>9 DEF r, u

\* What flattening makes of the first parts of a sequence, one more at a time.
Flattening(X, parts, flat) ==
    /\ flat \in [1 .. Len(parts) -> Seq(X)]
    /\ flat[1] = parts[1]
    /\ \A i \in 2 .. Len(parts) : flat[i] = flat[i - 1] \o parts[i]

LEMMA FlattenUnfolds ==
    ASSUME NEW X, NEW parts \in Seq(Seq(X)), Len(parts) # 0
    PROVE  \E flat : FlattenSeq(parts) = flat[Len(parts)] /\ Flattening(X, parts, flat)
  <1>1. PICK n \in Nat : n = Len(parts) /\ 1 <= n
    OBVIOUS
  <1> DEFINE P == 1 .. n
             Stop == {1}
             m == [i \in P |-> i - 1]
             prev == [i \in P |-> IF i = 1 THEN i ELSE i - 1]
             Y == Seq(X)
             first == [i \in P |-> parts[1]]
             step == [i \in P |-> [s \in Y |-> s \o parts[i]]]
  <1>2. m \in [P -> Nat] /\ prev \in [P -> P] /\ \A i \in P \ Stop : m[prev[i]] < m[i]
    <2>1. \A i \in P : i - 1 \in Nat
      OBVIOUS
    <2>2. \A i \in P : i # 1 => i - 1 \in P /\ (i - 1) - 1 < i - 1
      OBVIOUS
    <2>3. m \in [P -> Nat] /\ prev \in [P -> P]
      <3> HIDE DEF P
      <3> QED BY <2>1, <2>2
    <2>4. ASSUME NEW i \in P \ Stop PROVE m[prev[i]] < m[i]
      <3>1. i - 1 \in P /\ prev[i] = i - 1
        BY <2>2
      <3>2. m[i - 1] = (i - 1) - 1 /\ m[i] = i - 1
        BY <3>1
      <3> HIDE DEF P, m, prev
      <3> QED BY <2>2, <3>1, <3>2
    <2> QED BY <2>3, <2>4
  <1>3. \A i \in P : parts[i] \in Y
    BY <1>1
  <1>4. first \in [P -> Y] /\ step \in [P -> [Y -> Y]]
    <2>1. 1 \in P
      BY <1>1
    <2>2. \A i \in P, s \in Y : s \o parts[i] \in Y
      BY <1>3
    <2> HIDE DEF P, Y
    <2> QED BY <1>3, <2>1, <2>2
  <1>5. PICK f \in [P -> Y] : Unfolds(P, Stop, prev, first, step, f)
    <2> HIDE DEF P, Stop, m, prev, Y, first, step
    <2> QED BY <1>2, <1>4, Recursion
  <1> DEFINE Value(g, i) == IF i = 1 THEN parts[i] ELSE g[i - 1] \o parts[i]
             flat == CHOOSE g : g = [i \in 1 .. Len(parts) |-> Value(g, i)]
  <1>6. ASSUME NEW i \in P PROVE f[i] = Value(f, i)
    <2>1. CASE i = 1
      <3>1. i \in Stop /\ first[i] = parts[1]
        BY <2>1
      <3>2. f[i] = first[i]
        <4> HIDE DEF P, Stop, prev, first, step
        <4> QED BY <1>5, <3>1 DEF Unfolds
      <3> QED BY <2>1, <3>1, <3>2
    <2>2. CASE i # 1
      <3>1. i \notin Stop /\ prev[i] = i - 1 /\ i - 1 \in P
        BY <2>2
      <3>2. f[i - 1] \in Y
        <4> HIDE DEF P, Y
        <4> QED BY <1>5, <3>1
      <3>3. step[i][f[i - 1]] = f[i - 1] \o parts[i]
        <4> HIDE DEF P, Y
        <4> QED BY <3>2
      <3>4. f[i] = step[i][f[i - 1]]
        <4> HIDE DEF P, Stop, prev, first, step
        <4> QED BY <1>5, <3>1 DEF Unfolds
      <3> QED BY <2>2, <3>3, <3>4
    <2> QED BY <2>1, <2>2
  <1>7. f = [i \in 1 .. Len(parts) |-> Value(f, i)]
    <2>1. f = [i \in P |-> f[i]]
      <3> HIDE DEF P, Y
      <3> QED BY <1>5
    <2>2. f = [i \in P |-> Value(f, i)]
      <3> HIDE DEF P, Value
      <3> QED BY <1>6, <2>1
    <2> QED BY <1>1, <2>2
  <1>8. flat = [i \in 1 .. Len(parts) |-> Value(flat, i)]
    <2> HIDE DEF Value
    <2> QED BY <1>7
  <1>9. FlattenSeq(parts) = flat[Len(parts)]
    BY <1>1 DEF FlattenSeq
  <1> HIDE DEF flat
  <1>10. ASSUME NEW i \in P PROVE flat[i] = Value(flat, i)
    <2>1. \A g : g = [j \in P |-> Value(flat, j)] => g[i] = Value(flat, i)
      <3> HIDE DEF Value, P
      <3> QED OBVIOUS
    <2> HIDE DEF Value
    <2> QED BY <1>1, <1>8, <2>1
  <1>11. \A i \in P : flat[i] \in Y
    <2> DEFINE H == {i \in P : flat[i] \in Y}
    <2>1. ASSUME NEW i \in P, \A j \in P : m[j] < m[i] => j \in H PROVE i \in H
      <3>1. CASE i = 1
        BY <1>3, <1>10, <3>1
      <3>2. CASE i # 1
        <4>1. i - 1 \in P /\ m[i - 1] < m[i]
          BY <3>2
        <4>2. flat[i - 1] \in Y
          <5> HIDE DEF m, P, Y
          <5> QED BY <2>1, <4>1
        <4>3. flat[i] = flat[i - 1] \o parts[i]
          BY <1>10, <3>2
        <4>4. flat[i] \in Y
          BY <1>3, <4>2, <4>3
        <4> QED BY <4>4
      <3> QED BY <3>1, <3>2
    <2>2. P \subseteq H
      <3> HIDE DEF P, H, m
      <3> QED BY <1>2, <2>1, OnMeasure
    <2> HIDE DEF P, Y
    <2> QED BY <2>2
  <1>12. flat \in [P -> Y]
    <2>1. flat = [i \in P |-> flat[i]]
      <3>1. flat = [i \in P |-> Value(flat, i)]
        BY <1>1, <1>8
      <3> HIDE DEF P, Value
      <3> QED BY <3>1
    <2> HIDE DEF P, Y
    <2> QED BY <1>11, <2>1
  <1>13. flat[1] = parts[1] /\ \A i \in 2 .. n : flat[i] = flat[i - 1] \o parts[i]
    <2>1. 1 \in P /\ \A i \in 2 .. n : i \in P /\ i # 1
      BY <1>1
    <2> HIDE DEF P
    <2> QED BY <1>10, <2>1
  <1>14. Flattening(X, parts, flat)
    BY <1>1, <1>12, <1>13 DEF Flattening
  <1> QED BY <1>9, <1>14

LEMMA CoversLine ==
    ASSUME NEW from, NEW to, NEW i \in Int, NEW j \in Int, from[i] = to[j]
    PROVE  Covers(from, to, Span(i, i + 1, j, j + 1), <<>>)
  <1>1. i <= i + 1 /\ (i + 1) - i = (j + 1) - j /\ 0 .. ((i + 1) - i - 1) = {0} /\ i + 0 = i /\ j + 0 = j
    OBVIOUS
  <1>2. /\ Span(i, i + 1, j, j + 1).fs = i /\ Span(i, i + 1, j, j + 1).fe = i + 1
        /\ Span(i, i + 1, j, j + 1).ts = j /\ Span(i, i + 1, j, j + 1).te = j + 1
    BY SpanParts
  <1>3. Equal(from, to, Span(i, i + 1, j, j + 1))
    BY <1>1, <1>2 DEF Equal
  <1> QED BY <1>3, CoversNothing

LEMMA BlocksCover ==
    ASSUME NEW S, NEW from \in Seq(S), NEW to \in Seq(S), NEW r, Proper(from, to, r),
           NEW s, Anchored(from, to, r.fs, r.fe, r.ts, r.te, s),
           NEW within \in [Ranges(from, to) -> Seq(Ranges(from, to))],
           \A g \in Ranges(from, to) : Covers(from, to, g, within[g])
    PROVE  LET blocks == FlattenSeq([k \in 1 .. (Len(s) + 1) |-> within[Gap(r, s, k)]])
           IN blocks \in Seq(Ranges(from, to)) /\ Covers(from, to, r, blocks)
  <1>1. PICK a \in Nat, b \in Nat, c \in Nat, d \in Nat :
               /\ r.fs = a /\ r.fe = b /\ r.ts = c /\ r.te = d
               /\ 1 <= a /\ a <= b /\ b <= Len(from) + 1 /\ 1 <= c /\ c <= d /\ d <= Len(to) + 1
    BY ProperParts
  <1>2. PICK n \in Nat : n = Len(s)
    BY DEF Anchored
  <1> DEFINE R == Ranges(from, to)
             parts == [k \in 1 .. (Len(s) + 1) |-> within[Gap(r, s, k)]]
             E(k) == IF k > n THEN b ELSE s[k][1]
             F(k) == IF k > n THEN d ELSE s[k][2]
  <1>3. \A k \in 1 .. n + 1 : Gap(r, s, k) \in R
    <2>1. \A k \in 1 .. n + 1 : Proper(from, to, Gap(r, s, k))
      BY <1>2, GapProper
    <2> QED BY <2>1 DEF Proper
  <1>4. /\ parts \in Seq(Seq(R)) /\ Len(parts) = n + 1 /\ Len(parts) # 0
        /\ \A k \in 1 .. n + 1 : parts[k] = within[Gap(r, s, k)]
    <2>1. \A k \in 1 .. n + 1 : within[Gap(r, s, k)] \in Seq(R)
      <3> HIDE DEF R
      <3> QED BY <1>3 DEF R
    <2> HIDE DEF R
    <2> QED BY <1>2, <2>1
  <1>5. PICK flat : FlattenSeq(parts) = flat[Len(parts)] /\ Flattening(R, parts, flat)
    <2> HIDE DEF parts, R
    <2> QED BY <1>4, FlattenUnfolds
  <1>6. /\ \A k \in 1 .. n + 1 : flat[k] \in Seq(R)
        /\ flat[1] = parts[1] /\ \A k \in 2 .. n + 1 : flat[k] = flat[k - 1] \o parts[k]
    <2> HIDE DEF parts, R
    <2> QED BY <1>4, <1>5 DEF Flattening
  <1>7. \A k \in 1 .. n + 1 : parts[k] \in Seq(R) /\ Covers(from, to, Gap(r, s, k), parts[k])
    <2> HIDE DEF parts
    <2> QED BY <1>3, <1>4
  <1> HIDE DEF parts, R
  <1>8. \A k \in 1 .. n : /\ s[k][1] \in Nat /\ s[k][2] \in Nat /\ from[s[k][1]] = to[s[k][2]]
    <2> SUFFICES ASSUME NEW k \in 1 .. n
                 PROVE  s[k][1] \in Nat /\ s[k][2] \in Nat /\ from[s[k][1]] = to[s[k][2]]
      OBVIOUS
    <2>1. s[k] \in Nat \X Nat
      BY <1>2 DEF Anchored
    <2>2. PICK i \in Nat, j \in Nat : s[k] = <<i, j>>
      BY <2>1
    <2>3. from[s[k][1]] = to[s[k][2]]
      BY <1>2 DEF Anchored
    <2> QED BY <2>2, <2>3
  <1>9. \A k \in 1 .. n + 1 : E(k) \in Int /\ F(k) \in Int
    <2> SUFFICES ASSUME NEW k \in 1 .. n + 1 PROVE E(k) \in Int /\ F(k) \in Int
      OBVIOUS
    <2>1. CASE k > n
      BY <2>1
    <2>2. CASE ~ (k > n)
      <3>1. k \in 1 .. n
        BY <2>2
      <3> QED BY <1>8, <2>2, <3>1
    <2> QED BY <2>1, <2>2
  <1>10. /\ Gap(r, s, 1) = Span(a, E(1), c, F(1))
         /\ \A k \in 2 .. n + 1 : Gap(r, s, k) = Span(s[k - 1][1] + 1, E(k), s[k - 1][2] + 1, F(k))
    BY <1>1, <1>2 DEF Gap
  <1>11. \A k \in 1 .. n : E(k) = s[k][1] /\ F(k) = s[k][2]
    OBVIOUS
  <1>12. E(n + 1) = b /\ F(n + 1) = d
    OBVIOUS
  <1> HIDE DEF E, F
  <1> DEFINE H == {k \in 0 .. n : Covers(from, to, Span(a, E(k + 1), c, F(k + 1)), flat[k + 1])}
  <1>13. 0 \in H
    <2>1. 0 + 1 = 1 /\ 1 \in 1 .. n + 1 /\ 0 \in 0 .. n
      OBVIOUS
    <2>2. Covers(from, to, Span(a, E(1), c, F(1)), flat[1])
      BY <1>6, <1>7, <1>10, <2>1
    <2> QED BY <2>1, <2>2
  <1>14. ASSUME NEW k \in 1 .. n, k - 1 \in H PROVE k \in H
    <2>1. (k - 1) + 1 = k /\ k \in 1 .. n + 1 /\ k + 1 \in 2 .. n + 1 /\ (k + 1) - 1 = k /\ k + 1 \in 1 .. n + 1 /\ k \in 0 .. n
      OBVIOUS
    <2>2. Covers(from, to, Span(a, E(k), c, F(k)), flat[k])
      BY <1>14, <2>1
    <2>3. PICK i \in Nat, j \in Nat : s[k][1] = i /\ s[k][2] = j /\ from[i] = to[j]
      BY <1>8
    <2>4. Covers(from, to, Span(a, i, c, j), flat[k])
      BY <1>11, <2>2, <2>3
    <2>5. Covers(from, to, Span(i, i + 1, j, j + 1), <<>>)
      <3>1. i \in Int /\ j \in Int
        OBVIOUS
      <3> QED BY <2>3, <3>1, CoversLine, Zenon
    <2>6. flat[k] \in Seq(R) /\ <<>> \in Seq(R) /\ parts[k + 1] \in Seq(R)
      BY <1>6, <1>7, <2>1
    <2>7. flat[k] \o <<>> = flat[k]
      BY <2>6
    <2>8. Covers(from, to, Span(a, i + 1, c, j + 1), flat[k] \o <<>>)
      <3>1. /\ a \in Int /\ c \in Int /\ i \in Int /\ j \in Int /\ i + 1 \in Int /\ j + 1 \in Int
            /\ flat[k] \in Seq(Ranges(from, to)) /\ <<>> \in Seq(Ranges(from, to))
        BY <2>6 DEF R
      <3> QED BY <2>4, <2>5, <3>1, CoversJoin, Zenon
    <2>9. Gap(r, s, k + 1) = Span(i + 1, E(k + 1), j + 1, F(k + 1))
      BY <1>10, <2>1, <2>3
    <2>10. Covers(from, to, Span(i + 1, E(k + 1), j + 1, F(k + 1)), parts[k + 1])
      BY <1>7, <2>1, <2>9
    <2>11. E(k + 1) \in Int /\ F(k + 1) \in Int /\ i + 1 \in Int /\ j + 1 \in Int
      BY <1>9, <2>1
    <2>12. Covers(from, to, Span(a, i + 1, c, j + 1), flat[k])
      BY <2>7, <2>8
    <2>13. Covers(from, to, Span(a, E(k + 1), c, F(k + 1)), flat[k] \o parts[k + 1])
      BY <2>6, <2>10, <2>11, <2>12, CoversJoin DEF R
    <2>14. flat[k + 1] = flat[k] \o parts[k + 1]
      BY <1>6, <2>1
    <2> QED BY <2>1, <2>13, <2>14
  <1>15. n \in H
    <2>1. 0 .. n \subseteq H
      <3> HIDE DEF H
      <3> QED BY <1>13, <1>14, OnNat
    <2> QED BY <2>1
  <1>16. Covers(from, to, Span(a, b, c, d), flat[n + 1])
    BY <1>12, <1>15
  <1>17. r = Span(a, b, c, d)
    BY <1>1 DEF Proper
  <1>18. FlattenSeq(parts) \in Seq(R) /\ Covers(from, to, r, FlattenSeq(parts))
    <2>1. n + 1 \in 1 .. n + 1
      OBVIOUS
    <2> QED BY <1>4, <1>5, <1>6, <1>16, <1>17, <2>1
  <1> QED BY <1>18 DEF parts, R

LEMMA BetweenCovers ==
    ASSUME NEW S, NEW from \in Seq(S), NEW to \in Seq(S), NEW r, Proper(from, to, r),
           NEW s, Anchored(from, to, r.fs, r.fe, r.ts, r.te, s), NEW within,
           \/ s = <<>>
           \/ /\ within \in [Ranges(from, to) -> Seq(Ranges(from, to))]
              /\ \A g \in Ranges(from, to) : Covers(from, to, g, within[g])
    PROVE  /\ BlocksBetween(r, s, within) \in Seq(Ranges(from, to))
           /\ Covers(from, to, r, BlocksBetween(r, s, within))
  <1>1. CASE r.fs = r.fe /\ r.ts = r.te
    <2>1. PICK a \in Nat, c \in Nat : r.fs = a /\ r.ts = c /\ r = Span(a, a, c, c)
      <3>1. r = Span(r.fs, r.fe, r.ts, r.te) /\ r.fs \in Nat /\ r.ts \in Nat
        BY ProperParts DEF Proper
      <3>2. r = Span(r.fs, r.fs, r.ts, r.ts)
        BY <1>1, <3>1
      <3> QED BY <3>1, <3>2
    <2>2. a <= a /\ a - a = c - c /\ 0 .. (a - a - 1) = {}
      OBVIOUS
    <2>3. r.fs = a /\ r.fe = a /\ r.ts = c /\ r.te = c
      BY <1>1, <2>1
    <2>4. Equal(from, to, r)
      BY <2>2, <2>3 DEF Equal
    <2>5. Covers(from, to, r, <<>>)
      BY <2>1, <2>4, CoversNothing
    <2>6. BlocksBetween(r, s, within) = <<>>
      BY <1>1 DEF BlocksBetween
    <2> QED BY <2>5, <2>6
  <1>2. CASE ~ (r.fs = r.fe /\ r.ts = r.te) /\ s = <<>>
    <2>1. BlocksBetween(r, s, within) = <<r>>
      BY <1>2 DEF BlocksBetween
    <2>2. <<r>> \in Seq(Ranges(from, to))
      <3>1. r \in Ranges(from, to)
        BY DEF Proper
      <3> QED BY <3>1
    <2>3. Covers(from, to, r, <<r>>)
      BY <1>2, CoversOne
    <2> QED BY <2>1, <2>2, <2>3
  <1>3. CASE ~ (r.fs = r.fe /\ r.ts = r.te) /\ s # <<>>
    <2>1. /\ within \in [Ranges(from, to) -> Seq(Ranges(from, to))]
          /\ \A g \in Ranges(from, to) : Covers(from, to, g, within[g])
      BY <1>3
    <2> DEFINE blocks == FlattenSeq([k \in 1 .. (Len(s) + 1) |-> within[Gap(r, s, k)]])
    <2>2. BlocksBetween(r, s, within) = blocks
      BY <1>3 DEF BlocksBetween
    <2>3. blocks \in Seq(Ranges(from, to)) /\ Covers(from, to, r, blocks)
      BY <2>1, BlocksCover
    <2> QED BY <2>2, <2>3
  <1> QED BY <1>1, <1>2, <1>3

LEMMA StrippedProper ==
    ASSUME NEW S, NEW from \in Seq(S), NEW to \in Seq(S), NEW r, Proper(from, to, r)
    PROVE  LET s == Stripped(from, to, r)
           IN /\ Proper(from, to, s)
              /\ Equal(from, to, Span(r.fs, s.fs, r.ts, s.ts))
              /\ Equal(from, to, Span(s.fe, r.fe, s.te, r.te))
  <1> DEFINE t == StripStart(from, to, r)
             s == StripEnd(from, to, t)
  <1>1. Proper(from, to, t) /\ t.fe = r.fe /\ t.te = r.te /\ Equal(from, to, Span(r.fs, t.fs, r.ts, t.ts))
    BY StartStripped
  <1>2. Proper(from, to, s) /\ s.fs = t.fs /\ s.ts = t.ts /\ Equal(from, to, Span(s.fe, t.fe, s.te, t.te))
    <2> HIDE DEF t
    <2> QED BY <1>1, EndStripped
  <1>3. s = Stripped(from, to, r)
    BY DEF Stripped
  <1> HIDE DEF s, t
  <1> QED BY <1>1, <1>2, <1>3

LEMMA StrippedCovers ==
    ASSUME NEW S, NEW from \in Seq(S), NEW to \in Seq(S), NEW r, Proper(from, to, r),
           NEW blocks \in Seq(Ranges(from, to)), Covers(from, to, Stripped(from, to, r), blocks)
    PROVE  Covers(from, to, r, blocks)
  <1> DEFINE s == Stripped(from, to, r)
  <1>1. /\ Proper(from, to, s)
        /\ Equal(from, to, Span(r.fs, s.fs, r.ts, s.ts))
        /\ Equal(from, to, Span(s.fe, r.fe, s.te, r.te))
    BY StrippedProper
  <1>2. Covers(from, to, s, blocks)
    OBVIOUS
  <1> HIDE DEF s
  <1>3. PICK a \in Nat, b \in Nat, c \in Nat, d \in Nat : r.fs = a /\ r.fe = b /\ r.ts = c /\ r.te = d
    <2>1. r.fs \in Nat /\ r.fe \in Nat /\ r.ts \in Nat /\ r.te \in Nat
      BY DEF Proper
    <2> QED BY <2>1
  <1>4. PICK x \in Nat, v \in Nat, y \in Nat, w \in Nat : s.fs = x /\ s.fe = v /\ s.ts = y /\ s.te = w
    BY <1>1, ProperParts
  <1>5. r = Span(a, b, c, d) /\ s = Span(x, v, y, w)
    BY <1>1, <1>3, <1>4 DEF Proper
  <1>6. Covers(from, to, Span(a, x, c, y), <<>>) /\ Covers(from, to, Span(v, b, w, d), <<>>)
    BY <1>1, <1>3, <1>4, CoversNothing
  <1>7. /\ a \in Int /\ b \in Int /\ c \in Int /\ d \in Int /\ x \in Int /\ v \in Int /\ y \in Int /\ w \in Int
        /\ <<>> \in Seq(Ranges(from, to)) /\ <<>> \o blocks = blocks /\ blocks \o <<>> = blocks
    OBVIOUS
  <1>8. Covers(from, to, Span(x, v, y, w), blocks)
    BY <1>2, <1>5
  <1>9. Covers(from, to, Span(a, v, c, w), <<>> \o blocks)
    BY <1>6, <1>7, <1>8, CoversJoin, Zenon
  <1>10. Covers(from, to, Span(a, v, c, w), blocks)
    BY <1>7, <1>9
  <1>11. Covers(from, to, Span(a, b, c, d), blocks \o <<>>)
    BY <1>6, <1>7, <1>10, CoversJoin, Zenon
  <1> QED BY <1>5, <1>7, <1>11

\* What the blocks of every range are when those of the ranges within anchors are given.
BlocksWith(from, to, anchored, within) ==
    [range \in Ranges(from, to) |->
       BlocksBetween(Stripped(from, to, range),
                     IF anchored THEN Anchors(from, to, Stripped(from, to, range)) ELSE <<>>, within)]

\* Blocks for every range that cover it.
Coverings(from, to) ==
    {w \in [Ranges(from, to) -> Seq(Ranges(from, to))] :
       \A g \in Ranges(from, to) : Covers(from, to, g, w[g])}

LEMMA BlocksWithCover ==
    ASSUME NEW S, NEW from \in Seq(S), NEW to \in Seq(S), NEW anchored \in BOOLEAN, NEW within,
           anchored => within \in Coverings(from, to)
    PROVE  BlocksWith(from, to, anchored, within) \in Coverings(from, to)
  <1> DEFINE R == Ranges(from, to)
             Blocks(g) == BlocksBetween(Stripped(from, to, g),
                     IF anchored THEN Anchors(from, to, Stripped(from, to, g)) ELSE <<>>, within)
  <1>1. ASSUME NEW g \in R PROVE Blocks(g) \in Seq(R) /\ Covers(from, to, g, Blocks(g))
    <2> DEFINE r == Stripped(from, to, g)
               s == IF anchored THEN Anchors(from, to, r) ELSE <<>>
    <2>1. Proper(from, to, g)
      BY RangeParts
    <2>2. Proper(from, to, r)
      BY <2>1, StrippedProper
    <2>3. Anchored(from, to, r.fs, r.fe, r.ts, r.te, s)
      <3> HIDE DEF r
      <3>1. Anchored(from, to, r.fs, r.fe, r.ts, r.te, <<>>)
        BY NothingAnchored
      <3>2. Anchored(from, to, r.fs, r.fe, r.ts, r.te, Anchors(from, to, r))
        BY <2>2, AnchorsFit
      <3> QED BY <3>1, <3>2
    <2>4. \/ s = <<>>
          \/ /\ within \in [R -> Seq(R)]
             /\ \A h \in R : Covers(from, to, h, within[h])
      BY DEF Coverings
    <2>5. Blocks(g) = BlocksBetween(r, s, within)
      OBVIOUS
    <2>6. BlocksBetween(r, s, within) \in Seq(R) /\ Covers(from, to, r, BlocksBetween(r, s, within))
      <3> HIDE DEF r, s
      <3> QED BY <2>2, <2>3, <2>4, BetweenCovers
    <2> HIDE DEF s, Blocks, R
    <2>7. Covers(from, to, g, Blocks(g))
      BY <2>1, <2>5, <2>6, StrippedCovers DEF R
    <2> QED BY <2>5, <2>6, <2>7
  <1>2. BlocksWith(from, to, anchored, within) = [g \in R |-> Blocks(g)]
    BY DEF BlocksWith
  <1> HIDE DEF Blocks, R
  <1> DEFINE w == [g \in R |-> Blocks(g)]
  <1>3. w \in [R -> Seq(R)] /\ \A g \in R : Covers(from, to, g, w[g])
    BY <1>1
  <1>4. w \in Coverings(from, to)
    <2> HIDE DEF w
    <2> QED BY <1>3 DEF Coverings, R
  <1> QED BY <1>2, <1>4

\* Whatever the limits are, the blocks of two texts cover them.
LEMMA CollectCovers ==
    ASSUME NEW S, NEW from \in Seq(S), NEW to \in Seq(S)
    PROVE  CollectMarkdownDiffBlocks(from, to) \in Coverings(from, to)
  <1> DEFINE D == MaxMarkdownDiffDepth
             R == Ranges(from, to)
             P == 0 .. D
             Stop == {0}
             m == [n \in P |-> n]
             prev == [n \in P |-> IF n = 0 THEN 0 ELSE n - 1]
             X == Coverings(from, to)
             none == BlocksWith(from, to, FALSE, <<>>)
             Deeper(x) == BlocksWith(from, to, TRUE, x)
             first == [n \in P |-> none]
             step == [n \in P |-> [x \in X |-> Deeper(x)]]
  <1>1. D \in Nat /\ 0 \in P /\ D \in P
    BY DiffLimitsAssumption
  <1>2. none \in X
    BY BlocksWithCover
  <1>3. ASSUME NEW x \in X PROVE Deeper(x) \in X
    BY BlocksWithCover
  <1> HIDE DEF X, none, Deeper, D
  <1>4. m \in [P -> Nat] /\ prev \in [P -> P] /\ \A n \in P \ Stop : m[prev[n]] < m[n]
    <2>1. \A n \in P : n \in Nat
      BY <1>1
    <2>2. \A n \in P : n # 0 => n - 1 \in P /\ n - 1 < n
      BY <1>1
    <2>3. m \in [P -> Nat] /\ prev \in [P -> P]
      <3> HIDE DEF P
      <3> QED BY <1>1, <2>1, <2>2
    <2>4. ASSUME NEW n \in P \ Stop PROVE m[prev[n]] < m[n]
      <3>1. n - 1 \in P /\ prev[n] = n - 1
        BY <2>2
      <3>2. m[n - 1] = n - 1 /\ m[n] = n
        BY <3>1
      <3> HIDE DEF P, m, prev
      <3> QED BY <2>2, <3>1, <3>2
    <2> QED BY <2>3, <2>4
  <1>5. first \in [P -> X] /\ step \in [P -> [X -> X]]
    <2> HIDE DEF P
    <2> QED BY <1>2, <1>3
  <1>6. PICK f \in [P -> X] : Unfolds(P, Stop, prev, first, step, f)
    <2> HIDE DEF P, Stop, m, prev, first, step
    <2> QED BY <1>4, <1>5, Recursion
  <1> DEFINE Value(g, n) == [range \in Ranges(from, to) |->
                LET r == Stripped(from, to, range)
                IN IF n = 0 THEN BlocksBetween(r, <<>>, <<>>)
                   ELSE BlocksBetween(r, Anchors(from, to, r), g[n - 1])]
             within == CHOOSE g : g = [n \in 0 .. MaxMarkdownDiffDepth |-> Value(g, n)]
  <1>7. ASSUME NEW g, NEW n PROVE Value(g, n) = IF n = 0 THEN none ELSE Deeper(g[n - 1])
    <2>1. CASE n = 0
      BY <2>1 DEF none, BlocksWith
    <2>2. CASE n # 0
      BY <2>2 DEF Deeper, BlocksWith
    <2> QED BY <2>1, <2>2
  <1>8. CollectMarkdownDiffBlocks(from, to) = within[D]
    BY DEF CollectMarkdownDiffBlocks, D
  <1> HIDE DEF Value
  <1>9. ASSUME NEW n \in P PROVE f[n] = Value(f, n)
    <2>1. CASE n = 0
      <3>1. n \in Stop /\ first[n] = none
        BY <2>1
      <3>2. f[n] = first[n]
        <4> HIDE DEF P, Stop, prev, first, step
        <4> QED BY <1>6, <3>1 DEF Unfolds
      <3> QED BY <1>7, <2>1, <3>1, <3>2
    <2>2. CASE n # 0
      <3>1. n \notin Stop /\ prev[n] = n - 1 /\ n - 1 \in P
        BY <1>1, <2>2
      <3>2. f[n - 1] \in X
        <4> HIDE DEF P
        <4> QED BY <1>6, <3>1
      <3>3. step[n][f[n - 1]] = Deeper(f[n - 1])
        <4> HIDE DEF P
        <4> QED BY <3>2
      <3>4. f[n] = step[n][f[n - 1]]
        <4> HIDE DEF P, Stop, prev, first, step
        <4> QED BY <1>6, <3>1 DEF Unfolds
      <3> QED BY <1>7, <2>2, <3>3, <3>4
    <2> QED BY <2>1, <2>2
  <1>10. f = [n \in 0 .. MaxMarkdownDiffDepth |-> Value(f, n)]
    <2>1. f = [n \in P |-> f[n]]
      <3> HIDE DEF P
      <3> QED BY <1>6
    <2>2. f = [n \in P |-> Value(f, n)]
      <3> HIDE DEF P
      <3> QED BY <1>9, <2>1
    <2> QED BY <2>2 DEF D
  <1>11. within = [n \in P |-> Value(within, n)]
    BY <1>10 DEF D
  <1> HIDE DEF within
  <1>12. ASSUME NEW n \in P PROVE within[n] = IF n = 0 THEN none ELSE Deeper(within[n - 1])
    <2>1. \A g : g = [k \in P |-> Value(within, k)] => g[n] = Value(within, n)
      <3> HIDE DEF P
      <3> QED OBVIOUS
    <2> QED BY <1>7, <1>11, <2>1
  <1> DEFINE H == {n \in P : within[n] \in X}
  <1>13. 0 \in H
    BY <1>1, <1>2, <1>12
  <1>14. ASSUME NEW n \in 1 .. D, n - 1 \in H PROVE n \in H
    <2>1. n \in P /\ n # 0 /\ within[n - 1] \in X
      BY <1>1, <1>14
    <2>2. Deeper(within[n - 1]) \in X
      BY <1>3, <2>1
    <2> QED BY <1>12, <2>1, <2>2
  <1>15. 0 .. D \subseteq H
    <2> HIDE DEF H, P
    <2> QED BY <1>1, <1>13, <1>14, OnNat
  <1>16. within[D] \in X
    BY <1>1, <1>15
  <1> QED BY <1>8, <1>16 DEF X

LEMMA BlocksOfTexts ==
    ASSUME NEW S, NEW from \in Seq(S), NEW to \in Seq(S)
    PROVE  LET blocks == CollectMarkdownDiffBlocks(from, to)[Whole(from, to)]
           IN blocks \in Seq(Ranges(from, to)) /\ Covers(from, to, Whole(from, to), blocks)
  <1>1. PICK i \in Nat, j \in Nat : Len(from) = i /\ Len(to) = j
    OBVIOUS
  <1>2. Proper(from, to, Span(1, i + 1, 1, j + 1))
    BY <1>1, ProperSpan
  <1>3. Whole(from, to) \in Ranges(from, to)
    BY <1>1, <1>2 DEF Whole, Proper
  <1>4. CollectMarkdownDiffBlocks(from, to) \in Coverings(from, to)
    BY CollectCovers
  <1> DEFINE w == CollectMarkdownDiffBlocks(from, to)
  <1> HIDE DEF w
  <1>5. w \in Coverings(from, to)
    BY <1>4 DEF w
  <1>6. w[Whole(from, to)] \in Seq(Ranges(from, to)) /\ Covers(from, to, Whole(from, to), w[Whole(from, to)])
    BY <1>3, <1>5 DEF Coverings
  <1> QED BY <1>6 DEF w

-----------------------------------------------------------------------------
(* Items                                                                   *)

ModifiedItem(from, to, r, k) ==
    [change |-> "modified", line |-> r.fs + k, old |-> from[r.fs + k], new |-> to[r.ts + k]]
RemovedItem(from, r, k) == [change |-> "removed", line |-> r.fs + k, old |-> from[r.fs + k], new |-> ""]
AddedItem(to, r, k) == [change |-> "added", line |-> r.ts + k, old |-> "", new |-> to[r.ts + k]]

\* As many lines of a block are paired as its shorter side has.
Paired(r) == Min({r.fe - r.fs, r.te - r.ts})

LEMMA PairedLines ==
    ASSUME NEW S, NEW from \in Seq(S), NEW to \in Seq(S), NEW r, Proper(from, to, r)
    PROVE  /\ r.fs \in Nat /\ r.fe \in Nat /\ r.ts \in Nat /\ r.te \in Nat /\ Paired(r) \in Nat
           /\ r.fs + Paired(r) <= r.fe /\ r.ts + Paired(r) <= r.te
  <1>1. PICK a \in Nat, b \in Nat, c \in Nat, d \in Nat :
               /\ r.fs = a /\ r.fe = b /\ r.ts = c /\ r.te = d
               /\ 1 <= a /\ a <= b /\ b <= Len(from) + 1 /\ 1 <= c /\ c <= d /\ d <= Len(to) + 1
    BY ProperParts
  <1> DEFINE i == b - a
             j == d - c
  <1>2. i \in Nat /\ j \in Nat
    BY <1>1
  <1>3. Paired(r) = Min({i, j})
    BY <1>1 DEF Paired
  <1>4. a + i = b /\ c + j = d
    BY <1>1
  <1> HIDE DEF i, j
  <1>5. PICK p : p = Paired(r) /\ p \in {i, j} /\ p <= i /\ p <= j
    <2>1. i \in Int /\ j \in Int
      BY <1>2
    <2>2. Min({i, j}) \in {i, j} /\ Min({i, j}) <= i /\ Min({i, j}) <= j
      BY <2>1, SmallerOfTwo
    <2> QED BY <1>3, <2>2
  <1>6. p \in Nat
    BY <1>2, <1>5
  <1>7. a + p <= b /\ c + p <= d
    BY <1>2, <1>4, <1>5, <1>6
  <1> QED BY <1>1, <1>5, <1>6, <1>7

LEMMA ModifiedParts ==
    ASSUME NEW from, NEW to, NEW r, NEW k
    PROVE  /\ ModifiedItem(from, to, r, k).change = "modified"
           /\ ModifiedItem(from, to, r, k).line = r.fs + k
           /\ ModifiedItem(from, to, r, k).old = from[r.fs + k]
           /\ ModifiedItem(from, to, r, k).new = to[r.ts + k]
  BY DEF ModifiedItem

LEMMA RemovedParts ==
    ASSUME NEW from, NEW r, NEW k
    PROVE  /\ RemovedItem(from, r, k).change = "removed"
           /\ RemovedItem(from, r, k).line = r.fs + k
           /\ RemovedItem(from, r, k).old = from[r.fs + k]
  BY DEF RemovedItem

LEMMA AddedParts ==
    ASSUME NEW to, NEW r, NEW k
    PROVE  /\ AddedItem(to, r, k).change = "added"
           /\ AddedItem(to, r, k).line = r.ts + k
           /\ AddedItem(to, r, k).new = to[r.ts + k]
  BY DEF AddedItem

\* What the items of a block are, one kind after the other.
LEMMA ItemsOfBlock ==
    ASSUME NEW from, NEW to, NEW r, r.fe - r.fs \in Int, r.te - r.ts \in Int
    PROVE  BlockItems(from, to, r) = {ModifiedItem(from, to, r, k) : k \in 0 .. (Paired(r) - 1)}
             \cup {RemovedItem(from, r, k) : k \in Paired(r) .. (r.fe - r.fs - 1)}
             \cup {AddedItem(to, r, k) : k \in Paired(r) .. (r.te - r.ts - 1)}
  BY DEF BlockItems, Paired, ModifiedItem, RemovedItem, AddedItem

LEMMA ItemIsOneOf ==
    ASSUME NEW S, NEW from \in Seq(S), NEW to \in Seq(S), NEW r, Proper(from, to, r),
           NEW i \in BlockItems(from, to, r)
    PROVE  \/ \E k \in 0 .. (Paired(r) - 1) : i = ModifiedItem(from, to, r, k)
           \/ \E k \in Paired(r) .. (r.fe - r.fs - 1) : i = RemovedItem(from, r, k)
           \/ \E k \in Paired(r) .. (r.te - r.ts - 1) : i = AddedItem(to, r, k)
  <1>1. r.fe - r.fs \in Int /\ r.te - r.ts \in Int
    BY PairedLines
  <1> QED BY <1>1, ItemsOfBlock

LEMMA ItemsAre ==
    ASSUME NEW S, NEW from \in Seq(S), NEW to \in Seq(S), NEW r, Proper(from, to, r)
    PROVE  /\ \A k \in 0 .. (Paired(r) - 1) : ModifiedItem(from, to, r, k) \in BlockItems(from, to, r)
           /\ \A k \in Paired(r) .. (r.fe - r.fs - 1) : RemovedItem(from, r, k) \in BlockItems(from, to, r)
           /\ \A k \in Paired(r) .. (r.te - r.ts - 1) : AddedItem(to, r, k) \in BlockItems(from, to, r)
  <1>1. r.fe - r.fs \in Int /\ r.te - r.ts \in Int
    BY PairedLines
  <1> QED BY <1>1, ItemsOfBlock

\* The items of a block say of each of its lines what it was and is, and nothing of another.
LEMMA BlockSays ==
    ASSUME NEW S, NEW from \in Seq(S), NEW to \in Seq(S), NEW r, Proper(from, to, r)
    PROVE  LET items == BlockItems(from, to, r)
           IN /\ \A i \in items : i.change \in {"modified", "removed"} =>
                    i.line \in r.fs .. r.fe - 1 /\ i.old = from[i.line]
              /\ \A n \in r.fs .. r.fe - 1 : \E i \in items :
                    i.change \in {"modified", "removed"} /\ i.line = n /\ i.old = from[n]
              /\ \A i \in items : i.change \in {"modified", "added"} =>
                    \E n \in r.ts .. r.te - 1 : i.new = to[n]
              /\ \A n \in r.ts .. r.te - 1 : \E i \in items :
                    i.change \in {"modified", "added"} /\ i.new = to[n]
              /\ \A i \in items : i.change = "added" => i.line \in r.ts .. r.te - 1 /\ i.new = to[i.line]
  <1> DEFINE items == BlockItems(from, to, r)
             p == Paired(r)
  <1>1. PICK a \in Nat, b \in Nat, c \in Nat, d \in Nat : r.fs = a /\ r.fe = b /\ r.ts = c /\ r.te = d
    BY PairedLines
  <1>2. p \in Nat /\ a + p <= b /\ c + p <= d
    BY <1>1, PairedLines
  <1>3. \A i \in items : \/ \E k \in 0 .. (p - 1) : i = ModifiedItem(from, to, r, k)
                         \/ \E k \in p .. (b - a - 1) : i = RemovedItem(from, r, k)
                         \/ \E k \in p .. (d - c - 1) : i = AddedItem(to, r, k)
    BY <1>1, ItemIsOneOf
  <1>4. /\ \A k \in 0 .. (p - 1) : ModifiedItem(from, to, r, k) \in items
        /\ \A k \in p .. (b - a - 1) : RemovedItem(from, r, k) \in items
        /\ \A k \in p .. (d - c - 1) : AddedItem(to, r, k) \in items
    BY <1>1, ItemsAre
  <1> HIDE DEF items, p
  <1>5. ASSUME NEW i \in items
        PROVE  /\ i.change \in {"modified", "removed"} => i.line \in a .. b - 1 /\ i.old = from[i.line]
               /\ i.change \in {"modified", "added"} => \E n \in c .. d - 1 : i.new = to[n]
               /\ i.change = "added" => i.line \in c .. d - 1 /\ i.new = to[i.line]
    <2>1. CASE \E k \in 0 .. (p - 1) : i = ModifiedItem(from, to, r, k)
      <3>1. PICK k \in 0 .. (p - 1) : i = ModifiedItem(from, to, r, k)
        BY <2>1
      <3>2. i.change = "modified" /\ i.line = a + k /\ i.old = from[a + k] /\ i.new = to[c + k]
        BY <1>1, <3>1, ModifiedParts
      <3>3. a + k \in a .. b - 1 /\ c + k \in c .. d - 1
        BY <1>2
      <3> QED BY <3>2, <3>3
    <2>2. CASE \E k \in p .. (b - a - 1) : i = RemovedItem(from, r, k)
      <3>1. PICK k \in p .. (b - a - 1) : i = RemovedItem(from, r, k)
        BY <2>2
      <3>2. i.change = "removed" /\ i.line = a + k /\ i.old = from[a + k]
        BY <1>1, <3>1, RemovedParts
      <3>3. a + k \in a .. b - 1
        BY <1>2
      <3> QED BY <3>2, <3>3
    <2>3. CASE \E k \in p .. (d - c - 1) : i = AddedItem(to, r, k)
      <3>1. PICK k \in p .. (d - c - 1) : i = AddedItem(to, r, k)
        BY <2>3
      <3>2. i.change = "added" /\ i.line = c + k /\ i.new = to[c + k]
        BY <1>1, <3>1, AddedParts
      <3>3. c + k \in c .. d - 1
        BY <1>2
      <3> QED BY <3>2, <3>3
    <2> QED BY <1>3, <2>1, <2>2, <2>3
  <1>6. ASSUME NEW n \in a .. b - 1
        PROVE  \E i \in items : i.change \in {"modified", "removed"} /\ i.line = n /\ i.old = from[n]
    <2>1. PICK k \in Int : k = n - a
      OBVIOUS
    <2>2. a + k = n
      BY <2>1
    <2>3. CASE k < p
      <3>1. k \in 0 .. (p - 1)
        BY <1>2, <2>1, <2>3
      <3> DEFINE i == ModifiedItem(from, to, r, k)
      <3>2. i \in items
        BY <1>4, <3>1
      <3>3. i.change = "modified" /\ i.line = n /\ i.old = from[n]
        <4>1. i.change = "modified" /\ i.line = r.fs + k /\ i.old = from[r.fs + k]
          BY ModifiedParts
        <4> QED BY <1>1, <2>2, <4>1
      <3> HIDE DEF i
      <3> QED BY <3>2, <3>3
    <2>4. CASE ~ (k < p)
      <3>1. k \in p .. (b - a - 1)
        BY <1>2, <2>1, <2>4
      <3> DEFINE i == RemovedItem(from, r, k)
      <3>2. i \in items
        BY <1>4, <3>1
      <3>3. i.change = "removed" /\ i.line = n /\ i.old = from[n]
        <4>1. i.change = "removed" /\ i.line = r.fs + k /\ i.old = from[r.fs + k]
          BY RemovedParts
        <4> QED BY <1>1, <2>2, <4>1
      <3> HIDE DEF i
      <3> QED BY <3>2, <3>3
    <2> QED BY <2>3, <2>4
  <1>7. ASSUME NEW n \in c .. d - 1
        PROVE  \E i \in items : i.change \in {"modified", "added"} /\ i.new = to[n]
    <2>1. PICK k \in Int : k = n - c
      OBVIOUS
    <2>2. c + k = n
      BY <2>1
    <2>3. CASE k < p
      <3>1. k \in 0 .. (p - 1)
        BY <1>2, <2>1, <2>3
      <3> DEFINE i == ModifiedItem(from, to, r, k)
      <3>2. i \in items
        BY <1>4, <3>1
      <3>3. i.change = "modified" /\ i.new = to[n]
        <4>1. i.change = "modified" /\ i.new = to[r.ts + k]
          BY ModifiedParts
        <4> QED BY <1>1, <2>2, <4>1
      <3> HIDE DEF i
      <3> QED BY <3>2, <3>3
    <2>4. CASE ~ (k < p)
      <3>1. k \in p .. (d - c - 1)
        BY <1>2, <2>1, <2>4
      <3> DEFINE i == AddedItem(to, r, k)
      <3>2. i \in items
        BY <1>4, <3>1
      <3>3. i.change = "added" /\ i.new = to[n]
        <4>1. i.change = "added" /\ i.new = to[r.ts + k]
          BY AddedParts
        <4> QED BY <1>1, <2>2, <4>1
      <3> HIDE DEF i
      <3> QED BY <3>2, <3>3
    <2> QED BY <2>3, <2>4
  <1> QED BY <1>1, <1>5, <1>6, <1>7 DEF items

LEMMA CountByLine ==
    ASSUME NEW a \in Int, NEW b \in Int, a <= b, NEW T,
           \A t \in T : t.line \in a .. b - 1,
           \A n \in a .. b - 1 : \E t \in T : t.line = n,
           \A t \in T : \A u \in T : t.line = u.line => t = u
    PROVE  IsFiniteSet(T) /\ Cardinality(T) = b - a
  <1> DEFINE I == a .. b - 1
             f == [t \in T |-> t.line]
  <1>1. IsFiniteSet(I) /\ Cardinality(I) = b - a
    <2>1. b - 1 \in Int
      OBVIOUS
    <2>2. IsFiniteSet(a .. b - 1) /\ Cardinality(a .. b - 1) = IF a > b - 1 THEN 0 ELSE (b - 1) - a + 1
      BY <2>1, FS_Interval, Zenon
    <2> QED BY <2>2
  <1> HIDE DEF I
  <1>2. f \in [T -> I] /\ \A t \in T : f[t] = t.line
    BY DEF I
  <1> HIDE DEF f
  <1>3. f \in Injection(T, I)
    <2>1. \A t \in T : \A u \in T : f[t] = f[u] => t = u
      <3> SUFFICES ASSUME NEW t \in T, NEW u \in T, f[t] = f[u] PROVE t = u
        OBVIOUS
      <3>1. t.line = u.line
        BY <1>2
      <3> QED BY <3>1
    <2> QED BY <1>2, <2>1 DEF Injection, IsInjective
  <1>4. f \in Surjection(T, I)
    BY <1>2 DEF Surjection, I
  <1>5. IsFiniteSet(T) /\ Cardinality(T) = Cardinality(I)
    BY <1>1, <1>3, <1>4, FS_Injection
  <1> QED BY <1>1, <1>5

LEMMA BlockCounts ==
    ASSUME NEW S, NEW from \in Seq(S), NEW to \in Seq(S), NEW r, Proper(from, to, r)
    PROVE  LET added == Said(BlockItems(from, to, r), {"added"})
               removed == Said(BlockItems(from, to, r), {"removed"})
           IN /\ IsFiniteSet(added) /\ IsFiniteSet(removed)
              /\ Cardinality(added) \in Nat /\ Cardinality(removed) \in Nat
              /\ (r.fe - r.fs) + Cardinality(added) = (r.te - r.ts) + Cardinality(removed)
              /\ \A i \in added : i.line \in r.ts .. r.te - 1
              /\ \A i \in removed : i.line \in r.fs .. r.fe - 1
  <1> DEFINE items == BlockItems(from, to, r)
             p == Paired(r)
             added == Said(items, {"added"})
             removed == Said(items, {"removed"})
  <1>1. PICK a \in Nat, b \in Nat, c \in Nat, d \in Nat : r.fs = a /\ r.fe = b /\ r.ts = c /\ r.te = d
    BY PairedLines
  <1>2. p \in Nat /\ a + p <= b /\ c + p <= d
    BY <1>1, PairedLines
  <1>3. \A i \in items : \/ \E k \in 0 .. (p - 1) : i = ModifiedItem(from, to, r, k)
                         \/ \E k \in p .. (b - a - 1) : i = RemovedItem(from, r, k)
                         \/ \E k \in p .. (d - c - 1) : i = AddedItem(to, r, k)
    BY <1>1, ItemIsOneOf
  <1>4. /\ \A k \in p .. (b - a - 1) : RemovedItem(from, r, k) \in items
        /\ \A k \in p .. (d - c - 1) : AddedItem(to, r, k) \in items
    BY <1>1, ItemsAre
  <1> HIDE DEF items, p
  <1>5. ASSUME NEW i \in added PROVE \E k \in p .. (d - c - 1) : i = AddedItem(to, r, k)
    <2>1. i \in items /\ i.change = "added"
      BY DEF Said
    <2>2. \A k : ModifiedItem(from, to, r, k).change = "modified"
      BY ModifiedParts
    <2>3. \A k : RemovedItem(from, r, k).change = "removed"
      BY RemovedParts
    <2> QED BY <1>3, <2>1, <2>2, <2>3
  <1>6. ASSUME NEW i \in removed PROVE \E k \in p .. (b - a - 1) : i = RemovedItem(from, r, k)
    <2>1. i \in items /\ i.change = "removed"
      BY DEF Said
    <2>2. \A k : ModifiedItem(from, to, r, k).change = "modified"
      BY ModifiedParts
    <2>3. \A k : AddedItem(to, r, k).change = "added"
      BY AddedParts
    <2> QED BY <1>3, <2>1, <2>2, <2>3
  <1>7. \A k \in p .. (d - c - 1) : AddedItem(to, r, k) \in added
    <2>1. \A k : AddedItem(to, r, k).change = "added"
      BY AddedParts
    <2> QED BY <1>4, <2>1 DEF Said
  <1>8. \A k \in p .. (b - a - 1) : RemovedItem(from, r, k) \in removed
    <2>1. \A k : RemovedItem(from, r, k).change = "removed"
      BY RemovedParts
    <2> QED BY <1>4, <2>1 DEF Said
  <1> HIDE DEF added, removed
  <1>9. \A k : AddedItem(to, r, k).line = c + k
    BY <1>1, AddedParts
  <1>10. \A k : RemovedItem(from, r, k).line = a + k
    BY <1>1, RemovedParts
  <1>11. PICK g \in Int, h \in Int : g = a + p /\ h = c + p
    BY <1>2
  <1>12. IsFiniteSet(added) /\ Cardinality(added) = d - h
    <2>1. \A t \in added : t.line \in h .. d - 1
      <3> SUFFICES ASSUME NEW t \in added PROVE t.line \in h .. d - 1
        OBVIOUS
      <3>1. PICK k \in p .. (d - c - 1) : t = AddedItem(to, r, k)
        BY <1>5
      <3>2. t.line = c + k
        BY <1>9, <3>1
      <3> QED BY <1>2, <1>11, <3>2
    <2>2. \A n \in h .. d - 1 : \E t \in added : t.line = n
      <3> SUFFICES ASSUME NEW n \in h .. d - 1 PROVE \E t \in added : t.line = n
        OBVIOUS
      <3>1. PICK k \in p .. (d - c - 1) : c + k = n
        <4>1. n - c \in p .. (d - c - 1) /\ c + (n - c) = n
          BY <1>2, <1>11
        <4> QED BY <4>1
      <3>2. AddedItem(to, r, k).line = n
        BY <1>9, <3>1
      <3> QED BY <1>7, <3>1, <3>2
    <2>3. \A t \in added : \A u \in added : t.line = u.line => t = u
      <3> SUFFICES ASSUME NEW t \in added, NEW u \in added, t.line = u.line PROVE t = u
        OBVIOUS
      <3>1. PICK k \in p .. (d - c - 1) : t = AddedItem(to, r, k)
        BY <1>5
      <3>2. PICK l \in p .. (d - c - 1) : u = AddedItem(to, r, l)
        BY <1>5
      <3>3. c + k = c + l
        BY <1>9, <3>1, <3>2
      <3>4. k = l
        BY <1>2, <3>3
      <3> QED BY <3>1, <3>2, <3>4
    <2>4. d \in Int /\ h <= d
      BY <1>2, <1>11
    <2> QED BY <2>1, <2>2, <2>3, <2>4, CountByLine
  <1>13. IsFiniteSet(removed) /\ Cardinality(removed) = b - g
    <2>1. \A t \in removed : t.line \in g .. b - 1
      <3> SUFFICES ASSUME NEW t \in removed PROVE t.line \in g .. b - 1
        OBVIOUS
      <3>1. PICK k \in p .. (b - a - 1) : t = RemovedItem(from, r, k)
        BY <1>6
      <3>2. t.line = a + k
        BY <1>10, <3>1
      <3> QED BY <1>2, <1>11, <3>2
    <2>2. \A n \in g .. b - 1 : \E t \in removed : t.line = n
      <3> SUFFICES ASSUME NEW n \in g .. b - 1 PROVE \E t \in removed : t.line = n
        OBVIOUS
      <3>1. PICK k \in p .. (b - a - 1) : a + k = n
        <4>1. n - a \in p .. (b - a - 1) /\ a + (n - a) = n
          BY <1>2, <1>11
        <4> QED BY <4>1
      <3>2. RemovedItem(from, r, k).line = n
        BY <1>10, <3>1
      <3> QED BY <1>8, <3>1, <3>2
    <2>3. \A t \in removed : \A u \in removed : t.line = u.line => t = u
      <3> SUFFICES ASSUME NEW t \in removed, NEW u \in removed, t.line = u.line PROVE t = u
        OBVIOUS
      <3>1. PICK k \in p .. (b - a - 1) : t = RemovedItem(from, r, k)
        BY <1>6
      <3>2. PICK l \in p .. (b - a - 1) : u = RemovedItem(from, r, l)
        BY <1>6
      <3>3. a + k = a + l
        BY <1>10, <3>1, <3>2
      <3>4. k = l
        BY <1>2, <3>3
      <3> QED BY <3>1, <3>2, <3>4
    <2>4. b \in Int /\ g <= b
      BY <1>2, <1>11
    <2> QED BY <2>1, <2>2, <2>3, <2>4, CountByLine
  <1>14. \A i \in added : i.line \in c .. d - 1
    <2> SUFFICES ASSUME NEW i \in added PROVE i.line \in c .. d - 1
      OBVIOUS
    <2>1. PICK k \in p .. (d - c - 1) : i = AddedItem(to, r, k)
      BY <1>5
    <2> QED BY <1>2, <1>9, <2>1
  <1>15. \A i \in removed : i.line \in a .. b - 1
    <2> SUFFICES ASSUME NEW i \in removed PROVE i.line \in a .. b - 1
      OBVIOUS
    <2>1. PICK k \in p .. (b - a - 1) : i = RemovedItem(from, r, k)
      BY <1>6
    <2> QED BY <1>2, <1>10, <2>1
  <1>16. /\ Cardinality(added) \in Nat /\ Cardinality(removed) \in Nat
         /\ (b - a) + Cardinality(added) = (d - c) + Cardinality(removed)
    BY <1>2, <1>11, <1>12, <1>13
  <1> QED BY <1>1, <1>12, <1>13, <1>14, <1>15, <1>16 DEF items, added, removed

LEMMA DisjointUnion ==
    ASSUME NEW T, NEW U, IsFiniteSet(T), IsFiniteSet(U), T \cap U = {}
    PROVE  IsFiniteSet(T \cup U) /\ Cardinality(T \cup U) = Cardinality(T) + Cardinality(U)
  <1>1. Cardinality(T) \in Nat /\ Cardinality(U) \in Nat
    BY FS_CardinalityType
  <1>2. IsFiniteSet(T \cup U) /\ Cardinality(T \cup U) = Cardinality(T) + Cardinality(U) - Cardinality(T \cap U)
    BY FS_Union
  <1>3. Cardinality(T \cap U) = 0
    BY FS_EmptySet
  <1> QED BY <1>1, <1>2, <1>3

\* The items of one block, and of the first blocks, that are said to be changes of one kind.
SaidOf(from, to, blocks, change, j) == Said(BlockItems(from, to, blocks[j]), {change})
SaidUpTo(from, to, blocks, change, n) == UNION {SaidOf(from, to, blocks, change, j) : j \in 1 .. n}

\* Where the n-th block ends; before the first, the beginning.
EndOf(blocks, end, n) == IF n = 0 THEN 1 ELSE blocks[n][end]

\* After any number of blocks the lines passed and the items said of them add up.
LEMMA CountsAddUp ==
    ASSUME NEW S, NEW from \in Seq(S), NEW to \in Seq(S), NEW blocks \in Seq(Ranges(from, to)),
           Covers(from, to, Whole(from, to), blocks)
    PROVE  Len(from) + Cardinality(SaidUpTo(from, to, blocks, "added", Len(blocks)))
             = Len(to) + Cardinality(SaidUpTo(from, to, blocks, "removed", Len(blocks)))
  <1>1. PICK N \in Nat, lf \in Nat, lt \in Nat : N = Len(blocks) /\ lf = Len(from) /\ lt = Len(to)
    OBVIOUS
  <1> DEFINE A(n) == SaidUpTo(from, to, blocks, "added", n)
             B(n) == SaidUpTo(from, to, blocks, "removed", n)
             E(n) == EndOf(blocks, "fe", n)
             F(n) == EndOf(blocks, "te", n)
             Whole1 == Whole(from, to)
  <1>2. \A n \in 1 .. N : Proper(from, to, blocks[n])
    <2> SUFFICES ASSUME NEW n \in 1 .. N PROVE Proper(from, to, blocks[n])
      OBVIOUS
    <2>1. blocks[n] \in Ranges(from, to)
      BY <1>1
    <2> QED BY <2>1, RangeParts
  <1>3. \A n \in 0 .. N : E(n) \in Nat /\ F(n) \in Nat
    <2> SUFFICES ASSUME NEW n \in 0 .. N PROVE E(n) \in Nat /\ F(n) \in Nat
      OBVIOUS
    <2>1. CASE n = 0
      BY <2>1 DEF EndOf
    <2>2. CASE n # 0
      <3>1. n \in 1 .. N
        BY <2>2
      <3>2. blocks[n].fe \in Nat /\ blocks[n].te \in Nat
        BY <1>2, <3>1, PairedLines
      <3> QED BY <2>2, <3>2 DEF EndOf
    <2> QED BY <2>1, <2>2
  <1>4. Whole1.fs = 1 /\ Whole1.fe = lf + 1 /\ Whole1.ts = 1 /\ Whole1.te = lt + 1
    BY <1>1, SpanParts DEF Whole
  <1>5. \A n \in 0 .. N : Equal(from, to, Between(Whole1, blocks, n))
    BY <1>1 DEF Covers
  <1>6. ASSUME NEW n \in 1 .. N
        PROVE  /\ E(n - 1) <= blocks[n].fs
               /\ blocks[n].fs - E(n - 1) = blocks[n].ts - F(n - 1)
    <2>1. n - 1 \in 0 .. N /\ n - 1 # N /\ (n - 1) + 1 = n
      OBVIOUS
    <2>2. Equal(from, to, Between(Whole1, blocks, n - 1))
      BY <1>5, <2>1
    <2>3. Between(Whole1, blocks, n - 1) = Span(E(n - 1), blocks[n].fs, F(n - 1), blocks[n].ts)
      BY <1>1, <1>4, <2>1 DEF Between, EndOf
    <2> HIDE DEF E, F
    <2>4. Equal(from, to, Span(E(n - 1), blocks[n].fs, F(n - 1), blocks[n].ts))
      BY <2>2, <2>3
    <2> QED BY <2>4, SpanParts DEF Equal
  <1>7. lf + 1 - E(N) = lt + 1 - F(N)
    <2>1. Equal(from, to, Between(Whole1, blocks, N))
      BY <1>5
    <2>2. Between(Whole1, blocks, N) = Span(E(N), lf + 1, F(N), lt + 1)
      BY <1>1, <1>4 DEF Between, EndOf
    <2> HIDE DEF E, F
    <2>3. Equal(from, to, Span(E(N), lf + 1, F(N), lt + 1))
      BY <2>1, <2>2
    <2>4. PICK r : r = Span(E(N), lf + 1, F(N), lt + 1)
      OBVIOUS
    <2>5. r.fe - r.fs = r.te - r.ts
      BY <2>3, <2>4 DEF Equal
    <2>6. r.fs = E(N) /\ r.fe = lf + 1 /\ r.ts = F(N) /\ r.te = lt + 1
      BY <2>4, SpanParts
    <2>7. PICK v \in Nat, w \in Nat : v = E(N) /\ w = F(N)
      <3>1. N \in 0 .. N
        OBVIOUS
      <3> QED BY <1>3, <3>1 DEF E, F
    <2>8. (lf + 1) - v = (lt + 1) - w
      BY <2>5, <2>6, <2>7
    <2> QED BY <2>7, <2>8
  <1>8. A(0) = {} /\ B(0) = {}
    <2>1. 1 .. 0 = {}
      OBVIOUS
    <2> QED BY <2>1 DEF SaidUpTo
  <1>9. \A n \in 1 .. N : E(n) = blocks[n].fe /\ F(n) = blocks[n].te
    BY DEF EndOf
  <1>10. E(0) = 1 /\ F(0) = 1
    BY DEF EndOf
  <1>11. ASSUME NEW n \in 1 .. N
         PROVE  /\ A(n) = A(n - 1) \cup Said(BlockItems(from, to, blocks[n]), {"added"})
                /\ B(n) = B(n - 1) \cup Said(BlockItems(from, to, blocks[n]), {"removed"})
    <2>2. 1 .. n = (1 .. (n - 1)) \cup {n}
      OBVIOUS
    <2>3. ASSUME NEW change
          PROVE  SaidUpTo(from, to, blocks, change, n)
                   = SaidUpTo(from, to, blocks, change, n - 1) \cup SaidOf(from, to, blocks, change, n)
      BY <2>2 DEF SaidUpTo
    <2> QED BY <2>3 DEF SaidOf
  <1> HIDE DEF A, B, E, F, Whole1
  <1> DEFINE H == {n \in 0 .. N :
                     /\ IsFiniteSet(A(n)) /\ IsFiniteSet(B(n))
                     /\ Cardinality(A(n)) \in Nat /\ Cardinality(B(n)) \in Nat
                     /\ E(n) + Cardinality(A(n)) = F(n) + Cardinality(B(n))
                     /\ \A i \in A(n) : i.line \in Int /\ i.line < F(n)
                     /\ \A i \in B(n) : i.line \in Int /\ i.line < E(n)}
  <1>12. 0 \in H
    <2>1. IsFiniteSet({}) /\ Cardinality({}) = 0 /\ 0 \in 0 .. N
      BY FS_EmptySet
    <2>2. IsFiniteSet(A(0)) /\ IsFiniteSet(B(0)) /\ Cardinality(A(0)) = 0 /\ Cardinality(B(0)) = 0
      BY <1>8, <2>1
    <2>3. E(0) + Cardinality(A(0)) = F(0) + Cardinality(B(0))
      BY <1>10, <2>2
    <2>4. (\A i \in A(0) : i.line \in Int /\ i.line < F(0)) /\ \A i \in B(0) : i.line \in Int /\ i.line < E(0)
      BY <1>8
    <2>5. Cardinality(A(0)) \in Nat /\ Cardinality(B(0)) \in Nat
      BY <2>2
    <2> QED BY <2>1, <2>2, <2>3, <2>4, <2>5
  <1>13. ASSUME NEW n \in 1 .. N, n - 1 \in H PROVE n \in H
    <2> DEFINE added == Said(BlockItems(from, to, blocks[n]), {"added"})
               removed == Said(BlockItems(from, to, blocks[n]), {"removed"})
    <2>1. Proper(from, to, blocks[n])
      BY <1>2
    <2>2. PICK a \in Nat, b \in Nat, c \in Nat, d \in Nat :
                 /\ blocks[n].fs = a /\ blocks[n].fe = b /\ blocks[n].ts = c /\ blocks[n].te = d
                 /\ a <= b /\ c <= d
      <3> HIDE DEF H, added, removed
      <3>1. blocks[n].fs \in Nat /\ blocks[n].fe \in Nat /\ blocks[n].ts \in Nat /\ blocks[n].te \in Nat
        BY <2>1, PairedLines, Zenon
      <3>2. blocks[n].fs <= blocks[n].fe /\ blocks[n].ts <= blocks[n].te
        BY <2>1, Zenon DEF Proper
      <3> QED BY <3>1, <3>2, Zenon
    <2>3. /\ IsFiniteSet(added) /\ IsFiniteSet(removed)
          /\ Cardinality(added) \in Nat /\ Cardinality(removed) \in Nat
          /\ (b - a) + Cardinality(added) = (d - c) + Cardinality(removed)
          /\ \A i \in added : i.line \in c .. d - 1
          /\ \A i \in removed : i.line \in a .. b - 1
      BY <2>1, <2>2, BlockCounts
    <2>4. A(n) = A(n - 1) \cup added /\ B(n) = B(n - 1) \cup removed
      BY <1>11
    <2> HIDE DEF added, removed
    <2>5. PICK v \in Nat, w \in Nat : v = E(n - 1) /\ w = F(n - 1) /\ v <= a /\ a - v = c - w
      <3>1. n - 1 \in 0 .. N
        OBVIOUS
      <3> QED BY <1>3, <1>6, <2>2, <3>1
    <2>6. w <= c
      BY <2>5
    <2>7. /\ IsFiniteSet(A(n - 1)) /\ IsFiniteSet(B(n - 1))
          /\ Cardinality(A(n - 1)) \in Nat /\ Cardinality(B(n - 1)) \in Nat
          /\ v + Cardinality(A(n - 1)) = w + Cardinality(B(n - 1))
          /\ \A i \in A(n - 1) : i.line \in Int /\ i.line < w
          /\ \A i \in B(n - 1) : i.line \in Int /\ i.line < v
      BY <1>13, <2>5
    <2>8. A(n - 1) \cap added = {}
      <3> SUFFICES ASSUME NEW i \in A(n - 1), i \in added PROVE FALSE
        OBVIOUS
      <3>1. i.line \in Int /\ i.line < w /\ i.line \in c .. d - 1
        BY <2>3, <2>7
      <3> QED BY <2>6, <3>1
    <2>9. B(n - 1) \cap removed = {}
      <3> SUFFICES ASSUME NEW i \in B(n - 1), i \in removed PROVE FALSE
        OBVIOUS
      <3>1. i.line \in Int /\ i.line < v /\ i.line \in a .. b - 1
        BY <2>3, <2>7
      <3> QED BY SMTT(30), <2>5, <3>1
    <2>10. IsFiniteSet(A(n)) /\ Cardinality(A(n)) = Cardinality(A(n - 1)) + Cardinality(added)
      <3>1. /\ IsFiniteSet(A(n - 1) \cup added)
            /\ Cardinality(A(n - 1) \cup added) = Cardinality(A(n - 1)) + Cardinality(added)
        BY <2>3, <2>7, <2>8, DisjointUnion, Zenon
      <3> QED BY <2>4, <3>1, Zenon
    <2>11. IsFiniteSet(B(n)) /\ Cardinality(B(n)) = Cardinality(B(n - 1)) + Cardinality(removed)
      <3>1. /\ IsFiniteSet(B(n - 1) \cup removed)
            /\ Cardinality(B(n - 1) \cup removed) = Cardinality(B(n - 1)) + Cardinality(removed)
        BY <2>3, <2>7, <2>9, DisjointUnion, Zenon
      <3> QED BY <2>4, <3>1, Zenon
    <2>12. E(n) = b /\ F(n) = d
      BY <1>9, <2>2
    <2>13. /\ Cardinality(A(n)) \in Nat /\ Cardinality(B(n)) \in Nat
           /\ b + Cardinality(A(n)) = d + Cardinality(B(n))
      <3>1. PICK g \in Nat, h \in Nat, x \in Nat, y \in Nat :
                   /\ g = Cardinality(A(n - 1)) /\ h = Cardinality(B(n - 1))
                   /\ x = Cardinality(added) /\ y = Cardinality(removed)
        BY <2>3, <2>7
      <3>2. v + g = w + h /\ (b - a) + x = (d - c) + y /\ a - v = c - w
        BY <2>3, <2>5, <2>7, <3>1
      <3>3. Cardinality(A(n)) = g + x /\ Cardinality(B(n)) = h + y
        BY <2>10, <2>11, <3>1
      <3>4. b + (g + x) = d + (h + y)
        BY <3>2
      <3> QED BY <3>3, <3>4
    <2>14. \A i \in A(n) : i.line \in Int /\ i.line < d
      <3> SUFFICES ASSUME NEW i \in A(n) PROVE i.line \in Int /\ i.line < d
        OBVIOUS
      <3>1. CASE i \in A(n - 1)
        <4>1. i.line \in Int /\ i.line < w
          BY <2>7, <3>1
        <4>2. w <= d
          BY <2>2, <2>6
        <4> QED BY <4>1, <4>2
      <3>2. CASE i \in added
        BY <2>3, <3>2
      <3> QED BY <2>4, <3>1, <3>2
    <2>15. \A i \in B(n) : i.line \in Int /\ i.line < b
      <3> SUFFICES ASSUME NEW i \in B(n) PROVE i.line \in Int /\ i.line < b
        OBVIOUS
      <3>1. CASE i \in B(n - 1)
        <4>1. i.line \in Int /\ i.line < v
          BY <2>7, <3>1
        <4>2. v <= b
          BY <2>2, <2>5
        <4> QED BY <4>1, <4>2
      <3>2. CASE i \in removed
        BY <2>3, <3>2
      <3> QED BY <2>4, <3>1, <3>2
    <2> QED BY <2>10, <2>11, <2>12, <2>13, <2>14, <2>15
  <1>14. 0 .. N \subseteq H
    <2> HIDE DEF H
    <2> QED BY <1>12, <1>13, OnNat
  <1>15. N \in H
    BY <1>14
  <1>16. PICK v \in Nat, w \in Nat, g \in Nat, h \in Nat :
              v = E(N) /\ w = F(N) /\ g = Cardinality(A(N)) /\ h = Cardinality(B(N)) /\ v + g = w + h
    BY <1>3, <1>15
  <1>17. lf + g = lt + h
    <2>1. lf + 1 - v = lt + 1 - w
      BY <1>7, <1>16
    <2>2. v + g = w + h
      BY <1>16
    <2> QED BY <2>1, <2>2
  <1> QED BY <1>1, <1>16, <1>17 DEF A, B

\* What the items of all blocks say.
LEMMA ItemsSay ==
    ASSUME NEW S, NEW from \in Seq(S), NEW to \in Seq(S), NEW blocks \in Seq(Ranges(from, to)),
           Covers(from, to, Whole(from, to), blocks), NEW items,
           items = UNION {BlockItems(from, to, blocks[k]) : k \in DOMAIN blocks}
    PROVE  Replays(from, to, blocks, items)
  <1> DEFINE M == {"modified", "removed"}
             W == {"modified", "added"}
             Old == Changed(blocks, "fs", "fe")
             New == Changed(blocks, "ts", "te")
             In(k) == BlockItems(from, to, blocks[k])
  <1>1. \A i \in items : \E k \in DOMAIN blocks : i \in In(k)
    OBVIOUS
  <1>2. \A k \in DOMAIN blocks : \A i \in In(k) : i \in items
    OBVIOUS
  <1>3. /\ \A n \in Old : \E k \in DOMAIN blocks : n \in blocks[k].fs .. (blocks[k].fe - 1)
        /\ \A k \in DOMAIN blocks : \A n \in blocks[k].fs .. (blocks[k].fe - 1) : n \in Old
    BY DEF Changed
  <1>4. /\ \A n \in New : \E k \in DOMAIN blocks : n \in blocks[k].ts .. (blocks[k].te - 1)
        /\ \A k \in DOMAIN blocks : \A n \in blocks[k].ts .. (blocks[k].te - 1) : n \in New
    BY DEF Changed
  <1>5. ASSUME NEW k \in DOMAIN blocks
        PROVE  /\ \A i \in In(k) : i.change \in M =>
                     i.line \in blocks[k].fs .. (blocks[k].fe - 1) /\ i.old = from[i.line]
               /\ \A n \in blocks[k].fs .. (blocks[k].fe - 1) : \E i \in In(k) :
                     i.change \in M /\ i.line = n /\ i.old = from[n]
               /\ \A i \in In(k) : i.change \in W => \E n \in blocks[k].ts .. (blocks[k].te - 1) : i.new = to[n]
               /\ \A n \in blocks[k].ts .. (blocks[k].te - 1) : \E i \in In(k) : i.change \in W /\ i.new = to[n]
               /\ \A i \in In(k) : i.change = "added" =>
                     i.line \in blocks[k].ts .. (blocks[k].te - 1) /\ i.new = to[i.line]
    <2>1. Proper(from, to, blocks[k])
      BY RangeParts
    <2> QED BY <2>1, BlockSays
  <1>6. \A change : Said(items, {change}) = SaidUpTo(from, to, blocks, change, Len(blocks))
    <2>1. DOMAIN blocks = 1 .. Len(blocks)
      OBVIOUS
    <2> QED BY <2>1 DEF Said, SaidUpTo, SaidOf
  <1>7. Len(from) + Cardinality(Said(items, {"added"})) = Len(to) + Cardinality(Said(items, {"removed"}))
    BY <1>6, CountsAddUp
  <1> HIDE DEF Old, New, In, M, W
  <1>8. \A i \in Said(items, M) : i.line \in Old /\ i.old = from[i.line]
    <2> SUFFICES ASSUME NEW i \in Said(items, M) PROVE i.line \in Old /\ i.old = from[i.line]
      OBVIOUS
    <2>1. i \in items /\ i.change \in M
      BY DEF Said
    <2>2. PICK k \in DOMAIN blocks : i \in In(k)
      BY <1>1, <2>1
    <2> QED BY <1>3, <1>5, <2>1, <2>2
  <1>9. \A n \in Old : \E i \in Said(items, M) : i.line = n /\ i.old = from[n]
    <2> SUFFICES ASSUME NEW n \in Old PROVE \E i \in Said(items, M) : i.line = n /\ i.old = from[n]
      OBVIOUS
    <2>1. PICK k \in DOMAIN blocks : n \in blocks[k].fs .. (blocks[k].fe - 1)
      BY <1>3
    <2>2. PICK i \in In(k) : i.change \in M /\ i.line = n /\ i.old = from[n]
      BY <1>5, <2>1
    <2>3. i \in Said(items, M)
      BY <1>2, <2>2 DEF Said
    <2> QED BY <2>2, <2>3
  <1>10. \A i \in Said(items, W) : \E n \in New : i.new = to[n]
    <2> SUFFICES ASSUME NEW i \in Said(items, W) PROVE \E n \in New : i.new = to[n]
      OBVIOUS
    <2>1. i \in items /\ i.change \in W
      BY DEF Said
    <2>2. PICK k \in DOMAIN blocks : i \in In(k)
      BY <1>1, <2>1
    <2>3. PICK n \in blocks[k].ts .. (blocks[k].te - 1) : i.new = to[n]
      BY <1>5, <2>1, <2>2
    <2> QED BY <1>4, <2>3
  <1>11. \A n \in New : \E i \in Said(items, W) : i.new = to[n]
    <2> SUFFICES ASSUME NEW n \in New PROVE \E i \in Said(items, W) : i.new = to[n]
      OBVIOUS
    <2>1. PICK k \in DOMAIN blocks : n \in blocks[k].ts .. (blocks[k].te - 1)
      BY <1>4
    <2>2. PICK i \in In(k) : i.change \in W /\ i.new = to[n]
      BY <1>5, <2>1
    <2>3. i \in Said(items, W)
      BY <1>2, <2>2 DEF Said
    <2> QED BY <2>2, <2>3
  <1>12. \A i \in Said(items, {"added"}) : i.line \in New /\ i.new = to[i.line]
    <2> SUFFICES ASSUME NEW i \in Said(items, {"added"}) PROVE i.line \in New /\ i.new = to[i.line]
      OBVIOUS
    <2>1. i \in items /\ i.change = "added"
      BY DEF Said
    <2>2. PICK k \in DOMAIN blocks : i \in In(k)
      BY <1>1, <2>1
    <2> QED BY <1>4, <1>5, <2>1, <2>2
  <1>13. {<<i.line, i.old>> : i \in Said(items, M)} = {<<n, from[n]>> : n \in Old}
    <2> DEFINE L == {<<i.line, i.old>> : i \in Said(items, M)}
               R == {<<n, from[n]>> : n \in Old}
    <2>1. ASSUME NEW x \in L PROVE x \in R
      <3>1. PICK i \in Said(items, M) : x = <<i.line, i.old>>
        OBVIOUS
      <3>2. PICK n \in Old : n = i.line /\ x = <<n, from[n]>>
        BY <1>8, <3>1
      <3> QED BY <3>2
    <2>2. ASSUME NEW x \in R PROVE x \in L
      <3>1. PICK n \in Old : x = <<n, from[n]>>
        OBVIOUS
      <3>2. PICK i \in Said(items, M) : x = <<i.line, i.old>>
        BY <1>9, <3>1
      <3> QED BY <3>2
    <2> HIDE DEF L, R
    <2>3. L = R
      BY <2>1, <2>2
    <2> QED BY <2>3 DEF L, R
  <1>14. {i.new : i \in Said(items, W)} = {to[n] : n \in New}
    <2> DEFINE L == {i.new : i \in Said(items, W)}
               R == {to[n] : n \in New}
    <2>1. ASSUME NEW x \in L PROVE x \in R
      BY <1>10
    <2>2. ASSUME NEW x \in R PROVE x \in L
      <3>1. PICK n \in New : x = to[n]
        OBVIOUS
      <3>2. PICK i \in Said(items, W) : x = i.new
        BY <1>11, <3>1
      <3> QED BY <3>2
    <2> HIDE DEF L, R
    <2>3. L = R
      BY <2>1, <2>2
    <2> QED BY <2>3 DEF L, R
  <1> QED BY <1>7, <1>12, <1>13, <1>14 DEF Replays, M, W, Old, New

\* The comparison of any two texts, whatever the limits on its depth and on its tables are, turns
\* the old text into the new one: outside its blocks the lines are equal one by one, its items are
\* the lines of its blocks and their numbers account for the different lengths (textDiff).
THEOREM MarkdownLineDiffReplays ==
    ASSUME NEW S, NEW from \in Seq(S), NEW to \in Seq(S)
    PROVE  Replays(from, to, MarkdownLineDiff(from, to).blocks, MarkdownLineDiff(from, to).items)
  <1> DEFINE blocks == CollectMarkdownDiffBlocks(from, to)[Whole(from, to)]
             items == UNION {BlockItems(from, to, blocks[k]) : k \in DOMAIN blocks}
  <1>1. blocks \in Seq(Ranges(from, to)) /\ Covers(from, to, Whole(from, to), blocks)
    BY BlocksOfTexts
  <1>2. MarkdownLineDiff(from, to).blocks = blocks /\ MarkdownLineDiff(from, to).items = items
    BY DEF MarkdownLineDiff, MarkdownLineDiffItems, Summarised
  <1>3. Replays(from, to, blocks, items)
    <2> HIDE DEF blocks
    <2> QED BY <1>1, ItemsSay
  <1> QED BY <1>2, <1>3

-----------------------------------------------------------------------------
(* Comparisons of versions                                                 *)

\* What a comparison of the two sources with the current parser gives.
Derived ==
    IF IsText("to") THEN MarkdownLineDiff(sources["from"].lines, sources["to"].lines).items
    ELSE DiffEndpointSets(Contract("from"), Contract("to"))

OneDocument ==
    /\ IsText("from") <=> IsText("to")
    /\ IsText("to") => sources["from"].lines \in Seq(Lines) /\ sources["to"].lines \in Seq(Lines)

FactsAreOfTheirParser ==
    /\ DOMAIN facts = Versions
    /\ \A v \in Versions : /\ facts[v].parser \in Parsers
                           /\ facts[v].parser = Current => facts[v].endpoints = Contract(v)

DifferenceIsKept ==
    /\ diff = {} \/ \E d : diff = {d}
    /\ \A d \in diff : AsStored(d) => d.items = Derived

\* Nobody was answered anything but what the sources give.
AnswersAreDerived == answered \subseteq {Derived}

ComparisonsInvariant == OneDocument /\ FactsAreOfTheirParser /\ DifferenceIsKept /\ AnswersAreDerived

LEMMA ComparedIsDerived ==
    ASSUME OneDocument, FactsAreOfTheirParser, IsText("to") \/ (Fresh("from") /\ Fresh("to"))
    PROVE  Compared = Derived
  <1>1. CASE IsText("to")
    BY <1>1 DEF Compared, Derived
  <1>2. CASE ~ IsText("to")
    <2>1. facts["from"].parser = Current /\ facts["to"].parser = Current
      BY <1>2 DEF Fresh, OneDocument
    <2>2. facts["from"].endpoints = Contract("from") /\ facts["to"].endpoints = Contract("to")
      BY <2>1 DEF FactsAreOfTheirParser, Versions
    <2> QED BY <1>2, <2>2 DEF Compared, Derived
  <1> QED BY <1>1, <1>2

LEMMA ComparisonsStart == Init => ComparisonsInvariant
  <1> SUFFICES ASSUME Init PROVE ComparisonsInvariant
    OBVIOUS
  <1>1. PICK pair \in Sources : sources = [v \in Versions |-> IF v = "from" THEN pair[1] ELSE pair[2]]
    BY DEF Init
  <1>2. sources["from"] = pair[1] /\ sources["to"] = pair[2]
    BY <1>1 DEF Versions
  <1>3. OneDocument
    BY <1>2, SourcesAssumption DEF OneDocument, IsText
  <1>4. PICK old : facts = [v \in Versions |-> IndexedBy(v, IF v \in old THEN 1 ELSE Current)]
    BY DEF Init
  <1>5. FactsAreOfTheirParser
    <2>1. ASSUME NEW v \in Versions, NEW p \in Parsers
          PROVE  /\ IndexedBy(v, p).parser = p
                 /\ p = Current => IndexedBy(v, p).endpoints = Contract(v)
      BY DEF IndexedBy
    <2>2. 1 \in Parsers /\ Current \in Parsers
      BY DEF Parsers
    <2>3. ASSUME NEW v \in Versions PROVE facts[v] = IndexedBy(v, IF v \in old THEN 1 ELSE Current)
      BY <1>4
    <2> QED BY <1>4, <2>1, <2>2, <2>3 DEF FactsAreOfTheirParser
  <1>6. DifferenceIsKept
    <2>1. CASE diff = {}
      BY <2>1 DEF DifferenceIsKept
    <2>2. CASE diff # {}
      <3>1. diff = {[parser |-> 1, items |-> Compared]}
        BY <2>2 DEF Init
      <3>2. PICK d : d = [parser |-> 1, items |-> Compared]
        OBVIOUS
      <3>3. AsStored(d) => IsText("to")
        BY <3>2 DEF AsStored, Current
      <3>4. AsStored(d) => d.items = Derived
        BY <1>3, <1>5, <3>2, <3>3, ComparedIsDerived
      <3> QED BY <3>1, <3>2, <3>4 DEF DifferenceIsKept
    <2> QED BY <2>1, <2>2
  <1>7. AnswersAreDerived
    BY DEF Init, AnswersAreDerived
  <1> QED BY <1>3, <1>5, <1>6, <1>7 DEF ComparisonsInvariant

\* What is derived depends on the sources alone, and no step changes them.
LEMMA DerivedStays ==
    ASSUME UNCHANGED <<sources, parsed>>
    PROVE  /\ Derived' = Derived
           /\ \A v : IsText(v)' <=> IsText(v)
           /\ \A v : Contract(v)' = Contract(v)
           /\ \A d : AsStored(d)' <=> AsStored(d)
  BY DEF Derived, IsText, Contract, AsStored

LEMMA ComparisonsStep == ComparisonsInvariant /\ [Next]_vars => ComparisonsInvariant'
  <1> SUFFICES ASSUME ComparisonsInvariant, [Next]_vars PROVE ComparisonsInvariant'
    OBVIOUS
  <1>1. UNCHANGED <<sources, parsed>>
    BY DEF Next, vars, RefreshEndpointFacts, CompareVersions, Diff
  <1>2. /\ Derived' = Derived
        /\ \A v : IsText(v)' <=> IsText(v)
        /\ \A v : Contract(v)' = Contract(v)
        /\ \A d : AsStored(d)' <=> AsStored(d)
    BY <1>1, DerivedStays
  <1>3. OneDocument'
    BY <1>1 DEF ComparisonsInvariant, OneDocument, IsText
  <1>4. ASSUME UNCHANGED facts PROVE FactsAreOfTheirParser'
    BY <1>2, <1>4 DEF ComparisonsInvariant, FactsAreOfTheirParser
  <1>5. ASSUME UNCHANGED diff PROVE DifferenceIsKept'
    BY <1>2, <1>5 DEF ComparisonsInvariant, DifferenceIsKept
  <1>6. ASSUME UNCHANGED answered PROVE AnswersAreDerived'
    BY <1>2, <1>6 DEF ComparisonsInvariant, AnswersAreDerived
  <1>7. ASSUME NEW v \in Versions, RefreshEndpointFacts(v) PROVE ComparisonsInvariant'
    <2>1. StoreEndpointFacts(v, Contract(v)) /\ UNCHANGED <<diff, answered>>
      BY <1>7 DEF RefreshEndpointFacts
    <2>2. FactsAreOfTheirParser'
      <3>1. FactsAreOfTheirParser
        BY DEF ComparisonsInvariant
      <3>2. CASE facts' = facts
        BY <1>4, <3>2
      <3>3. CASE facts' = [facts EXCEPT ![v] = [parser |-> Current, endpoints |-> Contract(v)]]
        <4>1. /\ DOMAIN facts' = Versions
              /\ facts'[v].parser = Current /\ facts'[v].endpoints = Contract(v)
              /\ \A w \in Versions \ {v} : facts'[w] = facts[w]
          BY <3>1, <3>3 DEF FactsAreOfTheirParser
        <4>2. Current \in Parsers
          BY DEF Parsers
        <4> QED BY <1>2, <3>1, <4>1, <4>2 DEF FactsAreOfTheirParser
      <3> QED BY <2>1, <3>2, <3>3 DEF StoreEndpointFacts
    <2> QED BY <1>3, <1>5, <1>6, <2>1, <2>2 DEF ComparisonsInvariant
  <1>8. ASSUME CompareVersions PROVE ComparisonsInvariant'
    <2>1. UNCHANGED facts /\ diff' = {[parser |-> Current, items |-> Compared]} /\ answered' = {Compared}
      BY <1>8 DEF CompareVersions
    <2>2. Compared = Derived
      BY <1>8, ComparedIsDerived DEF CompareVersions, ComparisonsInvariant
    <2>3. DifferenceIsKept'
      <3>1. PICK d : d = [parser |-> Current, items |-> Compared]
        OBVIOUS
      <3>2. diff' = {d} /\ d.items = Derived
        BY <2>1, <2>2, <3>1
      <3> QED BY <1>2, <3>2 DEF DifferenceIsKept
    <2>4. AnswersAreDerived'
      BY <1>2, <2>1, <2>2 DEF AnswersAreDerived
    <2> QED BY <1>3, <1>4, <2>1, <2>3, <2>4 DEF ComparisonsInvariant
  <1>9. ASSUME Diff PROVE ComparisonsInvariant'
    <2>1. UNCHANGED <<facts, diff>>
      BY <1>9 DEF Diff
    <2>2. PICK d \in diff : AsStored(d) /\ answered' = {d.items}
      BY <1>9 DEF Diff
    <2>3. d.items = Derived
      BY <2>2 DEF ComparisonsInvariant, DifferenceIsKept
    <2>4. AnswersAreDerived'
      BY <1>2, <2>2, <2>3 DEF AnswersAreDerived
    <2> QED BY <1>3, <1>4, <1>5, <2>1, <2>4 DEF ComparisonsInvariant
  <1>10. ASSUME UNCHANGED vars PROVE ComparisonsInvariant'
    BY <1>3, <1>4, <1>5, <1>6, <1>10 DEF vars, ComparisonsInvariant
  <1> QED BY <1>7, <1>8, <1>9, <1>10 DEF Next

\* Indexes, stored differences and answers always agree with the sources as their parser reads
\* them: the inductive invariant (ensureVersionEndpointFactsLocked, ensureDiffFactsLocked).
THEOREM ComparisonsInvariantHolds == Spec => []ComparisonsInvariant
  <1> QED BY ComparisonsStart, ComparisonsStep, PTL DEF Spec

\* Whatever order readers, refreshes and older parsers came in, every answer is what the sources
\* give with the current parser, and all readers are answered the same (Diff, CompareVersions,
\* ensureDiffFactsLocked).
THEOREM ReadersAreAnsweredFromTheSources == Spec => []AnswersAreDerived
  <1>1. ComparisonsInvariant => AnswersAreDerived
    BY DEF ComparisonsInvariant
  <1> QED BY <1>1, ComparisonsInvariantHolds, PTL

\* Indexes and differences keep their form, and an index of the current parser is what parsing
\* the source gives.
THEOREM ComparisonsHaveTheirTypes == Spec => []TypeInvariant
  <1>1. ComparisonsInvariant => TypeInvariant
    <2> SUFFICES ASSUME ComparisonsInvariant PROVE TypeInvariant
      OBVIOUS
    <2>1. \A x : Cardinality({x}) = 1
      BY FS_Singleton
    <2>2. Cardinality({}) = 0
      BY FS_EmptySet
    <2>3. Cardinality(diff) <= 1
      <3>1. diff = {} \/ \E d : diff = {d}
        BY DEF ComparisonsInvariant, DifferenceIsKept
      <3>2. CASE diff = {}
        <4>1. Cardinality(diff) = 0
          BY <2>2, <3>2
        <4> QED BY <4>1
      <3>3. CASE \E d : diff = {d}
        <4>1. Cardinality(diff) = 1
          BY <2>1, <3>3
        <4> QED BY <4>1
      <3> QED BY <3>1, <3>2, <3>3
    <2>4. Cardinality(answered) <= 1
      <3>1. answered = {} \/ answered = {Derived}
        BY DEF ComparisonsInvariant, AnswersAreDerived
      <3>2. CASE answered = {}
        <4>1. Cardinality(answered) = 0
          BY <2>2, <3>2
        <4> QED BY <4>1
      <3>3. CASE answered = {Derived}
        <4>1. Cardinality(answered) = 1
          BY <2>1, <3>3
        <4> QED BY <4>1
      <3> QED BY <3>1, <3>2, <3>3
    <2> QED BY <2>3, <2>4 DEF ComparisonsInvariant, FactsAreOfTheirParser, TypeInvariant
  <1> QED BY <1>1, ComparisonsInvariantHolds, PTL

\* Every difference of texts that a reader is answered turns the old text into the new one, for
\* texts of any length and whatever the limits of the comparison are.
THEOREM AnswersReplayTheTexts == Spec => []TextChangesReplay
  <1>1. ComparisonsInvariant => TextChangesReplay
    <2> SUFFICES ASSUME ComparisonsInvariant, answered # {}, IsText("to")
                 PROVE  Replays(sources["from"].lines, sources["to"].lines,
                                MarkdownLineDiff(sources["from"].lines, sources["to"].lines).blocks, Changes)
      BY DEF TextChangesReplay
    <2>1. sources["from"].lines \in Seq(Lines) /\ sources["to"].lines \in Seq(Lines)
      BY DEF ComparisonsInvariant, OneDocument
    <2>2. PICK from, to : from = sources["from"].lines /\ to = sources["to"].lines
      OBVIOUS
    <2>3. Replays(from, to, MarkdownLineDiff(from, to).blocks, MarkdownLineDiff(from, to).items)
      BY <2>1, <2>2, MarkdownLineDiffReplays
    <2>4. Changes = MarkdownLineDiff(from, to).items
      <3>1. answered = {Derived}
        BY DEF ComparisonsInvariant, AnswersAreDerived
      <3>2. Derived = MarkdownLineDiff(from, to).items
        BY <2>2 DEF Derived
      <3> QED BY <3>1, <3>2 DEF Changes
    <2> QED BY <2>2, <2>3, <2>4
  <1> QED BY <1>1, ComparisonsInvariantHolds, PTL

-----------------------------------------------------------------------------
(* Endpoints that leave nothing to handle                                  *)

LEMMA PartsUnhandled ==
    ASSUME NEW all, ~ Handled(all), NEW part, part \subseteq all
    PROVE  ~ Handled(part)
  BY DEF Handled

LEMMA AddUnhandled ==
    ASSUME NEW change, NEW at, NEW breaking, ~ Handled(Add(change, at, breaking))
    PROVE  ~ breaking
  BY DEF Handled, Add

LEMMA ManualIsHandled ==
    ASSUME NEW change, NEW at
    PROVE  Handled(Manual(change, at))
  BY DEF Handled, Manual

LEMMA ItemsAreSome ==
    ASSUME NEW change, NEW at, NEW breaking
    PROVE  Add(change, at, breaking) # {} /\ Manual(change, at) # {}
  BY DEF Add, Manual

LEMMA NothingUnhandled == ~ Handled({})
  BY DEF Handled

\* Whoever gives the one what it asks for gives the other what it asks for.
ParameterFits(p, r) ==
    /\ r.required => p.required
    /\ p.style = r.style
    /\ DOMAIN p.content = {} <=> DOMAIN r.content = {}
    /\ DOMAIN p.content \subseteq DOMAIN r.content
    /\ \A media : \A value \in RequestValues :
         /\ DOMAIN p.content = {} \/ media \in DOMAIN p.content
         /\ Takes(ParameterSchema(p, media), value)
         => Takes(ParameterSchema(r, media), value)

BodyFits(b, c) ==
    /\ c.required => b.required
    /\ \A m \in DOMAIN b.content :
         /\ m \in DOMAIN c.content
         /\ b.content[m].encoding = c.content[m].encoding
         /\ \A value \in RequestValues : Takes(b.content[m].schema, value) => Takes(c.content[m].schema, value)

LEMMA ValuesOfRequest ==
    ASSUME NEW q \in Requests
    PROVE  /\ \A k \in DOMAIN q.parameters : q.parameters[k].value \in RequestValues
           /\ \A b \in q.body : b.value \in RequestValues
  <1> DEFINE Of(p) == {p.parameters[k].value : k \in DOMAIN p.parameters} \cup {b.value : b \in p.body}
             all == {Of(p) : p \in Requests}
  <1>1. RequestValues = UNION all
    BY DEF RequestValues
  <1>2. Of(q) \in all
    <2> HIDE DEF Of
    <2> QED OBVIOUS
  <1>3. Of(q) \subseteq RequestValues
    <2> HIDE DEF Of, all
    <2> QED BY <1>1, <1>2
  <1> QED BY <1>3

LEMMA RequestFits ==
    ASSUME NEW older, NEW newer, NEW q \in Requests,
           \A k \in DOMAIN newer.parameters :
               IF k \in DOMAIN older.parameters
               THEN ParameterFits(older.parameters[k], newer.parameters[k])
               ELSE ~ newer.parameters[k].required,
           BodyFits(older.requestBody, newer.requestBody),
           older.servers = newer.servers,
           MaySend(older, q)
    PROVE  AcceptsRequest(newer, q)
  <1> USE DEF MaySend
  <1>1. ASSUME NEW k \in DOMAIN newer.parameters, k \in DOMAIN q.parameters
        PROVE  LET p == newer.parameters[k]
                   given == q.parameters[k]
               IN /\ given.style = p.style
                  /\ IF DOMAIN p.content = {} THEN given.media = ""
                     ELSE given.media \in DOMAIN p.content
                  /\ Takes(ParameterSchema(p, given.media), given.value)
    <2> DEFINE p == newer.parameters[k]
               r == older.parameters[k]
               given == q.parameters[k]
    <2>1. k \in DOMAIN older.parameters
      BY <1>1
    <2>2. /\ given.style = r.style
          /\ IF DOMAIN r.content = {} THEN given.media = "" ELSE given.media \in DOMAIN r.content
          /\ Takes(ParameterSchema(r, given.media), given.value)
      BY <1>1, <2>1 DEF AcceptsRequest
    <2>3. ParameterFits(r, p)
      BY <2>1
    <2>4. given.value \in RequestValues
      BY <1>1, ValuesOfRequest
    <2> HIDE DEF p, r, given
    <2>5. Takes(ParameterSchema(p, given.media), given.value)
      BY <2>2, <2>3, <2>4 DEF ParameterFits
    <2>6. given.style = p.style
      BY <2>2, <2>3 DEF ParameterFits
    <2>7. IF DOMAIN p.content = {} THEN given.media = "" ELSE given.media \in DOMAIN p.content
      BY <2>2, <2>3 DEF ParameterFits
    <2> QED BY <2>5, <2>6, <2>7 DEF p, given
  <1>2. ASSUME NEW k \in DOMAIN newer.parameters, k \notin DOMAIN q.parameters
        PROVE  ~ newer.parameters[k].required
    <2>1. CASE k \in DOMAIN older.parameters
      <3>1. ~ older.parameters[k].required
        BY <1>2, <2>1 DEF AcceptsRequest
      <3>2. ParameterFits(older.parameters[k], newer.parameters[k])
        BY <2>1
      <3> QED BY <3>1, <3>2 DEF ParameterFits
    <2>2. CASE k \notin DOMAIN older.parameters
      BY <2>2
    <2> QED BY <2>1, <2>2
  <1>3. q.body = {} => ~ newer.requestBody.required
    BY DEF AcceptsRequest, BodyFits
  <1>4. ASSUME NEW b \in q.body
        PROVE  /\ b.media \in DOMAIN newer.requestBody.content
               /\ b.encoding = newer.requestBody.content[b.media].encoding
               /\ Takes(newer.requestBody.content[b.media].schema, b.value)
    <2>1. /\ b.media \in DOMAIN older.requestBody.content
          /\ b.encoding = older.requestBody.content[b.media].encoding
          /\ Takes(older.requestBody.content[b.media].schema, b.value)
      BY DEF AcceptsRequest
    <2>2. b.value \in RequestValues
      BY ValuesOfRequest
    <2> QED BY <2>1, <2>2 DEF BodyFits
  <1>5. q.server = newer.servers
    BY DEF AcceptsRequest
  <1> QED BY <1>1, <1>2, <1>3, <1>4, <1>5 DEF AcceptsRequest

LEMMA SchemasOfParameter ==
    ASSUME NEW p
    PROVE  /\ DOMAIN p.content = {} =>
                /\ DOMAIN ParameterSchemas(p) = {<<>>}
                /\ \A media : ParameterSchemas(p)[<<>>] = Unconstrained(ParameterSchema(p, media))
           /\ DOMAIN p.content # {} =>
                /\ DOMAIN ParameterSchemas(p) = {<<m>> : m \in DOMAIN p.content}
                /\ <<>> \notin DOMAIN ParameterSchemas(p)
                /\ \A m \in DOMAIN p.content :
                     ParameterSchemas(p)[<<m>>] = Unconstrained(ParameterSchema(p, m))
  <1>1. CASE DOMAIN p.content = {}
    <2>1. ParameterSchemas(p) = [at \in {<<>>} |-> Unconstrained(p.schema)]
      BY <1>1 DEF ParameterSchemas
    <2>2. \A media : ParameterSchema(p, media) = p.schema
      BY <1>1 DEF ParameterSchema
    <2> QED BY <1>1, <2>1, <2>2
  <1>2. CASE DOMAIN p.content # {}
    <2>1. ParameterSchemas(p) = [at \in {<<m>> : m \in DOMAIN p.content} |-> Unconstrained(p.content[at[1]])]
      BY <1>2 DEF ParameterSchemas
    <2>2. \A m : <<m>>[1] = m /\ <<m>> # <<>>
      OBVIOUS
    <2>3. \A m : ParameterSchema(p, m) = p.content[m]
      BY <1>2 DEF ParameterSchema
    <2> QED BY <1>2, <2>1, <2>2, <2>3
  <1> QED BY <1>1, <1>2

\* Parameters whose schemas are in the same places, each with one that takes as much.
LEMMA SchemasFit ==
    ASSUME NEW p, NEW r,
           DOMAIN ParameterSchemas(p) = DOMAIN ParameterSchemas(r),
           \A m \in DOMAIN ParameterSchemas(p), value \in RequestValues :
               Allows(ParameterSchemas(p)[m], value, FALSE) => Allows(ParameterSchemas(r)[m], value, FALSE)
    PROVE  /\ DOMAIN p.content = {} <=> DOMAIN r.content = {}
           /\ DOMAIN p.content \subseteq DOMAIN r.content
           /\ \A media : \A value \in RequestValues :
                /\ DOMAIN p.content = {} \/ media \in DOMAIN p.content
                /\ Takes(ParameterSchema(p, media), value)
                => Takes(ParameterSchema(r, media), value)
  <1>1. DOMAIN p.content = {} <=> DOMAIN r.content = {}
    <2>1. DOMAIN p.content = {} <=> <<>> \in DOMAIN ParameterSchemas(p)
      BY SchemasOfParameter
    <2>2. DOMAIN r.content = {} <=> <<>> \in DOMAIN ParameterSchemas(r)
      BY SchemasOfParameter
    <2> QED BY <2>1, <2>2
  <1>2. DOMAIN p.content \subseteq DOMAIN r.content
    <2> SUFFICES ASSUME NEW m \in DOMAIN p.content PROVE m \in DOMAIN r.content
      OBVIOUS
    <2>1. <<m>> \in {<<n>> : n \in DOMAIN r.content}
      <3>1. <<m>> \in DOMAIN ParameterSchemas(p)
        BY SchemasOfParameter
      <3>2. DOMAIN ParameterSchemas(r) = {<<n>> : n \in DOMAIN r.content}
        BY <1>1, SchemasOfParameter
      <3> QED BY <3>1, <3>2
    <2>2. PICK n \in DOMAIN r.content : <<m>> = <<n>>
      BY <2>1
    <2>3. m = n
      BY <2>2
    <2> QED BY <2>2, <2>3
  <1>3. ASSUME NEW media, NEW value \in RequestValues, DOMAIN p.content = {} \/ media \in DOMAIN p.content,
               Takes(ParameterSchema(p, media), value)
        PROVE  Takes(ParameterSchema(r, media), value)
    <2>1. PICK m : /\ m \in DOMAIN ParameterSchemas(p)
                   /\ ParameterSchemas(p)[m] = Unconstrained(ParameterSchema(p, media))
                   /\ ParameterSchemas(r)[m] = Unconstrained(ParameterSchema(r, media))
      <3>1. CASE DOMAIN p.content = {}
        <4>1. DOMAIN r.content = {}
          BY <1>1, <3>1
        <4>2. <<>> \in DOMAIN ParameterSchemas(p)
          BY <3>1, SchemasOfParameter
        <4>3. ParameterSchemas(p)[<<>>] = Unconstrained(ParameterSchema(p, media))
          BY <3>1, SchemasOfParameter
        <4>4. ParameterSchemas(r)[<<>>] = Unconstrained(ParameterSchema(r, media))
          BY <4>1, SchemasOfParameter
        <4> QED BY <4>2, <4>3, <4>4
      <3>2. CASE DOMAIN p.content # {}
        <4>1. media \in DOMAIN p.content /\ media \in DOMAIN r.content /\ DOMAIN r.content # {}
          BY <1>1, <1>2, <1>3, <3>2
        <4>2. <<media>> \in DOMAIN ParameterSchemas(p)
          BY <3>2, <4>1, SchemasOfParameter
        <4>3. ParameterSchemas(p)[<<media>>] = Unconstrained(ParameterSchema(p, media))
          BY <3>2, <4>1, SchemasOfParameter
        <4>4. ParameterSchemas(r)[<<media>>] = Unconstrained(ParameterSchema(r, media))
          BY <4>1, SchemasOfParameter
        <4> QED BY <4>2, <4>3, <4>4
      <3> QED BY <3>1, <3>2
    <2> QED BY <1>3, <2>1 DEF Takes
  <1> QED BY <1>1, <1>2, <1>3
\* The schemas of a parameter are in the same places when the comparison leaves nothing to handle.
LEMMA ParameterSchemasStay ==
    ASSUME NEW at, NEW before, NEW after,
           ~ Handled(CompareParameterSchemas(at, before, after))
    PROVE  /\ DOMAIN before = DOMAIN after
           /\ \A m \in DOMAIN before :
                CompareSchemas("parameterChanged", at \o m, before[m], after[m], FALSE)
                    \subseteq CompareParameterSchemas(at, before, after)
  <1> DEFINE all == CompareParameterSchemas(at, before, after)
             Of(m) == IF m \in DOMAIN before \cap DOMAIN after
                      THEN CompareSchemas("parameterChanged", at \o m, before[m], after[m], FALSE)
                      ELSE Manual("parameterChanged", at \o m)
  <1>1. ASSUME (<<>> \in DOMAIN before) # (<<>> \in DOMAIN after) PROVE FALSE
    <2>1. all = Manual("parameterChanged", at)
      BY <1>1 DEF CompareParameterSchemas
    <2> QED BY <2>1, ManualIsHandled
  <1>2. all = UNION {Of(m) : m \in DOMAIN before \cup DOMAIN after}
    BY <1>1 DEF CompareParameterSchemas
  <1>3. ASSUME NEW m \in DOMAIN before \cup DOMAIN after PROVE Of(m) \subseteq all /\ ~ Handled(Of(m))
    <2> HIDE DEF Of
    <2>1. Of(m) \subseteq all
      <3> HIDE DEF all
      <3> QED BY <1>2, <1>3
    <2>2. ~ Handled(Of(m))
      <3> ~ Handled(all)
        OBVIOUS
      <3> HIDE DEF all
      <3> QED BY <2>1, PartsUnhandled
    <2> QED BY <2>1, <2>2
  <1>4. ASSUME NEW m \in DOMAIN before \cup DOMAIN after PROVE m \in DOMAIN before \cap DOMAIN after
    <2> SUFFICES ASSUME m \notin DOMAIN before \cap DOMAIN after PROVE FALSE
      OBVIOUS
    <2>1. Of(m) = Manual("parameterChanged", at \o m)
      OBVIOUS
    <2>2. ~ Handled(Of(m))
      BY <1>3, <1>4
    <2> HIDE DEF Of
    <2> QED BY <2>1, <2>2, ManualIsHandled
  <1>5. ASSUME NEW m \in DOMAIN before
        PROVE  CompareSchemas("parameterChanged", at \o m, before[m], after[m], FALSE) \subseteq all
    <2>1. m \in DOMAIN before \cap DOMAIN after
      BY <1>4, <1>5
    <2>2. Of(m) = CompareSchemas("parameterChanged", at \o m, before[m], after[m], FALSE)
      BY <2>1
    <2>3. Of(m) \subseteq all
      BY <1>3, <1>5
    <2> HIDE DEF Of, all
    <2> QED BY <2>2, <2>3
  <1> QED BY <1>4, <1>5

LEMMA ParameterPairFits ==
    ASSUME NEW k, NEW p, NEW r,
           ~ Handled(CompareParameterPair(k, k, p, r)),
           \A m \in DOMAIN ParameterSchemas(p) \cap DOMAIN ParameterSchemas(r) :
               RightForRequests("parameterChanged", <<"parameters">> \o k \o m,
                                ParameterSchemas(p)[m], ParameterSchemas(r)[m])
    PROVE  /\ ParameterFits(p, r)
           /\ CompareParameterPair(k, k, p, r) = {} => ParameterFits(r, p)
  <1> DEFINE all == CompareParameterPair(k, k, p, r)
             at == <<"parameters">> \o k
             schemas == CompareParameterSchemas(at, ParameterSchemas(p), ParameterSchemas(r))
             required == IF p.required = r.required THEN {}
                         ELSE Add("parameterChanged", at \o <<"required">>, r.required)
             style == IF p.style = r.style THEN {} ELSE Manual("parameterChanged", at \o <<"style">>)
  <1>1. required \subseteq all /\ schemas \subseteq all /\ style \subseteq all
    BY DEF CompareParameterPair
  <1>2. ~ Handled(required) /\ ~ Handled(schemas) /\ ~ Handled(style)
    <2>1. ~ Handled(all)
      OBVIOUS
    <2> HIDE DEF all, required, schemas, style
    <2> QED BY <1>1, <2>1, PartsUnhandled
  <1>3. p.style = r.style
    <2> SUFFICES ASSUME p.style # r.style PROVE FALSE
      OBVIOUS
    <2>1. style = Manual("parameterChanged", at \o <<"style">>)
      OBVIOUS
    <2> HIDE DEF style
    <2> QED BY <1>2, <2>1, ManualIsHandled
  <1>4. r.required => p.required
    <2> SUFFICES ASSUME p.required # r.required PROVE ~ r.required
      OBVIOUS
    <2>1. required = Add("parameterChanged", at \o <<"required">>, r.required)
      OBVIOUS
    <2> HIDE DEF required
    <2> QED BY <1>2, <2>1, AddUnhandled
  <1>5. /\ DOMAIN ParameterSchemas(p) = DOMAIN ParameterSchemas(r)
        /\ \A m \in DOMAIN ParameterSchemas(p) :
             CompareSchemas("parameterChanged", at \o m, ParameterSchemas(p)[m], ParameterSchemas(r)[m], FALSE)
                 \subseteq schemas
    BY <1>2, ParameterSchemasStay
  <1>6. ASSUME NEW m \in DOMAIN ParameterSchemas(p), NEW value \in RequestValues,
               Allows(ParameterSchemas(p)[m], value, FALSE)
        PROVE  Allows(ParameterSchemas(r)[m], value, FALSE)
    <2> DEFINE items == CompareSchemas("parameterChanged", at \o m, ParameterSchemas(p)[m],
                                       ParameterSchemas(r)[m], FALSE)
    <2>1. RightForRequests("parameterChanged", at \o m, ParameterSchemas(p)[m], ParameterSchemas(r)[m])
      BY <1>5
    <2>2. items \subseteq schemas
      BY <1>5
    <2>3. ~ Handled(items)
      <3> HIDE DEF items, schemas
      <3> QED BY <1>2, <2>2, PartsUnhandled
    <2> QED BY <1>6, <2>1, <2>3 DEF RightForRequests
  <1>7. ParameterFits(p, r)
    <2> HIDE DEF schemas, style, required
    <2> QED BY <1>3, <1>4, <1>5, <1>6, SchemasFit DEF ParameterFits
  <1>8. ASSUME all = {} PROVE ParameterFits(r, p)
    <2>1. p.required = r.required
      <3> SUFFICES ASSUME p.required # r.required PROVE FALSE
        OBVIOUS
      <3>1. required = Add("parameterChanged", at \o <<"required">>, r.required)
        BY DEF at
      <3> HIDE DEF required, all
      <3> QED BY <1>1, <1>8, <3>1, ItemsAreSome
    <2>2. ASSUME NEW m \in DOMAIN ParameterSchemas(r), NEW value \in RequestValues,
                 Allows(ParameterSchemas(r)[m], value, FALSE)
          PROVE  Allows(ParameterSchemas(p)[m], value, FALSE)
      <3> DEFINE items == CompareSchemas("parameterChanged", at \o m, ParameterSchemas(p)[m],
                                         ParameterSchemas(r)[m], FALSE)
      <3>1. RightForRequests("parameterChanged", at \o m, ParameterSchemas(p)[m], ParameterSchemas(r)[m])
        BY <1>5
      <3>2. items = {}
        <4>1. items \subseteq schemas
          BY <1>5
        <4> HIDE DEF items, schemas, all
        <4> QED BY <1>1, <1>8, <4>1
      <3> QED BY <2>2, <3>1, <3>2 DEF RightForRequests
    <2> HIDE DEF schemas, style, required, all
    <2> QED BY <1>3, <1>5, <2>1, <2>2, SchemasFit DEF ParameterFits
  <1> QED BY <1>7, <1>8

\* What the comparison of two sets of parameters says of each.
LEMMA ParametersSay ==
    ASSUME NEW old, NEW new
    PROVE  /\ \A k \in DOMAIN old \cap DOMAIN new :
                CompareParameterPair(k, k, old[k], new[k]) \subseteq CompareParameters(old, new)
           /\ \A k \in DOMAIN new \ DOMAIN old :
                \/ Add("parameterAdded", <<"parameters">> \o k, new[k].required)
                       \subseteq CompareParameters(old, new)
                \/ Handled(CompareParameters(old, new))
           /\ \A k \in DOMAIN old \ DOMAIN new : CompareParameters(old, new) # {}
  <1> DEFINE removed == DOMAIN old \ DOMAIN new
             added == DOMAIN new \ DOMAIN old
             Named(keys, n) == {k \in keys : k[2] = n}
             Moved(n) == Cardinality(Named(removed, n)) = 1 /\ Cardinality(Named(added, n)) = 1
             pairs == {<<k, k>> : k \in DOMAIN old \cap DOMAIN new}
                        \cup {p \in removed \X added : p[1][2] = p[2][2] /\ Moved(p[1][2])}
             Of(p) == CompareParameterPair(p[1], p[2], old[p[1]], new[p[2]])
             Arrived(k) == Add("parameterAdded", <<"parameters">> \o k, new[k].required)
             Departed(k) == Add("parameterRemoved", <<"parameters">> \o k, FALSE)
             came == {l \in added : ~ Moved(l[2])}
             left == {l \in removed : ~ Moved(l[2])}
             gone == {Departed(k) : k \in left}
             fresh == {Arrived(k) : k \in came}
             stayed == {Of(p) : p \in pairs}
             all == CompareParameters(old, new)
  <1>1. all = (UNION stayed) \cup (UNION fresh) \cup (UNION gone)
    BY DEF CompareParameters
  <1> HIDE DEF all
  <1>2. ASSUME NEW k \in DOMAIN old \cap DOMAIN new
        PROVE  CompareParameterPair(k, k, old[k], new[k]) \subseteq all
    <2>1. <<k, k>> \in pairs
      OBVIOUS
    <2>2. Of(<<k, k>>) \subseteq all
      <3>1. Of(<<k, k>>) \in stayed
        <4> HIDE DEF Of, pairs
        <4> QED BY <2>1
      <3> HIDE DEF stayed, fresh, gone, Of
      <3> QED BY <1>1, <3>1
    <2> QED BY <2>2
  <1>3. ASSUME NEW o \in removed, NEW n \in added, o[2] = n[2], Moved(n[2])
        PROVE  Handled(all)
    <2>1. <<o, n>> \in pairs
      BY <1>3
    <2>2. Of(<<o, n>>) \subseteq all
      <3>1. Of(<<o, n>>) \in stayed
        <4> HIDE DEF Of, pairs
        <4> QED BY <2>1
      <3> HIDE DEF stayed, fresh, gone, Of
      <3> QED BY <1>1, <3>1
    <2>3. o # n
      OBVIOUS
    <2>4. Add("parameterChanged", <<"parameters">> \o n, TRUE) \subseteq Of(<<o, n>>)
      BY <2>3 DEF CompareParameterPair
    <2>5. Handled(Add("parameterChanged", <<"parameters">> \o n, TRUE))
      BY AddUnhandled
    <2>6. Add("parameterChanged", <<"parameters">> \o n, TRUE) \subseteq all
      <3> HIDE DEF Of
      <3> QED BY <2>2, <2>4
    <2> QED BY <2>5, <2>6, PartsUnhandled
  <1>4. ASSUME NEW keys, NEW n, Cardinality(Named(keys, n)) = 1 PROVE \E k \in keys : k[2] = n
    <2>1. Named(keys, n) # {}
      <3> SUFFICES ASSUME Named(keys, n) = {} PROVE FALSE
        OBVIOUS
      <3> HIDE DEF Named
      <3> QED BY <1>4, FS_EmptySet
    <2> QED BY <2>1
  <1> HIDE DEF Of, pairs, Arrived, Departed
  <1>5. ASSUME NEW k \in added PROVE Arrived(k) \subseteq all \/ Handled(all)
    <2>1. CASE ~ Moved(k[2])
      <3>1. k \in came
        <4> HIDE DEF Moved, added
        <4> QED BY <1>5, <2>1
      <3>2. Arrived(k) \in fresh
        <4> HIDE DEF came
        <4> QED BY <3>1
      <3> HIDE DEF stayed, fresh, gone, removed, added, Named, Moved, came, left
      <3>3. Arrived(k) \subseteq UNION fresh
        BY <3>2
      <3> QED BY <1>1, <3>3
    <2>2. CASE Moved(k[2])
      <3>1. PICK o \in removed : o[2] = k[2]
        <4>1. Cardinality(Named(removed, k[2])) = 1
          BY <2>2
        <4> HIDE DEF Named, Moved, removed
        <4> QED BY <1>4, <4>1
      <3> HIDE DEF Moved, removed, added
      <3> QED BY <1>3, <1>5, <2>2, <3>1
    <2> QED BY <2>1, <2>2
  <1>6. ASSUME NEW k \in removed PROVE all # {}
    <2>1. CASE ~ Moved(k[2])
      <3>1. Departed(k) \subseteq all
        <4>1. k \in left
          <5> HIDE DEF Moved, removed
          <5> QED BY <1>6, <2>1
        <4>2. Departed(k) \in gone
          <5> HIDE DEF left
          <5> QED BY <4>1
        <4> HIDE DEF stayed, fresh, gone
        <4>3. Departed(k) \subseteq UNION gone
          BY <4>2
        <4> QED BY <1>1, <4>3
      <3>2. Departed(k) # {}
        BY ItemsAreSome DEF Departed
      <3> QED BY <3>1, <3>2
    <2>2. CASE Moved(k[2])
      <3>1. PICK n \in added : n[2] = k[2]
        <4>1. Cardinality(Named(added, k[2])) = 1
          BY <2>2
        <4> HIDE DEF Named, Moved, added
        <4> QED BY <1>4, <4>1
      <3>2. Handled(all)
        <4> HIDE DEF Moved, removed, added
        <4> QED BY <1>3, <1>6, <2>2, <3>1
      <3> QED BY <3>2, NothingUnhandled
    <2> QED BY <2>1, <2>2
  <1> HIDE DEF Of, Moved, pairs, came, left, stayed, fresh, gone
  <1> QED BY <1>2, <1>5, <1>6 DEF all, Arrived

LEMMA BodiesFit ==
    ASSUME NEW old, NEW new,
           ~ Handled(CompareRequestBody(old, new)),
           \A m \in DOMAIN old.content \cap DOMAIN new.content :
               RightForRequests("requestBodyChanged", <<"requestBody">> \o <<m>>,
                                Unconstrained(old.content[m].schema), Unconstrained(new.content[m].schema))
    PROVE  /\ BodyFits(old, new)
           /\ CompareRequestBody(old, new) = {} => BodyFits(new, old)
  <1> DEFINE at == <<"requestBody">>
             before == DOMAIN old.content
             after == DOMAIN new.content
             all == CompareRequestBody(old, new)
             required == IF old.required = new.required THEN {}
                         ELSE Add("requestBodyChanged", at \o <<"required">>, new.required)
             Came(m) == Add("requestBodyChanged", at \o <<m>>, FALSE)
             Gone(m) == Add("requestBodyChanged", at \o <<m>>, TRUE)
             Stayed(m) == CompareSchemas("requestBodyChanged", at \o <<m>>, Unconstrained(old.content[m].schema),
                                         Unconstrained(new.content[m].schema), FALSE)
             Recoded(m) == Manual("requestBodyChanged", at \o <<m, "encoding">>)
             unlike == {m \in before \cap after : old.content[m].encoding # new.content[m].encoding}
             came == {Came(m) : m \in after \ before}
             gone == {Gone(m) : m \in before \ after}
             stayed == {Stayed(m) : m \in before \cap after}
             recoded == {Recoded(m) : m \in unlike}
  <1>1. all = required \cup (UNION came) \cup (UNION stayed) \cup (UNION recoded) \cup (UNION gone)
    BY DEF CompareRequestBody, CompareMediaEncoding
  <1>2. ~ Handled(all)
    OBVIOUS
  <1>3. /\ required \subseteq all
        /\ \A m \in after \ before : Came(m) \subseteq all
        /\ \A m \in before \ after : Gone(m) \subseteq all
        /\ \A m \in before \cap after : Stayed(m) \subseteq all
        /\ \A m \in unlike : Recoded(m) \subseteq all
    <2>1. /\ \A m \in after \ before : Came(m) \in came
          /\ \A m \in before \ after : Gone(m) \in gone
          /\ \A m \in before \cap after : Stayed(m) \in stayed
          /\ \A m \in unlike : Recoded(m) \in recoded
      <3> HIDE DEF Came, Gone, Stayed, Recoded, unlike, before, after
      <3> QED OBVIOUS
    <2> HIDE DEF all, required, came, gone, stayed, recoded, Came, Gone, Stayed, Recoded, unlike, before, after
    <2>2. required \subseteq all
      BY <1>1
    <2>3. ASSUME NEW m \in after \ before PROVE Came(m) \subseteq all
      BY <1>1, <2>1
    <2>4. ASSUME NEW m \in before \ after PROVE Gone(m) \subseteq all
      BY <1>1, <2>1
    <2>5. ASSUME NEW m \in before \cap after PROVE Stayed(m) \subseteq all
      BY <1>1, <2>1
    <2>6. ASSUME NEW m \in unlike PROVE Recoded(m) \subseteq all
      BY <1>1, <2>1
    <2> QED BY <2>2, <2>3, <2>4, <2>5, <2>6
  <1>4. before \subseteq after
    <2> SUFFICES ASSUME NEW m \in before \ after PROVE FALSE
      OBVIOUS
    <2>1. ~ Handled(Gone(m))
      <3> HIDE DEF all, Gone
      <3> QED BY <1>2, <1>3, PartsUnhandled
    <2> QED BY <2>1, AddUnhandled
  <1>5. ASSUME NEW m \in before PROVE old.content[m].encoding = new.content[m].encoding
    <2> SUFFICES ASSUME m \in unlike PROVE FALSE
      BY <1>4, <1>5
    <2>1. ~ Handled(Recoded(m))
      <3> HIDE DEF all, Recoded
      <3> QED BY <1>2, <1>3, PartsUnhandled
    <2> QED BY <2>1, ManualIsHandled
  <1>6. old.required = new.required \/ ~ new.required
    <2> SUFFICES ASSUME old.required # new.required PROVE ~ new.required
      OBVIOUS
    <2>1. required = Add("requestBodyChanged", at \o <<"required">>, new.required)
      OBVIOUS
    <2>2. ~ Handled(required)
      <3> HIDE DEF all, required
      <3> QED BY <1>2, <1>3, PartsUnhandled
    <2> HIDE DEF required
    <2> QED BY <2>1, <2>2, AddUnhandled
  <1>7. ASSUME NEW m \in before, NEW value \in RequestValues, Takes(old.content[m].schema, value)
        PROVE  Takes(new.content[m].schema, value)
    <2>1. RightForRequests("requestBodyChanged", at \o <<m>>, Unconstrained(old.content[m].schema),
                          Unconstrained(new.content[m].schema))
      BY <1>4, <1>7
    <2>2. ~ Handled(Stayed(m))
      <3> HIDE DEF all, Stayed
      <3> QED BY <1>2, <1>3, <1>4, <1>7, PartsUnhandled
    <2> QED BY <1>7, <2>1, <2>2 DEF RightForRequests, Takes
  <1>8. BodyFits(old, new)
    BY <1>4, <1>5, <1>6, <1>7 DEF BodyFits
  <1>9. ASSUME all = {} PROVE BodyFits(new, old)
    <2>1. old.required = new.required
      <3> SUFFICES ASSUME old.required # new.required PROVE FALSE
        OBVIOUS
      <3>1. required = Add("requestBodyChanged", at \o <<"required">>, new.required)
        OBVIOUS
      <3> HIDE DEF required, all
      <3> QED BY <1>3, <1>9, <3>1, ItemsAreSome
    <2>2. after \subseteq before
      <3> SUFFICES ASSUME NEW m \in after \ before PROVE FALSE
        OBVIOUS
      <3>1. Came(m) = {}
        <4> HIDE DEF Came, all
        <4> QED BY <1>3, <1>9
      <3> QED BY <3>1, ItemsAreSome
    <2>3. ASSUME NEW m \in after, NEW value \in RequestValues, Takes(new.content[m].schema, value)
          PROVE  Takes(old.content[m].schema, value)
      <3>1. RightForRequests("requestBodyChanged", at \o <<m>>, Unconstrained(old.content[m].schema),
                          Unconstrained(new.content[m].schema))
        BY <2>2, <2>3
      <3>2. Stayed(m) = {}
        <4> HIDE DEF all, Stayed
        <4> QED BY <1>3, <1>9, <2>2, <2>3
      <3> QED BY <2>3, <3>1, <3>2 DEF RightForRequests, Takes
    <2> HIDE DEF all
    <2> QED BY <1>5, <2>1, <2>2, <2>3 DEF BodyFits
  <1> QED BY <1>8, <1>9

LEMMA ResponseSchemaOf ==
    ASSUME NEW responses
    PROVE  /\ \A s, m : <<s, m>> \in DOMAIN ResponseSchemas(responses)
                        <=> s \in DOMAIN responses /\ m \in DOMAIN responses[s].content
           /\ \A s, m : <<s, m>> \in DOMAIN ResponseSchemas(responses) =>
                ResponseSchemas(responses)[<<s, m>>] = Unconstrained(responses[s].content[m])
  <1> DEFINE bodies == UNION {{<<s, m>> : m \in DOMAIN responses[s].content} : s \in DOMAIN responses}
  <1>1. ResponseSchemas(responses) = [b \in bodies |-> Unconstrained(responses[b[1]].content[b[2]])]
    BY DEF ResponseSchemas
  <1>2. ASSUME NEW s, NEW m
        PROVE  <<s, m>> \in bodies <=> s \in DOMAIN responses /\ m \in DOMAIN responses[s].content
    <2>1. ASSUME s \in DOMAIN responses, m \in DOMAIN responses[s].content PROVE <<s, m>> \in bodies
      BY <2>1
    <2>2. ASSUME <<s, m>> \in bodies PROVE s \in DOMAIN responses /\ m \in DOMAIN responses[s].content
      <3>1. PICK t \in DOMAIN responses : <<s, m>> \in {<<t, n>> : n \in DOMAIN responses[t].content}
        BY <2>2
      <3>2. PICK n \in DOMAIN responses[t].content : <<s, m>> = <<t, n>>
        BY <3>1
      <3>3. s = t /\ m = n
        BY <3>2
      <3> QED BY <3>2, <3>3
    <2> QED BY <2>1, <2>2
  <1> HIDE DEF bodies
  <1> QED BY <1>1, <1>2

LEMMA ResponsesFit ==
    ASSUME NEW older, NEW newer, NEW r \in Responses,
           LET before == ResponseSchemas(older.responses)
               after == ResponseSchemas(newer.responses)
           IN \A b \in DOMAIN before \cap DOMAIN after : RightForResponses(<<"responses">> \o b, before[b], after[b]),
           ~ Handled(CompareResponses(older.responses, newer.responses)),
           Sends(newer, r)
    PROVE  Understands(older, r)
  <1> DEFINE old == older.responses
             new == newer.responses
             before == ResponseSchemas(old)
             after == ResponseSchemas(new)
             at == <<"responses">>
             all == CompareResponses(old, new)
             OfStatus(s) ==
               CASE s \notin DOMAIN old -> Add("responseChanged", at \o <<s>>, FALSE)
                 [] s \notin DOMAIN new -> Add("responseChanged", at \o <<s>>, s \in Successes)
                 [] OTHER -> IF old[s].headers = new[s].headers THEN {}
                             ELSE Manual("responseChanged", at \o <<s, "headers">>)
             ofStatuses == {OfStatus(s) : s \in DOMAIN old \cup DOMAIN new}
             ofBodies == CompareResponseBodies("responseChanged", at, before, after)
             Stayed(b) == CompareSchemas("responseChanged", at \o b, Field(before, b, NoSchema), after[b], TRUE)
             stayed == {Stayed(b) : b \in DOMAIN after}
             s == r.status
  <1>1. all = (UNION ofStatuses) \cup ofBodies
    BY DEF CompareResponses
  <1>2. UNION stayed \subseteq ofBodies
    BY DEF CompareResponseBodies
  <1>3. ~ Handled(all)
    OBVIOUS
  <1>4. /\ s \in DOMAIN new
        /\ new[s].headers = r.headers
        /\ r.media \in DOMAIN new[s].content
        /\ Gives(new[s].content[r.media], r.value)
    BY DEF Sends
  <1> SUFFICES ASSUME s \in DOMAIN old
               PROVE  /\ old[s].headers = r.headers
                      /\ r.media \in DOMAIN old[s].content => Gives(old[s].content[r.media], r.value)
    BY DEF Understands
  <1>5. old[s].headers = r.headers
    <2> SUFFICES ASSUME old[s].headers # new[s].headers PROVE FALSE
      BY <1>4
    <2>1. OfStatus(s) = Manual("responseChanged", at \o <<s, "headers">>)
      BY <1>4
    <2>2. OfStatus(s) \in ofStatuses
      <3> HIDE DEF OfStatus
      <3> QED OBVIOUS
    <2> HIDE DEF OfStatus, ofStatuses, ofBodies, all
    <2>3. OfStatus(s) \subseteq all
      BY <1>1, <2>2
    <2> QED BY <1>3, <2>1, <2>3, PartsUnhandled, ManualIsHandled
  <1>6. ASSUME r.media \in DOMAIN old[s].content PROVE Gives(old[s].content[r.media], r.value)
    <2> DEFINE b == <<s, r.media>>
    <2>1. b \in DOMAIN before /\ b \in DOMAIN after
      BY <1>4, <1>6, ResponseSchemaOf
    <2>2. /\ before[b] = Unconstrained(old[s].content[r.media])
          /\ after[b] = Unconstrained(new[s].content[r.media])
      BY <2>1, ResponseSchemaOf
    <2>3. RightForResponses(at \o b, before[b], after[b])
      BY <2>1
    <2>4. Field(before, b, NoSchema) = before[b]
      BY <2>1 DEF Field, HasKey
    <2>5. Stayed(b) \in stayed
      <3> HIDE DEF Stayed, after
      <3> QED BY <2>1
    <2>6. ~ Handled(Stayed(b))
      <3> HIDE DEF Stayed, stayed, ofBodies, ofStatuses, all
      <3>1. Stayed(b) \subseteq all
        BY <1>1, <1>2, <2>5
      <3> QED BY <1>3, <3>1, PartsUnhandled
    <2>7. ~ Handled(CompareSchemas("responseChanged", at \o b, before[b], after[b], TRUE))
      BY <2>4, <2>6
    <2>8. Allows(after[b], r.value, TRUE)
      BY <1>4, <2>2 DEF Gives
    <2> HIDE DEF before, after, b, at
    <2>9. Allows(before[b], r.value, TRUE)
      BY <2>3, <2>7, <2>8 DEF RightForResponses
    <2> QED BY <2>2, <2>9 DEF Gives
  <1> QED BY <1>5, <1>6

LEMMA PartsOfEndpoint ==
    ASSUME NEW older, NEW newer
    PROVE  /\ CompareParameters(older.parameters, newer.parameters) \subseteq CompareViews(older, newer)
           /\ CompareRequestBody(older.requestBody, newer.requestBody) \subseteq CompareViews(older, newer)
           /\ CompareResponses(older.responses, newer.responses) \subseteq CompareViews(older, newer)
           /\ older.servers # newer.servers =>
                Manual("endpointModified", <<"servers">>) \subseteq CompareViews(older, newer)
           /\ older["security"] # newer["security"] =>
                Add("securityChanged", <<"security">>, FALSE) \subseteq CompareViews(older, newer)
  BY DEF CompareViews

LEMMA ParametersFit ==
    ASSUME NEW old, NEW new,
           ~ Handled(CompareParameters(old, new)),
           \A k \in DOMAIN old \cap DOMAIN new :
             LET before == ParameterSchemas(old[k])
                 after == ParameterSchemas(new[k])
             IN \A m \in DOMAIN before \cap DOMAIN after :
                  RightForRequests("parameterChanged", <<"parameters">> \o k \o m, before[m], after[m])
    PROVE  /\ \A k \in DOMAIN new :
                IF k \in DOMAIN old THEN ParameterFits(old[k], new[k]) ELSE ~ new[k].required
           /\ CompareParameters(old, new) = {} =>
                \A k \in DOMAIN old : k \in DOMAIN new /\ ParameterFits(new[k], old[k])
  <1> DEFINE all == CompareParameters(old, new)
             Both(k) == CompareParameterPair(k, k, old[k], new[k])
             Arrived(k) == Add("parameterAdded", <<"parameters">> \o k, new[k].required)
  <1>1. /\ \A k \in DOMAIN old \cap DOMAIN new : Both(k) \subseteq all
        /\ \A k \in DOMAIN new \ DOMAIN old : Arrived(k) \subseteq all \/ Handled(all)
        /\ \A k \in DOMAIN old \ DOMAIN new : all # {}
    BY ParametersSay
  <1>2. ~ Handled(all)
    OBVIOUS
  <1>3. ASSUME NEW k \in DOMAIN old \cap DOMAIN new
        PROVE  /\ ~ Handled(Both(k)) /\ (all = {} => Both(k) = {})
               /\ ParameterFits(old[k], new[k])
               /\ Both(k) = {} => ParameterFits(new[k], old[k])
    <2>1. ~ Handled(Both(k)) /\ (all = {} => Both(k) = {})
      <3> HIDE DEF all, Both
      <3> QED BY <1>1, <1>2, PartsUnhandled
    <2> QED BY <2>1, ParameterPairFits
  <1>4. ASSUME NEW k \in DOMAIN new \ DOMAIN old PROVE ~ new[k].required
    <2>1. ~ Handled(Arrived(k))
      <3> HIDE DEF all, Arrived
      <3> QED BY <1>1, <1>2, PartsUnhandled
    <2> QED BY <2>1, AddUnhandled
  <1>5. ASSUME all = {}, NEW k \in DOMAIN old PROVE k \in DOMAIN new /\ ParameterFits(new[k], old[k])
    <2>1. k \in DOMAIN new
      <3> HIDE DEF all
      <3> QED BY <1>1, <1>5
    <2> HIDE DEF all, Both
    <2> QED BY <1>3, <1>5, <2>1
  <1> HIDE DEF all, Both
  <1>6. \A k \in DOMAIN new :
          IF k \in DOMAIN old THEN ParameterFits(old[k], new[k]) ELSE ~ new[k].required
    BY <1>3, <1>4
  <1> USE DEF all
  <1> QED BY <1>5, <1>6

\* Two endpoints whose comparison leaves nothing to handle: a client of the older one can go on
\* with the newer one, whatever it sends and is sent.  It rests on the comparison of the schemas
\* the two have in the same place, and on nothing else: parameters that move, media types,
\* encodings, headers, statuses and servers are judged here (compareEndpoint,
\* compareParameters, compareRequestBody, compareResponses).
THEOREM EndpointsThatNeedNoHandling ==
    ASSUME NEW older, NEW newer,
           SchemasJudged(older, newer), ~ Handled(CompareViews(older, newer))
    PROVE  Keeps(older, newer)
  <1> DEFINE all == CompareViews(older, newer)
             parameters == CompareParameters(older.parameters, newer.parameters)
             body == CompareRequestBody(older.requestBody, newer.requestBody)
             responses == CompareResponses(older.responses, newer.responses)
             servers == Manual("endpointModified", <<"servers">>)
  <1>1. /\ parameters \subseteq all /\ body \subseteq all /\ responses \subseteq all
        /\ older.servers # newer.servers => servers \subseteq all
    BY PartsOfEndpoint
  <1>2. ~ Handled(all)
    OBVIOUS
  <1>3. ~ Handled(parameters) /\ ~ Handled(body) /\ ~ Handled(responses)
    <2> HIDE DEF all, parameters, body, responses
    <2> QED BY <1>1, <1>2, PartsUnhandled
  <1>4. older.servers = newer.servers
    <2> SUFFICES ASSUME older.servers # newer.servers PROVE FALSE
      OBVIOUS
    <2>1. ~ Handled(servers)
      <3> HIDE DEF all, servers
      <3> QED BY <1>1, <1>2, PartsUnhandled
    <2> QED BY <2>1, ManualIsHandled
  <1>5. \A k \in DOMAIN newer.parameters :
          IF k \in DOMAIN older.parameters THEN ParameterFits(older.parameters[k], newer.parameters[k])
          ELSE ~ newer.parameters[k].required
    BY <1>3, ParametersFit DEF SchemasJudged
  <1>6. BodyFits(older.requestBody, newer.requestBody)
    BY <1>3, BodiesFit DEF SchemasJudged
  <1> HIDE DEF all, parameters, body, servers
  <1>7. ASSUME NEW q \in Requests, MaySend(older, q) PROVE AcceptsRequest(newer, q)
    BY <1>4, <1>5, <1>6, <1>7, RequestFits
  <1>8. ASSUME NEW r \in Responses, Sends(newer, r) PROVE Understands(older, r)
    BY <1>3, <1>8, ResponsesFit DEF SchemasJudged
  <1> QED BY <1>7, <1>8 DEF Keeps

\* If the comparison of two endpoints finds nothing at all, the two accept the same requests,
\* under the same security.
THEOREM EndpointsFoundTheSame ==
    ASSUME NEW older, NEW newer,
           SchemasJudged(older, newer), CompareViews(older, newer) = {}
    PROVE  /\ \A q \in Requests : MaySend(newer, q) => AcceptsRequest(older, q)
           /\ older["security"] = newer["security"]
  <1> DEFINE all == CompareViews(older, newer)
             parameters == CompareParameters(older.parameters, newer.parameters)
             body == CompareRequestBody(older.requestBody, newer.requestBody)
             servers == Manual("endpointModified", <<"servers">>)
             security == Add("securityChanged", <<"security">>, FALSE)
  <1>1. /\ parameters \subseteq all /\ body \subseteq all
        /\ older.servers # newer.servers => servers \subseteq all
        /\ older["security"] # newer["security"] => security \subseteq all
    BY PartsOfEndpoint
  <1>2. all = {} /\ servers # {} /\ security # {}
    BY ItemsAreSome
  <1>3. /\ parameters = {} /\ body = {}
        /\ older.servers = newer.servers /\ older["security"] = newer["security"]
    <2> HIDE DEF all, parameters, body, servers, security
    <2> QED BY <1>1, <1>2
  <1>4. ~ Handled(parameters) /\ ~ Handled(body)
    <2> HIDE DEF parameters, body
    <2> QED BY <1>3, NothingUnhandled
  <1>5. \A k \in DOMAIN older.parameters :
          k \in DOMAIN newer.parameters /\ ParameterFits(newer.parameters[k], older.parameters[k])
    BY <1>3, <1>4, ParametersFit DEF SchemasJudged
  <1>6. BodyFits(newer.requestBody, older.requestBody)
    BY <1>3, <1>4, BodiesFit DEF SchemasJudged
  <1> HIDE DEF all, parameters, body, servers, security
  <1>7. ASSUME NEW q \in Requests, MaySend(newer, q) PROVE AcceptsRequest(older, q)
    BY <1>3, <1>5, <1>6, <1>7, RequestFits
  <1> QED BY <1>3, <1>7

-----------------------------------------------------------------------------
(* The rules of single keywords                                            *)

\* A type constraint: any type, or names of types.
NamesTypes(types) == types = AnyType \/ "any" \notin types

LEMMA BothTypes ==
    ASSUME NEW a, NEW b, NamesTypes(a), NamesTypes(b)
    PROVE  /\ NamesTypes(IntersectTypes(a, b))
           /\ \A value : AcceptsType(IntersectTypes(a, b), value)
                           <=> AcceptsType(a, value) /\ AcceptsType(b, value)
  <1>1. CASE a = AnyType
    BY <1>1 DEF IntersectTypes, AcceptsType
  <1>2. CASE a # AnyType /\ b = AnyType
    BY <1>2 DEF IntersectTypes, AcceptsType
  <1>3. CASE a # AnyType /\ b # AnyType
    <2> DEFINE whole == {t \in {"integer"} : ("integer" \in a /\ "number" \in b)
                                               \/ ("number" \in a /\ "integer" \in b)}
               both == (a \cap b) \cup whole
    <2>1. IntersectTypes(a, b) = both
      BY <1>3 DEF IntersectTypes
    <2>2. "any" \notin a /\ "any" \notin b
      BY <1>3 DEF NamesTypes
    <2>3. "any" \notin both /\ both # AnyType
      BY <2>2 DEF AnyType
    <2>4. \A t : Accommodates(both, t) <=> Accommodates(a, t) /\ Accommodates(b, t)
      BY DEF Accommodates
    <2> HIDE DEF both
    <2> QED BY <1>3, <2>1, <2>3, <2>4 DEF AcceptsType, NamesTypes
  <1> QED BY <1>1, <1>2, <1>3

\* What one more constraint at a time makes of a set of them.
Intersecting(S, meet) ==
    /\ meet[{}] = AnyType
    /\ \A s \in SUBSET S : s # {} =>
         \E x \in s : meet[s] = IntersectTypes(x, meet[s \ {x}])

LEMMA IntersectionUnfolds ==
    ASSUME NEW S, IsFiniteSet(S)
    PROVE  \E meet : FoldSet(IntersectTypes, AnyType, S) = meet[S] /\ Intersecting(S, meet)
  <1> DEFINE P == SUBSET S
             Stop == {{}}
             m == [s \in P |-> Cardinality(s)]
             Some(s) == CHOOSE x \in s : TRUE
             prev == [s \in P |-> s \ {Some(s)}]
             X == SUBSET ((UNION S) \cup {"any", "integer"})
             first == [s \in P |-> AnyType]
             step == [s \in P |-> [t \in X |-> IF s = {} THEN t ELSE IntersectTypes(Some(s), t)]]
  <1>1. ASSUME NEW s \in P, s # {} PROVE Some(s) \in s
    BY <1>1
  <1>2. m \in [P -> Nat] /\ prev \in [P -> P] /\ \A s \in P \ Stop : m[prev[s]] < m[s]
    <2>1. \A s \in P : IsFiniteSet(s) /\ Cardinality(s) \in Nat
      BY FS_Subset, FS_CardinalityType
    <2>2. ASSUME NEW s \in P \ Stop PROVE m[prev[s]] < m[s]
      <3>1. s \in P /\ IsFiniteSet(s) /\ Some(s) \in s
        BY <1>1, <2>1
      <3> HIDE DEF Some
      <3>2. Cardinality(s \ {Some(s)}) = Cardinality(s) - 1 /\ Cardinality(s) \in Nat
        BY <2>1, <3>1, FS_RemoveElement
      <3>3. s \ {Some(s)} \in P
        BY <3>1
      <3>4. m[prev[s]] = Cardinality(s \ {Some(s)}) /\ m[s] = Cardinality(s)
        BY <3>1, <3>3
      <3> QED BY <3>2, <3>4
    <2>3. prev \in [P -> P]
      OBVIOUS
    <2> QED BY <2>1, <2>2, <2>3
  <1>3. first \in [P -> X] /\ step \in [P -> [X -> X]]
    <2>1. AnyType \in X
      BY DEF AnyType
    <2>2. ASSUME NEW s \in P, NEW t \in X, s # {} PROVE IntersectTypes(Some(s), t) \in X
      <3>1. Some(s) \in S
        BY <1>1, <2>2
      <3> HIDE DEF Some
      <3> QED BY <3>1 DEF IntersectTypes
    <2> HIDE DEF P, X, Some
    <2> QED BY <2>1, <2>2
  <1>4. PICK f \in [P -> X] : Unfolds(P, Stop, prev, first, step, f)
    <2> HIDE DEF P, Stop, m, prev, X, first, step
    <2> QED BY <1>2, <1>3, Recursion
  <1> DEFINE Value(g, s) == IF s = {} THEN AnyType ELSE IntersectTypes(Some(s), g[s \ {Some(s)}])
             iter == CHOOSE g : g = [s \in SUBSET S |-> Value(g, s)]
  <1>5. ASSUME NEW s \in P PROVE f[s] = Value(f, s)
    <2>1. CASE s = {}
      <3>1. s \in Stop /\ first[s] = AnyType
        BY <2>1
      <3>2. f[s] = first[s]
        <4> HIDE DEF P, Stop, prev, first, step
        <4> QED BY <1>4, <3>1 DEF Unfolds
      <3> QED BY <2>1, <3>1, <3>2
    <2>2. CASE s # {}
      <3>1. s \notin Stop /\ prev[s] = s \ {Some(s)} /\ s \ {Some(s)} \in P
        BY <2>2
      <3> DEFINE r == s \ {Some(s)}
      <3>2. f[r] \in X
        <4> HIDE DEF P, X
        <4> QED BY <1>4, <3>1
      <3>3. step[s][f[r]] = IntersectTypes(Some(s), f[r])
        <4> HIDE DEF P, X, r, Some
        <4> QED BY <2>2, <3>2
      <3>4. f[s] = step[s][f[r]]
        <4> HIDE DEF P, Stop, prev, first, step, Some
        <4> QED BY <1>4, <3>1 DEF Unfolds
      <3> QED BY <2>2, <3>3, <3>4
    <2> QED BY <2>1, <2>2
  <1>6. f = [s \in SUBSET S |-> Value(f, s)]
    <2>1. f = [s \in P |-> f[s]]
      <3> HIDE DEF P, X
      <3> QED BY <1>4
    <2> HIDE DEF Value
    <2> QED BY <1>5, <2>1
  <1>7. iter = [s \in SUBSET S |-> Value(iter, s)]
    <2> HIDE DEF Value
    <2> QED BY <1>6
  <1>8. FoldSet(IntersectTypes, AnyType, S) = iter[S]
    BY DEF FoldSet, MapThenFoldSet
  <1> HIDE DEF iter
  <1>9. ASSUME NEW s \in SUBSET S PROVE iter[s] = Value(iter, s)
    <2> HIDE DEF Value
    <2> QED BY <1>7
  <1>10. Intersecting(S, iter)
    <2>1. iter[{}] = AnyType
      BY <1>9
    <2>2. ASSUME NEW s \in SUBSET S, s # {}
          PROVE  \E x \in s : iter[s] = IntersectTypes(x, iter[s \ {x}])
      <3>1. iter[s] = IntersectTypes(Some(s), iter[s \ {Some(s)}])
        BY <1>9, <2>2
      <3>2. Some(s) \in s
        BY <1>1, <2>2
      <3> HIDE DEF Some
      <3> QED BY <3>1, <3>2
    <2> QED BY <2>1, <2>2 DEF Intersecting
  <1> QED BY <1>8, <1>10

LEMMA AllTypes ==
    ASSUME NEW S, IsFiniteSet(S), \A types \in S : NamesTypes(types)
    PROVE  /\ NamesTypes(FoldSet(IntersectTypes, AnyType, S))
           /\ \A value : AcceptsType(FoldSet(IntersectTypes, AnyType, S), value)
                           <=> \A types \in S : AcceptsType(types, value)
  <1>1. PICK meet : FoldSet(IntersectTypes, AnyType, S) = meet[S] /\ Intersecting(S, meet)
    BY IntersectionUnfolds
  <1> DEFINE P == SUBSET S
             Fits(s) == /\ NamesTypes(meet[s])
                        /\ \A value : AcceptsType(meet[s], value) <=> \A types \in s : AcceptsType(types, value)
             H == {s \in P : Fits(s)}
             m == [s \in P |-> Cardinality(s)]
  <1>2. m \in [P -> Nat]
    BY FS_Subset, FS_CardinalityType
  <1>3. ASSUME NEW s \in P, \A r \in P : m[r] < m[s] => r \in H PROVE s \in H
    <2>1. CASE s = {}
      <3>1. meet[s] = AnyType
        BY <1>1, <2>1 DEF Intersecting
      <3> QED BY <2>1, <3>1 DEF NamesTypes, AcceptsType
    <2>2. CASE s # {}
      <3>1. PICK x \in s : meet[s] = IntersectTypes(x, meet[s \ {x}])
        BY <1>1, <2>2 DEF Intersecting
      <3>2. PICK r : r = s \ {x}
        OBVIOUS
      <3>3. r \in P /\ m[r] < m[s]
        <4>1. IsFiniteSet(s)
          BY FS_Subset
        <4>2. Cardinality(r) = Cardinality(s) - 1 /\ Cardinality(s) \in Nat
          BY <3>2, <4>1, FS_RemoveElement, FS_CardinalityType
        <4>3. r \in P
          BY <3>2
        <4>4. Cardinality(r) < Cardinality(s)
          <5> PICK n \in Nat : n = Cardinality(s)
            BY <4>2
          <5> QED BY <4>2
        <4> QED BY <4>3, <4>4
      <3>4. Fits(r)
        <4> HIDE DEF m, P, Fits
        <4> QED BY <1>3, <3>3
      <3>5. NamesTypes(x) /\ x \in s /\ s = r \cup {x}
        BY <3>2
      <3>6. /\ NamesTypes(meet[s])
            /\ \A value : AcceptsType(meet[s], value) <=> AcceptsType(x, value) /\ AcceptsType(meet[r], value)
        BY <3>1, <3>2, <3>4, <3>5, BothTypes
      <3>7. Fits(s)
        BY <3>4, <3>5, <3>6
      <3> HIDE DEF Fits
      <3> QED BY <3>7
    <2> QED BY <2>1, <2>2
  <1>4. P \subseteq H
    <2> HIDE DEF P, H, m
    <2> QED BY <1>2, <1>3, OnMeasure
  <1>5. Fits(S)
    <2> HIDE DEF Fits
    <2> QED BY <1>4
  <1> QED BY <1>1, <1>5

\* The type that fragments combine to allows exactly what each of them allows, whatever their
\* number and order (schemaType, intersectSchemaTypes).
THEOREM CombinedTypeIsWhatAllAllow ==
    ASSUME NEW fragments, IsFiniteSet(fragments),
           \A f \in fragments : "any" \notin Field(f, "type", {})
    PROVE  /\ NamesTypes(CombinedType(fragments))
           /\ \A value : AcceptsType(CombinedType(fragments), value)
                           <=> \A f \in fragments : OfItsType(f, value)
  <1> DEFINE typed == {f \in fragments : Field(f, "type", {}) # {}}
             Of(f) == f.type \cup (IF Flag(f, "nullable") THEN {"null"} ELSE {})
             allowed == {Of(f) : f \in typed}
  <1>1. CombinedType(fragments) = FoldSet(IntersectTypes, AnyType, allowed)
    BY DEF CombinedType
  <1>2. ASSUME NEW f \in typed
        PROVE  /\ NamesTypes(Of(f))
               /\ \A value : AcceptsType(Of(f), value) <=> OfItsType(f, value)
    <2>1. Field(f, "type", {}) = f.type /\ f.type # {} /\ "any" \notin f.type
      BY DEF Field
    <2>2. "any" \notin Of(f) /\ Of(f) # AnyType
      BY <2>1 DEF AnyType
    <2>3. ASSUME NEW value
          PROVE  Accommodates(Of(f), value.kind) <=>
                   Accommodates(f.type, value.kind) \/ (value.kind = "null" /\ Flag(f, "nullable"))
      BY DEF Accommodates
    <2> HIDE DEF Of
    <2> QED BY <2>1, <2>2, <2>3 DEF NamesTypes, AcceptsType, OfItsType
  <1>3. IsFiniteSet(allowed)
    <2>1. IsFiniteSet(typed)
      BY FS_Subset
    <2> DEFINE g == [f \in typed |-> Of(f)]
    <2>2. g \in Surjection(typed, allowed)
      <3> HIDE DEF typed, Of
      <3> QED BY DEF Surjection
    <2> HIDE DEF typed, Of, allowed, g
    <2> QED BY <2>1, <2>2, FS_Surjection
  <1>4. ASSUME NEW f \in fragments \ typed, NEW value PROVE OfItsType(f, value)
    BY DEF OfItsType
  <1> HIDE DEF typed, Of
  <1>5. \A types \in allowed : NamesTypes(types)
    BY <1>2
  <1>6. \A value : (\A types \in allowed : AcceptsType(types, value))
                     <=> \A f \in typed : OfItsType(f, value)
    BY <1>2
  <1>7. \A value : (\A f \in typed : OfItsType(f, value)) <=> \A f \in fragments : OfItsType(f, value)
    BY <1>4 DEF typed
  <1> HIDE DEF allowed
  <1> QED BY <1>1, <1>3, <1>5, <1>6, <1>7, AllTypes

\* The values a set of constraints leaves, each of which is none ({}) or the set of the values
\* it lists.
MeetsAll(enum, value) == \A s \in enum : value \in s

IsEnum(enum) == enum = {} \/ \E s : enum = {s}

LEMMA MeetSays ==
    ASSUME NEW constraints
    PROVE  /\ IsEnum(Meet(constraints))
           /\ \A value : MeetsAll(Meet(constraints), value)
                           <=> \A enum \in constraints : MeetsAll(enum, value)
  <1> DEFINE limits == UNION constraints
             common == {v \in UNION limits : \A s \in limits : v \in s}
  <1>1. Meet(constraints) = IF limits = {} THEN {} ELSE {common}
    BY DEF Meet
  <1>2. \A value : (\A enum \in constraints : MeetsAll(enum, value)) <=> \A s \in limits : value \in s
    BY DEF MeetsAll
  <1>3. CASE limits = {}
    <2>1. Meet(constraints) = {}
      BY <1>1, <1>3
    <2>2. \A value : MeetsAll(Meet(constraints), value)
      BY <2>1 DEF MeetsAll
    <2>3. IsEnum(Meet(constraints))
      BY <2>1 DEF IsEnum
    <2> HIDE DEF limits
    <2> QED BY <1>2, <1>3, <2>2, <2>3
  <1>4. CASE limits # {}
    <2>1. Meet(constraints) = {common}
      BY <1>1, <1>4
    <2>2. \A value : value \in common <=> \A s \in limits : value \in s
      <3> HIDE DEF limits
      <3> QED BY <1>4
    <2>3. \A value : MeetsAll({common}, value) <=> value \in common
      <3> HIDE DEF common
      <3> QED BY DEF MeetsAll
    <2> HIDE DEF limits, common
    <2>4. IsEnum(Meet(constraints))
      BY <2>1 DEF IsEnum
    <2> QED BY <1>2, <2>1, <2>2, <2>3, <2>4
  <1> QED BY <1>3, <1>4

\* The enumerations and constants of fragments combine to what each of them lists
\* (enumIdentities, setIntersection).
THEOREM CombinedEnumIsWhatAllList ==
    ASSUME NEW fragments
    PROVE  /\ IsEnum(CombinedEnum(fragments))
           /\ \A value : MeetsAll(CombinedEnum(fragments), value)
                           <=> \A f \in fragments : Listed(f, value)
  <1> DEFINE OfEnum(f) == Stated(f, "enum")
             OfConst(f) == {{value} : value \in Stated(f, "const")}
             enums == {OfEnum(f) : f \in fragments}
             consts == {OfConst(f) : f \in fragments}
             constraints == enums \cup consts
  <1>1. CombinedEnum(fragments) = Meet(constraints)
    BY DEF CombinedEnum
  <1>2. ASSUME NEW f, NEW value
        PROVE  Listed(f, value) <=> MeetsAll(OfEnum(f), value) /\ MeetsAll(OfConst(f), value)
    <2>1. MeetsAll(OfEnum(f), value) <=> (HasKey(f, "enum") => value \in f.enum)
      BY DEF MeetsAll, Stated, HasKey
    <2>2. MeetsAll(OfConst(f), value) <=> (HasKey(f, "const") => value = f.const)
      BY DEF MeetsAll, Stated, HasKey
    <2> QED BY <2>1, <2>2 DEF Listed
  <1>3. ASSUME NEW value
        PROVE  (\A enum \in constraints : MeetsAll(enum, value))
                 <=> \A f \in fragments : MeetsAll(OfEnum(f), value) /\ MeetsAll(OfConst(f), value)
    <2> HIDE DEF OfEnum, OfConst
    <2> QED OBVIOUS
  <1> HIDE DEF OfEnum, OfConst, constraints
  <1>4. \A value : (\A enum \in constraints : MeetsAll(enum, value))
                     <=> \A f \in fragments : Listed(f, value)
    BY <1>2, <1>3
  <1> QED BY <1>1, <1>4, MeetSays

\* Neither side accepts more than the other must take: a request meets the new side, a response
\* the reader of the old one.
Narrows(response, old, new) == IF response THEN new => old ELSE old => new

\* A type change that is not called breaking refuses no value that was accepted, in the
\* direction values go; one of named types that is called breaking refuses one
\* (typeChangeBreaking).
THEOREM TypeChangesAreJudgedRightly ==
    ASSUME NEW old, NEW new, NEW response \in BOOLEAN, NamesTypes(old), NamesTypes(new)
    PROVE  /\ ~ TypeChangeBreaking(old, new, response) =>
                \A value : Narrows(response, AcceptsType(old, value), AcceptsType(new, value))
           /\ TypeChangeBreaking(old, new, response) /\ AnyType \notin {old, new} =>
                \E value : ~ Narrows(response, AcceptsType(old, value), AcceptsType(new, value))
  <1> DEFINE from == IF response THEN new ELSE old
             to == IF response THEN old ELSE new
  <1>1. TypeChangeBreaking(old, new, response)
          <=> to # AnyType /\ (from = AnyType \/ \E t \in from : ~ Accommodates(to, t))
    BY DEF TypeChangeBreaking
  <1>2. \A value : Narrows(response, AcceptsType(old, value), AcceptsType(new, value))
                     <=> (AcceptsType(from, value) => AcceptsType(to, value))
    BY DEF Narrows
  <1> HIDE DEF from, to
  <1>3. ASSUME ~ TypeChangeBreaking(old, new, response), NEW value, AcceptsType(from, value)
        PROVE  AcceptsType(to, value)
    <2>1. CASE to = AnyType
      BY <2>1 DEF AcceptsType
    <2>2. CASE to # AnyType
      <3>1. from # AnyType /\ \A t \in from : Accommodates(to, t)
        BY <1>1, <1>3, <2>2
      <3>2. Accommodates(from, value.kind)
        BY <1>3, <3>1 DEF AcceptsType
      <3>3. Accommodates(to, value.kind)
        <4>1. CASE value.kind \in from
          BY <3>1, <4>1
        <4>2. CASE value.kind = "integer" /\ "number" \in from
          <5>1. Accommodates(to, "number")
            BY <3>1, <4>2
          <5> QED BY <4>2, <5>1 DEF Accommodates
        <4> QED BY <3>2, <4>1, <4>2 DEF Accommodates
      <3> QED BY <3>3 DEF AcceptsType
    <2> QED BY <2>1, <2>2
  <1>4. ASSUME TypeChangeBreaking(old, new, response), AnyType \notin {old, new}
        PROVE  \E value : AcceptsType(from, value) /\ ~ AcceptsType(to, value)
    <2>1. from # AnyType /\ to # AnyType
      BY <1>4 DEF from, to
    <2>2. PICK t \in from : ~ Accommodates(to, t)
      BY <1>1, <1>4, <2>1
    <2>3. PICK value : value = [kind |-> t]
      OBVIOUS
    <2>4. value.kind = t
      BY <2>3
    <2>5. AcceptsType(from, value) /\ ~ AcceptsType(to, value)
      BY <2>1, <2>2, <2>4 DEF AcceptsType, Accommodates
    <2> QED BY <2>5
  <1> QED BY <1>2, <1>3, <1>4

LEMMA ListChangesAreJudged ==
    ASSUME NEW change, NEW at, NEW old, NEW new, NEW response \in BOOLEAN,
           IsEnum(old), IsEnum(new),
           ~ Handled(CompareEnumValueLists(change, at, old, new, response)), NEW value
    PROVE  Narrows(response, MeetsAll(old, value), MeetsAll(new, value))
  <1>1. CASE old = {} /\ new = {}
    BY <1>1 DEF Narrows
  <1>2. CASE old = {} /\ new # {}
    <2>1. ~ (TRUE # response)
      BY <1>2, AddUnhandled DEF CompareEnumValueLists
    <2> QED BY <1>2, <2>1 DEF Narrows, MeetsAll
  <1>3. CASE old # {} /\ new = {}
    <2>1. ~ (FALSE # response)
      BY <1>3, AddUnhandled DEF CompareEnumValueLists
    <2> QED BY <1>3, <2>1 DEF Narrows, MeetsAll
  <1>4. CASE old # {} /\ new # {}
    <2>1. PICK from, to : old = {from} /\ new = {to}
      BY <1>4 DEF IsEnum
    <2>2. (CHOOSE s \in old : TRUE) = from /\ (CHOOSE s \in new : TRUE) = to
      BY <2>1
    <2> DEFINE Gone(v) == Add(change, at \o <<"removed", v>>, TRUE)
               Came(v) == Add(change, at \o <<"added", v>>, response)
               gone == {Gone(v) : v \in from \ to}
               came == {Came(v) : v \in to \ from}
               items == CompareEnumValueLists(change, at, old, new, response)
    <2>3. items = (UNION gone) \cup (UNION came)
      BY <1>4, <2>2 DEF CompareEnumValueLists
    <2>4. ASSUME NEW v \in from \ to PROVE FALSE
      <3>1. Gone(v) \in gone
        <4> HIDE DEF Gone
        <4> QED OBVIOUS
      <3>2. ~ Handled(Gone(v))
        <4>1. ~ Handled(items)
          OBVIOUS
        <4> HIDE DEF Gone, gone, came, items
        <4>2. Gone(v) \subseteq items
          BY <2>3, <3>1
        <4> QED BY <4>1, <4>2, PartsUnhandled
      <3> QED BY <3>2, AddUnhandled
    <2>5. ASSUME NEW v \in to \ from PROVE ~ response
      <3>1. Came(v) \in came
        <4> HIDE DEF Came
        <4> QED OBVIOUS
      <3>2. ~ Handled(Came(v))
        <4>1. ~ Handled(items)
          OBVIOUS
        <4> HIDE DEF Came, gone, came, items
        <4>2. Came(v) \subseteq items
          BY <2>3, <3>1
        <4> QED BY <4>1, <4>2, PartsUnhandled
      <3> QED BY <3>2, AddUnhandled
    <2> HIDE DEF items, gone, came
    <2>6. (MeetsAll(old, value) <=> value \in from) /\ (MeetsAll(new, value) <=> value \in to)
      BY <2>1 DEF MeetsAll
    <2> QED BY <2>4, <2>5, <2>6 DEF Narrows
  <1> QED BY <1>1, <1>2, <1>3, <1>4

\* What fragments say of a value by its type and by what they list.
AllowedByAll(fragments, value) == \A f \in fragments : OfItsType(f, value) /\ Listed(f, value)

\* What is known of one field of a schema by the fragments that speak of it.
OfFragments(field, fragments) ==
    /\ field.types = CombinedType(fragments)
    /\ field.enum = CombinedEnum(fragments)

\* The comparison of one field on both sides, if it leaves nothing to handle, loses no value: one
\* that all fragments of the side it comes from allow is allowed by all fragments of the side
\* that must take it, and nothing it may leave out is demanded (compareSchemaChildren).
THEOREM FieldsAreComparedRightly ==
    ASSUME NEW change, NEW here, NEW before, NEW after, NEW response \in BOOLEAN,
           NEW old, NEW new, IsFiniteSet(old), IsFiniteSet(new),
           \A f \in old \cup new : "any" \notin Field(f, "type", {}),
           OfFragments(before, old), OfFragments(after, new),
           before.required \in BOOLEAN, after.required \in BOOLEAN,
           ~ Handled(DirectChanges(change, here, before, after, response))
    PROVE  /\ \A value : Narrows(response, AllowedByAll(old, value), AllowedByAll(new, value))
           /\ IF response THEN before.required => after.required
              ELSE after.required => before.required
  <1> DEFINE items == DirectChanges(change, here, before, after, response)
             typed == IF before.types = after.types THEN {}
                      ELSE Add(change, here \o <<"type">>,
                               TypeChangeBreaking(before.types, after.types, response))
             needed == IF before.required = after.required THEN {}
                       ELSE Add(change, here \o <<"required">>, after.required # response)
             listed == CompareEnumValueLists(change, here, before.enum, after.enum, response)
  <1>1. items = typed \cup needed \cup listed
    BY DEF DirectChanges
  <1>2. ~ Handled(typed) /\ ~ Handled(needed) /\ ~ Handled(listed)
    <2>1. ~ Handled(items)
      OBVIOUS
    <2> HIDE DEF items, typed, needed, listed
    <2> QED BY <1>1, <2>1, PartsUnhandled
  <1>3. before.types = after.types \/ ~ TypeChangeBreaking(before.types, after.types, response)
    BY <1>2, AddUnhandled
  <1>4. before.required = after.required \/ ~ (after.required # response)
    BY <1>2, AddUnhandled
  <1> HIDE DEF items, typed, needed
  <1>5. /\ NamesTypes(before.types) /\ NamesTypes(after.types)
        /\ \A value : AcceptsType(before.types, value) <=> \A f \in old : OfItsType(f, value)
        /\ \A value : AcceptsType(after.types, value) <=> \A f \in new : OfItsType(f, value)
    <2>1. /\ \A f \in old : "any" \notin Field(f, "type", {})
          /\ \A f \in new : "any" \notin Field(f, "type", {})
      OBVIOUS
    <2> QED BY <2>1, CombinedTypeIsWhatAllAllow DEF OfFragments
  <1>6. /\ IsEnum(before.enum) /\ IsEnum(after.enum)
        /\ \A value : MeetsAll(before.enum, value) <=> \A f \in old : Listed(f, value)
        /\ \A value : MeetsAll(after.enum, value) <=> \A f \in new : Listed(f, value)
    BY CombinedEnumIsWhatAllList DEF OfFragments
  <1>7. ASSUME NEW value
        PROVE  Narrows(response, AcceptsType(before.types, value), AcceptsType(after.types, value))
    <2>1. CASE before.types = after.types
      BY <2>1 DEF Narrows
    <2>2. CASE ~ TypeChangeBreaking(before.types, after.types, response)
      BY <1>5, <2>2, TypeChangesAreJudgedRightly
    <2> QED BY <1>3, <2>1, <2>2
  <1>8. ASSUME NEW value
        PROVE  Narrows(response, MeetsAll(before.enum, value), MeetsAll(after.enum, value))
    <2>1. ~ Handled(listed) /\ IsEnum(before.enum) /\ IsEnum(after.enum)
      BY <1>2, <1>6
    <2> QED BY <2>1, ListChangesAreJudged
  <1> HIDE DEF listed
  <1>9. ASSUME NEW value
        PROVE  Narrows(response, AllowedByAll(old, value), AllowedByAll(new, value))
    BY <1>5, <1>6, <1>7, <1>8 DEF Narrows, AllowedByAll
  <1>10. IF response THEN before.required => after.required ELSE after.required => before.required
    BY <1>4
  <1> QED BY <1>9, <1>10

\* Two rules of a property that lists are made of: what the types and the values listed allow.
RuleForm(r) ==
    /\ NamesTypes(r.types)
    /\ IsEnum(r.enum)

\* Rules of a property that are neither called breaking nor left to a reviewer: every value the
\* one accepts the other accepts (changedPropertyCompatibility).
THEOREM SimpleRulesAreJudgedRightly ==
    ASSUME NEW from, NEW to, RuleForm(from), RuleForm(to),
           ~ CompareSimpleRules(from, to).breaking, ~ CompareSimpleRules(from, to).manual
    PROVE  \A value : AcceptedBy(from, value) => AcceptedBy(to, value)
  <1> SUFFICES ASSUME NEW value, AcceptedBy(from, value) PROVE AcceptedBy(to, value)
    OBVIOUS
  <1>1. \A b, m : Verdict(b, m).breaking = b /\ Verdict(b, m).manual = m
    BY DEF Verdict
  <1>2. ~ EmptyRule(from)
    <2>1. from.types # {}
      BY DEF AcceptedBy, AcceptsType, Accommodates, AnyType
    <2>2. {} \notin from.enum
      BY DEF AcceptedBy
    <2> QED BY <2>1, <2>2 DEF EmptyRule
  <1>3. CASE UniversalRule(to)
    BY <1>3 DEF UniversalRule, AcceptedBy, AcceptsType
  <1>4. CASE ~ UniversalRule(to)
    <2>1. ~ (from.unknown \/ to.unknown)
      BY <1>1, <1>2, <1>4 DEF CompareSimpleRules
    <2>2. CASE from.enum # {}
      <3>1. CompareSimpleRules(from, to) = Verdict(\E s \in from.enum : \E v \in s : ~ AcceptedBy(to, v), FALSE)
        BY <1>2, <1>4, <2>1, <2>2 DEF CompareSimpleRules
      <3>2. ~ \E s \in from.enum : \E v \in s : ~ AcceptedBy(to, v)
        BY <1>1, <3>1
      <3>3. PICK s \in from.enum : value \in s
        BY <2>2 DEF AcceptedBy
      <3> QED BY <3>2, <3>3
    <2>3. CASE from.enum = {}
      <3>1. CompareSimpleRules(from, to)
              = Verdict(to.enum # {} \/ TypeChangeBreaking(from.types, to.types, FALSE), FALSE)
        BY <1>2, <1>4, <2>1, <2>3 DEF CompareSimpleRules
      <3>2. to.enum = {} /\ ~ TypeChangeBreaking(from.types, to.types, FALSE)
        BY <1>1, <3>1
      <3>3. Narrows(FALSE, AcceptsType(from.types, value), AcceptsType(to.types, value))
        BY <3>2, TypeChangesAreJudgedRightly DEF RuleForm
      <3> QED BY <3>2, <3>3 DEF Narrows, AcceptedBy
    <2> QED BY <2>2, <2>3
  <1> QED BY <1>3, <1>4

LEMMA StatedIs ==
    ASSUME NEW schema, NEW key
    PROVE  Stated(schema, key) = IF HasKey(schema, key) THEN {schema[key]} ELSE {}
  BY DEF Stated, HasKey

\* Bounds are whole halves, as the numbers of values are.
BoundsAreNumbers(schema) == \A k \in NumericKeywords : HasKey(schema, k) => schema[k] \in Int

\* What the bounds on one side say of a number.
OnThatSide(schema, lower, n) ==
    IF lower THEN /\ HasKey(schema, "minimum") => n >= schema["minimum"]
                  /\ HasKey(schema, "exclusiveMinimum") => n > schema["exclusiveMinimum"]
             ELSE /\ HasKey(schema, "maximum") => n <= schema["maximum"]
                  /\ HasKey(schema, "exclusiveMaximum") => n < schema["exclusiveMaximum"]

\* The larger of at most two numbers says what both say.
LEMMA LargestSays ==
    ASSUME NEW A, NEW B, A = {} \/ \E a \in Int : A = {a}, B = {} \/ \E b \in Int : B = {b},
           NEW n \in Int
    PROVE  LET limits == A \cup B
               largest == {limit \in limits : \A other \in limits : limit >= other}
           IN /\ largest = {} \/ \E t \in Int : largest = {t}
              /\ (\A t \in largest : n >= t) <=> \A limit \in limits : n >= limit
  <1> DEFINE limits == A \cup B
             largest == {limit \in limits : \A other \in limits : limit >= other}
  <1>1. CASE A = {} /\ B = {}
    BY <1>1
  <1>2. CASE A # {} /\ B = {}
    <2>1. PICK a \in Int : A = {a}
      BY <1>2
    <2>2. limits = {a} /\ largest = {a}
      BY <1>2, <2>1
    <2> QED BY <2>2
  <1>3. CASE A = {} /\ B # {}
    <2>1. PICK b \in Int : B = {b}
      BY <1>3
    <2>2. limits = {b} /\ largest = {b}
      BY <1>3, <2>1
    <2> QED BY <2>2
  <1>4. CASE A # {} /\ B # {}
    <2>1. PICK a \in Int, b \in Int : A = {a} /\ B = {b}
      BY <1>4
    <2>2. limits = {a, b}
      BY <2>1
    <2>3. CASE a >= b
      <3>1. largest = {a}
        BY <2>2, <2>3
      <3> HIDE DEF limits, largest
      <3> QED BY <2>2, <2>3, <3>1
    <2>4. CASE ~ (a >= b)
      <3>1. largest = {b}
        BY <2>2, <2>4
      <3> HIDE DEF limits, largest
      <3> QED BY <2>2, <2>4, <3>1
    <2> QED BY <2>3, <2>4
  <1> QED BY <1>1, <1>2, <1>3, <1>4

LEMMA TightnessSays ==
    ASSUME NEW schema, BoundsAreNumbers(schema), NEW lower \in BOOLEAN, NEW n \in Int
    PROVE  /\ Tightness(schema, lower) = {} \/ \E t \in Int : Tightness(schema, lower) = {t}
           /\ OnThatSide(schema, lower, n)
                <=> \A t \in Tightness(schema, lower) : (IF lower THEN 2 * n ELSE -(2 * n)) >= t
  <1> DEFINE side == IF lower THEN 1 ELSE -1
             plain == IF lower THEN "minimum" ELSE "maximum"
             strict == IF lower THEN "exclusiveMinimum" ELSE "exclusiveMaximum"
             A == {2 * side * k : k \in Stated(schema, plain)}
             B == {2 * side * k + 1 : k \in Stated(schema, strict)}
             limits == A \cup B
             largest == {limit \in limits : \A other \in limits : limit >= other}
  <1>1. Tightness(schema, lower) = largest
    BY DEF Tightness
  <1>2. /\ HasKey(schema, plain) => schema[plain] \in Int
        /\ HasKey(schema, strict) => schema[strict] \in Int
    BY DEF BoundsAreNumbers, NumericKeywords
  <1>3. PICK m \in Int : m = IF lower THEN 2 * n ELSE -(2 * n)
    OBVIOUS
  <1>4. /\ A = {} \/ \E a \in Int : A = {a}
        /\ (\A limit \in A : m >= limit) <=>
             (HasKey(schema, plain) => IF lower THEN n >= schema[plain] ELSE n <= schema[plain])
    <2>1. CASE ~ HasKey(schema, plain)
      <3>1. A = {}
        BY <2>1, StatedIs
      <3> HIDE DEF A
      <3> QED BY <2>1, <3>1
    <2>2. CASE HasKey(schema, plain)
      <3>1. PICK k \in Int : k = schema[plain]
        BY <1>2, <2>2
      <3>2. A = {2 * side * k}
        BY <2>2, <3>1, StatedIs
      <3>3. CASE lower
        <4>1. A = {2 * k} /\ 2 * k \in Int /\ m = 2 * n
          BY <1>3, <3>2, <3>3
        <4> HIDE DEF A
        <4> QED BY <2>2, <3>1, <3>3, <4>1
      <3>4. CASE ~ lower
        <4>1. A = {-(2 * k)} /\ -(2 * k) \in Int /\ m = -(2 * n)
          BY <1>3, <3>2, <3>4
        <4> HIDE DEF A
        <4> QED BY <2>2, <3>1, <3>4, <4>1
      <3> QED BY <3>3, <3>4
    <2> QED BY <2>1, <2>2
  <1>5. /\ B = {} \/ \E b \in Int : B = {b}
        /\ (\A limit \in B : m >= limit) <=>
             (HasKey(schema, strict) => IF lower THEN n > schema[strict] ELSE n < schema[strict])
    <2>1. CASE ~ HasKey(schema, strict)
      <3>1. B = {}
        BY <2>1, StatedIs
      <3> HIDE DEF B
      <3> QED BY <2>1, <3>1
    <2>2. CASE HasKey(schema, strict)
      <3>1. PICK k \in Int : k = schema[strict]
        BY <1>2, <2>2
      <3>2. B = {2 * side * k + 1}
        BY <2>2, <3>1, StatedIs
      <3>3. CASE lower
        <4>1. B = {2 * k + 1} /\ 2 * k + 1 \in Int /\ m = 2 * n
          BY <1>3, <3>2, <3>3
        <4> HIDE DEF B
        <4> QED BY <2>2, <3>1, <3>3, <4>1
      <3>4. CASE ~ lower
        <4>1. B = {-(2 * k) + 1} /\ -(2 * k) + 1 \in Int /\ m = -(2 * n)
          BY <1>3, <3>2, <3>4
        <4> HIDE DEF B
        <4> QED BY <2>2, <3>1, <3>4, <4>1
      <3> QED BY <3>3, <3>4
    <2> QED BY <2>1, <2>2
  <1> HIDE DEF A, B
  <1>6. /\ largest = {} \/ \E t \in Int : largest = {t}
        /\ (\A t \in largest : m >= t) <=> \A limit \in limits : m >= limit
    BY ZenonT(40), <1>4, <1>5, LargestSays
  <1>7. OnThatSide(schema, lower, n) <=> \A limit \in limits : m >= limit
    <2>1. CASE lower
      BY <1>4, <1>5, <2>1 DEF OnThatSide
    <2>2. CASE ~ lower
      BY <1>4, <1>5, <2>2 DEF OnThatSide
    <2> QED BY <2>1, <2>2
  <1> HIDE DEF limits, largest
  <1> QED BY <1>1, <1>3, <1>6, <1>7

\* The same keywords exclude the same.
LEMMA KeywordsSayTightness ==
    ASSUME NEW old, NEW new, NEW lower \in BOOLEAN,
           BoundKeywords(old, lower) = BoundKeywords(new, lower)
    PROVE  Tightness(old, lower) = Tightness(new, lower)
  <1> DEFINE plain == IF lower THEN "minimum" ELSE "maximum"
             strict == IF lower THEN "exclusiveMinimum" ELSE "exclusiveMaximum"
             sides == IF lower THEN {"minimum", "exclusiveMinimum", "exclusiveMinimumFlag"}
                      ELSE {"maximum", "exclusiveMaximum", "exclusiveMaximumFlag"}
  <1>1. plain \in sides /\ strict \in sides
    OBVIOUS
  <1>2. \A schema : BoundKeywords(schema, lower) = [k \in DOMAIN schema \cap sides |-> schema[k]]
    BY DEF BoundKeywords, Restrict
  <1> HIDE DEF sides
  <1>3. ASSUME NEW k \in sides PROVE Stated(old, k) = Stated(new, k)
    <2> DEFINE f == BoundKeywords(old, lower)
               g == BoundKeywords(new, lower)
    <2>1. f = [j \in DOMAIN old \cap sides |-> old[j]] /\ g = [j \in DOMAIN new \cap sides |-> new[j]]
      BY <1>2
    <2>2. f = g
      OBVIOUS
    <2> HIDE DEF f, g
    <2>3. DOMAIN f = DOMAIN old \cap sides /\ DOMAIN g = DOMAIN new \cap sides
      BY <2>1
    <2>4. (k \in DOMAIN old => f[k] = old[k]) /\ (k \in DOMAIN new => g[k] = new[k])
      BY <2>1
    <2>5. /\ k \in DOMAIN old <=> k \in DOMAIN new
          /\ k \in DOMAIN old => old[k] = new[k]
      BY <2>2, <2>3, <2>4
    <2> QED BY <2>5 DEF Stated
  <1>4. Stated(old, plain) = Stated(new, plain) /\ Stated(old, strict) = Stated(new, strict)
    BY <1>1, <1>3
  <1> QED BY <1>4 DEF Tightness

\* Bounds that change without leaving anything to handle admit every number they admitted, in
\* the direction numbers go; bounds that cannot be read do not change (compareNumericBounds).
THEOREM BoundsAreComparedRightly ==
    ASSUME NEW change, NEW at, NEW old, NEW new, NEW response \in BOOLEAN,
           BoundsAreNumbers(old), BoundsAreNumbers(new),
           ~ Handled(CompareNumericBounds(change, at, old, new, response)),
           NEW value, value.number \in Int
    PROVE  Narrows(response, WithinBounds(old, value), WithinBounds(new, value))
  <1> DEFINE Of(lower) == IF Unreadable(old, lower) \/ Unreadable(new, lower)
                          THEN IF BoundKeywords(old, lower) = BoundKeywords(new, lower) THEN {}
                               ELSE Manual(change, at \o <<"bound", lower>>)
                          ELSE IF Tightness(old, lower) = Tightness(new, lower) THEN {}
                          ELSE Add(change, at \o <<"bound", lower>>,
                                   Tighter(Tightness(new, lower), Tightness(old, lower)) # response)
             ofSides == {Of(lower) : lower \in BOOLEAN}
             items == CompareNumericBounds(change, at, old, new, response)
  <1>1. items = UNION ofSides
    BY DEF CompareNumericBounds
  <1>2. PICK n \in Int : n = value.number
    OBVIOUS
  <1>3. ASSUME NEW lower \in BOOLEAN
        PROVE  Narrows(response, OnThatSide(old, lower, n), OnThatSide(new, lower, n))
    <2>1. ~ Handled(Of(lower))
      <3>1. Of(lower) \in ofSides
        <4> HIDE DEF Of
        <4> QED OBVIOUS
      <3>2. ~ Handled(items)
        OBVIOUS
      <3> HIDE DEF Of, ofSides, items
      <3>3. Of(lower) \subseteq items
        BY <1>1, <3>1
      <3> QED BY <3>2, <3>3, PartsUnhandled
    <2> DEFINE before == Tightness(old, lower)
               after == Tightness(new, lower)
    <2>2. before = after \/ ~ (Tighter(after, before) # response)
      <3>1. CASE BoundKeywords(old, lower) = BoundKeywords(new, lower)
        BY <3>1, KeywordsSayTightness
      <3>2. CASE /\ BoundKeywords(old, lower) # BoundKeywords(new, lower)
                 /\ Unreadable(old, lower) \/ Unreadable(new, lower)
        <4>1. Of(lower) = Manual(change, at \o <<"bound", lower>>)
          BY <3>2
        <4> QED BY <2>1, <4>1, ManualIsHandled
      <3>3. CASE ~ (Unreadable(old, lower) \/ Unreadable(new, lower))
        BY <2>1, <3>3, AddUnhandled
      <3> QED BY <3>1, <3>2, <3>3
    <2>3. PICK m \in Int : m = IF lower THEN 2 * n ELSE -(2 * n)
      OBVIOUS
    <2>4. /\ before = {} \/ \E t \in Int : before = {t}
          /\ after = {} \/ \E t \in Int : after = {t}
          /\ OnThatSide(old, lower, n) <=> \A t \in before : m >= t
          /\ OnThatSide(new, lower, n) <=> \A t \in after : m >= t
      BY <2>3, TightnessSays
    <2> HIDE DEF before, after, Of
    <2>5. Tighter(after, before) \in BOOLEAN
      BY DEF Tighter
    <2>6. CASE before = after
      BY <2>4, <2>6 DEF Narrows
    <2>7. CASE response /\ Tighter(after, before)
      <3>1. PICK t \in after : \A s \in before : t > s
        BY <2>7 DEF Tighter
      <3> QED BY <2>4, <2>7, <3>1 DEF Narrows
    <2>8. CASE ~ response /\ ~ Tighter(after, before)
      <3>1. \A t \in after : \E s \in before : ~ (t > s)
        BY <2>8 DEF Tighter
      <3> QED BY <2>4, <2>8, <3>1 DEF Narrows
    <2> QED BY <2>2, <2>5, <2>6, <2>7, <2>8
  <1>4. \A schema : WithinBounds(schema, value)
                      <=> OnThatSide(schema, TRUE, n) /\ OnThatSide(schema, FALSE, n)
    BY <1>2 DEF WithinBounds, OnThatSide
  <1> HIDE DEF items, ofSides, Of
  <1> QED BY <1>3, <1>4 DEF Narrows

SizesAreNumbers(schema) == \A k \in SizeKeywords : HasKey(schema, k) => schema[k] \in Int

\* What one keyword says of a size.
OfThatSize(schema, k, n) ==
    HasKey(schema, k) => IF k \in Upper THEN n <= schema[k] ELSE n >= schema[k]

\* The size of a value is a number.
IsMeasured(value) ==
    /\ Numeric(value.kind) => value.number \in Int
    /\ value.kind = "string" => value.length \in Int
    /\ value.kind = "array" => Len(value.elements) \in Int
    /\ value.kind = "object" => Cardinality(DOMAIN value.fields) \in Int

LEMMA SizeKeywordJudged ==
    ASSUME NEW change, NEW at, NEW old, NEW new, NEW response \in BOOLEAN,
           SizesAreNumbers(old), SizesAreNumbers(new),
           ~ Handled(CompareSizes(change, at, old, new, response)),
           NEW k \in SizeKeywords, NEW n \in Int
    PROVE  Narrows(response, OfThatSize(old, k, n), OfThatSize(new, k, n))
  <1> DEFINE Narrower(j) == \E m \in Stated(new, j) : \A l \in Stated(old, j) :
                               IF j \in Upper THEN m < l ELSE l < m
             changed == {j \in SizeKeywords : Stated(old, j) # Stated(new, j)}
             Of(j) == Add(change, at \o <<j>>, Narrower(j) # response)
             ofChanged == {Of(j) : j \in changed}
             items == CompareSizes(change, at, old, new, response)
  <1>1. items = UNION ofChanged
    BY DEF CompareSizes
  <1>2. ASSUME k \in changed PROVE ~ (Narrower(k) # response)
    <2>1. Of(k) \in ofChanged
      <3> HIDE DEF Of, changed
      <3> QED BY <1>2
    <2>2. ~ Handled(items)
      OBVIOUS
    <2>3. ~ Handled(Of(k))
      <3> HIDE DEF Of, ofChanged, items
      <3>1. Of(k) \subseteq items
        BY <1>1, <2>1
      <3> QED BY <2>2, <3>1, PartsUnhandled
    <2> HIDE DEF Narrower
    <2> QED BY <2>3, AddUnhandled
  <1>3. /\ HasKey(old, k) => old[k] \in Int
        /\ HasKey(new, k) => new[k] \in Int
    BY DEF SizesAreNumbers
  <1>4. /\ Stated(old, k) = IF HasKey(old, k) THEN {old[k]} ELSE {}
        /\ Stated(new, k) = IF HasKey(new, k) THEN {new[k]} ELSE {}
    BY StatedIs
  <1>5. Narrower(k) <=> /\ HasKey(new, k)
                        /\ HasKey(old, k) => IF k \in Upper THEN new[k] < old[k] ELSE old[k] < new[k]
    BY <1>4
  <1>6. CASE k \notin changed
    <2>1. Stated(old, k) = Stated(new, k)
      BY <1>6
    <2>2. (HasKey(old, k) <=> HasKey(new, k)) /\ (HasKey(old, k) => old[k] = new[k])
      BY <1>4, <2>1
    <2> QED BY <2>2 DEF OfThatSize, Narrows
  <1>7. CASE k \in changed /\ response
    <2>1. Narrower(k)
      BY <1>2, <1>7
    <2>2. HasKey(new, k) /\ (HasKey(old, k) => IF k \in Upper THEN new[k] < old[k] ELSE old[k] < new[k])
      BY <1>5, <2>1
    <2> HIDE DEF Narrower, changed
    <2> QED BY <1>3, <1>7, <2>2 DEF OfThatSize, Narrows
  <1>8. CASE k \in changed /\ ~ response
    <2>1. ~ Narrower(k)
      BY <1>2, <1>8
    <2>2. HasKey(new, k) =>
            HasKey(old, k) /\ ~ (IF k \in Upper THEN new[k] < old[k] ELSE old[k] < new[k])
      BY <1>5, <2>1
    <2> HIDE DEF Narrower, changed
    <2> QED BY <1>3, <1>8, <2>2 DEF OfThatSize, Narrows
  <1> QED BY <1>6, <1>7, <1>8

\* Sizes that change without leaving anything to handle admit every value they admitted, in the
\* direction values go (compareSchemaConstraints).
THEOREM SizesAreComparedRightly ==
    ASSUME NEW change, NEW at, NEW old, NEW new, NEW response \in BOOLEAN,
           SizesAreNumbers(old), SizesAreNumbers(new),
           ~ Handled(CompareSizes(change, at, old, new, response)),
           NEW value, IsMeasured(value)
    PROVE  Narrows(response, OfItsSize(old, value), OfItsSize(new, value))
  <1>1. \A k \in SizeKeywords : \A n \in Int :
          Narrows(response, OfThatSize(old, k, n), OfThatSize(new, k, n))
    BY SizeKeywordJudged
  <1>2. /\ \A n, schema : Within(n, schema, "minLength", "maxLength")
                            <=> OfThatSize(schema, "minLength", n) /\ OfThatSize(schema, "maxLength", n)
        /\ \A n, schema : Within(n, schema, "minItems", "maxItems")
                            <=> OfThatSize(schema, "minItems", n) /\ OfThatSize(schema, "maxItems", n)
        /\ \A n, schema : Within(n, schema, "minProperties", "maxProperties")
                            <=> OfThatSize(schema, "minProperties", n) /\ OfThatSize(schema, "maxProperties", n)
    BY DEF Within, OfThatSize, Upper
  <1>3. ASSUME NEW n \in Int
        PROVE  /\ Narrows(response, Within(n, old, "minLength", "maxLength"),
                                    Within(n, new, "minLength", "maxLength"))
               /\ Narrows(response, Within(n, old, "minItems", "maxItems"),
                                    Within(n, new, "minItems", "maxItems"))
               /\ Narrows(response, Within(n, old, "minProperties", "maxProperties"),
                                    Within(n, new, "minProperties", "maxProperties"))
    <2>1. \A k \in SizeKeywords : Narrows(response, OfThatSize(old, k, n), OfThatSize(new, k, n))
      BY <1>1
    <2>2. /\ Narrows(response, OfThatSize(old, "minLength", n), OfThatSize(new, "minLength", n))
          /\ Narrows(response, OfThatSize(old, "maxLength", n), OfThatSize(new, "maxLength", n))
          /\ Narrows(response, OfThatSize(old, "minItems", n), OfThatSize(new, "minItems", n))
          /\ Narrows(response, OfThatSize(old, "maxItems", n), OfThatSize(new, "maxItems", n))
          /\ Narrows(response, OfThatSize(old, "minProperties", n), OfThatSize(new, "minProperties", n))
          /\ Narrows(response, OfThatSize(old, "maxProperties", n), OfThatSize(new, "maxProperties", n))
      BY <2>1 DEF SizeKeywords
    <2> QED BY <1>2, <2>2 DEF Narrows
  <1>4. CASE value.kind = "string"
    <2>1. value.length \in Int
      BY <1>4 DEF IsMeasured
    <2>2. Narrows(response, Within(value.length, old, "minLength", "maxLength"),
                            Within(value.length, new, "minLength", "maxLength"))
      BY <1>3, <2>1
    <2> QED BY <1>4, <2>2 DEF OfItsSize, Narrows
  <1>5. CASE value.kind = "array"
    <2>1. Len(value.elements) \in Int
      BY <1>5 DEF IsMeasured
    <2>2. Narrows(response, Within(Len(value.elements), old, "minItems", "maxItems"),
                            Within(Len(value.elements), new, "minItems", "maxItems"))
      BY <1>3, <2>1
    <2> QED BY <1>5, <2>2 DEF OfItsSize, Narrows
  <1>6. CASE value.kind = "object"
    <2>1. Cardinality(DOMAIN value.fields) \in Int
      BY <1>6 DEF IsMeasured
    <2>2. Narrows(response, Within(Cardinality(DOMAIN value.fields), old, "minProperties", "maxProperties"),
                            Within(Cardinality(DOMAIN value.fields), new, "minProperties", "maxProperties"))
      BY <1>3, <2>1
    <2> QED BY <1>6, <2>2 DEF OfItsSize, Narrows
  <1>7. CASE value.kind \notin {"string", "array", "object"}
    BY <1>7 DEF OfItsSize, Narrows
  <1> QED BY <1>4, <1>5, <1>6, <1>7

\* Schemas of one fragment: if types, values, bounds and sizes leave nothing to handle, every
\* value that the keywords of the one side accept the keywords of the other accept, in the
\* direction values go.  This is what the comparison says of schemas that speak of a value and
\* not of its parts (compareSchemaRootType, compareEnumValues, compareSchemaConstraints).
THEOREM OwnKeywordsAreComparedRightly ==
    ASSUME NEW change, NEW at, NEW before, NEW after, NEW old, NEW new, NEW response \in BOOLEAN,
           \A schema \in {old, new} : /\ "any" \notin Field(schema, "type", {})
                                      /\ BoundsAreNumbers(schema) /\ SizesAreNumbers(schema),
           OfFragments(before, {old}), OfFragments(after, {new}),
           before.required \in BOOLEAN, after.required \in BOOLEAN,
           ~ Handled(DirectChanges(change, at, before, after, response)),
           ~ Handled(CompareNumericBounds(change, at, old, new, response)),
           ~ Handled(CompareSizes(change, at, old, new, response)),
           NEW value, IsMeasured(value)
    PROVE  Narrows(response, OwnKeywordsAccept(old, value), OwnKeywordsAccept(new, value))
  <1>1. Narrows(response, OfItsType(old, value) /\ Listed(old, value),
                          OfItsType(new, value) /\ Listed(new, value))
    <2> DEFINE olds == {old}
               news == {new}
    <2>1. IsFiniteSet(olds) /\ IsFiniteSet(news)
      BY FS_Singleton
    <2>2. \A f \in olds \cup news : "any" \notin Field(f, "type", {})
      OBVIOUS
    <2>3. OfFragments(before, olds) /\ OfFragments(after, news)
      OBVIOUS
    <2>4. Narrows(response, AllowedByAll(olds, value), AllowedByAll(news, value))
      <3> HIDE DEF olds, news
      <3> QED BY <2>1, <2>2, <2>3, FieldsAreComparedRightly
    <2> QED BY <2>4 DEF Narrows, AllowedByAll
  <1>2. Numeric(value.kind) => Narrows(response, WithinBounds(old, value), WithinBounds(new, value))
    BY BoundsAreComparedRightly DEF IsMeasured
  <1>3. Narrows(response, OfItsSize(old, value), OfItsSize(new, value))
    BY SizesAreComparedRightly
  <1> QED BY <1>1, <1>2, <1>3 DEF OwnKeywordsAccept, Narrows

-----------------------------------------------------------------------------
(* What readers may conclude from an answer                                *)

\* The endpoints compared are the views of what parsing the sources gave, and all state their
\* security.
ViewsAreOfContracts ==
    \A v \in Versions :
        /\ ViewOf(v) = [k \in DOMAIN Contract(v) |-> EndpointForComparison(Contract(v)[k])]
        /\ \A k \in DOMAIN Contract(v) : "security" \in DOMAIN Contract(v)[k]

LEMMA ViewsStart == Init => ViewsAreOfContracts
  <1> SUFFICES ASSUME Init, NEW v \in Versions
               PROVE  /\ ViewOf(v) = [k \in DOMAIN Contract(v) |-> EndpointForComparison(Contract(v)[k])]
                      /\ \A k \in DOMAIN Contract(v) : "security" \in DOMAIN Contract(v)[k]
    BY DEF ViewsAreOfContracts
  <1>1. PICK pair \in Sources :
          /\ Published(pair[1]) /\ Published(pair[2])
          /\ sources = [w \in Versions |-> IF w = "from" THEN pair[1] ELSE pair[2]]
    BY DEF Init
  <1>2. PICK source : /\ source = sources[v] /\ Published(source)
                      /\ source \in {pp[1] : pp \in Sources} \cup {pp[2] : pp \in Sources}
    <2>1. sources[v] = pair[1] \/ sources[v] = pair[2]
      BY <1>1
    <2> QED BY <1>1, <2>1
  <1>3. parsed[v] = Parsed(source)
    BY <1>2 DEF Init
  <1> DEFINE endpoints == IF source.format = "text" THEN <<>>
                          ELSE CHOOSE e \in Parse(source.document) : TRUE
  <1>4. parsed[v] = [endpoints |-> endpoints,
                     view |-> [k \in DOMAIN endpoints |-> EndpointForComparison(endpoints[k])]]
    BY <1>3 DEF Parsed
  <1>5. \A k \in DOMAIN endpoints : "security" \in DOMAIN endpoints[k]
    <2>1. CASE source.format = "text"
      BY <2>1
    <2>2. CASE source.format # "text"
      <3>1. endpoints \in Parse(source.document)
        BY <1>2, <2>2 DEF Published
      <3> HIDE DEF endpoints
      <3> QED BY <1>2, <2>2, <3>1, EndpointsAssumption
    <2> QED BY <2>1, <2>2
  <1> HIDE DEF endpoints
  <1>6. Contract(v) = endpoints
    BY <1>4 DEF Contract
  <1>7. ViewOf(v) = [k \in DOMAIN endpoints |-> EndpointForComparison(endpoints[k])]
    BY <1>4 DEF ViewOf
  <1> QED BY <1>5, <1>6, <1>7

LEMMA ViewsStay == ViewsAreOfContracts /\ [Next]_vars => ViewsAreOfContracts'
  <1> SUFFICES ASSUME ViewsAreOfContracts, [Next]_vars PROVE ViewsAreOfContracts'
    OBVIOUS
  <1>1. UNCHANGED parsed
    BY DEF Next, vars, RefreshEndpointFacts, CompareVersions, Diff
  <1> QED BY <1>1 DEF ViewsAreOfContracts, ViewOf, Contract

THEOREM ViewsAreOfContractsAlways == Spec => []ViewsAreOfContracts
  <1> QED BY ViewsStart, ViewsStay, PTL DEF Spec

\* What of an endpoint is compared keeps its security.
LEMMA ViewKeepsSecurity ==
    ASSUME NEW endpoint, "security" \in DOMAIN endpoint
    PROVE  EndpointForComparison(endpoint)["security"] = endpoint["security"]
  BY DEF EndpointForComparison

\* What is said of two contracts.
LEMMA ContractsSay ==
    ASSUME NEW old, NEW new
    PROVE  /\ \A k \in DOMAIN new \ DOMAIN old :
                Add("endpointAdded", <<k>>, FALSE) \subseteq DiffEndpointSets(old, new)
           /\ \A k \in DOMAIN old \ DOMAIN new :
                Add("endpointRemoved", <<k>>, TRUE) \subseteq DiffEndpointSets(old, new)
           /\ \A k \in DOMAIN old \cap DOMAIN new :
                CompareEndpoint(old[k], new[k]) \subseteq DiffEndpointSets(old, new)
  <1> DEFINE Came(k) == Add("endpointAdded", <<k>>, FALSE)
             Gone(k) == Add("endpointRemoved", <<k>>, TRUE)
             Stayed(k) == CompareEndpoint(old[k], new[k])
             before == DOMAIN old
             after == DOMAIN new
             came == {Came(k) : k \in after \ before}
             gone == {Gone(k) : k \in before \ after}
             stayed == {Stayed(k) : k \in before \cap after}
             all == DiffEndpointSets(old, new)
  <1>1. all = (UNION came) \cup (UNION gone) \cup (UNION stayed)
    BY DEF DiffEndpointSets
  <1>2. /\ \A k \in after \ before : Came(k) \in came
        /\ \A k \in before \ after : Gone(k) \in gone
        /\ \A k \in before \cap after : Stayed(k) \in stayed
    <2> HIDE DEF Came, Gone, Stayed, before, after
    <2> QED OBVIOUS
  <1>3. /\ \A k \in after \ before : Came(k) \subseteq all
        /\ \A k \in before \ after : Gone(k) \subseteq all
        /\ \A k \in before \cap after : Stayed(k) \subseteq all
    <2> HIDE DEF all, came, gone, stayed, Came, Gone, Stayed, before, after
    <2>1. ASSUME NEW k \in after \ before PROVE Came(k) \subseteq all
      BY <1>1, <1>2
    <2>2. ASSUME NEW k \in before \ after PROVE Gone(k) \subseteq all
      BY <1>1, <1>2
    <2>3. ASSUME NEW k \in before \cap after PROVE Stayed(k) \subseteq all
      BY <1>1, <1>2
    <2> QED BY <2>1, <2>2, <2>3
  <1> QED BY <1>3

\* An answer is what comparing the two contracts gives.
LEMMA AnswerComparesContracts ==
    ASSUME ComparisonsInvariant, ContractsCompared
    PROVE  Changes = DiffEndpointSets(Contract("from"), Contract("to"))
  <1>1. answered = {Derived}
    BY DEF ComparisonsInvariant, AnswersAreDerived, ContractsCompared
  <1>2. Derived = DiffEndpointSets(Contract("from"), Contract("to"))
    BY DEF Derived, ContractsCompared
  <1> QED BY <1>1, <1>2 DEF Changes

\* If the comparison of schemas is right on the schemas of two contracts, an answer that leaves
\* nothing to handle means that every operation is still there and its clients can go on: for
\* contracts, requests and responses of any size, in whatever order readers came.
THEOREM NothingToHandleIsCompatible ==
    Spec => [](SchemasAreJudged(ViewOf("from"), ViewOf("to")) => NothingToHandleMeansCompatible)
  <1>1. ComparisonsInvariant /\ ViewsAreOfContracts =>
          (SchemasAreJudged(ViewOf("from"), ViewOf("to")) => NothingToHandleMeansCompatible)
    <2> SUFFICES ASSUME ComparisonsInvariant, ViewsAreOfContracts,
                        SchemasAreJudged(ViewOf("from"), ViewOf("to")),
                        ContractsCompared, ~ Handled(Changes)
                 PROVE  /\ DOMAIN Contract("from") \subseteq DOMAIN Contract("to")
                        /\ \A k \in DOMAIN Contract("from") : Keeps(ViewOf("from")[k], ViewOf("to")[k])
      BY DEF NothingToHandleMeansCompatible
    <2>1. PICK old, new : old = Contract("from") /\ new = Contract("to")
      OBVIOUS
    <2>2. ~ Handled(DiffEndpointSets(old, new))
      BY <2>1, AnswerComparesContracts
    <2>3. ASSUME NEW k \in DOMAIN old PROVE k \in DOMAIN new
      <3> SUFFICES ASSUME k \notin DOMAIN new PROVE FALSE
        OBVIOUS
      <3>1. ~ Handled(Add("endpointRemoved", <<k>>, TRUE))
        BY <2>2, <2>3, ContractsSay, PartsUnhandled
      <3> QED BY <3>1, AddUnhandled
    <2>4. ASSUME NEW k \in DOMAIN old PROVE Keeps(ViewOf("from")[k], ViewOf("to")[k])
      <3>1. /\ ViewOf("from")[k] = EndpointForComparison(old[k])
            /\ ViewOf("to")[k] = EndpointForComparison(new[k])
            /\ k \in DOMAIN ViewOf("from") \cap DOMAIN ViewOf("to")
        BY <2>1, <2>3, <2>4 DEF ViewsAreOfContracts, Versions
      <3>2. ~ Handled(CompareEndpoint(old[k], new[k]))
        BY <2>2, <2>3, <2>4, ContractsSay, PartsUnhandled
      <3>3. ~ Handled(CompareViews(ViewOf("from")[k], ViewOf("to")[k]))
        BY <3>1, <3>2 DEF CompareEndpoint
      <3>4. SchemasJudged(ViewOf("from")[k], ViewOf("to")[k])
        BY <3>1 DEF SchemasAreJudged
      <3> QED BY <3>3, <3>4, EndpointsThatNeedNoHandling
    <2> QED BY <2>1, <2>3, <2>4
  <1> QED BY <1>1, ComparisonsInvariantHolds, ViewsAreOfContractsAlways, PTL

\* Under the same condition an answer of no change at all means that the two contracts have the
\* same operations, which accept the same requests under the same security.
THEOREM NoChangeIsTheSameContract ==
    Spec => [](SchemasAreJudged(ViewOf("from"), ViewOf("to")) => NoChangeMeansSameContract)
  <1>1. ComparisonsInvariant /\ ViewsAreOfContracts =>
          (SchemasAreJudged(ViewOf("from"), ViewOf("to")) => NoChangeMeansSameContract)
    <2> SUFFICES ASSUME ComparisonsInvariant, ViewsAreOfContracts,
                        SchemasAreJudged(ViewOf("from"), ViewOf("to")),
                        ContractsCompared, Changes = {}
                 PROVE  /\ DOMAIN Contract("from") = DOMAIN Contract("to")
                        /\ \A k \in DOMAIN Contract("from") :
                             /\ Keeps(ViewOf("from")[k], ViewOf("to")[k])
                             /\ \A q \in Requests :
                                  MaySend(ViewOf("to")[k], q) => AcceptsRequest(ViewOf("from")[k], q)
                             /\ Contract("from")[k].security = Contract("to")[k].security
      BY DEF NoChangeMeansSameContract
    <2>1. PICK old, new : old = Contract("from") /\ new = Contract("to")
      OBVIOUS
    <2>2. DiffEndpointSets(old, new) = {}
      BY <2>1, AnswerComparesContracts
    <2>3. DOMAIN old = DOMAIN new
      <3>1. ASSUME NEW k \in DOMAIN old \ DOMAIN new PROVE FALSE
        <4>1. Add("endpointRemoved", <<k>>, TRUE) = {}
          BY <2>2, <3>1, ContractsSay
        <4> QED BY <4>1, ItemsAreSome
      <3>2. ASSUME NEW k \in DOMAIN new \ DOMAIN old PROVE FALSE
        <4>1. Add("endpointAdded", <<k>>, FALSE) = {}
          BY <2>2, <3>2, ContractsSay
        <4> QED BY <4>1, ItemsAreSome
      <3> QED BY <3>1, <3>2
    <2>4. ASSUME NEW k \in DOMAIN old
          PROVE  /\ Keeps(ViewOf("from")[k], ViewOf("to")[k])
                 /\ \A q \in Requests : MaySend(ViewOf("to")[k], q) => AcceptsRequest(ViewOf("from")[k], q)
                 /\ old[k]["security"] = new[k]["security"]
      <3>1. /\ ViewOf("from")[k] = EndpointForComparison(old[k])
            /\ ViewOf("to")[k] = EndpointForComparison(new[k])
            /\ k \in DOMAIN ViewOf("from") \cap DOMAIN ViewOf("to")
            /\ "security" \in DOMAIN old[k] /\ "security" \in DOMAIN new[k]
        BY <2>1, <2>3, <2>4 DEF ViewsAreOfContracts, Versions
      <3>2. CompareEndpoint(old[k], new[k]) = {}
        BY <2>2, <2>3, <2>4, ContractsSay
      <3>3. CompareViews(ViewOf("from")[k], ViewOf("to")[k]) = {}
        BY <3>1, <3>2 DEF CompareEndpoint
      <3>4. SchemasJudged(ViewOf("from")[k], ViewOf("to")[k])
        BY <3>1 DEF SchemasAreJudged
      <3>5. ~ Handled(CompareViews(ViewOf("from")[k], ViewOf("to")[k]))
        BY <3>3, NothingUnhandled
      <3>6. Keeps(ViewOf("from")[k], ViewOf("to")[k])
        BY <3>4, <3>5, EndpointsThatNeedNoHandling
      <3>7. /\ \A q \in Requests : MaySend(ViewOf("to")[k], q) => AcceptsRequest(ViewOf("from")[k], q)
            /\ ViewOf("from")[k]["security"] = ViewOf("to")[k]["security"]
        BY <3>3, <3>4, EndpointsFoundTheSame
      <3>8. old[k]["security"] = new[k]["security"]
        BY <3>1, <3>7, ViewKeepsSecurity
      <3> QED BY <3>6, <3>7, <3>8
    <2> QED BY <2>1, <2>3, <2>4
  <1> QED BY <1>1, ComparisonsInvariantHolds, ViewsAreOfContractsAlways, PTL

=============================================================================
