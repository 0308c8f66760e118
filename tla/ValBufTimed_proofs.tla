------------------------- MODULE ValBufTimed_proofs -------------------------
(***************************************************************************)
(* Proofs about ValBuf: the grids whose entries keep their time.  For      *)
(* buffers of any sizes, periods and times: in a flow and in the ring of   *)
(* changes of the soft grid, the search by halves finds what was told, and *)
(* only the oldest values are lost.  Then what holds on all grids: types,  *)
(* the copy getVals() makes, what get() gives, and what is kept.           *)
(***************************************************************************)
EXTENDS ValBuf_proofs

-----------------------------------------------------------------------------
(* Searching by halves                                                     *)

\* half of a window w: from the places N gives, of half a window.
Halves(half, n, D, m, N) ==
  half = [w \in 0..n |-> [c \in D |-> IF w <= m THEN c ELSE half[w \div 2][N[w][c]]]]

LEMMA HalfOf ==
  ASSUME NEW w \in Nat
  PROVE  w \div 2 \in Nat /\ 2 * (w \div 2) <= w /\ (w # 0 => w \div 2 < w)
  OBVIOUS

LEMMA HalvesExist ==
  ASSUME NEW n \in Nat, NEW D, NEW m \in Nat, NEW N
  PROVE  \E half : Halves(half, n, D, m, N)
<1> DEFINE P(k, f) == f = [w \in 0..k |-> [c \in D |-> IF w <= m THEN c ELSE f[w \div 2][N[w][c]]]]
           S == {k \in Nat : \E f : P(k, f)}
<1>1. 0 \in S
  <2> DEFINE f == [w \in 0..0 |-> [c \in D |-> c]]
  <2>1. \A w \in 0..0 : w <= m
    OBVIOUS
  <2>2. [w \in 0..0 |-> [c \in D |-> IF w <= m THEN c ELSE f[w \div 2][N[w][c]]]] = f
    BY <2>1
  <2> HIDE DEF f
  <2>3. P(0, f)
    BY <2>2
  <2>4. QED
    BY <2>3
<1>2. ASSUME NEW k \in Nat, k \in S PROVE k + 1 \in S
  <2>1. PICK f : P(k, f)
    BY <1>2
  <2> DEFINE step(h, w) == [c \in D |-> IF w <= m THEN c ELSE h[w \div 2][N[w][c]]]
             g == [w \in 0..k+1 |-> IF w <= k THEN f[w] ELSE step(f, w)]
  <2>2. \A w \in 0..k : f[w] = step(f, w)
    BY <2>1
  <2>3. \A w \in 0..k : g[w] = f[w]
    OBVIOUS
  <2>4. \A w \in 0..k+1 : g[w] = step(f, w)
    <3>1. ASSUME NEW w \in 0..k+1 PROVE g[w] = step(f, w)
      <4>1. CASE w <= k
        <5>1. w \in 0..k
          BY <4>1
        <5>2. QED
          BY <2>2, <2>3, <5>1
      <4>2. CASE ~(w <= k)
        BY <4>2
      <4>3. QED
        BY <4>1, <4>2
    <3>2. QED
      BY <3>1
  <2>5. g = [w \in 0..k+1 |-> g[w]]
    OBVIOUS
  <2> HIDE DEF g
  <2>6. \A w \in 0..k+1 : step(f, w) = step(g, w)
    <3>1. ASSUME NEW w \in 0..k+1 PROVE step(f, w) = step(g, w)
      <4>1. CASE w <= m
        BY <4>1
      <4>2. CASE ~(w <= m)
        <5>1. w \in Nat /\ w # 0
          BY <4>2
        <5>2. w \div 2 \in 0..k
          BY <5>1, HalfOf
        <5>3. f[w \div 2] = g[w \div 2]
          BY <2>3, <5>2
        <5>4. QED
          BY <5>3
      <4>3. QED
        BY <4>1, <4>2
    <3>2. QED
      BY <3>1
  <2>7. P(k + 1, g)
    <3>1. \A w \in 0..k+1 : g[w] = step(g, w)
      BY <2>4, <2>6
    <3> HIDE DEF step
    <3>2. g = [w \in 0..k+1 |-> step(g, w)]
      BY <2>5, <3>1
    <3>3. QED
      BY <3>2 DEF step
  <2>8. QED
    BY <2>7
<1> HIDE DEF S
<1>3. Nat \subseteq S
  BY <1>1, <1>2, Counting
<1>4. n \in S
  BY <1>3
<1>5. QED
  BY <1>4 DEF S, Halves

\* R holds of the places gone on from; it holds where the search comes to.
Leads(R, N, n, m) == \A w \in 0..n : \A c \in R[w] : w > m => N[w][c] \in R[w \div 2]
ComesTo(R, half, n) == \A w \in 0..n : \A c \in R[w] : \E v \in 0..n : half[w][c] \in R[v]

\* What holds of a window and a place, and of the next ones, holds where the
\* search by halves comes to.
LEMMA HalvesCome ==
  ASSUME NEW n \in Nat, NEW D, NEW m \in Nat, NEW N, NEW half, Halves(half, n, D, m, N),
         NEW R \in [0..n -> SUBSET D], Leads(R, N, n, m)
  PROVE  ComesTo(R, half, n)
<1> DEFINE G(w) == \A c \in R[w] : \E v \in 0..n : half[w][c] \in R[v]
           S == {k \in Nat : \A w \in 0..n : w <= k => G(w)}
<1>1. \A w \in 0..n : \A c \in D : half[w][c] = IF w <= m THEN c ELSE half[w \div 2][N[w][c]]
  <2> DEFINE step(w) == [c \in D |-> IF w <= m THEN c ELSE half[w \div 2][N[w][c]]]
  <2>1. half = [w \in 0..n |-> step(w)]
    BY DEF Halves
  <2>2. \A w \in 0..n : \A c \in D : step(w)[c] = IF w <= m THEN c ELSE half[w \div 2][N[w][c]]
    OBVIOUS
  <2> HIDE DEF step
  <2>3. \A w \in 0..n : half[w] = step(w)
    BY <2>1
  <2>4. QED
    BY <2>2, <2>3
<1>2. ASSUME NEW w \in 0..n, \A u \in 0..n : u < w => G(u) PROVE G(w)
  <2>1. SUFFICES ASSUME NEW c \in R[w] PROVE \E v \in 0..n : half[w][c] \in R[v]
    OBVIOUS
  <2>2. c \in D
    OBVIOUS
  <2>3. CASE w <= m
    BY <1>1, <2>2, <2>3
  <2>4. CASE ~(w <= m)
    <3>1. w > m /\ w # 0 /\ w \in Nat
      BY <2>4
    <3>2. w \div 2 \in 0..n /\ w \div 2 < w
      BY <3>1, HalfOf
    <3>3. N[w][c] \in R[w \div 2]
      BY <3>1 DEF Leads
    <3>4. \E v \in 0..n : half[w \div 2][N[w][c]] \in R[v]
      BY <1>2, <3>2, <3>3
    <3>5. QED
      BY <1>1, <2>2, <2>4, <3>4
  <2>5. QED
    BY <2>3, <2>4
<1> HIDE DEF G
<1>3. 0 \in S
  <2>1. ASSUME NEW w \in 0..n, w <= 0 PROVE G(w)
    <3>1. \A u \in 0..n : ~(u < w)
      BY <2>1
    <3>2. QED
      BY <1>2, <3>1
  <2>2. QED
    BY <2>1
<1>4. ASSUME NEW k \in Nat, k \in S PROVE k + 1 \in S
  <2>1. ASSUME NEW w \in 0..n, w <= k + 1 PROVE G(w)
    <3>1. ASSUME NEW u \in 0..n, u < w PROVE G(u)
      <4>1. u <= k
        BY <2>1, <3>1
      <4>2. QED
        BY <1>4, <4>1
    <3>2. QED
      BY <1>2, <3>1
  <2>2. QED
    BY <2>1
<1> HIDE DEF S
<1>5. Nat \subseteq S
  BY <1>3, <1>4, Counting
<1>6. n \in S /\ \A w \in 0..n : w <= n
  BY <1>5
<1>7. \A w \in 0..n : G(w)
  BY <1>6 DEF S
<1>8. QED
  BY <1>7 DEF G, ComesTo

-----------------------------------------------------------------------------
(* Greatest and least numbers                                              *)

LEMMA GreatestNat ==
  ASSUME NEW T, T \subseteq Nat, T # {}, NEW n \in Nat, \A x \in T : x <= n
  PROVE  \E x \in T : \A y \in T : y <= x
<1> DEFINE U == {n - x : x \in T}
<1>1. U \subseteq Nat /\ U # {}
  <2>1. \A x \in T : n - x \in Nat
    <3>1. ASSUME NEW x \in T PROVE n - x \in Nat
      <4>1. x \in Nat /\ x <= n
        OBVIOUS
      <4>2. QED
        BY <4>1
    <3>2. QED
      BY <3>1
  <2>2. QED
    BY <2>1
<1>2. PICK u \in U : \A z \in U : u <= z
  BY <1>1, LeastNat
<1>3. PICK x \in T : u = n - x
  OBVIOUS
<1>4. \A y \in T : y <= x
  <2>1. ASSUME NEW y \in T PROVE y <= x
    <3>1. u <= n - y
      BY <1>2
    <3>2. x \in Nat /\ y \in Nat
      OBVIOUS
    <3>3. QED
      BY <1>3, <3>1, <3>2
  <2>2. QED
    BY <2>1
<1>5. QED
  BY <1>4

LEMMA MaxIs ==
  ASSUME NEW T, T \subseteq Int, NEW x \in T, \A y \in T : y <= x
  PROVE  Max(T) = x
<1>1. \A z \in T : (\A y \in T : z >= y) => z = x
  <2>1. ASSUME NEW z \in T, \A y \in T : z >= y PROVE z = x
    <3>1. z >= x /\ z <= x /\ z \in Int /\ x \in Int
      BY <2>1
    <3>2. QED
      BY <3>1
  <2>2. QED
    BY <2>1
<1>2. \A y \in T : x >= y
  OBVIOUS
<1>3. QED
  BY <1>1, <1>2 DEF Max

LEMMA MinIs ==
  ASSUME NEW T, T \subseteq Int, NEW x \in T, \A y \in T : x <= y
  PROVE  Min(T) = x
<1>1. \A z \in T : (\A y \in T : z <= y) => z = x
  <2>1. ASSUME NEW z \in T, \A y \in T : z <= y PROVE z = x
    <3>1. z >= x /\ z <= x /\ z \in Int /\ x \in Int
      BY <2>1
    <3>2. QED
      BY <3>1
  <2>2. QED
    BY <2>1
<1>2. QED
  BY <1>1 DEF Min

-----------------------------------------------------------------------------
(* Entries by rising times                                                 *)

Rising(s) == \A i, j \in 1..Len(s) : i < j => s[i].tm < s[j].tm
TimesOf(s) == {s[i].tm : i \in 1..Len(s)}

\* The entries of s are what g tells.
Tells(s, g) ==
  /\ DOMAIN g = TimesOf(s)
  /\ \A i \in 1..Len(s) : g[s[i].tm] = s[i].val

LEMMA EntriesAre ==
  ASSUME NEW s \in Seq(Cells)
  PROVE  /\ Len(s) \in Nat /\ DOMAIN s = 1..Len(s)
         /\ \A i \in 1..Len(s) : s[i] \in Cells /\ s[i].tm \in Int /\ s[i].val \in Vals
         /\ TimesOf(s) \subseteq Int
<1>1. Len(s) \in Nat /\ DOMAIN s = 1..Len(s)
  OBVIOUS
<1>2. \A i \in 1..Len(s) : s[i] \in Cells
  BY <1>1, ElementOfSeq
<1>3. \A i \in 1..Len(s) : s[i].tm \in Int /\ s[i].val \in Vals
  BY <1>2 DEF Cells
<1>4. QED
  BY <1>1, <1>2, <1>3 DEF TimesOf

LEMMA RisingCount ==
  ASSUME NEW s \in Seq(Cells), Rising(s)
  PROVE  IsFiniteSet(TimesOf(s)) /\ Cardinality(TimesOf(s)) = Len(s)
<1>1. PICK n \in Nat : n = Len(s)
  BY EntriesAre
<1> DEFINE f == [i \in 1..n |-> s[i].tm]
<1>2. \A i \in 1..n : f[i] = s[i].tm /\ f[i] \in Int /\ f[i] \in TimesOf(s)
  BY <1>1, EntriesAre DEF TimesOf
<1>3. f \in [1..n -> TimesOf(s)]
  BY <1>2
<1>4. \A i, j \in 1..n : f[i] = f[j] => i = j
  <2>1. ASSUME NEW i \in 1..n, NEW j \in 1..n, f[i] = f[j] PROVE i = j
    <3>1. ~(i < j) /\ ~(j < i)
      BY <1>1, <1>2, <2>1 DEF Rising
    <3>2. QED
      BY <3>1
  <2>2. QED
    BY <2>1
<1>5. \A t \in TimesOf(s) : \E i \in 1..n : f[i] = t
  BY <1>1 DEF TimesOf
<1> HIDE DEF f
<1>6. f \in Bijection(1..n, TimesOf(s))
  BY <1>3, <1>4, <1>5 DEF Bijection, Injection, Surjection, IsInjective
<1>7. ExistsBijection(1..n, TimesOf(s))
  BY <1>6 DEF ExistsBijection
<1>8. QED
  BY <1>1, <1>7, FS_NatBijection, FS_CountingElements

\* Times and values do not change with the place of the time.
LEMMA RisingOnce ==
  ASSUME NEW s \in Seq(Cells), Rising(s), NEW i \in 1..Len(s), NEW j \in 1..Len(s),
         s[i].tm = s[j].tm
  PROVE  i = j
<1>1. s[i].tm \in Int /\ s[j].tm \in Int
  BY EntriesAre
<1>2. ~(i < j) /\ ~(j < i)
  BY <1>1 DEF Rising
<1>3. QED
  BY <1>2

\* What FlowSet does with the value at its place.
FlowSetAt(b, value, tm, at) ==
  LET n  == Len(b.buf)
      e  == [tm |-> Stored(tm), val |-> value]
      in == InsertAt(b.buf, at, e)
      to == IF size # 0 /\ n + 1 > size THEN Tail(in) ELSE in
  IN  IF at <= n /\ b.buf[at].tm = e.tm
        THEN [b EXCEPT !.buf[at] = e,
                       !.evalCnt = (@ - Counted(b.buf[at].val)) % EvalMod]
      ELSE [b EXCEPT !.buf = to, !.beg = Head(to).tm, !.end = Last(to).tm,
                     !.evalCnt = (@ + Counted(value)
                        - (IF to = in THEN 0 ELSE Counted(Head(in).val))) % EvalMod]

\* The place is behind all entries of an earlier time, and before the others.
PlaceOf(s, t, at) ==
  /\ at \in 1..Len(s)+1
  /\ \A i \in 1..Len(s) : i < at => s[i].tm < t
  /\ \A i \in 1..Len(s) : at <= i => t <= s[i].tm

\* The places the half divider of FlowSet goes on from.
Upward(s, n, t) == [w \in 0..n |-> [c \in 0..n |-> IF t > s[c + w + 1].tm THEN c + w ELSE c]]

LEMMA UpwardCome ==
  ASSUME NEW s \in Seq(Cells), Rising(s), NEW n \in Nat, n = Len(s), NEW t \in Int, NEW m \in Nat,
         NEW half, Halves(half, n, 0..n, m, Upward(s, n, t))
  PROVE  half[n \div 2][0] \in 0..n /\ \A i \in 1..half[n \div 2][0] : s[i].tm < t
<1> DEFINE D == 0..n
           N == Upward(s, n, t)
           R == [w \in 0..n |-> {c \in D : c + 2 * w <= n /\ \A i \in 1..c : s[i].tm < t}]
<1>1. \A i \in 1..n : s[i].tm \in Int
  BY EntriesAre
<1>2. \A i, j \in 1..n : i < j => s[i].tm < s[j].tm
  BY DEF Rising
<1>3. R \in [0..n -> SUBSET D]
  OBVIOUS
<1>4. ASSUME NEW w \in 0..n, NEW c \in R[w], w > m PROVE N[w][c] \in R[w \div 2]
  <2>1. c \in D /\ c + 2 * w <= n /\ \A i \in 1..c : s[i].tm < t
    OBVIOUS
  <2>2. w \in Nat /\ w # 0 /\ c \in Nat
    BY <1>4
  <2>3. PICK v \in 0..n : v = w \div 2 /\ 2 * v <= w
    <3>1. w \div 2 \in Nat /\ 2 * (w \div 2) <= w /\ w \div 2 < w
      BY <2>2, HalfOf
    <3>2. QED
      BY <3>1
  <2>4. N[w][c] = IF t > s[c + w + 1].tm THEN c + w ELSE c
    BY <2>1 DEF Upward
  <2>5. \A x \in D : x + 2 * v <= n /\ (\A i \in 1..x : s[i].tm < t) => x \in R[w \div 2]
    BY <2>3
  <2> HIDE DEF N, R
  <2>6. CASE t > s[c + w + 1].tm
    <3>1. c + w \in D /\ c + w + 1 \in 1..n /\ c + w + 2 * v <= n
      BY <2>1, <2>2, <2>3
    <3>2. \A i \in 1..c+w : s[i].tm < t
      <4>1. ASSUME NEW i \in 1..c+w PROVE s[i].tm < t
        <5>1. i \in 1..n /\ i < c + w + 1
          BY <2>2, <3>1
        <5>2. s[i].tm < s[c + w + 1].tm
          BY <1>2, <3>1, <5>1
        <5>3. s[i].tm \in Int /\ s[c + w + 1].tm \in Int
          BY <1>1, <3>1, <5>1
        <5>4. QED
          BY <2>6, <5>2, <5>3
      <4>2. QED
        BY <4>1
    <3>3. QED
      BY <2>4, <2>5, <2>6, <3>1, <3>2
  <2>7. CASE ~(t > s[c + w + 1].tm)
    <3>1. c + 2 * v <= n
      BY <2>1, <2>2, <2>3
    <3>2. QED
      BY <2>1, <2>4, <2>5, <2>7, <3>1
  <2>8. QED
    BY <2>6, <2>7
<1>5. n \div 2 \in 0..n /\ 2 * (n \div 2) <= n
  <2>1. n \div 2 \in Nat /\ 2 * (n \div 2) <= n
    BY HalfOf
  <2>2. QED
    BY <2>1
<1>6. 0 \in R[n \div 2]
  <2>1. PICK v \in 0..n : v = n \div 2 /\ 2 * v <= n
    BY <1>5
  <2>2. 0 \in D /\ 0 + 2 * v <= n
    BY <2>1
  <2>3. QED
    BY <2>1, <2>2
<1>7. \A w \in 0..n : \A c \in R[w] : c \in D /\ \A i \in 1..c : s[i].tm < t
  OBVIOUS
<1>8. Halves(half, n, D, m, N)
  OBVIOUS
<1> HIDE DEF R, N, D
<1>9. Leads(R, N, n, m)
  BY <1>4 DEF Leads
<1>10. ComesTo(R, half, n)
  BY <1>3, <1>8, <1>9, HalvesCome
<1>11. PICK v \in 0..n : half[n \div 2][0] \in R[v]
  BY <1>5, <1>6, <1>10 DEF ComesTo
<1>12. QED
  BY <1>7, <1>11 DEF D

\* From a place that is behind earlier entries only, the first later one is the place.
LEMMA PlaceFrom ==
  ASSUME NEW s \in Seq(Cells), Rising(s), NEW n \in Nat, n = Len(s), NEW t \in Int,
         NEW h \in 0..n, \A i \in 1..h : s[i].tm < t
  PROVE  PlaceOf(s, t, Min({c \in h..n : c = n \/ t <= s[c + 1].tm}) + 1)
<1> DEFINE T == {c \in h..n : c = n \/ t <= s[c + 1].tm}
<1>1. \A i \in 1..n : s[i].tm \in Int
  BY EntriesAre
<1>2. \A i, j \in 1..n : i < j => s[i].tm < s[j].tm
  BY DEF Rising
<1>3. T \subseteq Nat /\ T \subseteq Int /\ n \in T
  OBVIOUS
<1>4. \A y \in h..n : y \in T <=> (y = n \/ t <= s[y + 1].tm)
  OBVIOUS
<1>5. \A y \in T : y \in h..n
  OBVIOUS
<1> HIDE DEF T
<1>6. PICK c \in T : \A y \in T : c <= y
  BY <1>3, LeastNat
<1>7. Min(T) = c
  BY <1>3, <1>6, MinIs
<1>8. PICK at : at = c + 1
  OBVIOUS
<1>9. c \in h..n /\ (c = n \/ t <= s[c + 1].tm) /\ at \in 1..n+1
  BY <1>4, <1>5, <1>8
<1>10. ASSUME NEW i \in 1..n, i < at PROVE s[i].tm < t
  <2>1. CASE i <= h
    BY <2>1
  <2>2. CASE ~(i <= h)
    <3>1. PICK y \in h..n : y = i - 1 /\ y < c /\ y # n /\ y + 1 = i
      BY <1>8, <1>9, <1>10, <2>2
    <3>2. y \notin T
      <4>1. y \in T => c <= y
        BY <1>6
      <4>2. QED
        BY <1>9, <3>1, <4>1
    <3>3. ~(t <= s[i].tm)
      BY <1>4, <3>1, <3>2
    <3>4. QED
      BY <1>1, <3>3
  <2>3. QED
    BY <2>1, <2>2
<1>11. ASSUME NEW i \in 1..n, at <= i PROVE t <= s[i].tm
  <2>1. c # n /\ c + 1 \in 1..n /\ t <= s[c + 1].tm
    BY <1>8, <1>9, <1>11
  <2>2. CASE i = c + 1
    BY <2>1, <2>2
  <2>3. CASE i # c + 1
    <3>1. c + 1 < i
      BY <1>8, <1>9, <1>11, <2>3
    <3>2. s[c + 1].tm < s[i].tm /\ s[c + 1].tm \in Int /\ s[i].tm \in Int
      BY <1>1, <1>2, <2>1, <3>1
    <3>3. QED
      BY <2>1, <3>2
  <2>4. QED
    BY <2>2, <2>3
<1>12. QED
  BY <1>7, <1>8, <1>9, <1>10, <1>11 DEF PlaceOf, T

LEMMA FlowPlace ==
  ASSUME ValBufAssumption, NEW b, b.buf \in Seq(Cells), Rising(b.buf),
         NEW value, NEW tm, Stored(tm) \in Int
  PROVE  \E at : PlaceOf(b.buf, Stored(tm), at) /\ FlowSet(b, value, tm) = FlowSetAt(b, value, tm, at)
<1> DEFINE n == Len(b.buf)
           e == [tm |-> Stored(tm), val |-> value]
           half[w \in 0..n] == [c \in 0..n |->
             IF w <= HalfDivMinWin THEN c
             ELSE half[w \div 2][IF e.tm > b.buf[c + w + 1].tm THEN c + w ELSE c]]
<1>1. FlowSet(b, value, tm) =
        FlowSetAt(b, value, tm,
          Min({c \in half[n \div 2][0]..n : c = n \/ e.tm <= b.buf[c + 1].tm}) + 1)
  BY DEF FlowSet, FlowSetAt
<1>2. n \in Nat /\ HalfDivMinWin \in Nat /\ e.tm = Stored(tm)
  BY EntriesAre DEF ValBufAssumption
<1> DEFINE N == Upward(b.buf, n, Stored(tm))
           step(h, w) == [c \in 0..n |->
             IF w <= HalfDivMinWin THEN c
             ELSE h[w \div 2][IF e.tm > b.buf[c + w + 1].tm THEN c + w ELSE c]]
<1>3. ASSUME NEW h, NEW w \in 0..n
      PROVE  step(h, w) = [c \in 0..n |-> IF w <= HalfDivMinWin THEN c ELSE h[w \div 2][N[w][c]]]
  <2>1. \A c \in 0..n : N[w][c] = IF e.tm > b.buf[c + w + 1].tm THEN c + w ELSE c
    BY DEF Upward
  <2> HIDE DEF N
  <2>2. QED
    BY <2>1
<1>4. half = [w \in 0..n |-> step(half, w)]
  <2>1. SUFFICES \E ff : ff = [w \in 0..n |-> step(ff, w)]
    OBVIOUS
  <2> HIDE DEF half, n, N, step
  <2>2. PICK h : Halves(h, n, 0..n, HalfDivMinWin, N)
    BY <1>2, HalvesExist
  <2>3. h = [w \in 0..n |-> h[w]] /\ \A w \in 0..n : h[w] = step(h, w)
    <3>1. ASSUME NEW w \in 0..n PROVE h[w] = step(h, w)
      <4>1. h[w] = [c \in 0..n |-> IF w <= HalfDivMinWin THEN c ELSE h[w \div 2][N[w][c]]]
        BY <2>2 DEF Halves
      <4>2. QED
        BY <1>3, <4>1
    <3>2. h = [w \in 0..n |-> h[w]]
      BY <2>2 DEF Halves
    <3>3. QED
      BY <3>1, <3>2
  <2>4. QED
    BY <2>3
<1> HIDE DEF half, e, n, step
<1>5. Halves(half, n, 0..n, HalfDivMinWin, N)
  BY <1>3, <1>4 DEF Halves
<1>6. half[n \div 2][0] \in 0..n /\ \A i \in 1..half[n \div 2][0] : b.buf[i].tm < Stored(tm)
  BY <1>2, <1>5, UpwardCome DEF n
<1>7. PlaceOf(b.buf, Stored(tm), Min({c \in half[n \div 2][0]..n : c = n \/ e.tm <= b.buf[c + 1].tm}) + 1)
  <2>1. PICK h \in 0..n : h = half[n \div 2][0] /\ \A i \in 1..h : b.buf[i].tm < Stored(tm)
    BY <1>6
  <2>2. PlaceOf(b.buf, Stored(tm), Min({c \in h..n : c = n \/ Stored(tm) <= b.buf[c + 1].tm}) + 1)
    BY <1>2, <2>1, PlaceFrom DEF n
  <2>3. QED
    BY <1>2, <2>1, <2>2
<1>8. QED
  BY <1>1, <1>7

-----------------------------------------------------------------------------
(* An entry comes in at its place                                          *)

Inserted(u, s, at, e) ==
  /\ u \in Seq(Cells) /\ Len(u) = Len(s) + 1
  /\ \A i \in 1..Len(s)+1 : u[i] = IF i < at THEN s[i] ELSE IF i = at THEN e ELSE s[i - 1]

LEMMA InsertIs ==
  ASSUME NEW s \in Seq(Cells), NEW at \in Nat, 1 <= at, at <= Len(s) + 1, NEW e \in Cells
  PROVE  Inserted(InsertAt(s, at, e), s, at, e)
<1>1. PICK n \in Nat : n = Len(s) /\ at \in 1..n+1
  BY EntriesAre
<1> DEFINE x == SubSeq(s, 1, at - 1)
           y == SubSeq(s, at, n)
           z == Append(x, e)
           u == z \o y
<1>2. x \in Seq(Cells) /\ Len(x) = at - 1 /\ \A i \in 1..at-1 : x[i] = s[i]
  <2>1. PICK m \in Int : m = at - 1 /\ m >= 0 /\ m <= n
    BY <1>1
  <2>2. \A i \in 1..m : s[i] \in Cells /\ 1 + i - 1 = i
    BY <1>1, <2>1, EntriesAre
  <2>3. x = SubSeq(s, 1, m)
    BY <2>1
  <2> HIDE DEF x
  <2>4. /\ x \in Seq(Cells) /\ Len(x) = IF 1 <= m THEN m - 1 + 1 ELSE 0
        /\ \A i \in 1..m-1+1 : x[i] = s[1 + i - 1]
    BY <2>2, <2>3, SubSeqProperties
  <2>5. Len(x) = m /\ m - 1 + 1 = m
    BY <2>1, <2>4
  <2>6. QED
    BY <2>1, <2>2, <2>4, <2>5
<1>3. y \in Seq(Cells) /\ Len(y) = n + 1 - at /\ \A i \in 1..n+1-at : y[i] = s[at + i - 1]
  <2>1. \A i \in at..n : s[i] \in Cells
    BY <1>1, EntriesAre
  <2>2. /\ y \in Seq(Cells) /\ Len(y) = IF at <= n THEN n - at + 1 ELSE 0
        /\ \A i \in 1..n-at+1 : y[i] = s[at + i - 1]
    BY <2>1, SubSeqProperties
  <2> HIDE DEF y
  <2>3. Len(y) = n + 1 - at /\ n - at + 1 = n + 1 - at
    BY <1>1, <2>2
  <2>4. QED
    BY <2>2, <2>3
<1> HIDE DEF x, y
<1>4. /\ z \in Seq(Cells) /\ Len(z) = at
      /\ z[at] = e /\ \A i \in 1..at-1 : z[i] = x[i]
  <2>2. /\ z \in Seq(Cells) /\ Len(z) = Len(x) + 1 /\ z[Len(x) + 1] = e
        /\ \A i \in 1..Len(x) : z[i] = x[i]
    BY <1>2, AppendProperties
  <2>3. Len(x) + 1 = at
    BY <1>1, <1>2
  <2>4. QED
    BY <1>2, <2>2, <2>3
<1>5. z = x \o <<e>>
  BY <1>2, AppendIsConcat
<1> HIDE DEF z
<1>6. /\ u \in Seq(Cells) /\ Len(u) = n + 1
      /\ (\A i \in 1..at : u[i] = z[i]) /\ \A i \in at+1..n+1 : u[i] = y[i - at]
  <2>1. /\ u \in Seq(Cells) /\ Len(u) = Len(z) + Len(y)
        /\ \A i \in 1..Len(z)+Len(y) : u[i] = IF i <= Len(z) THEN z[i] ELSE y[i - Len(z)]
    BY <1>3, <1>4, ConcatProperties
  <2>2. Len(z) + Len(y) = n + 1 /\ Len(z) = at
    BY <1>1, <1>3, <1>4
  <2> HIDE DEF u
  <2>3. \A i \in 1..n+1 : u[i] = IF i <= at THEN z[i] ELSE y[i - at]
    BY <2>1, <2>2
  <2>4. QED
    BY <1>1, <2>1, <2>2, <2>3
<1>7. InsertAt(s, at, e) = u
  BY <1>1, <1>5 DEF InsertAt, x, y
<1> HIDE DEF u
<1>8. ASSUME NEW i \in 1..n+1
      PROVE  u[i] = IF i < at THEN s[i] ELSE IF i = at THEN e ELSE s[i - 1]
  <2>1. CASE i < at
    BY <1>1, <1>2, <1>4, <1>6, <2>1
  <2>2. CASE i = at
    BY <1>1, <1>4, <1>6, <2>2
  <2>3. CASE i > at
    <3>1. i \in at+1..n+1 /\ i - at \in 1..n+1-at /\ at + (i - at) - 1 = i - 1
      BY <1>1, <2>3
    <3>2. u[i] = y[i - at] /\ y[i - at] = s[at + (i - at) - 1]
      BY <1>3, <1>6, <3>1
    <3>3. QED
      BY <2>3, <3>1, <3>2
  <2>4. QED
    BY <1>1, <2>1, <2>2, <2>3
<1>9. QED
  BY <1>1, <1>6, <1>7, <1>8 DEF Inserted

Came(u, s, e) ==
  /\ u \in Seq(Cells) /\ Len(u) = Len(s) + 1 /\ Rising(u)
  /\ TimesOf(u) = TimesOf(s) \union {e.tm} /\ e.tm \notin TimesOf(s)
  /\ \A i \in 1..Len(u) : u[i] = e \/ \E j \in 1..Len(s) : u[i] = s[j] /\ s[j].tm # e.tm

\* At its place it keeps the times rising, and adds its time to them.
LEMMA InsertRises ==
  ASSUME NEW s \in Seq(Cells), Rising(s), NEW e \in Cells,
         NEW at, PlaceOf(s, e.tm, at), ~(at <= Len(s) /\ s[at].tm = e.tm),
         NEW u, u = InsertAt(s, at, e)
  PROVE  Came(u, s, e)
<1>1. PICK n \in Nat : n = Len(s) /\ at \in 1..n+1 /\ \A i \in 1..n : s[i].tm \in Int
  BY EntriesAre DEF PlaceOf
<1>2. e.tm \in Int
  BY DEF Cells
<1>3. /\ u \in Seq(Cells) /\ Len(u) = n + 1
      /\ \A i \in 1..n+1 : u[i] = IF i < at THEN s[i] ELSE IF i = at THEN e ELSE s[i - 1]
  <2>1. at \in Nat /\ 1 <= at /\ at <= Len(s) + 1
    BY <1>1
  <2>2. Inserted(u, s, at, e)
    BY <2>1, InsertIs
  <2>3. QED
    BY <1>1, <2>2 DEF Inserted
<1>4. /\ \A i \in 1..n : i < at => s[i].tm < e.tm
      /\ \A i \in 1..n : at <= i => e.tm < s[i].tm
  <2>1. ASSUME NEW i \in 1..n, at <= i PROVE e.tm < s[i].tm
    <3>1. at \in 1..n /\ e.tm <= s[at].tm /\ s[at].tm # e.tm /\ s[at].tm \in Int /\ s[i].tm \in Int
      BY <1>1, <2>1 DEF PlaceOf
    <3>2. at = i \/ s[at].tm < s[i].tm
      BY <1>1, <2>1, <3>1 DEF Rising
    <3>3. QED
      BY <1>2, <3>1, <3>2
  <2>2. QED
    BY <1>1, <2>1 DEF PlaceOf
<1>5. Rising(u)
  <2>1. ASSUME NEW i \in 1..n+1, NEW j \in 1..n+1, i < j PROVE u[i].tm < u[j].tm
    <3>1. CASE j < at
      <4>1. i \in 1..n /\ j \in 1..n /\ u[i] = s[i] /\ u[j] = s[j]
        BY <1>1, <1>3, <2>1, <3>1
      <4>2. QED
        BY <1>1, <2>1, <4>1 DEF Rising
    <3>2. CASE j = at
      <4>1. i \in 1..n /\ i < at /\ u[i] = s[i] /\ u[j] = e
        BY <1>1, <1>3, <2>1, <3>2
      <4>2. QED
        BY <1>4, <4>1
    <3>3. CASE j > at
      <4>1. j - 1 \in 1..n /\ at <= j - 1 /\ u[j] = s[j - 1]
        BY <1>1, <1>3, <3>3
      <4>2. CASE i < at
        <5>1. i \in 1..n /\ i < j - 1 /\ u[i] = s[i]
          BY <1>1, <1>3, <4>1, <4>2
        <5>2. QED
          BY <1>1, <4>1, <5>1 DEF Rising
      <4>3. CASE i = at
        <5>1. u[i] = e
          BY <1>3, <4>3
        <5>2. QED
          BY <1>4, <4>1, <5>1
      <4>4. CASE i > at
        <5>1. i - 1 \in 1..n /\ i - 1 < j - 1 /\ u[i] = s[i - 1]
          BY <1>1, <1>3, <2>1, <4>4
        <5>2. QED
          BY <1>1, <4>1, <5>1 DEF Rising
      <4>5. QED
        BY <1>1, <4>2, <4>3, <4>4
    <3>4. QED
      BY <1>1, <3>1, <3>2, <3>3
  <2>2. QED
    BY <1>3, <2>1 DEF Rising
<1>6. \A i \in 1..n : s[i].tm # e.tm
  <2>1. ASSUME NEW i \in 1..n PROVE s[i].tm # e.tm
    <3>1. s[i].tm < e.tm \/ e.tm < s[i].tm
      BY <1>1, <1>4
    <3>2. QED
      BY <1>1, <1>2, <3>1
  <2>2. QED
    BY <2>1
<1>7. \A i \in 1..n+1 : u[i] = e \/ \E j \in 1..n : u[i] = s[j]
  <2>1. ASSUME NEW i \in 1..n+1 PROVE u[i] = e \/ \E j \in 1..n : u[i] = s[j]
    <3>1. CASE i < at
      <4>1. i \in 1..n
        BY <1>1, <3>1
      <4>2. QED
        BY <1>3, <3>1, <4>1
    <3>2. CASE i = at
      BY <1>3, <3>2
    <3>3. CASE i > at
      <4>1. i - 1 \in 1..n
        BY <1>1, <3>3
      <4>2. u[i] = s[i - 1]
        BY <1>1, <1>3, <3>3
      <4>3. QED
        BY <4>1, <4>2
    <3>4. QED
      BY <1>1, <3>1, <3>2, <3>3
  <2>2. QED
    BY <2>1
<1>8. /\ \E i \in 1..n+1 : u[i] = e
      /\ \A j \in 1..n : \E i \in 1..n+1 : u[i] = s[j]
  <2>1. u[at] = e
    BY <1>1, <1>3
  <2>2. ASSUME NEW j \in 1..n PROVE \E i \in 1..n+1 : u[i] = s[j]
    <3>1. CASE j < at
      <4>1. u[j] = s[j] /\ j \in 1..n+1
        BY <1>3, <3>1
      <4>2. QED
        BY <4>1
    <3>2. CASE ~(j < at)
      <4>1. u[j + 1] = s[j + 1 - 1] /\ j + 1 - 1 = j /\ j + 1 \in 1..n+1
        BY <1>1, <1>3, <3>2
      <4>2. QED
        BY <4>1
    <3>3. QED
      BY <3>1, <3>2
  <2>3. QED
    BY <1>1, <2>1, <2>2
<1>9. TimesOf(u) = TimesOf(s) \union {e.tm}
  <2>1. TimesOf(u) = {u[i].tm : i \in 1..n+1} /\ TimesOf(s) = {s[i].tm : i \in 1..n}
    BY <1>1, <1>3 DEF TimesOf
  <2>2. \A x \in TimesOf(u) : x \in TimesOf(s) \union {e.tm}
    BY <1>7, <2>1
  <2>3. \A x \in TimesOf(s) \union {e.tm} : x \in TimesOf(u)
    BY <1>8, <2>1
  <2>4. QED
    BY <2>2, <2>3
<1>10. e.tm \notin TimesOf(s)
  BY <1>1, <1>6 DEF TimesOf
<1>11. QED
  BY <1>1, <1>3, <1>5, <1>6, <1>7, <1>9, <1>10 DEF Came

Replaced(u, s, e) ==
  /\ u \in Seq(Cells) /\ Len(u) = Len(s) /\ Rising(u)
  /\ TimesOf(u) = TimesOf(s) /\ e.tm \in TimesOf(s)
  /\ \A i \in 1..Len(u) : u[i].tm = s[i].tm
  /\ \A i \in 1..Len(u) : u[i] = e \/ \E j \in 1..Len(s) : u[i] = s[j] /\ s[j].tm # e.tm

\* Over an entry of its time it changes no time.
LEMMA ReplaceRises ==
  ASSUME NEW s \in Seq(Cells), Rising(s), NEW e \in Cells,
         NEW at \in 1..Len(s), s[at].tm = e.tm, NEW u, u = [s EXCEPT ![at] = e]
  PROVE  Replaced(u, s, e)
<1>1. u \in Seq(Cells) /\ Len(u) = Len(s)
  BY ExceptSeq
<1>2. Len(s) \in Nat /\ DOMAIN s = 1..Len(s)
  BY EntriesAre
<1>3. u[at] = e /\ \A i \in 1..Len(s) : i # at => u[i] = s[i]
  BY <1>2
<1>4. \A i \in 1..Len(s) : u[i].tm = s[i].tm
  BY <1>3
<1>5. Rising(u)
  BY <1>1, <1>4 DEF Rising
<1>6. TimesOf(u) = TimesOf(s) /\ e.tm \in TimesOf(s)
  <2>1. TimesOf(u) = {u[i].tm : i \in 1..Len(s)} /\ TimesOf(s) = {s[i].tm : i \in 1..Len(s)}
    BY <1>1 DEF TimesOf
  <2>2. (\A x \in TimesOf(u) : x \in TimesOf(s)) /\ (\A x \in TimesOf(s) : x \in TimesOf(u))
    BY <1>4, <2>1
  <2>3. QED
    BY <2>1, <2>2
<1>7. ASSUME NEW i \in 1..Len(s), i # at PROVE u[i] = s[i] /\ s[i].tm # e.tm
  BY <1>3, <1>7, RisingOnce
<1>8. QED
  BY <1>1, <1>3, <1>4, <1>5, <1>6, <1>7 DEF Replaced

Shortened(u, s) ==
  /\ u \in Seq(Cells) /\ Len(u) = Len(s) - 1 /\ Rising(u)
  /\ Min(TimesOf(s)) = s[1].tm
  /\ TimesOf(u) = TimesOf(s) \ {Min(TimesOf(s))}
  /\ \A i \in 1..Len(u) : \E j \in 1..Len(s) : u[i] = s[j]

\* Without the first entry, the times are those but the least.
LEMMA TailRises ==
  ASSUME NEW s \in Seq(Cells), Rising(s), Len(s) # 0, NEW u, u = Tail(s)
  PROVE  Shortened(u, s)
<1>1. PICK n \in Nat : /\ n = Len(s) /\ n # 0 /\ \A i \in 1..n : s[i].tm \in Int
                       /\ TimesOf(s) \subseteq Int /\ TimesOf(s) = {s[i].tm : i \in 1..n}
  BY EntriesAre DEF TimesOf
<1>2. u \in Seq(Cells) /\ Len(u) = n - 1 /\ \A i \in 1..n-1 : u[i] = s[i + 1]
  <2>1. s # <<>>
    BY <1>1
  <2>2. /\ u \in Seq(Cells) /\ Len(u) = Len(s) - 1
        /\ \A i \in 1..Len(u) : u[i] = s[i + 1]
    BY <2>1, HeadTailProperties
  <2>3. QED
    BY <1>1, <2>2
<1>3. \A i, j \in 1..n : i < j => s[i].tm < s[j].tm
  BY <1>1 DEF Rising
<1>4. Rising(u)
  <2>1. ASSUME NEW i \in 1..n-1, NEW j \in 1..n-1, i < j PROVE u[i].tm < u[j].tm
    <3>1. i + 1 \in 1..n /\ j + 1 \in 1..n /\ i + 1 < j + 1
      BY <1>1, <2>1
    <3>2. QED
      BY <1>2, <1>3, <3>1
  <2>2. QED
    BY <1>2, <2>1 DEF Rising
<1>5. \A i \in 1..n : i # 1 => s[1].tm < s[i].tm
  BY <1>1, <1>3
<1>6. Min(TimesOf(s)) = s[1].tm
  <2>1. s[1].tm \in TimesOf(s) /\ s[1].tm \in Int
    BY <1>1
  <2>2. \A y \in TimesOf(s) : s[1].tm <= y
    <3>1. \A i \in 1..n : s[1].tm <= s[i].tm
      BY <1>1, <1>5, <2>1
    <3>2. QED
      BY <1>1, <3>1
  <2>3. QED
    BY <1>1, <2>1, <2>2, MinIs
<1>7. TimesOf(u) = TimesOf(s) \ {s[1].tm}
  <2>1. TimesOf(u) = {u[i].tm : i \in 1..n-1}
    BY <1>2 DEF TimesOf
  <2>2. ASSUME NEW x \in TimesOf(u) PROVE x \in TimesOf(s) /\ x # s[1].tm
    <3>1. PICK i \in 1..n-1 : x = u[i].tm
      BY <2>1
    <3>2. i + 1 \in 1..n /\ i + 1 # 1 /\ x = s[i + 1].tm
      BY <1>1, <1>2, <3>1
    <3>3. s[1].tm < x /\ s[1].tm \in Int /\ x \in Int
      BY <1>1, <1>5, <3>2
    <3>4. QED
      BY <1>1, <3>2, <3>3
  <2>3. ASSUME NEW x \in TimesOf(s), x # s[1].tm PROVE x \in TimesOf(u)
    <3>1. PICK i \in 1..n : x = s[i].tm
      BY <1>1
    <3>2. i - 1 \in 1..n-1 /\ (i - 1) + 1 = i
      BY <2>3, <3>1
    <3>3. u[i - 1] = s[i]
      BY <1>2, <3>2
    <3>4. QED
      BY <2>1, <3>1, <3>2, <3>3
  <2>4. QED
    BY <2>2, <2>3
<1>8. ASSUME NEW i \in 1..n-1 PROVE \E j \in 1..n : u[i] = s[j]
  <2>1. i + 1 \in 1..n /\ u[i] = s[i + 1]
    BY <1>1, <1>2
  <2>2. QED
    BY <2>1
<1>9. QED
  BY <1>1, <1>2, <1>4, <1>6, <1>7, <1>8 DEF Shortened

-----------------------------------------------------------------------------
(* What set() does to a flow                                               *)

Shaped(b) ==
  b = [buf |-> b.buf, cur |-> b.cur, beg |-> b.beg, end |-> b.end, evalCnt |-> b.evalCnt]

InSize(s) == size # 0 => Len(s) <= size

\* The times of the entries s and of e, but the oldest where they are more than size.
Joined(s, e) == TimesOf(s) \union {e.tm}
Left(all) == all \ (IF size # 0 /\ Cardinality(all) > size THEN {Min(all)} ELSE {})

\* d has these entries.
Adds(d, s, e) ==
  /\ Shaped(d) /\ d.buf \in Seq(Cells) /\ Len(d.buf) # 0
  /\ Rising(d.buf) /\ InSize(d.buf)
  /\ d.beg = d.buf[1].tm /\ d.end = d.buf[Len(d.buf)].tm
  /\ TimesOf(d.buf) = Left(Joined(s, e))
  /\ \A i \in 1..Len(d.buf) :
       d.buf[i] = e \/ \E j \in 1..Len(s) : d.buf[i] = s[j] /\ s[j].tm # e.tm

LEMMA FlowSetAdds ==
  ASSUME size \in Nat, NEW b, Shaped(b), b.buf \in Seq(Cells), Rising(b.buf), InSize(b.buf),
         Len(b.buf) # 0 => b.beg = b.buf[1].tm /\ b.end = b.buf[Len(b.buf)].tm,
         NEW value \in Vals, NEW tm, Stored(tm) \in Int,
         NEW at, PlaceOf(b.buf, Stored(tm), at)
  PROVE  Adds(FlowSetAt(b, value, tm, at), b.buf, [tm |-> Stored(tm), val |-> value])
<1>1. PICK e : e = [tm |-> Stored(tm), val |-> value]
  OBVIOUS
<1>2. PICK s : s = b.buf /\ s \in Seq(Cells) /\ Len(s) \in Nat
  BY EntriesAre
<1> DEFINE n == Len(s)
<1>3. e \in Cells /\ e.tm = Stored(tm) /\ e.tm \in Int
  BY <1>1 DEF Cells
<1>4. PICK d : d = FlowSetAt(b, value, tm, at)
  OBVIOUS
<1>5. PICK all : all = Joined(s, e)
  OBVIOUS
<1>6. n \in Nat
  BY <1>2
<1>7. /\ IsFiniteSet(TimesOf(s)) /\ Cardinality(TimesOf(s)) = n
      /\ at \in 1..n+1 /\ PlaceOf(s, e.tm, at) /\ Rising(s)
      /\ size # 0 => n <= size
  BY <1>2, <1>3, RisingCount DEF PlaceOf, InSize
<1>8. CASE at <= n /\ s[at].tm = e.tm
  <2>1. PICK u : u = [s EXCEPT ![at] = e]
    OBVIOUS
  <2>2. d = [b EXCEPT !.buf = u, !.evalCnt = (b.evalCnt - Counted(s[at].val)) % EvalMod]
    BY <1>1, <1>2, <1>3, <1>4, <1>8, <2>1 DEF FlowSetAt
  <2>3. Shaped(d) /\ d.buf = u /\ d.beg = b.beg /\ d.end = b.end
    BY <2>2 DEF Shaped
  <2>4. /\ u \in Seq(Cells) /\ Len(u) = n /\ Rising(u)
        /\ TimesOf(u) = TimesOf(s) /\ e.tm \in TimesOf(s)
        /\ \A i \in 1..n : u[i].tm = s[i].tm
        /\ \A i \in 1..n : u[i] = e \/ \E j \in 1..n : u[i] = s[j] /\ s[j].tm # e.tm
    <3>1. at \in 1..Len(s) /\ s[at].tm = e.tm
      BY <1>2, <1>7, <1>8
    <3>2. Replaced(u, s, e)
      BY <1>2, <1>3, <1>7, <2>1, <3>1, ReplaceRises
    <3>3. QED
      BY <3>2 DEF Replaced
  <2>5. all = TimesOf(s) /\ Cardinality(all) = n
    BY <1>7, <1>5, <2>4 DEF Joined
  <2>6. n # 0 /\ d.beg = u[1].tm /\ d.end = u[n].tm
    <3>1. n # 0 /\ 1 \in 1..n /\ n \in 1..n
      BY <1>7, <1>8
    <3>2. QED
      BY <1>2, <2>3, <2>4, <3>1
  <2>7. ~(size # 0 /\ Cardinality(all) > size)
    BY <1>7, <2>5
  <2>8. TimesOf(u) = Left(all)
    BY <2>4, <2>5, <2>7 DEF Left
  <2>9. QED
    <3>1. Adds(d, s, e)
      BY <1>7, <1>5, <2>3, <2>4, <2>6, <2>8 DEF Adds, InSize
    <3>2. QED
      BY <1>1, <1>2, <1>4, <3>1
<1>9. CASE ~(at <= n /\ s[at].tm = e.tm)
  <2>1. PICK in : in = InsertAt(s, at, e)
    OBVIOUS
  <2>2. /\ in \in Seq(Cells) /\ Len(in) = n + 1 /\ Rising(in)
        /\ TimesOf(in) = all
        /\ \A i \in 1..n+1 : in[i] = e \/ \E j \in 1..n : in[i] = s[j] /\ s[j].tm # e.tm
    <3>1. Came(in, s, e)
      BY <1>2, <1>3, <1>7, <1>9, <2>1, InsertRises
    <3>2. QED
      BY <1>5, <3>1 DEF Came, Joined
  <2>3. Cardinality(all) = n + 1
    BY <2>2, RisingCount
  <2>4. PICK to : to = IF size # 0 /\ n + 1 > size THEN Tail(in) ELSE in
    OBVIOUS
  <2>5. /\ to \in Seq(Cells) /\ Len(to) # 0 /\ Rising(to) /\ (size # 0 => Len(to) <= size)
        /\ TimesOf(to) = Left(all)
        /\ \A i \in 1..Len(to) : to[i] = e \/ \E j \in 1..n : to[i] = s[j] /\ s[j].tm # e.tm
    <3>1. CASE size # 0 /\ n + 1 > size
      <4>1. to = Tail(in) /\ Len(in) # 0
        BY <2>2, <2>4, <3>1
      <4>2. /\ to \in Seq(Cells) /\ Len(to) = n /\ Rising(to)
            /\ TimesOf(to) = all \ {Min(all)}
            /\ \A i \in 1..Len(to) : \E j \in 1..n+1 : to[i] = in[j]
        <5>1. Shortened(to, in)
          BY <2>2, <4>1, TailRises
        <5>2. TimesOf(to) = all \ {Min(all)} /\ Len(to) = Len(in) - 1
          BY <2>2, <5>1 DEF Shortened
        <5>3. Len(to) = n
          BY <1>6, <2>2, <5>2
        <5>4. QED
          BY <2>2, <5>1, <5>2, <5>3 DEF Shortened
      <4>3. Len(to) = n /\ n = size /\ size # 0
        BY <1>6, <1>7, <3>1, <4>2
      <4>4. \A i \in 1..Len(to) : to[i] = e \/ \E j \in 1..n : to[i] = s[j] /\ s[j].tm # e.tm
        BY <2>2, <4>2
      <4>5. size # 0 /\ Cardinality(all) > size
        BY <1>6, <2>3, <4>3
      <4>6. QED
        BY <4>2, <4>3, <4>4, <4>5 DEF Left
    <3>2. CASE ~(size # 0 /\ n + 1 > size)
      BY <1>6, <2>2, <2>3, <2>4, <3>2 DEF Left
    <3>3. QED
      BY <3>1, <3>2
  <2>6. PICK k : d = [b EXCEPT !.buf = to, !.beg = Head(to).tm, !.end = Last(to).tm, !.evalCnt = k]
    BY <1>1, <1>2, <1>3, <1>4, <1>9, <2>1, <2>4 DEF FlowSetAt
  <2>7. Shaped(d) /\ d.buf = to /\ d.beg = Head(to).tm /\ d.end = Last(to).tm
    BY <2>6 DEF Shaped
  <2>8. Head(to) = to[1] /\ Last(to) = to[Len(to)]
    BY <2>5 DEF Last
  <2>9. QED
    <3>1. Adds(d, s, e)
      BY <1>5, <2>5, <2>7, <2>8 DEF Adds, InSize
    <3>2. QED
      BY <1>1, <1>2, <1>4, <3>1
<1>10. QED
  BY <1>8, <1>9

-----------------------------------------------------------------------------
(* The times entries keep                                                  *)

\* The last of the times that are kept as they are, not after t.
LEMMA StoredIs ==
  ASSUME ValBufAssumption, NEW t \in Int
  PROVE  /\ Stored(t) \in Int /\ Stored(t) <= t /\ Stored(Stored(t)) = Stored(t)
         /\ \A x \in Int : Stored(x) = x /\ x <= t => x <= Stored(t)
<1>1. CASE hgResTm
  BY <1>1 DEF Stored
<1>2. CASE ~hgResTm
  <2>1. Sec \in Nat \ {0}
    BY DEF ValBufAssumption
  <2>2. PICK q \in Int, r \in 0..Sec-1 : q = t \div Sec /\ t = Sec * q + r
    BY <2>1, DivMod
  <2>3. PICK z \in Int : z = Sec * q /\ Stored(t) = z
    BY <1>2, <2>1, <2>2 DEF Stored
  <2>4. z <= t /\ t < z + Sec
    BY <2>1, <2>2, <2>3
  <2>5. (Sec * q + 0) \div Sec = q
    BY <2>1, Quotient
  <2>6. Stored(z) = z
    BY <1>2, <2>1, <2>3, <2>5 DEF Stored
  <2>7. ASSUME NEW x \in Int, Stored(x) = x, x <= t PROVE x <= z
    <3>1. PICK k \in Int : x = Sec * k
      <4>1. x \div Sec \in Int
        BY <2>1, DivMod
      <4>2. QED
        BY <1>2, <2>7, <4>1 DEF Stored
    <3>2. CASE k <= q
      <4>1. Sec * k <= Sec * q
        BY <2>1, <3>2
      <4>2. QED
        BY <2>3, <3>1, <4>1
    <3>3. CASE ~(k <= q)
      <4>1. Sec * (q + 1) <= Sec * k
        BY <2>1, <3>3
      <4>2. Sec * (q + 1) = Sec * q + Sec
        BY <2>1
      <4>3. QED
        BY <2>1, <2>3, <2>4, <2>7, <3>1, <4>1, <4>2
    <3>4. QED
      BY <3>2, <3>3
  <2>8. QED
    BY <2>3, <2>4, <2>6, <2>7
<1>3. QED
  BY <1>1, <1>2

LEMMA StoredTime ==
  ASSUME ValBufAssumption, NEW tm \in Times
  PROVE  tm \in Int /\ Stored(tm) \in Int /\ Stored(tm) > 0 /\ Stored(Stored(tm)) = Stored(tm)
<1>1. tm \in Int /\ tm >= Sec /\ Sec \in Nat \ {0}
  BY DEF ValBufAssumption
<1>2. Stored(Sec) = Sec
  <2>1. (Sec * 1 + 0) \div Sec = 1
    BY <1>1, Quotient
  <2>2. Sec * 1 + 0 = Sec
    BY <1>1
  <2>3. QED
    BY <1>1, <2>1, <2>2 DEF Stored
<1>3. Sec <= Stored(tm)
  BY <1>1, <1>2, StoredIs
<1>4. QED
  BY <1>1, <1>3, StoredIs

-----------------------------------------------------------------------------
(* The invariant of the flow                                               *)

Stamped(s) == \A i \in 1..Len(s) : s[i].tm > 0 /\ Stored(s[i].tm) = s[i].tm

Ended(b) == b.beg = b.buf[1].tm /\ b.end = b.buf[Len(b.buf)].tm

\* The buffer b has what g tells, by rising times, from its begin to its end.
Flows(b, g) ==
  /\ Shaped(b) /\ b.buf \in Seq(Cells)
  /\ Rising(b.buf) /\ Stamped(b.buf) /\ InSize(b.buf)
  /\ Len(b.buf) # 0 => Ended(b)
  /\ Tells(b.buf, g)

FlowInv ==
  /\ size \in Nat
  /\ grid = "flow" => Flows(tb, told) /\ (Len(tb.buf) = 0 => tb.end = 0)

LEMMA BegunFlows ==
  ASSUME ValBufAssumption, grid = "flow", NEW c, NEW h, Flows(c, h), NEW x
  PROVE  Flows(Begun(c, x), h) /\ Begun(c, x).buf = c.buf
<1>1. PICK d : d = Begun(c, x)
  OBVIOUS
<1>2. PICK y, z : d = [c EXCEPT !.end = y, !.beg = z]
                  /\ (c.end # 0 => y = c.end) /\ (c.beg # 0 => z = c.beg)
  BY <1>1 DEF Begun
<1>3. Shaped(c)
  BY DEF Flows
<1>4. Shaped(d) /\ d.buf = c.buf /\ d.end = y /\ d.beg = z
  BY <1>2, <1>3 DEF Shaped
<1>5. Len(c.buf) # 0 => c.end # 0 /\ c.beg # 0
  <2>1. SUFFICES ASSUME Len(c.buf) # 0 PROVE c.end # 0 /\ c.beg # 0
    OBVIOUS
  <2>2. 1 \in 1..Len(c.buf) /\ Len(c.buf) \in 1..Len(c.buf)
    BY <2>1, EntriesAre DEF Flows
  <2>3. c.buf[1].tm > 0 /\ c.buf[Len(c.buf)].tm > 0
    BY <2>2 DEF Flows, Stamped
  <2>4. c.beg > 0 /\ c.end > 0
    BY <2>1, <2>3 DEF Flows, Ended
  <2>5. QED
    BY <2>4
<1>6. Len(d.buf) # 0 => Ended(d)
  BY <1>2, <1>4, <1>5 DEF Flows, Ended
<1>7. QED
  BY <1>1, <1>4, <1>6 DEF Flows

\* What is told of a flow with a value.
LEMMA ToldFlow ==
  ASSUME grid = "flow", NEW tm, NEW value, NEW e, e = [tm |-> Stored(tm), val |-> value],
         NEW s, DOMAIN told = TimesOf(s)
  PROVE  /\ DOMAIN ToldWith(value, tm) = Left(Joined(s, e))
         /\ \A x \in Left(Joined(s, e)) :
              ToldWith(value, tm)[x] = IF x = e.tm THEN e.val ELSE told[x]
<1> DEFINE t == Stored(tm)
           flow == [x \in {t} \union DOMAIN told |-> IF x = t THEN value ELSE told[x]]
           old == IF size # 0 /\ Cardinality(DOMAIN flow) > size THEN {Min(DOMAIN flow)} ELSE {}
<1>1. ToldWith(value, tm) = Restrict(flow, DOMAIN flow \ old)
  BY DEF ToldWith
<1>2. e.tm = t /\ e.val = value
  OBVIOUS
<1>3. DOMAIN flow = Joined(s, e)
  BY <1>2 DEF Joined
<1>4. DOMAIN flow \ old = Left(Joined(s, e))
  <2> HIDE DEF flow
  <2>1. QED
    BY <1>3 DEF Left
<1>5. \A x \in DOMAIN flow : flow[x] = IF x = t THEN value ELSE told[x]
  OBVIOUS
<1> HIDE DEF flow, old, t
<1>6. ToldWith(value, tm) = [x \in Left(Joined(s, e)) |-> flow[x]]
  BY <1>1, <1>4 DEF Restrict
<1>7. \A x \in Left(Joined(s, e)) : x \in DOMAIN flow
  BY <1>4
<1>8. QED
  BY <1>2, <1>5, <1>6, <1>7

LEMMA FlowSetFlows ==
  ASSUME ValBufAssumption, FlowInv, grid = "flow", NEW tm \in Times, NEW value \in Vals
  PROVE  Flows(SetTo(tb, value, tm), ToldWith(value, tm)) /\ Len(SetTo(tb, value, tm).buf) # 0
<1>1. PICK e : e = [tm |-> Stored(tm), val |-> value]
  OBVIOUS
<1>2. e.tm = Stored(tm) /\ e.val = value /\ e.tm \in Int /\ e.tm > 0 /\ Stored(e.tm) = e.tm
  BY <1>1, StoredTime
<1>3. PICK c : c = Begun(tb, tm) /\ Flows(c, told) /\ size \in Nat
  BY BegunFlows DEF FlowInv
<1>4. PICK at : /\ PlaceOf(c.buf, Stored(tm), at)
                /\ FlowSet(c, value, tm) = FlowSetAt(c, value, tm, at)
  BY <1>2, <1>3, FlowPlace DEF Flows
<1>5. PICK d : d = SetTo(tb, value, tm) /\ d = FlowSetAt(c, value, tm, at)
  BY <1>3, <1>4 DEF SetTo
<1>6. Adds(d, c.buf, e)
  BY <1>1, <1>2, <1>3, <1>4, <1>5, FlowSetAdds DEF Flows, Ended
<1>7. PICK h : h = ToldWith(value, tm)
  OBVIOUS
<1>8. /\ DOMAIN h = Left(Joined(c.buf, e))
      /\ \A x \in Left(Joined(c.buf, e)) : h[x] = IF x = e.tm THEN e.val ELSE told[x]
  BY <1>1, <1>3, <1>7, ToldFlow DEF Flows, Tells
<1>9. ASSUME NEW i \in 1..Len(d.buf)
      PROVE  d.buf[i].tm > 0 /\ Stored(d.buf[i].tm) = d.buf[i].tm /\ h[d.buf[i].tm] = d.buf[i].val
  <2>1. d.buf[i].tm \in Left(Joined(c.buf, e))
    BY <1>6 DEF Adds, TimesOf
  <2>2. CASE d.buf[i] = e
    BY <1>2, <1>8, <2>1, <2>2
  <2>3. ASSUME NEW j \in 1..Len(c.buf), d.buf[i] = c.buf[j], c.buf[j].tm # e.tm
        PROVE  d.buf[i].tm > 0 /\ Stored(d.buf[i].tm) = d.buf[i].tm /\ h[d.buf[i].tm] = d.buf[i].val
    <3>1. c.buf[j].tm > 0 /\ Stored(c.buf[j].tm) = c.buf[j].tm
      BY <1>3 DEF Flows, Stamped
    <3>2. told[c.buf[j].tm] = c.buf[j].val
      BY <1>3 DEF Flows, Tells
    <3>3. h[d.buf[i].tm] = told[c.buf[j].tm]
      BY <1>8, <2>1, <2>3
    <3>4. QED
      BY <2>3, <3>1, <3>2, <3>3
  <2>4. QED
    BY <1>6, <2>2, <2>3 DEF Adds
<1>10. Tells(d.buf, h) /\ Stamped(d.buf)
  BY <1>6, <1>8, <1>9 DEF Tells, Stamped, Adds
<1>11. QED
  BY <1>5, <1>6, <1>7, <1>10 DEF Flows, Adds, Ended

LEMMA NoEntries ==
  \E s : s = <<>> /\ s \in Seq(Cells) /\ Len(s) = 0 /\ DOMAIN s = {} /\ 1..Len(s) = {}
<1>1. <<>> \in Seq(Cells) /\ Len(<<>>) = 0
  OBVIOUS
<1>2. PICK s : s = <<>> /\ s \in Seq(Cells) /\ Len(s) = 0
  BY <1>1
<1>3. 1..Len(s) = {} /\ DOMAIN s = 1..Len(s)
  BY <1>2
<1>4. QED
  BY <1>2, <1>3

LEMMA EmptyKeepsFlow ==
  ASSUME size' \in Nat, tb' = Empty, told' = <<>>
  PROVE  FlowInv'
<1>1. PICK s : s = <<>> /\ s \in Seq(Cells) /\ Len(s) = 0 /\ DOMAIN s = {} /\ 1..Len(s) = {}
  BY NoEntries
<1>2. s = tb'.buf /\ s \in Seq(Cells) /\ Len(s) = 0 /\ 1..Len(s) = {}
  BY <1>1 DEF Empty
<1>3. tb'.end = 0 /\ Shaped(tb)'
  BY DEF Empty, Shaped
<1>4. TimesOf(s) = {} /\ DOMAIN told' = {}
  BY <1>1 DEF TimesOf
<1>5. Tells(tb.buf, told)'
  BY <1>2, <1>4 DEF Tells, TimesOf
<1>6. Rising(tb.buf)' /\ Stamped(tb.buf)' /\ InSize(tb.buf)'
  BY <1>2 DEF Rising, Stamped, InSize
<1>7. QED
  BY <1>2, <1>3, <1>5, <1>6 DEF FlowInv, Flows

LEMMA UntouchedKeepsFlow ==
  ASSUME FlowInv, UNCHANGED <<grid, hgResTm, tb, told>>, size' \in Nat, InSize(tb.buf) => InSize(tb.buf)'
  PROVE  FlowInv'
<1>1. Flows(tb, told) => Flows(tb, told)'
  BY DEF Flows, Shaped, Rising, Stamped, Stored, Ended, Tells, TimesOf
<1>2. QED
  BY <1>1 DEF FlowInv

LEMMA SetKeepsFlow ==
  ASSUME ValBufAssumption, FlowInv, NEW tm \in Times, NEW value \in Vals, Set(value, tm)
  PROVE  FlowInv'
<1>1. /\ tb' = SetTo(tb, value, tm) /\ told' = ToldWith(value, tm)
      /\ grid' = grid /\ size' = size /\ hgResTm' = hgResTm
  BY DEF Set, mode
<1>2. ASSUME grid = "flow" PROVE Flows(tb, told)' /\ Len(tb'.buf) # 0
  <2>1. PICK d, h : d = tb' /\ h = told' /\ Flows(d, h) /\ Len(d.buf) # 0
    BY <1>1, <1>2, FlowSetFlows
  <2>2. Flows(tb, told)'
    BY <1>1, <2>1 DEF Flows, Shaped, Rising, Stamped, Stored, InSize, Ended, Tells, TimesOf
  <2>3. QED
    BY <2>1, <2>2
<1>3. QED
  BY <1>1, <1>2 DEF FlowInv

LEMMA ClearKeepsFlow ==
  ASSUME FlowInv, Clear
  PROVE  FlowInv'
<1>1. size' \in Nat /\ tb' = Empty /\ told' = <<>>
  BY DEF Clear, Forget, FlowInv
<1>2. QED
  BY <1>1, EmptyKeepsFlow

LEMMA MakeBufKeepsFlow ==
  ASSUME ValBufAssumption, FlowInv,
         NEW isz \in Sizes, NEW g \in Grids, NEW hgRes \in BOOLEAN, MakeBuf(isz, g, hgRes)
  PROVE  FlowInv'
<1>1. isz \in Nat /\ size' = isz /\ grid' = g /\ hgResTm' = hgRes /\ size \in Nat
  BY DEF MakeBuf, ValBufAssumption, FlowInv
<1>2. CASE isz < size \/ size = 0 \/ g # grid \/ hgRes # hgResTm
  <2>1. tb' = Empty /\ told' = <<>>
    BY <1>2 DEF MakeBuf, Forget
  <2>2. QED
    BY <1>1, <2>1, EmptyKeepsFlow
<1>3. CASE ~(isz < size \/ size = 0 \/ g # grid \/ hgRes # hgResTm)
  <2>1. tb' = tb /\ told' = told /\ grid' = grid /\ hgResTm' = hgResTm
    BY <1>1, <1>3 DEF MakeBuf
  <2>2. ASSUME FlowInv, grid = "flow" PROVE Len(tb.buf) \in Nat
    BY <2>2, EntriesAre DEF FlowInv, Flows
  <2>3. CASE grid = "flow"
    <3>1. InSize(tb.buf) => InSize(tb.buf)'
      BY <1>1, <1>3, <2>1, <2>2, <2>3 DEF InSize
    <3>2. QED
      BY <1>1, <2>1, <3>1, UntouchedKeepsFlow
  <2>4. CASE grid # "flow"
    BY <1>1, <2>1, <2>4 DEF FlowInv
  <2>5. QED
    BY <2>3, <2>4
<1>4. QED
  BY <1>2, <1>3

LEMMA FlowStep ==
  ASSUME ValBufAssumption, FlowInv, [Next]_vars
  PROVE  FlowInv'
<1>1. ASSUME NEW value \in Vals, NEW tm \in Times, Set(value, tm) PROVE FlowInv'
  BY <1>1, SetKeepsFlow
<1>2. ASSUME NEW tm \in Times, AttrSetOld(tm) PROVE FlowInv'
  BY <1>2, ClearKeepsFlow DEF AttrSetOld
<1>3. CASE Clear
  BY <1>3, ClearKeepsFlow
<1>4. ASSUME NEW isz \in Sizes, NEW g \in Grids, NEW hgRes \in BOOLEAN, MakeBuf(isz, g, hgRes)
      PROVE  FlowInv'
  BY <1>4, MakeBufKeepsFlow
<1>5. ASSUME UNCHANGED <<grid, hgResTm, size, tb, told>> PROVE FlowInv'
  <2>1. size' \in Nat /\ (InSize(tb.buf) => InSize(tb.buf)')
    BY <1>5 DEF FlowInv, InSize
  <2>2. QED
    BY <1>5, <2>1, UntouchedKeepsFlow
<1>6. CASE SetFillLast
  BY <1>5, <1>6 DEF SetFillLast
<1>7. CASE UNCHANGED vars
  BY <1>5, <1>7 DEF vars, mode
<1>8. QED
  BY <1>1, <1>2, <1>3, <1>4, <1>6, <1>7 DEF Next

LEMMA FlowStart ==
  ASSUME ValBufAssumption, Init
  PROVE  FlowInv
<1>1. PICK s : s = <<>> /\ s \in Seq(Cells) /\ Len(s) = 0 /\ DOMAIN s = {} /\ 1..Len(s) = {}
  BY NoEntries
<1>2. size \in Nat
  BY DEF Init, ValBufAssumption
<1>3. s = tb.buf /\ s \in Seq(Cells) /\ Len(s) = 0 /\ 1..Len(s) = {}
  BY <1>1 DEF Init, Empty
<1>4. tb.end = 0 /\ Shaped(tb) /\ told = s
  BY <1>1 DEF Init, Empty, Shaped
<1>5. TimesOf(s) = {} /\ DOMAIN told = {}
  BY <1>1, <1>4 DEF TimesOf
<1>6. Tells(tb.buf, told)
  BY <1>3, <1>5 DEF Tells
<1>7. Rising(tb.buf) /\ Stamped(tb.buf) /\ InSize(tb.buf)
  BY <1>3, <1>2 DEF Rising, Stamped, InSize
<1>8. QED
  BY <1>3, <1>4, <1>6, <1>7, <1>2 DEF FlowInv, Flows

\* A flow has the values it was told by rising times, each once, from its begin
\* to its end, as many as its size allows: whatever place set()
\* (src/src/tarchval.cpp:813) found by halves to put a value in, and however
\* makeBuf() changed the size.
THEOREM FlowGoes == Spec => []FlowInv
<1>1. Init => FlowInv
  BY ValBufAssumption, FlowStart
<1>2. FlowInv /\ [Next]_vars => FlowInv'
  BY ValBufAssumption, FlowStep
<1>3. QED
  BY <1>1, <1>2, PTL DEF Spec

-----------------------------------------------------------------------------
(* What get() finds in a flow                                              *)

\* The places the half dividers of FlowGet go on from, the hits being H.
Backward(n, H) == [w \in 0..n |-> [c \in 0..n |-> IF c - w \in H THEN c ELSE c - w]]

Closed(n, H) == \A j, k \in 0..n-1 : j <= k /\ k \in H => j \in H
NoneAfter(h, n, H) == h \in 0..n-1 /\ \A k \in 0..n-1 : k \in H => k <= h

LEMMA BackwardCome ==
  ASSUME NEW n \in Nat \ {0}, NEW m \in Nat, NEW H, Closed(n, H),
         NEW half, Halves(half, n, 0..n, m, Backward(n, H))
  PROVE  NoneAfter(half[(n - 1) \div 2][n - 1], n, H)
<1> DEFINE D == 0..n
           N == Backward(n, H)
           R == [w \in 0..n |->
                  {c \in D : c <= n - 1 /\ 2 * w <= c /\ \A k \in 0..n-1 : k \in H => k <= c}]
<1>1. R \in [0..n -> SUBSET D]
  OBVIOUS
<1>2. \A w \in 0..n : \A c \in R[w] :
        c \in D /\ c <= n - 1 /\ 2 * w <= c /\ \A k \in 0..n-1 : k \in H => k <= c
  OBVIOUS
<1>3. ASSUME NEW w \in 0..n, NEW c \in R[w], w > m PROVE N[w][c] \in R[w \div 2]
  <2>1. c \in 0..n-1 /\ 2 * w <= c /\ \A k \in 0..n-1 : k \in H => k <= c
    BY <1>2
  <2>2. w \in Nat /\ w # 0
    BY <1>3
  <2>3. PICK v \in 0..n : v = w \div 2 /\ 2 * v <= w
    <3>1. w \div 2 \in Nat /\ 2 * (w \div 2) <= w /\ w \div 2 < w
      BY <2>2, HalfOf
    <3>2. QED
      BY <3>1
  <2>4. N[w][c] = IF c - w \in H THEN c ELSE c - w
    BY <2>1 DEF Backward
  <2>5. \A x \in D : /\ x <= n - 1 /\ 2 * v <= x
                     /\ \A k \in 0..n-1 : k \in H => k <= x
                     => x \in R[w \div 2]
    BY <2>3
  <2> HIDE DEF N, R
  <2>6. CASE c - w \in H
    <3>1. c \in D /\ c <= n - 1 /\ 2 * v <= c
      BY <2>1, <2>2, <2>3
    <3>2. QED
      BY <2>1, <2>4, <2>5, <2>6, <3>1
  <2>7. CASE ~(c - w \in H)
    <3>1. c - w \in D /\ c - w \in 0..n-1 /\ 2 * v <= c - w
      BY <2>1, <2>2, <2>3
    <3>2. \A k \in 0..n-1 : k \in H => k <= c - w
      <4>1. ASSUME NEW k \in 0..n-1, k \in H, ~(k <= c - w) PROVE FALSE
        <5>1. c - w <= k
          BY <2>1, <2>2, <4>1
        <5>2. QED
          BY <2>7, <3>1, <4>1, <5>1 DEF Closed
      <4>2. QED
        BY <4>1
    <3>3. c - w <= n - 1
      BY <3>1
    <3>4. c - w \in R[w \div 2]
      BY <2>5, <3>1, <3>2, <3>3
    <3>5. QED
      BY <2>4, <2>7, <3>4
  <2>8. QED
    BY <2>6, <2>7
<1>4. PICK p \in 0..n : p = (n - 1) \div 2 /\ 2 * p <= n - 1
  <2>1. PICK x \in Nat : x = n - 1
    OBVIOUS
  <2>2. x \div 2 \in Nat /\ 2 * (x \div 2) <= x
    BY HalfOf
  <2>3. QED
    BY <2>1, <2>2
<1>5. n - 1 \in R[p]
  BY <1>4
<1>6. Halves(half, n, D, m, N)
  OBVIOUS
<1> HIDE DEF D, N, R
<1>7. Leads(R, N, n, m)
  BY <1>3 DEF Leads
<1>8. ComesTo(R, half, n)
  BY <1>1, <1>6, <1>7, HalvesCome
<1>9. PICK v \in 0..n : half[p][n - 1] \in R[v]
  BY <1>4, <1>5, <1>8 DEF ComesTo
<1>10. PICK h : h = half[(n - 1) \div 2][n - 1] /\ h \in R[v]
  BY <1>4, <1>9
<1>11. h \in 0..n-1 /\ \A k \in 0..n-1 : k \in H => k <= h
  BY <1>2, <1>10 DEF D
<1>12. QED
  BY <1>10, <1>11 DEF NoneAfter

\* Where the hits are the first positions from one end, the last of them is got.
FlowPos(b, up, c) == IF up THEN Len(b.buf) - c ELSE c + 1
FlowHit(b, tm, up, c) ==
  IF up THEN tm <= b.buf[FlowPos(b, up, c)].tm ELSE Stored(tm) >= b.buf[FlowPos(b, up, c)].tm

HitsFirst(b, tm, up, n) ==
  \A j, k \in 0..n-1 : j <= k /\ FlowHit(b, tm, up, k) => FlowHit(b, tm, up, j)
LastHit(b, tm, up, n, c) ==
  FlowHit(b, tm, up, c) /\ \A k \in 0..n-1 : FlowHit(b, tm, up, k) => k <= c

LEMMA FlowGetLast ==
  ASSUME ValBufAssumption, NEW b, NEW n \in Nat \ {0}, n = Len(b.buf), NEW tm, NEW up \in BOOLEAN,
         FlowHit(b, tm, up, 0), HitsFirst(b, tm, up, n)
  PROVE  \E c \in 0..n-1 : LastHit(b, tm, up, n, c) /\ FlowGet(b, tm, up) = b.buf[FlowPos(b, up, c)]
<1> DEFINE l == Len(b.buf)
           pos(c) == IF up THEN l - c ELSE c + 1
           hit(c) == IF up THEN tm <= b.buf[pos(c)].tm ELSE Stored(tm) >= b.buf[pos(c)].tm
           half[w \in 0..l] == [c \in 0..l |->
             IF w <= HalfDivMinWin THEN c
             ELSE half[w \div 2][IF hit(c - w) THEN c ELSE c - w]]
           hits == {c \in 0..half[(l - 1) \div 2][l - 1] : hit(c)}
<1>1. FlowGet(b, tm, up) = IF hits = {} THEN None ELSE b.buf[pos(Max(hits))]
  BY DEF FlowGet
<1>2. \A c : pos(c) = FlowPos(b, up, c) /\ (hit(c) <=> FlowHit(b, tm, up, c))
  BY DEF FlowPos, FlowHit
<1> DEFINE H == {k \in -n..n : FlowHit(b, tm, up, k)}
           N == Backward(n, H)
           step(h, w) == [c \in 0..l |->
             IF w <= HalfDivMinWin THEN c
             ELSE h[w \div 2][IF hit(c - w) THEN c ELSE c - w]]
<1>3. l = n /\ HalfDivMinWin \in Nat
  BY DEF ValBufAssumption
<1>4. ASSUME NEW h, NEW w \in 0..l
      PROVE  step(h, w) = [c \in 0..l |-> IF w <= HalfDivMinWin THEN c ELSE h[w \div 2][N[w][c]]]
  <2>1. ASSUME NEW c \in 0..l PROVE N[w][c] = IF hit(c - w) THEN c ELSE c - w
    <3>1. c - w \in -n..n
      BY <1>3
    <3>2. c - w \in H <=> hit(c - w)
      BY <1>2, <3>1
    <3>3. N[w][c] = IF c - w \in H THEN c ELSE c - w
      BY <1>3 DEF Backward
    <3> HIDE DEF N, H, hit
    <3>4. QED
      BY <3>2, <3>3
  <2> HIDE DEF N, hit
  <2>2. QED
    BY <2>1
<1>5. half = [w \in 0..l |-> step(half, w)]
  <2>1. SUFFICES \E ff : ff = [w \in 0..l |-> step(ff, w)]
    OBVIOUS
  <2> HIDE DEF half, l, N, step, hit
  <2>2. PICK h : Halves(h, l, 0..l, HalfDivMinWin, N)
    BY <1>3, HalvesExist
  <2>3. h = [w \in 0..l |-> h[w]] /\ \A w \in 0..l : h[w] = step(h, w)
    <3>1. ASSUME NEW w \in 0..l PROVE h[w] = step(h, w)
      <4>1. h[w] = [c \in 0..l |-> IF w <= HalfDivMinWin THEN c ELSE h[w \div 2][N[w][c]]]
        BY <2>2 DEF Halves
      <4>2. QED
        BY <1>4, <4>1
    <3>2. h = [w \in 0..l |-> h[w]]
      BY <2>2 DEF Halves
    <3>3. QED
      BY <3>1, <3>2
  <2>4. QED
    BY <2>3
<1>6. \A k \in 0..n-1 : k \in H <=> FlowHit(b, tm, up, k)
  OBVIOUS
<1> HIDE DEF half, l, H, step, hit, pos
<1>7. Halves(half, n, 0..n, HalfDivMinWin, N)
  <2>1. \A w \in 0..l :
          step(half, w) = [c \in 0..l |-> IF w <= HalfDivMinWin THEN c ELSE half[w \div 2][N[w][c]]]
    BY <1>4
  <2>2. half = [w \in 0..l |->
                  [c \in 0..l |-> IF w <= HalfDivMinWin THEN c ELSE half[w \div 2][N[w][c]]]]
    BY <1>5, <2>1
  <2>3. QED
    BY <1>3, <2>2 DEF Halves
<1>8. PICK h \in 0..n-1 : /\ h = half[(n - 1) \div 2][n - 1]
                          /\ \A k \in 0..n-1 : FlowHit(b, tm, up, k) => k <= h
  <2>1. Closed(n, H)
    BY <1>6 DEF Closed, HitsFirst
  <2>2. PICK m \in Nat : m = HalfDivMinWin
    BY <1>3
  <2>3. Halves(half, n, 0..n, m, Backward(n, H))
    BY <1>7, <2>2
  <2> HIDE DEF N
  <2>4. NoneAfter(half[(n - 1) \div 2][n - 1], n, H)
    BY <2>1, <2>3, BackwardCome
  <2>5. QED
    BY <1>6, <2>4 DEF NoneAfter
<1>9. hits = {c \in 0..h : FlowHit(b, tm, up, c)}
  BY <1>2, <1>3, <1>8
<1> HIDE DEF hits
<1>10. hits \subseteq Nat /\ hits \subseteq Int /\ hits # {} /\ \A x \in hits : x <= h
  BY <1>9
<1>11. PICK c \in hits : \A y \in hits : y <= c
  <2>1. h \in Nat
    OBVIOUS
  <2>2. QED
    BY <1>10, <2>1, GreatestNat
<1>12. Max(hits) = c
  BY <1>10, <1>11, MaxIs
<1>13. c \in 0..n-1 /\ FlowHit(b, tm, up, c)
  BY <1>9
<1>14. ASSUME NEW k \in 0..n-1, FlowHit(b, tm, up, k) PROVE k <= c
  <2>1. k <= h
    BY <1>8, <1>14
  <2>2. k \in 0..h
    BY <2>1
  <2>3. k \in hits
    BY <1>9, <1>14, <2>2
  <2>4. QED
    BY <1>11, <2>3
<1>15. FlowGet(b, tm, up) = b.buf[FlowPos(b, up, c)]
  BY <1>1, <1>2, <1>10, <1>12
<1>16. QED
  BY <1>13, <1>14, <1>15 DEF LastHit

\* get() at a time of the flow: the entry of the nearest time of the side it
\* searches.
\* The i-th entry is the nearest one to t, of those at it or behind it.
Nearest(d, t, up, i) ==
  IF up THEN /\ d.buf[i].tm >= t
             /\ \A j \in 1..Len(d.buf) : d.buf[j].tm >= t => d.buf[i].tm <= d.buf[j].tm
  ELSE /\ d.buf[i].tm <= t
       /\ \A j \in 1..Len(d.buf) : d.buf[j].tm <= t => d.buf[j].tm <= d.buf[i].tm

LEMMA FlowGetIs ==
  ASSUME ValBufAssumption, grid = "flow", NEW d, NEW g, Flows(d, g), Len(d.buf) # 0,
         NEW t \in d.beg..d.end, NEW up \in BOOLEAN
  PROVE  \E i \in 1..Len(d.buf) : Get(d, t, up) = d.buf[i] /\ Nearest(d, t, up, i)
<1>1. PICK s : s = d.buf /\ s \in Seq(Cells) /\ Rising(s) /\ Stamped(s) /\ Ended(d)
  BY DEF Flows
<1>2. PICK n \in Nat \ {0} : n = Len(s)
  BY <1>1, EntriesAre
<1>3. \A i \in 1..n : s[i].tm \in Int /\ Stored(s[i].tm) = s[i].tm
  BY <1>1, <1>2, EntriesAre DEF Stamped
<1>4. \A i, j \in 1..n : i <= j => s[i].tm <= s[j].tm
  <2>1. ASSUME NEW i \in 1..n, NEW j \in 1..n, i <= j PROVE s[i].tm <= s[j].tm
    <3>1. i = j \/ i < j
      BY <2>1
    <3>2. i < j => s[i].tm < s[j].tm
      BY <1>1, <1>2 DEF Rising
    <3>3. s[i].tm \in Int /\ s[j].tm \in Int
      BY <1>3
    <3>4. QED
      BY <3>1, <3>2, <3>3
  <2>2. QED
    BY <2>1
<1>5. PICK b \in Int, e \in Int : b = d.beg /\ e = d.end /\ b = s[1].tm /\ e = s[n].tm
  <2>1. 1 \in 1..n /\ n \in 1..n
    BY <1>2
  <2>2. QED
    BY <1>1, <1>2, <1>3, <2>1 DEF Ended
<1>6. t \in Int /\ b <= t /\ t <= e
  BY <1>5
<1>7. Get(d, t, up) = FlowGet(d, t, up)
  <2>1. up => Max({t, b}) = t
    <3>1. {t, b} \subseteq Int /\ t \in {t, b} /\ \A y \in {t, b} : y <= t
      BY <1>6
    <3>2. QED
      BY <3>1, MaxIs
  <2>2. ~up => Min({t, e}) = t
    <3>1. {t, e} \subseteq Int /\ t \in {t, e} /\ \A y \in {t, e} : t <= y
      BY <1>6
    <3>2. QED
      BY <3>1, MinIs
  <2>3. ~(up /\ t > d.end) /\ ~(~up /\ t < d.beg)
    BY <1>5, <1>6
  <2>4. (IF up THEN Max({t, d.beg}) ELSE Min({t, d.end})) = t
    BY <1>5, <2>1, <2>2
  <2>5. QED
    BY <2>3, <2>4 DEF Get
<1>8. \A c \in 0..n-1 : FlowHit(d, t, up, c) <=>
        IF up THEN t <= s[n - c].tm ELSE t >= s[c + 1].tm
  <2>1. ASSUME NEW c \in 0..n-1, ~up PROVE Stored(t) >= s[c + 1].tm <=> t >= s[c + 1].tm
    <3>1. PICK x \in Int : x = s[c + 1].tm /\ Stored(x) = x
      <4>1. c + 1 \in 1..n
        OBVIOUS
      <4>2. QED
        BY <1>3, <4>1
    <3>2. Stored(t) \in Int /\ Stored(t) <= t /\ (x <= t => x <= Stored(t))
      BY <1>6, <3>1, StoredIs
    <3>3. QED
      BY <1>6, <3>1, <3>2
  <2>2. QED
    BY <1>1, <1>2, <2>1 DEF FlowHit, FlowPos
<1>9. FlowHit(d, t, up, 0)
  <2>1. 0 \in 0..n-1 /\ n - 0 = n /\ 0 + 1 = 1
    BY <1>2
  <2>2. QED
    BY <1>5, <1>6, <1>8, <2>1
<1>10. ASSUME NEW j \in 0..n-1, NEW k \in 0..n-1, j <= k, FlowHit(d, t, up, k)
       PROVE  FlowHit(d, t, up, j)
  <2>1. CASE up
    <3>1. n - k \in 1..n /\ n - j \in 1..n /\ n - k <= n - j
      BY <1>10
    <3>2. s[n - k].tm <= s[n - j].tm /\ s[n - k].tm \in Int /\ s[n - j].tm \in Int
      BY <1>3, <1>4, <3>1
    <3>3. t <= s[n - k].tm
      BY <1>8, <1>10, <2>1
    <3>4. t <= s[n - j].tm
      BY <1>6, <3>2, <3>3
    <3>5. QED
      BY <1>8, <2>1, <3>4
  <2>2. CASE ~up
    <3>1. j + 1 \in 1..n /\ k + 1 \in 1..n /\ j + 1 <= k + 1
      BY <1>10
    <3>2. s[j + 1].tm <= s[k + 1].tm /\ s[j + 1].tm \in Int /\ s[k + 1].tm \in Int
      BY <1>3, <1>4, <3>1
    <3>3. t >= s[k + 1].tm
      BY <1>8, <1>10, <2>2
    <3>4. t >= s[j + 1].tm
      BY <1>6, <3>2, <3>3
    <3>5. QED
      BY <1>8, <2>2, <3>4
  <2>3. QED
    BY <2>1, <2>2
<1>11. PICK c \in 0..n-1 : /\ FlowGet(d, t, up) = d.buf[FlowPos(d, up, c)]
                           /\ FlowHit(d, t, up, c)
                           /\ \A k \in 0..n-1 : FlowHit(d, t, up, k) => k <= c
  <2>1. HitsFirst(d, t, up, n)
    BY <1>10 DEF HitsFirst
  <2>2. n = Len(d.buf)
    BY <1>1, <1>2
  <2>3. \E c \in 0..n-1 : LastHit(d, t, up, n, c) /\ FlowGet(d, t, up) = d.buf[FlowPos(d, up, c)]
    BY <1>9, <2>1, <2>2, FlowGetLast
  <2>4. QED
    BY <2>3 DEF LastHit
<1>12. CASE up
  <2>1. PICK i \in 1..n : i = n - c /\ FlowPos(d, up, c) = i
    <3>1. PICK i \in 1..n : i = n - c
      OBVIOUS
    <3>2. FlowPos(d, up, c) = n - c
      BY <1>1, <1>2, <1>12 DEF FlowPos
    <3>3. QED
      BY <3>1, <3>2
  <2>2. s[i].tm >= t
    <3>1. t <= s[i].tm
      BY <1>8, <1>11, <1>12, <2>1
    <3>2. QED
      BY <1>3, <1>6, <3>1
  <2>3. ASSUME NEW j \in 1..n, s[j].tm >= t PROVE s[i].tm <= s[j].tm
    <3>1. PICK k \in 0..n-1 : k = n - j /\ n - k = j
      OBVIOUS
    <3>2. t <= s[j].tm
      BY <1>3, <1>6, <2>3
    <3>3. k <= c
      BY <1>8, <1>11, <1>12, <3>1, <3>2
    <3>4. i <= j
      BY <2>1, <3>1, <3>3
    <3>5. QED
      BY <1>4, <3>4
  <2>4. Nearest(d, t, up, i)
    BY <1>1, <1>2, <1>12, <2>2, <2>3 DEF Nearest
  <2>5. QED
    BY <1>1, <1>2, <1>7, <1>11, <2>1, <2>4
<1>13. CASE ~up
  <2>1. PICK i \in 1..n : i = c + 1 /\ FlowPos(d, up, c) = i
    BY <1>13 DEF FlowPos
  <2>2. s[i].tm <= t
    <3>1. t >= s[i].tm
      BY <1>8, <1>11, <1>13, <2>1
    <3>2. QED
      BY <1>3, <1>6, <3>1
  <2>3. ASSUME NEW j \in 1..n, s[j].tm <= t PROVE s[j].tm <= s[i].tm
    <3>1. PICK k \in 0..n-1 : k = j - 1 /\ k + 1 = j
      OBVIOUS
    <3>2. t >= s[j].tm
      BY <1>3, <1>6, <2>3
    <3>3. k <= c
      BY <1>8, <1>11, <1>13, <3>1, <3>2
    <3>4. j <= i
      BY <2>1, <3>1, <3>3
    <3>5. QED
      BY <1>4, <3>4
  <2>4. Nearest(d, t, up, i)
    BY <1>1, <1>2, <1>13, <2>2, <2>3 DEF Nearest
  <2>5. QED
    BY <1>1, <1>2, <1>7, <1>11, <2>1, <2>4
<1>14. QED
  BY <1>12, <1>13

LEMMA FlowGives ==
  ASSUME ValBufAssumption, FlowInv, grid = "flow"
  PROVE  GetRight
<1>1. Flows(tb, told) /\ (Len(tb.buf) = 0 => tb.end = 0)
  BY DEF FlowInv
<1>2. ASSUME NEW t \in Held, NEW up \in BOOLEAN
      PROVE  LET near == IF up THEN Min({x \in DOMAIN told : x >= t})
                         ELSE Max({x \in DOMAIN told : x <= t})
             IN  Get(tb, t, up).val = told[near] /\ Get(tb, t, up).tm = near
  <2>1. tb.end # 0 /\ t \in tb.beg..tb.end /\ Len(tb.buf) # 0
    BY <1>1, <1>2 DEF Held
  <2>2. PICK i \in 1..Len(tb.buf) :
          /\ Get(tb, t, up) = tb.buf[i]
          /\ IF up THEN /\ tb.buf[i].tm >= t
                        /\ \A j \in 1..Len(tb.buf) : tb.buf[j].tm >= t => tb.buf[i].tm <= tb.buf[j].tm
             ELSE /\ tb.buf[i].tm <= t
                  /\ \A j \in 1..Len(tb.buf) : tb.buf[j].tm <= t => tb.buf[j].tm <= tb.buf[i].tm
    <3>1. PICK i \in 1..Len(tb.buf) : Get(tb, t, up) = tb.buf[i] /\ Nearest(tb, t, up, i)
      BY <1>1, <2>1, FlowGetIs
    <3>2. QED
      BY <3>1 DEF Nearest
  <2>3. DOMAIN told = {tb.buf[j].tm : j \in 1..Len(tb.buf)} /\ told[tb.buf[i].tm] = tb.buf[i].val
    BY <1>1 DEF Flows, Tells, TimesOf
  <2>4. DOMAIN told \subseteq Int
    BY <1>1, EntriesAre DEF Flows, Tells
  <2>5. PICK m : m = tb.buf[i].tm /\ m \in DOMAIN told
    BY <2>3
  <2>6. CASE up
    <3>1. {x \in DOMAIN told : x >= t} \subseteq Int /\ m \in {x \in DOMAIN told : x >= t}
      BY <2>2, <2>4, <2>5, <2>6
    <3>2. \A y \in {x \in DOMAIN told : x >= t} : m <= y
      BY <2>2, <2>3, <2>5, <2>6
    <3>3. Min({x \in DOMAIN told : x >= t}) = m
      BY <3>1, <3>2, MinIs
    <3>4. QED
      BY <2>2, <2>3, <2>5, <2>6, <3>3
  <2>7. CASE ~up
    <3>1. {x \in DOMAIN told : x <= t} \subseteq Int /\ m \in {x \in DOMAIN told : x <= t}
      BY <2>2, <2>4, <2>5, <2>7
    <3>2. \A y \in {x \in DOMAIN told : x <= t} : y <= m
      BY <2>2, <2>3, <2>5, <2>7
    <3>3. Max({x \in DOMAIN told : x <= t}) = m
      BY <3>1, <3>2, MaxIs
    <3>4. QED
      BY <2>2, <2>3, <2>5, <2>7, <3>3
  <2>8. QED
    BY <2>6, <2>7
<1>3. QED
  BY <1>2 DEF GetRight

LEMMA FlowKeeps ==
  ASSUME ValBufAssumption, FlowInv, grid = "flow"
  PROVE  NewestKept
<1>1. tb.buf \in Seq(Cells) /\ Rising(tb.buf) /\ DOMAIN told = TimesOf(tb.buf)
  BY DEF FlowInv, Flows, Tells
<1>2. Cardinality(DOMAIN told) = Len(tb.buf)
  BY <1>1, RisingCount
<1>3. QED
  BY <1>2 DEF NewestKept

\* get() of a flow (src/src/tarchval.cpp:559) at any time from its begin to its
\* end gives the value that was last told for the nearest time of the side it
\* searches, and that time, wherever its half divider stops.
THEOREM FlowGetRight == Spec => [](grid = "flow" => GetRight)
<1>1. FlowInv => (grid = "flow" => GetRight)
  BY FlowGives, ValBufAssumption
<1>2. QED
  BY <1>1, FlowGoes, PTL

\* Of a flow only the oldest values are lost, and only to newer ones than its
\* size allows: what it holds is as many as it was told of these.
THEOREM FlowNewestKept == Spec => [](grid = "flow" => NewestKept)
<1>1. FlowInv => (grid = "flow" => NewestKept)
  BY FlowKeeps, ValBufAssumption
<1>2. QED
  BY <1>1, FlowGoes, PTL

-----------------------------------------------------------------------------
(* The ring of changes                                                     *)

\* The j-th entry back from the newest.
At(b, j) == b.buf[Behind(NewestPos(b), j, Len(b.buf))]

\* A ring is written over only where it is full.
Ringed(b) ==
  /\ b \in Ring
  /\ b.cur <= Len(b.buf)
  /\ size # 0 => b.cur < size /\ Len(b.buf) <= size
  /\ size = 0 => b.cur = Len(b.buf)
  /\ b.cur < Len(b.buf) => room # 0 /\ room <= Len(b.buf)

LEMMA RingedIs ==
  ASSUME NEW b, Ringed(b)
  PROVE  /\ b.buf \in Seq(Cells) /\ Len(b.buf) \in Nat /\ DOMAIN b.buf = 1..Len(b.buf)
         /\ b.cur \in Nat /\ b.beg \in Int /\ b.end \in Int /\ b.evalCnt \in Int
         /\ b.cur <= Len(b.buf)
         /\ \A i \in 1..Len(b.buf) : b.buf[i] \in Cells /\ b.buf[i].val \in Vals /\ b.buf[i].tm \in Int
         /\ Len(b.buf) # 0 => NewestPos(b) \in 1..Len(b.buf)
         /\ \A j \in 0..Len(b.buf)-1 :
              /\ Behind(NewestPos(b), j, Len(b.buf)) \in 1..Len(b.buf)
              /\ At(b, j) \in Cells /\ At(b, j).val \in Vals /\ At(b, j).tm \in Int
<1>1. /\ b.buf \in Seq(Cells) /\ b.cur \in Nat /\ b.beg \in Int /\ b.end \in Int /\ b.evalCnt \in Int
      /\ b.cur <= Len(b.buf)
  BY DEF Ringed, Ring
<1>2. Len(b.buf) \in Nat /\ DOMAIN b.buf = 1..Len(b.buf)
  BY <1>1
<1>3. \A i \in 1..Len(b.buf) : b.buf[i] \in Cells
  BY <1>1, <1>2, ElementOfSeq
<1>4. \A i \in 1..Len(b.buf) : b.buf[i].val \in Vals /\ b.buf[i].tm \in Int
  BY <1>3 DEF Cells
<1>5. Len(b.buf) # 0 => NewestPos(b) \in 1..Len(b.buf)
  BY <1>1, <1>2 DEF NewestPos
<1>6. ASSUME NEW j \in 0..Len(b.buf)-1
      PROVE  /\ Behind(NewestPos(b), j, Len(b.buf)) \in 1..Len(b.buf)
             /\ At(b, j) \in Cells /\ At(b, j).val \in Vals /\ At(b, j).tm \in Int
  <2>1. PICK n \in Nat \ {0} : n = Len(b.buf) /\ j \in 0..n-1
    BY <1>2, <1>6
  <2>2. PICK p : p = NewestPos(b) /\ p \in 1..n
    BY <1>5, <2>1
  <2>3. Behind(p, j, n) \in 1..n
    BY <2>1, <2>2, BehindIs
  <2>4. QED
    BY <1>3, <1>4, <2>1, <2>2, <2>3 DEF At
<1>7. QED
  BY <1>1, <1>2, <1>3, <1>4, <1>5, <1>6

\* A position one after another is further back by one.
FurtherBack(q, m, p, n, j) ==
  /\ j - 1 \in 0..n-1 /\ Behind(q, j, m) = Behind(p, j - 1, n)
  /\ Behind(q, j, m) # q /\ Behind(q, j, m) \in 1..n

LEMMA BehindNext ==
  ASSUME NEW m \in Nat \ {0}, NEW n \in Nat \ {0}, NEW p \in 1..n, NEW q \in 1..m,
         NEW cur \in Nat, q = cur + 1, p = (IF cur > 0 THEN cur ELSE n),
         m = (IF cur < n THEN n ELSE n + 1), NEW j \in 1..m-1
  PROVE  FurtherBack(q, m, p, n, j)
<1> USE DEF FurtherBack
<1>1. j - 1 \in 0..n-1 /\ j \in 0..m-1 /\ j \in Int
  OBVIOUS
<1>2. Behind(q, j, m) = IF j < q THEN q - j ELSE q - j + m
  BY <1>1, BehindIs
<1>3. /\ Behind(p, j - 1, n) = IF j - 1 < p THEN p - (j - 1) ELSE p - (j - 1) + n
      /\ Behind(p, j - 1, n) \in 1..n
  BY <1>1, BehindIs
<1>4. CASE cur = 0
  <2>1. q = 1 /\ p = n /\ m = n /\ ~(j < q) /\ j - 1 < p
    BY <1>1, <1>4
  <2>2. Behind(q, j, m) = 1 - j + n /\ Behind(p, j - 1, n) = n - (j - 1)
    BY <1>2, <1>3, <2>1
  <2>3. QED
    BY <1>1, <1>3, <2>1, <2>2
<1>5. CASE cur # 0 /\ j < q
  <2>1. p = cur /\ j - 1 < p
    BY <1>1, <1>5
  <2>2. Behind(q, j, m) = cur + 1 - j /\ Behind(p, j - 1, n) = cur - (j - 1)
    BY <1>2, <1>3, <1>5, <2>1
  <2>3. cur + 1 - j = cur - (j - 1) /\ cur + 1 - j # cur + 1
    BY <1>1
  <2>4. QED
    BY <1>1, <1>3, <2>2, <2>3
<1>6. CASE cur # 0 /\ ~(j < q)
  <2>1. p = cur /\ ~(j - 1 < p) /\ m = n /\ cur < n /\ j < n
    BY <1>1, <1>6
  <2>2. Behind(q, j, m) = cur + 1 - j + n /\ Behind(p, j - 1, n) = cur - (j - 1) + n
    BY <1>2, <1>3, <1>6, <2>1
  <2>3. cur + 1 - j + n = cur - (j - 1) + n /\ cur + 1 - j + n # cur + 1
    BY <1>1, <2>1
  <2>4. QED
    BY <1>1, <1>3, <2>2, <2>3
<1>7. QED
  BY <1>4, <1>5, <1>6
\* c is b with e written: the entries go one back, the oldest is lost where the
\* ring is full.
Written(c, b, e) ==
  /\ Ringed(c) /\ c.end = b.end /\ Len(c.buf) # 0
  /\ Len(c.buf) = IF b.cur < Len(b.buf) THEN Len(b.buf) ELSE Len(b.buf) + 1
  /\ At(c, 0) = e
  /\ \A j \in 1..Len(c.buf)-1 : j - 1 \in 0..Len(b.buf)-1 /\ At(c, j) = At(b, j - 1)
  /\ IF b.cur < Len(b.buf) THEN Len(c.buf) # 1 => c.beg = Cell(At(c, Len(c.buf)-1).tm)
                           ELSE c.beg = b.beg

\* The place after the newest, and what is the oldest entry when it is written.
LEMMA WriteIs ==
  ASSUME ValBufAssumption, SizesFit, grid # "hard", NEW b, Ringed(b), NEW e \in Cells
  PROVE  Written(Write(b, e), b, e)
<1>1. PICK s, n, cur : s = b.buf /\ n = Len(s) /\ cur = b.cur
  OBVIOUS
<1>2. /\ s \in Seq(Cells) /\ n \in Nat /\ DOMAIN s = 1..n /\ cur \in Nat /\ cur <= n
      /\ b.beg \in Int /\ b.end \in Int /\ b.evalCnt \in Int
      /\ \A i \in 1..n : s[i].tm \in Int
      /\ size \in Nat /\ (size # 0 => cur < size /\ n <= size) /\ (size = 0 => cur = n)
      /\ (cur < n => room # 0 /\ room <= n)
  BY <1>1, RingedIs DEF Ringed, SizesFit
<1>3. EvalMod \in Nat \ {0} /\ Per \in Nat \ {0}
  BY DEF ValBufAssumption
<1>4. PICK next : next = (IF cur + 1 >= n THEN 1 ELSE cur + 2) /\ next \in Nat
  BY <1>2
<1>5. PICK g \in Int : g = IF ~(cur < n) THEN b.beg ELSE Cell(s[next].tm)
  <2>1. CASE cur < n
    <3>1. next \in 1..n
      BY <1>2, <1>4, <2>1
    <3>2. Cell(s[next].tm) \in Int
      BY <1>2, <3>1, CellIs
    <3>3. QED
      BY <2>1, <3>2
  <2>2. CASE ~(cur < n)
    BY <1>2, <2>2
  <2>3. QED
    BY <2>1, <2>2
<1>6. PICK r \in Int : r = (b.evalCnt + Counted(e.val)
                              - (IF cur < n THEN Counted(s[cur + 1].val) ELSE 0)) % EvalMod
  <2>1. PICK x \in Int, y \in Int : x = Counted(e.val) /\ y = IF cur < n THEN Counted(s[cur + 1].val) ELSE 0
    BY DEF Counted
  <2>2. PICK z \in Int : z = b.evalCnt + x - y
    BY <1>2
  <2>3. z % EvalMod \in Int
    BY <1>3, DivMod
  <2>4. QED
    BY <2>1, <2>2, <2>3
<1>7. PICK k \in Nat : k = IF size # 0 /\ cur + 1 >= size THEN 0 ELSE cur + 1
  BY <1>2
<1>8. PICK m \in Nat \ {0} : m = IF cur < n THEN n ELSE n + 1
  BY <1>2
<1>9. PICK q \in 1..m : q = cur + 1
  BY <1>2, <1>8
<1>10. PICK u : /\ u = (IF cur < n THEN [s EXCEPT ![cur + 1] = e] ELSE Append(s, e))
                /\ u \in Seq(Cells) /\ Len(u) = m /\ u[q] = e
                /\ \A i \in 1..n : i # q => u[i] = s[i]
  <2>1. CASE cur < n
    <3>1. q \in 1..n /\ m = n
      BY <1>2, <1>8, <1>9, <2>1
    <3>2. [s EXCEPT ![q] = e] \in Seq(Cells)
      BY <1>2, <3>1, ExceptSeq
    <3>3. Len([s EXCEPT ![q] = e]) = n
      BY <1>1, <1>2
    <3>4. [s EXCEPT ![q] = e][q] = e /\ \A i \in 1..n : i # q => [s EXCEPT ![q] = e][i] = s[i]
      BY <1>2, <3>1
    <3>5. QED
      BY <1>9, <2>1, <3>1, <3>2, <3>3, <3>4
  <2>2. CASE ~(cur < n)
    <3>1. q = n + 1 /\ m = n + 1
      BY <1>2, <1>8, <1>9, <2>2
    <3>2. /\ Append(s, e) \in Seq(Cells) /\ Len(Append(s, e)) = n + 1
          /\ Append(s, e)[n + 1] = e /\ \A i \in 1..n : Append(s, e)[i] = s[i]
      BY <1>1, <1>2, AppendProperties
    <3>3. QED
      BY <2>2, <3>1, <3>2
  <2>3. QED
    BY <2>1, <2>2
<1>11. PICK c : c = Write(b, e)
  OBVIOUS
<1>12. c = [buf |-> u, cur |-> k, beg |-> g, end |-> b.end, evalCnt |-> r]
  BY <1>1, <1>4, <1>5, <1>6, <1>7, <1>10, <1>11 DEF Write
<1>13. Ringed(c)
  <2>1. c \in Ring
    BY <1>2, <1>10, <1>12 DEF Ring
  <2>2. c.buf = u /\ c.cur = k /\ Len(c.buf) = m
    BY <1>10, <1>12
  <2>3. k <= m /\ (size # 0 => k < size /\ m <= size) /\ (size = 0 => k = m)
    BY <1>2, <1>7, <1>8
  <2>4. k < m => room # 0 /\ room <= m
    <3>1. CASE cur < n
      BY <1>2, <1>8, <3>1
    <3>2. CASE ~(cur < n)
      <4>1. cur = n /\ m = n + 1
        BY <1>2, <1>8, <3>2
      <4>2. k < m => size # 0 /\ m = size
        BY <1>2, <1>7, <4>1
      <4>3. QED
        BY <4>2 DEF SizesFit
    <3>3. QED
      BY <3>1, <3>2
  <2>5. QED
    BY <2>1, <2>2, <2>3, <2>4 DEF Ringed
<1>14. NewestPos(c) = q
  <2>1. c.cur = k /\ Len(c.buf) = m
    BY <1>10, <1>12
  <2>2. (k > 0 => k = q) /\ (~(k > 0) => m = q)
    BY <1>2, <1>7, <1>8, <1>9
  <2>3. QED
    BY <2>1, <2>2 DEF NewestPos
<1>15. \A j : At(c, j) = u[Behind(q, j, m)]
  BY <1>10, <1>12, <1>14 DEF At
<1>16. At(c, 0) = e
  <2>1. Behind(q, 0, m) = q
    <3>1. 0 \in 0..m-1 /\ 0 < q /\ q - 0 = q
      OBVIOUS
    <3>2. QED
      BY <3>1, BehindIs
  <2>2. QED
    BY <1>10, <1>15, <2>1
<1>17. ASSUME NEW j \in 1..m-1
       PROVE  j - 1 \in 0..n-1 /\ At(c, j) = At(b, j - 1)
  <2>1. n # 0
    BY <1>2, <1>8
  <2>2. PICK p : p = NewestPos(b) /\ p = (IF cur > 0 THEN cur ELSE n) /\ p \in 1..n
    BY <1>1, <1>2, <2>1, RingedIs DEF NewestPos
  <2>3. /\ j - 1 \in 0..n-1 /\ Behind(q, j, m) = Behind(p, j - 1, n)
        /\ Behind(q, j, m) # q /\ Behind(q, j, m) \in 1..n
    <3>1. n \in Nat \ {0} /\ cur \in Nat /\ p \in 1..n
      BY <1>2, <2>1, <2>2
    <3>2. FurtherBack(q, m, p, n, j)
      BY <1>8, <1>9, <2>2, <3>1, BehindNext
    <3>3. QED
      BY <3>2 DEF FurtherBack
  <2>4. u[Behind(q, j, m)] = s[Behind(p, j - 1, n)]
    BY <1>10, <2>3
  <2>5. At(b, j - 1) = s[Behind(p, j - 1, n)]
    BY <1>1, <2>2 DEF At
  <2>6. QED
    BY <1>15, <2>3, <2>4, <2>5
<1>18. ASSUME cur < n, m # 1 PROVE g = Cell(At(c, m - 1).tm)
  <2>1. m = n /\ m - 1 \in 0..m-1 /\ next \in 1..n /\ next # q
    BY <1>2, <1>4, <1>8, <1>9, <1>18
  <2>2. Behind(q, m - 1, m) = IF m - 1 < q THEN q - (m - 1) ELSE q - (m - 1) + m
    BY <2>1, BehindIs
  <2>3. Behind(q, m - 1, m) = next
    BY <1>2, <1>4, <1>9, <1>18, <2>1, <2>2
  <2>4. At(c, m - 1) = s[next]
    BY <1>10, <1>15, <2>1, <2>3
  <2>5. QED
    BY <1>5, <1>18, <2>4
<1>19. Len(c.buf) = m /\ c.beg = g /\ c.end = b.end
  BY <1>10, <1>12
<1>20. IF cur < n THEN Len(c.buf) # 1 => c.beg = Cell(At(c, Len(c.buf)-1).tm) ELSE c.beg = b.beg
  BY <1>5, <1>18, <1>19
<1>21. QED
  BY <1>1, <1>8, <1>11, <1>13, <1>16, <1>17, <1>19, <1>20 DEF Written

-----------------------------------------------------------------------------
(* The changes of the soft grid                                            *)

LEMMA CellsApart ==
  ASSUME ValBufAssumption, NEW x \in Int, NEW y \in Int, Cell(x) = x, Cell(y) = y, x < y
  PROVE  x + Per <= y
<1>1. Per \in Nat \ {0}
  BY DEF ValBufAssumption
<1>2. PICK k \in Int, l \in Int : k = x \div Per /\ l = y \div Per
  BY <1>1, DivMod
<1>3. x = Per * k /\ y = Per * l
  BY <1>2 DEF Cell
<1>4. k < l
  <2>1. SUFFICES ASSUME l <= k PROVE FALSE
    BY <1>2
  <2>2. Per * l <= Per * k
    BY <1>1, <2>1
  <2>3. QED
    BY <1>3, <2>2
<1>5. Per * (k + 1) <= Per * l /\ Per * (k + 1) = Per * k + Per
  BY <1>1, <1>4
<1>6. QED
  BY <1>1, <1>3, <1>5

LEMMA CellAfter ==
  ASSUME ValBufAssumption, NEW x \in Int, Cell(x) = x
  PROVE  x + Per \in Int /\ Cell(x + Per) = x + Per
<1>1. Per \in Nat \ {0} /\ 0 \in 0..Per-1 /\ 1 \in Int
  BY DEF ValBufAssumption
<1>2. Cell(x + Per * 1 + 0) = x + Per * 1
  BY <1>1, CellPlus
<1>3. x + Per * 1 + 0 = x + Per /\ x + Per * 1 = x + Per
  BY <1>1
<1>4. QED
  BY <1>1, <1>2, <1>3

LEMMA PerSplit ==
  ASSUME ValBufAssumption, NEW x \in Int
  PROVE  \E q \in Int, r \in 0..Per-1 : q = x \div Per /\ x = Per * q + r
<1>1. Per \in Nat \ {0}
  BY DEF ValBufAssumption
<1>2. QED
  BY <1>1, DivMod

Falls(b) == \A i, j \in 0..Len(b.buf)-1 : i < j => At(b, j).tm < At(b, i).tm
OnCells(b) == \A j \in 0..Len(b.buf)-1 : Cell(At(b, j).tm) = At(b, j).tm /\ At(b, j).tm <= b.end

\* The entries of b are of falling cells, back from its end to its begin.
SoftFits(b) ==
  /\ Ringed(b) /\ Cell(b.end) = b.end
  /\ Falls(b) /\ OnCells(b)
  /\ b.beg = IF Len(b.buf) = 0 THEN b.end + Per ELSE At(b, Len(b.buf)-1).tm

\* The cell x has the value of the j-th entry back.
Spans(b, j, x) ==
  Cell(x) = x /\ At(b, j).tm <= x /\ x <= b.end /\ (j > 0 => x < At(b, j - 1).tm)

Follows(b, g) ==
  \A j \in 0..Len(b.buf)-1 : \A x \in Int : Spans(b, j, x) => g[x] = At(b, j).val

\* From the begin of b the cells before t are told as they were.
SameTill(h, g, b, t) == \A x \in Int : Cell(x) = x /\ b.beg <= x /\ x < t => h[x] = g[x]

\* d has e as its newest entry and end; what it lost was lost to a full ring.
Changed(d, b, e) ==
  /\ SoftFits(d) /\ Len(d.buf) # 0 /\ At(d, 0) = e /\ d.end = e.tm
  /\ b.beg <= d.beg /\ (d.beg = b.beg \/ (room # 0 /\ room <= Len(d.buf)))
  /\ Len(b.buf) <= Len(d.buf)
  /\ \A g, h : Follows(b, g) /\ h[e.tm] = e.val /\ SameTill(h, g, b, e.tm) => Follows(d, h)

LEMMA SoftWrites ==
  ASSUME ValBufAssumption, SizesFit, room # 1, grid = "soft", NEW b, SoftFits(b),
         NEW e \in Cells, Cell(e.tm) = e.tm, b.end <= e.tm, e.tm <= b.end + Per,
         Len(b.buf) # 0 => At(b, 0).tm < e.tm,
         Len(b.buf) = 0 => e.tm = b.end + Per
  PROVE  Changed([Write(b, e) EXCEPT !.end = e.tm], b, e)
<1>1. PICK c : c = Write(b, e) /\ Written(c, b, e)
  BY WriteIs DEF SoftFits
<1>2. PICK d : d = [c EXCEPT !.end = e.tm]
  OBVIOUS
<1>3. PICK n \in Nat : n = Len(b.buf)
  BY RingedIs DEF SoftFits
<1>4. PICK m \in Nat \ {0} : m = Len(c.buf) /\ m = IF b.cur < n THEN n ELSE n + 1
  BY <1>1, <1>3, RingedIs DEF Written
<1>5. PICK t \in Int : t = e.tm
  BY DEF Cells
<1>6. PICK f \in Int : f = b.end /\ f <= t /\ t <= f + Per /\ Per \in Nat \ {0}
  BY <1>5, RingedIs DEF SoftFits, ValBufAssumption
<1>7. /\ \A i \in 0..n-1 : At(b, i).tm \in Int /\ Cell(At(b, i).tm) = At(b, i).tm
      /\ \A i, j \in 0..n-1 : i < j => At(b, j).tm < At(b, i).tm
      /\ b.beg \in Int /\ b.beg = IF n = 0 THEN f + Per ELSE At(b, n - 1).tm
  BY <1>3, <1>6, RingedIs DEF SoftFits, Falls, OnCells
<1>8. \A i \in 0..n-1 : At(b, i).tm < t
  <2>1. ASSUME NEW i \in 0..n-1 PROVE At(b, i).tm < t
    <3>1. n # 0 /\ 0 \in 0..n-1 /\ (i = 0 \/ 0 < i)
      BY <2>1
    <3>2. At(b, 0).tm < t
      BY <1>3, <1>5, <3>1
    <3>3. QED
      BY <1>7, <3>1, <3>2
  <2>2. QED
    BY <2>1
<1>9. /\ Ringed(c) /\ c \in Ring /\ At(c, 0) = e
      /\ \A j \in 1..m-1 : j - 1 \in 0..n-1 /\ At(c, j) = At(b, j - 1)
      /\ IF b.cur < n THEN m # 1 => c.beg = Cell(At(c, m - 1).tm) ELSE c.beg = b.beg
  BY <1>1, <1>3, <1>4 DEF Written, Ringed
<1>10. d.buf = c.buf /\ d.cur = c.cur /\ d.beg = c.beg /\ d.end = t /\ d \in Ring
  BY <1>2, <1>5, <1>9 DEF Ring
<1>11. Ringed(d) /\ \A j : At(d, j) = At(c, j)
  BY <1>9, <1>10 DEF Ringed, At, NewestPos
<1>12. /\ At(d, 0) = e /\ At(d, 0).tm = t /\ Len(d.buf) = m
       /\ \A j \in 1..m-1 : j - 1 \in 0..n-1 /\ At(d, j) = At(b, j - 1)
  BY <1>4, <1>5, <1>9, <1>10, <1>11
<1>13. Falls(d)
  <2>1. ASSUME NEW i \in 0..m-1, NEW j \in 0..m-1, i < j PROVE At(d, j).tm < At(d, i).tm
    <3>1. j \in 1..m-1 /\ j - 1 \in 0..n-1
      <4>1. j \in 1..m-1
        BY <2>1
      <4>2. QED
        BY <1>12, <4>1
    <3>2. CASE i = 0
      BY <1>8, <1>12, <3>1, <3>2
    <3>3. CASE i # 0
      <4>1. i \in 1..m-1 /\ i - 1 \in 0..n-1 /\ i - 1 < j - 1
        <5>1. i \in 1..m-1 /\ i - 1 < j - 1
          BY <2>1, <3>3
        <5>2. QED
          BY <1>12, <5>1
      <4>2. At(b, j - 1).tm < At(b, i - 1).tm
        BY <1>7, <3>1, <4>1
      <4>3. QED
        BY <1>12, <3>1, <4>1, <4>2
    <3>4. QED
      BY <3>2, <3>3
  <2>2. QED
    BY <1>12, <2>1 DEF Falls
<1>14. OnCells(d)
  <2>1. ASSUME NEW j \in 0..m-1 PROVE Cell(At(d, j).tm) = At(d, j).tm /\ At(d, j).tm <= d.end
    <3>1. CASE j = 0
      BY <1>5, <1>10, <1>12, <3>1
    <3>2. CASE j # 0
      <4>1. j \in 1..m-1 /\ j - 1 \in 0..n-1
        <5>1. j \in 1..m-1
          BY <3>2
        <5>2. QED
          BY <1>12, <5>1
      <4>2. At(b, j - 1).tm < t /\ At(b, j - 1).tm \in Int /\ Cell(At(b, j - 1).tm) = At(b, j - 1).tm
        BY <1>7, <1>8, <4>1
      <4>3. QED
        BY <1>10, <1>12, <4>1, <4>2
    <3>3. QED
      BY <3>1, <3>2
  <2>2. QED
    BY <1>12, <2>1 DEF OnCells
<1>15. /\ d.beg = At(d, m - 1).tm /\ b.beg <= d.beg
       /\ d.beg = b.beg \/ (room # 0 /\ room <= m)
  <2>1. CASE b.cur < n
    <3>1. room # 0 /\ room <= n /\ n = m
      BY <1>3, <1>4, <2>1 DEF SoftFits, Ringed
    <3>2. m # 1 /\ m # 0 /\ m - 1 \in 1..m-1
      BY <3>1 DEF SizesFit
    <3>3. d.beg = Cell(At(d, m - 1).tm) /\ At(d, m - 1) = At(b, m - 1 - 1) /\ m - 1 - 1 \in 0..n-1
      BY <1>9, <1>10, <1>11, <1>12, <2>1, <3>2
    <3>4. d.beg = At(b, m - 1 - 1).tm
      BY <1>7, <3>3
    <3>5. m - 1 - 1 < n - 1 /\ n - 1 \in 0..n-1 /\ n # 0
      BY <3>1, <3>2
    <3>6. b.beg < d.beg
      BY <1>7, <3>3, <3>4, <3>5
    <3>7. d.beg \in Int
      BY <1>7, <3>3, <3>4
    <3>8. QED
      BY <1>7, <3>1, <3>3, <3>4, <3>6, <3>7
  <2>2. CASE ~(b.cur < n) /\ n = 0
    BY <1>4, <1>6, <1>3, <1>5, <1>7, <1>9, <1>10, <1>12, <2>2
  <2>3. CASE ~(b.cur < n) /\ n # 0
    <3>1. m - 1 = n /\ m - 1 \in 1..m-1
      BY <1>4, <2>3
    <3>2. At(d, m - 1) = At(b, n - 1)
      BY <1>12, <3>1
    <3>3. d.beg = b.beg
      BY <1>9, <1>10, <2>3
    <3>4. QED
      BY <1>7, <2>3, <3>2, <3>3
  <2>4. QED
    BY <2>1, <2>2, <2>3
<1>16. SoftFits(d)
  BY <1>5, <1>10, <1>11, <1>12, <1>13, <1>14, <1>15 DEF SoftFits
<1>17. ASSUME NEW g, NEW h, Follows(b, g), h[e.tm] = e.val, SameTill(h, g, b, e.tm)
       PROVE  Follows(d, h)
  <2>1. ASSUME NEW j \in 0..m-1, NEW x \in Int, Spans(d, j, x) PROVE h[x] = At(d, j).val
    <3>1. Cell(x) = x /\ At(d, j).tm <= x /\ x <= t /\ (j > 0 => x < At(d, j - 1).tm)
      BY <1>10, <2>1 DEF Spans
    <3>2. CASE j = 0
      BY <1>5, <1>12, <1>17, <3>1, <3>2
    <3>3. CASE j # 0
      <4>1. j \in 1..m-1 /\ j - 1 \in 0..n-1 /\ At(d, j) = At(b, j - 1) /\ x < At(d, j - 1).tm
        BY <1>12, <3>1, <3>3
      <4>2. x < t /\ (j - 1 > 0 => x < At(b, j - 1 - 1).tm)
        <5>1. CASE j = 1
          BY <1>12, <4>1, <5>1
        <5>2. CASE j # 1
          <6>1. j - 1 \in 1..m-1 /\ j - 1 - 1 \in 0..n-1 /\ At(d, j - 1) = At(b, j - 1 - 1)
            BY <1>12, <4>1, <5>2
          <6>2. At(b, j - 1 - 1).tm < t /\ At(b, j - 1 - 1).tm \in Int
            BY <1>7, <1>8, <6>1
          <6>3. QED
            BY <4>1, <6>1, <6>2
        <5>3. QED
          BY <5>1, <5>2
      <4>3. x <= f
        <5>1. x + Per <= t
          BY <1>5, <3>1, <4>2, CellsApart
        <5>2. QED
          BY <1>6, <5>1
      <4>4. Spans(b, j - 1, x)
        BY <1>6, <3>1, <4>1, <4>2, <4>3 DEF Spans
      <4>5. b.beg <= x
        <5>1. n # 0 /\ n - 1 \in 0..n-1 /\ (j - 1 = n - 1 \/ j - 1 < n - 1)
          BY <4>1
        <5>2. At(b, n - 1).tm <= At(b, j - 1).tm /\ At(b, n - 1).tm \in Int /\ At(b, j - 1).tm \in Int
          BY <1>7, <4>1, <5>1
        <5>3. QED
          BY <1>7, <3>1, <4>1, <5>1, <5>2
      <4>6. h[x] = g[x]
        BY <1>5, <1>17, <3>1, <4>2, <4>5 DEF SameTill
      <4>7. g[x] = At(b, j - 1).val
        BY <1>3, <1>17, <4>1, <4>4 DEF Follows
      <4>8. QED
        BY <4>1, <4>6, <4>7
    <3>4. QED
      BY <3>2, <3>3
  <2>2. QED
    BY <1>12, <2>1 DEF Follows
<1>18. n <= m
  BY <1>4
<1>19. Changed(d, b, e)
  BY <1>3, <1>5, <1>10, <1>12, <1>15, <1>16, <1>17, <1>18 DEF Changed
<1>20. QED
  BY <1>1, <1>2, <1>19

\* d ends at the time of e with its value, written where it is a change.
Grown(d, b, e) ==
  /\ SoftFits(d) /\ Len(d.buf) # 0 /\ At(d, 0).val = e.val /\ d.end = e.tm
  /\ b.beg <= d.beg /\ (d.beg = b.beg \/ (room # 0 /\ room <= Len(d.buf)))
  /\ Len(b.buf) <= Len(d.buf)
  /\ \A g, h : Follows(b, g) /\ h[e.tm] = e.val /\ SameTill(h, g, b, e.tm) => Follows(d, h)

LEMMA NewestIs ==
  ASSUME NEW b, Ringed(b), Len(b.buf) # 0
  PROVE  b.buf # <<>> /\ At(b, 0) = b.buf[NewestPos(b)] /\ 0 \in 0..Len(b.buf)-1
<1>1. PICK n \in Nat \ {0} : n = Len(b.buf)
  BY RingedIs
<1>2. PICK p : p = NewestPos(b) /\ p \in 1..n
  BY <1>1, RingedIs
<1>3. 0 \in 0..n-1 /\ 0 < p /\ p - 0 = p
  BY <1>1, <1>2
<1>4. Behind(p, 0, n) = p
  BY <1>2, <1>3, BehindIs
<1>5. b.buf # <<>>
  BY <1>1
<1>6. QED
  BY <1>1, <1>2, <1>3, <1>4, <1>5 DEF At

\* Only the end goes on.
LEMMA EndGoesOn ==
  ASSUME ValBufAssumption, NEW b, SoftFits(b), Len(b.buf) # 0, NEW e \in Cells, e.tm = b.end + Per,
         At(b, 0).val = e.val
  PROVE  Grown([b EXCEPT !.end = @ + Per], b, e)
<1>1. PICK d : d = [b EXCEPT !.end = @ + Per]
  OBVIOUS
<1>2. PICK t \in Int : t = b.end + Per /\ t = e.tm /\ Per \in Nat \ {0}
  BY RingedIs DEF SoftFits, ValBufAssumption
<1>3. PICK n \in Nat \ {0} : n = Len(b.buf) /\ b.end \in Int /\ b.beg \in Int /\ b \in Ring
  BY RingedIs DEF SoftFits, Ringed
<1>4. d.buf = b.buf /\ d.cur = b.cur /\ d.beg = b.beg /\ d.end = t /\ d \in Ring
  BY <1>1, <1>2, <1>3 DEF Ring
<1>5. Ringed(d) /\ (\A j : At(d, j) = At(b, j)) /\ Len(d.buf) = n
  BY <1>3, <1>4 DEF Ringed, At, NewestPos, SoftFits
<1>6. Cell(t) = t
  <2>1. 0 \in 0..Per-1 /\ 1 \in Int /\ Cell(b.end) = b.end
    BY <1>2 DEF SoftFits
  <2>2. Cell(b.end + Per * 1 + 0) = b.end + Per * 1
    BY <1>3, <2>1, CellPlus
  <2>3. b.end + Per * 1 + 0 = t /\ b.end + Per * 1 = t
    BY <1>2, <1>3
  <2>4. QED
    BY <2>2, <2>3
<1>7. \A j \in 0..n-1 : At(b, j).tm \in Int /\ At(b, j).tm <= b.end
  BY <1>3, RingedIs DEF SoftFits, OnCells
<1>8. \A j \in 0..n-1 : At(b, j).tm <= t
  BY <1>2, <1>3, <1>7
<1>9. SoftFits(d)
  BY <1>3, <1>4, <1>5, <1>6, <1>8 DEF SoftFits, Falls, OnCells
<1>10. ASSUME NEW g, NEW h, Follows(b, g), h[e.tm] = e.val, SameTill(h, g, b, e.tm)
       PROVE  Follows(d, h)
  <2>1. ASSUME NEW j \in 0..n-1, NEW x \in Int, Spans(d, j, x) PROVE h[x] = At(d, j).val
    <3>1. Cell(x) = x /\ At(b, j).tm <= x /\ x <= t /\ (j > 0 => x < At(b, j - 1).tm)
      BY <1>4, <1>5, <2>1 DEF Spans
    <3>2. CASE x = t
      <4>1. ~(j > 0)
        <5>1. SUFFICES ASSUME j > 0 PROVE FALSE
          OBVIOUS
        <5>2. j - 1 \in 0..n-1
          BY <5>1
        <5>3. At(b, j - 1).tm <= t /\ At(b, j - 1).tm \in Int
          BY <1>7, <1>8, <5>2
        <5>4. QED
          BY <3>1, <3>2, <5>1, <5>3
      <4>2. QED
        BY <1>2, <1>5, <1>10, <3>2, <4>1
    <3>3. CASE x # t
      <4>1. x < t
        BY <3>1, <3>3
      <4>2. x + Per <= t
        BY <1>6, <3>1, <4>1, CellsApart
      <4>3. x <= b.end
        BY <1>2, <1>3, <4>2
      <4>4. Spans(b, j, x)
        BY <3>1, <4>3 DEF Spans
      <4>5. g[x] = At(b, j).val
        BY <1>3, <1>10, <4>4 DEF Follows
      <4>6. b.beg <= x
        <5>1. n - 1 \in 0..n-1 /\ (j = n - 1 \/ j < n - 1) /\ b.beg = At(b, n - 1).tm
          BY <1>3 DEF SoftFits
        <5>2. At(b, n - 1).tm <= At(b, j).tm /\ At(b, j).tm \in Int
          <6>1. At(b, n - 1).tm \in Int /\ At(b, j).tm \in Int
            BY <1>7, <5>1
          <6>2. j < n - 1 => At(b, n - 1).tm < At(b, j).tm
            BY <1>3, <5>1 DEF SoftFits, Falls
          <6>3. QED
            BY <5>1, <6>1, <6>2
        <5>3. QED
          BY <1>3, <3>1, <5>1, <5>2
      <4>7. QED
        BY <1>2, <1>5, <1>10, <3>1, <4>1, <4>5, <4>6 DEF SameTill
    <3>4. QED
      BY <3>2, <3>3
  <2>2. QED
    BY <1>5, <2>1 DEF Follows
<1>11. Grown(d, b, e)
  BY <1>2, <1>3, <1>4, <1>5, <1>9, <1>10 DEF Grown
<1>12. QED
  BY <1>1, <1>11

LEMMA SoftNextIs ==
  ASSUME ValBufAssumption, SizesFit, room # 1, grid = "soft", NEW b, SoftFits(b),
         NEW e \in Cells, e.tm = b.end + Per
  PROVE  Grown(SoftNext(b, e), b, e)
<1>1. Ringed(b) /\ b.end \in Int /\ Per \in Nat \ {0} /\ Len(b.buf) \in Nat
  BY RingedIs DEF SoftFits, ValBufAssumption
<1>2. CASE b.buf # <<>> /\ b.buf[NewestPos(b)].val = e.val
  <2>1. Len(b.buf) # 0
    BY <1>1, <1>2, RingedIs
  <2>2. At(b, 0).val = e.val
    BY <1>1, <1>2, <2>1, NewestIs
  <2>3. SoftNext(b, e) = [b EXCEPT !.end = @ + Per]
    BY <1>2 DEF SoftNext
  <2>4. QED
    BY <2>1, <2>2, <2>3, EndGoesOn
<1>3. CASE ~(b.buf # <<>> /\ b.buf[NewestPos(b)].val = e.val)
  <2>1. Cell(e.tm) = e.tm
    <3>1. 0 \in 0..Per-1 /\ 1 \in Int /\ Cell(b.end) = b.end
      BY <1>1 DEF SoftFits
    <3>2. Cell(b.end + Per * 1 + 0) = b.end + Per * 1
      BY <1>1, <3>1, CellPlus
    <3>3. b.end + Per * 1 + 0 = e.tm /\ b.end + Per * 1 = e.tm
      BY <1>1
    <3>4. QED
      BY <3>2, <3>3
  <2>2. b.end <= e.tm /\ e.tm <= b.end + Per /\ e.tm \in Int /\ b.end < e.tm
    BY <1>1
  <2>3. Len(b.buf) # 0 => At(b, 0).tm < e.tm
    <3>1. SUFFICES ASSUME Len(b.buf) # 0 PROVE At(b, 0).tm < e.tm
      OBVIOUS
    <3>2. 0 \in 0..Len(b.buf)-1
      BY <1>1, <3>1
    <3>3. At(b, 0).tm <= b.end /\ At(b, 0).tm \in Int
      BY <1>1, <3>2, RingedIs DEF SoftFits, OnCells
    <3>4. QED
      BY <1>1, <2>2, <3>3
  <2>4. PICK c : c = Write(b, e) /\ c.end = b.end
    BY <1>1, WriteIs DEF Written
  <2>5. PICK d : d = [c EXCEPT !.end = e.tm] /\ Changed(d, b, e)
    BY <2>1, <2>2, <2>3, <2>4, SoftWrites
  <2>6. SoftNext(b, e) = [c EXCEPT !.end = @ + Per]
    BY <1>3, <2>4 DEF SoftNext
  <2>7. SoftNext(b, e) = d
    BY <2>4, <2>5, <2>6
  <2>8. QED
    BY <2>5, <2>7 DEF Changed, Grown
<1>4. QED
  BY <1>2, <1>3

LEMMA SoftFillIs ==
  ASSUME ValBufAssumption, NEW b, Ringed(b)
  PROVE  Fill(b) \in Vals
<1>1. CASE fillLast /\ b.buf # <<>>
  <2>1. Len(b.buf) # 0
    BY <1>1, RingedIs
  <2>2. QED
    BY <1>1, <2>1, RingedIs DEF Fill
<1>2. CASE ~(fillLast /\ b.buf # <<>>)
  BY <1>2 DEF Fill, ValBufAssumption
<1>3. QED
  BY <1>1, <1>2

LEMMA SoftNextRinged ==
  ASSUME ValBufAssumption, SizesFit, grid # "hard", NEW b, Ringed(b), NEW e \in Cells
  PROVE  /\ Ringed(SoftNext(b, e)) /\ SoftNext(b, e).end = b.end + Per
         /\ Len(SoftNext(b, e).buf) # 0
<1>1. PICK x : /\ x = (IF b.buf # <<>> /\ b.buf[NewestPos(b)].val = e.val THEN b ELSE Write(b, e))
               /\ Ringed(x) /\ x.end = b.end /\ Len(x.buf) # 0
  <2>1. CASE b.buf # <<>> /\ b.buf[NewestPos(b)].val = e.val
    <3>1. Len(b.buf) # 0
      BY <2>1, RingedIs
    <3>2. QED
      BY <2>1, <3>1
  <2>2. CASE ~(b.buf # <<>> /\ b.buf[NewestPos(b)].val = e.val)
    <3>1. Written(Write(b, e), b, e)
      BY WriteIs
    <3>2. QED
      BY <2>2, <3>1 DEF Written
  <2>3. QED
    BY <2>1, <2>2
<1>2. PICK d : d = [x EXCEPT !.end = x.end + Per]
  OBVIOUS
<1>3. SoftNext(b, e) = d
  BY <1>1, <1>2 DEF SoftNext
<1>4. x \in Ring /\ x.end \in Int /\ Per \in Nat \ {0}
  BY <1>1, RingedIs DEF Ringed, ValBufAssumption
<1>5. d.buf = x.buf /\ d.cur = x.cur /\ d.end = x.end + Per /\ d \in Ring
  BY <1>2, <1>4 DEF Ring
<1>6. QED
  BY <1>1, <1>3, <1>5 DEF Ringed

\* What the i-th of n cells is written with, after x.
SoftEntry(b, n, value, tm, i, x) ==
  IF i < n THEN [tm |-> Stored(x.end + Per), val |-> Fill(b)] ELSE [tm |-> Stored(tm), val |-> value]

\* The cells of one set() are steps, each from the one before.
SoftSteps(c, b, n, value, tm) ==
  /\ c[0] = b
  /\ \A i \in 0..n : Ringed(c[i])
  /\ \A i \in 1..n : /\ SoftEntry(b, n, value, tm, i, c[i-1]) \in Cells
                     /\ c[i] = SoftNext(c[i-1], SoftEntry(b, n, value, tm, i, c[i-1]))
  /\ SoftCells(b, n, value, tm) = c[n]

LEMMA SoftCellsGoOn ==
  ASSUME ValBufAssumption, SizesFit, grid # "hard", NEW b, Ringed(b),
         NEW n \in Nat, NEW value \in Vals, NEW tm \in Int
  PROVE  \E c : SoftSteps(c, b, n, value, tm)
<1> DEFINE T == {x \in Ring : Ringed(x)}
           V(i, x) == SoftEntry(b, n, value, tm, i, x)
           F == [i \in 1..n |-> [x \in T |-> SoftNext(x, V(i, x))]]
<1>1. \A i \in 1..n : \A x \in T : V(i, x) \in Cells
  <2>1. ASSUME NEW i \in 1..n, NEW x \in T PROVE V(i, x) \in Cells
    <3>1. x.end + Per \in Int
      BY RingedIs DEF ValBufAssumption
    <3>2. Stored(x.end + Per) \in Int /\ Stored(tm) \in Int
      BY <3>1, StoredIs
    <3>3. Fill(b) \in Vals
      BY SoftFillIs
    <3>4. QED
      BY <3>2, <3>3 DEF Cells, SoftEntry
  <2>2. QED
    BY <2>1
<1>2. b \in T
  BY DEF Ringed
<1> HIDE DEF V
<1>3. F \in [1..n -> [T -> T]]
  <2>1. ASSUME NEW i \in 1..n, NEW x \in T PROVE SoftNext(x, V(i, x)) \in T
    <3>1. PICK e \in Cells : e = V(i, x)
      BY <1>1
    <3>2. Ringed(SoftNext(x, e))
      BY SoftNextRinged
    <3>3. QED
      BY <3>1, <3>2 DEF Ringed
  <2>2. QED
    BY <2>1
<1>4. ASSUME NEW x \in T, NEW i \in 1..n PROVE F[i][x] = SoftNext(x, V(i, x))
  OBVIOUS
<1>5. \A x \in T : Ringed(x)
  OBVIOUS
<1> HIDE DEF T, F
<1>6. PICK f \in [0..n -> T] : f[0] = b /\ \A i \in 1..n : f[i] = F[i][f[i-1]]
  <2>1. StepsOn(T, b, n, F)
    BY <1>2, <1>3, Steps
  <2>2. QED
    BY <2>1 DEF StepsOn
<1>7. f = [i \in 0..n |-> IF i = 0 THEN b ELSE SoftNext(f[i-1], V(i, f[i-1]))]
  <2>1. ASSUME NEW i \in 0..n PROVE f[i] = IF i = 0 THEN b ELSE SoftNext(f[i-1], V(i, f[i-1]))
    <3>1. CASE i = 0
      BY <1>6, <3>1
    <3>2. CASE i # 0
      <4>1. i \in 1..n /\ i - 1 \in 0..n
        BY <3>2
      <4>2. f[i-1] \in T
        BY <1>6, <4>1
      <4>3. QED
        BY <1>4, <1>6, <3>2, <4>1, <4>2
    <3>3. QED
      BY <3>1, <3>2
  <2>2. QED
    BY <1>6, <2>1
<1> DEFINE c[i \in 0..n] == IF i = 0 THEN b ELSE SoftNext(c[i-1], V(i, c[i-1]))
<1>8. c = [i \in 0..n |-> IF i = 0 THEN b ELSE SoftNext(c[i-1], V(i, c[i-1]))]
  <2>1. SUFFICES \E ff : ff = [i \in 0..n |-> IF i = 0 THEN b ELSE SoftNext(ff[i-1], V(i, ff[i-1]))]
    OBVIOUS
  <2>2. QED
    BY <1>7
<1>9. SoftCells(b, n, value, tm) = c[n]
  BY DEF SoftCells, SoftEntry, V
<1> HIDE DEF c
<1>10. ASSUME NEW i \in 0..n PROVE c[i] = IF i = 0 THEN b ELSE SoftNext(c[i-1], V(i, c[i-1]))
  BY <1>8
<1>11. c[0] = b /\ \A i \in 1..n : c[i] = SoftNext(c[i-1], V(i, c[i-1]))
  BY <1>10
<1> DEFINE S == {k \in Nat : k <= n => c[k] \in T}
<1>12. 0 \in S
  BY <1>2, <1>11
<1>13. ASSUME NEW k \in Nat, k \in S PROVE k + 1 \in S
  <2>1. SUFFICES ASSUME k + 1 <= n PROVE c[k + 1] \in T
    OBVIOUS
  <2>2. PICK x \in T : x = c[k]
    BY <1>13, <2>1
  <2>3. k + 1 \in 1..n /\ (k + 1) - 1 = k
    BY <2>1
  <2>4. c[k + 1] = F[k + 1][x]
    BY <1>4, <1>11, <2>2, <2>3
  <2>5. QED
    BY <1>3, <2>3, <2>4
<1> HIDE DEF S
<1>14. Nat \subseteq S
  BY <1>12, <1>13, Counting
<1>15. \A i \in 0..n : c[i] \in T
  BY <1>14 DEF S
<1>16. \A i \in 1..n : V(i, c[i-1]) \in Cells
  <2>1. ASSUME NEW i \in 1..n PROVE V(i, c[i-1]) \in Cells
    <3>1. i - 1 \in 0..n
      OBVIOUS
    <3>2. QED
      BY <1>1, <1>15, <3>1
  <2>2. QED
    BY <2>1
<1>17. PICK d : d = c
  OBVIOUS
<1>18. SoftSteps(d, b, n, value, tm)
  BY <1>5, <1>9, <1>11, <1>15, <1>16, <1>17 DEF SoftSteps, V
<1>19. QED
  BY <1>18

LEMMA BeginIsLeast ==
  ASSUME NEW b, SoftFits(b), NEW j \in 0..Len(b.buf)-1
  PROVE  b.beg <= At(b, j).tm /\ At(b, j).tm <= b.end /\ b.beg <= b.end
         /\ b.beg \in Int /\ b.end \in Int /\ At(b, j).tm \in Int
<1>1. PICK n \in Nat : n = Len(b.buf)
  BY RingedIs DEF SoftFits
<1>2. n - 1 \in 0..n-1 /\ (j = n - 1 \/ j < n - 1) /\ n # 0
  BY <1>1
<1>3. At(b, n - 1).tm \in Int /\ At(b, j).tm \in Int /\ b.beg \in Int /\ b.end \in Int
  BY <1>1, <1>2, RingedIs DEF SoftFits
<1>4. b.beg = At(b, n - 1).tm /\ At(b, j).tm <= b.end
  BY <1>1, <1>2 DEF SoftFits, OnCells
<1>5. j < n - 1 => At(b, n - 1).tm < At(b, j).tm
  BY <1>1, <1>2 DEF SoftFits, Falls
<1>6. QED
  BY <1>2, <1>3, <1>4, <1>5

\* Cells are kept as they are.
KeepsCells == \A x \in Int : Cell(x) = x => Stored(x) = x

\* d goes on from b to the cell t, as h tells.
GoneOn(d, b, h, t) ==
  /\ SoftFits(d) /\ Follows(d, h) /\ d.end = t /\ Len(d.buf) # 0
  /\ b.beg <= d.beg /\ (d.beg = b.beg \/ (room # 0 /\ room <= Len(d.buf)))
  /\ Len(b.buf) <= Len(d.buf)

LEMMA FollowsSame ==
  ASSUME NEW b, SoftFits(b), NEW g, NEW h, Follows(b, g),
         \A x \in Int : Cell(x) = x /\ b.beg <= x /\ x <= b.end => h[x] = g[x]
  PROVE  Follows(b, h)
<1>1. ASSUME NEW j \in 0..Len(b.buf)-1, NEW x \in Int, Spans(b, j, x) PROVE h[x] = At(b, j).val
  <2>1. Cell(x) = x /\ At(b, j).tm <= x /\ x <= b.end
    BY <1>1 DEF Spans
  <2>2. b.beg <= x
    BY <2>1, BeginIsLeast
  <2>3. g[x] = At(b, j).val
    BY <1>1 DEF Follows
  <2>4. QED
    BY <2>1, <2>2, <2>3
<1>2. QED
  BY <1>1 DEF Follows

LEMMA SoftCellsAre ==
  ASSUME ValBufAssumption, SizesFit, room # 1, grid = "soft", KeepsCells, NEW b, SoftFits(b),
         NEW n \in Nat \ {0}, NEW value \in Vals, NEW tm \in Int, Stored(tm) = b.end + Per * n,
         NEW h, Follows(b, h), \A i \in 1..n : h[b.end + Per * i] = CellVal(b, n, value, i)
  PROVE  GoneOn(SoftCells(b, n, value, tm), b, h, b.end + Per * n)
<1>1. PICK c : SoftSteps(c, b, n, value, tm)
  <2>1. PICK m \in Nat : m = n
    OBVIOUS
  <2>2. \E c : SoftSteps(c, b, m, value, tm)
    BY SoftCellsGoOn DEF SoftFits
  <2>3. QED
    BY <2>1, <2>2
<1>2. Per \in Nat \ {0} /\ room \in Nat
  BY DEF ValBufAssumption, SizesFit
<1>3. b.end \in Int /\ b.beg \in Int /\ Len(b.buf) \in Nat /\ Cell(b.end) = b.end
  BY RingedIs DEF SoftFits
<1> DEFINE P(k) == /\ SoftFits(c[k]) /\ Follows(c[k], h) /\ c[k].end = b.end + Per * k
                   /\ k # 0 => Len(c[k].buf) # 0
                   /\ Len(b.buf) <= Len(c[k].buf) /\ b.beg <= c[k].beg
                   /\ c[k].beg = b.beg \/ (room # 0 /\ room <= Len(c[k].buf))
           S == {k \in Nat : k <= n => P(k)}
<1>4. 0 \in S
  <2>1. b.end = b.end + Per * 0 /\ b.beg <= b.beg /\ Len(b.buf) <= Len(b.buf)
    BY <1>2, <1>3
  <2>2. c[0] = b
    BY <1>1 DEF SoftSteps
  <2>3. QED
    BY <2>1, <2>2
<1>5. ASSUME NEW k \in Nat, k \in S PROVE k + 1 \in S
  <2>1. SUFFICES ASSUME k + 1 <= n PROVE P(k + 1)
    OBVIOUS
  <2>2. P(k)
    BY <1>5, <2>1
  <2>3. PICK x : x = c[k]
    OBVIOUS
  <2>4. k + 1 \in 1..n /\ (k + 1) - 1 = k /\ (k + 1 < n \/ k + 1 = n)
    BY <2>1
  <2>5. PICK e \in Cells : e = SoftEntry(b, n, value, tm, k + 1, x) /\ c[k + 1] = SoftNext(x, e)
    BY <1>1, <2>3, <2>4 DEF SoftSteps
  <2>6. /\ SoftFits(x) /\ Follows(x, h) /\ x.end = b.end + Per * k /\ x.end \in Int /\ x.beg \in Int
        /\ Len(x.buf) \in Nat
    BY <2>2, <2>3, RingedIs DEF SoftFits
  <2>7. b.end + Per * (k + 1) = x.end + Per
    <3>1. Per * (k + 1) = Per * k + Per
      BY <1>2
    <3>2. PICK z \in Int : z = Per * k
      BY <1>2
    <3>3. QED
      BY <1>2, <1>3, <2>6, <3>1, <3>2
  <2>8. Cell(x.end + Per) = x.end + Per
    <3>1. Cell(x.end) = x.end /\ x.end \in Int
      BY <2>6 DEF SoftFits
    <3>2. QED
      BY <3>1, CellAfter
  <2>9. e.tm = x.end + Per /\ e.val = CellVal(b, n, value, k + 1)
    <3>1. CASE k + 1 < n
      <4>1. Stored(x.end + Per) = x.end + Per
        <5>1. x.end + Per \in Int
          BY <1>2, <2>6
        <5>2. QED
          BY <2>8, <5>1 DEF KeepsCells
      <4>2. QED
        BY <2>5, <3>1, <4>1 DEF SoftEntry, CellVal
    <3>2. CASE ~(k + 1 < n)
      <4>1. k + 1 = n
        BY <2>4, <3>2
      <4>2. Stored(tm) = x.end + Per
        BY <2>7, <4>1
      <4>3. QED
        BY <2>5, <3>2, <4>2 DEF SoftEntry, CellVal
    <3>3. QED
      BY <3>1, <3>2
  <2>10. h[e.tm] = e.val
    BY <2>4, <2>7, <2>9
  <2>11. PICK y : y = c[k + 1] /\ Grown(y, x, e)
    BY <2>5, <2>6, <2>9, SoftNextIs
  <2>12. SameTill(h, h, x, e.tm)
    BY DEF SameTill
  <2>13. SoftFits(y) /\ Follows(y, h) /\ y.end = b.end + Per * (k + 1) /\ Len(y.buf) # 0
    BY <2>6, <2>7, <2>9, <2>10, <2>11, <2>12 DEF Grown
  <2>14. /\ Len(y.buf) \in Nat /\ Len(x.buf) <= Len(y.buf) /\ y.beg \in Int /\ x.beg <= y.beg
         /\ y.beg = x.beg \/ (room # 0 /\ room <= Len(y.buf))
    BY <2>11, <2>13, RingedIs DEF Grown, SoftFits
  <2>15. /\ Len(b.buf) <= Len(x.buf) /\ b.beg <= x.beg
         /\ x.beg = b.beg \/ (room # 0 /\ room <= Len(x.buf))
    BY <2>2, <2>3
  <2>16. /\ Len(b.buf) <= Len(y.buf) /\ b.beg <= y.beg
         /\ y.beg = b.beg \/ (room # 0 /\ room <= Len(y.buf))
    <3>1. Len(b.buf) <= Len(y.buf)
      <4>1. Len(b.buf) \in Int /\ Len(x.buf) \in Int /\ Len(y.buf) \in Int
        BY <1>3, <2>6, <2>14
      <4>2. Len(b.buf) <= Len(x.buf) /\ Len(x.buf) <= Len(y.buf)
        BY <2>14, <2>15
      <4>3. QED
        BY <4>1, <4>2
    <3>2. b.beg <= y.beg
      <4>1. b.beg \in Int /\ x.beg \in Int /\ y.beg \in Int
        BY <1>3, <2>6, <2>14
      <4>2. b.beg <= x.beg /\ x.beg <= y.beg
        BY <2>14, <2>15
      <4>3. QED
        BY <4>1, <4>2
    <3>3. CASE y.beg = x.beg
      BY <1>2, <2>6, <2>14, <2>15, <3>1, <3>2, <3>3
    <3>4. CASE room # 0 /\ room <= Len(y.buf)
      BY <3>1, <3>2, <3>4
    <3>5. QED
      BY <2>14, <3>3, <3>4
  <2>17. QED
    BY <2>11, <2>13, <2>16
<1> HIDE DEF S
<1>6. Nat \subseteq S
  BY <1>4, <1>5, Counting
<1>7. n \in S /\ n <= n
  BY <1>6
<1>8. P(n) /\ SoftCells(b, n, value, tm) = c[n]
  BY <1>1, <1>7 DEF S, SoftSteps
<1> HIDE DEF P
<1>9. PICK d : d = c[n] /\ P(n)
  BY <1>8
<1>10. GoneOn(d, b, h, b.end + Per * n)
  BY <1>9 DEF P, GoneOn
<1>11. QED
  BY <1>8, <1>9, <1>10

-----------------------------------------------------------------------------
(* set() on the soft grid                                                  *)

\* What the soft grid is proved for: a period of whole seconds where entries keep
\* seconds, and more than one entry.
SoftMode ==
  grid = "soft" /\ room # 1 /\ (hgResTm \/ Per % Sec = 0)

\* Every soft grid is used so.
CellsKept == 1 \notin Sizes /\ Per % Sec = 0

LEMMA CellsKeep ==
  ASSUME ValBufAssumption, SoftMode
  PROVE  KeepsCells
<1> SUFFICES ASSUME ~hgResTm PROVE KeepsCells
  BY DEF KeepsCells, Stored
<1>1. Per \in Nat \ {0} /\ Sec \in Nat \ {0} /\ Per % Sec = 0
  BY DEF ValBufAssumption, SoftMode
<1>2. PICK m \in Int : Per = Sec * m
  <2>1. Per \in Int /\ Per \div Sec \in Int /\ Per = Sec * (Per \div Sec) + (Per % Sec)
    BY <1>1, DivMod
  <2>2. Sec * (Per \div Sec) \in Int
    BY <1>1, <2>1
  <2>3. Per = Sec * (Per \div Sec)
    BY <1>1, <2>1, <2>2
  <2>4. QED
    BY <2>1, <2>3
<1>3. ASSUME NEW x \in Int, Cell(x) = x PROVE Stored(x) = x
  <2>1. PICK q \in Int : x = Per * q
    <3>1. x \div Per \in Int
      BY <1>1, DivMod
    <3>2. QED
      BY <1>3, <3>1 DEF Cell
  <2>2. PICK k \in Int : k = m * q
    OBVIOUS
  <2>3. x = Sec * k
    <3>1. \A s \in Int : (s * m) * q = s * (m * q)
      OBVIOUS
    <3>2. Sec \in Int
      BY <1>1
    <3>3. QED
      BY <1>2, <2>1, <2>2, <3>1, <3>2
  <2>4. (Sec * k + 0) \div Sec = k
    BY <1>1, Quotient
  <2>5. Sec * k + 0 = x
    BY <2>3
  <2>6. QED
    BY <2>3, <2>4, <2>5 DEF Stored
<1>4. QED
  BY <1>3 DEF KeepsCells

\* The ring b goes on from the cell begin as g tells.
SoftOn(b, g, begin) ==
  /\ SoftFits(b) /\ Len(b.buf) # 0 /\ Follows(b, g)
  /\ begin \in Int /\ Per <= begin /\ begin <= b.beg
  /\ b.beg = begin \/ (room # 0 /\ room <= Len(b.buf))
  /\ DOMAIN g = {x \in Int : Cell(x) = x /\ begin <= x /\ x <= b.end}

SoftInv ==
  /\ SizesFit /\ size \in Sizes /\ room \in Sizes /\ hgResTm \in BOOLEAN
  /\ SoftMode => Rests \/ SoftOn(tb, told, first)

\* The first value begins an empty ring a cell before its own.
SoftBegins(c, tm) ==
  /\ SoftFits(c) /\ Len(c.buf) = 0 /\ (\A g : Follows(c, g))
  /\ c.end \in Int /\ c.beg = Cell(tm) /\ c.end = Cell(tm) - Per
  /\ Quot(tm - c.end, Per) = 1
  /\ tm \in Int /\ Cell(tm) \in Int /\ Per <= Cell(tm)

LEMMA SoftBegunEmpty ==
  ASSUME ValBufAssumption, SizesFit, grid = "soft", NEW tm \in Int, Per <= Cell(tm)
  PROVE  SoftBegins(Begun(Empty, tm), tm)
<1>1. Per \in Nat \ {0}
  BY DEF ValBufAssumption
<1>2. PICK f \in Int : f = Cell(tm) /\ f <= tm /\ tm < f + Per /\ Cell(f) = f
  BY <1>1, CellIs
<1>3. Per * (tm \div Per) = f
  BY <1>2 DEF Cell
<1>4. PICK c : c = Begun(Empty, tm)
  OBVIOUS
<1>5. PICK s : s = <<>> /\ s \in Seq(Cells) /\ Len(s) = 0 /\ DOMAIN s = {} /\ 1..Len(s) = {}
  BY NoEntries
<1>6. c = [buf |-> s, cur |-> 0, beg |-> f, end |-> f - Per, evalCnt |-> 0]
  BY <1>2, <1>3, <1>4, <1>5 DEF Begun, Empty
<1>7. c.buf = s /\ c.cur = 0 /\ c.beg = f /\ c.end = f - Per /\ c \in Ring /\ c.end \in Int
  BY <1>1, <1>5, <1>6 DEF Ring
<1>8. Ringed(c) /\ 0..Len(c.buf)-1 = {}
  BY <1>5, <1>7 DEF Ringed, SizesFit
<1>9. Cell(c.end) = c.end
  <2>1. 0 \in 0..Per-1 /\ -1 \in Int
    BY <1>1
  <2>2. Cell(f + Per * (-1) + 0) = f + Per * (-1)
    BY <1>2, <2>1, CellPlus
  <2>3. f + Per * (-1) + 0 = c.end /\ f + Per * (-1) = c.end
    BY <1>1, <1>7
  <2>4. QED
    BY <2>2, <2>3
<1>10. SoftFits(c) /\ \A g : Follows(c, g)
  <2>1. c.beg = c.end + Per /\ Len(c.buf) = 0
    BY <1>1, <1>5, <1>7
  <2>2. QED
    BY <1>8, <1>9, <2>1 DEF SoftFits, Falls, OnCells, Follows
<1>11. Quot(tm - c.end, Per) = 1
  <2>1. PICK x \in Int : x = tm - f
    BY <1>1, <1>2
  <2>2. tm - c.end = Per * 1 + x /\ x \in 0..Per-1
    BY <1>1, <1>2, <1>7, <2>1
  <2>3. (Per * 1 + x) \div Per = 1
    BY <1>1, <2>2, Quotient
  <2>4. tm - c.end >= 0
    BY <1>1, <2>2
  <2>5. QED
    BY <2>2, <2>3, <2>4 DEF Quot
<1>12. Per <= f
  BY <1>1, <1>2
<1>13. QED
  BY <1>1, <1>2, <1>4, <1>5, <1>7, <1>10, <1>11, <1>12 DEF SoftBegins

LEMMA SoftBegunFirst ==
  ASSUME ValBufAssumption, SizesFit, grid = "soft", Rests, NEW tm \in Times
  PROVE  SoftBegins(Begun(tb, tm), tm)
<1>1. tm \in Int /\ 2 * Per <= tm /\ Per \in Nat \ {0} /\ tb = Empty
  BY DEF ValBufAssumption, Rests
<1>2. Cell(tm) \in Int /\ tm < Cell(tm) + Per
  BY <1>1, CellIs
<1>3. Per <= Cell(tm)
  BY <1>1, <1>2
<1>4. QED
  BY <1>1, <1>3, SoftBegunEmpty

LEMMA SoftSetFirst ==
  ASSUME ValBufAssumption, SizesFit, room # 1, grid = "soft", KeepsCells, Rests,
         NEW tm \in Times, NEW value \in Vals, Stored(tm) = Cell(tm)
  PROVE  SoftOn(SetTo(tb, value, tm), ToldWith(value, tm), Cell(tm))
<1>1. PICK c : c = Begun(tb, tm) /\ SoftBegins(c, tm)
  BY SoftBegunFirst
<1>2. /\ SoftFits(c) /\ Len(c.buf) = 0 /\ (\A g : Follows(c, g))
      /\ c.end \in Int /\ c.beg = Cell(tm) /\ c.end = Cell(tm) - Per
      /\ Quot(tm - c.end, Per) = 1
      /\ tm \in Int /\ Cell(tm) \in Int /\ Per <= Cell(tm)
  BY <1>1 DEF SoftBegins
<1>3. PICK d : d = SetTo(tb, value, tm) /\ d = SoftCells(c, 1, value, tm)
  BY <1>1, <1>2 DEF SetTo, SoftSet
<1>4. Per \in Nat \ {0}
  BY DEF ValBufAssumption
<1>5. PICK f \in Int : f = Cell(tm) /\ Cell(f) = f
  BY <1>2, CellIs
<1>6. PICK h : h = ToldWith(value, tm) /\ DOMAIN h = {f} /\ h[f] = value
  <2>1. ToldWith(value, tm) =
          [x \in {f} \union {f} \union DOMAIN told |->
             IF x = f THEN value ELSE IF x \in {f} THEN Eval ELSE told[x]]
    BY <1>5 DEF ToldWith, CellTold, Rests
  <2>2. DOMAIN told = {}
    BY DEF Rests
  <2>3. QED
    BY <2>1, <2>2
<1>7. \A i \in 1..1 : h[c.end + Per * i] = CellVal(c, 1, value, i)
  <2>1. c.end + Per * 1 = f
    BY <1>2, <1>4, <1>5
  <2>2. CellVal(c, 1, value, 1) = value
    BY DEF CellVal
  <2>3. \A i \in 1..1 : i = 1
    OBVIOUS
  <2>4. QED
    BY <1>6, <2>1, <2>2, <2>3
<1>8. GoneOn(d, c, h, c.end + Per * 1)
  <2>1. PICK n \in Nat \ {0} : n = 1
    OBVIOUS
  <2>2. Follows(c, h) /\ \A i \in 1..n : h[c.end + Per * i] = CellVal(c, n, value, i)
    BY <1>2, <1>7, <2>1
  <2>3. Stored(tm) = c.end + Per * n
    BY <1>2, <1>4, <1>5, <2>1
  <2>4. GoneOn(SoftCells(c, n, value, tm), c, h, c.end + Per * n)
    BY <1>2, <2>2, <2>3, SoftCellsAre
  <2>5. QED
    BY <1>3, <2>1, <2>4
<1>9. d.end = f
  BY <1>2, <1>4, <1>5, <1>8 DEF GoneOn
<1>10. f <= d.beg /\ (d.beg = f \/ (room # 0 /\ room <= Len(d.buf)))
  BY <1>2, <1>5, <1>8 DEF GoneOn
<1>11. DOMAIN h = {x \in Int : Cell(x) = x /\ f <= x /\ x <= d.end}
  <2>1. \A x \in Int : f <= x /\ x <= f <=> x = f
    OBVIOUS
  <2>2. QED
    BY <1>5, <1>6, <1>9, <2>1
<1>12. SoftOn(d, h, f)
  BY <1>2, <1>5, <1>8, <1>10, <1>11 DEF SoftOn, GoneOn
<1>13. QED
  BY <1>3, <1>5, <1>6, <1>12

\* A cell is rounded to itself.
LEMMA CellRounded ==
  ASSUME ValBufAssumption, NEW x \in Int, Cell(x) = x, NEW end
  PROVE  RoundedTo(x, end) = x
<1>1. Per - 1 \in 0..Per-1 /\ Per \in Nat \ {0} /\ 0 \in Int
  BY DEF ValBufAssumption
<1>2. Cell(x + Per * 0 + (Per - 1)) = x + Per * 0
  BY <1>1, CellPlus
<1>3. x + Per * 0 + (Per - 1) = x + Per - 1 /\ x + Per * 0 = x
  BY <1>1
<1>4. CellUp(x) = x
  BY <1>2, <1>3 DEF CellUp
<1>5. QED
  BY <1>4 DEF RoundedTo

\* The entry of the cell of the end is replaced.
LEMMA SoftReplaces ==
  ASSUME ValBufAssumption, NEW b, SoftFits(b), Len(b.buf) # 0, At(b, 0).tm = b.end,
         NEW e \in Cells, e.tm = b.end
  PROVE  Grown([b EXCEPT !.buf[NewestPos(b)] = e], b, e)
<1>1. PICK d : d = [b EXCEPT !.buf[NewestPos(b)] = e]
  OBVIOUS
<1>2. PICK n \in Nat \ {0} : n = Len(b.buf)
  BY RingedIs DEF SoftFits
<1>3. PICK p \in 1..n : p = NewestPos(b)
  BY <1>2, RingedIs DEF SoftFits
<1>4. PICK s : s = b.buf /\ s \in Seq(Cells) /\ DOMAIN s = 1..n /\ b \in Ring /\ b.end \in Int /\ b.beg \in Int
  BY <1>2, RingedIs DEF SoftFits, Ringed
<1>5. PICK u : u = [s EXCEPT ![p] = e] /\ u \in Seq(Cells) /\ Len(u) = n
  <2>1. [s EXCEPT ![p] = e] \in Seq(Cells)
    BY <1>2, <1>4, ExceptSeq
  <2>2. Len([s EXCEPT ![p] = e]) = n
    BY <1>2, <1>4
  <2>3. QED
    BY <2>1, <2>2
<1>6. u[p] = e /\ \A i \in 1..n : i # p => u[i] = s[i]
  BY <1>3, <1>4, <1>5
<1>7. d.buf = u /\ d.cur = b.cur /\ d.beg = b.beg /\ d.end = b.end /\ d \in Ring
  <2>1. d = [b EXCEPT !.buf = u]
    BY <1>1, <1>3, <1>4, <1>5
  <2>2. QED
    BY <1>4, <1>5, <2>1 DEF Ring
<1>8. Ringed(d) /\ Len(d.buf) = n /\ NewestPos(d) = p
  BY <1>2, <1>3, <1>5, <1>7 DEF SoftFits, Ringed, NewestPos
<1>9. /\ 0 \in 0..n-1 /\ Behind(p, 0, n) = p
      /\ \A j \in 1..n-1 : Behind(p, j, n) \in 1..n /\ Behind(p, j, n) # p
  <2>1. 0 \in 0..n-1 /\ 0 < p /\ p - 0 = p
    OBVIOUS
  <2>2. Behind(p, 0, n) = p
    BY <2>1, BehindIs
  <2>3. ASSUME NEW j \in 1..n-1 PROVE Behind(p, j, n) \in 1..n /\ Behind(p, j, n) # p
    <3>1. j \in 0..n-1
      OBVIOUS
    <3>2. Behind(p, j, n) \in 1..n /\ Behind(p, j, n) = IF j < p THEN p - j ELSE p - j + n
      BY <3>1, BehindIs
    <3>3. QED
      BY <3>2
  <2>4. QED
    BY <2>1, <2>2, <2>3
<1>10. At(d, 0) = e /\ \A j \in 1..n-1 : At(d, j) = At(b, j)
  <2>1. \A j : At(d, j) = u[Behind(p, j, n)] /\ At(b, j) = s[Behind(p, j, n)]
    BY <1>2, <1>3, <1>4, <1>7, <1>8 DEF At
  <2>2. QED
    BY <1>6, <1>9, <2>1
<1>11. \A j \in 0..n-1 : At(d, j).tm = At(b, j).tm
  <2>1. ASSUME NEW j \in 0..n-1 PROVE At(d, j).tm = At(b, j).tm
    <3>1. j = 0 \/ j \in 1..n-1
      OBVIOUS
    <3>2. QED
      BY <1>10, <3>1
  <2>2. QED
    BY <2>1
<1>12. SoftFits(d)
  <2>1. n - 1 \in 0..n-1
    OBVIOUS
  <2>2. QED
    BY <1>2, <1>7, <1>8, <1>11, <2>1 DEF SoftFits, Falls, OnCells
<1>13. ASSUME NEW g, NEW h, Follows(b, g), h[e.tm] = e.val, SameTill(h, g, b, e.tm)
       PROVE  Follows(d, h)
  <2>1. ASSUME NEW j \in 0..n-1, NEW x \in Int, Spans(d, j, x) PROVE h[x] = At(d, j).val
    <3>1. Cell(x) = x /\ At(b, j).tm <= x /\ x <= b.end /\ (j > 0 => x < At(d, j - 1).tm)
      BY <1>7, <1>11, <2>1 DEF Spans
    <3>2. CASE j = 0
      <4>1. x = b.end
        BY <1>4, <3>1, <3>2
      <4>2. QED
        BY <1>10, <1>13, <3>2, <4>1
    <3>3. CASE j # 0
      <4>1. j \in 1..n-1 /\ j - 1 \in 0..n-1
        BY <3>3
      <4>2. x < At(b, j - 1).tm
        BY <1>11, <3>1, <4>1
      <4>3. Spans(b, j, x)
        BY <3>1, <4>2 DEF Spans
      <4>4. g[x] = At(b, j).val
        BY <1>2, <1>13, <4>3 DEF Follows
      <4>5. b.beg <= x
        <5>1. b.beg <= At(b, j).tm /\ At(b, j).tm \in Int
          BY <1>2, BeginIsLeast
        <5>2. QED
          BY <1>4, <3>1, <5>1
      <4>6. x < e.tm
        <5>1. At(b, j - 1).tm <= b.end /\ At(b, j - 1).tm \in Int
          BY <1>2, <4>1, BeginIsLeast
        <5>2. QED
          BY <1>4, <4>2, <5>1
      <4>7. h[x] = g[x]
        BY <1>13, <3>1, <4>5, <4>6 DEF SameTill
      <4>8. QED
        BY <1>10, <4>1, <4>4, <4>7
    <3>4. QED
      BY <3>2, <3>3
  <2>2. QED
    BY <1>8, <2>1 DEF Follows
<1>14. Grown(d, b, e)
  BY <1>2, <1>4, <1>7, <1>8, <1>10, <1>12, <1>13 DEF Grown
<1>15. QED
  BY <1>1, <1>14

\* A value for the cell of the end: it is written there, or replaces the entry of it.
LEMMA SoftSetHere ==
  ASSUME ValBufAssumption, SizesFit, room # 1, grid = "soft", KeepsCells,
         NEW b, SoftFits(b), Len(b.buf) # 0, NEW value \in Vals,
         NEW tm \in Int, Quot(tm - b.end, Per) = 0
  PROVE  Grown(SoftSet(b, value, tm), b, [tm |-> b.end, val |-> value])
<1>1. Ringed(b) /\ b.end \in Int /\ Per \in Nat \ {0} /\ Cell(b.end) = b.end
  BY RingedIs DEF SoftFits, ValBufAssumption
<1>2. PICK e \in Cells : e = [tm |-> b.end, val |-> value] /\ e.tm = b.end /\ e.val = value
  <2>1. PICK e : e = [tm |-> b.end, val |-> value]
    OBVIOUS
  <2>2. e \in Cells /\ e.tm = b.end /\ e.val = value
    BY <1>1, <2>1 DEF Cells
  <2>3. QED
    BY <2>1, <2>2
<1>3. Stored(b.end) = b.end
  BY <1>1 DEF KeepsCells
<1>4. PICK t \in Int : t = At(b, 0).tm /\ t <= b.end /\ Cell(t) = t /\ t = b.buf[NewestPos(b)].tm
  <2>1. At(b, 0) = b.buf[NewestPos(b)] /\ 0 \in 0..Len(b.buf)-1
    BY <1>1, NewestIs
  <2>2. At(b, 0).tm \in Int /\ At(b, 0).tm <= b.end /\ Cell(At(b, 0).tm) = At(b, 0).tm
    BY <1>1, <2>1, RingedIs DEF SoftFits, OnCells
  <2>3. QED
    BY <2>1, <2>2
<1>5. t = b.end + Per * Quot(t - b.end, Per) /\ Quot(t - b.end, Per) \in Int
  <2>1. RoundedTo(t, b.end) = t
    BY <1>4, CellRounded
  <2>2. RoundedTo(t, b.end) = b.end + Per * Quot(t - b.end, Per) /\ Quot(t - b.end, Per) \in Int
    BY <1>1, CellOf
  <2>3. QED
    BY <2>1, <2>2
<1>6. CASE Quot(t - b.end, Per) = 0
  <2>1. t = b.end
    BY <1>1, <1>5, <1>6
  <2>2. SoftSet(b, value, tm) = [b EXCEPT !.buf[NewestPos(b)] = e]
    BY <1>2, <1>3, <1>4, <1>6 DEF SoftSet
  <2>3. QED
    BY <1>2, <1>4, <2>1, <2>2, SoftReplaces
<1>7. CASE Quot(t - b.end, Per) # 0
  <2>1. t # b.end
    <3>1. b.end - b.end = 0 /\ Per * 0 = 0
      BY <1>1
    <3>2. Per * Quot(t - b.end, Per) # 0
      BY <1>1, <1>5, <1>7
    <3>3. Per * Quot(t - b.end, Per) \in Int
      BY <1>1, <1>5
    <3>4. QED
      BY <1>1, <1>5, <3>2, <3>3
  <2>2. At(b, 0).tm < e.tm
    BY <1>1, <1>2, <1>4, <2>1
  <2>3. e.tm <= b.end + Per /\ b.end <= e.tm
    BY <1>1, <1>2
  <2>4. Changed([Write(b, e) EXCEPT !.end = e.tm], b, e)
    BY <1>1, <1>2, <2>2, <2>3, SoftWrites
  <2>5. PICK c : c = Write(b, e) /\ Ringed(c) /\ c.end = b.end
    BY <1>1, WriteIs DEF Written
  <2>6. [c EXCEPT !.end = e.tm] = c
    BY <1>2, <2>5 DEF Ringed, Ring
  <2>7. SoftSet(b, value, tm) = c
    BY <1>2, <1>3, <1>4, <1>7, <2>5 DEF SoftSet
  <2>8. Changed(c, b, e)
    BY <2>4, <2>5, <2>6
  <2>9. Grown(c, b, e)
    BY <2>8 DEF Changed, Grown
  <2>10. QED
    BY <1>2, <2>7, <2>9
<1>8. QED
  BY <1>6, <1>7

LEMMA SoftOnIs ==
  ASSUME ValBufAssumption, SoftOn(tb, told, first)
  PROVE  /\ SoftFits(tb) /\ tb \in Ring /\ Len(tb.buf) \in Nat \ {0} /\ tb.buf # <<>>
         /\ tb.beg \in Int /\ tb.end \in Int /\ first \in Int /\ Per \in Nat \ {0}
         /\ Per <= first /\ first <= tb.beg /\ tb.beg <= tb.end
         /\ Cell(tb.end) = tb.end /\ TellsCells(told)
         /\ told # <<>> /\ told[tb.end] = tb.buf[NewestPos(tb)].val
<1>1. SoftFits(tb) /\ Follows(tb, told) /\ Len(tb.buf) # 0 /\ Ringed(tb) /\ tb \in Ring
  BY DEF SoftOn, SoftFits, Ringed
<1>2. /\ Len(tb.buf) \in Nat \ {0} /\ tb.beg \in Int /\ tb.end \in Int /\ Per \in Nat \ {0}
      /\ first \in Int /\ Per <= first /\ first <= tb.beg /\ Cell(tb.end) = tb.end
      /\ DOMAIN told = {x \in Int : Cell(x) = x /\ first <= x /\ x <= tb.end}
  BY <1>1, RingedIs DEF SoftOn, SoftFits, ValBufAssumption
<1>3. tb.buf # <<>> /\ At(tb, 0) = tb.buf[NewestPos(tb)] /\ 0 \in 0..Len(tb.buf)-1
  BY <1>1, NewestIs
<1>4. tb.beg <= At(tb, 0).tm /\ At(tb, 0).tm <= tb.end /\ tb.beg <= tb.end
  BY <1>1, <1>3, BeginIsLeast
<1>5. first <= tb.end
  BY <1>2, <1>4
<1>6. TellsCells(told)
  BY <1>2, <1>5 DEF TellsCells
<1>7. tb.end \in DOMAIN told
  BY <1>2, <1>5
<1>8. told # <<>>
  BY <1>7
<1>9. told[tb.end] = At(tb, 0).val
  <2>1. Spans(tb, 0, tb.end)
    BY <1>2, <1>4 DEF Spans
  <2>2. QED
    BY <1>1, <1>2, <1>3, <2>1 DEF Follows
<1>10. QED
  BY <1>1, <1>2, <1>3, <1>4, <1>6, <1>8, <1>9

\* A value that is ahead of the end by cells is not before the next one.
LEMMA QuotAhead ==
  ASSUME ValBufAssumption, NEW end \in Int, NEW tm \in Int, Quot(tm - end, Per) > 0
  PROVE  end + Per <= tm /\ ~(tm < end)
<1>1. PICK x \in Int : x = tm - end /\ Per \in Nat \ {0}
  BY DEF ValBufAssumption
<1>2. CASE x >= 0
  <2>1. PICK q \in Int, r \in 0..Per-1 : q = x \div Per /\ x = Per * q + r
    BY <1>1, DivMod
  <2>2. q >= 1
    BY <1>1, <1>2, <2>1 DEF Quot
  <2>3. Per * q >= Per /\ Per * q \in Int
    BY <1>1, <2>2
  <2>4. QED
    BY <1>1, <2>1, <2>3
<1>3. CASE ~(x >= 0)
  <2>1. PICK q \in Int : q = (-x) \div Per /\ q >= 0
    <3>1. -x \in Nat
      BY <1>3
    <3>2. (-x) \div Per \in Nat
      BY <1>1, <3>1
    <3>3. QED
      BY <3>2
  <2>2. Quot(tm - end, Per) = -q
    BY <1>1, <1>3, <2>1 DEF Quot
  <2>3. QED
    BY <2>1, <2>2
<1>4. QED
  BY <1>2, <1>3

LEMMA SoftSetNext ==
  ASSUME ValBufAssumption, SizesFit, room # 1, grid = "soft", KeepsCells, SoftOn(tb, told, first),
         NEW tm \in Times, NEW value \in Vals, Given(tm), ~TooOld(Begun(tb, tm), tm)
  PROVE  SoftOn(SetTo(tb, value, tm), ToldWith(value, tm), first) /\ told # <<>>
<1>1. /\ SoftFits(tb) /\ tb \in Ring /\ Len(tb.buf) \in Nat \ {0} /\ tb.buf # <<>>
      /\ tb.beg \in Int /\ tb.end \in Int /\ first \in Int /\ Per \in Nat \ {0}
      /\ Per <= first /\ first <= tb.beg /\ tb.beg <= tb.end
      /\ Cell(tb.end) = tb.end /\ TellsCells(told)
      /\ told # <<>> /\ told[tb.end] = tb.buf[NewestPos(tb)].val
  BY SoftOnIs
<1>2. tm \in Int /\ room \in Nat
  BY DEF ValBufAssumption, SizesFit
<1>3. /\ Follows(tb, told) /\ (tb.beg = first \/ (room # 0 /\ room <= Len(tb.buf)))
      /\ DOMAIN told = {x \in Int : Cell(x) = x /\ first <= x /\ x <= tb.end}
  BY DEF SoftOn
<1>4. Begun(tb, tm) = tb
  <2>1. tb.beg # 0 /\ tb.end # 0
    BY <1>1
  <2>2. tb = [buf |-> tb.buf, cur |-> tb.cur, beg |-> tb.beg, end |-> tb.end, evalCnt |-> tb.evalCnt]
    BY <1>1 DEF Ring
  <2>3. QED
    BY <2>1, <2>2 DEF Begun
<1>5. PICK k \in Int : k = Quot(tm - tb.end, Per) /\ RoundedTo(tm, tb.end) = tb.end + Per * k
  BY <1>1, <1>2, CellOf
<1>6. k \in Nat
  <2>1. ~(k < 0)
    BY <1>4, <1>5 DEF TooOld
  <2>2. QED
    BY <2>1
<1>7. PICK c \in Int : c = tb.end + Per * k /\ Cell(c) = c
  <2>1. Per * k \in Int /\ Cell(tb.end + Per * k) = tb.end + Per * k
    BY <1>1, CellsBetween
  <2>2. QED
    BY <1>1, <2>1
<1>8. PICK h : /\ h = ToldWith(value, tm)
               /\ DOMAIN h = {x \in Int : Cell(x) = x /\ first <= x /\ x <= (IF k > 0 THEN c ELSE tb.end)}
               /\ h[c] = value
               /\ \A x \in DOMAIN told : x # c => h[x] = told[x]
               /\ \A i \in 1..k-1 : h[tb.end + Per * i] = Fill(tb)
  <2>1. PICK x : x = ToldWith(value, tm)
    OBVIOUS
  <2>2. k <= 0 => tb.end + Per * k \in DOMAIN told
    <3>1. SUFFICES ASSUME k <= 0 PROVE tb.end + Per * k \in DOMAIN told
      OBVIOUS
    <3>2. k = 0 /\ Per * 0 = 0
      BY <1>1, <1>6, <3>1
    <3>3. tb.end + Per * k = tb.end /\ first <= tb.end
      BY <1>1, <3>2
    <3>4. QED
      BY <1>1, <1>3, <3>3
  <2>3. ToldOn(x, k, value)
    BY <1>1, <1>5, <2>1, <2>2, ToldGrid
  <2>4. QED
    BY <1>7, <2>1, <2>3 DEF ToldOn
<1>9. PICK d : d = SetTo(tb, value, tm) /\ d = SoftSet(tb, value, tm)
  BY <1>4 DEF SetTo
<1>10. /\ SoftFits(d) /\ Follows(d, h) /\ d.end = (IF k > 0 THEN c ELSE tb.end) /\ Len(d.buf) # 0
       /\ tb.beg <= d.beg /\ (d.beg = tb.beg \/ (room # 0 /\ room <= Len(d.buf)))
       /\ Len(tb.buf) <= Len(d.buf)
  <2>1. CASE k > 0
    <3>1. PICK n \in Nat \ {0} : n = k
      BY <1>6, <2>1
    <3>2. d = SoftCells(tb, n, value, tm)
      BY <1>5, <1>9, <2>1, <3>1 DEF SoftSet
    <3>3. tb.end < c
      <4>1. Per * k > 0 /\ Per * k \in Int
        BY <1>1, <2>1
      <4>2. QED
        BY <1>1, <1>7, <4>1
    <3>4. Follows(tb, h)
      <4>1. ASSUME NEW x \in Int, Cell(x) = x, tb.beg <= x, x <= tb.end PROVE h[x] = told[x]
        <5>1. x \in DOMAIN told /\ x # c
          BY <1>1, <1>3, <3>3, <4>1
        <5>2. QED
          BY <1>8, <5>1
      <4>2. QED
        BY <1>1, <1>3, <4>1, FollowsSame
    <3>5. \A i \in 1..n : h[tb.end + Per * i] = CellVal(tb, n, value, i)
      <4>1. ASSUME NEW i \in 1..n PROVE h[tb.end + Per * i] = CellVal(tb, n, value, i)
        <5>1. CASE i < n
          <6>1. i \in 1..k-1
            BY <3>1, <5>1
          <6>2. QED
            BY <1>8, <5>1, <6>1 DEF CellVal
        <5>2. CASE ~(i < n)
          <6>1. i = k
            BY <3>1, <5>2
          <6>2. QED
            BY <1>7, <1>8, <3>1, <5>2, <6>1 DEF CellVal
        <5>3. QED
          BY <5>1, <5>2
      <4>2. QED
        BY <4>1
    <3>6. Stored(tm) = tb.end + Per * n
      <4>1. tb.end + Per <= tm /\ RoundedTo(tm, tb.end) = Cell(tm)
        BY <1>1, <1>2, <1>5, <2>1, QuotAhead DEF RoundedTo
      <4>2. Stored(tm) = Cell(tm)
        BY <1>1, <1>2, <4>1 DEF Given
      <4>3. QED
        BY <1>5, <3>1, <4>1, <4>2
    <3>7. GoneOn(SoftCells(tb, n, value, tm), tb, h, tb.end + Per * n)
      BY <1>1, <1>2, <3>4, <3>5, <3>6, SoftCellsAre
    <3>8. QED
      BY <1>7, <2>1, <3>1, <3>2, <3>7 DEF GoneOn
  <2>2. CASE ~(k > 0)
    <3>1. k = 0 /\ c = tb.end
      <4>1. k = 0 /\ Per * 0 = 0
        BY <1>1, <1>6, <2>2
      <4>2. QED
        BY <1>1, <1>7, <4>1
    <3>2. PICK e : e = [tm |-> tb.end, val |-> value] /\ e.tm = tb.end /\ e.val = value
      <4>1. PICK x : x = [tm |-> tb.end, val |-> value]
        OBVIOUS
      <4>2. x.tm = tb.end /\ x.val = value
        BY <4>1
      <4>3. QED
        BY <4>1, <4>2
    <3>3. Grown(d, tb, e)
      BY <1>1, <1>2, <1>5, <1>9, <3>1, <3>2, SoftSetHere
    <3>4. SameTill(h, told, tb, e.tm)
      <4>1. ASSUME NEW x \in Int, Cell(x) = x, tb.beg <= x, x < tb.end PROVE h[x] = told[x]
        <5>1. x \in DOMAIN told /\ x # c
          BY <1>1, <1>3, <3>1, <4>1
        <5>2. QED
          BY <1>8, <5>1
      <4>2. QED
        BY <3>2, <4>1 DEF SameTill
    <3>5. h[e.tm] = e.val
      BY <1>8, <3>1, <3>2
    <3>6. Follows(d, h)
      BY <1>3, <3>3, <3>4, <3>5 DEF Grown
    <3>7. QED
      BY <2>2, <3>2, <3>3, <3>6 DEF Grown
  <2>3. QED
    BY <2>1, <2>2
<1>11. d.beg \in Int /\ Len(d.buf) \in Nat
  BY <1>10, RingedIs DEF SoftFits
<1>12. first <= d.beg
  BY <1>1, <1>10, <1>11
<1>13. d.beg = first \/ (room # 0 /\ room <= Len(d.buf))
  <2>1. CASE d.beg = tb.beg /\ tb.beg # first
    <3>1. room # 0 /\ room <= Len(tb.buf)
      BY <1>3, <2>1
    <3>2. QED
      BY <1>1, <1>2, <1>10, <1>11, <3>1
  <2>2. CASE ~(d.beg = tb.beg /\ tb.beg # first)
    BY <1>10, <2>2
  <2>3. QED
    BY <2>1, <2>2
<1>14. SoftOn(d, h, first)
  BY <1>1, <1>8, <1>10, <1>12, <1>13 DEF SoftOn
<1>15. QED
  BY <1>1, <1>8, <1>9, <1>14

LEMMA SoftOnKept ==
  ASSUME UNCHANGED room, NEW d, NEW h, NEW f, SoftOn(d, h, f), d = tb', h = told', f = first',
         Ringed(d) => Ringed(tb)'
  PROVE  SoftOn(tb, told, first)'
<1>1. SoftFits(d) /\ Follows(d, h) /\ Len(d.buf) # 0
  BY DEF SoftOn
<1>2. Ringed(tb)'
  BY <1>1 DEF SoftFits
<1>3. \A j : At(d, j) = At(tb, j)'
  BY DEF At, NewestPos
<1>4. SoftFits(tb)'
  BY <1>1, <1>2 DEF SoftFits, Falls, OnCells, At, NewestPos, Cell
<1>5. Follows(tb, told)'
  BY <1>1 DEF Follows, Spans, At, NewestPos, Cell
<1>6. QED
  BY <1>1, <1>4, <1>5 DEF SoftOn, Cell

LEMMA SetKeepsSoft ==
  ASSUME ValBufAssumption, SoftInv, NEW tm \in Times, NEW value \in Vals, Set(value, tm)
  PROVE  SoftInv'
<1>1. /\ tb' = SetTo(tb, value, tm) /\ told' = ToldWith(value, tm)
      /\ first' = IF told = <<>> THEN Cell(tm) ELSE first
      /\ grid' = grid /\ hgResTm' = hgResTm /\ size' = size /\ room' = room
      /\ ~TooOld(Begun(tb, tm), tm) /\ Given(tm)
  BY DEF Set, mode
<1>2. SizesFit /\ SizesFit' /\ hgResTm \in BOOLEAN /\ (SoftMode' => SoftMode)
  BY <1>1 DEF SoftInv, SizesFit, SoftMode
<1>3. ASSUME SoftMode PROVE SoftOn(tb, told, first)'
  <2>1. KeepsCells /\ grid = "soft" /\ room # 1 /\ tm \in Int /\ tm >= 2 * Per
    BY <1>3, CellsKeep DEF SoftMode, ValBufAssumption
  <2>2. PICK d, h, f : d = tb' /\ h = told' /\ f = first'
    OBVIOUS
  <2>3. SoftOn(d, h, f)
    <3>1. CASE Rests
      <4>1. f = Cell(tm)
        BY <1>1, <2>2, <3>1 DEF Rests
      <4>2. Stored(tm) = Cell(tm)
        <5>1. tb.end = 0 /\ Per \in Nat
          BY <3>1 DEF Rests, Empty, ValBufAssumption
        <5>2. tm >= tb.end + Per
          BY <2>1, <5>1
        <5>3. QED
          BY <1>1, <2>1, <5>2 DEF Given
      <4>3. QED
        BY <1>1, <1>2, <2>1, <2>2, <3>1, <4>1, <4>2, SoftSetFirst
    <3>2. CASE SoftOn(tb, told, first)
      <4>1. SoftOn(d, h, first) /\ told # <<>>
        BY <1>1, <1>2, <1>3, <2>1, <2>2, <3>2, SoftSetNext
      <4>2. f = first
        BY <1>1, <2>2, <4>1
      <4>3. QED
        BY <4>1, <4>2
    <3>3. QED
      BY <1>3, <3>1, <3>2 DEF SoftInv
  <2>4. Ringed(d) => Ringed(tb)'
    BY <1>1, <2>2 DEF Ringed
  <2>5. QED
    BY <1>1, <2>2, <2>3, <2>4, SoftOnKept
<1>4. QED
  BY <1>1, <1>2, <1>3 DEF SoftInv

LEMMA ClearKeepsSoft ==
  ASSUME SoftInv, Clear
  PROVE  SoftInv'
  BY DEF Clear, mode, Forget, SoftInv, SizesFit, Rests, Empty

LEMMA UntouchedKeepsSoft ==
  ASSUME SoftInv, UNCHANGED <<grid, hgResTm, tb, told, first, room>>, SizesFit', size' \in Sizes,
         \A b : Ringed(b) /\ b = tb => Ringed(tb)'
  PROVE  SoftInv'
<1>1. Rests => Rests'
  BY DEF Rests, Empty
<1>2. ASSUME SoftOn(tb, told, first) PROVE SoftOn(tb, told, first)'
  <2>1. PICK d, h, f : d = tb /\ h = told /\ f = first
    OBVIOUS
  <2>2. SoftOn(d, h, f) /\ d = tb' /\ h = told' /\ f = first' /\ (Ringed(d) => Ringed(tb)')
    BY <1>2, <2>1
  <2>3. QED
    BY <2>2, SoftOnKept
<1>3. QED
  BY <1>1, <1>2 DEF SoftInv, SoftMode

LEMMA MakeBufKeepsSoft ==
  ASSUME ValBufAssumption, SoftInv,
         NEW isz \in Sizes, NEW g \in Grids, NEW hgRes \in BOOLEAN, MakeBuf(isz, g, hgRes)
  PROVE  SoftInv'
<1>1. isz \in Nat /\ size' = isz /\ grid' = g /\ hgResTm' = hgRes /\ SizesFit
  BY DEF MakeBuf, ValBufAssumption, SoftInv
<1>2. CASE isz < size \/ size = 0 \/ g # grid \/ hgRes # hgResTm
  BY <1>1, <1>2 DEF MakeBuf, Forget, SoftInv, SizesFit, Rests, Empty
<1>3. CASE ~(isz < size \/ size = 0 \/ g # grid \/ hgRes # hgResTm)
  <2>1. /\ tb' = tb /\ told' = told /\ first' = first /\ room' = room /\ grid' = grid
        /\ hgResTm' = hgResTm /\ size # 0 /\ size <= isz
    BY <1>1, <1>3 DEF MakeBuf, SizesFit
  <2>2. SizesFit'
    BY <1>1, <2>1 DEF SizesFit
  <2>3. ASSUME NEW b, Ringed(b), b = tb PROVE Ringed(tb)'
    <3>1. b.cur \in Nat /\ Len(b.buf) \in Nat /\ b.cur < size /\ Len(b.buf) <= size
      BY <2>1, <2>3, RingedIs DEF Ringed
    <3>2. b.cur < isz /\ Len(b.buf) <= isz /\ isz # 0
      BY <1>1, <2>1, <3>1 DEF SizesFit
    <3>3. QED
      BY <1>1, <2>1, <2>3, <3>2 DEF Ringed
  <2>4. QED
    BY <1>1, <2>1, <2>2, <2>3, UntouchedKeepsSoft
<1>4. QED
  BY <1>2, <1>3

LEMMA SoftStep ==
  ASSUME ValBufAssumption, SoftInv, [Next]_vars
  PROVE  SoftInv'
<1>1. ASSUME NEW value \in Vals, NEW tm \in Times, Set(value, tm) PROVE SoftInv'
  BY <1>1, SetKeepsSoft
<1>2. ASSUME NEW tm \in Times, AttrSetOld(tm) PROVE SoftInv'
  BY <1>2, ClearKeepsSoft DEF AttrSetOld
<1>3. CASE Clear
  BY <1>3, ClearKeepsSoft
<1>4. ASSUME NEW isz \in Sizes, NEW g \in Grids, NEW hgRes \in BOOLEAN, MakeBuf(isz, g, hgRes)
      PROVE  SoftInv'
  BY <1>4, MakeBufKeepsSoft
<1>5. ASSUME UNCHANGED <<grid, hgResTm, size, tb, told, first, room>> PROVE SoftInv'
  <2>1. SizesFit' /\ size' \in Sizes
    BY <1>5 DEF SoftInv, SizesFit
  <2>2. \A b : Ringed(b) /\ b = tb => Ringed(tb)'
    BY <1>5 DEF Ringed
  <2>3. QED
    BY <1>5, <2>1, <2>2, UntouchedKeepsSoft
<1>6. CASE SetFillLast
  BY <1>5, <1>6 DEF SetFillLast
<1>7. CASE UNCHANGED vars
  BY <1>5, <1>7 DEF vars, mode
<1>8. QED
  BY <1>1, <1>2, <1>3, <1>4, <1>6, <1>7 DEF Next

LEMMA SoftStart ==
  ASSUME ValBufAssumption, Init
  PROVE  SoftInv
  BY DEF Init, SoftInv, SizesFit, Rests, ValBufAssumption

\* A ring of the soft grid has, back from its newest entry, the changes of what
\* it was told from its begin to its end, one for each cell the value changed
\* at: whatever set() (src/src/tarchval.cpp:657) filled, left out as equal, put
\* in place of the newest entry or wrote over, and makeBuf() enlarged.
THEOREM SoftGridGoes == Spec => []SoftInv
<1>1. Init => SoftInv
  BY ValBufAssumption, SoftStart
<1>2. SoftInv /\ [Next]_vars => SoftInv'
  BY ValBufAssumption, SoftStep
<1>3. QED
  BY <1>1, <1>2, PTL DEF Spec

-----------------------------------------------------------------------------
(* What follows of it                                                      *)

\* The entries are each a cell apart, or more.
LEMMA FallsByCells ==
  ASSUME ValBufAssumption, NEW b, SoftFits(b)
  PROVE  \A j \in 0..Len(b.buf)-1 : At(b, j).tm + Per * j <= b.end
<1>1. PICK n \in Nat : n = Len(b.buf)
  BY RingedIs DEF SoftFits
<1>2. b.end \in Int /\ Per \in Nat \ {0} /\ \A j \in 0..n-1 : At(b, j).tm \in Int
  BY <1>1, RingedIs DEF SoftFits, ValBufAssumption
<1> DEFINE S == {k \in Nat : k < n => At(b, k).tm + Per * k <= b.end}
<1>3. 0 \in S
  <2>1. SUFFICES ASSUME 0 < n PROVE At(b, 0).tm + Per * 0 <= b.end
    OBVIOUS
  <2>2. 0 \in 0..n-1
    BY <2>1
  <2>3. At(b, 0).tm <= b.end /\ At(b, 0).tm \in Int /\ Per * 0 = 0
    BY <1>1, <1>2, <2>2 DEF SoftFits, OnCells
  <2>4. QED
    BY <1>2, <2>3
<1>4. ASSUME NEW k \in Nat, k \in S PROVE k + 1 \in S
  <2>1. SUFFICES ASSUME k + 1 < n PROVE At(b, k + 1).tm + Per * (k + 1) <= b.end
    OBVIOUS
  <2>2. k \in 0..n-1 /\ k + 1 \in 0..n-1 /\ k < k + 1
    BY <2>1
  <2>3. PICK x \in Int, y \in Int : x = At(b, k).tm /\ y = At(b, k + 1).tm
    BY <1>2, <2>2
  <2>4. y < x /\ Cell(x) = x /\ Cell(y) = y
    BY <1>1, <2>2, <2>3 DEF SoftFits, Falls, OnCells
  <2>5. y + Per <= x
    BY <2>4, CellsApart
  <2>6. x + Per * k <= b.end
    BY <1>4, <2>2, <2>3
  <2>7. Per * (k + 1) = Per * k + Per
    BY <1>2
  <2>8. PICK z \in Int : z = Per * k
    BY <1>2
  <2>9. y + Per * (k + 1) <= b.end
    BY <1>2, <2>5, <2>6, <2>7, <2>8
  <2>10. QED
    BY <2>3, <2>9
<1> HIDE DEF S
<1>5. Nat \subseteq S
  BY <1>3, <1>4, Counting
<1>6. QED
  BY <1>1, <1>5 DEF S

LEMMA SoftKeeps ==
  ASSUME ValBufAssumption, SoftInv, SoftMode
  PROVE  NewestKept
<1> grid = "soft"
  BY DEF SoftMode
<1>1. CASE Rests
  BY <1>1 DEF NewestKept, Rests, Empty
<1>2. CASE SoftOn(tb, told, first)
  <2>1. SUFFICES ASSUME room # 0, room <= Len(tb.buf) PROVE (tb.end - tb.beg) \div Per + 1 >= room
    BY <1>2 DEF NewestKept, SoftOn
  <2>2. /\ SoftFits(tb) /\ Len(tb.buf) \in Nat \ {0} /\ tb.beg \in Int /\ tb.end \in Int
        /\ Per \in Nat \ {0} /\ tb.beg <= tb.end /\ room \in Nat
    BY <1>2, SoftOnIs DEF SoftInv, SizesFit
  <2>3. PICK m \in Nat : m = Len(tb.buf) - 1 /\ m \in 0..Len(tb.buf)-1
    <3>1. PICK n \in Nat \ {0} : n = Len(tb.buf)
      BY <2>2
    <3>2. n - 1 \in Nat /\ n - 1 \in 0..n-1
      OBVIOUS
    <3>3. QED
      BY <3>1, <3>2
  <2>4. tb.beg + Per * m <= tb.end
    <3>1. At(tb, m).tm + Per * m <= tb.end
      BY <2>2, <2>3, FallsByCells
    <3>2. tb.beg = At(tb, m).tm
      BY <2>2, <2>3 DEF SoftFits
    <3>3. QED
      BY <3>1, <3>2
  <2>5. PICK x \in Int : x = tb.end - tb.beg
    BY <2>2
  <2>6. PICK q \in Int, r \in 0..Per-1 : q = x \div Per /\ x = Per * q + r
    BY PerSplit
  <2>7. Per * m \in Int /\ Per * m <= x
    BY <2>2, <2>3, <2>4, <2>5
  <2>8. q >= m
    <3>1. SUFFICES ASSUME q < m PROVE FALSE
      OBVIOUS
    <3>2. Per * (q + 1) <= Per * m
      BY <2>2, <3>1
    <3>3. Per * (q + 1) = Per * q + Per /\ Per * q \in Int
      BY <2>2
    <3>4. QED
      BY <2>2, <2>6, <2>7, <3>2, <3>3
  <2>9. q + 1 >= room
    BY <2>1, <2>2, <2>3, <2>8
  <2>10. QED
    BY <2>5, <2>6, <2>9
<1>3. QED
  BY <1>1, <1>2 DEF SoftInv

-----------------------------------------------------------------------------
(* What get() finds on the soft grid                                       *)

LEMMA BehindIn ==
  ASSUME NEW n \in Nat \ {0}, NEW c \in Int, NEW i \in Int
  PROVE  Behind(c, i, n) \in 1..n
<1>1. PICK x \in Int : x = c - 1 - i
  OBVIOUS
<1>2. PICK r \in 0..n-1 : r = x % n
  BY DivMod
<1>3. QED
  BY <1>1, <1>2 DEF Behind

LEMMA BehindTwice ==
  ASSUME NEW n \in Nat \ {0}, NEW p \in 1..n, NEW s \in 0..n-1, NEW i \in 0..n-1, s + i <= n - 1
  PROVE  Behind(Behind(p, s, n), i, n) = Behind(p, s + i, n)
<1>1. PICK q \in 1..n : q = Behind(p, s, n) /\ q = IF s < p THEN p - s ELSE p - s + n
  BY BehindIs
<1>2. Behind(q, i, n) = IF i < q THEN q - i ELSE q - i + n
  BY BehindIs
<1>3. PICK j \in 0..n-1 : j = s + i
  OBVIOUS
<1>4. Behind(p, j, n) = IF j < p THEN p - j ELSE p - j + n
  BY BehindIs
<1>5. QED
  BY <1>1, <1>2, <1>3, <1>4

\* Every position is behind another one, and the steps between them are counted.
StepsTo(n, p, e, s) ==
  /\ s \in 0..n-1 /\ e = Behind(p, s, n)
  /\ (IF (e - p) % n = 0 THEN n - 1 ELSE ((e - p) % n) - 1) = n - 1 - s

LEMMA PlaceBehind ==
  ASSUME NEW n \in Nat \ {0}, NEW p \in 1..n, NEW e \in 1..n
  PROVE  \E s : StepsTo(n, p, e, s)
<1>1. CASE e <= p
  <2>1. PICK s \in 0..n-1 : s = p - e
    BY <1>1
  <2>2. e = Behind(p, s, n)
    <3>1. Behind(p, s, n) = IF s < p THEN p - s ELSE p - s + n
      BY BehindIs
    <3>2. s < p /\ p - s = e
      BY <2>1
    <3>3. QED
      BY <3>1, <3>2
  <2>3. (IF (e - p) % n = 0 THEN n - 1 ELSE ((e - p) % n) - 1) = n - 1 - s
    <3>1. CASE s = 0
      <4>1. (n * 0 + 0) % n = 0 /\ n * 0 + 0 = e - p
        <5>1. 0 \in 0..n-1 /\ n * 0 + 0 = e - p
          BY <2>1, <3>1
        <5>2. QED
          BY <5>1, Quotient
      <4>2. QED
        BY <3>1, <4>1
    <3>2. CASE s # 0
      <4>1. PICK r \in 0..n-1 : r = n - s /\ r # 0
        BY <3>2
      <4>2. (n * (-1) + r) % n = r /\ n * (-1) + r = e - p
        <5>1. n * (-1) + r = e - p
          BY <2>1, <4>1
        <5>2. QED
          BY <5>1, Quotient
      <4>3. (e - p) % n = r
        BY <4>2
      <4>4. QED
        BY <4>1, <4>3
    <3>3. QED
      BY <3>1, <3>2
  <2>4. QED
    BY <2>1, <2>2, <2>3 DEF StepsTo
<1>2. CASE ~(e <= p)
  <2>1. PICK s \in 0..n-1 : s = p - e + n
    BY <1>2
  <2>2. e = Behind(p, s, n)
    <3>1. Behind(p, s, n) = IF s < p THEN p - s ELSE p - s + n
      BY BehindIs
    <3>2. ~(s < p) /\ p - s + n = e
      BY <2>1
    <3>3. QED
      BY <3>1, <3>2
  <2>3. PICK r \in 0..n-1 : r = e - p /\ r # 0 /\ r = n - s
    BY <1>2, <2>1
  <2>4. (n * 0 + r) % n = r /\ n * 0 + r = e - p
    <3>1. n * 0 + r = e - p
      BY <2>3
    <3>2. QED
      BY <3>1, Quotient
  <2>5. (e - p) % n = r
    BY <2>4
  <2>6. (IF (e - p) % n = 0 THEN n - 1 ELSE ((e - p) % n) - 1) = n - 1 - s
    BY <2>3, <2>5
  <2>7. QED
    BY <2>1, <2>2, <2>6 DEF StepsTo
<1>3. QED
  BY <1>1, <1>2

\* The places the half divider of SoftHalf goes on from.
Back(u, n, t) ==
  [w \in 0..n |-> [e \in 1..n |->
     IF t \div Per < u[Behind(e, w, n)].tm \div Per THEN Behind(e, w, n) ELSE e]]

\* Nothing newer than the place the scan starts from is of the cell of t.
Skips(u, p, t, e) == e = p \/ t \div Per < u[e].tm \div Per

LEMMA BackCome ==
  ASSUME NEW u, NEW n \in Nat, NEW t, NEW m \in Nat, NEW p \in 1..n,
         NEW half, Halves(half, n, 1..n, m, Back(u, n, t))
  PROVE  half[n \div 2][p] \in 1..n /\ Skips(u, p, t, half[n \div 2][p])
<1> DEFINE D == 1..n
           N == Back(u, n, t)
           T == {e \in D : Skips(u, p, t, e)}
           R == [w \in 0..n |-> T]
<1>1. ASSUME NEW w \in 0..n, NEW e \in T PROVE N[w][e] \in T
  <2>1. e \in D /\ Skips(u, p, t, e)
    OBVIOUS
  <2>2. Behind(e, w, n) \in D
    <3>1. n \in Nat \ {0} /\ e \in Int /\ w \in Int
      BY <2>1
    <3>2. QED
      BY <3>1, BehindIn
  <2>3. PICK c \in D : c = Behind(e, w, n)
    BY <2>2
  <2>4. N[w][e] = IF t \div Per < u[c].tm \div Per THEN c ELSE e
    BY <2>1, <2>3 DEF Back
  <2>5. Skips(u, p, t, c) => c \in T
    OBVIOUS
  <2> HIDE DEF N, T
  <2>6. CASE t \div Per < u[c].tm \div Per
    BY <2>4, <2>5, <2>6 DEF Skips
  <2>7. CASE ~(t \div Per < u[c].tm \div Per)
    BY <2>4, <2>7
  <2>8. QED
    BY <2>6, <2>7
<1>2. R \in [0..n -> SUBSET D] /\ \A w \in 0..n : R[w] = T
  OBVIOUS
<1>3. p \in T /\ \A e \in T : e \in D /\ Skips(u, p, t, e)
  BY DEF Skips
<1>4. Halves(half, n, D, m, N)
  OBVIOUS
<1>5. n \div 2 \in 0..n
  <2>1. n \div 2 \in Nat /\ 2 * (n \div 2) <= n
    BY HalfOf
  <2>2. QED
    BY <2>1
<1> HIDE DEF N, T, R, D
<1>6. Leads(R, N, n, m)
  <2>1. ASSUME NEW w \in 0..n, NEW c \in R[w], w > m PROVE N[w][c] \in R[w \div 2]
    <3>1. w \in Nat
      OBVIOUS
    <3>2. w \div 2 \in 0..n
      <4>1. w \div 2 \in Nat /\ 2 * (w \div 2) <= w
        BY <3>1, HalfOf
      <4>2. QED
        BY <4>1
    <3>3. c \in T
      BY <1>2
    <3>4. N[w][c] \in T
      BY <1>1, <3>3
    <3>5. QED
      BY <1>2, <3>2, <3>4
  <2>2. QED
    BY <2>1 DEF Leads
<1>7. ComesTo(R, half, n)
  BY <1>2, <1>4, <1>6, HalvesCome
<1>8. PICK x \in 0..n : x = n \div 2 /\ p \in R[x]
  BY <1>2, <1>3, <1>5
<1>9. PICK v \in 0..n : half[x][p] \in R[v]
  BY <1>7, <1>8 DEF ComesTo
<1>10. half[x][p] \in T
  BY <1>2, <1>9
<1>11. QED
  BY <1>3, <1>8, <1>10 DEF D

LEMMA SoftHalfIs ==
  ASSUME ValBufAssumption, NEW b, Len(b.buf) \in Nat \ {0}, NewestPos(b) \in 1..Len(b.buf), NEW t
  PROVE  SoftHalf(b, t) \in 1..Len(b.buf) /\ Skips(b.buf, NewestPos(b), t, SoftHalf(b, t))
<1> DEFINE n == Len(b.buf)
           half[w \in 0..n] == [e \in 1..n |->
             IF w <= HalfDivMinWin THEN e
             ELSE LET c == Behind(e, w, n)
                  IN  half[w \div 2][IF t \div Per < b.buf[c].tm \div Per THEN c ELSE e]]
           N == Back(b.buf, n, t)
           step(h, w) == [e \in 1..n |->
             IF w <= HalfDivMinWin THEN e
             ELSE LET c == Behind(e, w, n)
                  IN  h[w \div 2][IF t \div Per < b.buf[c].tm \div Per THEN c ELSE e]]
<1>1. SoftHalf(b, t) = half[n \div 2][NewestPos(b)]
  BY DEF SoftHalf
<1>2. n \in Nat /\ HalfDivMinWin \in Nat
  BY DEF ValBufAssumption
<1>3. ASSUME NEW h, NEW w \in 0..n
      PROVE  step(h, w) = [e \in 1..n |-> IF w <= HalfDivMinWin THEN e ELSE h[w \div 2][N[w][e]]]
  <2>1. \A e \in 1..n : N[w][e] = IF t \div Per < b.buf[Behind(e, w, n)].tm \div Per THEN Behind(e, w, n) ELSE e
    BY DEF Back
  <2> HIDE DEF N
  <2>2. QED
    BY <2>1
<1>4. half = [w \in 0..n |-> step(half, w)]
  <2>1. SUFFICES \E ff : ff = [w \in 0..n |-> step(ff, w)]
    OBVIOUS
  <2> HIDE DEF half, n, N, step
  <2>2. PICK h : Halves(h, n, 1..n, HalfDivMinWin, N)
    BY <1>2, HalvesExist
  <2>3. h = [w \in 0..n |-> h[w]] /\ \A w \in 0..n : h[w] = step(h, w)
    <3>1. ASSUME NEW w \in 0..n PROVE h[w] = step(h, w)
      <4>1. h[w] = [e \in 1..n |-> IF w <= HalfDivMinWin THEN e ELSE h[w \div 2][N[w][e]]]
        BY <2>2 DEF Halves
      <4>2. QED
        BY <1>3, <4>1
    <3>2. h = [w \in 0..n |-> h[w]]
      BY <2>2 DEF Halves
    <3>3. QED
      BY <3>1, <3>2
  <2>4. QED
    BY <2>3
<1>5. NewestPos(b) \in 1..n
  OBVIOUS
<1> HIDE DEF half, n, step
<1>6. Halves(half, n, 1..n, HalfDivMinWin, N)
  <2> HIDE DEF N
  <2>1. ASSUME NEW w \in 0..n
        PROVE  step(half, w) = [e \in 1..n |-> IF w <= HalfDivMinWin THEN e ELSE half[w \div 2][N[w][e]]]
    BY <1>3
  <2>2. QED
    BY <1>4, <2>1 DEF Halves
<1>7. half[n \div 2][NewestPos(b)] \in 1..n /\ Skips(b.buf, NewestPos(b), t, half[n \div 2][NewestPos(b)])
  BY <1>2, <1>5, <1>6, BackCome
<1>8. QED
  BY <1>1, <1>7 DEF n

\* Cells are counted as they are ordered.
InOrder(x, y) ==
  \E k, l \in Int : /\ k = x \div Per /\ l = y \div Per
                    /\ (x <= y) = (k <= l)
                    /\ (x = y) = (k = l)
                    /\ x - y = Per * (k - l)

LEMMA CellsOrder ==
  ASSUME ValBufAssumption, NEW x \in Int, NEW y \in Int, Cell(x) = x, Cell(y) = y
  PROVE  InOrder(x, y)
<1>1. Per \in Nat \ {0}
  BY DEF ValBufAssumption
<1>2. PICK k \in Int, l \in Int : k = x \div Per /\ l = y \div Per
  BY <1>1, DivMod
<1>3. x = Per * k /\ y = Per * l
  BY <1>2 DEF Cell
<1>4. x <= y <=> k <= l
  <2>1. k <= l => Per * k <= Per * l
    BY <1>1
  <2>2. ASSUME l < k PROVE Per * l < Per * k
    <3>1. Per * (l + 1) <= Per * k /\ Per * (l + 1) = Per * l + Per
      BY <1>1, <2>2
    <3>2. Per * l \in Int /\ Per * k \in Int
      BY <1>1
    <3>3. QED
      BY <1>1, <3>1, <3>2
  <2>3. QED
    BY <1>3, <2>1, <2>2
<1>5. x = y <=> k = l
  <2>1. y <= x <=> l <= k
    <3>1. l <= k => Per * l <= Per * k
      BY <1>1
    <3>2. ASSUME k < l PROVE Per * k < Per * l
      <4>1. Per * (k + 1) <= Per * l /\ Per * (k + 1) = Per * k + Per
        BY <1>1, <3>2
      <4>2. Per * l \in Int /\ Per * k \in Int
        BY <1>1
      <4>3. QED
        BY <1>1, <4>1, <4>2
    <3>3. QED
      BY <1>3, <3>1, <3>2
  <2>2. QED
    BY <1>4, <2>1
<1>6. x - y = Per * (k - l)
  <2>1. Per * (k - l) = Per * k - Per * l
    BY <1>1
  <2>2. QED
    BY <1>3, <2>1
<1>7. QED
  BY <1>2, <1>4, <1>5, <1>6 DEF InOrder

\* The cell that get() at t is to give.
Near(t, up) == IF up THEN CellUp(t) ELSE Cell(t)

IsNear(near, b, t, up) ==
  /\ near \in Int /\ Cell(near) = near /\ b.beg <= near /\ near <= b.end
  /\ near <= Cell(t) + Per /\ (up \/ near = Cell(t))
  /\ (IF up THEN b.end - t ELSE t - b.beg) \div Per =
       IF up THEN (b.end \div Per) - (near \div Per) ELSE (near \div Per) - (b.beg \div Per)

LEMMA NearIs ==
  ASSUME ValBufAssumption, NEW b, NEW beg \in Int, NEW end \in Int, beg = b.beg, end = b.end,
         Cell(beg) = beg, Cell(end) = end,
         NEW t \in Int, beg <= t, t <= end, NEW up \in BOOLEAN
  PROVE  IsNear(Near(t, up), b, t, up)
<1>1. Per \in Nat \ {0}
  BY DEF ValBufAssumption
<1>2. PICK f \in Int : f = Cell(t) /\ Cell(f) = f /\ f <= t /\ t < f + Per
  BY CellIs
<1>3. CASE up
  <2>1. PICK x \in Int : x = t + Per - 1
    BY <1>1
  <2>2. PICK near \in Int : near = Cell(x) /\ Cell(near) = near /\ near <= x /\ x < near + Per
    BY CellIs
  <2>3. t <= near /\ near < t + Per
    BY <1>1, <2>1, <2>2
  <2>4. near <= end
    <3>1. SUFFICES ASSUME end < near PROVE FALSE
      OBVIOUS
    <3>2. end + Per <= near
      BY <2>2, <3>1, CellsApart
    <3>3. QED
      BY <1>1, <2>3, <3>2
  <2>5. near <= f + Per
    <3>1. SUFFICES ASSUME f + Per < near PROVE FALSE
      BY <1>1
    <3>2. PICK g \in Int : g = f + Per /\ Cell(g) = g
      BY <1>2, CellAfter
    <3>3. g + Per <= near
      BY <2>2, <3>1, <3>2, CellsApart
    <3>4. QED
      BY <1>1, <1>2, <2>3, <3>2, <3>3
  <2>6. PICK k \in Int, r \in 0..Per-1 : k = (end \div Per) - (near \div Per) /\ r = near - t /\ end - near = Per * k
    <3>1. InOrder(end, near)
      BY <2>2, CellsOrder
    <3>2. PICK i \in Int, j \in Int : i = end \div Per /\ j = near \div Per /\ end - near = Per * (i - j)
      BY <3>1 DEF InOrder
    <3>3. near - t \in 0..Per-1
      BY <1>1, <2>3
    <3>4. QED
      BY <3>2, <3>3
  <2>7. (end - t) \div Per = k
    <3>1. (Per * k + r) \div Per = k
      BY <1>1, Quotient
    <3>2. Per * k + r = end - t
      BY <2>6
    <3>3. QED
      BY <3>1, <3>2
  <2>8. Near(t, up) = near /\ beg <= near
    BY <1>3, <2>1, <2>2, <2>3 DEF Near, CellUp
  <2>9. QED
    BY <1>2, <1>3, <2>2, <2>4, <2>5, <2>6, <2>7, <2>8 DEF IsNear
<1>4. CASE ~up
  <2>1. beg <= f
    <3>1. SUFFICES ASSUME f < beg PROVE FALSE
      OBVIOUS
    <3>2. f + Per <= beg
      BY <1>2, <3>1, CellsApart
    <3>3. QED
      BY <1>1, <1>2, <3>2
  <2>2. PICK k \in Int, r \in 0..Per-1 : k = (f \div Per) - (beg \div Per) /\ r = t - f /\ f - beg = Per * k
    <3>1. InOrder(f, beg)
      BY <1>2, CellsOrder
    <3>2. PICK i \in Int, j \in Int : i = f \div Per /\ j = beg \div Per /\ f - beg = Per * (i - j)
      BY <3>1 DEF InOrder
    <3>3. t - f \in 0..Per-1
      BY <1>1, <1>2
    <3>4. QED
      BY <3>2, <3>3
  <2>3. (t - beg) \div Per = k
    <3>1. (Per * k + r) \div Per = k
      BY <1>1, Quotient
    <3>2. Per * k + r = t - beg
      BY <2>2
    <3>3. QED
      BY <3>1, <3>2
  <2>4. Near(t, up) = f /\ f <= end /\ f <= f + Per
    BY <1>1, <1>2, <1>4 DEF Near
  <2>5. QED
    BY <1>2, <1>4, <2>1, <2>2, <2>3, <2>4 DEF IsNear
<1>5. QED
  BY <1>3, <1>4

\* How far back the entry u is, in cells, as the scan for up or down counts it.
Far(b, up, u) == IF up THEN (b.end \div Per) - (u \div Per) ELSE (u \div Per) - (b.beg \div Per)

\* The scan back from s entries behind the newest.
Scanned(b, t, up, s, i) ==
  LET npos == (IF up THEN b.end - t ELSE t - b.beg) \div Per
      e    == At(b, s + i)
  IN  [tm  |-> IF Far(b, up, e.tm) = npos THEN e.tm
               ELSE IF up THEN b.end - npos * Per ELSE b.beg + npos * Per,
       val |-> e.val]

ScanHits(b, t, up, s, n) ==
  LET npos == (IF up THEN b.end - t ELSE t - b.beg) \div Per
  IN  {i \in 0..n-1-s : IF up THEN Far(b, up, At(b, s + i).tm) >= npos
                              ELSE Far(b, up, At(b, s + i).tm) <= npos}

ScansFrom(b, t, up, s, n) ==
  /\ s \in 0..n-1
  /\ s = 0 \/ t \div Per < At(b, s).tm \div Per
  /\ SoftGet(b, t, up) = IF ScanHits(b, t, up, s, n) = {} THEN None
                         ELSE Scanned(b, t, up, s, Min(ScanHits(b, t, up, s, n)))

LEMMA SoftScan ==
  ASSUME ValBufAssumption, NEW b, Ringed(b), NEW n \in Nat \ {0}, n = Len(b.buf), NEW t, NEW up \in BOOLEAN
  PROVE  \E s : ScansFrom(b, t, up, s, n)
<1> DEFINE npos  == (IF up THEN b.end - t ELSE t - b.beg) \div Per
           from  == SoftHalf(b, t)
           steps == (from - NewestPos(b)) % Len(b.buf)
           scan  == IF steps = 0 THEN Len(b.buf) - 1 ELSE steps - 1
           w(i)  == LET u == b.buf[Behind(from, i, Len(b.buf))].tm
                    IN  IF up THEN b.end \div Per - u \div Per ELSE u \div Per - b.beg \div Per
           hits  == {i \in 0..scan : IF up THEN w(i) >= npos ELSE w(i) <= npos}
           res(i) == [tm  |-> IF w(i) = npos THEN b.buf[Behind(from, i, Len(b.buf))].tm
                              ELSE IF up THEN b.end - npos * Per ELSE b.beg + npos * Per,
                      val |-> b.buf[Behind(from, i, Len(b.buf))].val]
<1>1. SoftGet(b, t, up) = IF hits = {} THEN None ELSE res(Min(hits))
  BY DEF SoftGet
<1>2. PICK p \in 1..n : p = NewestPos(b)
  BY RingedIs
<1>3. from \in 1..n /\ Skips(b.buf, p, t, from)
  BY <1>2, SoftHalfIs
<1>4. PICK s \in 0..n-1 : from = Behind(p, s, n) /\ scan = n - 1 - s
  <2> HIDE DEF from
  <2>1. PICK e \in 1..n : e = from
    BY <1>3
  <2>2. PICK s : StepsTo(n, p, e, s)
    BY PlaceBehind
  <2>3. QED
    BY <1>2, <2>1, <2>2 DEF StepsTo
<1>5. \A i \in 0..n-1-s : b.buf[Behind(from, i, Len(b.buf))] = At(b, s + i)
  <2> HIDE DEF from
  <2>1. ASSUME NEW i \in 0..n-1-s PROVE b.buf[Behind(from, i, Len(b.buf))] = At(b, s + i)
    <3>1. i \in 0..n-1 /\ s + i <= n - 1
      OBVIOUS
    <3>2. Behind(Behind(p, s, n), i, n) = Behind(p, s + i, n)
      BY <3>1, BehindTwice
    <3>3. QED
      BY <1>2, <1>4, <3>2 DEF At
  <2>2. QED
    BY <2>1
<1>6. s = 0 \/ t \div Per < At(b, s).tm \div Per
  <2>1. At(b, s) = b.buf[from]
    BY <1>2, <1>4 DEF At
  <2>2. CASE from = p
    <3>1. s = 0
      <4>1. Behind(p, s, n) = IF s < p THEN p - s ELSE p - s + n
        BY BehindIs
      <4>2. Behind(p, s, n) = p
        BY <1>4, <2>2
      <4>3. QED
        BY <4>1, <4>2
    <3>2. QED
      BY <3>1
  <2>3. CASE from # p
    BY <1>3, <2>1, <2>3 DEF Skips
  <2>4. QED
    BY <2>2, <2>3
<1>7. \A i \in 0..n-1-s : w(i) = Far(b, up, At(b, s + i).tm)
  <2> HIDE DEF from
  <2>1. QED
    BY <1>5 DEF Far
<1>8. hits = ScanHits(b, t, up, s, n)
  <2>1. 0..scan = 0..n-1-s
    BY <1>4
  <2>2. hits = {i \in 0..n-1-s : IF up THEN w(i) >= npos ELSE w(i) <= npos}
    BY <2>1
  <2> HIDE DEF w, hits, npos
  <2>3. hits = {i \in 0..n-1-s : IF up THEN Far(b, up, At(b, s + i).tm) >= npos
                                       ELSE Far(b, up, At(b, s + i).tm) <= npos}
    BY <1>7, <2>2
  <2>4. QED
    BY <2>3 DEF ScanHits, npos
<1>9. \A i \in 0..n-1-s : res(i) = Scanned(b, t, up, s, i)
  <2>1. ASSUME NEW i \in 0..n-1-s PROVE res(i) = Scanned(b, t, up, s, i)
    <3>1. w(i) = Far(b, up, At(b, s + i).tm) /\ b.buf[Behind(from, i, Len(b.buf))] = At(b, s + i)
      BY <1>5, <1>7
    <3> HIDE DEF w, from
    <3>2. QED
      BY <3>1 DEF Scanned
  <2>2. QED
    BY <2>1
<1> HIDE DEF hits, res
<1>10. hits # {} => Min(hits) \in 0..n-1-s
  <2>1. SUFFICES ASSUME hits # {} PROVE Min(hits) \in 0..n-1-s
    OBVIOUS
  <2>2. hits \subseteq 0..n-1-s
    BY <1>8 DEF ScanHits
  <2>3. hits \subseteq Nat /\ hits \subseteq Int
    BY <2>2
  <2>4. PICK x \in hits : \A y \in hits : x <= y
    BY <2>1, <2>3, LeastNat
  <2>5. Min(hits) = x
    BY <2>3, <2>4, MinIs
  <2>6. QED
    BY <2>2, <2>5
<1>11. SoftGet(b, t, up) = IF hits = {} THEN None ELSE Scanned(b, t, up, s, Min(hits))
  BY <1>1, <1>9, <1>10
<1>12. ScansFrom(b, t, up, s, n)
  BY <1>6, <1>8, <1>11 DEF ScansFrom
<1>13. QED
  BY <1>12

\* Against the cell that is near, an entry is found by its time.
Compares(b, up, x, near) ==
  /\ (IF up THEN Far(b, up, x) >= Far(b, up, near) ELSE Far(b, up, x) <= Far(b, up, near)) = (x <= near)
  /\ (Far(b, up, x) = Far(b, up, near)) = (x = near)
  /\ (IF up THEN b.end - Far(b, up, near) * Per ELSE b.beg + Far(b, up, near) * Per) = near

LEMMA FarIs ==
  ASSUME ValBufAssumption, NEW b, NEW beg \in Int, NEW end \in Int, beg = b.beg, end = b.end,
         Cell(beg) = beg, Cell(end) = end,
         NEW x \in Int, Cell(x) = x, NEW near \in Int, Cell(near) = near, NEW up \in BOOLEAN
  PROVE  Compares(b, up, x, near)
<1>1. Per \in Nat \ {0}
  BY DEF ValBufAssumption
<1>2. PICK k \in Int, l \in Int : /\ k = x \div Per /\ l = near \div Per
                                  /\ (x <= near) = (k <= l) /\ (x = near) = (k = l)
  <2>1. InOrder(x, near)
    BY CellsOrder
  <2>2. QED
    BY <2>1 DEF InOrder
<1>3. PICK e \in Int : e = end \div Per /\ end - near = Per * (e - l)
  <2>1. InOrder(end, near)
    BY CellsOrder
  <2>2. QED
    BY <1>2, <2>1 DEF InOrder
<1>4. PICK g \in Int : g = beg \div Per /\ near - beg = Per * (l - g)
  <2>1. InOrder(near, beg)
    BY CellsOrder
  <2>2. QED
    BY <1>2, <2>1 DEF InOrder
<1>5. CASE up
  <2>1. Far(b, up, x) = e - k /\ Far(b, up, near) = e - l
    BY <1>2, <1>3, <1>5 DEF Far
  <2>2. (e - k >= e - l) = (k <= l) /\ (e - k = e - l) = (k = l)
    OBVIOUS
  <2>3. b.end - Far(b, up, near) * Per = near
    <3>1. (e - l) * Per = Per * (e - l) /\ Per * (e - l) \in Int
      BY <1>1
    <3>2. end - (e - l) * Per = near
      BY <1>3, <3>1
    <3>3. QED
      BY <2>1, <3>2
  <2>4. QED
    BY <1>2, <1>5, <2>1, <2>2, <2>3 DEF Compares
<1>6. CASE ~up
  <2>1. Far(b, up, x) = k - g /\ Far(b, up, near) = l - g
    BY <1>2, <1>4, <1>6 DEF Far
  <2>2. (k - g <= l - g) = (k <= l) /\ (k - g = l - g) = (k = l)
    OBVIOUS
  <2>3. b.beg + Far(b, up, near) * Per = near
    <3>1. (l - g) * Per = Per * (l - g) /\ Per * (l - g) \in Int
      BY <1>1
    <3>2. beg + (l - g) * Per = near
      BY <1>4, <3>1
    <3>3. QED
      BY <2>1, <3>2
  <2>4. QED
    BY <1>2, <1>6, <2>1, <2>2, <2>3 DEF Compares
<1>7. QED
  BY <1>5, <1>6

\* The value of the entry that the cell near is of.
Found(b, t, up, near) ==
  \E j \in 0..Len(b.buf)-1 :
    /\ Spans(b, j, near)
    /\ SoftGet(b, t, up).tm = near /\ SoftGet(b, t, up).val = At(b, j).val
    /\ SoftGet(b, t, up) \in Cells

LEMMA SoftGetIs ==
  ASSUME ValBufAssumption, NEW b, SoftFits(b), Len(b.buf) # 0,
         NEW t \in Int, b.beg <= t, t <= b.end, NEW up \in BOOLEAN
  PROVE  Found(b, t, up, Near(t, up))
<1>1. PICK n \in Nat \ {0} : n = Len(b.buf)
  BY RingedIs DEF SoftFits
<1>2. /\ \A j \in 0..n-1 : At(b, j).tm \in Int /\ Cell(At(b, j).tm) = At(b, j).tm
      /\ \A i, j \in 0..n-1 : i < j => At(b, j).tm < At(b, i).tm
  BY <1>1, RingedIs DEF SoftFits, OnCells, Falls
<1>3. n - 1 \in 0..n-1
  OBVIOUS
<1>4. PICK beg \in Int, end \in Int :
        /\ beg = b.beg /\ end = b.end /\ beg = At(b, n - 1).tm
        /\ Cell(beg) = beg /\ Cell(end) = end /\ beg <= t /\ t <= end
  BY <1>1, <1>2, <1>3, RingedIs DEF SoftFits
<1>5. PICK near \in Int : near = Near(t, up) /\ IsNear(near, b, t, up)
  <2>1. IsNear(Near(t, up), b, t, up)
    BY <1>4, NearIs
  <2>2. QED
    BY <2>1 DEF IsNear
<1>6. /\ Cell(near) = near /\ beg <= near /\ near <= end
      /\ near <= Cell(t) + Per
      /\ (IF up THEN b.end - t ELSE t - b.beg) \div Per = Far(b, up, near)
  BY <1>4, <1>5 DEF IsNear, Far
<1>7. PICK s : ScansFrom(b, t, up, s, n)
  BY <1>1, SoftScan DEF SoftFits
<1>8. s \in 0..n-1 /\ (s = 0 \/ t \div Per < At(b, s).tm \div Per)
  BY <1>7 DEF ScansFrom
<1>9. ASSUME NEW i \in 0..n-1-s PROVE s + i \in 0..n-1 /\ Compares(b, up, At(b, s + i).tm, near)
  <2>1. s + i \in 0..n-1
    BY <1>8
  <2>2. PICK x \in Int : x = At(b, s + i).tm /\ Cell(x) = x
    BY <1>2, <2>1
  <2>3. Compares(b, up, x, near)
    BY <1>4, <1>6, <2>2, FarIs
  <2>4. QED
    BY <2>1, <2>2, <2>3
<1>10. PICK hits : hits = ScanHits(b, t, up, s, n) /\ \A i : i \in hits <=> i \in 0..n-1-s /\ At(b, s + i).tm <= near
  <2>1. ScanHits(b, t, up, s, n) =
          {i \in 0..n-1-s : IF up THEN Far(b, up, At(b, s + i).tm) >= Far(b, up, near)
                                  ELSE Far(b, up, At(b, s + i).tm) <= Far(b, up, near)}
    BY <1>6 DEF ScanHits
  <2>2. QED
    BY <1>9, <2>1 DEF Compares
<1>11. n - 1 - s \in hits
  <2>1. n - 1 - s \in 0..n-1-s /\ s + (n - 1 - s) = n - 1
    BY <1>8
  <2>2. QED
    BY <1>4, <1>6, <1>10, <2>1
<1>12. hits \subseteq Nat /\ hits \subseteq Int /\ hits # {}
  BY <1>10, <1>11
<1>13. PICK i \in hits : \A y \in hits : i <= y
  BY <1>12, LeastNat
<1>14. Min(hits) = i
  BY <1>12, <1>13, MinIs
<1>15. PICK j \in 0..n-1 : j = s + i /\ i \in 0..n-1-s /\ At(b, j).tm <= near
  BY <1>9, <1>10, <1>13
<1>16. SoftGet(b, t, up) = Scanned(b, t, up, s, i)
  BY <1>7, <1>10, <1>12, <1>14 DEF ScansFrom
<1>17. Scanned(b, t, up, s, i).tm = near /\ Scanned(b, t, up, s, i).val = At(b, j).val
  <2>1. Compares(b, up, At(b, j).tm, near)
    BY <1>9, <1>15
  <2>2. QED
    BY <1>6, <1>15, <2>1 DEF Scanned, Compares
<1>18. ASSUME j > 0 PROVE near < At(b, j - 1).tm
  <2>1. j - 1 \in 0..n-1 /\ At(b, j - 1).tm \in Int
    BY <1>2, <1>18
  <2>2. CASE i # 0
    <3>1. PICK k \in 0..n-1-s : k = i - 1 /\ s + k = j - 1 /\ k < i
      BY <1>8, <1>15, <2>2
    <3>2. k \notin hits
      <4>1. k \in hits => i <= k
        BY <1>13
      <4>2. QED
        BY <1>15, <3>1, <4>1
    <3>3. ~(At(b, j - 1).tm <= near)
      BY <1>10, <3>1, <3>2
    <3>4. QED
      BY <2>1, <3>3
  <2>3. CASE i = 0
    <3>1. j = s /\ t \div Per < At(b, j).tm \div Per
      BY <1>8, <1>15, <1>18, <2>3
    <3>2. PICK x \in Int : x = At(b, j).tm /\ Cell(x) = x /\ x <= near /\ x < At(b, j - 1).tm
      BY <1>2, <1>15, <1>18, <2>1
    <3>3. PICK f \in Int : f = Cell(t) /\ Cell(f) = f
      BY CellIs
    <3>4. f < x
      <4>1. Per \in Nat \ {0}
        BY DEF ValBufAssumption
      <4>2. PICK k \in Int, l \in Int : k = t \div Per /\ l = x \div Per /\ k < l
        BY <3>1, <3>2, <4>1, DivMod
      <4>3. f = Per * k /\ x = Per * l
        BY <3>2, <3>3, <4>2 DEF Cell
      <4>4. Per * (k + 1) <= Per * l /\ Per * (k + 1) = Per * k + Per
        BY <4>1, <4>2
      <4>5. Per * k \in Int /\ Per * l \in Int
        BY <4>1
      <4>6. QED
        BY <4>1, <4>3, <4>4, <4>5
    <3>5. f + Per <= x
      BY <3>2, <3>3, <3>4, CellsApart
    <3>6. near <= x
      BY <1>6, <3>3, <3>5 DEF ValBufAssumption
    <3>7. QED
      BY <2>1, <3>2, <3>6
  <2>4. QED
    BY <2>2, <2>3
<1>19. Spans(b, j, near)
  BY <1>4, <1>6, <1>15, <1>18 DEF Spans
<1>20. Scanned(b, t, up, s, i) \in Cells
  <2>1. PICK x, v : Scanned(b, t, up, s, i) = [tm |-> x, val |-> v]
    BY DEF Scanned
  <2>2. x = near /\ v = At(b, j).val
    BY <1>17, <2>1
  <2>3. At(b, j).val \in Vals
    BY <1>1, <1>15, RingedIs DEF SoftFits
  <2>4. QED
    BY <1>5, <2>1, <2>2, <2>3 DEF Cells
<1>21. QED
  BY <1>1, <1>5, <1>15, <1>16, <1>17, <1>19, <1>20 DEF Found

\* Of times the buffer has get() searches the ring itself.
LEMMA SoftGot ==
  ASSUME grid = "soft", NEW b, b.beg \in Int, b.end \in Int,
         NEW t \in Int, b.beg <= t, t <= b.end, NEW up \in BOOLEAN
  PROVE  Get(b, t, up) = SoftGet(b, t, up)
<1>1. up => Max({t, b.beg}) = t
  <2>1. {t, b.beg} \subseteq Int /\ t \in {t, b.beg} /\ \A y \in {t, b.beg} : y <= t
    OBVIOUS
  <2>2. QED
    BY <2>1, MaxIs
<1>2. ~up => Min({t, b.end}) = t
  <2>1. {t, b.end} \subseteq Int /\ t \in {t, b.end} /\ \A y \in {t, b.end} : t <= y
    OBVIOUS
  <2>2. QED
    BY <2>1, MinIs
<1>3. ~(up /\ t > b.end) /\ ~(~up /\ t < b.beg)
  OBVIOUS
<1>4. (IF up THEN Max({t, b.beg}) ELSE Min({t, b.end})) = t
  BY <1>1, <1>2
<1>5. QED
  BY <1>3, <1>4 DEF Get

LEMMA SoftGives ==
  ASSUME ValBufAssumption, SoftInv, SoftMode
  PROVE  GetRight
<1> grid = "soft"
  BY DEF SoftMode
<1>1. SUFFICES ASSUME NEW t \in Held, NEW up \in BOOLEAN
               PROVE  LET g == Get(tb, t, up)
                          near == IF up THEN CellUp(t) ELSE Cell(t)
                      IN  g.val = told[near] /\ Cell(g.tm) = near
  BY DEF GetRight
<1>2. tb.end # 0 /\ t \in tb.beg..tb.end
  BY DEF Held
<1>3. SoftOn(tb, told, first)
  BY <1>2 DEF SoftInv, Rests, Empty
<1>4. /\ SoftFits(tb) /\ Len(tb.buf) # 0 /\ Follows(tb, told)
      /\ tb.beg \in Int /\ tb.end \in Int
  BY <1>3, SoftOnIs DEF SoftOn
<1>5. t \in Int /\ tb.beg <= t /\ t <= tb.end
  BY <1>2, <1>4
<1>6. Get(tb, t, up) = SoftGet(tb, t, up)
  BY <1>4, <1>5, SoftGot
<1>7. PICK near : near = Near(t, up) /\ Found(tb, t, up, near)
  BY <1>4, <1>5, SoftGetIs
<1>8. PICK j \in 0..Len(tb.buf)-1 :
        /\ Spans(tb, j, near)
        /\ SoftGet(tb, t, up).tm = near /\ SoftGet(tb, t, up).val = At(tb, j).val
  BY <1>7 DEF Found
<1>9. near \in Int /\ Cell(near) = near
  <2>1. Cell(t) \in Int /\ CellUp(t) \in Int
    <3>1. t + Per - 1 \in Int
      BY <1>5 DEF ValBufAssumption
    <3>2. QED
      BY <1>5, <3>1, CellIs DEF CellUp
  <2>2. QED
    BY <1>7, <1>8, <2>1 DEF Near, Spans
<1>10. told[near] = At(tb, j).val
  BY <1>4, <1>8, <1>9 DEF Follows
<1>11. near = IF up THEN CellUp(t) ELSE Cell(t)
  BY <1>7 DEF Near
<1>12. QED
  BY <1>6, <1>8, <1>9, <1>10, <1>11

\* get() of the soft grid (src/src/tarchval.cpp:499) at any time from its begin to
\* its end gives the value last told for the cell of that time, or for the next
\* one when it searches upward, and the time of that cell: though only changes
\* are kept, wherever its half divider stops and the ring is wrapped.
THEOREM SoftGetRight == Spec => [](SoftMode => GetRight)
<1>1. SoftInv => (SoftMode => GetRight)
  BY SoftGives, ValBufAssumption
<1>2. QED
  BY <1>1, SoftGridGoes, PTL

\* On the soft grid cells are lost only to a ring that was full (set(),
\* src/src/tarchval.cpp:676): then its changes are as many cells as it was made
\* for, or more.
THEOREM SoftNewestKept == Spec => [](SoftMode => NewestKept)
<1>1. SoftInv => (SoftMode => NewestKept)
  BY SoftKeeps, ValBufAssumption
<1>2. QED
  BY <1>1, SoftGridGoes, PTL

-----------------------------------------------------------------------------
(* Types                                                                   *)

LEMMA TimeIs ==
  ASSUME ValBufAssumption, BoundAssumption
  PROVE  \E m \in Nat : /\ Time = 0..m /\ \A t \in Times : t \in Nat /\ t <= m
                        /\ \A x \in Int : x \in Time <=> 0 <= x /\ x <= m
<1>1. Times \subseteq Int /\ Times # {} /\ IsFiniteSet(Times)
  BY DEF ValBufAssumption, BoundAssumption
<1>2. PICK m \in Times : \A t \in Times : t <= m
  <2>1. PICK n \in Nat : \E f : f \in Surjection(1..n, Times)
    BY <1>1, FS_NatSurjection DEF ExistsSurjection
  <2>2. PICK f : f \in [1..n -> Times] /\ \A t \in Times : \E i \in 1..n : f[i] = t
    BY <2>1 DEF Surjection
  <2> DEFINE S == {k \in Nat : k <= n => \E x \in Nat : \A i \in 1..k : f[i] <= x}
  <2>3. 0 \in S
    <3>1. \A i \in 1..0 : f[i] <= 0
      OBVIOUS
    <3>2. QED
      BY <3>1
  <2>4. ASSUME NEW k \in Nat, k \in S PROVE k + 1 \in S
    <3>1. SUFFICES ASSUME k + 1 <= n PROVE \E x \in Nat : \A i \in 1..k+1 : f[i] <= x
      OBVIOUS
    <3>2. PICK x \in Nat : \A i \in 1..k : f[i] <= x
      BY <2>4, <3>1
    <3>3. PICK y \in Nat : y = f[k + 1]
      <4>1. k + 1 \in 1..n
        BY <3>1
      <4>2. QED
        BY <2>2, <4>1 DEF ValBufAssumption
    <3>4. \A i \in 1..k+1 : f[i] <= x + y
      <4>1. ASSUME NEW i \in 1..k+1 PROVE f[i] <= x + y
        <5>1. i \in 1..n
          BY <3>1
        <5>2. f[i] \in Nat
          BY <2>2, <5>1 DEF ValBufAssumption
        <5>3. i \in 1..k \/ i = k + 1
          OBVIOUS
        <5>4. QED
          BY <3>2, <3>3, <5>2, <5>3
      <4>2. QED
        BY <4>1
    <3>5. x + y \in Nat
      OBVIOUS
    <3>6. QED
      BY <3>4, <3>5
  <2> HIDE DEF S
  <2>5. Nat \subseteq S
    BY <2>3, <2>4, Counting
  <2>6. PICK x \in Nat : \A i \in 1..n : f[i] <= x
    <3>1. n \in S /\ n <= n
      BY <2>1, <2>5
    <3>2. QED
      BY <3>1 DEF S
  <2>7. \A t \in Times : t <= x
    BY <2>2, <2>6
  <2>8. Times \subseteq Nat
    BY DEF ValBufAssumption
  <2>9. QED
    BY <1>1, <2>7, <2>8, GreatestNat
<1>3. Max(Times) = m
  BY <1>1, <1>2, MaxIs
<1>4. m \in Nat /\ \A t \in Times : t \in Nat
  BY DEF ValBufAssumption
<1>5. QED
  BY <1>2, <1>3, <1>4 DEF Time

Typed(b) == b.buf \in Seq(Entry) /\ b.beg \in Time /\ b.evalCnt \in 0..EvalMod-1

ToldTyped ==
  /\ DOMAIN told \subseteq Time /\ \A x \in DOMAIN told : told[x] \in Vals
  /\ grid # "flow" => told = <<>> \/ DOMAIN told # {}
  /\ grid # "flow" => \A x \in DOMAIN told : Cell(x) = x

\* On the soft grid a ring has an entry before it has an end.
TypeInv ==
  /\ grid \in Grids /\ hgResTm \in BOOLEAN /\ fillLast \in BOOLEAN
  /\ size \in Sizes /\ room \in Sizes /\ sets \in 0..MaxSets /\ first \in Time
  /\ ToldTyped
  /\ Typed(tb) /\ tb.end \in Time
  /\ grid = "flow" => tb.cur = 0
  /\ grid = "soft" => Ringed(tb) /\ (Len(tb.buf) = 0 => tb.end = 0)

TypesKept == HardInv /\ FlowInv /\ TypeInv

\* The cell of a time, and the times kept, are times too.
LEMMA TimesKept ==
  ASSUME ValBufAssumption, BoundAssumption, NEW t \in Time
  PROVE  t \in Int /\ 0 <= t /\ Cell(t) \in Time /\ Stored(t) \in Time
<1>1. PICK m \in Nat : \A x \in Int : x \in Time <=> 0 <= x /\ x <= m
  BY TimeIs
<1>2. t \in Int /\ 0 <= t /\ t <= m
  BY <1>1 DEF Time
<1>3. Cell(t) \in Int /\ Cell(t) <= t /\ 0 <= Cell(t)
  <2>1. PICK f \in Int : f = Cell(t) /\ f <= t /\ t < f + Per /\ f = Per * (t \div Per)
    BY <1>2, CellIs
  <2>2. t \div Per \in Nat /\ Per \in Nat
    BY <1>2 DEF ValBufAssumption
  <2>3. Per * (t \div Per) >= 0
    BY <2>2
  <2>4. QED
    BY <2>1, <2>3
<1>4. Stored(t) \in Int /\ Stored(t) <= t /\ 0 <= Stored(t)
  <2>1. Stored(0) = 0
    BY DEF Stored, ValBufAssumption
  <2>2. QED
    BY <1>2, <2>1, StoredIs
<1>5. QED
  BY <1>1, <1>2, <1>3, <1>4

LEMMA CountIs ==
  ASSUME ValBufAssumption, NEW x \in Int
  PROVE  x % EvalMod \in 0..EvalMod-1
<1>1. EvalMod \in Nat \ {0}
  BY DEF ValBufAssumption
<1>2. QED
  BY <1>1, DivMod

LEMMA NoneTyped ==
  ASSUME ValBufAssumption, BoundAssumption
  PROVE  Typed(Empty) /\ Empty.end \in Time /\ Empty.cur = 0 /\ 0 \in Time
<1>1. 0 \in Time
  BY TimeIs
<1>2. <<>> \in Seq(Entry)
  OBVIOUS
<1>3. 0 \in 0..EvalMod-1
  BY DEF ValBufAssumption
<1>4. QED
  BY <1>1, <1>2, <1>3 DEF Typed, Empty

\* Writing an entry over another, or after all.
LEMMA WriteTyped ==
  ASSUME ValBufAssumption, BoundAssumption, SizesFit, grid = "soft",
         NEW b, Ringed(b), Typed(b), NEW e \in Entry
  PROVE  /\ Ringed(Write(b, e)) /\ Typed(Write(b, e))
         /\ Write(b, e).end = b.end /\ Len(Write(b, e).buf) # 0
<1>1. e \in Cells
  BY DEF Entry, Cells, Time
<1>2. Ringed(Write(b, e)) /\ Write(b, e).end = b.end /\ Len(Write(b, e).buf) # 0
  BY <1>1, WriteIs DEF Written
<1>3. PICK s, n, cur : s = b.buf /\ n = Len(s) /\ cur = b.cur
  OBVIOUS
<1>4. s \in Seq(Entry) /\ n \in Nat /\ DOMAIN s = 1..n /\ cur \in Nat /\ cur <= n /\ b.evalCnt \in Int
  BY <1>3, RingedIs DEF Typed
<1>5. \A i \in 1..n : Cell(s[i].tm) \in Time
  <2>1. ASSUME NEW i \in 1..n PROVE Cell(s[i].tm) \in Time
    <3>1. s[i] \in Entry
      BY <1>3, <1>4, ElementOfSeq
    <3>2. s[i].tm \in Time
      BY <3>1 DEF Entry
    <3>3. QED
      BY <3>2, TimesKept
  <2>2. QED
    BY <2>1
<1>6. PICK next : next = (IF cur + 1 >= n THEN 1 ELSE cur + 2)
  OBVIOUS
<1>7. cur < n => cur + 1 \in 1..n /\ next \in 1..n
  BY <1>4, <1>6
<1>8. PICK w : w = Write(b, e)
  OBVIOUS
<1>9. w.buf = IF cur < n THEN [s EXCEPT ![cur + 1] = e] ELSE Append(s, e)
  BY <1>3, <1>8 DEF Write
<1>10. w.buf \in Seq(Entry)
  <2>1. CASE cur < n
    <3>1. cur + 1 \in 1..Len(s)
      BY <1>3, <1>7, <2>1
    <3>2. QED
      BY <1>4, <1>9, <2>1, <3>1, ExceptSeq
  <2>2. CASE ~(cur < n)
    <3>1. Append(s, e) \in Seq(Entry)
      BY <1>4, AppendProperties
    <3>2. QED
      BY <1>9, <2>2, <3>1
  <2>3. QED
    BY <2>1, <2>2
<1>11. w.beg \in Time
  <2>1. w.beg = IF ~(cur < n) THEN b.beg ELSE Cell(s[next].tm)
    BY <1>3, <1>6, <1>8 DEF Write
  <2>2. QED
    BY <1>5, <1>7, <2>1 DEF Typed
<1>12. w.evalCnt \in 0..EvalMod-1
  <2>1. PICK x \in Int : x = b.evalCnt + Counted(e.val)
                              - (IF cur < n THEN Counted(s[cur + 1].val) ELSE 0)
    <3>1. PICK y \in Int, z \in Int : y = Counted(e.val) /\ z = Counted(s[cur + 1].val)
      BY DEF Counted
    <3>2. PICK u \in Int : u = b.evalCnt
      BY <1>4
    <3>3. u + y - (IF cur < n THEN z ELSE 0) \in Int
      OBVIOUS
    <3>4. QED
      BY <3>1, <3>2, <3>3
  <2>2. w.evalCnt = x % EvalMod
    BY <1>3, <1>8, <2>1 DEF Write
  <2>3. QED
    BY <2>2, CountIs
<1>13. QED
  BY <1>2, <1>8, <1>10, <1>11, <1>12 DEF Typed

LEMMA SoftNextTyped ==
  ASSUME ValBufAssumption, BoundAssumption, SizesFit, grid = "soft",
         NEW b, Ringed(b), Typed(b), NEW e \in Entry
  PROVE  Typed(SoftNext(b, e))
<1>1. PICK x : /\ x = (IF b.buf # <<>> /\ b.buf[NewestPos(b)].val = e.val THEN b ELSE Write(b, e))
               /\ Typed(x) /\ x \in Ring
  BY WriteTyped DEF Ringed
<1>2. SoftNext(b, e) = [x EXCEPT !.end = x.end + Per]
  BY <1>1 DEF SoftNext
<1>3. PICK d : d = [x EXCEPT !.end = x.end + Per]
  OBVIOUS
<1>4. d.buf = x.buf /\ d.beg = x.beg /\ d.evalCnt = x.evalCnt
  BY <1>1, <1>3 DEF Ring
<1>5. QED
  BY <1>1, <1>2, <1>3, <1>4 DEF Typed

\* The cells of one set() on the soft grid.
LEMMA SoftCellsTyped ==
  ASSUME ValBufAssumption, BoundAssumption, SizesFit, grid = "soft",
         NEW b, Ringed(b), Typed(b), 0 <= b.end,
         NEW n \in Nat \ {0}, NEW value \in Vals, NEW tm \in Time, b.end + Per * n <= tm
  PROVE  LET d == SoftCells(b, n, value, tm)
         IN  Ringed(d) /\ Typed(d) /\ d.end \in Time /\ Len(d.buf) # 0
<1>1. tm \in Int
  BY TimesKept
<1>2. PICK c : SoftSteps(c, b, n, value, tm)
  BY <1>1, SoftCellsGoOn
<1>3. /\ c[0] = b /\ SoftCells(b, n, value, tm) = c[n]
      /\ \A i \in 0..n : Ringed(c[i])
      /\ \A i \in 1..n : c[i] = SoftNext(c[i-1], SoftEntry(b, n, value, tm, i, c[i-1]))
  BY <1>2 DEF SoftSteps
<1>4. Per \in Nat \ {0} /\ b.end \in Int /\ Fill(b) \in Vals
  BY RingedIs, SoftFillIs DEF ValBufAssumption
<1>5. PICK m \in Nat : \A x \in Int : x \in Time <=> 0 <= x /\ x <= m
  BY TimeIs
<1> DEFINE S == {k \in Nat : k <= n => /\ Typed(c[k]) /\ c[k].end = b.end + Per * k
                                       /\ (k # 0 => Len(c[k].buf) # 0)}
<1>6. 0 \in S
  BY <1>3, <1>4
<1>7. ASSUME NEW k \in Nat, k \in S PROVE k + 1 \in S
  <2>1. SUFFICES ASSUME k + 1 <= n
                 PROVE  /\ Typed(c[k + 1]) /\ c[k + 1].end = b.end + Per * (k + 1)
                        /\ Len(c[k + 1].buf) # 0
    OBVIOUS
  <2>2. k \in 0..n /\ k + 1 \in 1..n /\ (k + 1) - 1 = k
    BY <2>1
  <2>3. PICK x : x = c[k] /\ Ringed(x) /\ Typed(x) /\ x.end = b.end + Per * k
    BY <1>3, <1>7, <2>1, <2>2
  <2>4. PICK e : e = SoftEntry(b, n, value, tm, k + 1, x)
    OBVIOUS
  <2>5. x.end + Per = b.end + Per * (k + 1) /\ x.end + Per \in Int
    <3>1. Per * (k + 1) = Per * k + Per /\ Per * k \in Int
      BY <1>4
    <3>2. QED
      BY <1>4, <2>3, <3>1
  <2>6. x.end + Per \in Time
    <3>1. Per * (k + 1) <= Per * n /\ 0 <= Per * (k + 1) /\ Per * n \in Int /\ Per * (k + 1) \in Int
      BY <1>4, <2>1
    <3>2. tm <= m
      BY <1>1, <1>5
    <3>3. 0 <= x.end + Per /\ x.end + Per <= m
      BY <1>1, <1>4, <2>5, <3>1, <3>2
    <3>4. QED
      BY <1>5, <2>5, <3>3
  <2>7. e \in Entry
    <3>1. Stored(x.end + Per) \in Time /\ Stored(tm) \in Time
      BY <2>6, TimesKept
    <3>2. QED
      BY <1>4, <2>4, <3>1 DEF SoftEntry, Entry
  <2>8. c[k + 1] = SoftNext(x, e)
    BY <1>3, <2>2, <2>3, <2>4
  <2>9. e \in Cells
    BY <2>7 DEF Entry, Cells, Time
  <2>10. Typed(SoftNext(x, e)) /\ SoftNext(x, e).end = x.end + Per /\ Len(SoftNext(x, e).buf) # 0
    BY <2>3, <2>7, <2>9, SoftNextTyped, SoftNextRinged
  <2>11. QED
    BY <2>5, <2>8, <2>10
<1> HIDE DEF S
<1>8. Nat \subseteq S
  BY <1>6, <1>7, Counting
<1>9. n \in S /\ n <= n /\ n \in 0..n
  BY <1>8
<1>10. Typed(c[n]) /\ c[n].end = b.end + Per * n /\ Len(c[n].buf) # 0
  BY <1>9 DEF S
<1>11. b.end + Per * n \in Time
  <2>1. 0 <= Per * n /\ Per * n \in Int
    BY <1>4
  <2>2. tm <= m
    BY <1>1, <1>5
  <2>3. b.end + Per * n \in Int /\ 0 <= b.end + Per * n /\ b.end + Per * n <= m
    BY <1>1, <1>4, <2>1, <2>2
  <2>4. QED
    BY <1>5, <2>3
<1>12. QED
  BY <1>3, <1>9, <1>10, <1>11

\* What is set to on the grids, from nothing or from an end before.
LEMMA BegunTyped ==
  ASSUME ValBufAssumption, BoundAssumption, SizesFit, grid = "soft", NEW b, Ringed(b), Typed(b),
         b.end \in Time, NEW tm \in Times
  PROVE  LET c == Begun(b, tm)
         IN  /\ Ringed(c) /\ Typed(c) /\ c.buf = b.buf /\ c.end \in Int /\ 0 <= c.end
             /\ b.end # 0 => c.end = b.end
             /\ b.end = 0 => c.end + Per <= tm
             /\ tm \in Time
<1>1. tm \in Time /\ tm \in Int /\ 2 * Per <= tm /\ Per \in Nat \ {0}
  BY TimeIs DEF ValBufAssumption
<1>2. PICK f \in Int : f = Cell(tm) /\ f <= tm /\ tm < f + Per /\ f \in Time
  BY <1>1, CellIs, TimesKept
<1>3. PICK x, y : /\ x = (IF b.end # 0 THEN b.end ELSE f - Per)
                  /\ y = (IF b.beg # 0 THEN b.beg ELSE f)
  OBVIOUS
<1>4. Per * (tm \div Per) = f
  BY <1>2 DEF Cell
<1>5. Begun(b, tm) = [b EXCEPT !.end = x, !.beg = y]
  BY <1>2, <1>3, <1>4 DEF Begun
<1>6. PICK c : c = [b EXCEPT !.end = x, !.beg = y]
  OBVIOUS
<1>7. b.end \in Int /\ 0 <= b.end /\ b.beg \in Int
  BY RingedIs, TimesKept
<1>8. x \in Int /\ y \in Int /\ 0 <= x /\ (b.end # 0 => x = b.end) /\ (b.end = 0 => x + Per <= tm)
  BY <1>1, <1>2, <1>3, <1>7
<1>9. y \in Time
  BY <1>2, <1>3 DEF Typed
<1>10. /\ c \in Ring /\ c.buf = b.buf /\ c.cur = b.cur /\ c.beg = y /\ c.end = x
       /\ c.evalCnt = b.evalCnt
  BY <1>6, <1>8 DEF Ringed, Ring
<1>11. Ringed(c) /\ Typed(c)
  BY <1>9, <1>10 DEF Ringed, Typed
<1>12. QED
  BY <1>1, <1>5, <1>6, <1>8, <1>10, <1>11

LEMMA SoftSetTyped ==
  ASSUME ValBufAssumption, BoundAssumption, SizesFit, grid = "soft", TypeInv,
         NEW tm \in Times, NEW value \in Vals, ~TooOld(Begun(tb, tm), tm)
  PROVE  LET d == SetTo(tb, value, tm)
         IN  Ringed(d) /\ Typed(d) /\ d.end \in Time /\ Len(d.buf) # 0
<1>1. PICK c : /\ c = Begun(tb, tm) /\ Ringed(c) /\ Typed(c) /\ c.buf = tb.buf
               /\ c.end \in Int /\ 0 <= c.end
               /\ tb.end # 0 => c.end = tb.end
               /\ tb.end = 0 => c.end + Per <= tm
  BY BegunTyped DEF TypeInv
<1>2. tm \in Time /\ tm \in Int /\ Per \in Nat \ {0}
  BY TimeIs DEF ValBufAssumption
<1>3. PICK x \in Int : x = tm - c.end
  BY <1>1, <1>2
<1>4. PICK k : k = Quot(tm - c.end, Per)
  OBVIOUS
<1>5. /\ k \in Int /\ k >= 0 /\ (k # 0 => Per * k <= x)
      /\ Per <= x => k # 0
  <2>1. k = Quot(x, Per) /\ ~(k < 0)
    BY <1>1, <1>3, <1>4 DEF TooOld
  <2>2. CASE x >= 0
    <3>1. PICK q \in Int, r \in 0..Per-1 : q = x \div Per /\ x = Per * q + r
      BY <1>2, DivMod
    <3>2. k = q
      BY <2>1, <2>2, <3>1 DEF Quot
    <3>3. Per * k <= x
      BY <1>2, <3>1, <3>2
    <3>4. k = 0 => x < Per
      BY <1>2, <3>1, <3>2
    <3>5. QED
      BY <1>2, <2>1, <3>2, <3>3, <3>4
  <2>3. CASE ~(x >= 0)
    <3>1. PICK q \in Int : q = (-x) \div Per /\ q >= 0
      <4>1. -x \in Nat
        BY <2>3
      <4>2. (-x) \div Per \in Nat
        BY <1>2, <4>1
      <4>3. QED
        BY <4>2
    <3>2. k = -q
      BY <2>1, <2>3, <3>1 DEF Quot
    <3>3. k = 0
      BY <2>1, <3>1, <3>2
    <3>4. QED
      BY <1>2, <2>3, <3>3
  <2>4. QED
    BY <2>2, <2>3
<1>6. SetTo(tb, value, tm) = SoftSet(c, value, tm)
  BY <1>1 DEF SetTo
<1>7. CASE k # 0
  <2>1. SoftSet(c, value, tm) = SoftCells(c, k, value, tm)
    BY <1>4, <1>5, <1>7 DEF SoftSet
  <2>2. k \in Nat \ {0} /\ c.end + Per * k <= tm
    <3>1. Per * k \in Int /\ Per * k <= x
      BY <1>2, <1>5, <1>7
    <3>2. QED
      BY <1>1, <1>2, <1>3, <1>5, <1>7, <3>1
  <2>3. QED
    BY <1>1, <1>2, <1>6, <2>1, <2>2, SoftCellsTyped
<1>8. CASE k = 0
  <2>1. tb.end # 0
    <3>1. ~(Per <= x)
      BY <1>5, <1>8
    <3>2. tb.end = 0 => Per <= x
      BY <1>1, <1>2, <1>3
    <3>3. QED
      BY <3>1, <3>2
  <2>2. c.end \in Time /\ Len(c.buf) # 0
    BY <1>1, <2>1 DEF TypeInv
  <2>3. PICK e \in Entry : e = [tm |-> Stored(c.end), val |-> value]
    BY <2>2, TimesKept DEF Entry
  <2>4. PICK p : p = NewestPos(c) /\ p \in 1..Len(c.buf)
    BY <1>1, <2>2, RingedIs
  <2>5. CASE Quot(c.buf[p].tm - c.end, Per) # 0
    <3>1. SoftSet(c, value, tm) = Write(c, e)
      BY <1>4, <1>8, <2>3, <2>4, <2>5 DEF SoftSet
    <3>2. QED
      BY <1>1, <1>6, <2>2, <3>1, WriteTyped
  <2>6. CASE ~(Quot(c.buf[p].tm - c.end, Per) # 0)
    <3>1. SoftSet(c, value, tm) = [c EXCEPT !.buf[p] = e]
      BY <1>4, <1>8, <2>3, <2>4, <2>6 DEF SoftSet
    <3>2. PICK d : d = [c EXCEPT !.buf[p] = e]
      OBVIOUS
    <3>3. PICK s : s = [c.buf EXCEPT ![p] = e]
      OBVIOUS
    <3>4. c.buf \in Seq(Entry) /\ c.buf \in Seq(Cells) /\ e \in Cells
      <4>1. c.buf \in Seq(Entry)
        BY <1>1 DEF Typed
      <4>2. c.buf \in Seq(Cells)
        BY <1>1, RingedIs
      <4>3. e \in Cells
        BY DEF Entry, Cells, Time
      <4>4. QED
        BY <4>1, <4>2, <4>3
    <3>5. s \in Seq(Entry) /\ s \in Seq(Cells) /\ Len(s) = Len(c.buf)
      BY <2>4, <3>3, <3>4, ExceptSeq
    <3>6. /\ d \in Ring /\ d.buf = s /\ d.cur = c.cur /\ d.beg = c.beg /\ d.end = c.end
          /\ d.evalCnt = c.evalCnt
      BY <1>1, <3>2, <3>3, <3>5 DEF Ringed, Ring
    <3>7. Ringed(d) /\ Typed(d)
      BY <1>1, <3>5, <3>6 DEF Ringed, Typed
    <3>8. QED
      BY <1>6, <2>2, <3>1, <3>2, <3>5, <3>6, <3>7
  <2>7. QED
    BY <2>5, <2>6
<1>9. QED
  BY <1>7, <1>8

\* What is told stays of times and values.
LEMMA ToldKept ==
  ASSUME ValBufAssumption, BoundAssumption, ToldTyped, grid \in Grids,
         NEW tm \in Times, NEW value \in Vals
  PROVE  LET h == ToldWith(value, tm)
         IN  /\ DOMAIN h \subseteq Time /\ \A x \in DOMAIN h : h[x] \in Vals
             /\ grid # "flow" => DOMAIN h # {} /\ \A x \in DOMAIN h : Cell(x) = x
<1>1. tm \in Time /\ tm \in Int /\ Per \in Nat \ {0} /\ Eval \in Vals
  BY TimeIs DEF ValBufAssumption
<1>2. PICK h : h = ToldWith(value, tm)
  OBVIOUS
<1>3. CASE grid = "flow"
  <2>1. PICK t \in Time : t = Stored(tm)
    BY <1>1, TimesKept
  <2> DEFINE flow == [x \in {t} \union DOMAIN told |-> IF x = t THEN value ELSE told[x]]
             old == IF size # 0 /\ Cardinality(DOMAIN flow) > size THEN {Min(DOMAIN flow)} ELSE {}
  <2>2. h = Restrict(flow, DOMAIN flow \ old)
    BY <1>2, <1>3, <2>1 DEF ToldWith
  <2>3. DOMAIN flow \subseteq Time /\ \A x \in DOMAIN flow : flow[x] \in Vals
    BY DEF ToldTyped
  <2> HIDE DEF flow, old
  <2>4. h = [x \in DOMAIN flow \ old |-> flow[x]]
    BY <2>2 DEF Restrict
  <2>5. QED
    BY <1>2, <1>3, <2>3, <2>4
<1>4. CASE grid # "flow"
  <2> DEFINE last == Max(DOMAIN told)
  <2>1. PICK m \in Nat : Time = 0..m /\ \A x \in Int : x \in Time <=> 0 <= x /\ x <= m
    BY TimeIs
  <2>2. ASSUME told # <<>>
        PROVE  last \in DOMAIN told /\ last \in Int /\ 0 <= last /\ last \in Time /\ Cell(last) = last
    <3>1. DOMAIN told # {} /\ DOMAIN told \subseteq Nat /\ \A x \in DOMAIN told : x <= m
      BY <1>4, <2>1, <2>2 DEF ToldTyped
    <3>2. PICK x \in DOMAIN told : \A y \in DOMAIN told : y <= x
      BY <3>1, GreatestNat
    <3>3. last = x
      BY <3>1, <3>2, MaxIs
    <3>4. QED
      BY <1>4, <3>1, <3>3 DEF ToldTyped
  <2> HIDE DEF last
  <2>3. CellTold(tm) \in Time /\ CellTold(tm) \in Int /\ Cell(CellTold(tm)) = CellTold(tm)
    <3>1. Cell(tm) \in Time /\ Cell(tm) \in Int /\ Cell(Cell(tm)) = Cell(tm)
      BY <1>1, TimesKept, CellIs
    <3>2. ASSUME told # <<>>, tm < last
          PROVE  CellUp(tm) \in Time /\ CellUp(tm) \in Int /\ Cell(CellUp(tm)) = CellUp(tm)
      <4>1. PICK x \in Int : x = tm + Per - 1
        BY <1>1
      <4>2. PICK u \in Int : u = Cell(x) /\ u <= x /\ x < u + Per /\ Cell(u) = u
        BY CellIs
      <4>3. ~(last < u)
        <5>1. last < u => last + Per <= u
          BY <2>2, <3>2, <4>2, CellsApart
        <5>2. QED
          BY <1>1, <2>2, <3>2, <4>1, <4>2, <5>1
      <4>4. 0 <= u /\ u <= m
        BY <1>1, <2>1, <2>2, <3>2, <4>1, <4>2, <4>3
      <4>5. QED
        BY <2>1, <4>1, <4>2, <4>4 DEF CellUp
    <3>3. CASE told # <<>> /\ tm < last
      <4>1. CellTold(tm) = CellUp(tm)
        BY <3>3 DEF CellTold, last
      <4>2. QED
        BY <3>2, <3>3, <4>1
    <3>4. CASE ~(told # <<>> /\ tm < last)
      <4>1. CellTold(tm) = Cell(tm)
        BY <3>4 DEF CellTold, last
      <4>2. QED
        BY <3>1, <4>1
    <3>5. QED
      BY <3>3, <3>4
  <2>4. PICK c : c = CellTold(tm) /\ c \in Time /\ c \in Int /\ Cell(c) = c
    BY <2>3
  <2> DEFINE new == IF told = <<>> THEN {c} ELSE {last + i * Per : i \in 1..((c - last) \div Per)}
             fill == IF fillLast /\ told # <<>> THEN told[last] ELSE Eval
  <2>5. h = [x \in {c} \union new \union DOMAIN told |->
               IF x = c THEN value ELSE IF x \in new THEN fill ELSE told[x]]
    BY <1>2, <1>4, <2>4 DEF ToldWith, last
  <2>6. fill \in Vals
    BY <1>1, <2>2 DEF ToldTyped
  <2>7. \A x \in new : x \in Time /\ Cell(x) = x
    <3>1. CASE told = <<>>
      BY <2>4, <3>1
    <3>2. CASE told # <<>>
      <4>1. PICK l \in Int : l = last /\ 0 <= l /\ Cell(l) = l
        BY <2>2, <3>2
      <4>2. PICK q \in Int, r \in 0..Per-1 : q = (c - l) \div Per /\ c - l = Per * q + r
        <5>1. c - l \in Int
          BY <2>4
        <5>2. QED
          BY <5>1, PerSplit
      <4>3. ASSUME NEW i \in 1..q PROVE l + i * Per \in Time /\ Cell(l + i * Per) = l + i * Per
        <5>1. i * Per \in Int /\ 0 <= i * Per /\ Per * q - i * Per = Per * (q - i)
              /\ Per * (q - i) >= 0 /\ Per * q \in Int
          BY <1>1
        <5>2. l + i * Per <= c
          BY <2>4, <4>2, <5>1
        <5>3. c <= m
          BY <2>1, <2>4
        <5>4. l + i * Per \in Time
          BY <2>1, <2>4, <4>1, <5>1, <5>2, <5>3
        <5>5. Cell(l + Per * i) = l + Per * i /\ i * Per = Per * i
          <6>1. PICK y \in Int : y = Per * i /\ i * Per = y
            BY <1>1
          <6>2. i \in Int /\ 0 \in 0..Per-1
            BY <1>1
          <6>3. Cell(l + Per * i + 0) = l + Per * i
            BY <4>1, <6>2, CellPlus
          <6>4. l + y + 0 = l + y
            OBVIOUS
          <6>5. QED
            BY <6>1, <6>3, <6>4
        <5>6. QED
          BY <5>4, <5>5
      <4>4. new = {l + i * Per : i \in 1..q}
        BY <3>2, <4>1, <4>2
      <4>5. QED
        BY <4>3, <4>4
    <3>3. QED
      BY <3>1, <3>2
  <2> HIDE DEF new, fill
  <2>8. QED
    BY <1>2, <1>4, <2>4, <2>5, <2>6, <2>7 DEF ToldTyped
<1>5. QED
  BY <1>3, <1>4

\* The cells of one set() on the hard grid keep no times.
LEMMA HardNextEntries ==
  ASSUME ValBufAssumption, BoundAssumption, SizesFit, grid = "hard",
         NEW b, Fits(b), b.buf \in Seq(Entry), NEW v \in Vals
  PROVE  HardNext(b, v).buf \in Seq(Entry)
<1>1. PICK e \in Entry : e = [tm |-> 0, val |-> v]
  <2>1. 0 \in Time
    BY NoneTyped
  <2>2. QED
    BY <2>1 DEF Entry
<1>2. PICK c : c = HardNext(b, v)
  OBVIOUS
<1>3. /\ b.cur < Len(b.buf) => c.buf = [b.buf EXCEPT ![b.cur + 1] = e]
      /\ ~(b.cur < Len(b.buf)) => c.buf = Append(b.buf, e)
  BY <1>1, <1>2, NextIs
<1>4. Len(b.buf) \in Nat /\ b.cur \in Nat
  BY RingIs
<1>5. CASE b.cur < Len(b.buf)
  <2>1. b.cur + 1 \in 1..Len(b.buf)
    BY <1>4, <1>5
  <2>2. QED
    BY <1>2, <1>3, <1>5, <2>1, ExceptSeq
<1>6. CASE ~(b.cur < Len(b.buf))
  <2>1. Append(b.buf, e) \in Seq(Entry)
    BY AppendProperties
  <2>2. QED
    BY <1>2, <1>3, <1>6, <2>1
<1>7. QED
  BY <1>5, <1>6

LEMMA HardCellsEntries ==
  ASSUME ValBufAssumption, BoundAssumption, SizesFit, grid = "hard",
         NEW b, Fits(b), b.buf \in Seq(Entry), NEW n \in Nat, NEW value \in Vals
  PROVE  HardCells(b, n, value).buf \in Seq(Entry)
<1>1. PICK c : /\ c[0] = b
               /\ \A i \in 1..n : c[i] = HardNext(c[i-1], CellVal(b, n, value, i))
               /\ HardCells(b, n, value) = c[n]
  BY CellsGoOn
<1>2. \A i \in 1..n : CellVal(b, n, value, i) \in Vals
  BY FillIs DEF CellVal
<1> DEFINE S == {k \in Nat : k <= n => Fits(c[k]) /\ c[k].buf \in Seq(Entry)}
<1>3. 0 \in S
  BY <1>1
<1>4. ASSUME NEW k \in Nat, k \in S PROVE k + 1 \in S
  <2>1. SUFFICES ASSUME k + 1 <= n PROVE Fits(c[k + 1]) /\ c[k + 1].buf \in Seq(Entry)
    OBVIOUS
  <2>2. k + 1 \in 1..n /\ (k + 1) - 1 = k
    BY <2>1
  <2>3. PICK x : x = c[k] /\ Fits(x) /\ x.buf \in Seq(Entry)
    BY <1>4, <2>1
  <2>4. PICK v \in Vals : v = CellVal(b, n, value, k + 1)
    BY <1>2, <2>2
  <2>5. c[k + 1] = HardNext(x, v)
    BY <1>1, <2>2, <2>3, <2>4
  <2>6. QED
    BY <2>3, <2>5, NextFits, HardNextEntries
<1> HIDE DEF S
<1>5. Nat \subseteq S
  BY <1>3, <1>4, Counting
<1>6. n \in S /\ n <= n
  BY <1>5
<1>7. QED
  BY <1>1, <1>6 DEF S

LEMMA HardSetEntries ==
  ASSUME ValBufAssumption, BoundAssumption, SizesFit, grid = "hard", Rests \/ Goes, tb.buf \in Seq(Entry),
         NEW tm \in Times, NEW value \in Vals, ~TooOld(Begun(tb, tm), tm)
  PROVE  SetTo(tb, value, tm).buf \in Seq(Entry)
<1>1. CASE Rests
  <2>1. PICK c : c = Begun(tb, tm) /\ Fits(c) /\ Quot(tm - c.end, Per) = 1
    BY <1>1, BegunFirst
  <2>2. c.buf = tb.buf
    BY <1>1, <2>1 DEF Begun, Rests, Empty
  <2>3. PICK n \in Nat : n = 1
    OBVIOUS
  <2>4. SetTo(tb, value, tm) = HardCells(c, n, value)
    BY <2>1, <2>3 DEF SetTo, HardSet
  <2>5. QED
    BY <2>1, <2>2, <2>4, HardCellsEntries
<1>2. CASE Goes
  <2>1. /\ tb.beg \in Int /\ tb.end \in Int /\ Len(tb.buf) \in Nat \ {0} /\ Per <= tb.beg /\ tb.beg <= tb.end
        /\ Cell(tb.end) = tb.end /\ Fits(tb)
    BY <1>2, GoesIs DEF Goes, GoesOn
  <2>2. tm \in Int /\ Per \in Nat \ {0}
    BY DEF ValBufAssumption
  <2>3. Begun(tb, tm) = tb
    <3>1. tb.beg # 0 /\ tb.end # 0
      BY <2>1, <2>2
    <3>2. tb = [buf |-> tb.buf, cur |-> tb.cur, beg |-> tb.beg, end |-> tb.end, evalCnt |-> tb.evalCnt]
      BY <2>1 DEF Fits, Ring
    <3>3. QED
      BY <3>1, <3>2 DEF Begun
  <2>4. PICK k \in Int : k = Quot(tm - tb.end, Per)
    BY <2>1, <2>2, CellOf
  <2>5. SetTo(tb, value, tm) = HardSet(tb, value, tm)
    BY <2>3 DEF SetTo
  <2>6. CASE k > 0
    <3>1. SetTo(tb, value, tm) = HardCells(tb, k, value)
      BY <2>4, <2>5, <2>6 DEF HardSet
    <3>2. k \in Nat
      BY <2>6
    <3>3. QED
      BY <2>1, <3>1, <3>2, HardCellsEntries
  <2>7. CASE ~(k > 0)
    <3>1. PICK n \in Nat \ {0} : n = Len(tb.buf)
      BY <2>1
    <3>2. -k \in 0..n-1
      <4>1. ~(k < 0 /\ -k >= n)
        BY <2>3, <2>4, <3>1 DEF TooOld
      <4>2. QED
        BY <2>7, <3>1, <4>1
    <3>3. PICK p : p = NewestPos(tb) /\ p \in 1..n
      BY <2>1, <3>1, RingIs
    <3>4. PICK pos : pos = Behind(p, -k, n) /\ pos \in 1..Len(tb.buf)
      BY <3>1, <3>2, <3>3, BehindIs
    <3>5. PICK s : s = tb.buf
      OBVIOUS
    <3>6. s[pos] \in Entry
      BY <3>4, <3>5, ElementOfSeq
    <3>7. PICK e \in Entry : e = [s[pos] EXCEPT !.val = value]
      BY <3>6 DEF Entry
    <3>8. HardSet(tb, value, tm) =
            [tb EXCEPT !.buf[pos].val = value,
                       !.evalCnt = (@ + Counted(value) - Counted(tb.buf[pos].val)) % EvalMod]
      BY <2>4, <2>7, <3>1, <3>3, <3>4 DEF HardSet
    <3>9. tb \in Ring
      BY <2>1 DEF Fits
    <3>10. HardSet(tb, value, tm).buf = [s EXCEPT ![pos] = e]
      BY <3>5, <3>7, <3>8, <3>9 DEF Ring
    <3>11. [s EXCEPT ![pos] = e] \in Seq(Entry)
      BY <3>4, <3>5, ExceptSeq
    <3>12. QED
      BY <2>5, <3>10, <3>11
  <2>8. QED
    BY <2>6, <2>7
<1>3. QED
  BY <1>1, <1>2

\* The counter of a flow and its cursor, which a flow has no use for.
LEMMA FlowSetCounts ==
  ASSUME ValBufAssumption, NEW b, Shaped(b), b.evalCnt \in Int, NEW value, NEW tm, NEW at
  PROVE  /\ FlowSetAt(b, value, tm, at).evalCnt \in 0..EvalMod-1
         /\ FlowSetAt(b, value, tm, at).cur = b.cur
<1>1. PICK d : d = FlowSetAt(b, value, tm, at)
  OBVIOUS
<1> DEFINE n == Len(b.buf)
           e == [tm |-> Stored(tm), val |-> value]
           in == InsertAt(b.buf, at, e)
           to == IF size # 0 /\ n + 1 > size THEN Tail(in) ELSE in
<1>2. CASE at <= n /\ b.buf[at].tm = e.tm
  <2>1. PICK y \in Int : y = Counted(b.buf[at].val)
    BY DEF Counted
  <2>2. PICK x \in Int : x = b.evalCnt - y
    OBVIOUS
  <2>3. d = [b EXCEPT !.buf[at] = e, !.evalCnt = (b.evalCnt - y) % EvalMod]
    BY <1>1, <1>2, <2>1 DEF FlowSetAt
  <2>4. d.evalCnt = x % EvalMod /\ d.cur = b.cur
    BY <2>2, <2>3 DEF Shaped
  <2>5. QED
    BY <1>1, <2>4, CountIs
<1>3. CASE ~(at <= n /\ b.buf[at].tm = e.tm)
  <2>1. PICK y \in Int : y = Counted(value)
    BY DEF Counted
  <2>2. PICK z \in Int : z = IF to = in THEN 0 ELSE Counted(Head(in).val)
    <3>1. Counted(Head(in).val) \in Int
      BY DEF Counted
    <3>2. QED
      BY <3>1
  <2>3. PICK x \in Int : x = b.evalCnt + y - z
    OBVIOUS
  <2>4. d = [b EXCEPT !.buf = to, !.beg = Head(to).tm, !.end = Last(to).tm,
                      !.evalCnt = (b.evalCnt + y - z) % EvalMod]
    BY <1>1, <1>3, <2>1, <2>2 DEF FlowSetAt
  <2> HIDE DEF to, in
  <2>5. d.evalCnt = x % EvalMod /\ d.cur = b.cur
    BY <2>3, <2>4 DEF Shaped
  <2>6. QED
    BY <1>1, <2>5, CountIs
<1>4. QED
  BY <1>2, <1>3

LEMMA FlowSetTyped ==
  ASSUME ValBufAssumption, BoundAssumption, FlowInv, TypeInv, grid = "flow",
         NEW tm \in Times, NEW value \in Vals
  PROVE  LET d == SetTo(tb, value, tm)
         IN  Typed(d) /\ d.end \in Time /\ d.cur = 0
<1>1. PICK h : /\ h = ToldWith(value, tm)
               /\ DOMAIN h \subseteq Time
  BY ToldKept DEF TypeInv
<1>2. PICK d : d = SetTo(tb, value, tm) /\ Flows(d, h) /\ Len(d.buf) # 0
  BY <1>1, FlowSetFlows
<1>3. d.buf \in Seq(Cells) /\ Ended(d) /\ DOMAIN h = TimesOf(d.buf)
  BY <1>2 DEF Flows, Tells
<1>4. PICK s, n : s = d.buf /\ n = Len(s) /\ n \in Nat \ {0} /\ DOMAIN s = 1..n
  BY <1>2, <1>3, EntriesAre
<1>5. \A i \in 1..n : s[i].tm \in Time
  BY <1>1, <1>3, <1>4 DEF TimesOf
<1>6. s \in Seq(Entry)
  <2>1. \A i \in 1..n : s[i] \in Entry
    <3>1. ASSUME NEW i \in 1..n PROVE s[i] \in Entry
      <4>1. s[i] \in Cells /\ s[i].tm \in Time
        BY <1>3, <1>4, <1>5, EntriesAre
      <4>2. QED
        BY <4>1 DEF Cells, Entry
    <3>2. QED
      BY <3>1
  <2>2. s \in [1..n -> Entry]
    BY <1>3, <1>4, <2>1
  <2>3. QED
    BY <1>4, <2>2
<1>7. d.beg \in Time /\ d.end \in Time
  BY <1>3, <1>4, <1>5 DEF Ended
<1>8. PICK c : c = Begun(tb, tm) /\ Flows(c, told)
  BY BegunFlows DEF FlowInv
<1>9. c.cur = 0 /\ c.evalCnt \in Int
  <2>1. Shaped(tb) /\ tb.cur = 0 /\ tb.evalCnt \in Int
    BY DEF FlowInv, Flows, TypeInv, Typed
  <2>2. PICK x, y : c = [tb EXCEPT !.end = x, !.beg = y]
    BY <1>8 DEF Begun
  <2>3. c.cur = tb.cur /\ c.evalCnt = tb.evalCnt
    BY <2>1, <2>2 DEF Shaped
  <2>4. QED
    BY <2>1, <2>3
<1>10. d.evalCnt \in 0..EvalMod-1 /\ d.cur = 0
  <2>1. Stored(tm) \in Int /\ Shaped(c) /\ c.buf \in Seq(Cells) /\ Rising(c.buf)
    BY <1>8, StoredTime DEF Flows
  <2>2. PICK at : FlowSet(c, value, tm) = FlowSetAt(c, value, tm, at)
    BY <2>1, FlowPlace
  <2>3. d = FlowSetAt(c, value, tm, at)
    BY <1>2, <1>8, <2>2 DEF SetTo
  <2>4. QED
    BY <1>9, <2>1, <2>3, FlowSetCounts
<1>11. QED
  BY <1>2, <1>4, <1>6, <1>7, <1>10 DEF Typed

LEMMA RingTyped ==
  ASSUME ValBufAssumption, BoundAssumption, SizesFit,
         NEW d, NEW h, NEW begin, GoesOn(d, h, begin), DOMAIN h \subseteq Time, d.buf \in Seq(Entry)
  PROVE  Typed(d) /\ d.end \in Time
<1>1. PICK m \in Nat : \A x \in Int : x \in Time <=> 0 <= x /\ x <= m
  BY TimeIs
<1>2. /\ Fits(d) /\ d.beg \in Int /\ d.end \in Int /\ Per \in Nat \ {0}
      /\ begin \in Int /\ Per <= begin /\ begin <= d.beg
  BY RingIs DEF GoesOn, ValBufAssumption
<1>3. d.beg <= d.end
  <2>1. PICK n \in Nat : n = Len(d.buf) - 1
    <3>1. Len(d.buf) \in Nat /\ Len(d.buf) # 0
      BY <1>2, RingIs DEF GoesOn
    <3>2. \A x \in Nat : x # 0 => x - 1 \in Nat
      OBVIOUS
    <3>3. QED
      BY <3>1, <3>2
  <2>2. Per * n \in Nat /\ d.end = d.beg + Per * n
    BY <1>2, <2>1 DEF Fits
  <2>3. QED
    BY <1>2, <2>2
<1>4. d.end \in Time
  <2>1. Cell(d.end) = d.end /\ begin <= d.end
    BY <1>2, <1>3 DEF GoesOn
  <2>2. d.end \in DOMAIN h
    BY <1>2, <2>1 DEF GoesOn
  <2>3. QED
    BY <2>2
<1>5. d.beg \in Time
  BY <1>1, <1>2, <1>3, <1>4
<1>6. d.evalCnt \in 0..EvalMod-1
  <2>1. PICK k \in Int : k = Cardinality(Errors(d.buf))
    BY <1>2, RingIs, ErrorsFinite
  <2>2. QED
    BY <1>2, <2>1, CountIs DEF Fits
<1>7. QED
  BY <1>4, <1>5, <1>6 DEF Typed

LEMMA HardSetTyped ==
  ASSUME ValBufAssumption, BoundAssumption, HardInv, TypeInv, grid = "hard",
         NEW tm \in Times, NEW value \in Vals, ~TooOld(Begun(tb, tm), tm)
  PROVE  LET d == SetTo(tb, value, tm)
         IN  Typed(d) /\ d.end \in Time
<1>1. SizesFit /\ (Rests \/ Goes) /\ tb.buf \in Seq(Entry)
  BY DEF HardInv, TypeInv, Typed
<1>2. PICK d : d = SetTo(tb, value, tm) /\ d.buf \in Seq(Entry)
  BY <1>1, HardSetEntries
<1>3. PICK h : h = ToldWith(value, tm) /\ DOMAIN h \subseteq Time
  BY ToldKept DEF TypeInv
<1>4. \E begin : GoesOn(d, h, begin)
  BY <1>1, <1>2, <1>3, SetFirst, SetNext
<1>5. QED
  BY <1>1, <1>2, <1>3, <1>4, RingTyped

LEMMA SetKeepsTypes ==
  ASSUME ValBufAssumption, BoundAssumption, TypesKept,
         NEW tm \in Times, NEW value \in Vals, Set(value, tm)
  PROVE  TypeInv'
<1>1. /\ tb' = SetTo(tb, value, tm) /\ told' = ToldWith(value, tm)
      /\ first' = IF told = <<>> THEN Cell(tm) ELSE first
      /\ grid' = grid /\ hgResTm' = hgResTm /\ fillLast' = fillLast
      /\ size' = size /\ room' = room
      /\ ~TooOld(Begun(tb, tm), tm)
  BY DEF Set, mode
<1>2. HardInv /\ FlowInv /\ TypeInv /\ SizesFit /\ grid \in {"hard", "soft", "flow"}
  BY DEF TypesKept, HardInv, TypeInv, ValBufAssumption
<1>3. sets' \in 0..MaxSets
  <2>1. sets \in Nat /\ sets < MaxSets /\ sets' = sets + 1 /\ MaxSets \in Nat
    BY <1>2 DEF TypeInv, Set, BoundAssumption
  <2>2. QED
    BY <2>1
<1>4. first' \in Time
  <2>1. tm \in Time
    BY TimeIs
  <2>2. Cell(tm) \in Time
    BY <2>1, TimesKept
  <2>3. QED
    BY <1>1, <1>2, <2>2 DEF TypeInv
<1>5. ToldTyped'
  <2>1. /\ DOMAIN told' \subseteq Time /\ \A x \in DOMAIN told' : told'[x] \in Vals
        /\ grid # "flow" => DOMAIN told' # {} /\ \A x \in DOMAIN told' : Cell(x) = x
    BY <1>1, <1>2, ToldKept DEF TypeInv
  <2>2. QED
    BY <1>1, <2>1 DEF ToldTyped, Time, Cell
<1>6. /\ Typed(tb') /\ tb'.end \in Time
      /\ grid = "flow" => tb'.cur = 0
      /\ grid = "soft" => Ringed(tb') /\ Len(tb'.buf) # 0
  BY <1>1, <1>2, HardSetTyped, SoftSetTyped, FlowSetTyped
<1>7. Typed(tb)' /\ tb'.end \in Time'
  BY <1>6 DEF Typed, Entry, Time
<1>8. grid = "soft" => Ringed(tb)'
  BY <1>1, <1>6 DEF Ringed
<1>9. QED
  BY <1>1, <1>2, <1>3, <1>4, <1>5, <1>6, <1>7, <1>8 DEF TypeInv, Time

\* The buffer is emptied.
LEMMA EmptyTyped ==
  ASSUME ValBufAssumption, BoundAssumption,
         grid' \in Grids, hgResTm' \in BOOLEAN, fillLast' \in BOOLEAN,
         size' \in Sizes, room' \in Sizes, sets' \in 0..MaxSets,
         tb' = Empty, told' = <<>>, first' = 0
  PROVE  TypeInv'
<1>1. Typed(tb') /\ 0 \in Time /\ tb'.end = 0 /\ tb'.cur = 0
  BY NoneTyped DEF Empty
<1>2. Typed(tb)'
  BY <1>1 DEF Typed, Entry, Time
<1>3. 0 \in Time'
  BY <1>1 DEF Time
<1>4. ToldTyped'
  BY DEF ToldTyped
<1>5. Ringed(tb)'
  <2>1. PICK s : s = <<>> /\ s \in Seq(Cells) /\ Len(s) = 0
    BY NoEntries
  <2>2. tb'.buf = s /\ tb' = [buf |-> s, cur |-> 0, beg |-> 0, end |-> 0, evalCnt |-> 0]
    BY <2>1 DEF Empty
  <2>3. tb' \in Ring
    BY <2>1, <2>2 DEF Ring
  <2>4. size' \in Nat
    BY DEF ValBufAssumption
  <2>5. QED
    BY <1>1, <2>1, <2>2, <2>3, <2>4 DEF Ringed
<1>6. QED
  BY <1>1, <1>2, <1>3, <1>4, <1>5 DEF TypeInv

LEMMA UntouchedTyped ==
  ASSUME TypeInv, UNCHANGED <<grid, hgResTm, tb, told, first, room, sets>>,
         fillLast' \in BOOLEAN, size' \in Sizes, Ringed(tb) => Ringed(tb)'
  PROVE  TypeInv'
<1>1. ToldTyped'
  BY DEF TypeInv, ToldTyped, Time, Cell
<1>2. Typed(tb)'
  BY DEF TypeInv, Typed, Entry, Time
<1>3. QED
  BY <1>1, <1>2 DEF TypeInv, Time

LEMMA ClearKeepsTypes ==
  ASSUME ValBufAssumption, BoundAssumption, TypeInv, Clear
  PROVE  TypeInv'
<1>1. /\ grid' = grid /\ hgResTm' = hgResTm /\ fillLast' = fillLast /\ size' = size /\ room' = size
      /\ sets' = sets /\ tb' = Empty /\ told' = <<>> /\ first' = 0
  BY DEF Clear, Forget, mode
<1>2. QED
  BY <1>1, EmptyTyped DEF TypeInv

LEMMA MakeBufKeepsTypes ==
  ASSUME ValBufAssumption, BoundAssumption, TypeInv,
         NEW isz \in Sizes, NEW g \in Grids, NEW hgRes \in BOOLEAN, MakeBuf(isz, g, hgRes)
  PROVE  TypeInv'
<1>1. /\ size' = isz /\ grid' = g /\ hgResTm' = hgRes /\ fillLast' = fillLast /\ sets' = sets
      /\ isz \in Nat /\ size \in Nat
  BY DEF MakeBuf, TypeInv, ValBufAssumption
<1>2. CASE isz < size \/ size = 0 \/ g # grid \/ hgRes # hgResTm
  <2>1. tb' = Empty /\ told' = <<>> /\ first' = 0 /\ room' = isz
    BY <1>2 DEF MakeBuf, Forget
  <2>2. QED
    BY <1>1, <2>1, EmptyTyped DEF TypeInv
<1>3. CASE ~(isz < size \/ size = 0 \/ g # grid \/ hgRes # hgResTm)
  <2>1. /\ tb' = tb /\ told' = told /\ first' = first /\ room' = room /\ grid' = grid
        /\ hgResTm' = hgResTm /\ size # 0 /\ size <= isz
    BY <1>1, <1>3 DEF MakeBuf
  <2>2. ASSUME Ringed(tb) PROVE Ringed(tb)'
    <3>1. tb.cur \in Nat /\ Len(tb.buf) \in Nat /\ tb.cur < size /\ Len(tb.buf) <= size
      BY <2>1, <2>2, RingedIs DEF Ringed
    <3>2. tb.cur < isz /\ Len(tb.buf) <= isz /\ isz # 0
      BY <1>1, <2>1, <3>1
    <3>3. QED
      BY <1>1, <2>1, <2>2, <3>2 DEF Ringed
  <2>3. QED
    BY <1>1, <2>1, <2>2, UntouchedTyped DEF TypeInv
<1>4. QED
  BY <1>2, <1>3

LEMMA TypeStep ==
  ASSUME ValBufAssumption, BoundAssumption, TypesKept, [Next]_vars
  PROVE  TypesKept'
<1>1. HardInv' /\ FlowInv' /\ TypeInv
  BY HardStep, FlowStep DEF TypesKept
<1> SUFFICES TypeInv'
  BY <1>1 DEF TypesKept
<1>2. ASSUME NEW value \in Vals, NEW tm \in Times, Set(value, tm) PROVE TypeInv'
  BY <1>2, SetKeepsTypes
<1>3. ASSUME NEW tm \in Times, AttrSetOld(tm) PROVE TypeInv'
  BY <1>1, <1>3, ClearKeepsTypes DEF AttrSetOld
<1>4. CASE Clear
  BY <1>1, <1>4, ClearKeepsTypes
<1>5. ASSUME NEW isz \in Sizes, NEW g \in Grids, NEW hgRes \in BOOLEAN, MakeBuf(isz, g, hgRes)
      PROVE  TypeInv'
  BY <1>1, <1>5, MakeBufKeepsTypes
<1>6. ASSUME UNCHANGED <<grid, hgResTm, size, tb, told, first, room, sets>>, fillLast' \in BOOLEAN
      PROVE  TypeInv'
  <2>1. Ringed(tb) => Ringed(tb)'
    BY <1>6 DEF Ringed
  <2>2. QED
    BY <1>1, <1>6, <2>1, UntouchedTyped DEF TypeInv
<1>7. CASE SetFillLast
  <2>1. fillLast' \in BOOLEAN
    BY <1>7 DEF SetFillLast
  <2>2. QED
    BY <1>6, <1>7, <2>1 DEF SetFillLast
<1>8. CASE UNCHANGED vars
  BY <1>1, <1>6, <1>8 DEF vars, mode, TypeInv
<1>9. QED
  BY <1>2, <1>3, <1>4, <1>5, <1>7, <1>8 DEF Next

\* The types are those of the invariant, the bounds of a ring and of a flow
\* those it keeps.
LEMMA TypesAre ==
  ASSUME ValBufAssumption, TypesKept
  PROVE  TypeOK
<1>1. HardInv /\ FlowInv /\ TypeInv /\ SizesFit /\ size \in Nat
  BY DEF TypesKept, HardInv, SizesFit
<1>2. grid \in {"hard", "soft", "flow"} /\ Len(tb.buf) \in Nat
  BY <1>1 DEF TypeInv, Typed, ValBufAssumption
<1>3. (size = 0 \/ Len(tb.buf) <= size) /\ tb.cur \in 0..Len(tb.buf)
  <2>1. CASE grid = "hard" /\ Rests
    BY <1>1, <1>2, <2>1 DEF Rests, Empty
  <2>2. CASE grid = "hard" /\ Goes
    <3>1. Fits(tb) /\ tb.cur \in Nat
      BY <1>1, <2>2, RingIs DEF Goes, GoesOn
    <3>2. QED
      BY <1>1, <1>2, <3>1 DEF Fits
  <2>3. CASE grid = "soft"
    <3>1. Ringed(tb) /\ tb.cur \in Nat
      BY <1>1, <2>3, RingedIs DEF TypeInv
    <3>2. QED
      BY <1>1, <1>2, <3>1 DEF Ringed
  <2>4. CASE grid = "flow"
    BY <1>1, <1>2, <2>4 DEF TypeInv, FlowInv, Flows, InSize
  <2>5. QED
    BY <1>1, <1>2, <2>1, <2>2, <2>3, <2>4 DEF HardInv
<1>4. DOMAIN told \subseteq Time /\ Range(told) \subseteq Vals
  BY <1>1 DEF TypeInv, ToldTyped, Range
<1>5. QED
  BY <1>1, <1>3, <1>4 DEF TypeOK, TypeInv, Typed

\* The buffer is of its types on every grid, in whatever order set(), clear() and
\* makeBuf() (src/src/tarchval.cpp:429-483, 614-882) are called: it holds no more
\* than its size, its cursor stays within it, its entries and both its ends are
\* not later than the times it was given, and its counter keeps its width.
THEOREM Types == Spec => []TypeOK
<1>1. Init => TypesKept
  <2>1. SUFFICES ASSUME Init PROVE TypesKept
    OBVIOUS
  <2>2. FlowInv /\ HardInv
    BY <2>1, ValBufAssumption, FlowStart DEF Init, HardInv, SizesFit, Rests, ValBufAssumption
  <2>3. TypeInv
    <3>1. Typed(tb) /\ 0 \in Time /\ tb.end = 0 /\ tb.cur = 0
      BY <2>1, ValBufAssumption, BoundAssumption, NoneTyped DEF Init, Empty
    <3>2. ToldTyped
      BY <2>1 DEF Init, ToldTyped
    <3>3. Ringed(tb)
      <4>1. PICK s : s = <<>> /\ s \in Seq(Cells) /\ Len(s) = 0
        BY NoEntries
      <4>2. tb.buf = s /\ tb = [buf |-> s, cur |-> 0, beg |-> 0, end |-> 0, evalCnt |-> 0]
        BY <2>1, <4>1 DEF Init, Empty
      <4>3. tb \in Ring /\ size \in Nat
        BY <2>1, <4>1, <4>2, ValBufAssumption DEF Ring, Init, ValBufAssumption
      <4>4. QED
        BY <3>1, <4>1, <4>2, <4>3 DEF Ringed
    <3>4. 0 \in 0..MaxSets
      BY BoundAssumption DEF BoundAssumption
    <3>5. QED
      BY <2>1, <3>1, <3>2, <3>3, <3>4 DEF Init, TypeInv
  <2>4. QED
    BY <2>2, <2>3 DEF TypesKept
<1>2. TypesKept /\ [Next]_vars => TypesKept'
  BY ValBufAssumption, BoundAssumption, TypeStep
<1>3. TypesKept => TypeOK
  BY ValBufAssumption, TypesAre
<1>4. QED
  BY <1>1, <1>2, <1>3, PTL DEF Spec

-----------------------------------------------------------------------------
(* The sets of a copy, one after another                                   *)

\* What set() of the entries of s, one after another, makes of an empty buffer.
CopyOf(s) == LET set(c, g) == SetTo(c, g.val, g.tm) IN FoldLeft(set, Empty, s)

\* The positions in S are set one after another, the last of them at the end.
SetsOf(s, S, it) ==
  IF S = {} THEN Empty ELSE SetTo(it[S \ {Max(S)}], s[Max(S)].val, s[Max(S)].tm)

LEMMA FoldIs ==
  ASSUME NEW s
  PROVE  \E it : /\ it = CHOOSE x : x = [S \in SUBSET DOMAIN s |-> SetsOf(s, S, x)]
                 /\ CopyOf(s) = it[DOMAIN s]
  BY DEF CopyOf, FoldLeft, MapThenFoldSet, SetsOf

LEMMA SetsFrom ==
  ASSUME NEW s, NEW n \in Nat
  PROVE  \E it : it = [S \in SUBSET (1..n) |-> SetsOf(s, S, it)]
<1> DEFINE P(k, f) == f = [S \in SUBSET (1..k) |-> SetsOf(s, S, f)]
           N == {k \in Nat : \E f : P(k, f)}
<1> SUFFICES \E f : P(n, f)
  OBVIOUS
<1>1. 0 \in N
  <2> DEFINE f == [S \in SUBSET (1..0) |-> Empty]
  <2>1. \A S \in SUBSET (1..0) : S = {}
    OBVIOUS
  <2>2. \A S \in SUBSET (1..0) : SetsOf(s, S, f) = Empty
    BY <2>1 DEF SetsOf
  <2>3. P(0, f)
    BY <2>2
  <2>4. QED
    BY <2>3
<1>2. ASSUME NEW k \in Nat, k \in N PROVE k + 1 \in N
  <2>1. PICK f : P(k, f)
    BY <1>2
  <2>2. \A S \in SUBSET (1..k) : f[S] = SetsOf(s, S, f)
    BY <2>1
  <2> DEFINE g == [S \in SUBSET (1..k+1) |-> IF S \in SUBSET (1..k) THEN f[S] ELSE SetsOf(s, S, f)]
  <2>3. 1..k \subseteq 1..k+1 /\ 1..k+1 = (1..k) \union {k + 1} /\ k + 1 \notin 1..k
    OBVIOUS
  <2>4. \A S \in SUBSET (1..k) : g[S] = f[S]
    BY <2>3
  <2>5. \A S \in SUBSET (1..k+1) : g[S] = IF S \in SUBSET (1..k) THEN f[S] ELSE SetsOf(s, S, f)
    OBVIOUS
  <2> HIDE DEF g
  <2>6. ASSUME NEW S \in SUBSET (1..k+1) PROVE SetsOf(s, S, g) = SetsOf(s, S, f)
    <3>1. CASE S = {}
      BY <3>1 DEF SetsOf
    <3>2. CASE S # {}
      <4>1. S \ {Max(S)} \in SUBSET (1..k)
        <5>1. CASE k + 1 \in S
          <6>1. S \subseteq Int /\ \A y \in S : y <= k + 1
            OBVIOUS
          <6>2. Max(S) = k + 1
            BY <5>1, <6>1, MaxIs
          <6>3. QED
            BY <2>3, <6>2
        <5>2. CASE k + 1 \notin S
          BY <2>3, <5>2
        <5>3. QED
          BY <5>1, <5>2
      <4>2. g[S \ {Max(S)}] = f[S \ {Max(S)}]
        BY <2>4, <4>1
      <4>3. QED
        BY <3>2, <4>2 DEF SetsOf
    <3>3. QED
      BY <3>1, <3>2
  <2>7. \A S \in SUBSET (1..k+1) : g[S] = SetsOf(s, S, g)
    BY <2>2, <2>5, <2>6
  <2>8. g = [S \in SUBSET (1..k+1) |-> g[S]]
    BY DEF g
  <2>9. P(k + 1, g)
    BY <2>7, <2>8
  <2>10. QED
    BY <2>9
<1>3. Nat \subseteq N
  <2> HIDE DEF N
  <2>1. QED
    BY <1>1, <1>2, Counting
<1>4. QED
  BY <1>3

\* c is what the entries of s make of an empty buffer, one after another.
Sets(c, s) == c[0] = Empty /\ \A k \in 1..Len(s) : c[k] = SetTo(c[k-1], s[k].val, s[k].tm)

LEMMA CopySteps ==
  ASSUME NEW s \in Seq(Cells)
  PROVE  \E c : Sets(c, s) /\ CopyOf(s) = c[Len(s)]
<1>1. PICK n \in Nat : n = Len(s) /\ DOMAIN s = 1..n
  OBVIOUS
<1>2. PICK it : /\ it = CHOOSE x : x = [S \in SUBSET (1..n) |-> SetsOf(s, S, x)]
                /\ CopyOf(s) = it[1..n]
  BY <1>1, FoldIs
<1>3. it = [S \in SUBSET (1..n) |-> SetsOf(s, S, it)]
  BY <1>2, SetsFrom
<1>4. \A S \in SUBSET (1..n) : it[S] = SetsOf(s, S, it)
  BY <1>3
<1> DEFINE c == [k \in 0..n |-> it[1..k]]
<1>5. c[0] = Empty
  <2>1. 1..0 = {} /\ 0 \in 0..n
    OBVIOUS
  <2>2. it[{}] = Empty
    BY <1>4 DEF SetsOf
  <2>3. QED
    BY <2>1, <2>2
<1>6. ASSUME NEW k \in 1..n PROVE c[k] = SetTo(c[k-1], s[k].val, s[k].tm)
  <2>1. k \in 1..k /\ 1..k \subseteq Int /\ \A y \in 1..k : y <= k
    OBVIOUS
  <2>2. Max(1..k) = k
    BY <2>1, MaxIs
  <2>3. (1..k) \ {k} = 1..(k - 1) /\ 1..k \in SUBSET (1..n) /\ k \in 0..n /\ k - 1 \in 0..n
    OBVIOUS
  <2>4. it[1..k] = SetTo(it[1..(k - 1)], s[k].val, s[k].tm)
    <3>1. it[1..k] = SetsOf(s, 1..k, it)
      BY <1>4, <2>3
    <3>2. 1..k # {}
      BY <2>1
    <3>3. QED
      BY <2>2, <2>3, <3>1, <3>2 DEF SetsOf
  <2>5. QED
    BY <2>3, <2>4
<1>7. CopyOf(s) = c[n]
  BY <1>2
<1> HIDE DEF c
<1>8. Sets(c, s)
  BY <1>1, <1>5, <1>6 DEF Sets
<1>9. QED
  BY <1>1, <1>7, <1>8

-----------------------------------------------------------------------------
(* What getVals() reads                                                    *)

\* x is the next time that is told of b at u or after it.
IsNext(x, b, g, u) ==
  /\ x \in Nat /\ x \in DOMAIN g /\ b.beg <= x /\ u <= x /\ x <= b.end
  /\ \A y \in DOMAIN g : b.beg <= y /\ u <= y => x <= y

GotNext(e, b, g, u) == e \in Cells /\ IsNext(e.tm, b, g, u) /\ e.val = g[e.tm]

\* get() searching upward gives what is told at the next time.
GetsNext(b, g) ==
  /\ b.beg \in Nat \ {0} /\ b.end \in Nat /\ b.beg <= b.end
  /\ DOMAIN g \subseteq Int
  /\ \A u \in Nat : u <= b.end => GotNext(Get(b, u, TRUE), b, g, u)

\* s is what is told from t to the end, without a gap.
Chain(s, b, g, t) ==
  /\ s \in Seq(Cells) /\ Len(s) # 0
  /\ GotNext(s[1], b, g, t)
  /\ \A i \in 1..Len(s)-1 : GotNext(s[i + 1], b, g, s[i].tm + 1)
  /\ s[Len(s)].tm = b.end

\* The recursion of getVals(), and what is read so for the last k times.
ReadFrom(f, b, t) ==
  IF t > b.end THEN <<>> ELSE LET e == Get(b, t, TRUE) IN <<e>> \o f[e.tm + 1]
ReadLast(f, b, k) ==
  /\ f = [t \in Nat |-> f[t]]
  /\ \A t \in Nat : t + k > b.end => f[t] = ReadFrom(f, b, t)

LEMMA NextIn ==
  ASSUME NEW b, NEW g, GetsNext(b, g), NEW t \in Nat, t <= b.end
  PROVE  /\ GotNext(Get(b, t, TRUE), b, g, t)
         /\ Get(b, t, TRUE).tm \in Nat /\ t <= Get(b, t, TRUE).tm /\ Get(b, t, TRUE).tm <= b.end
         /\ Get(b, t, TRUE).tm + 1 \in Nat /\ t < Get(b, t, TRUE).tm + 1
<1>1. GotNext(Get(b, t, TRUE), b, g, t)
  BY DEF GetsNext
<1>2. PICK x \in Nat : x = Get(b, t, TRUE).tm /\ t <= x /\ x <= b.end
  BY <1>1 DEF GotNext, IsNext
<1>3. x + 1 \in Nat /\ t < x + 1
  <2>1. t <= x
    BY <1>2
  <2>2. QED
    BY <2>1
<1>4. QED
  BY <1>1, <1>2, <1>3

LEMMA ReadsExist ==
  ASSUME NEW b, NEW g, GetsNext(b, g)
  PROVE  \E f : f = [t \in Nat |-> ReadFrom(f, b, t)]
<1>1. PICK last \in Nat : last = b.end
  BY DEF GetsNext
<1> DEFINE N == {k \in Nat : \E f : ReadLast(f, b, k)}
<1>2. 0 \in N
  <2> DEFINE f == [t \in Nat |-> <<>>]
  <2>1. f = [t \in Nat |-> f[t]] /\ \A t \in Nat : f[t] = <<>>
    OBVIOUS
  <2> HIDE DEF f
  <2>2. \A t \in Nat : t + 0 > last => t > last
    OBVIOUS
  <2>3. ReadLast(f, b, 0)
    BY <1>1, <2>1, <2>2 DEF ReadLast, ReadFrom
  <2>4. QED
    BY <2>3
<1>3. ASSUME NEW k \in Nat, k \in N PROVE k + 1 \in N
  <2>1. PICK f : ReadLast(f, b, k)
    BY <1>3
  <2> DEFINE g1 == [t \in Nat |-> IF t + k > last THEN f[t] ELSE ReadFrom(f, b, t)]
  <2>2. g1 = [t \in Nat |-> g1[t]] /\ \A t \in Nat : g1[t] = ReadFrom(f, b, t)
    <3>1. \A t \in Nat : t + k > last => f[t] = ReadFrom(f, b, t)
      BY <1>1, <2>1 DEF ReadLast
    <3>2. QED
      BY <3>1
  <2>3. \A t \in Nat : t + k > last => g1[t] = f[t]
    BY <2>1
  <2> HIDE DEF g1
  <2>4. ASSUME NEW t \in Nat, t + (k + 1) > last PROVE g1[t] = ReadFrom(g1, b, t)
    <3>1. CASE t > last
      BY <1>1, <2>2, <3>1 DEF ReadFrom
    <3>2. CASE ~(t > last)
      <4>1. PICK x \in Nat : x = Get(b, t, TRUE).tm + 1 /\ t < x
        <5>1. t <= b.end
          BY <1>1, <3>2
        <5>2. QED
          BY <5>1, NextIn
      <4>2. x + k > last
        <5>1. t + (k + 1) > last /\ t < x
          BY <2>4, <4>1
        <5>2. QED
          BY <5>1
      <4>3. g1[x] = f[x]
        BY <2>3, <4>2
      <4>4. ReadFrom(g1, b, t) = ReadFrom(f, b, t)
        BY <1>1, <3>2, <4>1, <4>3 DEF ReadFrom
      <4>5. QED
        BY <2>2, <4>4
    <3>3. QED
      BY <3>1, <3>2
  <2>5. ReadLast(g1, b, k + 1)
    BY <1>1, <2>2, <2>4 DEF ReadLast
  <2>6. k + 1 \in Nat /\ \E h : ReadLast(h, b, k + 1)
    BY <2>5
  <2>7. QED
    BY <2>6
<1>4. last + 1 \in N
  <2> HIDE DEF N
  <2>1. Nat \subseteq N
    BY <1>2, <1>3, Counting
  <2>2. QED
    BY <2>1
<1>5. PICK f : ReadLast(f, b, last + 1)
  BY <1>4
<1>6. \A t \in Nat : f[t] = ReadFrom(f, b, t)
  <2>1. \A t \in Nat : t + (last + 1) > last
    OBVIOUS
  <2>2. QED
    BY <1>1, <1>5, <2>1 DEF ReadLast
<1>7. f = [t \in Nat |-> ReadFrom(f, b, t)]
  BY <1>5, <1>6 DEF ReadLast
<1>8. QED
  BY <1>1, <1>7

LEMMA Prefixed ==
  ASSUME NEW e \in Cells, NEW s \in Seq(Cells)
  PROVE  /\ <<e>> \o s \in Seq(Cells) /\ Len(<<e>> \o s) = Len(s) + 1
         /\ (<<e>> \o s)[1] = e
         /\ \A i \in 1..Len(s) : (<<e>> \o s)[i + 1] = s[i]
<1>1. <<e>> \in Seq(Cells) /\ Len(<<e>>) = 1 /\ <<e>>[1] = e
  OBVIOUS
<1>2. PICK u : u = <<e>>
  OBVIOUS
<1>3. u \in Seq(Cells) /\ Len(u) = 1 /\ u[1] = e
  BY <1>1, <1>2
<1>4. /\ u \o s \in Seq(Cells) /\ Len(u \o s) = Len(u) + Len(s)
      /\ \A i \in 1..Len(u) + Len(s) : (u \o s)[i] = IF i <= Len(u) THEN u[i] ELSE s[i - Len(u)]
  BY <1>3, ConcatProperties
<1>5. PICK n \in Nat : n = Len(s)
  OBVIOUS
<1>6. Len(u \o s) = n + 1 /\ (u \o s)[1] = e
  <2>1. 1 \in 1..1+n
    BY <1>5
  <2>2. QED
    BY <1>3, <1>4, <1>5, <2>1
<1>7. ASSUME NEW i \in 1..n PROVE (u \o s)[i + 1] = s[i]
  <2>1. i + 1 \in 1..1+n /\ ~(i + 1 <= 1) /\ (i + 1) - 1 = i
    OBVIOUS
  <2>2. QED
    BY <1>3, <1>4, <1>5, <2>1
<1>8. QED
  BY <1>2, <1>4, <1>5, <1>6, <1>7

LEMMA ReadsChain ==
  ASSUME NEW b, NEW g, GetsNext(b, g), NEW f, \A t \in Nat : f[t] = ReadFrom(f, b, t),
         NEW t \in Nat, t <= b.end
  PROVE  Chain(f[t], b, g, t)
<1>1. PICK last \in Nat : last = b.end
  BY DEF GetsNext
<1> DEFINE N == {k \in Nat : \A u \in Nat : u <= last /\ u + k > last => Chain(f[u], b, g, u)}
<1>2. 0 \in N
  <2>1. \A u \in Nat : ~(u <= last /\ u + 0 > last)
    OBVIOUS
  <2>2. QED
    BY <2>1
<1>3. ASSUME NEW k \in Nat, k \in N PROVE k + 1 \in N
  <2>1. ASSUME NEW u \in Nat, u <= last, u + (k + 1) > last PROVE Chain(f[u], b, g, u)
    <3>1. PICK e : e = Get(b, u, TRUE)
      OBVIOUS
    <3>2. PICK x \in Nat : x = e.tm + 1 /\ x = Get(b, u, TRUE).tm + 1 /\ u < x
      BY <1>1, <2>1, <3>1, NextIn
    <3>3. e \in Cells /\ e.tm \in Nat /\ GotNext(e, b, g, u) /\ e.tm <= last
      <4>1. /\ GotNext(Get(b, u, TRUE), b, g, u)
            /\ Get(b, u, TRUE).tm \in Nat /\ Get(b, u, TRUE).tm <= b.end
        BY <1>1, <2>1, NextIn
      <4>2. QED
        BY <1>1, <3>1, <4>1 DEF GotNext
    <3>4. f[u] = <<e>> \o f[x]
      <4>1. ~(u > last)
        BY <2>1
      <4>2. QED
        BY <1>1, <3>1, <3>2, <4>1 DEF ReadFrom
    <3>5. CASE x > last
      <4>1. PICK r : r = f[x] /\ r \in Seq(Cells) /\ Len(r) = 0
        <5>1. <<>> \in Seq(Cells) /\ Len(<<>>) = 0
          OBVIOUS
        <5>2. f[x] = <<>>
          BY <1>1, <3>2, <3>5 DEF ReadFrom
        <5>3. QED
          BY <5>1, <5>2
      <4>2. PICK s : s = f[u] /\ s = <<e>> \o r
        BY <3>4, <4>1
      <4>3. s \in Seq(Cells) /\ Len(s) = 1 /\ s[1] = e
        BY <3>3, <4>1, <4>2, Prefixed
      <4>4. e.tm = last
        BY <3>2, <3>3, <3>5
      <4>5. \A i \in 1..Len(s)-1 : FALSE
        BY <4>3
      <4>6. QED
        BY <1>1, <3>3, <4>2, <4>3, <4>4, <4>5 DEF Chain
    <3>6. CASE ~(x > last)
      <4>1. x <= last /\ x + k > last
        <5>1. u + (k + 1) > last /\ u < x /\ x <= last
          BY <2>1, <3>2, <3>6
        <5>2. QED
          BY <5>1
      <4>2. Chain(f[x], b, g, x)
        BY <1>3, <4>1
      <4>3. PICK r : r = f[x] /\ r \in Seq(Cells) /\ Len(r) # 0
        BY <4>2 DEF Chain
      <4>4. PICK n \in Nat \ {0} : n = Len(r)
        BY <4>3
      <4>5. PICK s : s = f[u] /\ s = <<e>> \o r
        BY <3>4, <4>3
      <4>6. /\ s \in Seq(Cells) /\ Len(s) = n + 1 /\ s[1] = e
            /\ \A i \in 1..n : s[i + 1] = r[i]
        BY <3>3, <4>3, <4>4, <4>5, Prefixed
      <4>7. ASSUME NEW i \in 1..n PROVE GotNext(s[i + 1], b, g, s[i].tm + 1)
        <5>1. CASE i = 1
          <6>1. GotNext(r[1], b, g, x)
            BY <4>2, <4>3 DEF Chain
          <6>2. s[i + 1] = r[1] /\ s[i].tm + 1 = x
            BY <3>2, <4>6, <5>1
          <6>3. QED
            BY <6>1, <6>2
        <5>2. CASE i # 1
          <6>1. PICK j \in 1..n-1 : j = i - 1 /\ j + 1 = i /\ j \in 1..n /\ j + 1 \in 1..n
            BY <5>2
          <6>2. GotNext(r[j + 1], b, g, r[j].tm + 1)
            BY <4>2, <4>3, <4>4 DEF Chain
          <6>3. s[i] = r[j] /\ s[i + 1] = r[j + 1]
            BY <4>6, <6>1
          <6>4. QED
            BY <6>2, <6>3
        <5>3. QED
          BY <5>1, <5>2
      <4>8. s[n + 1].tm = b.end
        <5>1. n \in 1..n /\ s[n + 1] = r[n] /\ r[n].tm = b.end
          BY <4>2, <4>3, <4>4, <4>6 DEF Chain
        <5>2. QED
          BY <5>1
      <4>9. Len(s) # 0 /\ 1..Len(s)-1 = 1..n /\ s[Len(s)] = s[n + 1]
        BY <4>6
      <4>10. QED
        BY <3>3, <4>5, <4>6, <4>7, <4>8, <4>9 DEF Chain
    <3>7. QED
      BY <3>5, <3>6
  <2>2. QED
    BY <2>1
<1>4. last + 1 \in N
  <2> HIDE DEF N
  <2>1. Nat \subseteq N
    BY <1>2, <1>3, Counting
  <2>2. QED
    BY <2>1
<1>5. t <= last /\ t + (last + 1) > last
  BY <1>1
<1>6. QED
  BY <1>4, <1>5

LEMMA DivRises ==
  ASSUME NEW p \in Nat \ {0}, NEW x \in Int, NEW y \in Int, x <= y
  PROVE  x \div p <= y \div p
<1>1. PICK q \in Int, r \in 0..p-1 : q = x \div p /\ x = p * q + r
  BY DivMod
<1>2. PICK k \in Int, l \in 0..p-1 : k = y \div p /\ y = p * k + l
  BY DivMod
<1>3. ~(k < q)
  <2>1. SUFFICES ASSUME k < q PROVE FALSE
    OBVIOUS
  <2>2. p * (k + 1) <= p * q /\ p * (k + 1) = p * k + p
    BY <2>1
  <2>3. PICK v \in Int, w \in Int : v = p * k /\ w = p * q
    OBVIOUS
  <2>4. QED
    BY <1>1, <1>2, <2>2, <2>3
<1>4. QED
  BY <1>1, <1>2, <1>3

\* getVals() into a buffer of the same period reads every value to the end.
LEMMA GetValsIs ==
  ASSUME ValBufAssumption, NEW b, NEW g, GetsNext(b, g), NEW t \in b.beg..b.end
  PROVE  Chain(GetVals(b, t, b.end, 0), b, g, t)
<1>1. PICK lo \in Nat \ {0}, hi \in Nat : lo = b.beg /\ hi = b.end /\ lo <= t /\ t <= hi /\ t \in Nat
  BY DEF GetsNext
<1>2. Per \in Nat \ {0}
  BY DEF ValBufAssumption
<1> DEFINE per == IF grid = "flow" THEN 1 ELSE Per
           step == IF grid # "flow" /\ 0 > Per THEN 0 ELSE 1
<1>3. step = 1
  BY <1>2
<1>4. Min({hi, hi}) = hi
  <2>1. {hi, hi} \subseteq Int /\ hi \in {hi, hi} /\ \A y \in {hi, hi} : hi <= y
    OBVIOUS
  <2>2. QED
    BY <2>1, MinIs
<1>5. Max({t, lo}) = t
  <2>1. {t, lo} \subseteq Int /\ t \in {t, lo} /\ \A y \in {t, lo} : y <= t
    BY <1>1
  <2>2. QED
    BY <2>1, MaxIs
<1>6. 1 * (t \div 1) = t
  BY <1>1
<1>7. lo \div per <= hi \div per /\ t \div per <= hi \div per
  <2>1. PICK p \in Nat \ {0} : p = per
    BY <1>2
  <2>2. lo \div p <= hi \div p /\ t \div p <= hi \div p
    BY <1>1, DivRises
  <2>3. QED
    BY <2>1, <2>2
<1> DEFINE from[u \in Nat] ==
             IF u > hi THEN <<>>
             ELSE LET e == Get(b, u, TRUE) IN <<e>> \o from[e.tm + 1]
<1>8. GetVals(b, t, b.end, 0) = from[t]
  <2> DEFINE vOK == /\ lo # 0 /\ hi # 0
                    /\ hi \div per >= lo \div per
                    /\ t \div per <= hi \div per
                    /\ t \div per <= hi \div per
  <2>1. vOK
    <3>1. PICK p \in Nat \ {0} : p = per
      BY <1>2
    <3>2. lo \div p \in Int /\ hi \div p \in Int /\ t \div p \in Int
      BY <1>1
    <3>3. PICK x \in Int, y \in Int, z \in Int : x = lo \div p /\ y = hi \div p /\ z = t \div p
      BY <3>2
    <3>4. y >= x /\ z <= y
      BY <1>7, <3>1, <3>3
    <3>5. lo # 0 /\ hi # 0
      BY <1>1
    <3>6. QED
      BY <3>1, <3>3, <3>4, <3>5
  <2> DEFINE Read(l, st) ==
               CHOOSE r : r = [u \in Nat |->
                 IF u > l THEN <<>>
                 ELSE LET e == Get(b, u, TRUE) IN <<e>> \o r[e.tm + st]]
  <2>2. GetVals(b, t, hi, 0) =
          IF /\ b.beg # 0 /\ b.end # 0
             /\ hi \div per >= b.beg \div per
             /\ t \div per <= b.end \div per
             /\ t \div per <= hi \div per
          THEN Read(Min({hi, b.end}), step)[step * (Max({t, b.beg}) \div step)] ELSE <<>>
    BY Zenon DEF GetVals
  <2>3. from = Read(hi, 1)
    OBVIOUS
  <2> HIDE DEF Read, from, step, per
  <2>4. GetVals(b, t, hi, 0) = IF vOK THEN from[1 * (t \div 1)] ELSE <<>>
    BY <1>1, <1>3, <1>4, <1>5, <2>2, <2>3
  <2>5. QED
    BY <1>1, <1>6, <2>1, <2>4
<1>9. PICK f : f = from
  OBVIOUS
<1>10. \A u \in Nat : f[u] = ReadFrom(f, b, u)
  <2> DEFINE R(x) == x = [u \in Nat |-> ReadFrom(x, b, u)]
  <2>1. f = CHOOSE x : R(x)
    BY <1>1, <1>9 DEF ReadFrom
  <2>2. \E x : R(x)
    BY ReadsExist
  <2>3. R(f)
    <3> HIDE DEF R
    <3>1. QED
      BY <2>1, <2>2
  <2>4. QED
    BY <2>3
<1>11. Chain(f[t], b, g, t)
  BY <1>1, <1>10, ReadsChain
<1>12. QED
  BY <1>8, <1>9, <1>11

-----------------------------------------------------------------------------
(* A copy gives what is told                                               *)

LEMMA SameNext ==
  ASSUME NEW b, NEW c, NEW g, GetsNext(b, g), GetsNext(c, g), c.end = b.end,
         NEW t \in b.beg..b.end, IsNext(c.beg, b, g, t), NEW u \in t..b.end
  PROVE  Get(c, u, TRUE) = Get(b, u, TRUE)
<1>1. PICK lo \in Nat, hi \in Nat, k \in Nat :
        /\ lo = b.beg /\ hi = b.end /\ k = c.beg /\ lo <= t /\ t <= u /\ u <= hi
        /\ lo <= k /\ t <= k /\ t \in Nat /\ u \in Nat
  BY DEF GetsNext, IsNext
<1>2. PICK d : d = Get(c, u, TRUE) /\ GotNext(d, c, g, u)
  BY <1>1 DEF GetsNext
<1>3. PICK e : e = Get(b, u, TRUE) /\ GotNext(e, b, g, u)
  BY <1>1 DEF GetsNext
<1>4. PICK x \in Nat : x = d.tm /\ IsNext(x, c, g, u)
  BY <1>2 DEF GotNext, IsNext
<1>5. PICK y \in Nat : y = e.tm /\ IsNext(y, b, g, u)
  BY <1>3 DEF GotNext, IsNext
<1>6. y <= x
  <2>1. x \in DOMAIN g /\ k <= x /\ u <= x
    BY <1>1, <1>4 DEF IsNext
  <2>2. b.beg <= x
    BY <1>1, <2>1
  <2>3. QED
    BY <1>5, <2>1, <2>2 DEF IsNext
<1>7. x <= y
  <2>1. y \in DOMAIN g /\ lo <= y /\ u <= y
    BY <1>1, <1>5 DEF IsNext
  <2>2. t <= y
    BY <1>1, <2>1
  <2>3. b.beg <= y
    BY <1>1, <2>1
  <2>4. c.beg <= y
    BY <2>1, <2>2, <2>3 DEF IsNext
  <2>5. QED
    BY <1>4, <2>1, <2>4 DEF IsNext
<1>8. x = y
  BY <1>6, <1>7
<1>9. d.tm = e.tm /\ d.val = e.val /\ d \in Cells /\ e \in Cells
  BY <1>2, <1>3, <1>4, <1>5, <1>8 DEF GotNext
<1>10. d = e
  BY <1>9 DEF Cells
<1>11. QED
  BY <1>2, <1>3, <1>10

\* c is a copy of the buffer from the first value of s.
Copies(c, s) == GetsNext(c, told) /\ c.beg = s[1].tm /\ c.end = tb.end

\* The values of every range from a time that is held make a copy of it.
MakesCopies ==
  /\ GetsNext(tb, told)
  /\ \A t \in tb.beg..tb.end : \A s, c :
       Chain(s, tb, told, t) /\ Sets(c, s) => Copies(c[Len(s)], s)

LEMMA CopyIs ==
  ASSUME ValBufAssumption, tb.end = 0 \/ MakesCopies
  PROVE  CopyRight
<1>1. ASSUME NEW t \in Held, NEW u \in t..tb.end
      PROVE  Get(CopyOf(GetVals(tb, t, tb.end, 0)), u, TRUE) = Get(tb, u, TRUE)
  <2>1. t \in tb.beg..tb.end /\ MakesCopies
    BY <1>1 DEF Held
  <2>2. PICK s : s = GetVals(tb, t, tb.end, 0) /\ Chain(s, tb, told, t)
    BY <2>1, GetValsIs DEF MakesCopies
  <2>3. PICK f : Sets(f, s) /\ CopyOf(s) = f[Len(s)]
    BY <2>2, CopySteps DEF Chain
  <2>4. PICK c : c = CopyOf(s) /\ Copies(c, s)
    BY <2>1, <2>2, <2>3 DEF MakesCopies
  <2>5. IsNext(c.beg, tb, told, t)
    BY <2>2, <2>4 DEF Chain, GotNext, Copies
  <2>6. QED
    BY <2>1, <2>2, <2>4, <2>5, SameNext DEF MakesCopies, Copies
<1>2. CopyRight <=> \A t \in Held : \A u \in t..tb.end :
                      Get(CopyOf(GetVals(tb, t, tb.end, 0)), u, TRUE) = Get(tb, u, TRUE)
  BY DEF CopyRight, CopyOf, FoldLeft, MapThenFoldSet
<1>3. QED
  BY <1>1, <1>2

-----------------------------------------------------------------------------
(* Of the grids the next time is the next cell                             *)

LEMMA CellUpIs ==
  ASSUME ValBufAssumption, NEW u \in Int
  PROVE  /\ CellUp(u) \in Int /\ Cell(CellUp(u)) = CellUp(u) /\ u <= CellUp(u)
         /\ \A y \in Int : Cell(y) = y /\ u <= y => CellUp(u) <= y
<1>1. Per \in Nat \ {0}
  BY DEF ValBufAssumption
<1>2. PICK z \in Int : z = u + Per - 1
  BY <1>1
<1>3. PICK x \in Int : x = CellUp(u) /\ Cell(x) = x /\ x <= z /\ z < x + Per
  BY <1>2, CellIs DEF CellUp
<1>4. u <= x
  BY <1>1, <1>2, <1>3
<1>5. ASSUME NEW y \in Int, Cell(y) = y, u <= y PROVE x <= y
  <2>1. SUFFICES ASSUME y < x PROVE FALSE
    OBVIOUS
  <2>2. y + Per <= x
    BY <1>3, <1>5, <2>1, CellsApart
  <2>3. QED
    BY <1>1, <1>2, <1>3, <1>5, <2>2
<1>6. QED
  BY <1>3, <1>4, <1>5

\* A time before the begin is searched upward from the begin.
LEMMA GetBefore ==
  ASSUME NEW c, NEW beg \in Int, NEW end \in Int, beg = c.beg, end = c.end, beg <= end,
         NEW u \in Int, u <= beg
  PROVE  Get(c, u, TRUE) = Get(c, c.beg, TRUE)
<1>1. Max({u, beg}) = beg
  <2>1. {u, beg} \subseteq Int /\ beg \in {u, beg} /\ \A y \in {u, beg} : y <= beg
    OBVIOUS
  <2>2. QED
    BY <2>1, MaxIs
<1>2. Max({beg, beg}) = beg
  <2>1. {beg, beg} \subseteq Int /\ beg \in {beg, beg} /\ \A y \in {beg, beg} : y <= beg
    OBVIOUS
  <2>2. QED
    BY <2>1, MaxIs
<1>3. ~(u > end) /\ ~(beg > end)
  OBVIOUS
<1> DEFINE G(x) == CASE grid = "hard" -> HardGet(c, x, TRUE)
                     [] grid = "soft" -> SoftGet(c, x, TRUE)
                     [] grid = "flow" -> FlowGet(c, x, TRUE)
<1>4. ASSUME NEW w, Max({w, beg}) = beg, ~(w > end) PROVE Get(c, w, TRUE) = G(beg)
  <2>1. ~((TRUE /\ w > c.end) \/ (~TRUE /\ w < c.beg))
    BY <1>4
  <2>2. (IF TRUE THEN Max({w, c.beg}) ELSE Min({w, c.end})) = beg
    BY <1>4
  <2>3. QED
    BY <2>1, <2>2 DEF Get
<1>5. QED
  BY <1>1, <1>2, <1>3, <1>4

\* It is enough that get() gives the next time from the begin on.
LEMMA NextFromBegin ==
  ASSUME NEW b, NEW g, b.beg \in Nat \ {0}, b.end \in Nat, b.beg <= b.end, DOMAIN g \subseteq Int,
         \A u \in b.beg..b.end : GotNext(Get(b, u, TRUE), b, g, u)
  PROVE  GetsNext(b, g)
<1>1. PICK lo \in Nat, hi \in Nat :
        /\ lo = b.beg /\ hi = b.end /\ lo <= hi
        /\ \A u \in lo..hi : GotNext(Get(b, u, TRUE), b, g, u)
  OBVIOUS
<1>2. ASSUME NEW u \in Nat, u <= hi PROVE GotNext(Get(b, u, TRUE), b, g, u)
  <2>1. CASE lo <= u
    <3>1. u \in lo..hi
      BY <1>2, <2>1
    <3>2. QED
      BY <1>1, <3>1
  <2>2. CASE ~(lo <= u)
    <3>1. PICK e : e = Get(b, u, TRUE) /\ e = Get(b, lo, TRUE)
      <4>1. u <= lo /\ u \in Int /\ lo \in Int /\ hi \in Int
        BY <2>2
      <4>2. Get(b, u, TRUE) = Get(b, b.beg, TRUE)
        BY <1>1, <4>1, GetBefore
      <4>3. QED
        BY <1>1, <4>2
    <3>2. GotNext(e, b, g, lo)
      <4>1. lo \in lo..hi
        BY <1>1
      <4>2. QED
        BY <1>1, <3>1, <4>1
    <3>3. PICK x \in Nat : x = e.tm /\ IsNext(x, b, g, lo)
      BY <3>2 DEF GotNext, IsNext
    <3>4. IsNext(x, b, g, u)
      <4>1. u <= x
        <5>1. lo <= x
          BY <3>3 DEF IsNext
        <5>2. QED
          BY <2>2, <5>1
      <4>2. \A y \in DOMAIN g : b.beg <= y => lo <= y
        BY <1>1
      <4>3. QED
        BY <3>3, <4>1, <4>2 DEF IsNext
    <3>5. QED
      BY <3>1, <3>2, <3>3, <3>4 DEF GotNext
  <2>3. QED
    BY <2>1, <2>2
<1>3. QED
  BY <1>1, <1>2 DEF GetsNext

\* Every cell of b is told.
CellsTold(b, g) ==
  /\ b.beg \in Nat \ {0} /\ b.end \in Nat /\ b.beg <= b.end /\ Cell(b.end) = b.end
  /\ \A x \in DOMAIN g : x \in Int /\ Cell(x) = x
  /\ \A x \in Int : Cell(x) = x /\ b.beg <= x /\ x <= b.end => x \in DOMAIN g

LEMMA CellsNext ==
  ASSUME ValBufAssumption, NEW b, NEW g, CellsTold(b, g),
         \A u \in b.beg..b.end : /\ Get(b, u, TRUE) \in Cells /\ Get(b, u, TRUE).tm = CellUp(u)
                                 /\ Get(b, u, TRUE).val = g[CellUp(u)]
  PROVE  GetsNext(b, g)
<1>1. PICK lo \in Nat \ {0}, hi \in Nat : lo = b.beg /\ hi = b.end /\ lo <= hi /\ Cell(hi) = hi
  BY DEF CellsTold
<1>2. ASSUME NEW u \in lo..hi PROVE GotNext(Get(b, u, TRUE), b, g, u)
  <2>1. u \in Int /\ lo <= u /\ u <= hi
    OBVIOUS
  <2>2. PICK x \in Int : /\ x = CellUp(u) /\ Cell(x) = x /\ u <= x
                         /\ \A y \in Int : Cell(y) = y /\ u <= y => x <= y
    BY <2>1, CellUpIs
  <2>3. x <= hi
    BY <1>1, <2>1, <2>2
  <2>4. lo <= x /\ x \in Nat
    BY <2>1, <2>2
  <2>5. x \in DOMAIN g
    BY <1>1, <2>2, <2>3, <2>4 DEF CellsTold
  <2>6. \A y \in DOMAIN g : u <= y => x <= y
    BY <2>2 DEF CellsTold
  <2>7. IsNext(x, b, g, u)
    BY <1>1, <2>2, <2>3, <2>4, <2>5, <2>6 DEF IsNext
  <2>8. Get(b, u, TRUE) \in Cells /\ Get(b, u, TRUE).tm = x /\ Get(b, u, TRUE).val = g[x]
    BY <1>1, <2>2
  <2>9. QED
    BY <2>7, <2>8 DEF GotNext
<1>3. DOMAIN g \subseteq Int
  BY DEF CellsTold
<1>4. QED
  BY <1>1, <1>2, <1>3, NextFromBegin

\* The values read are those of the cells, one after another.
LEMMA ChainCells ==
  ASSUME ValBufAssumption, NEW b, NEW g, CellsTold(b, g), NEW t, NEW s, Chain(s, b, g, t)
  PROVE  /\ \A i \in 1..Len(s) : /\ s[i] \in Cells /\ s[i].val = g[s[i].tm] /\ s[i].tm \in Nat
                                 /\ Cell(s[i].tm) = s[i].tm /\ b.beg <= s[i].tm /\ s[i].tm <= b.end
         /\ \A i \in 1..Len(s)-1 : s[i + 1].tm = s[i].tm + Per
<1>1. PICK n \in Nat \ {0} : n = Len(s)
  BY DEF Chain
<1>2. ASSUME NEW i \in 1..n
      PROVE  \E u : GotNext(s[i], b, g, u) /\ (i # 1 => u = s[i - 1].tm + 1)
  <2>1. CASE i = 1
    BY <2>1 DEF Chain
  <2>2. CASE i # 1
    <3>1. PICK j \in 1..n-1 : j = i - 1 /\ j + 1 = i
      BY <2>2
    <3>2. GotNext(s[j + 1], b, g, s[j].tm + 1)
      BY <1>1, <3>1 DEF Chain
    <3>3. QED
      BY <3>1, <3>2
  <2>3. QED
    BY <2>1, <2>2
<1>3. ASSUME NEW i \in 1..n
      PROVE  /\ s[i] \in Cells /\ s[i].val = g[s[i].tm] /\ s[i].tm \in Nat
             /\ Cell(s[i].tm) = s[i].tm /\ b.beg <= s[i].tm /\ s[i].tm <= b.end
  BY <1>2 DEF GotNext, IsNext, CellsTold
<1>4. ASSUME NEW i \in 1..n-1 PROVE s[i + 1].tm = s[i].tm + Per
  <2>1. i \in 1..n /\ i + 1 \in 1..n /\ Per \in Nat \ {0}
    BY DEF ValBufAssumption
  <2>2. PICK x \in Nat : x = s[i].tm /\ Cell(x) = x /\ b.beg <= x
    BY <1>3, <2>1
  <2>3. PICK y \in Nat : y = s[i + 1].tm /\ Cell(y) = y /\ y <= b.end
    BY <1>3, <2>1
  <2>4. IsNext(y, b, g, x + 1)
    BY <1>1, <2>2, <2>3 DEF Chain, GotNext
  <2>5. x + Per <= y
    <3>1. x + 1 <= y
      BY <2>4 DEF IsNext
    <3>2. x < y
      BY <3>1
    <3>3. QED
      BY <2>2, <2>3, <3>2, CellsApart
  <2>6. PICK z \in Int : z = x + Per /\ Cell(z) = z
    BY <2>2, CellAfter
  <2>7. b.beg <= z /\ x + 1 <= z /\ z <= b.end
    <3>1. PICK lo \in Nat, hi \in Nat : lo = b.beg /\ hi = b.end
      BY DEF CellsTold
    <3>2. QED
      BY <2>1, <2>2, <2>3, <2>5, <2>6, <3>1
  <2>8. z \in DOMAIN g
    BY <2>6, <2>7 DEF CellsTold
  <2>9. y <= z
    BY <2>4, <2>7, <2>8 DEF IsNext
  <2>10. QED
    BY <2>1, <2>2, <2>3, <2>5, <2>6, <2>9
<1>5. QED
  BY <1>1, <1>3, <1>4

\* The n values of s are those of cells of the buffer, one after another.
ToldInCells(s, n) ==
  /\ \A i \in 1..n : /\ s[i].val \in Vals /\ told[s[i].tm] = s[i].val /\ s[i].tm \in Nat
                     /\ Cell(s[i].tm) = s[i].tm /\ tb.beg <= s[i].tm /\ s[i].tm <= tb.end
  /\ \A i \in 1..n-1 : s[i + 1].tm = s[i].tm + Per

LEMMA ChainTold ==
  ASSUME ValBufAssumption, CellsTold(tb, told), NEW t, NEW s, Chain(s, tb, told, t)
  PROVE  ToldInCells(s, Len(s))
<1>1. /\ \A i \in 1..Len(s) : /\ s[i] \in Cells /\ s[i].val = told[s[i].tm] /\ s[i].tm \in Nat
                              /\ Cell(s[i].tm) = s[i].tm /\ tb.beg <= s[i].tm /\ s[i].tm <= tb.end
      /\ \A i \in 1..Len(s)-1 : s[i + 1].tm = s[i].tm + Per
  BY ChainCells
<1>2. \A e \in Cells : e.val \in Vals
  BY DEF Cells
<1>3. QED
  BY <1>1, <1>2 DEF ToldInCells

LEMMA BegunSame ==
  ASSUME NEW c, c \in Ring, c.beg # 0, c.end # 0, NEW tm
  PROVE  Begun(c, tm) = c
<1>1. PICK x, y, e : /\ c = [buf |-> c.buf, cur |-> c.cur, beg |-> x, end |-> y, evalCnt |-> e]
                     /\ x = c.beg /\ y = c.end
  BY DEF Ring
<1>2. Begun(c, tm) = [c EXCEPT !.end = y, !.beg = x]
  BY <1>1 DEF Begun
<1>3. QED
  BY <1>1, <1>2

LEMMA NextQuot ==
  ASSUME ValBufAssumption, NEW x \in Int
  PROVE  Quot((x + Per) - x, Per) = 1
<1>1. Per \in Nat \ {0} /\ 0 \in 0..Per-1
  BY DEF ValBufAssumption
<1>2. (Per * 1 + 0) \div Per = 1
  BY <1>1, Quotient
<1>3. (x + Per) - x = Per /\ Per * 1 + 0 = Per /\ Per >= 0
  BY <1>1
<1>4. QED
  BY <1>2, <1>3 DEF Quot

-----------------------------------------------------------------------------
(* The copy of a hard grid                                                 *)

LEMMA HardNexts ==
  ASSUME ValBufAssumption, SizesFit, grid = "hard", NEW c, NEW g,
         Fits(c), Gives(c, g), Len(c.buf) # 0, CellsTold(c, g)
  PROVE  GetsNext(c, g)
<1>1. ASSUME NEW u \in c.beg..c.end
      PROVE  /\ Get(c, u, TRUE) \in Cells /\ Get(c, u, TRUE).tm = CellUp(u)
             /\ Get(c, u, TRUE).val = g[CellUp(u)]
  <2>1. PICK j \in 0..Len(c.buf)-1 :
           /\ Get(c, u, TRUE) \in Cells
           /\ Get(c, u, TRUE).tm = c.end - Per * j
           /\ Get(c, u, TRUE).val = c.buf[Behind(NewestPos(c), j, Len(c.buf))].val
           /\ c.end - Per * j = CellUp(u)
    <3>1. Cell(c.end) = c.end
      BY DEF CellsTold
    <3>2. QED
      BY <1>1, <3>1, HardGetIs
  <2>2. c.buf[Behind(NewestPos(c), j, Len(c.buf))].val = g[c.end - Per * j]
    BY DEF Gives
  <2>3. QED
    BY <2>1, <2>2
<1>2. QED
  BY <1>1, CellsNext

\* It is full or was not written past its last place.
NotLapped(c) == (size # 0 /\ Len(c.buf) >= size) \/ c.cur = Len(c.buf)

\* d is c and the cell after its end.
Longer(d, c) ==
  /\ Fits(d) /\ Gives(d, told) /\ NotLapped(d)
  /\ Len(d.buf) = Len(c.buf) + 1 /\ d.beg = c.beg /\ d.end = c.end + Per

Appended(c, b) ==
  /\ c.end = b.end + Per
  /\ c.cur = IF size # 0 /\ b.cur + 1 >= size THEN 0 ELSE b.cur + 1
  /\ \E e \in Cells : c.buf = Append(b.buf, e) /\ c.beg = b.beg

LEMMA NextAppends ==
  ASSUME ValBufAssumption, SizesFit, grid = "hard", NEW b, Fits(b), NEW v \in Vals,
         ~(b.cur < Len(b.buf))
  PROVE  Appended(HardNext(b, v), b)
<1> DEFINE e == [tm |-> 0, val |-> v]
<1>1. PICK c : c = HardNext(b, v)
  OBVIOUS
<1>2. /\ c \in Ring /\ e \in Cells
      /\ c.end = b.end + Per
      /\ c.cur = IF size # 0 /\ b.cur + 1 >= size THEN 0 ELSE b.cur + 1
  BY <1>1, NextIs
<1> HIDE DEF e
<1>3. /\ c.buf = Append(b.buf, e) /\ c.beg = b.beg
      /\ c.evalCnt = (b.evalCnt + Counted(v)) % EvalMod
  BY <1>1, NextIs DEF e
<1>4. QED
  BY <1>1, <1>2, <1>3 DEF Appended

LEMMA HardAppends ==
  ASSUME ValBufAssumption, SizesFit, grid = "hard", NEW b,
         Fits(b), Gives(b, told), NotLapped(b), size = 0 \/ Len(b.buf) < size,
         NEW v \in Vals, told[b.end + Per] = v,
         NEW tm, Quot(tm - b.end, Per) = 1
  PROVE  Longer(HardSet(b, v, tm), b)
<1>1. PICK n \in Nat : n = 1
  OBVIOUS
<1>2. PICK f : /\ f[0] = b
               /\ \A i \in 1..n : f[i] = HardNext(f[i-1], CellVal(b, n, v, i))
               /\ HardCells(b, n, v) = f[n]
  BY CellsGoOn
<1>3. CellVal(b, 1, v, 1) = v
  BY DEF CellVal
<1>4. HardCells(b, 1, v) = HardNext(b, v)
  <2>1. 1 \in 1..n /\ 1 - 1 = 0
    BY <1>1
  <2>2. f[1] = HardNext(f[1 - 1], CellVal(b, 1, v, 1))
    BY <1>1, <1>2, <2>1
  <2>3. QED
    BY <1>1, <1>2, <1>3, <2>1, <2>2
<1>5. PICK c : c = HardSet(b, v, tm) /\ c = HardNext(b, v)
  BY <1>4 DEF HardSet
<1>6. Fits(c) /\ Gives(c, told)
  BY <1>5, NextFits, NextGives
<1>7. b.buf \in Seq(Cells) /\ Len(b.buf) \in Nat /\ b.cur \in Nat /\ size \in Nat
  BY RingIs DEF SizesFit
<1>8. b.cur = Len(b.buf)
  BY <1>7 DEF NotLapped
<1>9. Appended(c, b)
  <2>1. ~(b.cur < Len(b.buf))
    BY <1>7, <1>8
  <2>2. Appended(HardNext(b, v), b)
    BY <2>1, NextAppends
  <2>3. QED
    BY <1>5, <2>2
<1>10. Len(c.buf) = Len(b.buf) + 1
  BY <1>7, <1>9, AppendProperties DEF Appended
<1>11. NotLapped(c)
  BY <1>7, <1>8, <1>9, <1>10 DEF NotLapped, Appended
<1>12. QED
  BY <1>5, <1>6, <1>9, <1>10, <1>11 DEF Longer, Appended

\* The first i values of s are in c.
HardPart(c, s, i) ==
  /\ Fits(c) /\ Gives(c, told) /\ NotLapped(c)
  /\ Len(c.buf) = i /\ c.beg = s[1].tm /\ c.end = s[i].tm

HardStarts(c, x) ==
  /\ Fits(c) /\ Gives(c, told) /\ NotLapped(c)
  /\ Len(c.buf) = 1 /\ c.beg = x /\ c.end = x

LEMMA HardFirst ==
  ASSUME ValBufAssumption, SizesFit, grid = "hard", NEW v \in Vals,
         NEW x \in Int, Cell(x) = x, Per <= x, told[x] = v
  PROVE  HardStarts(SetTo(Empty, v, x), x)
<1>1. PICK c : c = Begun(Empty, x)
  OBVIOUS
<1>2. /\ Fits(c) /\ Len(c.buf) = 0 /\ Gives(c, told)
      /\ c.beg = x /\ c.end = x - Per /\ Quot(x - c.end, Per) = 1
  BY <1>1, BegunEmpty
<1>3. Per \in Nat \ {0} /\ size \in Nat
  BY DEF ValBufAssumption, SizesFit
<1>4. c.cur = Len(c.buf)
  <2>1. c.cur \in Nat /\ c.cur <= Len(c.buf)
    BY <1>2, RingIs DEF Fits
  <2>2. QED
    BY <1>2, <2>1
<1>5. c.end + Per = x
  BY <1>2, <1>3
<1>6. NotLapped(c) /\ (size = 0 \/ Len(c.buf) < size)
  BY <1>2, <1>3, <1>4 DEF NotLapped
<1>7. PICK d : d = HardSet(c, v, x) /\ Longer(d, c)
  BY <1>2, <1>5, <1>6, HardAppends
<1>8. SetTo(Empty, v, x) = d
  BY <1>1, <1>7 DEF SetTo
<1>9. QED
  BY <1>2, <1>5, <1>7, <1>8 DEF Longer, HardStarts

LEMMA HardMore ==
  ASSUME ValBufAssumption, SizesFit, grid = "hard", NEW c,
         Fits(c), Gives(c, told), NotLapped(c), size = 0 \/ Len(c.buf) < size,
         c.beg # 0, c.end # 0,
         NEW v \in Vals, NEW x, x = c.end + Per, told[x] = v
  PROVE  Longer(SetTo(c, v, x), c)
<1>1. c \in Ring /\ c.end \in Int
  BY RingIs DEF Fits
<1>2. Begun(c, x) = c
  BY <1>1, BegunSame
<1>3. Quot(x - c.end, Per) = 1
  BY <1>1, NextQuot
<1>4. SetTo(c, v, x) = HardSet(c, v, x)
  BY <1>2 DEF SetTo
<1>5. QED
  BY <1>3, <1>4, HardAppends

LEMMA HardParts ==
  ASSUME ValBufAssumption, SizesFit, grid = "hard", Goes, CellsTold(tb, told),
         NEW t, NEW s, Chain(s, tb, told, t), NEW c, Sets(c, s)
  PROVE  HardPart(c[Len(s)], s, Len(s))
<1>1. PICK n \in Nat \ {0} : n = Len(s)
  BY DEF Chain
<1>2. /\ \A i \in 1..n : /\ s[i].val \in Vals /\ told[s[i].tm] = s[i].val /\ s[i].tm \in Nat
                         /\ Cell(s[i].tm) = s[i].tm /\ tb.beg <= s[i].tm /\ s[i].tm <= tb.end
      /\ \A i \in 1..n-1 : s[i + 1].tm = s[i].tm + Per
  <2>1. ToldInCells(s, n)
    BY <1>1, ChainTold
  <2>2. QED
    BY <2>1 DEF ToldInCells
<1>3. PICK b \in Int, e \in Int, l \in Nat \ {0} :
        /\ b = tb.beg /\ e = tb.end /\ l = Len(tb.buf) /\ e = b + Per * (l - 1)
        /\ size = 0 \/ l <= size
        /\ Per <= b
  <2>1. Fits(tb) /\ Len(tb.buf) # 0 /\ Cell(tb.end) = tb.end
    BY DEF Goes, GoesOn
  <2>2. Per <= tb.beg
    BY GoesIs
  <2>3. QED
    BY <2>1, <2>2, RingEnds DEF Fits
<1>4. Per \in Nat \ {0} /\ size \in Nat
  BY DEF ValBufAssumption, SizesFit
<1>5. HardPart(c[1], s, 1)
  <2>1. 1 \in 1..n
    BY <1>1
  <2>2. PICK x \in Nat, v \in Vals : /\ x = s[1].tm /\ v = s[1].val /\ Cell(x) = x /\ told[x] = v
                                     /\ tb.beg <= x
    BY <1>2, <2>1
  <2>3. Per <= x
    BY <1>3, <1>4, <2>2
  <2>4. PICK d : d = SetTo(Empty, v, x) /\ d = c[1]
    <3>1. c[0] = Empty /\ c[1] = SetTo(c[1-1], s[1].val, s[1].tm) /\ 1 - 1 = 0
      BY <1>1, <2>1 DEF Sets
    <3>2. QED
      BY <2>2, <3>1
  <2>5. /\ Fits(d) /\ Gives(d, told) /\ NotLapped(d)
        /\ Len(d.buf) = 1 /\ d.beg = x /\ d.end = x
    <3>1. x \in Int
      OBVIOUS
    <3>2. HardStarts(SetTo(Empty, v, x), x)
      BY <2>2, <2>3, <3>1, HardFirst
    <3>3. QED
      BY <2>4, <3>2 DEF HardStarts
  <2>6. QED
    BY <2>2, <2>4, <2>5 DEF HardPart
<1> DEFINE N == {i \in Nat : i + 1 <= n => HardPart(c[i + 1], s, i + 1)}
<1>6. 0 \in N
  BY <1>5
<1>7. ASSUME NEW i \in Nat, i \in N PROVE i + 1 \in N
  <2>1. SUFFICES ASSUME (i + 1) + 1 <= n PROVE HardPart(c[(i + 1) + 1], s, (i + 1) + 1)
    OBVIOUS
  <2>2. PICK k \in 1..n-1 : k = i + 1
    BY <2>1
  <2>3. k \in 1..n /\ k + 1 \in 1..n /\ 1 \in 1..n /\ (k + 1) - 1 = k
    OBVIOUS
  <2>4. PICK d : d = c[k] /\ HardPart(d, s, k)
    BY <1>7, <2>2
  <2>5. PICK x \in Nat, v \in Vals : x = s[k + 1].tm /\ v = s[k + 1].val /\ told[x] = v /\ x <= tb.end
    BY <1>2, <2>3
  <2>6. PICK y \in Nat, z \in Nat : /\ y = s[k].tm /\ z = s[1].tm /\ x = y + Per
                                    /\ tb.beg <= y /\ tb.beg <= z
    BY <1>2, <2>3, <2>5
  <2>7. /\ Fits(d) /\ Gives(d, told) /\ NotLapped(d) /\ Len(d.buf) = k
        /\ d.beg = z /\ d.end = y
    BY <2>4, <2>6 DEF HardPart
  <2>8. y # 0 /\ z # 0
    <3>1. b <= y /\ b <= z /\ 0 < b
      BY <1>3, <1>4, <2>6
    <3>2. QED
      BY <3>1
  <2>9. size = 0 \/ k < size
    <3>1. y = z + Per * (k - 1)
      BY <2>7 DEF Fits
    <3>2. Per * (k - 1) + Per <= Per * (l - 1)
      <4>1. PICK p \in Int, q \in Int : p = Per * (k - 1) /\ q = Per * (l - 1)
        BY <1>3, <1>4
      <4>2. y = z + p /\ e = b + q /\ b <= z /\ y + Per <= e
        BY <1>3, <2>5, <2>6, <3>1, <4>1
      <4>3. QED
        BY <1>4, <4>1, <4>2
    <3>3. k < l
      <4>1. SUFFICES ASSUME l <= k PROVE FALSE
        OBVIOUS
      <4>2. Per * (l - 1) <= Per * (k - 1)
        <5>1. l - 1 <= k - 1 /\ l - 1 \in Int /\ k - 1 \in Int
          BY <4>1
        <5>2. \A p, q \in Int : p <= q => Per * p <= Per * q
          BY <1>4
        <5>3. QED
          BY <5>1, <5>2
      <4>3. Per * (l - 1) \in Int /\ Per * (k - 1) \in Int
        BY <1>4
      <4>4. QED
        BY <1>4, <3>2, <4>2, <4>3
    <3>4. QED
      BY <1>3, <1>4, <3>3
  <2>10. c[k + 1] = SetTo(d, v, x)
    <3>1. c[k + 1] = SetTo(c[(k + 1) - 1], s[k + 1].val, s[k + 1].tm)
      BY <1>1, <2>3 DEF Sets
    <3>2. QED
      BY <2>3, <2>4, <2>5, <3>1
  <2>11. Longer(SetTo(d, v, x), d)
    BY <2>5, <2>6, <2>7, <2>8, <2>9, HardMore
  <2>12. HardPart(c[k + 1], s, k + 1)
    BY <2>5, <2>6, <2>7, <2>10, <2>11 DEF Longer, HardPart
  <2>13. QED
    BY <2>2, <2>12
<1>8. Nat \subseteq N
  <2> HIDE DEF N
  <2>1. QED
    BY <1>6, <1>7, Counting
<1>9. PICK i \in Nat : n = i + 1
  <2>1. n - 1 \in Nat /\ n = (n - 1) + 1
    OBVIOUS
  <2>2. QED
    BY <2>1
<1>10. i \in N /\ i + 1 <= n
  BY <1>8, <1>9
<1>11. QED
  BY <1>1, <1>9, <1>10

LEMMA HardMakesCopies ==
  ASSUME ValBufAssumption, SizesFit, grid = "hard", Goes
  PROVE  MakesCopies
<1>1. PICK b \in Int, e \in Int : b = tb.beg /\ e = tb.end /\ b <= e /\ Cell(e) = e /\ Cell(b) = b /\ Per <= b
  <2>1. Fits(tb) /\ Len(tb.buf) # 0 /\ Cell(tb.end) = tb.end
    BY DEF Goes, GoesOn
  <2>2. Per <= tb.beg
    BY GoesIs
  <2>3. QED
    BY <2>1, <2>2, RingEnds
<1>2. Per \in Nat \ {0} /\ b \in Nat \ {0} /\ e \in Nat
  <2>1. Per \in Nat \ {0}
    BY DEF ValBufAssumption
  <2>2. QED
    BY <1>1, <2>1
<1>3. /\ first \in Int /\ first <= b
      /\ DOMAIN told = {x \in Int : Cell(x) = x /\ first <= x /\ x <= e}
  BY <1>1 DEF Goes, GoesOn
<1>4. CellsTold(tb, told)
  BY <1>1, <1>2, <1>3 DEF CellsTold
<1>5. GetsNext(tb, told)
  BY <1>4, HardNexts DEF Goes, GoesOn
<1>6. ASSUME NEW t \in tb.beg..tb.end, NEW s, NEW c, Chain(s, tb, told, t), Sets(c, s)
      PROVE  Copies(c[Len(s)], s)
  <2>1. PICK n \in Nat \ {0} : n = Len(s)
    BY <1>6 DEF Chain
  <2>2. PICK d : d = c[n] /\ HardPart(d, s, n)
    BY <1>4, <1>6, <2>1, HardParts
  <2>3. s[n].tm = e
    BY <1>1, <1>6, <2>1 DEF Chain
  <2>4. PICK x \in Nat : x = s[1].tm /\ b <= x /\ x <= e /\ Cell(x) = x
    <3>1. 1 \in 1..n
      BY <2>1
    <3>2. QED
      BY <1>1, <1>4, <1>6, <2>1, <3>1, ChainCells
  <2>5. Fits(d) /\ Gives(d, told) /\ Len(d.buf) # 0 /\ d.beg = x /\ d.end = e
    BY <2>1, <2>2, <2>3, <2>4 DEF HardPart
  <2>6. CellsTold(d, told)
    <3>1. x \in Nat \ {0}
      BY <1>2, <2>4
    <3>2. \A y \in Int : x <= y => first <= y
      BY <1>3, <2>4
    <3>3. QED
      BY <1>1, <1>2, <1>3, <2>4, <2>5, <3>1, <3>2 DEF CellsTold
  <2>7. GetsNext(d, told)
    BY <2>5, <2>6, HardNexts
  <2>8. QED
    BY <1>1, <2>1, <2>2, <2>4, <2>5, <2>7 DEF Copies
<1>7. QED
  BY <1>5, <1>6 DEF MakesCopies

LEMMA HardCopies ==
  ASSUME ValBufAssumption, HardInv, grid = "hard"
  PROVE  CopyRight
<1>1. CASE Rests
  <2>1. tb.end = 0
    BY <1>1 DEF Rests, Empty
  <2>2. QED
    BY <2>1, CopyIs
<1>2. CASE Goes
  <2>1. MakesCopies
    BY <1>2, HardMakesCopies DEF HardInv
  <2>2. QED
    BY <2>1, CopyIs
<1>3. QED
  BY <1>1, <1>2 DEF HardInv

\* getVals() of a hard grid (src/src/tarchval.cpp:372) from any time the ring has
\* to its end, put into an empty ring of the same mode, makes a copy that gives
\* the same for every time: no cell is skipped at the end of one read and begin
\* of the next, and none is written over, though the ring read may be wrapped.
THEOREM HardCopyRight == Spec => [](grid = "hard" => CopyRight)
<1>1. HardInv => (grid = "hard" => CopyRight)
  BY HardCopies, ValBufAssumption
<1>2. QED
  BY <1>1, HardGridGoes, PTL

-----------------------------------------------------------------------------
(* The copy of a flow                                                      *)

LEMMA ChainRises ==
  ASSUME NEW b, NEW g, NEW t \in Nat, NEW s, Chain(s, b, g, t)
  PROVE  \A i \in 1..Len(s) :
           /\ s[i] \in Cells /\ s[i].val = g[s[i].tm] /\ s[i].tm \in Nat
           /\ s[i].tm \in DOMAIN g /\ b.beg <= s[i].tm
           /\ t <= s[i].tm /\ s[1].tm <= s[i].tm
<1>1. PICK n \in Nat \ {0} : n = Len(s)
  BY DEF Chain
<1>2. PICK k \in Nat : k = s[1].tm /\ t <= k
  BY DEF Chain, GotNext, IsNext
<1> DEFINE N == {i \in Nat : i + 1 <= n => /\ \E u : GotNext(s[i + 1], b, g, u)
                                           /\ t <= s[i + 1].tm /\ k <= s[i + 1].tm}
<1>3. 0 \in N
  <2>1. GotNext(s[1], b, g, t) /\ k <= s[1].tm
    BY <1>2 DEF Chain
  <2>2. QED
    BY <1>2, <2>1
<1>4. ASSUME NEW i \in Nat, i \in N PROVE i + 1 \in N
  <2>1. SUFFICES ASSUME (i + 1) + 1 <= n
                 PROVE  /\ \E u : GotNext(s[(i + 1) + 1], b, g, u)
                        /\ t <= s[(i + 1) + 1].tm /\ k <= s[(i + 1) + 1].tm
    OBVIOUS
  <2>2. PICK j \in 1..n-1 : j = i + 1 /\ j <= n
    BY <2>1
  <2>3. PICK u : GotNext(s[j], b, g, u) /\ t <= s[j].tm /\ k <= s[j].tm
    BY <1>4, <2>2
  <2>4. PICK x \in Nat : x = s[j].tm /\ t <= x /\ k <= x
    BY <2>3 DEF GotNext, IsNext
  <2>5. GotNext(s[j + 1], b, g, x + 1)
    BY <1>1, <2>2, <2>4 DEF Chain
  <2>6. PICK y \in Nat : y = s[j + 1].tm /\ x + 1 <= y
    BY <2>5 DEF GotNext, IsNext
  <2>7. t <= y /\ k <= y
    BY <1>2, <2>4, <2>6
  <2>8. QED
    BY <2>2, <2>5, <2>6, <2>7
<1> HIDE DEF N
<1>5. Nat \subseteq N
  BY <1>3, <1>4, Counting
<1>6. ASSUME NEW i \in 1..n
      PROVE  /\ s[i] \in Cells /\ s[i].val = g[s[i].tm] /\ s[i].tm \in Nat
             /\ s[i].tm \in DOMAIN g /\ b.beg <= s[i].tm
             /\ t <= s[i].tm /\ s[1].tm <= s[i].tm
  <2>1. PICK j \in Nat : j + 1 = i
    <3>1. i - 1 \in Nat /\ (i - 1) + 1 = i
      OBVIOUS
    <3>2. QED
      BY <3>1
  <2>2. j \in N
    BY <1>5
  <2>3. PICK u : GotNext(s[i], b, g, u) /\ t <= s[i].tm /\ k <= s[i].tm
    BY <2>1, <2>2 DEF N
  <2>4. QED
    BY <1>2, <2>3 DEF GotNext, IsNext
<1>7. QED
  BY <1>1, <1>6

\* No time that is told is left out of it.
LEMMA ChainFull ==
  ASSUME NEW b, NEW g, NEW t \in Nat, NEW s, Chain(s, b, g, t),
         NEW y \in Nat, y \in DOMAIN g, b.beg <= y, t <= y, y <= b.end
  PROVE  y \in TimesOf(s)
<1>1. PICK n \in Nat \ {0} : n = Len(s)
  BY DEF Chain
<1>2. \A i \in 1..n : s[i].tm \in Nat
  BY <1>1, ChainRises
<1>3. SUFFICES ASSUME \A i \in 1..n : s[i].tm # y PROVE FALSE
  BY <1>1 DEF TimesOf
<1> DEFINE N == {i \in Nat : i + 1 <= n => s[i + 1].tm < y}
<1>4. 0 \in N
  <2>1. IsNext(s[1].tm, b, g, t)
    BY DEF Chain, GotNext
  <2>2. s[1].tm <= y
    BY <2>1 DEF IsNext
  <2>3. 1 \in 1..n
    BY <1>1
  <2>4. QED
    BY <1>2, <1>3, <2>2, <2>3
<1>5. ASSUME NEW i \in Nat, i \in N PROVE i + 1 \in N
  <2>1. SUFFICES ASSUME (i + 1) + 1 <= n PROVE s[(i + 1) + 1].tm < y
    OBVIOUS
  <2>2. PICK j \in 1..n-1 : j = i + 1 /\ j <= n /\ j \in 1..n /\ j + 1 \in 1..n
    <3>1. i + 1 \in 1..n-1 /\ i + 1 <= n /\ i + 1 \in 1..n /\ (i + 1) + 1 \in 1..n
      BY <2>1
    <3>2. QED
      BY <3>1
  <2>3. PICK x \in Nat : x = s[j].tm /\ x < y
    BY <1>2, <1>5, <2>2
  <2>4. IsNext(s[j + 1].tm, b, g, x + 1)
    BY <1>1, <2>2, <2>3 DEF Chain, GotNext
  <2>5. x + 1 <= y
    BY <2>3
  <2>6. s[j + 1].tm <= y
    BY <2>4, <2>5 DEF IsNext
  <2>7. QED
    BY <1>2, <1>3, <2>2, <2>6
<1> HIDE DEF N
<1>6. Nat \subseteq N
  BY <1>4, <1>5, Counting
<1>7. PICK j \in Nat : j + 1 = n
  <2>1. n - 1 \in Nat /\ (n - 1) + 1 = n
    BY <1>1
  <2>2. QED
    BY <2>1
<1>8. j \in N
  BY <1>6
<1>9. s[n].tm < y /\ s[n].tm = b.end /\ s[n].tm \in Nat
  <2>1. n \in 1..n
    BY <1>1
  <2>2. QED
    BY <1>1, <1>2, <1>7, <1>8, <2>1 DEF Chain, N
<1>10. QED
  BY <1>9

\* A flow with the times of g from its begin on.
LEMMA FlowNexts ==
  ASSUME ValBufAssumption, grid = "flow", NEW c, NEW h, Flows(c, h), Len(c.buf) # 0,
         NEW g, DOMAIN g \subseteq Int, \A x \in DOMAIN h : x \in DOMAIN g /\ h[x] = g[x],
         \A x \in DOMAIN g : c.beg <= x => x \in DOMAIN h
  PROVE  GetsNext(c, g)
<1>1. PICK n \in Nat \ {0} : /\ n = Len(c.buf) /\ c.buf \in Seq(Cells) /\ Rising(c.buf)
                             /\ Stamped(c.buf) /\ Ended(c) /\ Tells(c.buf, h)
  BY EntriesAre DEF Flows
<1>2. \A i \in 1..n : c.buf[i] \in Cells /\ c.buf[i].tm \in Nat \ {0} /\ h[c.buf[i].tm] = c.buf[i].val
  <2>1. ASSUME NEW i \in 1..n PROVE c.buf[i].tm \in Nat \ {0}
    <3>1. c.buf[i].tm \in Int /\ c.buf[i].tm > 0
      BY <1>1, EntriesAre DEF Stamped
    <3>2. QED
      BY <3>1
  <2>2. QED
    BY <1>1, <2>1, EntriesAre DEF Tells
<1>3. DOMAIN h = TimesOf(c.buf)
  BY <1>1 DEF Tells
<1>4. PICK lo \in Nat \ {0}, hi \in Nat \ {0} :
        lo = c.beg /\ hi = c.end /\ lo = c.buf[1].tm /\ hi = c.buf[n].tm /\ lo <= hi
  <2>1. 1 \in 1..n /\ n \in 1..n /\ (n = 1 \/ 1 < n)
    OBVIOUS
  <2>2. 1 < n => c.buf[1].tm < c.buf[n].tm
    BY <1>1, <2>1 DEF Rising
  <2>3. PICK x \in Nat \ {0}, y \in Nat \ {0} : x = c.buf[1].tm /\ y = c.buf[n].tm
    BY <1>2, <2>1
  <2>4. x <= y
    BY <2>1, <2>2, <2>3
  <2>5. QED
    BY <1>1, <2>3, <2>4 DEF Ended
<1>5. \A i \in 1..n : lo <= c.buf[i].tm /\ c.buf[i].tm <= hi
  <2>1. ASSUME NEW i \in 1..n PROVE lo <= c.buf[i].tm /\ c.buf[i].tm <= hi
    <3>1. 1 \in 1..n /\ n \in 1..n /\ (i = 1 \/ 1 < i) /\ (i = n \/ i < n)
      BY <1>1
    <3>2. /\ 1 < i => c.buf[1].tm < c.buf[i].tm
          /\ i < n => c.buf[i].tm < c.buf[n].tm
      BY <1>1, <3>1 DEF Rising
    <3>3. PICK x \in Nat : x = c.buf[i].tm
      BY <1>2
    <3>4. QED
      BY <1>4, <3>1, <3>2, <3>3
  <2>2. QED
    BY <2>1
<1>6. ASSUME NEW u \in lo..hi PROVE GotNext(Get(c, u, TRUE), c, g, u)
  <2>1. PICK i \in 1..n :
          /\ Get(c, u, TRUE) = c.buf[i]
          /\ c.buf[i].tm >= u
          /\ \A j \in 1..n : c.buf[j].tm >= u => c.buf[i].tm <= c.buf[j].tm
    <3>1. u \in c.beg..c.end /\ TRUE \in BOOLEAN
      BY <1>4
    <3>2. QED
      BY <1>1, <3>1, FlowGetIs DEF Nearest
  <2>2. PICK x \in Nat : x = c.buf[i].tm /\ u <= x /\ lo <= x /\ x <= hi
    <3>1. PICK x \in Nat : x = c.buf[i].tm
      BY <1>2
    <3>2. QED
      BY <1>5, <2>1, <3>1
  <2>3. x \in DOMAIN h
    BY <1>1, <1>3, <2>2 DEF TimesOf
  <2>4. x \in DOMAIN g /\ c.buf[i].val = g[x]
    BY <1>2, <2>2, <2>3
  <2>5. ASSUME NEW y \in DOMAIN g, c.beg <= y, u <= y PROVE x <= y
    <3>1. y \in TimesOf(c.buf)
      BY <1>3, <2>5
    <3>2. PICK j \in 1..n : y = c.buf[j].tm
      BY <1>1, <3>1 DEF TimesOf
    <3>3. y \in Nat /\ u \in Nat
      BY <1>2, <3>2
    <3>4. c.buf[j].tm >= u
      BY <2>5, <3>2, <3>3
    <3>5. QED
      BY <2>1, <2>2, <3>2, <3>4
  <2>6. IsNext(x, c, g, u)
    BY <1>4, <2>2, <2>4, <2>5 DEF IsNext
  <2>7. QED
    BY <1>2, <2>1, <2>2, <2>4, <2>6 DEF GotNext
<1>7. QED
  BY <1>4, <1>6, NextFromBegin

\* What is told at the times of S.
Part(S) == [x \in S |-> told[x]]

\* A value that is told, set to a flow of values that are told: there is room for
\* it, as there is for all of them.
LEMMA FlowAdds ==
  ASSUME ValBufAssumption, FlowInv, grid = "flow", NEW S, NEW c, Flows(c, Part(S)),
         NEW x, x \in DOMAIN told, S \subseteq DOMAIN told
  PROVE  Flows(SetTo(c, told[x], x), Part(S \union {x})) /\ Len(SetTo(c, told[x], x).buf) # 0
<1>1. /\ size \in Nat /\ tb.buf \in Seq(Cells) /\ Rising(tb.buf) /\ Stamped(tb.buf)
      /\ InSize(tb.buf) /\ Tells(tb.buf, told)
  BY DEF FlowInv, Flows
<1>2. PICK i \in 1..Len(tb.buf) : x = tb.buf[i].tm
  BY <1>1 DEF Tells, TimesOf
<1>3. PICK v \in Vals : v = told[x]
  <2>1. told[x] = tb.buf[i].val
    BY <1>1, <1>2 DEF Tells
  <2>2. QED
    BY <1>1, <2>1, EntriesAre
<1>4. x \in Int /\ x > 0 /\ Stored(x) = x /\ Stored(x) \in Int
  <2>1. x \in Int
    BY <1>1, <1>2, EntriesAre
  <2>2. QED
    BY <1>1, <1>2, <2>1 DEF Stamped
<1>5. PICK e : e = [tm |-> Stored(x), val |-> v] /\ e.tm = Stored(x) /\ e.tm = x /\ e.val = v
  <2>1. PICK e : e = [tm |-> Stored(x), val |-> v]
    OBVIOUS
  <2>2. e.tm = Stored(x) /\ e.val = v
    BY <2>1
  <2>3. QED
    BY <1>4, <2>1, <2>2
<1>6. PICK b : b = Begun(c, x) /\ Flows(b, Part(S))
  BY BegunFlows
<1>7. PICK at : /\ PlaceOf(b.buf, Stored(x), at)
                /\ FlowSet(b, v, x) = FlowSetAt(b, v, x, at)
  BY <1>4, <1>6, FlowPlace DEF Flows
<1>8. PICK d : d = SetTo(c, v, x) /\ d = FlowSetAt(b, v, x, at)
  BY <1>6, <1>7 DEF SetTo
<1>9. Adds(d, b.buf, e)
  BY <1>1, <1>4, <1>5, <1>6, <1>7, <1>8, FlowSetAdds DEF Flows, Ended
<1>10. TimesOf(b.buf) = S
  BY <1>6 DEF Flows, Tells, Part
<1>11. Joined(b.buf, e) = S \union {x}
  BY <1>5, <1>10 DEF Joined
<1>12. Left(S \union {x}) = S \union {x}
  <2>1. IsFiniteSet(DOMAIN told) /\ Cardinality(DOMAIN told) = Len(tb.buf)
    BY <1>1, RisingCount DEF Tells
  <2>2. S \union {x} \in SUBSET DOMAIN told
    OBVIOUS
  <2>3. PICK k \in Nat : k = Cardinality(S \union {x}) /\ k <= Len(tb.buf)
    BY <2>1, <2>2, FS_Subset, FS_CardinalityType
  <2>4. PICK n \in Nat : n = Len(tb.buf) /\ (size # 0 => n <= size)
    BY <1>1, EntriesAre DEF InSize
  <2>5. ~(size # 0 /\ k > size)
    BY <1>1, <2>3, <2>4
  <2>6. QED
    BY <2>3, <2>5 DEF Left
<1>13. TimesOf(d.buf) = S \union {x}
  BY <1>9, <1>11, <1>12 DEF Adds
<1>14. \A y \in S \union {x} : Part(S \union {x})[y] = told[y]
  BY DEF Part
<1>15. ASSUME NEW k \in 1..Len(d.buf)
       PROVE  /\ d.buf[k].tm > 0 /\ Stored(d.buf[k].tm) = d.buf[k].tm
              /\ Part(S \union {x})[d.buf[k].tm] = d.buf[k].val
  <2>1. d.buf[k].tm \in S \union {x}
    BY <1>13 DEF TimesOf
  <2>2. CASE d.buf[k] = e
    BY <1>3, <1>4, <1>5, <1>14, <2>1, <2>2
  <2>3. ASSUME NEW j \in 1..Len(b.buf), d.buf[k] = b.buf[j]
        PROVE  /\ d.buf[k].tm > 0 /\ Stored(d.buf[k].tm) = d.buf[k].tm
               /\ Part(S \union {x})[d.buf[k].tm] = d.buf[k].val
    <3>1. b.buf[j].tm > 0 /\ Stored(b.buf[j].tm) = b.buf[j].tm
      BY <1>6 DEF Flows, Stamped
    <3>2. b.buf[j].tm \in S
      BY <1>10 DEF TimesOf
    <3>3. Part(S)[b.buf[j].tm] = b.buf[j].val
      BY <1>6 DEF Flows, Tells
    <3>4. told[b.buf[j].tm] = b.buf[j].val
      BY <3>2, <3>3 DEF Part
    <3>5. QED
      BY <1>14, <2>1, <2>3, <3>1, <3>4
  <2>4. QED
    BY <1>9, <2>2, <2>3 DEF Adds
<1>16. DOMAIN Part(S \union {x}) = S \union {x}
  BY DEF Part
<1>17. Tells(d.buf, Part(S \union {x})) /\ Stamped(d.buf)
  BY <1>13, <1>15, <1>16 DEF Tells, Stamped
<1>18. Flows(d, Part(S \union {x})) /\ Len(d.buf) # 0
  BY <1>9, <1>17 DEF Flows, Adds, Ended
<1>19. QED
  BY <1>3, <1>8, <1>18

LEMMA FlowEmpty ==
  ASSUME size \in Nat
  PROVE  Flows(Empty, Part({}))
<1>1. PICK s : s = <<>> /\ s \in Seq(Cells) /\ Len(s) = 0 /\ DOMAIN s = {} /\ 1..Len(s) = {}
  BY NoEntries
<1>2. s = Empty.buf /\ Shaped(Empty)
  BY <1>1 DEF Empty, Shaped
<1>3. TimesOf(s) = {} /\ DOMAIN Part({}) = {}
  BY <1>1 DEF TimesOf, Part
<1>4. Tells(s, Part({}))
  BY <1>1, <1>3 DEF Tells
<1>5. Rising(s) /\ Stamped(s) /\ InSize(s)
  <2>1. size # 0 => 0 <= size
    OBVIOUS
  <2>2. QED
    BY <1>1, <2>1 DEF Rising, Stamped, InSize
<1>6. QED
  BY <1>1, <1>2, <1>4, <1>5 DEF Flows

FirstTimes(s, i) == {s[k].tm : k \in 1..i}

LEMMA FlowParts ==
  ASSUME ValBufAssumption, FlowInv, grid = "flow",
         NEW t \in Nat, NEW s, Chain(s, tb, told, t), NEW c, Sets(c, s)
  PROVE  Flows(c[Len(s)], Part(TimesOf(s))) /\ Len(c[Len(s)].buf) # 0
<1>1. PICK n \in Nat \ {0} : n = Len(s)
  BY DEF Chain
<1>2. \A i \in 1..n : s[i].tm \in DOMAIN told /\ s[i].val = told[s[i].tm]
  <2>1. \A i \in 1..Len(s) :
          /\ s[i] \in Cells /\ s[i].val = told[s[i].tm] /\ s[i].tm \in Nat
          /\ s[i].tm \in DOMAIN told /\ tb.beg <= s[i].tm
          /\ t <= s[i].tm /\ s[1].tm <= s[i].tm
    BY ChainRises
  <2>2. QED
    BY <1>1, <2>1
<1> DEFINE N == {i \in Nat : i <= n =>
                   /\ Flows(c[i], Part(FirstTimes(s, i)))
                   /\ i # 0 => Len(c[i].buf) # 0}
<1>3. 0 \in N
  <2>1. FirstTimes(s, 0) = {}
    BY DEF FirstTimes
  <2>2. c[0] = Empty
    BY DEF Sets
  <2>3. size \in Nat
    BY DEF FlowInv
  <2>4. QED
    BY <2>1, <2>2, <2>3, FlowEmpty
<1>4. ASSUME NEW i \in Nat, i \in N PROVE i + 1 \in N
  <2>1. SUFFICES ASSUME i + 1 <= n
                 PROVE  /\ Flows(c[i + 1], Part(FirstTimes(s, i + 1)))
                        /\ Len(c[i + 1].buf) # 0
    OBVIOUS
  <2>2. i <= n /\ i + 1 \in 1..n /\ (i + 1) - 1 = i
    BY <2>1
  <2>3. Flows(c[i], Part(FirstTimes(s, i)))
    BY <1>4, <2>2
  <2>4. PICK x : x = s[i + 1].tm /\ x \in DOMAIN told /\ s[i + 1].val = told[x]
    BY <1>2, <2>2
  <2>5. c[i + 1] = SetTo(c[i], told[x], x)
    <3>1. c[i + 1] = SetTo(c[(i + 1) - 1], s[i + 1].val, s[i + 1].tm)
      BY <1>1, <2>2 DEF Sets
    <3>2. QED
      BY <2>2, <2>4, <3>1
  <2>6. FirstTimes(s, i) \subseteq DOMAIN told
    <3>1. 1..i \subseteq 1..n
      BY <2>2
    <3>2. QED
      BY <1>2, <3>1 DEF FirstTimes
  <2>7. FirstTimes(s, i + 1) = FirstTimes(s, i) \union {x}
    <3>1. 1..(i + 1) = 1..i \union {i + 1}
      OBVIOUS
    <3>2. QED
      BY <2>4, <3>1 DEF FirstTimes
  <2>8. PICK S : S = FirstTimes(s, i) /\ S \subseteq DOMAIN told /\ S \union {x} = FirstTimes(s, i + 1)
    BY <2>6, <2>7
  <2>9. PICK b : b = c[i] /\ Flows(b, Part(S))
    BY <2>3, <2>8
  <2>10. Flows(SetTo(b, told[x], x), Part(S \union {x})) /\ Len(SetTo(b, told[x], x).buf) # 0
    BY <2>4, <2>8, <2>9, FlowAdds
  <2>11. QED
    BY <2>5, <2>8, <2>9, <2>10
<1> HIDE DEF N
<1>5. Nat \subseteq N
  BY <1>3, <1>4, Counting
<1>6. n \in N /\ FirstTimes(s, n) = TimesOf(s)
  BY <1>1, <1>5 DEF FirstTimes, TimesOf
<1>7. n <= n /\ n # 0
  OBVIOUS
<1>8. QED
  BY <1>1, <1>6, <1>7 DEF N

LEMMA FlowMakesCopies ==
  ASSUME ValBufAssumption, FlowInv, grid = "flow", Len(tb.buf) # 0
  PROVE  MakesCopies
<1>1. /\ Flows(tb, told) /\ Ended(tb) /\ tb.buf \in Seq(Cells) /\ DOMAIN told = TimesOf(tb.buf)
  BY DEF FlowInv, Flows, Tells
<1>2. DOMAIN told \subseteq Int
  BY <1>1, EntriesAre
<1>3. GetsNext(tb, told)
  BY <1>1, <1>2, FlowNexts
<1>4. PICK lo \in Nat \ {0}, hi \in Nat : lo = tb.beg /\ hi = tb.end /\ lo <= hi
  BY <1>3 DEF GetsNext
<1>5. ASSUME NEW t \in lo..hi, NEW s, NEW c, Chain(s, tb, told, t), Sets(c, s)
      PROVE  Copies(c[Len(s)], s)
  <2>1. PICK n \in Nat \ {0} : n = Len(s) /\ s[n].tm = hi /\ n \in 1..n /\ 1 \in 1..n
    BY <1>4, <1>5 DEF Chain
  <2>2. t \in Nat
    BY <1>5
  <2>3. \A i \in 1..n :
          /\ s[i] \in Cells /\ s[i].val = told[s[i].tm] /\ s[i].tm \in Nat
          /\ s[i].tm \in DOMAIN told /\ tb.beg <= s[i].tm
          /\ t <= s[i].tm /\ s[1].tm <= s[i].tm
    BY <1>5, <2>1, <2>2, ChainRises
  <2>4. PICK d : d = c[n] /\ Flows(d, Part(TimesOf(s))) /\ Len(d.buf) # 0
    <3>1. Flows(c[Len(s)], Part(TimesOf(s))) /\ Len(c[Len(s)].buf) # 0
      BY <1>5, <2>2, FlowParts
    <3>2. QED
      BY <2>1, <3>1
  <2>5. PICK m \in Nat \ {0} : /\ m = Len(d.buf) /\ d.buf \in Seq(Cells) /\ Rising(d.buf)
                               /\ Ended(d) /\ TimesOf(d.buf) = TimesOf(s)
    BY <2>4, EntriesAre DEF Flows, Tells, Part
  <2>6. \A i \in 1..m : d.buf[i].tm \in Int
    BY <2>5, EntriesAre
  <2>7. PICK x \in Nat : x = s[1].tm /\ t <= x /\ lo <= x /\ x <= hi
    <3>1. PICK x \in Nat : x = s[1].tm /\ t <= x /\ lo <= x
      BY <1>4, <2>1, <2>3
    <3>2. x <= hi
      BY <2>1, <2>3, <3>1
    <3>3. QED
      BY <3>1, <3>2
  <2>8. d.beg = x
    <3>1. PICK i \in 1..m : d.buf[i].tm = x
      <4>1. x \in TimesOf(d.buf)
        BY <2>1, <2>5, <2>7 DEF TimesOf
      <4>2. QED
        BY <2>5, <4>1 DEF TimesOf
    <3>2. PICK k \in 1..n : s[k].tm = d.buf[1].tm
      <4>1. d.buf[1].tm \in TimesOf(s)
        <5>1. 1 \in 1..m
          OBVIOUS
        <5>2. QED
          BY <2>5, <5>1 DEF TimesOf
      <4>2. QED
        BY <2>1, <4>1 DEF TimesOf
    <3>3. PICK y \in Nat : y = d.buf[1].tm /\ x <= y
      BY <2>3, <2>7, <3>2
    <3>4. y <= x
      <4>1. 1 \in 1..m /\ (i = 1 \/ 1 < i)
        OBVIOUS
      <4>2. 1 < i => d.buf[1].tm < d.buf[i].tm
        BY <2>5, <4>1 DEF Rising
      <4>3. QED
        BY <3>1, <3>3, <4>1, <4>2
    <3>5. QED
      BY <2>5, <3>3, <3>4 DEF Ended
  <2>9. \A y \in DOMAIN told : y \in Int /\ y <= hi
    <3>1. ASSUME NEW y \in DOMAIN told PROVE y \in Int /\ y <= hi
      <4>1. PICK i \in 1..Len(tb.buf) : y = tb.buf[i].tm
        BY <1>1 DEF TimesOf
      <4>2. PICK k \in Nat \ {0} : k = Len(tb.buf) /\ k \in 1..k /\ i \in 1..k /\ (i = k \/ i < k)
        BY <1>1, EntriesAre
      <4>3. i < k => tb.buf[i].tm < tb.buf[k].tm
        BY <4>2 DEF FlowInv, Flows, Rising
      <4>4. y \in Int /\ hi = tb.buf[k].tm
        BY <1>1, <1>2, <1>4, <4>2 DEF Ended
      <4>5. QED
        BY <4>1, <4>2, <4>3, <4>4
    <3>2. QED
      BY <3>1
  <2>10. \A y \in DOMAIN told : x <= y => y \in TimesOf(s)
    <3>1. ASSUME NEW y \in DOMAIN told, x <= y PROVE y \in TimesOf(s)
      <4>1. y \in Nat /\ lo <= y /\ t <= y /\ y <= hi
        BY <2>2, <2>7, <2>9, <3>1
      <4>2. QED
        BY <1>4, <1>5, <2>2, <4>1, ChainFull
    <3>2. QED
      BY <3>1
  <2>11. d.end = hi
    <3>1. PICK i \in 1..m : d.buf[i].tm = hi
      <4>1. hi \in TimesOf(d.buf)
        BY <2>1, <2>5 DEF TimesOf
      <4>2. QED
        BY <2>5, <4>1 DEF TimesOf
    <3>2. PICK k \in 1..n : s[k].tm = d.buf[m].tm
      <4>1. d.buf[m].tm \in TimesOf(s)
        <5>1. m \in 1..m
          OBVIOUS
        <5>2. QED
          BY <2>5, <5>1 DEF TimesOf
      <4>2. QED
        BY <2>1, <4>1 DEF TimesOf
    <3>3. PICK y \in Nat : y = d.buf[m].tm /\ y <= hi
      BY <2>3, <2>9, <3>2
    <3>4. hi <= y
      <4>1. m \in 1..m /\ (i = m \/ i < m)
        OBVIOUS
      <4>2. i < m => d.buf[i].tm < d.buf[m].tm
        BY <2>5, <4>1 DEF Rising
      <4>3. QED
        BY <3>1, <3>3, <4>1, <4>2
    <3>5. QED
      BY <2>5, <3>3, <3>4 DEF Ended
  <2>12. GetsNext(d, told)
    <3>1. DOMAIN Part(TimesOf(s)) = TimesOf(s) /\ \A y \in TimesOf(s) : Part(TimesOf(s))[y] = told[y]
      BY DEF Part
    <3>2. TimesOf(s) \subseteq DOMAIN told
      BY <2>1, <2>3 DEF TimesOf
    <3>3. PICK h : h = Part(TimesOf(s))
      OBVIOUS
    <3>4. \A y \in DOMAIN h : y \in DOMAIN told /\ h[y] = told[y]
      BY <3>1, <3>2, <3>3
    <3>5. \A y \in DOMAIN told : d.beg <= y => y \in DOMAIN h
      BY <2>8, <2>10, <3>1, <3>3
    <3>6. QED
      BY <1>2, <2>4, <3>3, <3>4, <3>5, FlowNexts
  <2>13. QED
    BY <1>4, <2>1, <2>4, <2>7, <2>8, <2>11, <2>12 DEF Copies
<1>6. QED
  BY <1>3, <1>4, <1>5 DEF MakesCopies

LEMMA FlowCopies ==
  ASSUME ValBufAssumption, FlowInv, grid = "flow"
  PROVE  CopyRight
<1>1. CASE Len(tb.buf) = 0
  <2>1. tb.end = 0
    BY <1>1 DEF FlowInv
  <2>2. QED
    BY <2>1, CopyIs
<1>2. CASE Len(tb.buf) # 0
  BY <1>2, FlowMakesCopies, CopyIs
<1>3. QED
  BY <1>1, <1>2

\* getVals() of a flow (src/src/tarchval.cpp:372) from any time it has to its end,
\* put into an empty flow of the same size and resolution, makes a copy that
\* gives the same for every time: each read goes on at the time after the one
\* before, no time between is left out, and none is dropped as the oldest.
THEOREM FlowCopyRight == Spec => [](grid = "flow" => CopyRight)
<1>1. FlowInv => (grid = "flow" => CopyRight)
  BY FlowCopies, ValBufAssumption
<1>2. QED
  BY <1>1, FlowGoes, PTL

-----------------------------------------------------------------------------
(* The copy of a soft grid                                                 *)

LEMMA SoftNexts ==
  ASSUME ValBufAssumption, grid = "soft", NEW c, SoftFits(c), Len(c.buf) # 0,
         NEW g, Follows(c, g), CellsTold(c, g)
  PROVE  GetsNext(c, g)
<1>1. c.beg \in Int /\ c.end \in Int
  BY RingedIs DEF SoftFits
<1>2. ASSUME NEW u \in c.beg..c.end
      PROVE  /\ Get(c, u, TRUE) \in Cells /\ Get(c, u, TRUE).tm = CellUp(u)
             /\ Get(c, u, TRUE).val = g[CellUp(u)]
  <2>1. u \in Int /\ c.beg <= u /\ u <= c.end
    BY <1>1
  <2>2. Get(c, u, TRUE) = SoftGet(c, u, TRUE)
    BY <1>1, <2>1, SoftGot
  <2>3. Found(c, u, TRUE, CellUp(u))
    <3>1. Found(c, u, TRUE, Near(u, TRUE))
      BY <2>1, SoftGetIs
    <3>2. QED
      BY <3>1 DEF Near
  <2>4. PICK x \in Int : x = CellUp(u)
    BY <2>1, CellUpIs
  <2>5. PICK j \in 0..Len(c.buf)-1 :
          /\ Spans(c, j, x)
          /\ SoftGet(c, u, TRUE).tm = x /\ SoftGet(c, u, TRUE).val = At(c, j).val
          /\ SoftGet(c, u, TRUE) \in Cells
    BY <2>3, <2>4 DEF Found
  <2>6. g[x] = At(c, j).val
    BY <2>5 DEF Follows
  <2>7. QED
    BY <2>2, <2>4, <2>5, <2>6
<1>3. QED
  BY <1>2, CellsNext

\* Each cell of a ring has an entry, a later one no older one.
LEMMA SpansOne ==
  ASSUME ValBufAssumption, NEW b, SoftFits(b), Len(b.buf) # 0,
         NEW x \in Int, Cell(x) = x, b.beg <= x, x <= b.end
  PROVE  \E j \in 0..Len(b.buf)-1 : Spans(b, j, x)
<1>1. Found(b, x, FALSE, Near(x, FALSE))
  BY SoftGetIs
<1>2. Near(x, FALSE) = x
  BY DEF Near
<1>3. QED
  BY <1>1, <1>2 DEF Found

LEMMA SpansFall ==
  ASSUME ValBufAssumption, NEW b, SoftFits(b), NEW n \in Nat, n = Len(b.buf),
         NEW j \in 0..n-1, NEW k \in 0..n-1, NEW y \in Int, NEW x \in Int, y < x,
         Spans(b, j, y), Spans(b, k, x)
  PROVE  k <= j
<1>1. SUFFICES ASSUME j < k PROVE FALSE
  OBVIOUS
<1>2. PICK i \in 0..n-1 : i = k - 1 /\ j <= i /\ k > 0
  <2>1. k - 1 \in 0..n-1 /\ j <= k - 1 /\ k > 0
    BY <1>1
  <2>2. QED
    BY <2>1
<1>3. PICK p \in Int, q \in Int : p = At(b, i).tm /\ q = At(b, j).tm
  BY RingedIs DEF SoftFits
<1>4. p <= q
  <2>1. i = j \/ j < i
    BY <1>2
  <2>2. j < i => At(b, i).tm < At(b, j).tm
    BY DEF SoftFits, Falls
  <2>3. QED
    BY <1>3, <2>1, <2>2
<1>5. q <= y
  BY <1>3 DEF Spans
<1>6. x < p
  BY <1>2, <1>3 DEF Spans
<1>7. QED
  BY <1>3, <1>4, <1>5, <1>6

Kept(c, e) == Len(c.buf) # 0 /\ At(c, 0).val = e.val

\* d is c and the cell of e after its end, an entry longer where it is a change.
SoftLonger(d, c, e) ==
  /\ SoftFits(d) /\ Follows(d, told) /\ NotLapped(d) /\ Len(d.buf) # 0
  /\ d.beg = c.beg /\ d.end = e.tm
  /\ Len(d.buf) = IF Kept(c, e) THEN Len(c.buf) ELSE Len(c.buf) + 1

LEMMA SoftAppends ==
  ASSUME ValBufAssumption, SizesFit, room # 1, grid = "soft", NEW c, SoftFits(c), Follows(c, told),
         NotLapped(c), NEW e \in Cells, e.tm = c.end + Per, told[e.tm] = e.val,
         Kept(c, e) \/ size = 0 \/ Len(c.buf) < size
  PROVE  SoftLonger(SoftNext(c, e), c, e)
<1>1. PICK d : d = SoftNext(c, e) /\ Grown(d, c, e)
  BY SoftNextIs
<1>2. SoftFits(d) /\ Follows(d, told) /\ Len(d.buf) # 0 /\ d.end = e.tm
  BY <1>1 DEF Grown, SameTill
<1>3. /\ Ringed(c) /\ c \in Ring /\ Len(c.buf) \in Nat /\ c.cur \in Nat /\ size \in Nat
      /\ c.end \in Int /\ c.beg \in Int
  BY RingedIs DEF SoftFits, Ringed, SizesFit
<1>4. Kept(c, e) <=> c.buf # <<>> /\ c.buf[NewestPos(c)].val = e.val
  <2>1. CASE Len(c.buf) # 0
    BY <1>3, <2>1, NewestIs DEF Kept
  <2>2. CASE Len(c.buf) = 0
    <3>1. c.buf = <<>>
      BY <1>3, <2>2, RingedIs
    <3>2. QED
      BY <2>2, <3>1 DEF Kept
  <2>3. QED
    BY <2>1, <2>2
<1>5. CASE Kept(c, e)
  <2>1. d = [c EXCEPT !.end = @ + Per]
    BY <1>1, <1>4, <1>5 DEF SoftNext
  <2>2. d.buf = c.buf /\ d.cur = c.cur /\ d.beg = c.beg
    BY <1>3, <2>1 DEF Ring
  <2>3. NotLapped(d)
    BY <2>2 DEF NotLapped
  <2>4. QED
    BY <1>1, <1>2, <1>5, <2>2, <2>3 DEF SoftLonger
<1>6. CASE ~Kept(c, e)
  <2>1. PICK w : w = Write(c, e) /\ Written(w, c, e)
    BY <1>3, WriteIs
  <2>2. c.cur = Len(c.buf) /\ (size = 0 \/ Len(c.buf) < size)
    BY <1>3, <1>6 DEF NotLapped
  <2>3. Len(w.buf) = Len(c.buf) + 1 /\ w.beg = c.beg /\ w \in Ring
    BY <1>3, <2>1, <2>2 DEF Written, Ringed
  <2>4. w.cur = IF size # 0 /\ c.cur + 1 >= size THEN 0 ELSE c.cur + 1
    BY <2>1 DEF Write
  <2>5. d = [w EXCEPT !.end = @ + Per]
    BY <1>1, <1>4, <1>6, <2>1 DEF SoftNext
  <2>6. d.buf = w.buf /\ d.cur = w.cur /\ d.beg = w.beg
    BY <2>3, <2>5 DEF Ring
  <2>7. NotLapped(d)
    BY <1>3, <2>2, <2>3, <2>4, <2>6 DEF NotLapped
  <2>8. QED
    BY <1>1, <1>2, <1>6, <2>3, <2>6, <2>7 DEF SoftLonger
<1>7. QED
  BY <1>5, <1>6

LEMMA SoftSetCell ==
  ASSUME ValBufAssumption, SizesFit, grid = "soft", NEW c, Ringed(c),
         NEW x \in Int, Quot(x - c.end, Per) = 1, Stored(x) = x, NEW v \in Vals
  PROVE  SoftSet(c, v, x) = SoftNext(c, [tm |-> x, val |-> v])
<1>1. PICK n \in Nat : n = 1
  OBVIOUS
<1>2. PICK f : SoftSteps(f, c, n, v, x)
  BY SoftCellsGoOn
<1>3. 1 \in 1..n /\ 1 - 1 = 0
  BY <1>1
<1>4. f[1] = SoftNext(f[1 - 1], SoftEntry(c, n, v, x, 1, f[1 - 1])) /\ f[0] = c
  BY <1>2, <1>3 DEF SoftSteps
<1>5. SoftEntry(c, n, v, x, 1, f[1 - 1]) = [tm |-> x, val |-> v]
  BY <1>1 DEF SoftEntry
<1>6. SoftCells(c, 1, v, x) = f[1]
  BY <1>1, <1>2 DEF SoftSteps
<1>7. SoftSet(c, v, x) = SoftCells(c, 1, v, x)
  BY DEF SoftSet
<1>8. QED
  BY <1>3, <1>4, <1>5, <1>6, <1>7

\* The entries of the buffer after its end have places left in c.
RoomLeft(c) ==
  \E j \in 0..Len(tb.buf)-1 : Spans(tb, j, c.end) /\ Len(c.buf) <= Len(tb.buf) - j

LEMMA SoftMore ==
  ASSUME ValBufAssumption, SizesFit, room # 1, grid = "soft", KeepsCells, SoftOn(tb, told, first),
         NEW c, SoftFits(c), Follows(c, told), NotLapped(c), Len(c.buf) # 0, RoomLeft(c),
         c.beg # 0, c.end # 0, tb.beg <= c.end,
         NEW x, x = c.end + Per, x <= tb.end, NEW v \in Vals, told[x] = v
  PROVE  /\ SoftLonger(SetTo(c, v, x), c, [tm |-> x, val |-> v])
         /\ RoomLeft(SetTo(c, v, x))
<1>1. PICK e \in Cells : e = [tm |-> x, val |-> v] /\ e.tm = x /\ e.val = v
  <2>1. x \in Int
    BY RingedIs DEF SoftFits, ValBufAssumption
  <2>2. PICK e : e = [tm |-> x, val |-> v]
    OBVIOUS
  <2>3. e \in Cells /\ e.tm = x /\ e.val = v
    BY <2>1, <2>2 DEF Cells
  <2>4. QED
    BY <2>2, <2>3
<1>2. PICK y \in Int : y = c.end /\ Cell(y) = y /\ x = y + Per /\ Per \in Nat \ {0} /\ x \in Int
  BY RingedIs DEF SoftFits, ValBufAssumption
<1>3. Cell(x) = x
  BY <1>2, CellAfter
<1>4. Ringed(c) /\ c \in Ring /\ Begun(c, x) = c
  BY BegunSame DEF SoftFits, Ringed
<1>5. SetTo(c, v, x) = SoftNext(c, e)
  <2>1. Quot(x - c.end, Per) = 1
    BY <1>2, NextQuot
  <2>2. Stored(x) = x
    BY <1>2, <1>3 DEF KeepsCells
  <2>3. SoftSet(c, v, x) = SoftNext(c, e)
    BY <1>1, <1>2, <1>4, <2>1, <2>2, SoftSetCell
  <2>4. QED
    BY <1>4, <2>3 DEF SetTo
<1>6. /\ SoftFits(tb) /\ Follows(tb, told) /\ Len(tb.buf) # 0
      /\ tb.beg \in Int /\ tb.end \in Int
  BY SoftOnIs DEF SoftOn
<1>7. PICK n \in Nat \ {0}, m \in Nat \ {0} :
        n = Len(tb.buf) /\ m = Len(c.buf) /\ size \in Nat /\ (size # 0 => n <= size)
  <2>1. Len(tb.buf) \in Nat /\ Len(c.buf) \in Nat /\ (size # 0 => Len(tb.buf) <= size)
    BY <1>6, RingedIs DEF SoftFits, Ringed
  <2>2. QED
    BY <1>6, <2>1 DEF SizesFit
<1>8. PICK j \in 0..n-1 : Spans(tb, j, y) /\ m <= n - j
  BY <1>2, <1>7 DEF RoomLeft
<1>9. PICK k \in 0..n-1 : Spans(tb, k, x)
  <2>1. tb.beg <= x
    BY <1>2, <1>6
  <2>2. QED
    BY <1>2, <1>3, <1>6, <1>7, <2>1, SpansOne
<1>10. k <= j
  <2>1. y < x
    BY <1>2
  <2>2. QED
    BY <1>2, <1>6, <1>7, <1>8, <1>9, <2>1, SpansFall
<1>11. At(tb, j).val = told[y] /\ At(tb, k).val = v
  BY <1>2, <1>6, <1>7, <1>8, <1>9 DEF Follows
<1>12. At(c, 0).val = told[y]
  <2>1. 0 \in 0..m-1
    OBVIOUS
  <2>2. Spans(c, 0, y)
    BY <1>2, <1>7, <2>1 DEF Spans, SoftFits, OnCells
  <2>3. QED
    BY <1>2, <1>7, <2>1, <2>2 DEF Follows
<1>13. ~Kept(c, e) => k < j /\ m + 1 <= n - k /\ m < n
  <2>1. ~Kept(c, e) => k # j
    BY <1>1, <1>11, <1>12 DEF Kept
  <2>2. QED
    BY <1>8, <1>10, <2>1
<1>14. Kept(c, e) \/ size = 0 \/ Len(c.buf) < size
  BY <1>7, <1>13
<1>15. PICK d : d = SoftNext(c, e) /\ SoftLonger(d, c, e)
  BY <1>1, <1>14, SoftAppends
<1>16. RoomLeft(d)
  <2>1. d.end = x /\ Len(d.buf) = IF Kept(c, e) THEN m ELSE m + 1
    BY <1>1, <1>7, <1>15 DEF SoftLonger
  <2>2. Len(d.buf) <= n - k
    BY <1>8, <1>10, <1>13, <2>1
  <2>3. QED
    BY <1>7, <1>9, <2>1, <2>2 DEF RoomLeft
<1>17. QED
  BY <1>1, <1>5, <1>15, <1>16

\* The first cell that is set to an empty ring.
SoftStarts(d, x) ==
  /\ SoftFits(d) /\ Follows(d, told) /\ NotLapped(d) /\ Len(d.buf) # 0
  /\ d.beg = x /\ d.end = x /\ RoomLeft(d)

LEMMA SoftFirst ==
  ASSUME ValBufAssumption, SizesFit, room # 1, grid = "soft", KeepsCells, SoftOn(tb, told, first),
         NEW x \in Int, Cell(x) = x, Per <= x, tb.beg <= x, x <= tb.end,
         NEW v \in Vals, told[x] = v
  PROVE  SoftStarts(SetTo(Empty, v, x), x)
<1>1. PICK e \in Cells : e = [tm |-> x, val |-> v] /\ e.tm = x /\ e.val = v
  <2>1. PICK e : e = [tm |-> x, val |-> v]
    OBVIOUS
  <2>2. e \in Cells /\ e.tm = x /\ e.val = v
    BY <2>1 DEF Cells
  <2>3. QED
    BY <2>1, <2>2
<1>2. PICK c : c = Begun(Empty, x) /\ SoftBegins(c, x)
  BY SoftBegunEmpty
<1>3. /\ SoftFits(c) /\ Len(c.buf) = 0 /\ Follows(c, told)
      /\ c.end \in Int /\ c.beg = x /\ c.end = x - Per /\ Quot(x - c.end, Per) = 1
  BY <1>2 DEF SoftBegins
<1>4. Ringed(c) /\ c.cur = 0
  <2>1. c.cur \in Nat /\ c.cur <= Len(c.buf)
    BY <1>3, RingedIs DEF SoftFits
  <2>2. QED
    BY <1>3, <2>1 DEF SoftFits
<1>5. SetTo(Empty, v, x) = SoftNext(c, e)
  <2>1. Stored(x) = x
    BY DEF KeepsCells
  <2>2. SoftSet(c, v, x) = SoftNext(c, e)
    BY <1>1, <1>3, <1>4, <2>1, SoftSetCell
  <2>3. QED
    BY <1>2, <2>2 DEF SetTo
<1>6. e.tm = c.end + Per
  BY <1>1, <1>3 DEF ValBufAssumption
<1>7. ~Kept(c, e) /\ NotLapped(c) /\ (size = 0 \/ Len(c.buf) < size)
  <2>1. size \in Nat
    BY DEF SizesFit
  <2>2. QED
    BY <1>3, <1>4, <2>1 DEF Kept, NotLapped
<1>8. PICK d : d = SoftNext(c, e) /\ SoftLonger(d, c, e)
  BY <1>1, <1>3, <1>6, <1>7, SoftAppends
<1>9. d.end = x /\ d.beg = x /\ Len(d.buf) = 1
  BY <1>1, <1>3, <1>7, <1>8 DEF SoftLonger
<1>10. RoomLeft(d)
  <2>1. SoftFits(tb) /\ Len(tb.buf) # 0
    BY DEF SoftOn
  <2>2. PICK n \in Nat \ {0} : n = Len(tb.buf)
    BY <2>1, RingedIs DEF SoftFits
  <2>3. PICK j \in 0..n-1 : Spans(tb, j, x)
    BY <2>1, <2>2, SpansOne
  <2>4. 1 <= n - j
    OBVIOUS
  <2>5. QED
    BY <1>9, <2>2, <2>3, <2>4 DEF RoomLeft
<1>11. QED
  BY <1>5, <1>8, <1>9, <1>10 DEF SoftLonger, SoftStarts

\* The first i values of s are in c.
SoftPart(c, s, i) ==
  /\ SoftFits(c) /\ Follows(c, told) /\ NotLapped(c) /\ Len(c.buf) # 0 /\ RoomLeft(c)
  /\ c.beg = s[1].tm /\ c.end = s[i].tm

LEMMA SoftParts ==
  ASSUME ValBufAssumption, SizesFit, room # 1, grid = "soft", KeepsCells, SoftOn(tb, told, first),
         CellsTold(tb, told), NEW t, NEW s, Chain(s, tb, told, t), NEW c, Sets(c, s)
  PROVE  SoftPart(c[Len(s)], s, Len(s))
<1>1. PICK n \in Nat \ {0} : n = Len(s)
  BY DEF Chain
<1>2. /\ \A i \in 1..n : /\ s[i].val \in Vals /\ told[s[i].tm] = s[i].val /\ s[i].tm \in Nat
                         /\ Cell(s[i].tm) = s[i].tm /\ tb.beg <= s[i].tm /\ s[i].tm <= tb.end
      /\ \A i \in 1..n-1 : s[i + 1].tm = s[i].tm + Per
  <2>1. ToldInCells(s, n)
    BY <1>1, ChainTold
  <2>2. QED
    BY <2>1 DEF ToldInCells
<1>3. PICK b \in Int : b = tb.beg /\ Per <= b /\ Per \in Nat \ {0}
  <2>1. /\ tb.beg \in Int /\ first \in Int /\ Per \in Nat \ {0}
        /\ Per <= first /\ first <= tb.beg
    BY SoftOnIs
  <2>2. QED
    BY <2>1
<1>4. SoftPart(c[1], s, 1)
  <2>1. 1 \in 1..n
    BY <1>1
  <2>2. PICK x \in Nat, v \in Vals : /\ x = s[1].tm /\ v = s[1].val /\ Cell(x) = x /\ told[x] = v
                                     /\ b <= x /\ x <= tb.end
    BY <1>2, <1>3, <2>1
  <2>3. Per <= x /\ x \in Int
    BY <1>3, <2>2
  <2>4. PICK d : d = SetTo(Empty, v, x) /\ d = c[1]
    <3>1. c[0] = Empty /\ c[1] = SetTo(c[1-1], s[1].val, s[1].tm) /\ 1 - 1 = 0
      BY <1>1, <2>1 DEF Sets
    <3>2. QED
      BY <2>2, <3>1
  <2>5. SoftStarts(SetTo(Empty, v, x), x)
    BY <1>3, <2>2, <2>3, SoftFirst
  <2>6. QED
    BY <2>2, <2>4, <2>5 DEF SoftStarts, SoftPart
<1> DEFINE N == {i \in Nat : i + 1 <= n => SoftPart(c[i + 1], s, i + 1)}
<1>5. 0 \in N
  BY <1>4
<1>6. ASSUME NEW i \in Nat, i \in N PROVE i + 1 \in N
  <2>1. SUFFICES ASSUME (i + 1) + 1 <= n PROVE SoftPart(c[(i + 1) + 1], s, (i + 1) + 1)
    OBVIOUS
  <2>2. PICK k \in 1..n-1 : k = i + 1
    BY <2>1
  <2>3. k \in 1..n /\ k + 1 \in 1..n /\ 1 \in 1..n /\ (k + 1) - 1 = k
    OBVIOUS
  <2>4. PICK d : d = c[k] /\ SoftPart(d, s, k)
    BY <1>6, <2>2
  <2>5. PICK x \in Nat, v \in Vals : x = s[k + 1].tm /\ v = s[k + 1].val /\ told[x] = v /\ x <= tb.end
    BY <1>2, <2>3
  <2>6. PICK y \in Nat, z \in Nat : /\ y = s[k].tm /\ z = s[1].tm /\ x = y + Per
                                    /\ b <= y /\ b <= z
    BY <1>2, <1>3, <2>3, <2>5
  <2>7. /\ SoftFits(d) /\ Follows(d, told) /\ NotLapped(d) /\ Len(d.buf) # 0 /\ RoomLeft(d)
        /\ d.beg = z /\ d.end = y
    BY <2>4, <2>6 DEF SoftPart
  <2>8. y # 0 /\ z # 0
    BY <1>3, <2>6
  <2>9. PICK f : f = SetTo(d, v, x) /\ f = c[k + 1]
    <3>1. c[k + 1] = SetTo(c[(k + 1) - 1], s[k + 1].val, s[k + 1].tm)
      BY <1>1, <2>3 DEF Sets
    <3>2. QED
      BY <2>3, <2>4, <2>5, <3>1
  <2>10. PICK e : e = [tm |-> x, val |-> v] /\ e.tm = x
    <3>1. PICK e : e = [tm |-> x, val |-> v]
      OBVIOUS
    <3>2. e.tm = x
      BY <3>1
    <3>3. QED
      BY <3>1, <3>2
  <2>11. SoftLonger(f, d, e) /\ RoomLeft(f)
    <3>1. d.beg # 0 /\ d.end # 0 /\ tb.beg <= d.end /\ x = d.end + Per
      BY <1>3, <2>6, <2>7, <2>8
    <3>2. /\ SoftLonger(SetTo(d, v, x), d, [tm |-> x, val |-> v])
          /\ RoomLeft(SetTo(d, v, x))
      BY <2>5, <2>7, <3>1, SoftMore
    <3>3. QED
      BY <2>9, <2>10, <3>2
  <2>12. SoftPart(f, s, k + 1)
    BY <2>5, <2>6, <2>7, <2>10, <2>11 DEF SoftLonger, SoftPart
  <2>13. QED
    BY <2>2, <2>9, <2>12
<1> HIDE DEF N
<1>7. Nat \subseteq N
  BY <1>5, <1>6, Counting
<1>8. PICK j \in Nat : j + 1 = n
  <2>1. n - 1 \in Nat /\ (n - 1) + 1 = n
    BY <1>1
  <2>2. QED
    BY <2>1
<1>9. j \in N /\ j + 1 <= n
  BY <1>7, <1>8
<1>10. QED
  BY <1>1, <1>8, <1>9 DEF N

LEMMA SoftMakesCopies ==
  ASSUME ValBufAssumption, SizesFit, room # 1, grid = "soft", KeepsCells, SoftOn(tb, told, first)
  PROVE  MakesCopies
<1>1. PICK b \in Nat \ {0}, e \in Nat :
        /\ b = tb.beg /\ e = tb.end /\ b <= e /\ Cell(e) = e /\ first \in Int /\ first <= b
  <2>1. /\ tb.beg \in Int /\ tb.end \in Int /\ first \in Int /\ Per \in Nat \ {0}
        /\ Per <= first /\ first <= tb.beg /\ tb.beg <= tb.end /\ Cell(tb.end) = tb.end
    BY SoftOnIs
  <2>2. tb.beg \in Nat \ {0} /\ tb.end \in Nat
    BY <2>1
  <2>3. QED
    BY <2>1, <2>2
<1>2. /\ SoftFits(tb) /\ Len(tb.buf) # 0 /\ Follows(tb, told)
      /\ DOMAIN told = {x \in Int : Cell(x) = x /\ first <= x /\ x <= e}
  BY <1>1 DEF SoftOn
<1>3. CellsTold(tb, told)
  <2>1. \A x \in Int : b <= x => first <= x
    BY <1>1
  <2>2. QED
    BY <1>1, <1>2, <2>1 DEF CellsTold
<1>4. GetsNext(tb, told)
  BY <1>2, <1>3, SoftNexts
<1>5. ASSUME NEW t \in tb.beg..tb.end, NEW s, NEW c, Chain(s, tb, told, t), Sets(c, s)
      PROVE  Copies(c[Len(s)], s)
  <2>1. PICK n \in Nat \ {0} : n = Len(s)
    BY <1>5 DEF Chain
  <2>2. PICK d : d = c[n] /\ SoftPart(d, s, n)
    BY <1>3, <1>5, <2>1, SoftParts
  <2>3. s[n].tm = e
    BY <1>1, <1>5, <2>1 DEF Chain
  <2>4. PICK x \in Nat : x = s[1].tm /\ b <= x /\ x <= e /\ Cell(x) = x
    <3>1. 1 \in 1..n
      BY <2>1
    <3>2. QED
      BY <1>1, <1>3, <1>5, <2>1, <3>1, ChainCells
  <2>5. SoftFits(d) /\ Follows(d, told) /\ Len(d.buf) # 0 /\ d.beg = x /\ d.end = e
    BY <2>1, <2>2, <2>3, <2>4 DEF SoftPart
  <2>6. CellsTold(d, told)
    <3>1. x \in Nat \ {0}
      BY <1>1, <2>4
    <3>2. \A y \in Int : x <= y => first <= y
      BY <1>1, <2>4
    <3>3. QED
      BY <1>1, <1>2, <2>4, <2>5, <3>1, <3>2 DEF CellsTold
  <2>7. GetsNext(d, told)
    BY <2>5, <2>6, SoftNexts
  <2>8. QED
    BY <1>1, <2>1, <2>2, <2>4, <2>5, <2>7 DEF Copies
<1>6. QED
  BY <1>4, <1>5 DEF MakesCopies

LEMMA SoftCopies ==
  ASSUME ValBufAssumption, SoftInv, SoftMode
  PROVE  CopyRight
<1>1. SizesFit /\ room # 1 /\ grid = "soft" /\ KeepsCells
  BY CellsKeep DEF SoftInv, SoftMode
<1>2. CASE Rests
  <2>1. tb.end = 0
    BY <1>2 DEF Rests, Empty
  <2>2. QED
    BY <2>1, CopyIs
<1>3. CASE SoftOn(tb, told, first)
  BY <1>1, <1>3, SoftMakesCopies, CopyIs
<1>4. QED
  BY <1>2, <1>3 DEF SoftInv

\* getVals() of a soft grid (src/src/tarchval.cpp:372) from any time the ring has
\* to its end, put into an empty ring of the same mode, makes a copy that gives
\* the same for every time: cell by cell it is given, only the changes among them
\* are written, and these are never more than the ring that was read has.
THEOREM SoftCopyRight == Spec => [](SoftMode => CopyRight)
<1>1. SoftInv => (SoftMode => CopyRight)
  BY SoftCopies, ValBufAssumption
<1>2. QED
  BY <1>1, SoftGridGoes, PTL

-----------------------------------------------------------------------------
(* All grids together                                                      *)

\* Whatever the grid, get() (src/src/tarchval.cpp:485-606) gives, for each time the
\* buffer says it has and in both directions, what was last told for it: told for
\* the cell set() rounds a time to (lines 616 and 659), aligned or not.  Left out is
\* what Given leaves out, an entry of the soft grid kept off its cell's beginning.
THEOREM GetIsRight ==
  ASSUME CellsKept
  PROVE  Spec => []GetRight
<1>1. TypeOK => grid = "hard" \/ SoftMode \/ grid = "flow"
  BY ValBufAssumption DEF TypeOK, ValBufAssumption, CellsKept, SoftMode
<1>2. QED
  BY <1>1, Types, HardGetRight, SoftGetRight, FlowGetRight, PTL

\* Whatever the grid, set() (src/src/tarchval.cpp:608-882) loses values only to newer
\* ones, in a buffer that has as many as it was made for.
THEOREM NewestIsKept ==
  ASSUME CellsKept
  PROVE  Spec => []NewestKept
<1>1. TypeOK => grid = "hard" \/ SoftMode \/ grid = "flow"
  BY ValBufAssumption DEF TypeOK, ValBufAssumption, CellsKept, SoftMode
<1>2. QED
  BY <1>1, Types, HardNewestKept, SoftNewestKept, FlowNewestKept, PTL

\* Whatever the grid, getVals() (src/src/tarchval.cpp:372) into an empty buffer of the
\* same mode makes a copy, that gives the same for every time of the range.
THEOREM CopyIsRight ==
  ASSUME CellsKept
  PROVE  Spec => []CopyRight
<1>1. TypeOK => grid = "hard" \/ SoftMode \/ grid = "flow"
  BY ValBufAssumption DEF TypeOK, ValBufAssumption, CellsKept, SoftMode
<1>2. QED
  BY <1>1, Types, HardCopyRight, SoftCopyRight, FlowCopyRight, PTL
=============================================================================
