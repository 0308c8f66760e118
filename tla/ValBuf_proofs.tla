---------------------------- MODULE ValBuf_proofs ----------------------------
(***************************************************************************)
(* Proofs about ValBuf: on a hard time grid, for buffers of any sizes and  *)
(* periods and values at any times, the buffer gives what it was told,     *)
(* loses only the oldest cells, and counts its error values.               *)
(***************************************************************************)
EXTENDS ValBuf, TLAPS, FiniteSetTheorems, SequenceTheorems, WellFoundedInduction

-----------------------------------------------------------------------------
(* Induction over numbers, as a fact about sets of them                    *)

LEMMA LeastNat ==
  ASSUME NEW T, T \subseteq Nat, T # {}
  PROVE  \E x \in T : \A y \in T : x <= y
<1> DEFINE Less == {p \in Nat \X Nat : p[1] < p[2]}
<1>1. IsWellFoundedOn(Less, Nat)
  BY NatLessThanWellFounded, Zenon DEF OpToRel
<1> HIDE DEF Less
<1>2. PICK x \in T : \A y \in T : ~ (<<y, x>> \in Less)
  BY <1>1, WFMin
<1>3. \A y \in T : ~(y < x)
  BY <1>2 DEF Less
<1>4. QED
  BY <1>3

LEMMA Counting ==
  ASSUME NEW S, 0 \in S, \A n \in Nat : n \in S => n + 1 \in S
  PROVE  Nat \subseteq S
<1>1. SUFFICES ASSUME Nat \ S # {} PROVE FALSE
  OBVIOUS
<1>2. PICK x \in Nat \ S : \A y \in Nat \ S : x <= y
  BY <1>1, LeastNat
<1>3. x # 0 /\ x - 1 \in Nat /\ x - 1 < x
  BY <1>2
<1>4. QED
  BY <1>2, <1>3

\* n steps from b, each a function of the place it is at and of its number.
StepsOn(T, b, n, F) ==
  \E f \in [0..n -> T] : f[0] = b /\ \A i \in 1..n : f[i] = F[i][f[i-1]]

LEMMA Steps ==
  ASSUME NEW T, NEW b \in T, NEW n \in Nat, NEW F \in [1..n -> [T -> T]]
  PROVE  StepsOn(T, b, n, F)
<1> DEFINE P(k, f) == f \in [0..k -> T] /\ f[0] = b /\ \A i \in 1..k : f[i] = F[i][f[i-1]]
           S == {k \in Nat : k <= n => \E f : P(k, f)}
<1> SUFFICES \E f : P(n, f)
  BY DEF StepsOn
<1>1. 0 \in S
  <2>1. P(0, [i \in 0..0 |-> b])
    OBVIOUS
  <2>2. QED
    BY <2>1
<1>2. ASSUME NEW k \in Nat, k \in S PROVE k + 1 \in S
  <2>1. SUFFICES ASSUME k + 1 <= n PROVE \E f : P(k + 1, f)
    OBVIOUS
  <2>2. PICK f : P(k, f)
    BY <1>2, <2>1
  <2> DEFINE g == [i \in 0..k+1 |-> IF i <= k THEN f[i] ELSE F[k + 1][f[k]]]
  <2>3. F[k + 1][f[k]] \in T
    <3>1. f[k] \in T /\ k + 1 \in 1..n
      BY <2>1, <2>2
    <3>2. QED
      BY <3>1
  <2>4. g \in [0..k+1 -> T] /\ g[0] = b
    BY <2>2, <2>3
  <2>5. \A i \in 0..k : g[i] = f[i]
    OBVIOUS
  <2>6. g[k + 1] = F[k + 1][f[k]]
    OBVIOUS
  <2> HIDE DEF g
  <2>7. ASSUME NEW i \in 1..k+1 PROVE g[i] = F[i][g[i-1]]
    <3>1. CASE i \in 1..k
      <4>1. i - 1 \in 0..k /\ i \in 0..k
        BY <3>1
      <4>2. QED
        BY <2>2, <2>5, <3>1, <4>1
    <3>2. CASE i = k + 1
      <4>1. i - 1 = k /\ k \in 0..k
        BY <3>2
      <4>2. QED
        BY <2>5, <2>6, <3>2, <4>1
    <3>3. QED
      BY <3>1, <3>2
  <2>8. P(k + 1, g)
    BY <2>4, <2>7
  <2>9. QED
    BY <2>8
<1> HIDE DEF S
<1>3. Nat \subseteq S
  BY <1>1, <1>2, Counting
<1>4. n \in S
  BY <1>3
<1>5. QED
  BY <1>4 DEF S

-----------------------------------------------------------------------------
(* Cells and positions                                                     *)

\* Multiples of a period that are nearer than a period are the same.
LEMMA Apart ==
  ASSUME NEW p \in Nat \ {0}, NEW k \in Int, -p < p * k, p * k < p
  PROVE  k = 0
<1>1. CASE k >= 1
  <2>1. p * k >= p * 1
    BY <1>1
  <2>2. QED
    BY <2>1
<1>2. CASE k <= -1
  <2>1. p * k <= p * (-1)
    BY <1>2
  <2>2. QED
    BY <2>1
<1>3. QED
  BY <1>1, <1>2

LEMMA DivMod ==
  ASSUME NEW p \in Nat \ {0}, NEW x \in Int
  PROVE  /\ x \div p \in Int /\ x % p \in 0..p-1
         /\ x = p * (x \div p) + (x % p)
  OBVIOUS

LEMMA Quotient ==
  ASSUME NEW p \in Nat \ {0}, NEW q \in Int, NEW r \in 0..p-1
  PROVE  (p * q + r) \div p = q /\ (p * q + r) % p = r
<1>1. PICK x \in Int : x = p * q + r
  OBVIOUS
<1>2. PICK d \in Int, m \in 0..p-1 : d = x \div p /\ m = x % p /\ x = p * d + m
  BY DivMod
<1>3. p * (q - d) = m - r
  <2>1. p * (q - d) = p * q - p * d
    OBVIOUS
  <2>2. QED
    BY <1>1, <1>2, <2>1
<1>4. q - d = 0
  BY <1>2, <1>3, Apart
<1>5. QED
  BY <1>1, <1>2, <1>3, <1>4

\* Adding before or after the remainder is taken.
AddsUnderMod(p, x, k) == ((x % p) + k) % p = (x + k) % p

LEMMA ModAdd ==
  ASSUME NEW p \in Nat \ {0}, NEW x \in Int, NEW k \in Int
  PROVE  AddsUnderMod(p, x, k)
<1>1. PICK d \in Int, m \in 0..p-1 : m = x % p /\ x = p * d + m
  BY DivMod
<1>2. PICK e \in Int, s \in 0..p-1 : m + k = p * e + s /\ s = (m + k) % p
  <2>1. m + k \in Int
    OBVIOUS
  <2>2. QED
    BY <2>1, DivMod
<1>3. x + k = p * (d + e) + s
  <2>1. p * (d + e) = p * d + p * e
    OBVIOUS
  <2>2. PICK y \in Int, z \in Int : y = p * d /\ z = p * e
    OBVIOUS
  <2>3. p * (d + e) = y + z /\ x = y + m /\ m + k = z + s
    BY <1>1, <1>2, <2>1, <2>2
  <2>4. QED
    BY <2>3
<1>4. (p * (d + e) + s) % p = s
  BY Quotient
<1>5. QED
  BY <1>1, <1>2, <1>3, <1>4 DEF AddsUnderMod

\* The cell of a time is the last one that begins not after it.
LEMMA CellIs ==
  ASSUME ValBufAssumption, NEW t \in Int
  PROVE  /\ Per \in Nat \ {0}
         /\ t \div Per \in Int /\ Cell(t) = Per * (t \div Per)
         /\ Cell(t) \in Int /\ Cell(t) <= t /\ t < Cell(t) + Per
         /\ Cell(Cell(t)) = Cell(t)
<1>1. Per \in Nat \ {0}
  BY DEF ValBufAssumption
<1>2. PICK q \in Int, r \in 0..Per-1 : q = t \div Per /\ t = Per * q + r
  BY <1>1, DivMod
<1>3. Cell(t) = Per * q
  BY <1>2 DEF Cell
<1>4. Per * q \in Int /\ Per * q <= t /\ t < Per * q + Per
  BY <1>1, <1>2
<1>5. (Per * q + 0) \div Per = q
  BY <1>1, Quotient
<1>6. Cell(Per * q) = Per * q
  BY <1>1, <1>5 DEF Cell
<1>7. QED
  BY <1>1, <1>2, <1>3, <1>4, <1>6

\* Cells are a whole number of periods apart.
LEMMA CellPlus ==
  ASSUME ValBufAssumption, NEW x \in Int, NEW k \in Int, NEW r \in 0..Per-1, Cell(x) = x
  PROVE  /\ Cell(x + Per * k + r) = x + Per * k
         /\ (Per * k + r) \div Per = k
<1>1. Per \in Nat \ {0}
  BY DEF ValBufAssumption
<1>2. PICK q \in Int : q = x \div Per
  BY <1>1, DivMod
<1>3. x = Per * q
  BY <1>2 DEF Cell
<1>4. x + Per * k + r = Per * (q + k) + r
  <2>1. Per * (q + k) = Per * q + Per * k
    BY <1>1
  <2>2. QED
    BY <1>1, <1>3, <2>1
<1>5. (Per * (q + k) + r) \div Per = q + k
  BY <1>1, Quotient
<1>6. Per * (q + k) = x + Per * k
  BY <1>1, <1>3
<1>7. QED
  BY <1>1, <1>4, <1>5, <1>6, Quotient DEF Cell

\* The position i steps behind c.
LEMMA BehindIs ==
  ASSUME NEW n \in Nat \ {0}, NEW c \in 1..n, NEW i \in 0..n-1
  PROVE  /\ Behind(c, i, n) = IF i < c THEN c - i ELSE c - i + n
         /\ Behind(c, i, n) \in 1..n
<1>1. CASE i < c
  <2>1. (n * 0 + (c - 1 - i)) % n = c - 1 - i
    BY <1>1, Quotient
  <2>2. n * 0 + (c - 1 - i) = c - 1 - i
    OBVIOUS
  <2>3. QED
    BY <1>1, <2>1, <2>2 DEF Behind
<1>2. CASE ~(i < c)
  <2>1. (n * (-1) + (c - 1 - i + n)) % n = c - 1 - i + n
    BY <1>2, Quotient
  <2>2. n * (-1) + (c - 1 - i + n) = c - 1 - i
    OBVIOUS
  <2>3. QED
    BY <1>2, <2>1, <2>2 DEF Behind
<1>3. QED
  BY <1>1, <1>2

-----------------------------------------------------------------------------
(* The ring of the hard grid                                               *)

Cells == [tm : Int, val : Vals]
Ring == [buf : Seq(Cells), cur : Nat, beg : Int, end : Int, evalCnt : Int]

\* The size asked for is not below the one the ring was made with.
SizesFit == size \in Nat /\ room \in Nat /\ (size # 0 => room # 0 /\ room <= size)

Errors(s) == {i \in DOMAIN s : s[i].val = Eval}

\* The ring b is as long as its times say; it is written over only where it is
\* full; its counter is right.
Fits(b) ==
  /\ b \in Ring
  /\ b.cur <= Len(b.buf)
  /\ size # 0 => b.cur < size /\ Len(b.buf) <= size
  /\ size = 0 => b.cur = Len(b.buf)
  /\ b.cur < Len(b.buf) => room # 0 /\ room <= Len(b.buf)
  /\ b.end = b.beg + Per * (Len(b.buf) - 1)
  /\ b.evalCnt = Cardinality(Errors(b.buf)) % EvalMod

\* The cells of b, back from the newest, are those of g up to the end.
Gives(b, g) ==
  \A j \in 0..Len(b.buf)-1 : b.buf[Behind(NewestPos(b), j, Len(b.buf))].val = g[b.end - Per * j]

LEMMA RingIs ==
  ASSUME ValBufAssumption, SizesFit, NEW b, Fits(b)
  PROVE  /\ b.buf \in Seq(Cells) /\ Len(b.buf) \in Nat /\ DOMAIN b.buf = 1..Len(b.buf)
         /\ b.cur \in Nat /\ b.beg \in Int /\ b.end \in Int /\ b.evalCnt \in Int
         /\ \A i \in 1..Len(b.buf) : b.buf[i] \in Cells /\ b.buf[i].val \in Vals
         /\ Len(b.buf) # 0 => NewestPos(b) \in 1..Len(b.buf)
<1>1. /\ b.buf \in Seq(Cells) /\ b.cur \in Nat /\ b.beg \in Int /\ b.end \in Int /\ b.evalCnt \in Int
      /\ b.cur <= Len(b.buf)
  BY DEF Fits, Ring
<1>2. Len(b.buf) \in Nat /\ DOMAIN b.buf = 1..Len(b.buf)
  BY <1>1
<1>3. \A i \in 1..Len(b.buf) : b.buf[i] \in Cells
  BY <1>1, <1>2, ElementOfSeq
<1>4. \A i \in 1..Len(b.buf) : b.buf[i].val \in Vals
  BY <1>3 DEF Cells
<1>5. Len(b.buf) # 0 => NewestPos(b) \in 1..Len(b.buf)
  BY <1>1, <1>2 DEF NewestPos
<1>6. QED
  BY <1>1, <1>2, <1>3, <1>4, <1>5

\* The place that is written next and what becomes of the ring.
LEMMA NextIs ==
  ASSUME ValBufAssumption, SizesFit, grid = "hard", NEW b, Fits(b), NEW v \in Vals
  PROVE  LET c == HardNext(b, v)
             e == [tm |-> 0, val |-> v]
         IN  /\ c \in Ring /\ e \in Cells
             /\ c.end = b.end + Per
             /\ c.cur = IF size # 0 /\ b.cur + 1 >= size THEN 0 ELSE b.cur + 1
             /\ b.cur < Len(b.buf) =>
                  /\ c.buf = [b.buf EXCEPT ![b.cur + 1] = e] /\ c.beg = b.beg + Per
                  /\ c.evalCnt = (b.evalCnt + (Counted(v) - Counted(b.buf[b.cur + 1].val))) % EvalMod
             /\ ~(b.cur < Len(b.buf)) =>
                  /\ c.buf = Append(b.buf, e) /\ c.beg = b.beg
                  /\ c.evalCnt = (b.evalCnt + Counted(v)) % EvalMod
<1> DEFINE c == HardNext(b, v)
           e == [tm |-> 0, val |-> v]
           w == Write(b, e)
<1>1. /\ b.buf \in Seq(Cells) /\ Len(b.buf) \in Nat /\ DOMAIN b.buf = 1..Len(b.buf)
      /\ b.cur \in Nat /\ b.beg \in Int /\ b.end \in Int /\ b.evalCnt \in Int
  BY RingIs
<1>2. Per \in Nat \ {0} /\ EvalMod \in Nat \ {0}
  BY DEF ValBufAssumption
<1>3. e \in Cells /\ e.val = v
  BY DEF Cells
<1>4. \A x : Counted(x) \in Int
  BY DEF Counted
<1>5. PICK q : q = (IF b.cur < Len(b.buf) THEN Counted(b.buf[b.cur + 1].val) ELSE 0) /\ q \in Int
  BY <1>4
<1>6. PICK r : r = (b.evalCnt + Counted(e.val) - q) % EvalMod /\ r \in Int
  <2>1. Counted(e.val) \in Int
    BY <1>4
  <2>2. PICK x \in Int : x = b.evalCnt + Counted(e.val) - q
    BY <1>1, <1>5, <2>1
  <2>3. x % EvalMod \in Int
    BY <1>2, DivMod
  <2>4. QED
    BY <2>2, <2>3
<1>7. PICK s : /\ s = (IF b.cur < Len(b.buf) THEN [b.buf EXCEPT ![b.cur + 1] = e] ELSE Append(b.buf, e))
               /\ s \in Seq(Cells)
  <2>1. CASE b.cur < Len(b.buf)
    <3>1. b.cur + 1 \in 1..Len(b.buf)
      BY <1>1, <2>1
    <3>2. [b.buf EXCEPT ![b.cur + 1] = e] \in Seq(Cells)
      BY <1>1, <1>3, <3>1, ExceptSeq
    <3>3. QED
      BY <2>1, <3>2
  <2>2. CASE ~(b.cur < Len(b.buf))
    <3>1. Append(b.buf, e) \in Seq(Cells)
      BY <1>1, <1>3, AppendProperties
    <3>2. QED
      BY <2>2, <3>1
  <2>3. QED
    BY <2>1, <2>2
<1>8. PICK g : g = (IF b.cur < Len(b.buf) THEN b.beg + Per ELSE b.beg) /\ g \in Int
  BY <1>1, <1>2
<1>9. PICK k : k = (IF size # 0 /\ b.cur + 1 >= size THEN 0 ELSE b.cur + 1) /\ k \in Nat
  BY <1>1
<1>10. w = [buf |-> s, cur |-> k, beg |-> g, end |-> b.end, evalCnt |-> r]
  BY <1>5, <1>6, <1>7, <1>8, <1>9 DEF Write
<1>11. c = [w EXCEPT !.end = w.end + Per]
  BY DEF HardNext
<1> HIDE DEF c, e, w
<1>12. c = [buf |-> s, cur |-> k, beg |-> g, end |-> b.end + Per, evalCnt |-> r]
  BY <1>10, <1>11
<1>13. c \in Ring
  <2>1. b.end + Per \in Int
    BY <1>1, <1>2
  <2>2. QED
    BY <1>6, <1>7, <1>8, <1>9, <1>12, <2>1 DEF Ring
<1>14. b.cur < Len(b.buf) =>
         r = (b.evalCnt + (Counted(v) - Counted(b.buf[b.cur + 1].val))) % EvalMod
  <2>1. SUFFICES ASSUME b.cur < Len(b.buf)
                 PROVE  r = (b.evalCnt + (Counted(v) - q)) % EvalMod
    BY <1>5
  <2>2. b.evalCnt + Counted(v) - q = b.evalCnt + (Counted(v) - q)
    BY <1>1, <1>4, <1>5
  <2>3. QED
    BY <1>3, <1>6, <2>2
<1>15. ~(b.cur < Len(b.buf)) => r = (b.evalCnt + Counted(v)) % EvalMod
  <2>1. SUFFICES ASSUME ~(b.cur < Len(b.buf)) PROVE r = (b.evalCnt + Counted(v)) % EvalMod
    OBVIOUS
  <2>2. b.evalCnt + Counted(v) - q = b.evalCnt + Counted(v)
    BY <1>1, <1>4, <1>5, <2>1
  <2>3. QED
    BY <1>3, <1>6, <2>2
<1>16. QED
  BY <1>3, <1>7, <1>8, <1>9, <1>12, <1>13, <1>14, <1>15 DEF c, e

\* A set that differs in one place is larger or smaller by that place.
LEMMA Differs ==
  ASSUME NEW S, IsFiniteSet(S), NEW U, NEW p, U \ {p} = S \ {p}
  PROVE  /\ Cardinality(S) \in Nat
         /\ Cardinality(U) =
              Cardinality(S) + ((IF p \in U THEN 1 ELSE 0) - (IF p \in S THEN 1 ELSE 0))
<1>1. /\ Cardinality(S) \in Nat /\ IsFiniteSet(S \ {p}) /\ Cardinality(S \ {p}) \in Nat
      /\ Cardinality(S \ {p}) = IF p \in S THEN Cardinality(S) - 1 ELSE Cardinality(S)
  BY FS_RemoveElement, FS_CardinalityType
<1>2. CASE p \in U
  <2>1. U = (S \ {p}) \union {p}
    BY <1>2
  <2>2. Cardinality(U) = Cardinality(S \ {p}) + 1
    <3>1. p \notin S \ {p}
      OBVIOUS
    <3>2. QED
      BY <1>1, <2>1, <3>1, FS_AddElement
  <2>3. QED
    BY <1>1, <1>2, <2>2
<1>3. CASE p \notin U
  <2>1. U = S \ {p}
    BY <1>3
  <2>2. QED
    BY <1>1, <1>3, <2>1
<1>4. QED
  BY <1>2, <1>3

LEMMA ErrorsFinite ==
  ASSUME NEW s \in Seq(Cells)
  PROVE  IsFiniteSet(Errors(s)) /\ Cardinality(Errors(s)) \in Nat
<1>1. Len(s) \in Nat /\ DOMAIN s = 1..Len(s)
  OBVIOUS
<1>2. IsFiniteSet(1..Len(s))
  BY <1>1, FS_Interval
<1>3. Errors(s) \subseteq 1..Len(s)
  BY <1>1 DEF Errors
<1>4. IsFiniteSet(Errors(s))
  BY <1>2, <1>3, FS_Subset
<1>5. QED
  BY <1>4, FS_CardinalityType

LEMMA ErrorsExcept ==
  ASSUME NEW s \in Seq(Cells), NEW p \in 1..Len(s), NEW e \in Cells
  PROVE  Cardinality(Errors([s EXCEPT ![p] = e])) =
           Cardinality(Errors(s)) + (Counted(e.val) - Counted(s[p].val))
<1> DEFINE u == [s EXCEPT ![p] = e]
<1>1. Len(s) \in Nat /\ DOMAIN s = 1..Len(s) /\ DOMAIN u = 1..Len(s)
  OBVIOUS
<1>2. u[p] = e /\ \A i \in 1..Len(s) : i # p => u[i] = s[i]
  BY <1>1
<1> HIDE DEF u
<1>3. Errors(u) \ {p} = Errors(s) \ {p}
  BY <1>1, <1>2 DEF Errors
<1>4. (p \in Errors(u) <=> e.val = Eval) /\ (p \in Errors(s) <=> s[p].val = Eval)
  BY <1>1, <1>2 DEF Errors
<1>5. Cardinality(Errors(u)) = Cardinality(Errors(s)) + (Counted(e.val) - Counted(s[p].val))
  BY <1>3, <1>4, ErrorsFinite, Differs DEF Counted
<1>6. QED
  BY <1>5 DEF u

LEMMA ErrorsAppend ==
  ASSUME NEW s \in Seq(Cells), NEW e \in Cells
  PROVE  Cardinality(Errors(Append(s, e))) = Cardinality(Errors(s)) + Counted(e.val)
<1> DEFINE u == Append(s, e)
           p == Len(s) + 1
<1>1. /\ Len(s) \in Nat /\ DOMAIN s = 1..Len(s) /\ DOMAIN u = 1..Len(s) + 1
      /\ u[p] = e /\ \A i \in 1..Len(s) : u[i] = s[i]
  OBVIOUS
<1> HIDE DEF u
<1>2. Errors(u) \ {p} = Errors(s) \ {p}
  BY <1>1 DEF Errors
<1>3. (p \in Errors(u) <=> e.val = Eval) /\ p \notin Errors(s)
  BY <1>1 DEF Errors
<1>4. Cardinality(Errors(s)) \in Nat
  BY ErrorsFinite
<1> HIDE DEF p
<1>5. QED
  BY <1>2, <1>3, <1>4, ErrorsFinite, Differs DEF Counted, u

\* Going on by a cell keeps the shape of the ring: it is never written over
\* before it is full.
LEMMA NextFits ==
  ASSUME ValBufAssumption, SizesFit, grid = "hard", NEW b, Fits(b), NEW v \in Vals
  PROVE  Fits(HardNext(b, v))
<1> DEFINE e == [tm |-> 0, val |-> v]
<1>1. PICK c : c = HardNext(b, v)
  OBVIOUS
<1>2. /\ c \in Ring /\ e \in Cells
      /\ c.end = b.end + Per
      /\ c.cur = IF size # 0 /\ b.cur + 1 >= size THEN 0 ELSE b.cur + 1
  BY <1>1, NextIs
<1>3. /\ b.buf \in Seq(Cells) /\ Len(b.buf) \in Nat /\ DOMAIN b.buf = 1..Len(b.buf)
      /\ b.cur \in Nat /\ b.beg \in Int /\ b.end \in Int /\ b.evalCnt \in Int
  BY RingIs
<1>4. Per \in Nat \ {0} /\ EvalMod \in Nat \ {0}
  BY DEF ValBufAssumption
<1>5. PICK k : k = Cardinality(Errors(b.buf)) /\ k \in Nat /\ b.evalCnt = k % EvalMod
  BY <1>3, ErrorsFinite DEF Fits
<1>6. \A x : Counted(x) \in Int
  BY DEF Counted
<1>7. e.val = v
  OBVIOUS
<1> HIDE DEF e
<1>8. CASE b.cur < Len(b.buf)
  <2>1. /\ c.buf = [b.buf EXCEPT ![b.cur + 1] = e] /\ c.beg = b.beg + Per
        /\ c.evalCnt = (b.evalCnt + (Counted(v) - Counted(b.buf[b.cur + 1].val))) % EvalMod
    BY <1>1, <1>8, NextIs DEF e
  <2>2. b.cur + 1 \in 1..Len(b.buf) /\ Len(c.buf) = Len(b.buf)
    BY <1>3, <1>8, <2>1
  <2>3. PICK d \in Int : d = Counted(v) - Counted(b.buf[b.cur + 1].val)
    <3>1. Counted(v) \in Int /\ Counted(b.buf[b.cur + 1].val) \in Int
      BY <1>6
    <3>2. QED
      BY <3>1
  <2>4. Cardinality(Errors(c.buf)) = k + d
    <3>1. Cardinality(Errors([b.buf EXCEPT ![b.cur + 1] = e])) =
            Cardinality(Errors(b.buf)) + (Counted(e.val) - Counted(b.buf[b.cur + 1].val))
      BY <1>2, <1>3, <2>2, ErrorsExcept
    <3>2. QED
      BY <1>5, <1>7, <2>1, <2>3, <3>1
  <2>5. c.evalCnt = Cardinality(Errors(c.buf)) % EvalMod
    <3>1. ((k % EvalMod) + d) % EvalMod = (k + d) % EvalMod
      <4>1. EvalMod \in Nat \ {0} /\ k \in Int /\ d \in Int
        BY <1>4, <1>5, <2>3
      <4>2. AddsUnderMod(EvalMod, k, d)
        BY <4>1, ModAdd
      <4>3. QED
        BY <4>2 DEF AddsUnderMod
    <3>2. QED
      BY <1>5, <2>1, <2>3, <2>4, <3>1
  <2>6. c.end = c.beg + Per * (Len(c.buf) - 1)
    <3>1. PICK x \in Int : x = Per * (Len(b.buf) - 1)
      BY <1>3, <1>4
    <3>2. b.end = b.beg + x
      BY <3>1 DEF Fits
    <3>3. QED
      BY <1>2, <1>3, <1>4, <2>1, <2>2, <3>1, <3>2
  <2>7. QED
    BY <1>1, <1>2, <1>3, <1>8, <2>2, <2>5, <2>6 DEF Fits, SizesFit
<1>9. CASE ~(b.cur < Len(b.buf))
  <2>1. /\ c.buf = Append(b.buf, e) /\ c.beg = b.beg
        /\ c.evalCnt = (b.evalCnt + Counted(v)) % EvalMod
    BY <1>1, <1>9, NextIs DEF e
  <2>2. Len(c.buf) = Len(b.buf) + 1
    BY <1>3, <2>1
  <2>3. Cardinality(Errors(c.buf)) = k + Counted(v)
    BY <1>2, <1>3, <1>5, <1>7, <2>1, ErrorsAppend
  <2>4. c.evalCnt = Cardinality(Errors(c.buf)) % EvalMod
    <3>1. PICK d \in Int : d = Counted(v)
      BY <1>6
    <3>2. ((k % EvalMod) + d) % EvalMod = (k + d) % EvalMod
      <4>1. EvalMod \in Nat \ {0} /\ k \in Int /\ d \in Int
        BY <1>4, <1>5, <3>1
      <4>2. AddsUnderMod(EvalMod, k, d)
        BY <4>1, ModAdd
      <4>3. QED
        BY <4>2 DEF AddsUnderMod
    <3>3. QED
      BY <1>5, <2>1, <2>3, <3>1, <3>2
  <2>5. c.end = c.beg + Per * (Len(c.buf) - 1)
    <3>1. Per * Len(b.buf) = Per * (Len(b.buf) - 1) + Per
      BY <1>3, <1>4
    <3>2. PICK x \in Int, y \in Int : x = Per * (Len(b.buf) - 1) /\ y = Per * Len(b.buf)
      BY <1>3, <1>4
    <3>3. b.end = b.beg + x
      BY <3>2 DEF Fits
    <3>4. Len(c.buf) - 1 = Len(b.buf)
      BY <1>3, <2>2
    <3>5. c.beg + y = b.end + Per
      BY <1>3, <1>4, <2>1, <3>1, <3>2, <3>3
    <3>6. QED
      BY <1>2, <3>2, <3>4, <3>5
  <2>6. b.cur = Len(b.buf)
    BY <1>3, <1>9 DEF Fits
  <2>7. QED
    BY <1>1, <1>2, <1>3, <2>2, <2>4, <2>5, <2>6 DEF Fits, SizesFit
<1>10. QED
  BY <1>8, <1>9

\* What the ring gives are the cells before, and the one it goes on by.
LEMMA NextGives ==
  ASSUME ValBufAssumption, SizesFit, grid = "hard", NEW b, Fits(b), NEW v \in Vals,
         NEW g, Gives(b, g), g[b.end + Per] = v
  PROVE  Gives(HardNext(b, v), g)
<1> DEFINE e == [tm |-> 0, val |-> v]
<1>1. PICK c : c = HardNext(b, v)
  OBVIOUS
<1>2. /\ c \in Ring /\ e \in Cells
      /\ c.end = b.end + Per
      /\ c.cur = IF size # 0 /\ b.cur + 1 >= size THEN 0 ELSE b.cur + 1
      /\ b.cur < Len(b.buf) => c.buf = [b.buf EXCEPT ![b.cur + 1] = e]
      /\ ~(b.cur < Len(b.buf)) => c.buf = Append(b.buf, e)
  BY <1>1, NextIs
<1>3. /\ b.buf \in Seq(Cells) /\ Len(b.buf) \in Nat /\ DOMAIN b.buf = 1..Len(b.buf)
      /\ b.cur \in Nat /\ b.end \in Int /\ b.cur <= Len(b.buf)
      /\ size \in Nat /\ (size # 0 => b.cur < size /\ Len(b.buf) <= size)
  BY RingIs DEF Fits, SizesFit
<1>4. Per \in Nat \ {0}
  BY DEF ValBufAssumption
<1>5. PICK n : n = Len(b.buf) /\ n \in Nat
  BY <1>3
<1>6. PICK m : m = Len(c.buf) /\ m = IF b.cur < n THEN n ELSE n + 1
  BY <1>2, <1>3, <1>5
<1>7. e.val = v
  OBVIOUS
<1> HIDE DEF e
<1>8. PICK q : q = b.cur + 1 /\ m \in Nat \ {0} /\ q \in 1..m
  BY <1>3, <1>5, <1>6
<1>9. NewestPos(c) = q
  BY <1>2, <1>3, <1>5, <1>6, <1>8 DEF NewestPos
<1>10. c.buf[q].val = v /\ \A i \in 1..n : i # q => c.buf[i] = b.buf[i]
  <2>1. CASE b.cur < Len(b.buf)
    <3>1. q \in 1..n /\ c.buf = [b.buf EXCEPT ![q] = e]
      BY <1>2, <1>3, <1>5, <1>8, <2>1
    <3>2. QED
      BY <1>3, <1>5, <1>7, <3>1
  <2>2. CASE ~(b.cur < Len(b.buf))
    <3>1. q = n + 1 /\ c.buf = Append(b.buf, e)
      BY <1>2, <1>3, <1>5, <1>8, <2>2
    <3>2. c.buf[n + 1] = e /\ \A i \in 1..n : c.buf[i] = b.buf[i]
      BY <1>2, <1>3, <1>5, <3>1, AppendProperties
    <3>3. QED
      BY <1>7, <3>1, <3>2
  <2>3. QED
    BY <2>1, <2>2
<1>11. ASSUME NEW j \in 0..m-1
       PROVE  c.buf[Behind(q, j, m)].val = g[c.end - Per * j]
  <2>1. Behind(q, j, m) = IF j < q THEN q - j ELSE q - j + m
    BY <1>8, BehindIs
  <2>2. CASE j = 0
    <3>1. c.end - Per * j = b.end + Per
      BY <1>2, <1>3, <1>4, <2>2
    <3>2. Behind(q, j, m) = q
      BY <1>3, <1>8, <2>1, <2>2
    <3>3. QED
      BY <1>10, <3>1, <3>2
  <2>3. CASE j # 0
    <3>1. j - 1 \in 0..n-1 /\ n \in Nat \ {0}
      BY <1>3, <1>5, <1>6, <2>3
    <3>2. PICK p : p = NewestPos(b) /\ p = (IF b.cur > 0 THEN b.cur ELSE n) /\ p \in 1..n
      BY <1>3, <1>5, <3>1 DEF NewestPos
    <3>3. Behind(p, j - 1, n) = IF j - 1 < p THEN p - (j - 1) ELSE p - (j - 1) + n
      BY <3>1, <3>2, BehindIs
    <3>4. Behind(q, j, m) = Behind(p, j - 1, n)
      <4>1. CASE b.cur = 0
        BY <1>3, <1>5, <1>6, <1>8, <2>1, <2>3, <3>1, <3>2, <3>3, <4>1
      <4>2. CASE b.cur # 0
        <5>1. p = b.cur /\ m = IF b.cur < n THEN n ELSE n + 1
          BY <1>3, <1>6, <3>2, <4>2
        <5>2. j \in Nat /\ (j - 1 < p <=> j < q) /\ b.cur \in Nat
          BY <1>3, <1>8, <2>3, <5>1
        <5>3. j < q \/ m = n
          BY <1>3, <1>5, <1>8, <5>1, <5>2
        <5>4. q = p + 1 /\ p \in Int /\ j \in Int /\ n \in Int
          BY <1>3, <1>5, <1>8, <5>1, <5>2
        <5>5. CASE j < q
          <6>1. Behind(q, j, m) = q - j /\ Behind(p, j - 1, n) = p - (j - 1)
            BY <2>1, <3>3, <5>1, <5>2, <5>5
          <6>2. q - j = p - (j - 1)
            BY <5>4
          <6>3. QED
            BY <6>1, <6>2
        <5>6. CASE ~(j < q)
          <6>1. Behind(q, j, m) = q - j + n /\ Behind(p, j - 1, n) = p - (j - 1) + n
            BY <2>1, <3>3, <5>1, <5>2, <5>3, <5>6
          <6>2. q - j + n = p - (j - 1) + n
            BY <5>4
          <6>3. QED
            BY <6>1, <6>2
        <5>7. QED
          BY <5>5, <5>6
      <4>3. QED
        BY <4>1, <4>2
    <3>5. Behind(q, j, m) \in 1..n /\ Behind(q, j, m) # q
      BY <1>3, <1>5, <1>6, <1>8, <2>1, <2>3, <3>1
    <3>6. b.buf[Behind(p, j - 1, n)].val = g[b.end - Per * (j - 1)]
      BY <1>5, <3>1, <3>2 DEF Gives
    <3>7. b.end - Per * (j - 1) = c.end - Per * j
      <4>1. Per * (j - 1) = Per * j - Per
        BY <1>4
      <4>2. PICK x \in Int : x = Per * j
        BY <1>4
      <4>3. QED
        BY <1>2, <1>3, <1>4, <4>1, <4>2
    <3>8. QED
      BY <1>10, <3>4, <3>5, <3>6, <3>7
  <2>4. QED
    BY <2>2, <2>3
<1>12. QED
  BY <1>1, <1>6, <1>9, <1>11 DEF Gives

\* The ring begins where it began, or it has come to the size it was made with.
LEMMA NextBegins ==
  ASSUME ValBufAssumption, SizesFit, grid = "hard", NEW b, Fits(b), NEW v \in Vals
  PROVE  LET c == HardNext(b, v)
         IN  /\ Len(c.buf) \in Nat /\ Len(c.buf) >= Len(b.buf) /\ Len(c.buf) # 0
             /\ c.beg \in Int /\ c.beg >= b.beg
             /\ c.beg = b.beg \/ (room # 0 /\ room <= Len(c.buf))
<1> DEFINE e == [tm |-> 0, val |-> v]
<1>1. PICK c : c = HardNext(b, v)
  OBVIOUS
<1>2. /\ e \in Cells
      /\ b.cur < Len(b.buf) => c.buf = [b.buf EXCEPT ![b.cur + 1] = e] /\ c.beg = b.beg + Per
      /\ ~(b.cur < Len(b.buf)) => c.buf = Append(b.buf, e) /\ c.beg = b.beg
  BY <1>1, NextIs
<1>3. b.buf \in Seq(Cells) /\ Len(b.buf) \in Nat /\ b.cur \in Nat /\ b.beg \in Int
  BY RingIs
<1>4. Per \in Nat
  BY DEF ValBufAssumption
<1> HIDE DEF e
<1>5. CASE b.cur < Len(b.buf)
  <2>1. Len(c.buf) = Len(b.buf)
    BY <1>2, <1>3, <1>5
  <2>2. QED
    BY <1>1, <1>2, <1>3, <1>4, <1>5, <2>1 DEF Fits
<1>6. CASE ~(b.cur < Len(b.buf))
  <2>1. Len(c.buf) = Len(b.buf) + 1
    BY <1>2, <1>3, <1>6
  <2>2. QED
    BY <1>1, <1>2, <1>3, <1>6, <2>1
<1>7. QED
  BY <1>5, <1>6

LEMMA FillIs ==
  ASSUME ValBufAssumption, SizesFit, NEW b, Fits(b)
  PROVE  Fill(b) \in Vals
<1>1. CASE fillLast /\ b.buf # <<>>
  <2>1. Len(b.buf) # 0
    BY <1>1, RingIs
  <2>2. QED
    BY <1>1, <2>1, RingIs DEF Fill
<1>2. CASE ~(fillLast /\ b.buf # <<>>)
  BY <1>2 DEF Fill, ValBufAssumption
<1>3. QED
  BY <1>1, <1>2

\* The values the cells are gone on by.
CellVal(b, n, value, i) == IF i < n THEN Fill(b) ELSE value

\* The cells of one set() are steps, each from the one before.
LEMMA CellsGoOn ==
  ASSUME ValBufAssumption, SizesFit, grid = "hard", NEW b, Fits(b), NEW n \in Nat, NEW value \in Vals
  PROVE  \E c : /\ c[0] = b
                /\ \A i \in 1..n : c[i] = HardNext(c[i-1], CellVal(b, n, value, i))
                /\ HardCells(b, n, value) = c[n]
<1> DEFINE T == {x \in Ring : Fits(x)}
           V(i) == CellVal(b, n, value, i)
           F == [i \in 1..n |-> [x \in T |-> HardNext(x, V(i))]]
<1>1. \A i \in 1..n : V(i) \in Vals
  BY FillIs DEF CellVal
<1>2. b \in T
  BY DEF Fits
<1>3. F \in [1..n -> [T -> T]]
  <2>1. ASSUME NEW i \in 1..n, NEW x \in T PROVE HardNext(x, V(i)) \in T
    <3>1. PICK v \in Vals : v = V(i)
      BY <1>1
    <3>2. Fits(HardNext(x, v))
      BY NextFits
    <3>3. QED
      BY <3>1, <3>2 DEF Fits
  <2>2. QED
    BY <2>1
<1>4. ASSUME NEW x \in T, NEW i \in 1..n PROVE F[i][x] = HardNext(x, V(i))
  OBVIOUS
<1> HIDE DEF T, F
<1>5. PICK f \in [0..n -> T] : f[0] = b /\ \A i \in 1..n : f[i] = F[i][f[i-1]]
  <2>1. StepsOn(T, b, n, F)
    BY <1>2, <1>3, Steps
  <2>2. QED
    BY <2>1 DEF StepsOn
<1>6. f = [i \in 0..n |-> IF i = 0 THEN b ELSE HardNext(f[i-1], V(i))]
  <2>1. ASSUME NEW i \in 0..n PROVE f[i] = IF i = 0 THEN b ELSE HardNext(f[i-1], V(i))
    <3>1. CASE i = 0
      BY <1>5, <3>1
    <3>2. CASE i # 0
      <4>1. i \in 1..n /\ i - 1 \in 0..n
        BY <3>2
      <4>2. f[i-1] \in T
        BY <1>5, <4>1
      <4>3. QED
        BY <1>4, <1>5, <3>2, <4>1, <4>2
    <3>3. QED
      BY <3>1, <3>2
  <2>2. QED
    BY <1>5, <2>1
<1> DEFINE c[i \in 0..n] == IF i = 0 THEN b ELSE HardNext(c[i-1], V(i))
<1>7. c = [i \in 0..n |-> IF i = 0 THEN b ELSE HardNext(c[i-1], V(i))]
  <2>1. SUFFICES \E ff : ff = [i \in 0..n |-> IF i = 0 THEN b ELSE HardNext(ff[i-1], V(i))]
    OBVIOUS
  <2>2. QED
    BY <1>6
<1>8. HardCells(b, n, value) = c[n]
  BY DEF HardCells, CellVal
<1> HIDE DEF c
<1>9. ASSUME NEW i \in 0..n PROVE c[i] = IF i = 0 THEN b ELSE HardNext(c[i-1], V(i))
  BY <1>7
<1>10. c[0] = b /\ \A i \in 1..n : c[i] = HardNext(c[i-1], V(i))
  BY <1>9
<1> HIDE DEF V
<1>11. \E d : /\ d[0] = b
              /\ \A i \in 1..n : d[i] = HardNext(d[i-1], V(i))
              /\ HardCells(b, n, value) = d[n]
  BY <1>8, <1>10
<1>12. QED
  BY <1>11 DEF V

\* What one set() of n cells leaves of the ring.
LEMMA CellsAre ==
  ASSUME ValBufAssumption, SizesFit, grid = "hard", NEW b, Fits(b),
         NEW n \in Nat \ {0}, NEW value \in Vals,
         NEW g, Gives(b, g), \A i \in 1..n : g[b.end + Per * i] = CellVal(b, n, value, i)
  PROVE  LET d == HardCells(b, n, value)
         IN  /\ Fits(d) /\ Gives(d, g) /\ d.end = b.end + Per * n
             /\ Len(d.buf) # 0 /\ Len(d.buf) >= Len(b.buf) /\ d.beg >= b.beg
             /\ d.beg = b.beg \/ (room # 0 /\ room <= Len(d.buf))
<1>1. PICK c : /\ c[0] = b
               /\ \A i \in 1..n : c[i] = HardNext(c[i-1], CellVal(b, n, value, i))
               /\ HardCells(b, n, value) = c[n]
  <2>1. PICK m \in Nat : m = n
    OBVIOUS
  <2>2. \E c : /\ c[0] = b
               /\ \A i \in 1..m : c[i] = HardNext(c[i-1], CellVal(b, m, value, i))
               /\ HardCells(b, m, value) = c[m]
    BY CellsGoOn
  <2>3. QED
    BY <2>1, <2>2
<1>2. Per \in Nat \ {0} /\ room \in Nat
  BY DEF ValBufAssumption, SizesFit
<1>3. b.end \in Int /\ b.beg \in Int
  BY RingIs
<1> DEFINE P(k) == /\ Fits(c[k]) /\ Gives(c[k], g) /\ c[k].end = b.end + Per * k
                   /\ k # 0 => Len(c[k].buf) # 0
                   /\ Len(c[k].buf) >= Len(b.buf) /\ c[k].beg >= b.beg
                   /\ c[k].beg = b.beg \/ (room # 0 /\ room <= Len(c[k].buf))
           S == {k \in Nat : k <= n => P(k)}
<1>4. 0 \in S
  <2>1. b.end = b.end + Per * 0 /\ b.beg >= b.beg /\ Len(b.buf) >= Len(b.buf)
    BY <1>2, <1>3, RingIs
  <2>2. QED
    BY <1>1, <2>1
<1>5. ASSUME NEW k \in Nat, k \in S PROVE k + 1 \in S
  <2>1. SUFFICES ASSUME k + 1 <= n PROVE P(k + 1)
    OBVIOUS
  <2>2. P(k)
    BY <1>5, <2>1
  <2>3. PICK x : x = c[k]
    OBVIOUS
  <2>4. PICK v \in Vals : v = CellVal(b, n, value, k + 1)
    BY FillIs DEF CellVal
  <2>5. k + 1 \in 1..n /\ (k + 1) - 1 = k
    BY <2>1
  <2>6. c[k + 1] = HardNext(x, v)
    BY <1>1, <2>3, <2>4, <2>5
  <2>7. PICK y : y = HardNext(x, v)
    OBVIOUS
  <2>8. Fits(x) /\ Gives(x, g) /\ x.end = b.end + Per * k /\ x.end \in Int /\ x.beg \in Int
    BY <2>2, <2>3, RingIs
  <2>9. b.end + Per * (k + 1) = x.end + Per
    <3>1. Per * (k + 1) = Per * k + Per
      BY <1>2
    <3>2. PICK z \in Int : z = Per * k
      BY <1>2
    <3>3. QED
      BY <1>2, <1>3, <2>8, <3>1, <3>2
  <2>10. g[x.end + Per] = v
    BY <2>4, <2>5, <2>9
  <2>11. Fits(y) /\ Gives(y, g)
    BY <2>7, <2>8, <2>10, NextFits, NextGives
  <2>12. y.end = x.end + Per
    BY <2>7, <2>8, NextIs
  <2>13. /\ Len(y.buf) \in Nat /\ Len(y.buf) >= Len(x.buf) /\ Len(y.buf) # 0
         /\ y.beg \in Int /\ y.beg >= x.beg
         /\ y.beg = x.beg \/ (room # 0 /\ room <= Len(y.buf))
    BY <2>7, <2>8, NextBegins
  <2>14. /\ Len(x.buf) \in Nat /\ Len(x.buf) >= Len(b.buf) /\ Len(b.buf) \in Nat
         /\ x.beg >= b.beg /\ (x.beg = b.beg \/ (room # 0 /\ room <= Len(x.buf)))
    BY <2>2, <2>3, <2>8, RingIs
  <2>15. /\ Len(y.buf) >= Len(b.buf)
         /\ y.beg >= b.beg /\ (y.beg = b.beg \/ (room # 0 /\ room <= Len(y.buf)))
    <3>1. Len(y.buf) >= Len(b.buf) /\ Len(x.buf) <= Len(y.buf)
      BY <2>13, <2>14
    <3>2. y.beg >= b.beg
      BY <1>3, <2>8, <2>13, <2>14
    <3>3. CASE y.beg = x.beg
      BY <1>2, <2>13, <2>14, <3>1, <3>2, <3>3
    <3>4. CASE room # 0 /\ room <= Len(y.buf)
      BY <3>1, <3>2, <3>4
    <3>5. QED
      BY <2>13, <3>3, <3>4
  <2>16. QED
    BY <2>6, <2>7, <2>9, <2>11, <2>12, <2>13, <2>15
<1> HIDE DEF S
<1>6. Nat \subseteq S
  BY <1>4, <1>5, Counting
<1>7. n \in S /\ n <= n
  BY <1>6
<1>8. QED
  BY <1>1, <1>7 DEF S

\* A value for a cell that the ring has already takes the place of the one there.
LEMMA InPlace ==
  ASSUME ValBufAssumption, SizesFit, NEW b, Fits(b), Len(b.buf) # 0,
         NEW k \in 0..Len(b.buf)-1, NEW value \in Vals,
         NEW g, NEW h, Gives(b, g), h[b.end - Per * k] = value,
         \A j \in 0..Len(b.buf)-1 : j # k => h[b.end - Per * j] = g[b.end - Per * j]
  PROVE  LET pos == Behind(NewestPos(b), k, Len(b.buf))
             d == [b EXCEPT !.buf[pos].val = value,
                            !.evalCnt = (@ + Counted(value) - Counted(b.buf[pos].val)) % EvalMod]
         IN  /\ Fits(d) /\ Gives(d, h)
             /\ d.end = b.end /\ d.beg = b.beg /\ Len(d.buf) = Len(b.buf)
<1>1. /\ b \in Ring /\ b.buf \in Seq(Cells) /\ Len(b.buf) \in Nat /\ DOMAIN b.buf = 1..Len(b.buf)
      /\ b.cur \in Nat /\ b.beg \in Int /\ b.end \in Int /\ b.evalCnt \in Int
  BY RingIs DEF Fits
<1>2. PICK n : n = Len(b.buf) /\ n \in Nat \ {0}
  BY <1>1
<1>3. PICK c : c = NewestPos(b) /\ c \in 1..n
  BY <1>2, RingIs
<1>4. PICK pos : pos = Behind(c, k, n) /\ pos \in 1..n
  BY <1>2, <1>3, BehindIs
<1>5. PICK e : e = [b.buf[pos] EXCEPT !.val = value] /\ e \in Cells /\ e.val = value
  <2>1. PICK x \in Cells : x = b.buf[pos]
    BY <1>2, <1>4, RingIs
  <2>2. [x EXCEPT !.val = value] \in Cells /\ [x EXCEPT !.val = value].val = value
    BY DEF Cells
  <2>3. QED
    BY <2>1, <2>2
<1>6. PICK s : s = [b.buf EXCEPT ![pos] = e] /\ s \in Seq(Cells) /\ Len(s) = n
  <2>1. pos \in 1..Len(b.buf) /\ e \in Cells
    BY <1>2, <1>4, <1>5
  <2>2. [b.buf EXCEPT ![pos] = e] \in Seq(Cells) /\ Len([b.buf EXCEPT ![pos] = e]) = Len(b.buf)
    BY <1>1, <2>1, ExceptSeq
  <2>3. QED
    BY <1>2, <2>2
<1>7. s[pos] = e /\ \A i \in 1..n : i # pos => s[i] = b.buf[i]
  BY <1>1, <1>2, <1>4, <1>6
<1>8. EvalMod \in Nat \ {0}
  BY DEF ValBufAssumption
<1>9. \A x : Counted(x) \in Int
  BY DEF Counted
<1>10. PICK q : q = Counted(value) - Counted(b.buf[pos].val) /\ q \in Int
  BY <1>9
<1>11. PICK r : /\ r = (b.evalCnt + Counted(value) - Counted(b.buf[pos].val)) % EvalMod
                /\ r = (b.evalCnt + q) % EvalMod /\ r \in Int
  <2>1. Counted(value) \in Int /\ Counted(b.buf[pos].val) \in Int
    BY <1>9
  <2>2. b.evalCnt + Counted(value) - Counted(b.buf[pos].val) = b.evalCnt + q
    BY <1>1, <1>10, <2>1
  <2>3. PICK x \in Int : x = b.evalCnt + q
    BY <1>1, <1>10
  <2>4. x % EvalMod \in Int
    BY <1>8, DivMod
  <2>5. QED
    BY <2>2, <2>3, <2>4
<1>12. PICK d : d = [b EXCEPT !.buf[pos].val = value,
                              !.evalCnt = (@ + Counted(value) - Counted(b.buf[pos].val)) % EvalMod]
  OBVIOUS
<1>13. d = [buf |-> s, cur |-> b.cur, beg |-> b.beg, end |-> b.end, evalCnt |-> r]
  <2>1. b = [buf |-> b.buf, cur |-> b.cur, beg |-> b.beg, end |-> b.end, evalCnt |-> b.evalCnt]
    BY <1>1 DEF Ring
  <2>2. d = [b EXCEPT !.buf = s, !.evalCnt = r]
    BY <1>5, <1>6, <1>11, <1>12
  <2>3. QED
    BY <2>1, <2>2
<1>14. d.buf = s /\ d.cur = b.cur /\ d.beg = b.beg /\ d.end = b.end /\ d.evalCnt = r /\ d \in Ring
  BY <1>1, <1>6, <1>11, <1>13 DEF Ring
<1>15. r = Cardinality(Errors(s)) % EvalMod
  <2>1. PICK m \in Nat : m = Cardinality(Errors(b.buf)) /\ b.evalCnt = m % EvalMod
    BY <1>1, ErrorsFinite DEF Fits
  <2>2. Cardinality(Errors(s)) = m + q
    <3>1. pos \in 1..Len(b.buf) /\ e \in Cells
      BY <1>2, <1>4, <1>5
    <3>2. Cardinality(Errors([b.buf EXCEPT ![pos] = e])) =
            Cardinality(Errors(b.buf)) + (Counted(e.val) - Counted(b.buf[pos].val))
      BY <1>1, <3>1, ErrorsExcept
    <3>3. QED
      BY <1>5, <1>6, <1>10, <2>1, <3>2
  <2>3. ((m % EvalMod) + q) % EvalMod = (m + q) % EvalMod
    <3>1. PICK d1 \in Int : d1 = q
      BY <1>10
    <3>2. ASSUME NEW x \in Int PROVE ((x % EvalMod) + d1) % EvalMod = (x + d1) % EvalMod
      <4>1. AddsUnderMod(EvalMod, x, d1)
        BY <1>8, <3>1, ModAdd
      <4>2. QED
        BY <4>1 DEF AddsUnderMod
    <3>3. m \in Int
      OBVIOUS
    <3>4. QED
      BY <3>1, <3>2, <3>3
  <2>4. QED
    BY <1>11, <2>1, <2>2, <2>3
<1>16. Fits(d)
  BY <1>2, <1>6, <1>14, <1>15 DEF Fits
<1>17. Gives(d, h)
  <2>1. NewestPos(d) = c
    BY <1>2, <1>3, <1>6, <1>14 DEF NewestPos
  <2>2. ASSUME NEW j \in 0..n-1 PROVE s[Behind(c, j, n)].val = h[b.end - Per * j]
    <3>1. CASE j = k
      BY <1>4, <1>5, <1>7, <3>1
    <3>2. CASE j # k
      <4>1. Behind(c, j, n) \in 1..n /\ Behind(c, j, n) = IF j < c THEN c - j ELSE c - j + n
        BY <1>2, <1>3, BehindIs
      <4>2. pos = IF k < c THEN c - k ELSE c - k + n
        BY <1>2, <1>3, <1>4, BehindIs
      <4>3. k \in 0..n-1
        BY <1>2
      <4>4. Behind(c, j, n) # pos
        BY <1>2, <1>3, <3>2, <4>1, <4>2, <4>3
      <4>5. b.buf[Behind(c, j, n)].val = g[b.end - Per * j]
        BY <1>2, <1>3 DEF Gives
      <4>6. QED
        BY <1>2, <1>7, <3>2, <4>1, <4>4, <4>5
    <3>3. QED
      BY <3>1, <3>2
  <2>3. QED
    BY <1>6, <1>14, <2>1, <2>2 DEF Gives
<1>18. QED
  BY <1>2, <1>3, <1>4, <1>6, <1>12, <1>14, <1>16, <1>17

\* The cell set() takes a time for: (tm-end)/per is rounded toward zero.
RoundedTo(tm, end) == IF tm < end THEN CellUp(tm) ELSE Cell(tm)

\* How many cells a time is from the end of the ring.
LEMMA CellOf ==
  ASSUME ValBufAssumption, NEW end \in Int, Cell(end) = end, NEW tm \in Int
  PROVE  /\ Quot(tm - end, Per) \in Int
         /\ RoundedTo(tm, end) = end + Per * Quot(tm - end, Per)
<1>1. Per \in Nat \ {0}
  BY DEF ValBufAssumption
<1>2. CASE tm >= end
  <2>1. PICK x \in Int : x = tm - end
    OBVIOUS
  <2>2. PICK q \in Int, r \in 0..Per-1 : q = x \div Per /\ x = Per * q + r
    BY <1>1, DivMod
  <2>3. Quot(x, Per) = q
    BY <1>2, <2>1, <2>2 DEF Quot
  <2>4. end + Per * q + r = tm
    <3>1. PICK y \in Int : y = Per * q
      BY <1>1
    <3>2. QED
      BY <2>1, <2>2, <3>1
  <2>5. Cell(end + Per * q + r) = end + Per * q
    BY CellPlus
  <2>6. RoundedTo(tm, end) = Cell(tm)
    BY <1>2 DEF RoundedTo
  <2>7. QED
    BY <2>1, <2>2, <2>3, <2>4, <2>5, <2>6
<1>3. CASE ~(tm >= end)
  <2>1. PICK x \in Int : x = end - tm /\ x = -(tm - end)
    OBVIOUS
  <2>2. PICK q \in Int, r \in 0..Per-1 : q = x \div Per /\ x = Per * q + r
    BY <1>1, DivMod
  <2>3. PICK k \in Int : k = -q
    OBVIOUS
  <2>4. Quot(tm - end, Per) = k
    <3>1. ~(tm - end >= 0)
      BY <1>3
    <3>2. QED
      BY <2>1, <2>2, <2>3, <3>1 DEF Quot
  <2>5. PICK s \in 0..Per-1 : s = Per - 1 - r
    BY <1>1
  <2>6. tm + Per - 1 = end + Per * k + s
    <3>1. PICK y \in Int : y = Per * q
      BY <1>1
    <3>2. Per * k = -y
      BY <1>1, <2>3, <3>1
    <3>3. QED
      BY <1>1, <2>1, <2>2, <2>5, <3>1, <3>2
  <2>7. Cell(end + Per * k + s) = end + Per * k
    BY CellPlus
  <2>8. RoundedTo(tm, end) = Cell(tm + Per - 1)
    BY <1>3 DEF RoundedTo, CellUp
  <2>9. QED
    BY <2>4, <2>6, <2>7, <2>8
<1>4. QED
  BY <1>2, <1>3

-----------------------------------------------------------------------------
(* What the buffer is told                                                 *)

\* The buffer is empty, or the ring has what it was told, from the first cell on.
Rests == tb = Empty /\ told = <<>> /\ first = 0

GoesOn(b, g, begin) ==
  /\ Fits(b) /\ Len(b.buf) # 0 /\ Gives(b, g)
  /\ Cell(b.end) = b.end
  /\ begin \in Int /\ Per <= begin /\ begin <= b.beg
  /\ b.beg = begin \/ (room # 0 /\ room <= Len(b.buf))
  /\ DOMAIN g = {x \in Int : Cell(x) = x /\ begin <= x /\ x <= b.end}

Goes == GoesOn(tb, told, first)

HardInv == SizesFit /\ (grid = "hard" => Rests \/ Goes)

LEMMA GoesIs ==
  ASSUME ValBufAssumption, SizesFit, Goes
  PROVE  /\ tb.beg \in Int /\ tb.end \in Int /\ Len(tb.buf) \in Nat \ {0}
         /\ Per * (Len(tb.buf) - 1) \in Int /\ tb.end = tb.beg + Per * (Len(tb.buf) - 1)
         /\ Per <= tb.beg /\ tb.beg <= tb.end
         /\ told # <<>>
         /\ \A j \in 0..Len(tb.buf)-1 :
              /\ Per * j \in Int /\ tb.beg <= tb.end - Per * j /\ tb.end - Per * j <= tb.end
              /\ tb.end - Per * j \in DOMAIN told
<1>1. /\ tb.beg \in Int /\ tb.end \in Int /\ Len(tb.buf) \in Nat \ {0}
      /\ tb.end = tb.beg + Per * (Len(tb.buf) - 1) /\ Fits(tb)
  BY RingIs DEF Goes, GoesOn, Fits
<1>2. Per \in Nat \ {0}
  BY DEF ValBufAssumption
<1>3. PICK n \in Nat : n = Len(tb.buf) - 1
  <2>1. \A m \in Nat \ {0} : m - 1 \in Nat
    OBVIOUS
  <2>2. QED
    BY <1>1, <2>1
<1>4. Per * n \in Nat
  BY <1>2
<1>5. Per <= tb.beg /\ first \in Int /\ first <= tb.beg
  BY <1>1, <1>2 DEF Goes, GoesOn
<1>6. ASSUME NEW j \in 0..n
      PROVE  /\ Per * j \in Int /\ tb.beg <= tb.end - Per * j /\ tb.end - Per * j <= tb.end
             /\ tb.end - Per * j \in DOMAIN told
  <2>1. Per * j \in Nat /\ Per * j <= Per * n
    BY <1>2
  <2>2. tb.beg <= tb.end - Per * j /\ tb.end - Per * j <= tb.end /\ first <= tb.end - Per * j
    BY <1>1, <1>3, <1>4, <1>5, <2>1
  <2>3. Cell(tb.end - Per * j) = tb.end - Per * j
    <3>1. 0 \in 0..Per-1 /\ -j \in Int
      BY <1>2
    <3>2. Cell(tb.end + Per * (-j) + 0) = tb.end + Per * (-j)
      BY <1>1, <3>1, CellPlus DEF Goes, GoesOn
    <3>3. tb.end + Per * (-j) + 0 = tb.end - Per * j /\ tb.end + Per * (-j) = tb.end - Per * j
      BY <1>1, <1>2, <2>1
    <3>4. QED
      BY <3>2, <3>3
  <2>4. tb.end - Per * j \in Int
    BY <1>1, <2>1
  <2>5. QED
    BY <2>1, <2>2, <2>3, <2>4 DEF Goes, GoesOn
<1>7. told # <<>>
  <2>1. tb.end - Per * 0 \in DOMAIN told
    BY <1>6
  <2>2. QED
    BY <2>1
<1>8. QED
  BY <1>1, <1>3, <1>4, <1>5, <1>6, <1>7

\* The cells after one that are not after another are counted by the periods
\* between them.
LEMMA CellsBetween ==
  ASSUME ValBufAssumption, NEW end \in Int, Cell(end) = end, NEW k \in Int
  PROVE  /\ {x \in Int : Cell(x) = x /\ end < x /\ x <= end + Per * k} = {end + i * Per : i \in 1..k}
         /\ \A i \in Int : /\ i * Per = Per * i /\ Per * i \in Int
                           /\ Cell(end + Per * i) = end + Per * i
                           /\ i <= k => Per * i <= Per * k
                           /\ i < k => Per * i < Per * k
                           /\ i >= 1 => Per * i >= Per
<1>1. Per \in Nat \ {0}
  BY DEF ValBufAssumption
<1>2. ASSUME NEW i \in Int
      PROVE  /\ i * Per = Per * i /\ Per * i \in Int
             /\ Cell(end + Per * i) = end + Per * i
  <2>1. 0 \in 0..Per-1
    BY <1>1
  <2>2. Cell(end + Per * i + 0) = end + Per * i
    BY <2>1, CellPlus
  <2>3. i * Per = Per * i /\ Per * i \in Int
    BY <1>1
  <2>4. end + Per * i + 0 = end + Per * i
    BY <2>3
  <2>5. QED
    BY <2>2, <2>3, <2>4
<1>3. ASSUME NEW i \in Int, NEW j \in Int
      PROVE  (i <= j => Per * i <= Per * j) /\ (i < j => Per * i < Per * j)
  BY <1>1
<1>4. ASSUME NEW x \in Int, Cell(x) = x, end < x, x <= end + Per * k
      PROVE  \E i \in 1..k : x = end + i * Per
  <2>1. PICK q \in Int, e \in Int : q = x \div Per /\ e = end \div Per
    BY <1>1, DivMod
  <2>2. x = Per * q /\ end = Per * e
    BY <1>4, <2>1 DEF Cell
  <2>3. PICK i \in Int : i = q - e
    OBVIOUS
  <2>4. Per * i = x - end
    <3>1. Per * (q - e) = Per * q - Per * e
      BY <1>1
    <3>2. QED
      BY <2>2, <2>3, <3>1
  <2>5. Per * i > 0 /\ Per * i <= Per * k
    <3>1. PICK y \in Int : y = Per * k
      BY <1>1
    <3>2. QED
      BY <1>4, <2>4, <3>1
  <2>6. i \in 1..k
    <3>1. ~(i <= 0)
      BY <1>3, <2>5
    <3>2. ~(k < i)
      BY <1>3, <2>5
    <3>3. QED
      BY <3>1, <3>2
  <2>7. x = end + i * Per
    BY <1>2, <2>4
  <2>8. QED
    BY <2>6, <2>7
<1>5. ASSUME NEW i \in 1..k
      PROVE  end + i * Per \in {x \in Int : Cell(x) = x /\ end < x /\ x <= end + Per * k}
  <2>1. i \in Int /\ 0 < i /\ i <= k
    OBVIOUS
  <2>2. Per * i \in Int /\ Per * 0 < Per * i /\ Per * i <= Per * k /\ Per * k \in Int
    BY <1>2, <1>3, <2>1
  <2>3. end + i * Per \in Int /\ end < end + i * Per /\ end + i * Per <= end + Per * k
    BY <1>1, <1>2, <2>1, <2>2
  <2>4. Cell(end + i * Per) = end + i * Per
    BY <1>2, <2>1
  <2>5. QED
    BY <2>3, <2>4
<1>6. \A i \in Int : i >= 1 => Per * i >= Per
  BY <1>1
<1>7. QED
  BY <1>2, <1>3, <1>4, <1>5, <1>6

\* g tells the cells from the first one to the end.
TellsCells(g) ==
  /\ tb.end \in Int /\ Cell(tb.end) = tb.end
  /\ first \in Int /\ first <= tb.end
  /\ DOMAIN g = {x \in Int : Cell(x) = x /\ first <= x /\ x <= tb.end}

\* h is what the buffer was told, and the cells up to the k-th from its end.
ToldOn(h, k, value) ==
  LET c == tb.end + Per * k
  IN  /\ DOMAIN h = {x \in Int : Cell(x) = x /\ first <= x /\ x <= (IF k > 0 THEN c ELSE tb.end)}
      /\ h[c] = value
      /\ \A x \in DOMAIN told : x # c => h[x] = told[x]
      /\ \A i \in 1..k-1 : h[tb.end + Per * i] = Fill(tb)

LEMMA ToldGrid ==
  ASSUME ValBufAssumption, grid # "flow", tb.buf # <<>>, TellsCells(told),
         told[tb.end] = tb.buf[NewestPos(tb)].val,
         NEW value, NEW tm, NEW k \in Int, RoundedTo(tm, tb.end) = tb.end + Per * k,
         k <= 0 => tb.end + Per * k \in DOMAIN told
  PROVE  ToldOn(ToldWith(value, tm), k, value)
<1>1. /\ tb.end \in Int /\ told # <<>>
      /\ first \in Int /\ first <= tb.end /\ Cell(tb.end) = tb.end
      /\ DOMAIN told = {x \in Int : Cell(x) = x /\ first <= x /\ x <= tb.end}
  <2>1. /\ tb.end \in Int /\ first \in Int /\ first <= tb.end /\ Cell(tb.end) = tb.end
        /\ DOMAIN told = {x \in Int : Cell(x) = x /\ first <= x /\ x <= tb.end}
    BY DEF TellsCells
  <2>2. tb.end \in DOMAIN told
    BY <2>1
  <2>3. told # <<>>
    BY <2>2
  <2>4. QED
    BY <2>1, <2>3
<1>2. Per \in Nat \ {0}
  BY DEF ValBufAssumption
<1>3. PICK c : c = tb.end + Per * k /\ c \in Int
  BY <1>1, <1>2
<1>4. Max(DOMAIN told) = tb.end
  <2>1. tb.end \in DOMAIN told
    BY <1>1
  <2>2. \A y \in DOMAIN told : tb.end >= y
    BY <1>1
  <2>3. \A x \in DOMAIN told : (\A y \in DOMAIN told : x >= y) => x = tb.end
    BY <1>1, <2>1, <2>2
  <2>4. QED
    BY <2>1, <2>2, <2>3 DEF Max
<1>5. (c - tb.end) \div Per = k
  <2>1. PICK y \in Int : y = Per * k
    BY <1>2
  <2>2. c - tb.end = Per * k + 0
    BY <1>1, <1>3, <2>1
  <2>3. (Per * k + 0) \div Per = k
    BY <1>2, Quotient
  <2>4. QED
    BY <2>2, <2>3
<1> DEFINE new == {tb.end + i * Per : i \in 1..k}
<1>6. Fill(tb) = IF fillLast /\ told # <<>> THEN told[Max(DOMAIN told)] ELSE Eval
  BY <1>1, <1>4 DEF Fill
<1>7. PICK h, N : /\ h = ToldWith(value, tm)
                  /\ h = [x \in {c} \union N \union DOMAIN told |->
                            IF x = c THEN value ELSE IF x \in N THEN Fill(tb) ELSE told[x]]
                  /\ N = new
  <2> DEFINE last == Max(DOMAIN told)
             cells == {last + i * Per : i \in 1..((CellTold(tm) - last) \div Per)}
             fill == IF fillLast /\ told # <<>> THEN told[last] ELSE Eval
  <2>1. ToldWith(value, tm) =
          [x \in {CellTold(tm)} \union cells \union DOMAIN told |->
             IF x = CellTold(tm) THEN value ELSE IF x \in cells THEN fill ELSE told[x]]
    BY <1>1 DEF ToldWith
  <2>2. last = tb.end /\ CellTold(tm) = c /\ (CellTold(tm) - last) \div Per = k
    <3>1. CellTold(tm) = RoundedTo(tm, tb.end)
      BY <1>1, <1>4 DEF CellTold, RoundedTo
    <3>2. QED
      BY <1>3, <1>4, <1>5, <3>1
  <2>3. cells = new
    BY <2>2
  <2>4. fill = Fill(tb)
    BY <1>6
  <2> HIDE DEF cells, fill
  <2>5. ToldWith(value, tm) =
          [x \in {c} \union new \union DOMAIN told |->
             IF x = c THEN value ELSE IF x \in new THEN Fill(tb) ELSE told[x]]
    BY <2>1, <2>2, <2>3, <2>4
  <2>6. QED
    BY <2>5
<1>8. /\ N = {x \in Int : Cell(x) = x /\ tb.end < x /\ x <= c}
      /\ Cell(c) = c
      /\ \A i \in Int : Per * i \in Int /\ i * Per = Per * i /\ (i < k => Per * i < Per * k)
  <2>1. PICK e \in Int : e = tb.end /\ Cell(e) = e
    BY <1>1
  <2>2. /\ {x \in Int : Cell(x) = x /\ e < x /\ x <= e + Per * k} = {e + i * Per : i \in 1..k}
        /\ \A i \in Int : /\ i * Per = Per * i /\ Per * i \in Int
                          /\ Cell(e + Per * i) = e + Per * i
                          /\ i < k => Per * i < Per * k
    BY <2>1, CellsBetween
  <2>3. N = {e + i * Per : i \in 1..k}
    BY <1>7, <2>1
  <2>4. c = e + Per * k
    BY <1>3, <2>1
  <2>5. Cell(c) = c
    BY <2>2, <2>4
  <2>6. QED
    BY <2>1, <2>2, <2>3, <2>4, <2>5
<1>9. \A x \in DOMAIN told : x \notin N
  <2>1. \A x \in DOMAIN told : x \in Int /\ x <= tb.end
    BY <1>1
  <2>2. \A x \in N : x \in Int /\ tb.end < x
    BY <1>8
  <2>3. QED
    BY <1>1, <2>1, <2>2
<1>10. ASSUME NEW i \in 1..k-1 PROVE tb.end + Per * i \in N /\ tb.end + Per * i # c
  <2>1. i \in Int /\ i < k /\ i \in 1..k
    OBVIOUS
  <2>2. tb.end + i * Per \in N
    BY <1>7, <2>1
  <2>3. Per * i \in Int /\ Per * k \in Int /\ i * Per = Per * i /\ Per * i < Per * k
    BY <1>8, <2>1
  <2>4. QED
    BY <1>1, <1>3, <2>2, <2>3
<1>11. DOMAIN h = {x \in Int : Cell(x) = x /\ first <= x /\ x <= (IF k > 0 THEN c ELSE tb.end)}
  <2>1. CASE k > 0
    <3>1. tb.end < c
      <4>1. 0 < k /\ 0 \in Int /\ Per * 0 = 0
        BY <1>2, <2>1
      <4>2. 0 < Per * k
        BY <1>8, <4>1
      <4>3. Per * k \in Int
        BY <1>8
      <4>4. QED
        BY <1>1, <1>3, <4>2, <4>3
    <3>2. ASSUME NEW x \in Int, Cell(x) = x
          PROVE  x \in {c} \union N \union DOMAIN told <=> first <= x /\ x <= c
      <4>1. x \in N <=> tb.end < x /\ x <= c
        BY <1>8, <3>2
      <4>2. x \in DOMAIN told <=> first <= x /\ x <= tb.end
        BY <1>1, <3>2
      <4>3. QED
        BY <1>1, <1>3, <3>1, <4>1, <4>2
    <3>3. \A x \in {c} \union N \union DOMAIN told : x \in Int /\ Cell(x) = x
      BY <1>1, <1>3, <1>8
    <3>4. {c} \union N \union DOMAIN told = {x \in Int : Cell(x) = x /\ first <= x /\ x <= c}
      BY <3>2, <3>3
    <3>5. QED
      BY <1>7, <2>1, <3>4
  <2>2. CASE ~(k > 0)
    <3>1. c \in DOMAIN told
      BY <1>3, <2>2
    <3>2. N = {}
      BY <1>7, <2>2
    <3>3. QED
      BY <1>1, <1>7, <2>2, <3>1, <3>2
  <2>3. QED
    BY <2>1, <2>2
<1> HIDE DEF new
<1>12. h[c] = value
  BY <1>7
<1>13. \A x \in DOMAIN told : x # c => h[x] = told[x]
  BY <1>7, <1>9
<1>14. \A i \in 1..k-1 : h[tb.end + Per * i] = Fill(tb)
  BY <1>7, <1>10
<1>15. QED
  BY <1>3, <1>7, <1>11, <1>12, <1>13, <1>14 DEF ToldOn

LEMMA ToldNext ==
  ASSUME ValBufAssumption, SizesFit, grid = "hard", Goes,
         NEW value, NEW tm, NEW k \in Int, RoundedTo(tm, tb.end) = tb.end + Per * k,
         k <= 0 => -k \in 0..Len(tb.buf)-1
  PROVE  ToldOn(ToldWith(value, tm), k, value)
<1>1. /\ tb.beg \in Int /\ tb.end \in Int /\ Len(tb.buf) \in Nat \ {0}
      /\ tb.beg <= tb.end /\ first \in Int /\ first <= tb.beg /\ Cell(tb.end) = tb.end
      /\ DOMAIN told = {x \in Int : Cell(x) = x /\ first <= x /\ x <= tb.end}
      /\ \A j \in 0..Len(tb.buf)-1 : tb.end - Per * j \in DOMAIN told
  BY GoesIs DEF Goes, GoesOn
<1>2. Per \in Nat \ {0}
  BY DEF ValBufAssumption
<1>3. told[tb.end] = tb.buf[NewestPos(tb)].val
  <2>1. PICK p : p = NewestPos(tb) /\ p \in 1..Len(tb.buf)
    BY <1>1, RingIs DEF Goes, GoesOn
  <2>2. PICK n \in Nat \ {0} : n = Len(tb.buf)
    BY <1>1
  <2>3. 0 \in 0..n-1 /\ 0 < p /\ p \in 1..n /\ p - 0 = p
    BY <2>1, <2>2
  <2>4. Behind(p, 0, n) = p
    BY <2>2, <2>3, BehindIs
  <2>5. tb.buf[Behind(p, 0, n)].val = told[tb.end - Per * 0]
    BY <2>1, <2>2, <2>3 DEF Goes, GoesOn, Gives
  <2>6. tb.end - Per * 0 = tb.end
    BY <1>1, <1>2
  <2>7. QED
    BY <2>1, <2>4, <2>5, <2>6
<1>4. k <= 0 => tb.end + Per * k \in DOMAIN told
  <2>1. SUFFICES ASSUME k <= 0 PROVE tb.end + Per * k \in DOMAIN told
    OBVIOUS
  <2>2. tb.end + Per * k = tb.end - Per * (-k)
    BY <1>1, <1>2
  <2>3. QED
    BY <1>1, <2>1, <2>2
<1>5. tb.buf # <<>> /\ TellsCells(told)
  BY <1>1 DEF TellsCells
<1>6. QED
  BY <1>3, <1>4, <1>5, ToldGrid

-----------------------------------------------------------------------------
(* set() on the hard grid                                                  *)

\* The first value begins an empty ring a cell before its own.
LEMMA BegunEmpty ==
  ASSUME ValBufAssumption, SizesFit, grid = "hard",
         NEW tm \in Int, Per <= Cell(tm)
  PROVE  LET c == Begun(Empty, tm)
         IN  /\ Fits(c) /\ Len(c.buf) = 0 /\ \A g : Gives(c, g)
             /\ c.end \in Int /\ c.beg = Cell(tm) /\ c.end = Cell(tm) - Per
             /\ Quot(tm - c.end, Per) = 1
             /\ Cell(tm) \in Int
<1>1. Per \in Nat \ {0} /\ EvalMod \in Nat \ {0}
  BY DEF ValBufAssumption
<1>2. Cell(tm) \in Int /\ Cell(tm) <= tm /\ tm < Cell(tm) + Per /\ Cell(Cell(tm)) = Cell(tm)
  BY <1>1, CellIs
<1>3. Per * (tm \div Per) = Cell(tm)
  BY DEF Cell
<1>4. PICK c : c = Begun(Empty, tm)
  OBVIOUS
<1>5. c = [buf |-> <<>>, cur |-> 0, beg |-> Cell(tm), end |-> Cell(tm) - Per, evalCnt |-> 0]
  BY <1>3, <1>4 DEF Begun, Empty
<1>6. c \in Ring
  <2>1. <<>> \in Seq(Cells) /\ Cell(tm) - Per \in Int
    BY <1>1, <1>2
  <2>2. QED
    BY <1>2, <1>5, <2>1 DEF Ring
<1>7. c.evalCnt = Cardinality(Errors(c.buf)) % EvalMod
  <2>1. Errors(c.buf) = {}
    BY <1>5 DEF Errors
  <2>2. Cardinality(Errors(c.buf)) = 0
    BY <2>1, FS_EmptySet
  <2>3. EvalMod * 0 + 0 = 0 /\ 0 \in 0..EvalMod-1 /\ (EvalMod * 0 + 0) % EvalMod = 0
    BY <1>1, Quotient
  <2>4. QED
    BY <1>5, <2>2, <2>3
<1>8. Len(c.buf) = 0
  BY <1>5
<1>9. c.end = c.beg + Per * (Len(c.buf) - 1)
  <2>1. Per * (0 - 1) = -Per
    BY <1>1
  <2>2. QED
    BY <1>1, <1>2, <1>5, <1>8, <2>1
<1>10. Fits(c)
  BY <1>5, <1>6, <1>7, <1>8, <1>9 DEF Fits, SizesFit
<1>11. \A g : Gives(c, g)
  BY <1>8 DEF Gives
<1>12. Quot(tm - c.end, Per) = 1
  <2>1. PICK x \in Int : x = tm - Cell(tm)
    BY <1>1, <1>2
  <2>2. tm - c.end = Per * 1 + x /\ x \in 0..Per-1
    BY <1>1, <1>2, <1>5, <2>1
  <2>3. (Per * 1 + x) \div Per = 1
    BY <1>1, <2>2, Quotient
  <2>4. tm - c.end >= 0
    BY <1>1, <2>2
  <2>5. QED
    BY <2>2, <2>3, <2>4 DEF Quot
<1>13. c.end \in Int
  BY <1>1, <1>2, <1>5
<1>14. QED
  BY <1>1, <1>2, <1>4, <1>5, <1>8, <1>10, <1>11, <1>12, <1>13

LEMMA BegunFirst ==
  ASSUME ValBufAssumption, SizesFit, grid = "hard", Rests, NEW tm \in Times
  PROVE  LET c == Begun(tb, tm)
         IN  /\ Fits(c) /\ Len(c.buf) = 0 /\ \A g : Gives(c, g)
             /\ c.end \in Int /\ c.beg = Cell(tm) /\ c.end = Cell(tm) - Per
             /\ Quot(tm - c.end, Per) = 1
             /\ tm \in Int /\ Cell(tm) \in Int /\ Per <= Cell(tm)
<1>1. tm \in Int /\ 2 * Per <= tm /\ Per \in Nat \ {0} /\ tb = Empty
  BY DEF ValBufAssumption, Rests
<1>2. Cell(tm) \in Int /\ tm < Cell(tm) + Per
  BY <1>1, CellIs
<1>3. Per <= Cell(tm)
  BY <1>1, <1>2
<1>4. QED
  BY <1>1, <1>2, <1>3, BegunEmpty

\* What one set() leaves: the ring goes on to hold what it is told.
LEMMA SetFirst ==
  ASSUME ValBufAssumption, SizesFit, grid = "hard", Rests,
         NEW tm \in Times, NEW value \in Vals
  PROVE  GoesOn(SetTo(tb, value, tm), ToldWith(value, tm), Cell(tm))
<1>1. PICK c : c = Begun(tb, tm)
  OBVIOUS
<1>2. /\ Fits(c) /\ Len(c.buf) = 0 /\ (\A g : Gives(c, g))
      /\ c.end \in Int /\ c.beg = Cell(tm) /\ c.end = Cell(tm) - Per
      /\ Quot(tm - c.end, Per) = 1
      /\ tm \in Int /\ Cell(tm) \in Int /\ Per <= Cell(tm)
  BY <1>1, BegunFirst
<1>3. PICK d : d = SetTo(tb, value, tm) /\ d = HardCells(c, 1, value)
  BY <1>1, <1>2 DEF SetTo, HardSet
<1>4. Per \in Nat \ {0}
  BY DEF ValBufAssumption
<1>5. PICK f \in Int : f = Cell(tm) /\ Cell(f) = f
  BY <1>2, CellIs
<1>6. PICK h : h = ToldWith(value, tm) /\ DOMAIN h = {f} /\ h[f] = value
  <2>1. ToldWith(value, tm) =
          [x \in {f} \union {f} \union DOMAIN told |->
             IF x = f THEN value ELSE IF x \in {f} THEN Eval ELSE told[x]]
    BY <1>5 DEF ToldWith, CellTold, Rests
  <2>2. DOMAIN told = {}
    BY DEF Rests
  <2>3. QED
    BY <2>1, <2>2
<1>7. \A i \in 1..1 : h[c.end + Per * i] = CellVal(c, 1, value, i)
  <2>1. c.end + Per * 1 = f
    BY <1>2, <1>4, <1>5
  <2>2. CellVal(c, 1, value, 1) = value
    BY DEF CellVal
  <2>3. \A i \in 1..1 : i = 1
    OBVIOUS
  <2>4. QED
    BY <1>6, <2>1, <2>2, <2>3
<1>8. /\ Fits(d) /\ Gives(d, h) /\ d.end = c.end + Per * 1
      /\ Len(d.buf) # 0 /\ d.beg >= c.beg
      /\ d.beg = c.beg \/ (room # 0 /\ room <= Len(d.buf))
  <2>1. PICK n \in Nat \ {0} : n = 1
    OBVIOUS
  <2>2. Gives(c, h) /\ \A i \in 1..n : h[c.end + Per * i] = CellVal(c, n, value, i)
    BY <1>2, <1>7, <2>1
  <2>3. PICK x : x = HardCells(c, n, value)
    OBVIOUS
  <2>4. /\ Fits(x) /\ Gives(x, h) /\ x.end = c.end + Per * n
        /\ Len(x.buf) # 0 /\ x.beg >= c.beg
        /\ x.beg = c.beg \/ (room # 0 /\ room <= Len(x.buf))
    BY <1>2, <2>2, <2>3, CellsAre
  <2>5. QED
    BY <1>3, <2>1, <2>3, <2>4
<1>9. d.end = f
  BY <1>2, <1>4, <1>5, <1>8
<1>10. f <= d.beg /\ (d.beg = f \/ (room # 0 /\ room <= Len(d.buf)))
  <2>1. d.beg \in Int
    BY <1>8, RingIs
  <2>2. QED
    BY <1>2, <1>5, <1>8, <2>1
<1>11. DOMAIN h = {x \in Int : Cell(x) = x /\ f <= x /\ x <= d.end}
  <2>1. \A x \in Int : f <= x /\ x <= f <=> x = f
    OBVIOUS
  <2>2. QED
    BY <1>5, <1>6, <1>9, <2>1
<1>12. QED
  BY <1>2, <1>3, <1>5, <1>6, <1>8, <1>9, <1>10, <1>11 DEF GoesOn

LEMMA SetNext ==
  ASSUME ValBufAssumption, SizesFit, grid = "hard", Goes,
         NEW tm \in Times, NEW value \in Vals, ~TooOld(Begun(tb, tm), tm)
  PROVE  GoesOn(SetTo(tb, value, tm), ToldWith(value, tm), first) /\ told # <<>>
<1>1. /\ tb.beg \in Int /\ tb.end \in Int /\ Len(tb.buf) \in Nat \ {0} /\ told # <<>>
      /\ Per <= tb.beg /\ tb.beg <= tb.end
      /\ Cell(tb.end) = tb.end /\ Fits(tb) /\ Gives(tb, told)
      /\ first \in Int /\ Per <= first /\ first <= tb.beg
      /\ tb.beg = first \/ (room # 0 /\ room <= Len(tb.buf))
      /\ DOMAIN told = {x \in Int : Cell(x) = x /\ first <= x /\ x <= tb.end}
      /\ \A j \in 0..Len(tb.buf)-1 : tb.end - Per * j \in DOMAIN told
  BY GoesIs DEF Goes, GoesOn
<1>2. tm \in Int /\ Per \in Nat \ {0} /\ room \in Nat
  BY DEF ValBufAssumption, SizesFit
<1>3. Begun(tb, tm) = tb
  <2>1. tb.beg # 0 /\ tb.end # 0
    BY <1>1, <1>2
  <2>2. tb = [buf |-> tb.buf, cur |-> tb.cur, beg |-> tb.beg, end |-> tb.end, evalCnt |-> tb.evalCnt]
    BY <1>1 DEF Fits, Ring
  <2>3. QED
    BY <2>1, <2>2 DEF Begun
<1>4. PICK k \in Int : k = Quot(tm - tb.end, Per) /\ RoundedTo(tm, tb.end) = tb.end + Per * k
  BY <1>1, <1>2, CellOf
<1>5. k <= 0 => -k \in 0..Len(tb.buf)-1
  <2>1. ~(k < 0 /\ -k >= Len(tb.buf))
    BY <1>3, <1>4 DEF TooOld
  <2>2. QED
    BY <1>1, <2>1
<1>6. PICK c \in Int : c = tb.end + Per * k /\ Cell(c) = c
  <2>1. Per * k \in Int /\ Cell(tb.end + Per * k) = tb.end + Per * k
    BY <1>1, CellsBetween
  <2>2. QED
    BY <1>1, <2>1
<1>7. PICK h : /\ h = ToldWith(value, tm)
               /\ DOMAIN h = {x \in Int : Cell(x) = x /\ first <= x /\ x <= (IF k > 0 THEN c ELSE tb.end)}
               /\ h[c] = value
               /\ \A x \in DOMAIN told : x # c => h[x] = told[x]
               /\ \A i \in 1..k-1 : h[tb.end + Per * i] = Fill(tb)
  <2>1. PICK x : x = ToldWith(value, tm)
    OBVIOUS
  <2>2. ToldOn(x, k, value)
    BY <1>4, <1>5, <2>1, ToldNext
  <2>3. QED
    BY <1>6, <2>1, <2>2 DEF ToldOn
<1>8. PICK d : /\ d = SetTo(tb, value, tm)
               /\ d = HardSet(tb, value, tm)
  BY <1>3 DEF SetTo
<1>9. CASE k > 0
  <2>1. d = HardCells(tb, k, value)
    BY <1>4, <1>8, <1>9 DEF HardSet
  <2>2. tb.end < c
    <3>1. Per * k > 0
      BY <1>2, <1>9
    <3>2. Per * k \in Int
      BY <1>2
    <3>3. QED
      BY <1>1, <1>6, <3>1, <3>2
  <2>3. Gives(tb, h)
    <3>1. ASSUME NEW j \in 0..Len(tb.buf)-1 PROVE h[tb.end - Per * j] = told[tb.end - Per * j]
      <4>1. PICK x : x = tb.end - Per * j /\ x \in DOMAIN told
        BY <1>1
      <4>2. x \in Int /\ x <= tb.end
        BY <1>1, <4>1
      <4>3. x # c
        BY <1>1, <2>2, <4>2
      <4>4. QED
        BY <1>7, <4>1, <4>3
    <3>2. QED
      BY <1>1, <3>1 DEF Gives
  <2>4. \A i \in 1..k : h[tb.end + Per * i] = CellVal(tb, k, value, i)
    <3>1. ASSUME NEW i \in 1..k PROVE h[tb.end + Per * i] = CellVal(tb, k, value, i)
      <4>1. CASE i < k
        <5>1. i \in 1..k-1
          BY <4>1
        <5>2. QED
          BY <1>7, <4>1, <5>1 DEF CellVal
      <4>2. CASE ~(i < k)
        <5>1. i = k
          BY <4>2
        <5>2. QED
          BY <1>6, <1>7, <4>2, <5>1 DEF CellVal
      <4>3. QED
        BY <4>1, <4>2
    <3>2. QED
      BY <3>1
  <2>5. /\ Fits(d) /\ Gives(d, h) /\ d.end = tb.end + Per * k
        /\ Len(d.buf) # 0 /\ Len(d.buf) >= Len(tb.buf) /\ d.beg >= tb.beg
        /\ d.beg = tb.beg \/ (room # 0 /\ room <= Len(d.buf))
    <3>1. PICK n \in Nat \ {0} : n = k
      BY <1>9
    <3>2. \A i \in 1..n : h[tb.end + Per * i] = CellVal(tb, n, value, i)
      BY <2>4, <3>1
    <3>3. PICK x : x = HardCells(tb, n, value)
      OBVIOUS
    <3>4. /\ Fits(x) /\ Gives(x, h) /\ x.end = tb.end + Per * n
          /\ Len(x.buf) # 0 /\ Len(x.buf) >= Len(tb.buf) /\ x.beg >= tb.beg
          /\ x.beg = tb.beg \/ (room # 0 /\ room <= Len(x.buf))
      BY <1>1, <2>3, <3>2, <3>3, CellsAre
    <3>5. QED
      BY <2>1, <3>1, <3>3, <3>4
  <2>6. d.beg \in Int /\ Len(d.buf) \in Nat
    BY <2>5, RingIs
  <2>7. first <= d.beg
    BY <1>1, <2>5, <2>6
  <2>8. d.beg = first \/ (room # 0 /\ room <= Len(d.buf))
    <3>1. CASE d.beg = tb.beg /\ tb.beg # first
      <4>1. room # 0 /\ room <= Len(tb.buf)
        BY <1>1, <3>1
      <4>2. Len(tb.buf) \in Nat /\ Len(tb.buf) <= Len(d.buf)
        BY <1>1, <2>5, <2>6
      <4>3. QED
        BY <1>2, <2>6, <4>1, <4>2
    <3>2. CASE ~(d.beg = tb.beg /\ tb.beg # first)
      BY <2>5, <3>2
    <3>3. QED
      BY <3>1, <3>2
  <2>9. d.end = c
    BY <1>6, <2>5
  <2>10. QED
    BY <1>1, <1>6, <1>7, <1>8, <1>9, <2>5, <2>7, <2>8, <2>9 DEF GoesOn
<1>10. CASE ~(k > 0)
  <2>1. PICK j \in 0..Len(tb.buf)-1 : j = -k /\ c = tb.end - Per * j
    <3>1. Per * (-(-k)) = Per * k /\ -(-k) = k /\ tb.end - Per * (-k) = tb.end + Per * k
      BY <1>1, <1>2
    <3>2. -k \in 0..Len(tb.buf)-1
      BY <1>5, <1>10
    <3>3. QED
      BY <1>6, <3>1, <3>2
  <2>2. d = LET pos == Behind(NewestPos(tb), j, Len(tb.buf))
            IN  [tb EXCEPT !.buf[pos].val = value,
                           !.evalCnt = (@ + Counted(value) - Counted(tb.buf[pos].val)) % EvalMod]
    BY <1>4, <1>8, <1>10, <2>1 DEF HardSet
  <2>3. \A i \in 0..Len(tb.buf)-1 : i # j => h[tb.end - Per * i] = told[tb.end - Per * i]
    <3>1. ASSUME NEW i \in 0..Len(tb.buf)-1, i # j PROVE h[tb.end - Per * i] = told[tb.end - Per * i]
      <4>1. i \in Int /\ j \in Int /\ (i < j \/ j < i)
        BY <3>1
      <4>2. Per * i # Per * j
        BY <1>2, <4>1
      <4>3. PICK x \in Int, y \in Int : x = Per * i /\ y = Per * j
        BY <1>2, <4>1
      <4>4. PICK e \in Int : e = tb.end
        BY <1>1
      <4>5. e - x # e - y
        BY <4>2, <4>3
      <4>6. tb.end - Per * i # c
        BY <2>1, <4>3, <4>4, <4>5
      <4>7. QED
        BY <1>1, <1>7, <4>6
    <3>2. QED
      BY <3>1
  <2>4. /\ Fits(d) /\ Gives(d, h)
        /\ d.end = tb.end /\ d.beg = tb.beg /\ Len(d.buf) = Len(tb.buf)
    <3>1. Fits(tb) /\ Len(tb.buf) # 0 /\ Gives(tb, told)
      BY <1>1
    <3>2. h[tb.end - Per * j] = value
      BY <1>7, <2>1
    <3>3. QED
      BY <2>2, <2>3, <3>1, <3>2, InPlace
  <2>5. QED
    BY <1>1, <1>7, <1>8, <1>10, <2>4 DEF GoesOn
<1>11. QED
  BY <1>9, <1>10

LEMMA SetKeeps ==
  ASSUME ValBufAssumption, HardInv, NEW tm \in Times, NEW value \in Vals, Set(value, tm)
  PROVE  HardInv'
<1>1. /\ tb' = SetTo(tb, value, tm) /\ told' = ToldWith(value, tm)
      /\ first' = IF told = <<>> THEN Cell(tm) ELSE first
      /\ grid' = grid /\ size' = size /\ room' = room
      /\ ~TooOld(Begun(tb, tm), tm)
  BY DEF Set, mode
<1>2. SizesFit /\ SizesFit'
  BY <1>1 DEF HardInv, SizesFit
<1>3. ASSUME grid = "hard" PROVE Goes'
  <2>1. PICK d, h, f : d = tb' /\ h = told' /\ f = first'
    OBVIOUS
  <2>2. GoesOn(d, h, f)
    <3>1. CASE Rests
      <4>1. f = Cell(tm)
        BY <1>1, <2>1, <3>1 DEF Rests
      <4>2. QED
        BY <1>1, <1>2, <1>3, <2>1, <3>1, <4>1, SetFirst
    <3>2. CASE Goes
      <4>1. GoesOn(d, h, first) /\ told # <<>>
        BY <1>1, <1>2, <1>3, <2>1, <3>2, SetNext
      <4>2. f = first
        BY <1>1, <2>1, <4>1
      <4>3. QED
        BY <4>1, <4>2
    <3>3. QED
      BY <1>3, <3>1, <3>2 DEF HardInv
  <2>3. Fits(tb)'
    BY <1>1, <2>1, <2>2 DEF Fits, GoesOn
  <2>4. Gives(tb, told)'
    BY <2>1, <2>2 DEF Gives, GoesOn, NewestPos
  <2>5. Cell(tb.end)' = tb.end'
    BY <2>1, <2>2 DEF Cell, GoesOn
  <2>6. DOMAIN told' = {x \in Int : Cell(x) = x /\ first' <= x /\ x <= tb.end'}
    BY <2>1, <2>2 DEF GoesOn
  <2>7. QED
    BY <1>1, <2>1, <2>2, <2>3, <2>4, <2>5, <2>6 DEF Goes, GoesOn, Cell
<1>4. QED
  BY <1>1, <1>2, <1>3 DEF HardInv

LEMMA ClearKeeps ==
  ASSUME ValBufAssumption, HardInv, Clear
  PROVE  HardInv'
  BY DEF Clear, mode, Forget, HardInv, SizesFit, Rests, Empty

LEMMA MakeBufKeeps ==
  ASSUME ValBufAssumption, HardInv,
         NEW isz \in Sizes, NEW g \in Grids, NEW hgRes \in BOOLEAN, MakeBuf(isz, g, hgRes)
  PROVE  HardInv'
<1>1. isz \in Nat /\ size' = isz /\ grid' = g
  BY DEF MakeBuf, ValBufAssumption
<1>2. CASE isz < size \/ size = 0 \/ g # grid \/ hgRes # hgResTm
  BY <1>1, <1>2 DEF MakeBuf, Forget, HardInv, SizesFit, Rests, Empty
<1>3. CASE ~(isz < size \/ size = 0 \/ g # grid \/ hgRes # hgResTm)
  <2>1. /\ tb' = tb /\ told' = told /\ first' = first /\ room' = room /\ grid' = grid
        /\ size # 0 /\ size <= isz /\ SizesFit
    BY <1>1, <1>3 DEF MakeBuf, HardInv, SizesFit
  <2>2. SizesFit'
    BY <1>1, <2>1 DEF SizesFit
  <2>3. Rests => Rests'
    BY <2>1 DEF Rests, Empty
  <2>4. ASSUME Goes PROVE Goes'
    <3>1. Fits(tb) /\ tb.cur \in Nat /\ Len(tb.buf) \in Nat
      BY <2>1, <2>4, RingIs DEF Goes, GoesOn
    <3>2. Fits(tb)'
      BY <1>1, <2>1, <3>1 DEF Fits, SizesFit, Errors
    <3>3. QED
      BY <2>1, <2>4, <3>2 DEF Goes, GoesOn, Gives, Cell, NewestPos
  <2>5. QED
    BY <2>1, <2>2, <2>3, <2>4 DEF HardInv
<1>4. QED
  BY <1>2, <1>3

LEMMA UntouchedKeeps ==
  ASSUME HardInv, UNCHANGED <<grid, size, tb, told, first, room>>
  PROVE  HardInv'
<1>1. SizesFit'
  BY DEF HardInv, SizesFit
<1>2. Rests => Rests'
  BY DEF Rests, Empty
<1>3. Fits(tb) => Fits(tb)'
  BY DEF Fits, Errors
<1>4. Goes => Goes'
  BY <1>3 DEF Goes, GoesOn, Gives, Cell, NewestPos
<1>5. QED
  BY <1>1, <1>2, <1>4 DEF HardInv

LEMMA HardStep ==
  ASSUME ValBufAssumption, HardInv, [Next]_vars
  PROVE  HardInv'
<1>1. ASSUME NEW value \in Vals, NEW tm \in Times, Set(value, tm) PROVE HardInv'
  BY <1>1, SetKeeps
<1>2. ASSUME NEW tm \in Times, AttrSetOld(tm) PROVE HardInv'
  BY <1>2, ClearKeeps DEF AttrSetOld
<1>3. CASE Clear
  BY <1>3, ClearKeeps
<1>4. ASSUME NEW isz \in Sizes, NEW g \in Grids, NEW hgRes \in BOOLEAN, MakeBuf(isz, g, hgRes)
      PROVE  HardInv'
  BY <1>4, MakeBufKeeps
<1>5. CASE SetFillLast
  BY <1>5, UntouchedKeeps DEF SetFillLast
<1>6. CASE UNCHANGED vars
  BY <1>6, UntouchedKeeps DEF vars, mode
<1>7. QED
  BY <1>1, <1>2, <1>3, <1>4, <1>5, <1>6 DEF Next

\* On the hard grid the buffer is empty, or a ring that has a value for each
\* cell of its times, the one last told, however set() (src/src/tarchval.cpp:608)
\* went on, wrote over and wrapped the cursor, and makeBuf() enlarged it.
THEOREM HardGridGoes == Spec => []HardInv
<1>1. Init => HardInv
  BY ValBufAssumption DEF Init, HardInv, SizesFit, Rests, ValBufAssumption
<1>2. HardInv /\ [Next]_vars => HardInv'
  BY ValBufAssumption, HardStep
<1>3. QED
  BY <1>1, <1>2, PTL DEF Spec

-----------------------------------------------------------------------------
(* What follows of it                                                      *)

LEMMA Counts ==
  ASSUME ValBufAssumption, HardInv
  PROVE  EvalCounted
<1>1. CASE grid # "hard"
  BY <1>1 DEF EvalCounted
<1>2. CASE Rests
  <2>1. {i \in DOMAIN tb.buf : tb.buf[i].val = Eval} = {} /\ tb.evalCnt = 0
    BY <1>2 DEF Rests, Empty
  <2>2. Cardinality({i \in DOMAIN tb.buf : tb.buf[i].val = Eval}) = 0
    BY <2>1, FS_EmptySet
  <2>3. EvalMod \in Nat \ {0} /\ 0 \in 0..EvalMod-1
    BY DEF ValBufAssumption
  <2>4. EvalMod * 0 + 0 = 0 /\ (EvalMod * 0 + 0) % EvalMod = 0
    BY <2>3, Quotient
  <2>5. QED
    BY <2>1, <2>2, <2>4 DEF EvalCounted
<1>3. CASE Goes
  BY <1>3 DEF Goes, GoesOn, Fits, Errors, EvalCounted
<1>4. QED
  BY <1>1, <1>2, <1>3 DEF HardInv

LEMMA KeepsNewest ==
  ASSUME ValBufAssumption, HardInv, grid = "hard"
  PROVE  NewestKept
<1>1. CASE Rests
  BY <1>1 DEF Rests, Empty, NewestKept
<1>2. CASE Goes
  <2>1. /\ tb.beg \in Int /\ Len(tb.buf) \in Nat \ {0}
        /\ Per * (Len(tb.buf) - 1) \in Int /\ tb.end = tb.beg + Per * (Len(tb.buf) - 1)
    BY <1>2, GoesIs DEF HardInv
  <2>2. Per \in Nat \ {0}
    BY DEF ValBufAssumption
  <2>3. PICK q \in Int : q = Len(tb.buf) - 1
    <3>1. \A m \in Nat \ {0} : m - 1 \in Int
      OBVIOUS
    <3>2. QED
      BY <2>1, <3>1
  <2>4. tb.end - tb.beg = Per * q + 0
    <3>1. Per * q \in Int /\ tb.end = tb.beg + Per * q
      BY <2>1, <2>3
    <3>2. PICK y \in Int : y = Per * q
      BY <3>1
    <3>3. tb.end - tb.beg = y + 0
      BY <2>1, <3>1, <3>2
    <3>4. QED
      BY <3>2, <3>3
  <2>5. (Per * q + 0) \div Per = q
    BY <2>2, Quotient
  <2>6. (tb.end - tb.beg) \div Per + 1 = Len(tb.buf)
    <3>1. (tb.end - tb.beg) \div Per = q
      BY <2>4, <2>5, Zenon
    <3>2. q + 1 = Len(tb.buf)
      BY <2>1, <2>3
    <3>3. QED
      BY <3>1, <3>2, Zenon
  <2>7. tb.beg = first \/ (room # 0 /\ room <= Len(tb.buf))
    BY <1>2 DEF Goes, GoesOn
  <2>8. room \in Nat
    BY DEF HardInv, SizesFit
  <2>9. QED
    BY <2>1, <2>6, <2>7, <2>8 DEF NewestKept
<1>3. QED
  BY <1>1, <1>2 DEF HardInv

\* The ring of whole cells from its begin to its end.
LEMMA RingEnds ==
  ASSUME ValBufAssumption, SizesFit, NEW c, Fits(c), Len(c.buf) # 0, Cell(c.end) = c.end
  PROVE  \E b \in Int, e \in Int, n \in Nat \ {0} :
           /\ b = c.beg /\ e = c.end /\ n = Len(c.buf)
           /\ Per * (n - 1) \in Int /\ e = b + Per * (n - 1)
           /\ Cell(e) = e /\ b <= e /\ Cell(b) = b
<1>1. PICK b \in Int, e \in Int, n \in Nat \ {0} :
        b = c.beg /\ e = c.end /\ n = Len(c.buf) /\ e = b + Per * (n - 1) /\ Cell(e) = e
  BY RingIs DEF Fits
<1>2. Per \in Nat \ {0}
  BY DEF ValBufAssumption
<1>3. PICK m \in Nat, y \in Nat : m = n - 1 /\ y = Per * m
  <2>1. n - 1 \in Nat
    OBVIOUS
  <2>2. \A m \in Nat : Per * m \in Nat
    BY <1>2
  <2>3. QED
    BY <2>1, <2>2
<1>4. e = b + y /\ b <= e
  BY <1>1, <1>3
<1>5. Cell(b) = b
  <2>1. 0 \in 0..Per-1 /\ -m \in Int /\ Per * (-m) = -y
    BY <1>2, <1>3
  <2>2. Cell(e + Per * (-m) + 0) = e + Per * (-m)
    BY <1>1, <2>1, CellPlus
  <2>3. e + Per * (-m) + 0 = b /\ e + Per * (-m) = b
    BY <1>4, <2>1
  <2>4. QED
    BY <2>2, <2>3
<1>6. Per * (n - 1) \in Int
  BY <1>3
<1>7. QED
  BY <1>1, <1>4, <1>5, <1>6

\* What get() finds at a time the ring has: the cell of the time, or the next
\* one when it searches upward.
LEMMA HardGetIs ==
  ASSUME ValBufAssumption, SizesFit, grid = "hard",
         NEW c, Fits(c), Len(c.buf) # 0, Cell(c.end) = c.end,
         NEW t \in c.beg..c.end, NEW up \in BOOLEAN
  PROVE  \E j \in 0..Len(c.buf)-1 :
           /\ Get(c, t, up) \in Cells
           /\ Get(c, t, up).tm = c.end - Per * j
           /\ Get(c, t, up).val = c.buf[Behind(NewestPos(c), j, Len(c.buf))].val
           /\ c.end - Per * j = IF up THEN CellUp(t) ELSE Cell(t)
<1>1. PICK b \in Int, e \in Int, n \in Nat \ {0} :
         /\ b = c.beg /\ e = c.end /\ n = Len(c.buf)
         /\ Per * (n - 1) \in Int /\ e = b + Per * (n - 1)
         /\ Cell(e) = e /\ b <= e
  BY RingEnds
<1>2. Per \in Nat \ {0}
  BY DEF ValBufAssumption
<1>3. t \in Int /\ b <= t /\ t <= e
  BY <1>1
<1>4. Get(c, t, up) = HardGet(c, t, up)
  <2>1. \A x \in {t, b} : (\A y \in {t, b} : x >= y) => x = t
    BY <1>1, <1>3
  <2>2. Max({t, b}) = t
    BY <1>1, <1>3, <2>1 DEF Max
  <2>3. \A x \in {t, e} : (\A y \in {t, e} : x <= y) => x = t
    BY <1>1, <1>3
  <2>4. Min({t, e}) = t
    BY <1>1, <1>3, <2>3 DEF Min
  <2>5. ~(up /\ t > c.end) /\ ~(~up /\ t < c.beg)
    BY <1>1, <1>3
  <2>6. (IF up THEN Max({t, c.beg}) ELSE Min({t, c.end})) = t
    BY <1>1, <2>2, <2>4
  <2>7. QED
    BY <2>5, <2>6 DEF Get
<1>5. ASSUME NEW j \in 0..n-1,
             j = IF up THEN (e - t) \div Per ELSE n - 1 - (t - b) \div Per
      PROVE  /\ HardGet(c, t, up) \in Cells
             /\ HardGet(c, t, up).tm = e - Per * j
             /\ HardGet(c, t, up).val = c.buf[Behind(NewestPos(c), j, n)].val
  <2>1. ~(j < 0 \/ j >= n)
    BY <1>1
  <2>2. HardGet(c, t, up) = [tm |-> e - j * Per, val |-> c.buf[Behind(NewestPos(c), j, n)].val]
    BY <1>1, <1>5, <2>1 DEF HardGet
  <2>3. j * Per = Per * j
    BY <1>2
  <2>4. c.buf[Behind(NewestPos(c), j, n)].val \in Vals
    <3>1. NewestPos(c) \in 1..n /\ \A i \in 1..n : c.buf[i].val \in Vals
      BY <1>1, RingIs
    <3>2. Behind(NewestPos(c), j, n) \in 1..n
      BY <3>1, BehindIs
    <3>3. QED
      BY <3>1, <3>2
  <2>5. e - Per * j \in Int
    BY <1>1, <1>2
  <2>6. QED
    BY <2>2, <2>3, <2>4, <2>5 DEF Cells
<1>6. \A i \in Int, j \in Int : i < j => Per * i + Per <= Per * j
  <2>1. ASSUME NEW i \in Int, NEW j \in Int, i < j PROVE Per * i + Per <= Per * j
    <3>1. Per * (i + 1) <= Per * j
      BY <1>2, <2>1
    <3>2. Per * (i + 1) = Per * i + Per
      BY <1>2
    <3>3. QED
      BY <3>1, <3>2
  <2>2. QED
    BY <2>1
<1>7. PICK z \in Int : z = Per * (n - 1) /\ e = b + z
  BY <1>1
<1>8. CASE up
  <2>1. PICK x \in Int : x = e - t
    BY <1>1, <1>3
  <2>2. PICK q \in Int, r \in 0..Per-1 : q = x \div Per /\ x = Per * q + r
    BY <1>2, DivMod
  <2>3. PICK y \in Int : y = Per * q
    BY <1>2
  <2>4. q \in 0..n-1
    <3>1. 0 <= x /\ x <= z
      BY <1>3, <1>7, <2>1
    <3>2. ~(q < 0)
      <4>1. q < 0 => y + Per <= Per * 0
        BY <1>6, <2>3
      <4>2. Per * 0 = 0
        BY <1>2
      <4>3. QED
        BY <1>2, <2>2, <2>3, <3>1, <4>1, <4>2
    <3>3. ~(n - 1 < q)
      <4>1. n - 1 < q => z + Per <= y
        BY <1>1, <1>6, <1>7, <2>3
      <4>2. QED
        BY <1>2, <2>2, <2>3, <3>1, <4>1
    <3>4. QED
      BY <1>1, <3>2, <3>3
  <2>5. CellUp(t) = e - Per * q
    <3>1. -q \in Int /\ Per - 1 - r \in 0..Per-1 /\ Per * (-q) = -y
      BY <1>2, <2>3
    <3>2. Cell(e + Per * (-q) + (Per - 1 - r)) = e + Per * (-q)
      BY <1>1, <3>1, CellPlus
    <3>3. t + Per - 1 = e + Per * (-q) + (Per - 1 - r)
      <4>1. x = y + r
        BY <2>2, <2>3
      <4>2. t + Per - 1 = e - y + (Per - 1 - r)
        BY <1>2, <1>3, <2>1, <4>1
      <4>3. QED
        BY <3>1, <4>2
    <3>4. e + Per * (-q) = e - Per * q
      BY <1>1, <2>3, <3>1
    <3>5. QED
      BY <3>2, <3>3, <3>4 DEF CellUp
  <2>6. QED
    BY <1>1, <1>4, <1>5, <1>8, <2>1, <2>2, <2>4, <2>5
<1>9. CASE ~up
  <2>1. PICK x \in Int : x = t - b
    BY <1>1, <1>3
  <2>2. PICK q \in Int, r \in 0..Per-1 : q = x \div Per /\ x = Per * q + r
    BY <1>2, DivMod
  <2>3. PICK y \in Int : y = Per * q
    BY <1>2
  <2>4. q \in 0..n-1
    <3>1. 0 <= x /\ x <= z
      BY <1>3, <1>7, <2>1
    <3>2. ~(q < 0)
      <4>1. q < 0 => y + Per <= Per * 0
        BY <1>6, <2>3
      <4>2. Per * 0 = 0
        BY <1>2
      <4>3. QED
        BY <1>2, <2>2, <2>3, <3>1, <4>1, <4>2
    <3>3. ~(n - 1 < q)
      <4>1. n - 1 < q => z + Per <= y
        BY <1>1, <1>6, <1>7, <2>3
      <4>2. QED
        BY <1>2, <2>2, <2>3, <3>1, <4>1
    <3>4. QED
      BY <1>1, <3>2, <3>3
  <2>5. PICK j \in 0..n-1 : j = n - 1 - q
    BY <2>4
  <2>6. Per * j = z - y
    <3>1. Per * (n - 1 - q) = Per * (n - 1) - Per * q
      BY <1>2, <2>4
    <3>2. QED
      BY <1>7, <2>3, <2>5, <3>1
  <2>7. Cell(t) = e - Per * j
    <3>1. Per * (-j) = y - z /\ -j \in Int
      <4>1. Per * (-j) = -(Per * j) /\ -j \in Int
        BY <1>2
      <4>2. QED
        BY <2>6, <4>1
    <3>2. Cell(e + Per * (-j) + r) = e + Per * (-j)
      BY <1>1, <3>1, CellPlus
    <3>3. t = e + Per * (-j) + r
      <4>1. x = y + r
        BY <2>2, <2>3
      <4>2. t = e + (y - z) + r
        BY <1>3, <1>7, <2>1, <4>1
      <4>3. QED
        BY <3>1, <4>2
    <3>4. e + Per * (-j) = e - Per * j
      BY <1>1, <2>6, <3>1
    <3>5. QED
      BY <3>2, <3>3, <3>4
  <2>8. QED
    BY <1>1, <1>4, <1>5, <1>9, <2>1, <2>2, <2>5, <2>7
<1>10. QED
  BY <1>8, <1>9

LEMMA GivesWhatTold ==
  ASSUME ValBufAssumption, HardInv, grid = "hard"
  PROVE  GetRight
<1>1. CASE Rests
  BY <1>1 DEF Rests, Empty, GetRight, Held
<1>2. CASE Goes
  <2>1. ASSUME NEW t \in Held, NEW up \in BOOLEAN
        PROVE  /\ Get(tb, t, up).val = told[IF up THEN CellUp(t) ELSE Cell(t)]
               /\ Cell(Get(tb, t, up).tm) = IF up THEN CellUp(t) ELSE Cell(t)
    <3>1. tb.end # 0 /\ t \in tb.beg..tb.end
      BY <2>1 DEF Held
    <3>2. PICK j \in 0..Len(tb.buf)-1 :
             /\ Get(tb, t, up).tm = tb.end - Per * j
             /\ Get(tb, t, up).val = tb.buf[Behind(NewestPos(tb), j, Len(tb.buf))].val
             /\ tb.end - Per * j = IF up THEN CellUp(t) ELSE Cell(t)
      BY <1>2, <3>1, HardGetIs DEF HardInv, Goes, GoesOn
    <3>3. tb.buf[Behind(NewestPos(tb), j, Len(tb.buf))].val = told[tb.end - Per * j]
      BY <1>2 DEF Goes, GoesOn, Gives
    <3>4. tb.end - Per * j \in DOMAIN told
      BY <1>2, GoesIs DEF HardInv
    <3>5. Cell(tb.end - Per * j) = tb.end - Per * j
      BY <1>2, <3>4 DEF Goes, GoesOn
    <3>6. QED
      BY <3>2, <3>3, <3>5
  <2>2. QED
    BY <2>1 DEF GetRight
<1>3. QED
  BY <1>1, <1>2 DEF HardInv

\* The counter of error values that set() keeps (src/src/tarchval.cpp:621-638),
\* by which an archiver asks another station for what it has none of, is that
\* of the values in the ring: whatever was filled, written over or replaced.
THEOREM EvalIsCounted == Spec => []EvalCounted
<1>1. HardInv => EvalCounted
  BY Counts, ValBufAssumption
<1>2. QED
  BY <1>1, HardGridGoes, PTL

\* get() of the hard grid (src/src/tarchval.cpp:485) at any time from its begin
\* to its end gives what was last told for the cell of the time, or for the next
\* one when it searches upward.
THEOREM HardGetRight == Spec => [](grid = "hard" => GetRight)
<1>1. HardInv => (grid = "hard" => GetRight)
  BY GivesWhatTold, ValBufAssumption
<1>2. QED
  BY <1>1, HardGridGoes, PTL

\* The hard grid writes over a cell only when it has as many as it was made for,
\* also when it was enlarged with its cursor anywhere in the ring.
THEOREM HardNewestKept == Spec => [](grid = "hard" => NewestKept)
<1>1. HardInv => (grid = "hard" => NewestKept)
  BY KeepsNewest, ValBufAssumption
<1>2. QED
  BY <1>1, HardGridGoes, PTL
=============================================================================
