---------------------------- MODULE MessBuf_proofs ----------------------------
(***************************************************************************)
(* Proofs about MessBuf, for any archivers, lengths and number of messages.*)
(***************************************************************************)
EXTENDS MessBuf, TLAPS, FiniteSetTheorems, SequenceTheorems

-----------------------------------------------------------------------------
(* Lemmas about the operators                                              *)

LEMMA ModOnce ==
  ASSUME NEW n \in Nat \ {0}, NEW x \in 0..2*n-1
  PROVE  x % n = IF x < n THEN x ELSE x - n
OBVIOUS

\* The length a call of setMessBufLen() sets.
NewLen(l) == Min({MaxMessBufSize, Max({DefMessBufSize, l})})

LEMMA MaxOfTwo == ASSUME NEW a \in Int, NEW b \in Int
                  PROVE  Max({a, b}) = IF a >= b THEN a ELSE b
<1>1. PICK m \in {a, b} : \A y \in {a, b} : m >= y
  OBVIOUS
<1>2. /\ Max({a, b}) \in {a, b}
      /\ \A y \in {a, b} : Max({a, b}) >= y
  BY <1>1 DEF Max
<1>3. QED
  BY <1>2

LEMMA MinOfTwo == ASSUME NEW a \in Int, NEW b \in Int
                  PROVE  Min({a, b}) = IF a <= b THEN a ELSE b
<1>1. PICK m \in {a, b} : \A y \in {a, b} : m <= y
  OBVIOUS
<1>2. /\ Min({a, b}) \in {a, b}
      /\ \A y \in {a, b} : Min({a, b}) <= y
  BY <1>1 DEF Min
<1>3. QED
  BY <1>2

LEMMA LenBounds ==
  ASSUME MessBufAssumption, NEW l \in Lens
  PROVE  NewLen(l) \in DefMessBufSize..MaxMessBufSize
<1>1. l \in Int /\ DefMessBufSize \in Int /\ MaxMessBufSize \in Int
  BY DEF MessBufAssumption
<1>2. Max({DefMessBufSize, l}) = IF DefMessBufSize >= l THEN DefMessBufSize ELSE l
  BY <1>1, MaxOfTwo
<1>3. Max({DefMessBufSize, l}) \in Int
  BY <1>1, <1>2
<1>4. NewLen(l) = IF MaxMessBufSize <= Max({DefMessBufSize, l}) THEN MaxMessBufSize
                  ELSE Max({DefMessBufSize, l})
  BY <1>1, <1>3, MinOfTwo DEF NewLen
<1>5. QED
  BY <1>1, <1>2, <1>4 DEF MessBufAssumption

\* A sequence without repetition over the archivers is no longer than they are many.
LEMMA InjectiveIsShort ==
  ASSUME MessBufAssumption, NEW s \in Seq(Archivers), IsInjective(s)
  PROVE  Len(s) <= Cardinality(Archivers)
<1>1. PICK n \in Nat : n = Len(s) /\ s \in [1..n -> Archivers]
  OBVIOUS
<1>2. s \in Injection(1..n, Archivers)
  BY <1>1 DEF Injection
<1>3. IsFiniteSet(Archivers)
  BY DEF MessBufAssumption
<1>4. Cardinality(1..n) <= Cardinality(Archivers)
  BY <1>2, <1>3, FS_Injection
<1>5. n \in Nat
  BY <1>1
<1>6. Cardinality(1..n) = n
  BY <1>5, FS_Interval
<1>7. QED
  BY <1>1, <1>4, <1>6

\* The order the archivers are started in has each of them once.
LEMMA AllInOrder ==
  ASSUME MessBufAssumption
  PROVE  /\ SetToSeq(Archivers) \in Seq(Archivers) /\ IsInjective(SetToSeq(Archivers))
         /\ Range(SetToSeq(Archivers)) = Archivers
         /\ Len(SetToSeq(Archivers)) = Cardinality(Archivers) /\ Len(SetToSeq(Archivers)) >= 1
<1> DEFINE n == Cardinality(Archivers)
           s == SetToSeq(Archivers)
<1>1. n \in Nat /\ ExistsBijection(1..n, Archivers)
  BY FS_CardinalityType DEF MessBufAssumption
<1>2. \E f \in [1..n -> Archivers] : IsInjective(f)
  BY <1>1 DEF ExistsBijection, Bijection, Injection
<1>3. s \in [1..n -> Archivers] /\ IsInjective(s)
  BY <1>2 DEF SetToSeq
<1>4. s \in Seq(Archivers) /\ Len(s) = n
  BY <1>1, <1>3
<1>5. n # 0
  BY FS_EmptySet DEF MessBufAssumption
<1>6. Range(s) = Archivers
  <2>1. s \in Injection(1..n, Archivers)
    BY <1>3 DEF Injection
  <2>2. Cardinality(1..n) = n
    BY <1>1, FS_Interval
  <2>3. s \in Surjection(1..n, Archivers)
    BY <2>1, <2>2, FS_Injection DEF MessBufAssumption
  <2>4. QED
    BY <2>3, <1>3 DEF Surjection, Range
<1>7. QED
  BY <1>1, <1>3, <1>4, <1>5, <1>6

-----------------------------------------------------------------------------
(* Types                                                                   *)

\* While an archiver writes, the task is at one of the active archivers' places.
BInv == TypeOK /\ (pc \in Writing => iM <= Cardinality(Archivers))

LEMMA Places ==
  ASSUME MessBufAssumption, TypeOK
  PROVE  /\ DefMessBufSize \in Nat /\ MaxMessBufSize \in Nat /\ size \in Nat
         /\ 2 <= DefMessBufSize /\ DefMessBufSize <= size /\ size <= MaxMessBufSize
         /\ headBuf \in Nat /\ headBuf < size
         /\ count \in Nat /\ MaxMess \in Nat /\ count <= MaxMess
  BY DEF MessBufAssumption, TypeOK, Slots

\* The facts about the ring a citation of HeadGoesOn or BackGoesOn needs.
LEMMA RingFacts ==
  ASSUME MessBufAssumption, TypeOK
  PROVE  size \in Nat /\ size >= 2 /\ headBuf \in 0..size-1 /\ Slots(size) = 0..size-1
  BY Places DEF Slots

LEMMA Counters ==
  ASSUME MessBufAssumption, TypeOK
  PROVE  /\ MaxFails \in Nat /\ MaxStops \in Nat /\ MaxUpdates \in Nat
         /\ fails \in 0..MaxFails /\ stops \in 0..MaxStops /\ updates \in 0..MaxUpdates
  BY DEF MessBufAssumption, TypeOK

LEMMA Active ==
  ASSUME TypeOK, NEW a, a \in Range(actMess)
  PROVE  a \in Archivers
  BY DEF TypeOK, Range

LEMMA ReadFromType ==
  ASSUME MessBufAssumption, TypeOK, NEW a \in Archivers
  PROVE  ReadFrom(a) \in 0..MaxMessBufSize-1
<1>1. messHead[a] \in -1..MaxMessBufSize-1
  BY DEF TypeOK
<1>2. QED
  BY <1>1, Places DEF ReadFrom

LEMMA AfterType ==
  ASSUME NEW n \in Nat \ {0}, NEW i \in Slots(n)
  PROVE  After(i, n) \in Slots(n)
  BY DEF After, Slots

LEMMA ToRingTypes ==
  ASSUME MessBufAssumption, TypeOK, ToRing
  PROVE  /\ size' = size
         /\ mBuf' \in [Slots(size) -> 0..MaxMess]
         /\ headBuf' \in Slots(size)
         /\ count' \in 0..MaxMess
         /\ messHead' \in [Archivers -> -1..MaxMessBufSize-1]
<1> DEFINE next == After(headBuf, size)
<1>1. size' = size /\ count < MaxMess /\ count' = count + 1
  BY DEF ToRing
<1>2. headBuf' = next /\ next \in Slots(size) /\ After(next, size) \in Slots(size)
  <2>1. headBuf' = next
    BY DEF ToRing
  <2>2. size \in Nat \ {0} /\ headBuf \in Slots(size)
    BY Places DEF Slots
  <2>3. next \in Slots(size)
    BY <2>2, AfterType
  <2>4. QED
    BY <2>1, <2>2, <2>3, AfterType
<1>3. count' \in 0..MaxMess
  BY <1>1, Places
<1>4. mBuf' \in [Slots(size) -> 0..MaxMess]
  <2>1. mBuf' = [mBuf EXCEPT ![headBuf] = count']
    BY <1>1 DEF ToRing
  <2>2. QED
    BY <1>3, <2>1 DEF TypeOK
<1>5. messHead' \in [Archivers -> -1..MaxMessBufSize-1]
  <2>1. After(next, size) \in -1..MaxMessBufSize-1
    BY <1>2, Places DEF Slots
  <2>2. messHead' = [a \in Archivers |->
           IF a \in Range(actMess) /\ messHead[a] = next
             THEN After(next, size) ELSE messHead[a]]
    BY DEF ToRing
  <2> HIDE DEF next
  <2>3. QED
    BY <2>1, <2>2 DEF TypeOK
<1>6. QED
  BY <1>1, <1>2, <1>3, <1>4, <1>5

\* What setMessBufLen() leaves is a ring of the new length.
LEMMA LenTypes ==
  ASSUME MessBufAssumption, TypeOK, NEW l \in Lens, SetMessBufLen(l)
  PROVE  /\ size' \in DefMessBufSize..MaxMessBufSize
         /\ mBuf' \in [Slots(size') -> 0..MaxMess]
         /\ headBuf' \in Slots(size')
         /\ messHead' \in [Archivers -> -1..MaxMessBufSize-1]
<1> DEFINE len == NewLen(l)
           more == len - size
           behind == size - headBuf
           wraps == more < 0 /\ -more >= behind
<1>1. len \in DefMessBufSize..MaxMessBufSize /\ size' = len
  BY LenBounds DEF SetMessBufLen, NewLen
<1>2. len \in Nat /\ len <= MaxMessBufSize
  BY <1>1, Places
<1>3. headBuf' \in Slots(len)
  <2>1. headBuf' = IF wraps THEN 0 ELSE headBuf
    BY DEF SetMessBufLen, NewLen
  <2>2. QED
    BY <1>1, <1>2, <2>1, Places DEF Slots
<1>4. mBuf' \in [Slots(len) -> 0..MaxMess]
  <2>1. mBuf' = [i \in Slots(len) |->
           IF wraps THEN mBuf[i - more - behind]
           ELSE IF i < headBuf THEN mBuf[i]
           ELSE IF i < headBuf + more THEN 0
           ELSE mBuf[i - more]]
    BY DEF SetMessBufLen, NewLen
  <2>2. ASSUME NEW i \in Slots(len)
        PROVE  /\ i \in Int
               /\ wraps => i - more - behind \in Slots(size)
               /\ ~wraps /\ i < headBuf => i \in Slots(size)
               /\ ~wraps /\ ~(i < headBuf + more) => i - more \in Slots(size)
    BY <1>2, Places DEF Slots
  <2>3. /\ 0 \in 0..MaxMess
        /\ \A j \in Slots(size) : mBuf[j] \in 0..MaxMess
    BY Places DEF TypeOK
  <2> HIDE DEF len, more, behind, wraps
  <2>4. QED
    BY <2>1, <2>2, <2>3
<1>5. messHead' \in [Archivers -> -1..MaxMessBufSize-1]
  <2>1. messHead' = [a \in Archivers |->
           IF a \in Range(actMess) /\ more < 0 /\ messHead[a] >= len THEN 0 ELSE messHead[a]]
    BY DEF SetMessBufLen, NewLen
  <2>2. 0 \in -1..MaxMessBufSize-1
    BY Places
  <2> HIDE DEF len, more
  <2>3. QED
    BY <2>1, <2>2 DEF TypeOK
<1>6. QED
  BY <1>1, <1>3, <1>4, <1>5

\* The slots a reading goes over, and what it copies from them.
LEMMA TakenType ==
  ASSUME MessBufAssumption, TypeOK, NEW h \in 0..MaxMessBufSize-1
  PROVE  [k \in DOMAIN SlotsFrom(h) |-> Record(SlotsFrom(h)[k])] \in Seq(0..MaxMess)
<1> DEFINE s == SlotsFrom(h)
<1>1. PICK n \in Nat : s \in [1..n -> Nat]
  <2>1. CASE h <= headBuf
    <3>1. s = [k \in 1..headBuf-h |-> h + k - 1]
      BY <2>1 DEF SlotsFrom
    <3>2. headBuf - h \in Nat /\ \A k \in 1..headBuf-h : h + k - 1 \in Nat
      BY <2>1, Places
    <3>3. s \in [1..headBuf-h -> Nat]
      BY <3>1, <3>2
    <3>4. QED
      BY <3>2, <3>3
  <2>2. CASE ~(h <= headBuf) /\ h >= size
    <3>1. s = [k \in 1..headBuf+1 |-> IF k = 1 THEN h ELSE k - 2]
      BY <2>2 DEF SlotsFrom
    <3>2. headBuf + 1 \in Nat /\ \A k \in 1..headBuf+1 : (IF k = 1 THEN h ELSE k - 2) \in Nat
      BY Places
    <3>3. s \in [1..headBuf+1 -> Nat]
      BY <3>1, <3>2
    <3>4. QED
      BY <3>2, <3>3
  <2>3. CASE ~(h <= headBuf) /\ ~(h >= size)
    <3>1. s = [k \in 1..size-h+headBuf |-> (h + k - 1) % size]
      BY <2>3 DEF SlotsFrom
    <3>2. size - h + headBuf \in Nat
      BY <2>3, Places
    <3>3. ASSUME NEW k \in 1..size-h+headBuf PROVE (h + k - 1) % size \in Nat
      <4>1. h + k - 1 \in 0..2*size-1 /\ size \in Nat \ {0}
        BY <2>3, <3>3, Places
      <4>2. QED
        BY <4>1, ModOnce
    <3>4. s \in [1..size-h+headBuf -> Nat]
      BY <3>1, <3>3
    <3>5. QED
      BY <3>2, <3>4
  <2>4. QED
    BY <2>1, <2>2, <2>3
<1>2. ASSUME NEW i \in Nat PROVE Record(i) \in 0..MaxMess
  <2>1. 0 \in 0..MaxMess /\ (i < size => i \in Slots(size))
    BY Places DEF Slots
  <2>2. \A j \in Slots(size) : mBuf[j] \in 0..MaxMess
    BY DEF TypeOK
  <2>3. QED
    BY <2>1, <2>2 DEF Record
<1> HIDE DEF s
<1>3. [k \in DOMAIN s |-> Record(s[k])] \in [1..n -> 0..MaxMess]
  BY <1>1, <1>2
<1>4. QED
  BY <1>1, <1>3 DEF s

LEMMA Removed ==
  ASSUME NEW S, NEW s \in Seq(S), IsInjective(s), NEW i \in DOMAIN s
  PROVE  /\ RemoveAt(s, i) \in Seq(S) /\ IsInjective(RemoveAt(s, i))
         /\ Range(RemoveAt(s, i)) \subseteq Range(s)
<1> DEFINE r == RemoveAt(s, i)
<1>1. i \in 1..Len(s) /\ Len(s) \in Nat
  OBVIOUS
<1>2. /\ SubSeq(s, 1, i-1) \in Seq(S)
      /\ Len(SubSeq(s, 1, i-1)) = i - 1
      /\ \A k \in 1..i-1 : SubSeq(s, 1, i-1)[k] = s[k]
  BY <1>1
<1>3. /\ SubSeq(s, i+1, Len(s)) \in Seq(S)
      /\ Len(SubSeq(s, i+1, Len(s))) = Len(s) - i
      /\ \A k \in 1..Len(s)-i : SubSeq(s, i+1, Len(s))[k] = s[k + i]
  BY <1>1
<1>4. /\ r \in Seq(S) /\ Len(r) = Len(s) - 1
      /\ \A k \in 1..Len(s)-1 : r[k] = IF k < i THEN s[k] ELSE s[k + 1]
  <2> DEFINE u == SubSeq(s, 1, i-1)
             v == SubSeq(s, i+1, Len(s))
  <2>1. u \in Seq(S) /\ Len(u) = i - 1 /\ v \in Seq(S) /\ Len(v) = Len(s) - i
    BY <1>2, <1>3
  <2>2. r = u \o v
    BY DEF RemoveAt
  <2>3. \A k \in 1..i-1 : u[k] = s[k]
    BY <1>2
  <2>4. \A k \in 1..Len(s)-i : v[k] = s[k + i]
    BY <1>3
  <2> HIDE DEF u, v, r
  <2>5. /\ r \in Seq(S) /\ Len(r) = Len(u) + Len(v)
        /\ \A k \in 1..Len(u) + Len(v) : r[k] = IF k <= Len(u) THEN u[k] ELSE v[k - Len(u)]
    BY <2>1, <2>2, ConcatProperties
  <2>6. PICK n \in Nat : n = Len(s) /\ i \in 1..n
    BY <1>1
  <2>7. /\ Len(r) = n - 1
        /\ \A k \in 1..n-1 : r[k] = IF k <= i - 1 THEN u[k] ELSE v[k - (i - 1)]
    <3>1. Len(u) + Len(v) = n - 1 /\ Len(u) = i - 1
      BY <2>1, <2>6
    <3>2. QED
      BY <2>5, <3>1
  <2>8. \A k \in 1..n-1 : k >= i => v[k - (i - 1)] = s[k + 1]
    <3>1. SUFFICES ASSUME NEW k \in 1..n-1, k >= i PROVE v[k - (i - 1)] = s[k + 1]
      OBVIOUS
    <3>2. k - (i - 1) \in 1..n-i /\ k - (i - 1) + i = k + 1
      BY <2>6, <3>1
    <3>3. QED
      BY <2>4, <2>6, <3>2
  <2>9. ASSUME NEW k \in 1..n-1 PROVE r[k] = IF k < i THEN s[k] ELSE s[k + 1]
    <3>1. CASE k < i
      <4>1. k \in 1..i-1 /\ k <= i - 1
        BY <2>6, <3>1
      <4>2. QED
        BY <2>3, <2>7, <3>1, <4>1
    <3>2. CASE ~(k < i)
      <4>1. k >= i /\ ~(k <= i - 1)
        BY <2>6, <3>2
      <4>2. QED
        BY <2>7, <2>8, <3>2, <4>1
    <3>3. QED
      BY <3>1, <3>2
  <2>10. QED
    BY <2>5, <2>6, <2>7, <2>9
<1> HIDE DEF r
<1>5. DOMAIN r = 1..Len(s)-1
  BY <1>1, <1>4
<1>6. IsInjective(r)
  <2>1. SUFFICES ASSUME NEW k \in 1..Len(s)-1, NEW m \in 1..Len(s)-1, r[k] = r[m]
                 PROVE  k = m
    BY <1>5 DEF IsInjective
  <2>2. \A x, y \in 1..Len(s) : s[x] = s[y] => x = y
    BY DEF IsInjective
  <2>3. (IF k < i THEN k ELSE k + 1) = (IF m < i THEN m ELSE m + 1)
    BY <1>1, <1>4, <2>1, <2>2
  <2>4. QED
    BY <1>1, <2>3
<1>7. Range(r) \subseteq Range(s)
  <2>1. \A k \in 1..Len(s)-1 : r[k] \in Range(s)
    BY <1>1, <1>4 DEF Range
  <2>2. QED
    BY <1>5, <2>1 DEF Range
<1>8. QED
  BY <1>4, <1>6, <1>7 DEF r

LEMMA Appended ==
  ASSUME NEW S, NEW s \in Seq(S), IsInjective(s), NEW e \in S, e \notin Range(s)
  PROVE  /\ Append(s, e) \in Seq(S) /\ IsInjective(Append(s, e))
         /\ Range(Append(s, e)) = Range(s) \cup {e}
<1>1. /\ Len(s) \in Nat /\ DOMAIN s = 1..Len(s) /\ DOMAIN Append(s, e) = 1..Len(s)+1
      /\ \A k \in 1..Len(s) : Append(s, e)[k] = s[k]
      /\ Append(s, e)[Len(s)+1] = e
      /\ Append(s, e) \in Seq(S)
  OBVIOUS
<1>2. \A k \in 1..Len(s) : s[k] # e
  BY <1>1 DEF Range
<1>3. \A x \in 1..Len(s)+1 : x \in 1..Len(s) \/ x = Len(s) + 1
  BY <1>1
<1>4. IsInjective(Append(s, e))
  BY <1>1, <1>2, <1>3 DEF IsInjective
<1>5. Range(Append(s, e)) = Range(s) \cup {e}
  BY <1>1, <1>3 DEF Range
<1>6. QED
  BY <1>1, <1>4, <1>5

LEMMA WritingPc == Writing \subseteq Pc /\ "sleep" \notin Writing /\ "scan" \notin Writing
                    /\ "done" \notin Writing
  BY DEF Writing, Pc

LEMMA InitBInv == Init => BInv
<1> SUFFICES ASSUME Init PROVE BInv
  OBVIOUS
<1>1. /\ DefMessBufSize \in Nat /\ MaxMessBufSize \in Nat /\ MaxMess \in Nat
      /\ 2 <= DefMessBufSize /\ DefMessBufSize <= MaxMessBufSize
      /\ MaxFails \in Nat /\ MaxStops \in Nat /\ MaxUpdates \in Nat
  BY MessBufAssumption DEF MessBufAssumption
<1>2. size \in DefMessBufSize..MaxMessBufSize /\ headBuf \in Slots(size)
  BY <1>1 DEF Init, Slots
<1>3. mBuf \in [Slots(size) -> 0..MaxMess]
  BY <1>1 DEF Init
<1>4. /\ actMess \in Seq(Archivers) /\ IsInjective(actMess) /\ Len(actMess) >= 1
      /\ Cardinality(Archivers) = Len(actMess)
  BY MessBufAssumption, AllInOrder DEF Init
<1>5. cur \in Archivers /\ iM \in 1..Cardinality(Archivers)+1
  BY <1>4 DEF Init
<1>6. messHead \in [Archivers -> -1..MaxMessBufSize-1]
  BY <1>1 DEF Init
<1>7. archived \in [Archivers -> Seq(0..MaxMess)] /\ oMess \in Seq(0..MaxMess)
  BY DEF Init
<1>8. direct \subseteq Archivers \X (1..MaxMess)
  BY DEF Init
<1>9. /\ count \in 0..MaxMess /\ newHead \in 0..MaxMessBufSize-1 /\ flushTo \in 0..MaxMess
      /\ fails \in 0..MaxFails /\ stops \in 0..MaxStops /\ updates \in 0..MaxUpdates
      /\ endrun \in BOOLEAN /\ isLast \in BOOLEAN /\ pc \in Pc /\ pc \notin Writing
  <2>1. /\ count = 0 /\ newHead = 0 /\ flushTo = 0 /\ fails = 0 /\ stops = 0 /\ updates = 0
        /\ endrun = FALSE /\ isLast = FALSE /\ pc = "sleep"
    BY DEF Init
  <2>2. /\ count \in 0..MaxMess /\ newHead \in 0..MaxMessBufSize-1 /\ flushTo \in 0..MaxMess
        /\ fails \in 0..MaxFails /\ stops \in 0..MaxStops /\ updates \in 0..MaxUpdates
    BY <1>1, <2>1
  <2>3. endrun \in BOOLEAN /\ isLast \in BOOLEAN
    BY <2>1
  <2>4. pc \in Pc /\ pc \notin Writing
    BY <2>1, WritingPc DEF Pc
  <2>5. QED
    BY <2>2, <2>3, <2>4
<1>10. QED
  BY <1>2, <1>3, <1>4, <1>5, <1>6, <1>7, <1>8, <1>9 DEF BInv, TypeOK

\* What is written by put() is of messages.
LEMMA WrittenType ==
  ASSUME TypeOK
  PROVE  /\ [archived EXCEPT ![cur] = @ \o oMess] \in [Archivers -> Seq(0..MaxMess)]
         /\ \A k \in 0..Len(oMess) :
              [archived EXCEPT ![cur] = @ \o SubSeq(oMess, 1, k)] \in [Archivers -> Seq(0..MaxMess)]
         /\ \A a \in Archivers, m \in 1..MaxMess :
              [archived EXCEPT ![a] = Append(@, m)] \in [Archivers -> Seq(0..MaxMess)]
<1>1. archived \in [Archivers -> Seq(0..MaxMess)] /\ oMess \in Seq(0..MaxMess)
  BY DEF TypeOK
<1>2. archived[cur] \o oMess \in Seq(0..MaxMess)
  BY <1>1 DEF TypeOK
<1>3. ASSUME NEW k \in 0..Len(oMess)
      PROVE  archived[cur] \o SubSeq(oMess, 1, k) \in Seq(0..MaxMess)
  <2>1. \A i \in 1..k : oMess[i] \in 0..MaxMess
    <3>1. Len(oMess) \in Nat
      BY <1>1
    <3>2. \A i \in 1..k : i \in 1..Len(oMess)
      BY <1>3, <3>1
    <3>3. QED
      BY <1>1, <3>2, ElementOfSeq
  <2>2. SubSeq(oMess, 1, k) \in Seq(0..MaxMess)
    <3>1. k \in Int /\ 1 \in Int
      BY <1>1, <1>3
    <3>2. QED
      BY <2>1, <3>1, SubSeqProperties
  <2>3. archived[cur] \in Seq(0..MaxMess)
    BY <1>1 DEF TypeOK
  <2>4. QED
    BY <2>2, <2>3
<1>4. ASSUME NEW a \in Archivers, NEW m \in 1..MaxMess
      PROVE  Append(archived[a], m) \in Seq(0..MaxMess)
  BY <1>1, <1>4
<1>5. QED
  BY <1>1, <1>2, <1>3, <1>4

LEMMA NextBInv == BInv /\ [Next]_vars => BInv'
<1> SUFFICES ASSUME BInv, [Next]_vars PROVE BInv'
  OBVIOUS
<1> USE MessBufAssumption
<1>0. TypeOK /\ (pc \in Writing => iM <= Cardinality(Archivers))
  BY DEF BInv
<1>1. /\ Cardinality(Archivers) \in Nat /\ Len(actMess) <= Cardinality(Archivers)
      /\ iM \in 1..Cardinality(Archivers)+1
  BY <1>0, InjectiveIsShort, FS_CardinalityType DEF MessBufAssumption, TypeOK
<1>2. ASSUME ArhMessTask PROVE BInv'
  <2>1. CASE Wake
    <3>1. /\ UNCHANGED <<ring, actMess, messHead, archived, direct, cur, oMess, newHead, endrun,
                         flushTo, bounds>>
          /\ pc' = "scan" /\ iM' = 1 /\ isLast' = endrun
      BY <2>1 DEF Wake
    <3>2. iM' \in 1..Cardinality(Archivers)+1
      BY <1>1, <3>1
    <3>3. QED
      BY <1>0, <3>1, <3>2, WritingPc DEF BInv, TypeOK, ring, bounds, Pc
  <2>2. CASE Skip
    <3>1. /\ UNCHANGED <<ring, actMess, archived, direct, pc, cur, oMess, newHead, endrun,
                         isLast, flushTo, bounds>>
          /\ iM' = iM + 1 /\ iM <= Len(actMess) /\ pc = "scan"
          /\ messHead' = [messHead EXCEPT ![actMess[iM]] = headBuf]
      BY <2>2 DEF Skip
    <3>2. headBuf \in -1..MaxMessBufSize-1
      BY <1>0, Places
    <3>3. messHead' \in [Archivers -> -1..MaxMessBufSize-1]
      BY <1>0, <3>1, <3>2 DEF TypeOK
    <3>4. iM' \in 1..Cardinality(Archivers)+1
      <4>1. Len(actMess) \in Nat
        BY <1>0 DEF TypeOK
      <4>2. QED
        BY <1>1, <3>1, <4>1
    <3>5. QED
      BY <1>0, <3>1, <3>3, <3>4, WritingPc DEF BInv, TypeOK, ring, bounds
  <2>3. CASE Take
    <3> DEFINE a == actMess[iM]
    <3>1. /\ UNCHANGED <<ring, actMess, archived, direct, iM, endrun, isLast, flushTo, bounds>>
          /\ iM <= Len(actMess) /\ pc' = "put" /\ newHead' = headBuf /\ cur' = a
          /\ messHead' = [messHead EXCEPT ![a] = ReadFrom(a)]
          /\ oMess' = [k \in DOMAIN SlotsFrom(ReadFrom(a)) |->
                         Record(SlotsFrom(ReadFrom(a))[k])]
      BY <2>3 DEF Take
    <3>2. a \in Archivers
      <4>1. actMess \in Seq(Archivers)
        BY <1>0 DEF TypeOK
      <4>2. iM \in 1..Len(actMess)
        BY <1>1, <3>1, <4>1
      <4>3. QED
        BY <4>1, <4>2
    <3>3. ReadFrom(a) \in 0..MaxMessBufSize-1
      BY <1>0, <3>2, ReadFromType
    <3>4. oMess' \in Seq(0..MaxMess)
      BY <1>0, <3>1, <3>3, TakenType
    <3>5. newHead' \in 0..MaxMessBufSize-1
      BY <1>0, <3>1, Places
    <3>6. messHead' \in [Archivers -> -1..MaxMessBufSize-1]
      <4>1. ReadFrom(a) \in -1..MaxMessBufSize-1
        BY <1>0, <3>3, Places
      <4>2. QED
        BY <1>0, <3>1, <4>1 DEF TypeOK
    <3>7. iM' <= Cardinality(Archivers)
      BY <1>1, <3>1
    <3>8. QED
      BY <1>0, <3>1, <3>2, <3>4, <3>5, <3>6, <3>7 DEF BInv, TypeOK, ring, bounds, Pc, Writing
  <2>4. CASE Written
    <3>1. /\ UNCHANGED <<ring, actMess, messHead, direct, iM, cur, oMess, newHead, endrun, isLast,
                         flushTo, bounds>>
          /\ archived' = [archived EXCEPT ![cur] = @ \o oMess]
          /\ pc = "put" /\ pc' = "wrote"
      BY <2>4 DEF Written
    <3>2. archived' \in [Archivers -> Seq(0..MaxMess)]
      BY <1>0, <3>1, WrittenType
    <3>3. QED
      BY <1>0, <3>1, <3>2 DEF BInv, TypeOK, ring, bounds, Pc, Writing
  <2>5. CASE Failed
    <3>1. /\ UNCHANGED <<ring, actMess, messHead, direct, iM, cur, oMess, newHead, endrun, isLast,
                         flushTo, stops, updates>>
          /\ pc = "put" /\ pc' \in {"failed", "threw"}
      BY <2>5 DEF Failed
    <3>2. archived' \in [Archivers -> Seq(0..MaxMess)]
      <4>1. \/ archived' = archived
            \/ \E k \in 0..Len(oMess) :
                 archived' = [archived EXCEPT ![cur] = @ \o SubSeq(oMess, 1, k)]
        BY <2>5 DEF Failed
      <4>2. archived \in [Archivers -> Seq(0..MaxMess)]
        BY <1>0 DEF TypeOK
      <4>3. QED
        BY <1>0, <4>1, <4>2, WrittenType
    <3>3. fails' \in 0..MaxFails
      <4>1. (fails < MaxFails /\ fails' = fails + 1) \/ fails' = fails
        BY <2>5 DEF Failed
      <4>2. QED
        BY <1>0, <4>1, Counters
    <3>4. QED
      BY <1>0, <3>1, <3>2, <3>3 DEF BInv, TypeOK, ring, Pc, Writing
  <2>6. CASE Complain
    <3>1. /\ UNCHANGED <<actMess, archived, direct, iM, cur, oMess, newHead, endrun, isLast,
                         flushTo, bounds>>
          /\ pc \in Writing /\ pc' \in Writing
      BY <2>6 DEF Complain, Writing
    <3>2. CASE ToRing
      BY <1>0, <3>1, <3>2, ToRingTypes, WritingPc DEF BInv, TypeOK, bounds
    <3>3. CASE UNCHANGED <<ring, messHead>>
      BY <1>0, <3>1, <3>3, WritingPc DEF BInv, TypeOK, bounds, ring
    <3>4. QED
      BY <2>6, <3>2, <3>3 DEF Complain
  <2>7. CASE Relock
    <3>1. /\ UNCHANGED <<ring, actMess, archived, direct, cur, oMess, newHead, endrun, isLast,
                         flushTo, bounds>>
          /\ iM' = iM + 1 /\ pc \in Writing /\ pc' = "scan"
          /\ messHead' = [messHead EXCEPT ![cur] = newHead] \/ messHead' = messHead
      BY <2>7 DEF Relock, Writing
    <3>2. messHead' \in [Archivers -> -1..MaxMessBufSize-1]
      <4>1. newHead \in -1..MaxMessBufSize-1
        BY <1>0, Places DEF TypeOK
      <4>2. QED
        BY <1>0, <3>1, <4>1 DEF TypeOK
    <3>3. iM' \in 1..Cardinality(Archivers)+1
      BY <1>0, <1>1, <3>1
    <3>4. QED
      BY <1>0, <3>1, <3>2, <3>3, WritingPc DEF BInv, TypeOK, ring, bounds, Pc
  <2>8. CASE PassEnd
    BY <1>0, <1>1, <2>8, WritingPc DEF PassEnd, BInv, TypeOK, ring, bounds, Pc
  <2>9. QED
    BY <1>2, <2>1, <2>2, <2>3, <2>4, <2>5, <2>6, <2>7, <2>8 DEF ArhMessTask
<1>3. ASSUME Destroy PROVE BInv'
  BY <1>0, <1>3 DEF Destroy, BInv, TypeOK, ring, task, bounds
<1>4. ASSUME NEW arch \in Targets, MessPut(arch) PROVE BInv'
  <2>1. /\ UNCHANGED <<actMess, archived, task, endrun, flushTo, bounds>>
        /\ ToRing
    BY <1>4 DEF MessPut
  <2>2. direct' \subseteq Archivers \X (1..MaxMess)
    <3>1. count + 1 \in 1..MaxMess
      BY <1>0, <2>1, Places DEF ToRing
    <3>2. direct' = direct \cup (Archivers \X {count + 1}) \/ direct' = direct
      BY <1>4 DEF MessPut
    <3>3. QED
      BY <1>0, <3>1, <3>2 DEF TypeOK
  <2>3. QED
    BY <1>0, <2>1, <2>2, ToRingTypes DEF BInv, TypeOK, task, bounds
<1>5. ASSUME NEW a \in Archivers, NEW m \in 1..MaxMess, DirectPut(a, m) PROVE BInv'
  <2>1. /\ UNCHANGED <<actMess, task, endrun, flushTo, stops, updates>>
        /\ direct' \subseteq direct
    BY <1>5 DEF DirectPut
  <2>2. CASE UNCHANGED <<ring, messHead, fails>> /\ archived' = [archived EXCEPT ![a] = Append(@, m)]
    <3>1. archived' \in [Archivers -> Seq(0..MaxMess)]
      BY <1>0, <2>2, WrittenType
    <3>2. QED
      BY <1>0, <2>1, <2>2, <3>1 DEF BInv, TypeOK, task, ring
  <2>3. CASE fails < MaxFails /\ fails' = fails + 1 /\ ToRing /\ UNCHANGED archived
    <3>1. fails' \in 0..MaxFails
      BY <1>0, <2>3, Counters
    <3>2. QED
      BY <1>0, <2>1, <2>3, <3>1, ToRingTypes DEF BInv, TypeOK, task
  <2>4. CASE UNCHANGED <<ring, messHead, archived, fails>>
    BY <1>0, <2>1, <2>4 DEF BInv, TypeOK, task, ring
  <2>5. QED
    BY <1>5, <2>2, <2>3, <2>4 DEF DirectPut
<1>6. ASSUME NEW l \in Lens, SetMessBufLen(l) PROVE BInv'
  <2>1. UNCHANGED <<count, actMess, archived, direct, task, endrun, flushTo, bounds>>
    BY <1>6 DEF SetMessBufLen
  <2>2. QED
    BY <1>0, <1>6, <2>1, LenTypes DEF BInv, TypeOK, task, bounds
<1>7. ASSUME NEW a \in Archivers, StartArchiver(a) PROVE BInv'
  <2>1. /\ UNCHANGED <<ring, archived, direct, task, endrun, flushTo, bounds>>
        /\ a \notin Range(actMess) /\ actMess' = Append(actMess, a)
        /\ messHead' = [messHead EXCEPT ![a] = -1]
    BY <1>7 DEF StartArchiver
  <2>2. messHead' \in [Archivers -> -1..MaxMessBufSize-1]
    BY <1>0, <2>1, Places DEF TypeOK
  <2>3. actMess' \in Seq(Archivers) /\ IsInjective(actMess')
    BY <1>0, <2>1, Appended DEF TypeOK
  <2>4. QED
    BY <1>0, <2>1, <2>2, <2>3 DEF BInv, TypeOK, task, ring, bounds
<1>8. ASSUME NEW a \in Archivers, StopArchiver(a) PROVE BInv'
  <2>1. PICK i \in DOMAIN actMess : actMess' = RemoveAt(actMess, i)
    BY <1>8 DEF StopArchiver
  <2>2. /\ UNCHANGED <<ring, archived, direct, task, endrun, flushTo, fails, updates>>
        /\ messHead' = [messHead EXCEPT ![a] = -1]
        /\ stops < MaxStops /\ stops' = stops + 1
    BY <1>8 DEF StopArchiver
  <2>3. messHead' \in [Archivers -> -1..MaxMessBufSize-1]
    BY <1>0, <2>2, Places DEF TypeOK
  <2>4. actMess' \in Seq(Archivers) /\ IsInjective(actMess')
    BY <1>0, <2>1, Removed DEF TypeOK
  <2>5. stops' \in 0..MaxStops
    BY <1>0, <2>2, Counters
  <2>6. QED
    BY <1>0, <2>2, <2>3, <2>4, <2>5 DEF BInv, TypeOK, task, ring
<1>9. ASSUME NEW a \in Archivers, UpdateArchiver(a) PROVE BInv'
  <2>1. /\ UNCHANGED <<ring, actMess, archived, direct, task, endrun, flushTo, fails, stops>>
        /\ messHead' = [messHead EXCEPT ![a] = -1]
        /\ updates < MaxUpdates /\ updates' = updates + 1
    BY <1>9 DEF UpdateArchiver
  <2>2. messHead' \in [Archivers -> -1..MaxMessBufSize-1]
    BY <1>0, <2>1, Places DEF TypeOK
  <2>3. updates' \in 0..MaxUpdates
    BY <1>0, <2>1, Counters
  <2>4. QED
    BY <1>0, <2>1, <2>2, <2>3 DEF BInv, TypeOK, task, ring
<1>10. CASE UNCHANGED vars
  BY <1>0, <1>10 DEF vars, BInv, TypeOK, task, ring, bounds
<1>11. QED
  BY <1>2, <1>3, <1>4, <1>5, <1>6, <1>7, <1>8, <1>9, <1>10 DEF Next, Ended

THEOREM Invariance == Spec => []BInv
  BY InitBInv, NextBInv, PTL DEF Spec

\* Whatever the threads, the task and the archivers do and however the ring is
\* resized: the ring's head is a slot of it, the reading heads and the head
\* the task comes back with are places of the longest ring, an archiver is
\* active once, and the task's index stays within the archivers (ArhMessTask()
\* reads actMess[iM] only below its length).
THEOREM Types == Spec => []TypeOK
<1>1. BInv => TypeOK
  BY DEF BInv
<1>2. QED
  BY Invariance, <1>1, PTL

-----------------------------------------------------------------------------
(* The ring keeps the newest messages                                      *)

\* The slot k places back from the ring's last written one.
Back(k, h, n) == IF h - 1 - k >= 0 THEN h - 1 - k ELSE h - 1 - k + n

\* BufferKeepsNewest without the remainder.
NewestInPlace ==
  \A k \in 0..DefMessBufSize-1 : k < count => mBuf[Back(k, headBuf, size)] = count - k

LEMMA PlaceIsBack ==
  ASSUME MessBufAssumption, TypeOK, NEW k \in 0..DefMessBufSize-1
  PROVE  (headBuf + size - 1 - k) % size = Back(k, headBuf, size)
<1>1. headBuf + size - 1 - k \in 0..2*size-1 /\ size \in Nat \ {0}
  BY Places
<1>2. PICK x \in Nat : x = headBuf + size - 1 - k
  BY <1>1
<1>3. x % size = IF x < size THEN x ELSE x - size
  BY <1>1, <1>2, ModOnce
<1>4. (x < size <=> headBuf - 1 - k < 0) /\ x - size = headBuf - 1 - k /\ x = headBuf - 1 - k + size
  BY <1>2, Places
<1>5. QED
  BY <1>2, <1>3, <1>4, Places DEF Back

LEMMA NewestInPlaceIsMeant ==
  ASSUME MessBufAssumption, TypeOK, NewestInPlace
  PROVE  BufferKeepsNewest
<1>1. SUFFICES ASSUME NEW m \in 1..count, m > count - DefMessBufSize
               PROVE  mBuf[(headBuf + size - 1 - (count - m)) % size] = m
  BY DEF BufferKeepsNewest
<1>2. PICK k \in 0..DefMessBufSize-1 : k = count - m /\ k < count /\ m = count - k
  BY <1>1, Places
<1>3. mBuf[Back(k, headBuf, size)] = count - k
  BY <1>2 DEF NewestInPlace
<1>4. QED
  BY <1>2, <1>3, PlaceIsBack

LEMMA ToRingNewest ==
  ASSUME MessBufAssumption, TypeOK, NewestInPlace, ToRing
  PROVE  NewestInPlace'
<1> DEFINE h == After(headBuf, size)
<1>1. /\ size' = size /\ headBuf' = h /\ count' = count + 1
      /\ mBuf' = [mBuf EXCEPT ![headBuf] = count + 1]
  BY DEF ToRing
<1>2. headBuf \in Slots(size) /\ mBuf \in [Slots(size) -> 0..MaxMess]
  BY DEF TypeOK
<1> HIDE DEF h
<1>3. SUFFICES ASSUME NEW k \in 0..DefMessBufSize-1, k < count'
               PROVE  mBuf'[Back(k, headBuf', size')] = count' - k
  BY DEF NewestInPlace
<1>4. CASE k = 0
  <2>1. Back(k, h, size) = headBuf
    BY <1>4, Places DEF Back, After, h
  <2>2. mBuf'[headBuf] = count + 1
    BY <1>1, <1>2
  <2>3. QED
    BY <1>1, <1>4, <2>1, <2>2, Places
<1>5. CASE k # 0
  <2>1. k - 1 \in 0..DefMessBufSize-1 /\ k - 1 < count
    BY <1>1, <1>3, <1>5, Places
  <2>2. /\ Back(k, h, size) = Back(k - 1, headBuf, size)
        /\ Back(k, h, size) \in Slots(size) /\ Back(k, h, size) # headBuf
    BY <1>3, <1>5, Places DEF Back, After, Slots, h
  <2>3. mBuf'[Back(k, h, size)] = mBuf[Back(k - 1, headBuf, size)]
    BY <1>1, <1>2, <2>2
  <2>4. mBuf[Back(k - 1, headBuf, size)] = count - (k - 1)
    BY <2>1 DEF NewestInPlace
  <2>5. QED
    BY <1>1, <2>3, <2>4, Places
<1>6. QED
  BY <1>4, <1>5

LEMMA LenNewest ==
  ASSUME MessBufAssumption, TypeOK, NewestInPlace, NEW l \in Lens, SetMessBufLen(l)
  PROVE  NewestInPlace'
<1> DEFINE len == NewLen(l)
           more == len - size
           behind == size - headBuf
           wraps == more < 0 /\ -more >= behind
<1>1. len \in Nat /\ DefMessBufSize <= len
  BY LenBounds, Places
<1>2. /\ size' = len /\ count' = count
      /\ headBuf' = IF wraps THEN 0 ELSE headBuf
      /\ mBuf' = [i \in Slots(len) |->
           IF wraps THEN mBuf[i - more - behind]
           ELSE IF i < headBuf THEN mBuf[i]
           ELSE IF i < headBuf + more THEN 0
           ELSE mBuf[i - more]]
  BY DEF SetMessBufLen, NewLen
<1>3. SUFFICES ASSUME NEW k \in 0..DefMessBufSize-1
               PROVE  mBuf'[Back(k, headBuf', len)] = mBuf[Back(k, headBuf, size)]
  BY <1>2 DEF NewestInPlace
<1>4. CASE wraps
  <2>1. /\ Back(k, 0, len) = len - 1 - k /\ len - 1 - k \in Slots(len)
        /\ Back(k, headBuf, size) = headBuf - 1 - k
        /\ len - 1 - k - more - behind = headBuf - 1 - k
    BY <1>1, <1>4, Places DEF Back, Slots
  <2>2. mBuf'[len - 1 - k] = mBuf[len - 1 - k - more - behind]
    BY <1>2, <1>4, <2>1
  <2>3. QED
    BY <1>2, <1>4, <2>1, <2>2
<1>5. CASE ~wraps /\ k < headBuf
  <2>1. /\ Back(k, headBuf, len) = headBuf - 1 - k /\ headBuf - 1 - k \in Slots(len)
        /\ Back(k, headBuf, size) = headBuf - 1 - k /\ headBuf - 1 - k < headBuf
    BY <1>1, <1>5, Places DEF Back, Slots
  <2>2. mBuf'[headBuf - 1 - k] = mBuf[headBuf - 1 - k]
    BY <1>2, <1>5, <2>1
  <2>3. QED
    BY <1>2, <1>5, <2>1, <2>2
<1>6. CASE ~wraps /\ ~(k < headBuf)
  <2> DEFINE i == headBuf - 1 - k + len
  <2>1. /\ Back(k, headBuf, len) = i /\ i \in Slots(len)
        /\ Back(k, headBuf, size) = i - more
        /\ ~(i < headBuf) /\ ~(i < headBuf + more)
    BY <1>1, <1>6, Places DEF Back, Slots
  <2> HIDE DEF i
  <2>2. mBuf'[i] = mBuf[i - more]
    BY <1>2, <1>6, <2>1
  <2>3. QED
    BY <1>2, <1>6, <2>1, <2>2
<1>7. QED
  BY <1>4, <1>5, <1>6

LEMMA NextNewest == BInv /\ NewestInPlace /\ [Next]_vars => NewestInPlace'
<1> SUFFICES ASSUME BInv, NewestInPlace, [Next]_vars PROVE NewestInPlace'
  OBVIOUS
<1> USE MessBufAssumption
<1>1. TypeOK
  BY DEF BInv
<1>2. ASSUME UNCHANGED ring PROVE NewestInPlace'
  BY <1>2 DEF ring, NewestInPlace
<1>3. CASE ArhMessTask
  BY <1>1, <1>2, <1>3, ToRingNewest
    DEF ArhMessTask, Wake, Skip, Take, Written, Failed, Complain, Relock, PassEnd, ring
<1>4. CASE Destroy \/ \E a \in Archivers : StartArchiver(a) \/ StopArchiver(a) \/ UpdateArchiver(a)
  BY <1>2, <1>4 DEF Destroy, StartArchiver, StopArchiver, UpdateArchiver
<1>5. ASSUME NEW arch \in Targets, MessPut(arch) PROVE NewestInPlace'
  BY <1>1, <1>5, ToRingNewest DEF MessPut
<1>6. ASSUME NEW a \in Archivers, NEW m \in 1..MaxMess, DirectPut(a, m) PROVE NewestInPlace'
  BY <1>1, <1>2, <1>6, ToRingNewest DEF DirectPut, ring
<1>7. ASSUME NEW l \in Lens, SetMessBufLen(l) PROVE NewestInPlace'
  BY <1>1, <1>7, LenNewest
<1>8. CASE UNCHANGED vars
  BY <1>2, <1>8 DEF vars
<1>9. QED
  BY <1>3, <1>4, <1>5, <1>6, <1>7, <1>8 DEF Next, Ended

\* However long the ring is made and made again while messages come, and
\* wherever its head stands then: messGet(), that goes back from the head,
\* finds the newest DefMessBufSize messages, each at its place.  messPut()
\* closes the ring after its last slot, setMessBufLen() opens a gap at the head
\* or takes the oldest out from there.
THEOREM NewestKept == Spec => []BufferKeepsNewest
<1>1. Init => NewestInPlace
  BY DEF Init, NewestInPlace
<1>2. BInv /\ NewestInPlace => BufferKeepsNewest
  BY MessBufAssumption, NewestInPlaceIsMeant DEF BInv
<1>3. QED
  BY Invariance, NextNewest, <1>1, <1>2, PTL DEF Spec

-----------------------------------------------------------------------------
(* A ring of one length: what a reader is still owed                       *)

\* No length is set while the subsystem runs, and no more messages come while
\* an archiver writes than the ring takes without overrunning the task.
FixedRing == Lens = {} /\ MaxBurst < DefMessBufSize

\* The slots from h up to the ring's head.
Ahead(h, head, n) == IF h <= head THEN head - h ELSE n - h + head

\* Message m has not been overwritten, nor is it in the slot that is next.
InRing(m) == m > count - size + 1

\* The ring is the newest messages, back from the head; before it is full the
\* head is at the message that comes.
RingAt ==
  /\ \A k \in 0..size-1 : mBuf[Back(k, headBuf, size)] = IF k < count THEN count - k ELSE 0
  /\ count < size => headBuf = count

\* The reading head of a leaves no more unread than messages came, and those
\* before it are written.
ReadWell(a) ==
  messHead[a] >= 0 =>
    /\ messHead[a] < size /\ Ahead(messHead[a], headBuf, size) <= count
    /\ \A m \in 1..count :
         InRing(m) /\ m <= count - Ahead(messHead[a], headBuf, size) => m \in Range(archived[a])

ReadIsWritten == \A a \in Range(actMess) : ReadWell(a)

\* What the task holds while an archiver writes: messages one after another,
\* of which those before are written, and the head behind the last of them.
AtPut ==
  pc \in Writing =>
    /\ Len(oMess) >= 1 /\ oMess[1] >= 1
    /\ \A k \in 1..Len(oMess) : oMess[k] = oMess[1] + k - 1
    /\ Last(oMess) <= count /\ count - Last(oMess) <= MaxBurst
    /\ newHead < size /\ Ahead(newHead, headBuf, size) = count - Last(oMess)
    /\ \A m \in 1..count : InRing(m) /\ m < oMess[1] => m \in Range(archived[cur])
    /\ pc = "wrote" => Range(oMess) \subseteq Range(archived[cur])

RInv == RingAt /\ ReadIsWritten /\ AtPut


\* How the numbers of places change when the head goes on by one.
LEMMA HeadGoesOn ==
  ASSUME NEW n \in Nat, n >= 2, NEW h \in 0..n-1
  PROVE  LET next == After(h, n)
         IN  /\ next \in 0..n-1 /\ After(next, n) \in 0..n-1
             /\ Ahead(next, h, n) = n - 1 /\ Ahead(After(next, n), next, n) = n - 1
             /\ \A x \in 0..n-1 : x # next => Ahead(x, next, n) = Ahead(x, h, n) + 1
  BY DEF After, Ahead

LEMMA BackGoesOn ==
  ASSUME NEW n \in Nat, n >= 2, NEW h \in 0..n-1
  PROVE  LET next == After(h, n)
         IN  /\ Back(0, next, n) = h
             /\ \A k \in 1..n-1 : Back(k, next, n) = Back(k - 1, h, n) /\ Back(k, next, n) # h
             /\ \A k \in 0..n-1 : Back(k, h, n) \in 0..n-1
  BY DEF After, Back

\* The slots of a reading, counted back from the head.
LEMMA SlotsRead ==
  ASSUME NEW h \in Nat, MessBufAssumption, TypeOK, h < size, h # headBuf
  PROVE  LET u == Ahead(h, headBuf, size)
         IN  /\ u \in 1..size-1
             /\ DOMAIN SlotsFrom(h) = 1..u
             /\ \A k \in 1..u : SlotsFrom(h)[k] = Back(u - k, headBuf, size)
<1> DEFINE u == Ahead(h, headBuf, size)
<1>1. CASE h <= headBuf
  <2>1. u = headBuf - h /\ u \in 1..size-1
    BY <1>1, Places DEF Ahead
  <2>2. SlotsFrom(h) = [k \in 1..headBuf-h |-> h + k - 1]
    BY <1>1 DEF SlotsFrom
  <2>3. \A k \in 1..headBuf-h : h + k - 1 = Back(headBuf - h - k, headBuf, size)
    BY <1>1, Places DEF Back
  <2> HIDE DEF u
  <2>4. QED
    BY <2>1, <2>2, <2>3 DEF u
<1>2. CASE ~(h <= headBuf)
  <2>1. u = size - h + headBuf /\ u \in 1..size-1
    BY <1>2, Places DEF Ahead
  <2>2. SlotsFrom(h) = [k \in 1..size-h+headBuf |-> (h + k - 1) % size]
    BY <1>2, Places DEF SlotsFrom
  <2> HIDE DEF u
  <2>3. SlotsFrom(h) = [k \in 1..u |-> (h + k - 1) % size]
    BY <2>1, <2>2
  <2>4. ASSUME NEW k \in 1..u PROVE (h + k - 1) % size = Back(u - k, headBuf, size)
    <3>1. PICK x \in Nat : x = h + k - 1 /\ x \in 0..2*size-1 /\ size \in Nat \ {0}
      BY <1>2, <2>1, Places
    <3>2. x % size = IF x < size THEN x ELSE x - size
      BY <3>1, ModOnce
    <3>3. Back(u - k, headBuf, size) = IF x < size THEN x ELSE x - size
      BY <1>2, <2>1, <3>1, Places DEF Back
    <3>4. QED
      BY <3>1, <3>2, <3>3
  <2>5. DOMAIN SlotsFrom(h) = 1..u /\ \A k \in 1..u : SlotsFrom(h)[k] = Back(u - k, headBuf, size)
    BY <2>3, <2>4
  <2>6. QED
    BY <2>1, <2>5 DEF u
<1>3. QED
  BY <1>1, <1>2

\* Where a reading begins, messages are unread that came, and those before are
\* written or lost to the ring.
LEMMA WhereItReads ==
  ASSUME MessBufAssumption, TypeOK, RingAt, ReadIsWritten, NEW a \in Range(actMess)
  PROVE  /\ ReadFrom(a) \in Nat /\ ReadFrom(a) < size
         /\ Ahead(ReadFrom(a), headBuf, size) <= count
         /\ \A m \in 1..count :
              InRing(m) /\ m <= count - Ahead(ReadFrom(a), headBuf, size) => m \in Range(archived[a])
<1>1. messHead[a] \in -1..MaxMessBufSize-1
  BY Active DEF TypeOK
<1>2. CASE messHead[a] >= 0
  <2>1. ReadFrom(a) = messHead[a] /\ messHead[a] \in Nat
    BY <1>1, <1>2, Places DEF ReadFrom
  <2>2. QED
    BY <1>2, <2>1 DEF ReadIsWritten, ReadWell
<1>3. CASE ~(messHead[a] >= 0)
  <2>1. ReadFrom(a) = IF headBuf + 1 >= size THEN 0
                      ELSE IF mBuf[headBuf + 1] = 0 THEN 0 ELSE headBuf + 1
    BY <1>3 DEF ReadFrom
  <2>2. CASE headBuf + 1 >= size
    <3>1. headBuf = size - 1 /\ Ahead(0, headBuf, size) = size - 1
      BY <2>2, Places DEF Ahead
    <3>2. count >= size - 1
      BY <3>1, Places DEF RingAt
    <3>3. ReadFrom(a) = 0
      BY <2>1, <2>2
    <3>4. QED
      BY <3>1, <3>2, <3>3, Places DEF InRing
  <2>3. CASE ~(headBuf + 1 >= size)
    <3>1. Back(size - 2, headBuf, size) = headBuf + 1 /\ size - 2 \in 0..size-1
      BY <2>3, Places DEF Back
    <3>2. mBuf[headBuf + 1] = IF size - 2 < count THEN count - (size - 2) ELSE 0
      BY <3>1 DEF RingAt
    <3>3. CASE size - 2 < count
      <4>1. mBuf[headBuf + 1] # 0
        BY <3>2, <3>3, Places
      <4>2. ReadFrom(a) = headBuf + 1
        BY <2>1, <2>3, <4>1
      <4>3. Ahead(headBuf + 1, headBuf, size) = size - 1
        BY <2>3, Places DEF Ahead
      <4>4. QED
        BY <2>3, <3>3, <4>2, <4>3, Places DEF InRing
    <3>4. CASE ~(size - 2 < count)
      <4>1. ReadFrom(a) = 0 /\ headBuf = count
        BY <2>1, <2>3, <3>2, <3>4, Places DEF RingAt
      <4>2. Ahead(0, headBuf, size) = count
        BY <4>1, Places DEF Ahead
      <4>3. QED
        BY <4>1, <4>2, Places DEF InRing
    <3>5. QED
      BY <3>3, <3>4
  <2>4. QED
    BY <2>2, <2>3
<1>4. QED
  BY <1>2, <1>3

\* How a reading head moves when a message comes into the ring.
LEMMA HeadAfter ==
  ASSUME MessBufAssumption, TypeOK, ToRing, NEW a \in Range(actMess),
         messHead[a] >= 0, messHead[a] < size
  PROVE  /\ messHead'[a] \in Nat /\ messHead'[a] < size
         /\ \/ Ahead(messHead'[a], headBuf', size') = Ahead(messHead[a], headBuf, size) + 1
            \/ /\ Ahead(messHead'[a], headBuf', size') = size - 1
               /\ Ahead(messHead[a], headBuf, size) = size - 1
<1> DEFINE next == After(headBuf, size)
<1>0. size \in Nat /\ size >= 2 /\ headBuf \in 0..size-1
  BY RingFacts
<1>1. a \in Archivers /\ messHead[a] \in Nat /\ messHead[a] \in 0..size-1
  <2>1. a \in Archivers /\ messHead[a] \in -1..MaxMessBufSize-1
    BY Active DEF TypeOK
  <2>2. QED
    BY <1>0, <2>1, Places
<1>2. /\ size' = size /\ headBuf' = next
      /\ messHead'[a] = IF messHead[a] = next THEN After(next, size) ELSE messHead[a]
  BY <1>1 DEF ToRing
<1>3. /\ After(next, size) \in 0..size-1
      /\ Ahead(next, headBuf, size) = size - 1 /\ Ahead(After(next, size), next, size) = size - 1
      /\ \A x \in 0..size-1 : x # next => Ahead(x, next, size) = Ahead(x, headBuf, size) + 1
  BY <1>0, HeadGoesOn
<1> HIDE DEF next
<1>4. QED
  BY <1>1, <1>2, <1>3, Places

LEMMA ToRingAt ==
  ASSUME MessBufAssumption, TypeOK, RingAt, ToRing
  PROVE  RingAt'
<1> DEFINE next == After(headBuf, size)
<1>1. /\ size' = size /\ headBuf' = next /\ count' = count + 1
      /\ mBuf' = [mBuf EXCEPT ![headBuf] = count + 1]
  BY DEF ToRing
<1>2. headBuf \in Slots(size) /\ mBuf \in [Slots(size) -> 0..MaxMess]
  BY DEF TypeOK
<1>3. /\ Back(0, next, size) = headBuf
      /\ \A k \in 1..size-1 : Back(k, next, size) = Back(k - 1, headBuf, size)
                              /\ Back(k, next, size) # headBuf
      /\ \A k \in 0..size-1 : Back(k, headBuf, size) \in Slots(size)
  <2>1. size \in Nat /\ size >= 2 /\ headBuf \in 0..size-1 /\ Slots(size) = 0..size-1
    BY RingFacts
  <2>2. QED
    BY <2>1, BackGoesOn
<1>4. count + 1 < size => next = count + 1
  BY Places DEF RingAt, After
<1> HIDE DEF next
<1>5. ASSUME NEW k \in 0..size-1
      PROVE  mBuf'[Back(k, next, size)] = IF k < count + 1 THEN count + 1 - k ELSE 0
  <2>1. CASE k = 0
    <3>1. mBuf'[headBuf] = count + 1
      BY <1>1, <1>2
    <3>2. QED
      BY <1>3, <2>1, <3>1, Places
  <2>2. CASE k # 0
    <3>1. k \in 1..size-1 /\ k - 1 \in 0..size-1
      BY <2>2, Places
    <3>2. mBuf'[Back(k, next, size)] = mBuf[Back(k - 1, headBuf, size)]
      BY <1>1, <1>2, <1>3, <3>1
    <3>3. mBuf[Back(k - 1, headBuf, size)] = IF k - 1 < count THEN count - (k - 1) ELSE 0
      BY <3>1 DEF RingAt
    <3>4. QED
      BY <3>1, <3>2, <3>3, Places
  <2>3. QED
    BY <2>1, <2>2
<1>6. \A k \in 0..size'-1 : mBuf'[Back(k, headBuf', size')] = IF k < count' THEN count' - k ELSE 0
  <2>1. SUFFICES ASSUME NEW k \in 0..size'-1
                 PROVE  mBuf'[Back(k, headBuf', size')] = IF k < count' THEN count' - k ELSE 0
    OBVIOUS
  <2>2. k \in 0..size-1 /\ Back(k, headBuf', size') = Back(k, next, size)
    BY <1>1, <2>1
  <2>3. mBuf'[Back(k, next, size)] = IF k < count + 1 THEN count + 1 - k ELSE 0
    BY <1>5, <2>2
  <2>4. count \in Int /\ k \in Int
    BY <2>2, Places
  <2>5. QED
    BY <1>1, <2>2, <2>3, <2>4
<1>7. count' < size' => headBuf' = count'
  BY <1>1, <1>4
<1>8. QED
  BY <1>6, <1>7 DEF RingAt

LEMMA ToRingKeeps ==
  ASSUME MessBufAssumption, FixedRing, TypeOK, RInv, ToRing,
         UNCHANGED <<actMess, archived, cur, oMess, newHead>>,
         pc' \in Writing => pc \in Writing, pc' = "wrote" => pc = "wrote"
  PROVE  RInv'
<1>1. size' = size /\ count' = count + 1
  BY DEF ToRing
<1>2. RingAt'
  BY ToRingAt DEF RInv
<1>3. ASSUME NEW a \in Range(actMess) PROVE ReadWell(a)'
  <2>1. SUFFICES ASSUME messHead'[a] >= 0
                 PROVE  /\ messHead'[a] < size /\ Ahead(messHead'[a], headBuf', size') <= count'
                        /\ \A m \in 1..count' :
                             InRing(m)' /\ m <= count' - Ahead(messHead'[a], headBuf', size')
                               => m \in Range(archived[a])
    BY <1>1 DEF ReadWell
  <2>2. a \in Archivers /\ messHead[a] \in -1..MaxMessBufSize-1
    BY Active DEF TypeOK
  <2>3. messHead[a] >= 0
    <3>1. After(headBuf, size) \in Nat
      BY Places DEF After
    <3>2. messHead[a] # After(headBuf, size) => messHead'[a] = messHead[a]
      BY <2>2 DEF ToRing
    <3>3. QED
      BY <2>1, <2>2, <3>1, <3>2
  <2>4. ReadWell(a)
    BY DEF RInv, ReadIsWritten
  <2>5. /\ messHead[a] < size /\ Ahead(messHead[a], headBuf, size) <= count
        /\ \A m \in 1..count :
             InRing(m) /\ m <= count - Ahead(messHead[a], headBuf, size) => m \in Range(archived[a])
    BY <2>3, <2>4 DEF ReadWell
  <2>6. Ahead(messHead[a], headBuf, size) \in Nat
    BY <2>2, <2>3, <2>5, Places DEF Ahead
  <2>7. /\ messHead'[a] \in Nat /\ messHead'[a] < size
        /\ \/ Ahead(messHead'[a], headBuf', size') = Ahead(messHead[a], headBuf, size) + 1
           \/ /\ Ahead(messHead'[a], headBuf', size') = size - 1
              /\ Ahead(messHead[a], headBuf, size) = size - 1
    BY <2>3, <2>5, HeadAfter
  <2>8. CASE Ahead(messHead'[a], headBuf', size') = Ahead(messHead[a], headBuf, size) + 1
    <3>1. ASSUME NEW m \in 1..count', InRing(m)',
                 m <= count' - Ahead(messHead'[a], headBuf', size')
          PROVE  m \in Range(archived[a])
      <4>1. m \in 1..count /\ m <= count - Ahead(messHead[a], headBuf, size) /\ InRing(m)
        BY <1>1, <2>6, <2>8, <3>1, Places DEF InRing
      <4>2. QED
        BY <2>5, <4>1
    <3>2. QED
      BY <1>1, <2>5, <2>6, <2>7, <2>8, <3>1, Places
  <2>9. CASE /\ Ahead(messHead'[a], headBuf', size') = size - 1
             /\ Ahead(messHead[a], headBuf, size) = size - 1
    BY <1>1, <2>5, <2>7, <2>9, Places DEF InRing
  <2>10. QED
    BY <2>7, <2>8, <2>9
<1>4. AtPut'
  <2>1. SUFFICES ASSUME pc' \in Writing
                 PROVE  /\ Len(oMess) >= 1 /\ oMess[1] >= 1
                        /\ \A k \in 1..Len(oMess) : oMess[k] = oMess[1] + k - 1
                        /\ Last(oMess) <= count' /\ count' - Last(oMess) <= MaxBurst
                        /\ newHead < size' /\ Ahead(newHead, headBuf', size') = count' - Last(oMess)
                        /\ \A m \in 1..count' : InRing(m)' /\ m < oMess[1] => m \in Range(archived[cur])
                        /\ pc' = "wrote" => Range(oMess) \subseteq Range(archived[cur])
    BY DEF AtPut, Last
  <2>2. /\ Len(oMess) >= 1 /\ oMess[1] >= 1
        /\ \A k \in 1..Len(oMess) : oMess[k] = oMess[1] + k - 1
        /\ Last(oMess) <= count /\ count - Last(oMess) <= MaxBurst
        /\ newHead < size /\ Ahead(newHead, headBuf, size) = count - Last(oMess)
        /\ \A m \in 1..count : InRing(m) /\ m < oMess[1] => m \in Range(archived[cur])
        /\ pc = "wrote" => Range(oMess) \subseteq Range(archived[cur])
    BY <2>1 DEF RInv, AtPut
  <2>3. /\ oMess[1] \in Int /\ Last(oMess) \in Int /\ newHead \in 0..size-1
        /\ MaxBurst \in Nat /\ MaxBurst < size /\ oMess[1] <= Last(oMess)
    <3>1. oMess \in Seq(0..MaxMess) /\ Len(oMess) \in Nat
      BY DEF TypeOK
    <3>2. oMess[1] \in Int /\ Last(oMess) \in Int /\ Last(oMess) = oMess[1] + Len(oMess) - 1
      <4>1. 1 \in 1..Len(oMess) /\ Len(oMess) \in 1..Len(oMess)
        BY <2>2, <3>1
      <4>2. oMess[1] \in 0..MaxMess /\ oMess[Len(oMess)] \in 0..MaxMess
        BY <3>1, <4>1, ElementOfSeq
      <4>3. oMess[Len(oMess)] = oMess[1] + Len(oMess) - 1
        BY <2>2, <4>1
      <4>4. QED
        BY <4>2, <4>3 DEF Last
    <3>3. MaxBurst \in Nat /\ MaxBurst < size
      BY Places DEF FixedRing, MessBufAssumption
    <3>4. newHead \in 0..size-1
      BY <2>2, Places DEF TypeOK
    <3>5. QED
      BY <2>2, <3>1, <3>2, <3>3, <3>4
  <2>4. count - Last(oMess) < MaxBurst
    BY <2>1 DEF ToRing
  <2>5. Ahead(newHead, headBuf', size') = count' - Last(oMess)
    <3>1. Ahead(newHead, headBuf, size) < size - 1
      BY <2>2, <2>3, <2>4, Places
    <3>2. /\ Ahead(After(headBuf, size), headBuf, size) = size - 1
          /\ \A x \in 0..size-1 : x # After(headBuf, size) =>
               Ahead(x, After(headBuf, size), size) = Ahead(x, headBuf, size) + 1
      <4>1. size \in Nat /\ size >= 2 /\ headBuf \in 0..size-1
        BY RingFacts
      <4>2. QED
        BY <4>1, HeadGoesOn
    <3>3. newHead # After(headBuf, size)
      BY <3>1, <3>2, Places
    <3>4. headBuf' = After(headBuf, size)
      BY DEF ToRing
    <3>5. Ahead(newHead, headBuf', size') = Ahead(newHead, headBuf, size) + 1
      BY <1>1, <2>3, <3>2, <3>3, <3>4
    <3>6. QED
      BY <1>1, <2>2, <2>3, <3>5, Places
  <2>6. ASSUME NEW m \in 1..count', InRing(m)', m < oMess[1]
        PROVE  m \in Range(archived[cur])
    <3>1. Last(oMess) <= count /\ count \in Nat /\ size \in Nat
      BY <2>2, Places
    <3>2. m \in 1..count
      BY <1>1, <2>3, <2>6, <3>1
    <3>3. InRing(m)
      BY <1>1, <2>6, <3>1, <3>2 DEF InRing
    <3>4. QED
      BY <2>2, <2>6, <3>2, <3>3
  <2>7. Last(oMess) <= count' /\ count' - Last(oMess) <= MaxBurst
    <3>1. Last(oMess) <= count /\ count \in Nat
      BY <2>2, Places
    <3>2. QED
      BY <1>1, <2>3, <2>4, <3>1
  <2>8. QED
    BY <1>1, <2>2, <2>5, <2>6, <2>7
<1>5. QED
  BY <1>2, <1>3, <1>4 DEF RInv, ReadIsWritten

\* What put() appends to an archive.
LEMMA PutRange ==
  ASSUME TypeOK, NEW s \in Seq(0..MaxMess), archived' = [archived EXCEPT ![cur] = @ \o s]
  PROVE  /\ archived'[cur] = archived[cur] \o s
         /\ Range(archived'[cur]) = Range(archived[cur]) \cup Range(s)
         /\ \A a \in Archivers : a # cur => archived'[a] = archived[a]
<1>1. archived \in [Archivers -> Seq(0..MaxMess)] /\ cur \in Archivers
  BY DEF TypeOK
<1>2. archived'[cur] = archived[cur] \o s /\ archived[cur] \in Seq(0..MaxMess)
  BY <1>1
<1>3. Range(archived[cur] \o s) = Range(archived[cur]) \cup Range(s)
  BY <1>2, RangeConcatenation
<1>4. QED
  BY <1>1, <1>2, <1>3

\* The part of the messages a failing put() wrote.
LEMMA PutPart ==
  ASSUME TypeOK, NEW k \in 0..Len(oMess)
  PROVE  /\ SubSeq(oMess, 1, k) \in Seq(0..MaxMess) /\ Len(SubSeq(oMess, 1, k)) = k
         /\ \A i \in 1..k : SubSeq(oMess, 1, k)[i] = oMess[i]
<1>1. oMess \in Seq(0..MaxMess) /\ Len(oMess) \in Nat
  BY DEF TypeOK
<1>2. \A i \in 1..k : i \in 1..Len(oMess)
  BY <1>1
<1>3. \A i \in 1..k : oMess[i] \in 0..MaxMess
  BY <1>1, <1>2, ElementOfSeq
<1>4. k \in Int /\ 1 \in Int /\ k >= 0
  BY <1>1
<1>5. /\ SubSeq(oMess, 1, k) \in Seq(0..MaxMess)
      /\ Len(SubSeq(oMess, 1, k)) = IF 1 <= k THEN k - 1 + 1 ELSE 0
      /\ \A i \in 1..k - 1 + 1 : SubSeq(oMess, 1, k)[i] = oMess[1 + i - 1]
  BY <1>3, <1>4, SubSeqProperties
<1>6. Len(SubSeq(oMess, 1, k)) = k
  BY <1>4, <1>5
<1>7. ASSUME NEW i \in 1..k PROVE SubSeq(oMess, 1, k)[i] = oMess[i]
  <2>1. i \in 1..k - 1 + 1 /\ 1 + i - 1 = i
    BY <1>4
  <2>2. QED
    BY <1>5, <2>1
<1>8. QED
  BY <1>5, <1>6, <1>7

LEMMA FailedPart ==
  ASSUME Failed
  PROVE  \/ archived' = archived
         \/ \E k \in 0..Len(oMess) : archived' = [archived EXCEPT ![cur] = @ \o SubSeq(oMess, 1, k)]
  BY DEF Failed

\* What is written to an archive stays there.
LEMMA ArchiveGrows ==
  ASSUME TypeOK, [Next]_vars
  PROVE  \A a \in Archivers : Range(archived[a]) \subseteq Range(archived'[a])
<1>1. CASE UNCHANGED archived
  BY <1>1
<1>2. ASSUME NEW s \in Seq(0..MaxMess), archived' = [archived EXCEPT ![cur] = @ \o s]
      PROVE  \A a \in Archivers : Range(archived[a]) \subseteq Range(archived'[a])
  BY <1>2, PutRange
<1>3. CASE Written
  <2>1. oMess \in Seq(0..MaxMess)
    BY DEF TypeOK
  <2>2. QED
    BY <1>2, <1>3, <2>1 DEF Written
<1>4. CASE Failed
  BY <1>1, <1>2, <1>4, FailedPart, PutPart
<1>5. ASSUME NEW b \in Archivers, NEW m \in 1..MaxMess,
             archived' = [archived EXCEPT ![b] = Append(@, m)]
      PROVE  \A a \in Archivers : Range(archived[a]) \subseteq Range(archived'[a])
  <2>1. archived \in [Archivers -> Seq(0..MaxMess)] /\ m \in 0..MaxMess
    BY DEF TypeOK
  <2>2. archived'[b] = archived[b] \o <<m>> /\ archived[b] \in Seq(0..MaxMess)
    BY <1>5, <2>1, AppendIsConcat
  <2>3. <<m>> \in Seq(0..MaxMess)
    BY <2>1
  <2>4. Range(archived'[b]) = Range(archived[b]) \cup Range(<<m>>)
    BY <2>2, <2>3, RangeConcatenation
  <2>5. \A a \in Archivers : a # b => archived'[a] = archived[a]
    BY <1>5, <2>1
  <2>6. QED
    BY <2>4, <2>5
<1>6. CASE \E a \in Archivers, m \in 1..MaxMess : DirectPut(a, m)
  BY <1>1, <1>5, <1>6 DEF DirectPut
<1>7. QED
  BY <1>1, <1>3, <1>4, <1>6
     DEF Next, ArhMessTask, Wake, Skip, Take, Complain, Relock, PassEnd, Destroy, Ended, MessPut,
         SetMessBufLen, StartArchiver, StopArchiver, UpdateArchiver, vars

LEMMA InitRInv == Init => RInv
<1> SUFFICES ASSUME Init PROVE RInv
  OBVIOUS
<1>1. BInv
  BY InitBInv
<1>2. size \in Nat /\ size >= 2 /\ headBuf \in 0..size-1 /\ Slots(size) = 0..size-1
  BY <1>1, MessBufAssumption, RingFacts DEF BInv
<1>3. \A k \in 0..size-1 : Back(k, headBuf, size) \in 0..size-1
  BY <1>2, BackGoesOn
<1>4. mBuf = [i \in Slots(size) |-> 0] /\ count = 0 /\ headBuf = 0
  BY DEF Init
<1>5. RingAt
  <2>1. \A k \in 0..size-1 : mBuf[Back(k, headBuf, size)] = 0 /\ ~(k < count)
    BY <1>2, <1>3, <1>4
  <2>2. QED
    BY <1>4, <2>1 DEF RingAt
<1>6. ReadIsWritten
  <2>1. \A a \in Range(actMess) : a \in Archivers
    BY <1>1, Active DEF BInv
  <2>2. QED
    BY <2>1 DEF Init, ReadIsWritten, ReadWell
<1>7. AtPut
  BY WritingPc DEF Init, AtPut
<1>8. QED
  BY <1>5, <1>6, <1>7 DEF RInv

\* The ring and the heads stay as they are.
LEMMA RingStays ==
  ASSUME TypeOK, [Next]_vars, UNCHANGED ring
  PROVE  /\ RingAt => RingAt'
         /\ \A a \in Archivers : messHead'[a] = messHead[a] /\ ReadWell(a) => ReadWell(a)'
<1>1. size' = size /\ mBuf' = mBuf /\ headBuf' = headBuf /\ count' = count
  BY DEF ring
<1>2. RingAt => RingAt'
  BY <1>1 DEF RingAt
<1>3. ASSUME NEW a \in Archivers, messHead'[a] = messHead[a], ReadWell(a)
      PROVE  ReadWell(a)'
  <2>1. Range(archived[a]) \subseteq Range(archived'[a])
    BY ArchiveGrows
  <2>2. \A m : InRing(m)' = InRing(m)
    BY <1>1 DEF InRing
  <2>3. QED
    BY <1>1, <1>3, <2>1, <2>2 DEF ReadWell
<1>4. QED
  BY <1>2, <1>3

\* Nothing but the task's own steps and what comes into the ring touches what
\* the task holds while an archiver writes.
LEMMA PutStays ==
  ASSUME TypeOK, [Next]_vars, AtPut, UNCHANGED <<ring, pc, cur, oMess, newHead>>
  PROVE  AtPut'
<1>1. size' = size /\ headBuf' = headBuf /\ count' = count
  BY DEF ring
<1>2. cur \in Archivers /\ Range(archived[cur]) \subseteq Range(archived'[cur])
  BY ArchiveGrows DEF TypeOK
<1>3. \A m : InRing(m)' = InRing(m)
  BY <1>1 DEF InRing
<1>4. QED
  BY <1>1, <1>2, <1>3 DEF AtPut, Last

\* What the task takes of the ring: the u messages up to the newest, and those
\* before them that the ring keeps are written.
TakesUpTo(a, h, u) ==
  /\ a = actMess[iM] /\ h = ReadFrom(a) /\ u = Ahead(h, headBuf, size)
  /\ h < size /\ u <= count
  /\ \A m \in 1..count : InRing(m) /\ m <= count - u => m \in Range(archived[a])
  /\ cur' = a /\ messHead'[a] = h
  /\ \A b \in Archivers : b # a => messHead'[b] = messHead[b]
  /\ Len(oMess') = u /\ \A k \in 1..u : oMess'[k] = count - u + k
  /\ oMess'[1] = count - u + 1 /\ Last(oMess') = count

LEMMA TakeReads ==
  ASSUME MessBufAssumption, TypeOK, RingAt, ReadIsWritten, Take
  PROVE  \E a \in Range(actMess), h \in Nat, u \in 1..size-1 : a \in Archivers /\ TakesUpTo(a, h, u)
<1>1. actMess \in Seq(Archivers) /\ iM \in 1..Len(actMess)
  BY DEF TypeOK, Take
<1>2. PICK a \in Range(actMess) : a = actMess[iM] /\ a \in Archivers
  BY <1>1 DEF Range
<1>3. PICK h, u : h = ReadFrom(a) /\ u = Ahead(h, headBuf, size)
  OBVIOUS
<1>4. /\ h # headBuf /\ messHead' = [messHead EXCEPT ![a] = h] /\ cur' = a
      /\ oMess' = [k \in DOMAIN SlotsFrom(h) |-> Record(SlotsFrom(h)[k])]
  BY <1>2, <1>3 DEF Take
<1>5. /\ h \in Nat /\ h < size /\ u <= count
      /\ \A m \in 1..count : InRing(m) /\ m <= count - u => m \in Range(archived[a])
  BY <1>2, <1>3, WhereItReads
<1>6. messHead'[a] = h /\ \A b \in Archivers : b # a => messHead'[b] = messHead[b]
  BY <1>2, <1>4 DEF TypeOK
<1>7. /\ u \in 1..size-1 /\ DOMAIN SlotsFrom(h) = 1..u
      /\ \A k \in 1..u : SlotsFrom(h)[k] = Back(u - k, headBuf, size)
  BY <1>3, <1>4, <1>5, SlotsRead
<1>8. size \in Nat /\ size >= 2 /\ headBuf \in 0..size-1 /\ count \in Nat
  BY RingFacts, Places
<1>9. ASSUME NEW k \in 1..u PROVE oMess'[k] = count - u + k
  <2>1. u - k \in 0..size-1 /\ u - k < count
    BY <1>5, <1>7, <1>8
  <2>2. Back(u - k, headBuf, size) \in 0..size-1
    BY <1>8, <2>1, BackGoesOn
  <2>3. mBuf[Back(u - k, headBuf, size)] = count - (u - k)
    BY <2>1 DEF RingAt
  <2>4. oMess'[k] = Record(Back(u - k, headBuf, size))
    BY <1>4, <1>7
  <2>5. Record(Back(u - k, headBuf, size)) = mBuf[Back(u - k, headBuf, size)]
    BY <1>8, <2>2 DEF Record
  <2>6. QED
    BY <1>7, <1>8, <2>3, <2>4, <2>5
<1>10. Len(oMess') = u
  <2>1. u \in Nat /\ DOMAIN oMess' = 1..u
    BY <1>4, <1>7, <1>8
  <2>2. h \in 0..MaxMessBufSize-1
    BY <1>5, Places
  <2>3. oMess' \in Seq(0..MaxMess)
    BY <1>4, <2>2, TakenType
  <2>4. QED
    BY <2>1, <2>3
<1>11. oMess'[1] = count - u + 1 /\ oMess'[u] = count
  <2>1. u \in Nat /\ 1 \in 1..u /\ u \in 1..u
    BY <1>7, <1>8
  <2>2. oMess'[1] = count - u + 1 /\ oMess'[u] = count - u + u
    BY <1>9, <2>1
  <2>3. QED
    BY <1>8, <2>1, <2>2
<1>12. Last(oMess') = count
  BY <1>10, <1>11 DEF Last
<1>13. TakesUpTo(a, h, u)
  BY <1>2, <1>3, <1>4, <1>5, <1>6, <1>9, <1>10, <1>11, <1>12 DEF TakesUpTo
<1>14. QED
  BY <1>2, <1>5, <1>7, <1>13

LEMMA NextRInv == BInv /\ FixedRing /\ RInv /\ [Next]_vars => RInv'
<1> SUFFICES ASSUME BInv, FixedRing, RInv, [Next]_vars PROVE RInv'
  OBVIOUS
<1> USE MessBufAssumption
<1>0. TypeOK /\ RingAt /\ ReadIsWritten /\ AtPut
  BY DEF BInv, RInv
<1>1. ASSUME UNCHANGED <<ring, messHead>>, actMess' = actMess, AtPut' PROVE RInv'
  BY <1>0, <1>1, RingStays, Active DEF RInv, ReadIsWritten
<1>2. CASE Wake \/ PassEnd \/ Destroy
  <2>1. UNCHANGED <<ring, messHead>> /\ actMess' = actMess
    BY <1>2 DEF Wake, PassEnd, Destroy
  <2>2. AtPut'
    <3>1. CASE Wake \/ PassEnd
      <4>1. pc' \notin Writing
        BY <3>1, WritingPc DEF Wake, PassEnd
      <4>2. QED
        BY <4>1 DEF AtPut
    <3>2. CASE Destroy
      BY <1>0, <3>2, PutStays DEF Destroy, task
    <3>3. QED
      BY <1>2, <3>1, <3>2
  <2>3. QED
    BY <1>1, <2>1, <2>2
<1>3. CASE Skip
  <2>0. actMess \in Seq(Archivers) /\ iM \in 1..Len(actMess)
    BY <1>0, <1>3 DEF TypeOK, Skip
  <2>1. PICK a \in Archivers : a = actMess[iM] /\ a \in Range(actMess)
    BY <2>0 DEF Range
  <2>2. /\ UNCHANGED <<ring, actMess, archived, pc>> /\ pc = "scan"
        /\ ReadFrom(a) = headBuf /\ messHead' = [messHead EXCEPT ![a] = headBuf]
    BY <1>3, <2>1 DEF Skip
  <2>3. size' = size /\ headBuf' = headBuf /\ count' = count
    BY <2>2 DEF ring
  <2>4. Ahead(headBuf, headBuf, size) = 0
    BY <1>0, Places DEF Ahead
  <2>5. \A m \in 1..count : InRing(m) /\ m <= count - 0 => m \in Range(archived[a])
    BY <1>0, <2>2, <2>1, <2>4, WhereItReads
  <2>6. messHead'[a] = headBuf /\ \A b \in Archivers : b # a => messHead'[b] = messHead[b]
    BY <1>0, <2>2, <2>1 DEF TypeOK
  <2>7. ReadWell(a)'
    <3>1. \A m : InRing(m)' = InRing(m)
      BY <2>3 DEF InRing
    <3>2. headBuf < size /\ 0 <= count
      BY <1>0, Places
    <3>3. QED
      BY <2>2, <2>3, <2>4, <2>5, <2>6, <3>1, <3>2 DEF ReadWell
  <2>8. ReadIsWritten'
    BY <1>0, <2>2, <2>6, <2>7, RingStays, Active DEF ReadIsWritten
  <2>9. AtPut'
    BY <2>2, WritingPc DEF AtPut
  <2>10. QED
    BY <1>0, <2>2, <2>8, <2>9, RingStays DEF RInv
<1>4. CASE Take
  <2>1. PICK a \in Range(actMess), h \in Nat, u \in 1..size-1 : a \in Archivers /\ TakesUpTo(a, h, u)
    BY <1>0, <1>4, TakeReads
  <2>2. /\ UNCHANGED <<ring, actMess, archived>> /\ newHead' = headBuf /\ pc' = "put"
    BY <1>4 DEF Take
  <2>3. size' = size /\ headBuf' = headBuf /\ count' = count
    BY <2>2 DEF ring
  <2>4. \A m : InRing(m)' = InRing(m)
    BY <2>3 DEF InRing
  <2>5. ReadWell(a)'
    BY <2>1, <2>2, <2>3, <2>4 DEF ReadWell, TakesUpTo
  <2>6. ReadIsWritten'
    BY <1>0, <2>1, <2>2, <2>5, RingStays, Active DEF ReadIsWritten, TakesUpTo
  <2>7. AtPut'
    <3>1. count \in Nat /\ size \in Nat /\ headBuf < size /\ MaxBurst \in Nat
      BY <1>0, Places DEF MessBufAssumption
    <3>2. /\ u <= count /\ cur' = a /\ Len(oMess') = u /\ oMess'[1] = count - u + 1
          /\ Last(oMess') = count /\ \A k \in 1..u : oMess'[k] = count - u + k
          /\ \A m \in 1..count : InRing(m) /\ m <= count - u => m \in Range(archived[a])
      BY <2>1 DEF TakesUpTo
    <3>3. Ahead(headBuf, headBuf, size) = 0
      BY <1>0, Places DEF Ahead
    <3>4. Len(oMess') >= 1 /\ oMess'[1] >= 1
      BY <2>1, <3>1, <3>2
    <3>5. \A k \in 1..Len(oMess') : oMess'[k] = oMess'[1] + k - 1
      BY <2>1, <3>1, <3>2
    <3>6. ASSUME NEW m \in 1..count', InRing(m)', m < oMess'[1]
          PROVE  m \in Range(archived'[cur'])
      <4>1. m \in 1..count /\ InRing(m) /\ m <= count - u
        BY <2>1, <2>3, <2>4, <3>1, <3>2, <3>6
      <4>2. QED
        BY <2>2, <3>2, <4>1
    <3>7. Last(oMess') <= count' /\ count' - Last(oMess') <= MaxBurst
      BY <2>3, <3>1, <3>2
    <3>8. newHead' < size' /\ Ahead(newHead', headBuf', size') = count' - Last(oMess')
      BY <2>2, <2>3, <3>1, <3>2, <3>3
    <3>9. pc' # "wrote"
      BY <2>2
    <3>10. QED
      BY <3>4, <3>5, <3>6, <3>7, <3>8, <3>9 DEF AtPut, Last
  <2>8. QED
    BY <1>0, <2>2, <2>6, <2>7, RingStays DEF RInv
<1>5. CASE Written \/ Failed
  <2>1. /\ UNCHANGED <<ring, messHead, cur, oMess, newHead>> /\ actMess' = actMess
        /\ pc \in Writing
        /\ pc' = "wrote" => archived' = [archived EXCEPT ![cur] = @ \o oMess]
    BY <1>5 DEF Written, Failed, Writing
  <2>2. AtPut'
    <3>1. size' = size /\ headBuf' = headBuf /\ count' = count
      BY <2>1 DEF ring
    <3>2. cur \in Archivers /\ Range(archived[cur]) \subseteq Range(archived'[cur])
      BY <1>0, ArchiveGrows DEF TypeOK
    <3>3. \A m : InRing(m)' = InRing(m)
      BY <3>1 DEF InRing
    <3>4. pc' = "wrote" => Range(oMess) \subseteq Range(archived'[cur])
      <4>1. oMess \in Seq(0..MaxMess)
        BY <1>0 DEF TypeOK
      <4>2. QED
        BY <1>0, <2>1, <4>1, PutRange
    <3>5. QED
      BY <1>0, <2>1, <3>1, <3>2, <3>3, <3>4 DEF AtPut, Last
  <2>3. QED
    BY <1>1, <2>1, <2>2
<1>6. CASE Complain
  <2>1. /\ UNCHANGED <<actMess, archived, cur, oMess, newHead>>
        /\ pc \in Writing /\ pc' # "wrote"
    BY <1>6 DEF Complain, Writing
  <2>2. CASE ToRing
    BY <1>0, <2>1, <2>2, ToRingKeeps
  <2>3. CASE UNCHANGED <<ring, messHead>>
    <3>1. size' = size /\ headBuf' = headBuf /\ count' = count
      BY <2>3 DEF ring
    <3>2. \A m : InRing(m)' = InRing(m)
      BY <3>1 DEF InRing
    <3>3. AtPut'
      BY <1>0, <2>1, <3>1, <3>2 DEF AtPut, Last
    <3>4. QED
      BY <1>1, <2>1, <2>3, <3>3
  <2>4. QED
    BY <1>6, <2>2, <2>3 DEF Complain
<1>7. CASE Relock
  <2>1. /\ UNCHANGED <<ring, actMess, archived>> /\ pc' = "scan"
        /\ messHead' = IF pc = "wrote" THEN [messHead EXCEPT ![cur] = newHead] ELSE messHead
    BY <1>7 DEF Relock
  <2>2. AtPut'
    BY <2>1, WritingPc DEF AtPut
  <2>3. CASE pc # "wrote"
    BY <1>1, <2>1, <2>2, <2>3
  <2>4. CASE pc = "wrote"
    <3>1. /\ Last(oMess) <= count /\ newHead < size
          /\ Ahead(newHead, headBuf, size) = count - Last(oMess)
          /\ \A m \in 1..count : InRing(m) /\ m < oMess[1] => m \in Range(archived[cur])
          /\ Range(oMess) \subseteq Range(archived[cur])
          /\ \A k \in 1..Len(oMess) : oMess[k] = oMess[1] + k - 1
          /\ Len(oMess) >= 1 /\ oMess[1] >= 1
      BY <1>0, <2>4 DEF AtPut, Writing
    <3>2. /\ cur \in Archivers /\ messHead'[cur] = newHead
          /\ \A b \in Archivers : b # cur => messHead'[b] = messHead[b]
      BY <1>0, <2>1, <2>4 DEF TypeOK
    <3>3. size' = size /\ headBuf' = headBuf /\ count' = count
      BY <2>1 DEF ring
    <3>4. \A m : InRing(m)' = InRing(m)
      BY <3>3 DEF InRing
    <3>5. ASSUME NEW m \in 1..count, InRing(m), m <= Last(oMess) PROVE m \in Range(archived[cur])
      <4>1. oMess \in Seq(0..MaxMess) /\ Len(oMess) \in Nat /\ DOMAIN oMess = 1..Len(oMess)
        BY <1>0 DEF TypeOK
      <4>2. CASE m < oMess[1]
        BY <3>1, <3>5, <4>2
      <4>3. CASE ~(m < oMess[1])
        <5>1. oMess[1] \in Nat
          BY <3>1, <4>1
        <5>2. Last(oMess) = oMess[1] + Len(oMess) - 1
          BY <3>1, <4>1 DEF Last
        <5>3. m - oMess[1] + 1 \in 1..Len(oMess)
          BY <3>5, <4>1, <4>3, <5>1, <5>2
        <5>4. oMess[m - oMess[1] + 1] = m
          <6>1. oMess[m - oMess[1] + 1] = oMess[1] + (m - oMess[1] + 1) - 1
            BY <3>1, <5>3
          <6>2. QED
            BY <3>5, <5>1, <6>1
        <5>5. m \in Range(oMess)
          BY <4>1, <5>3, <5>4 DEF Range
        <5>6. QED
          BY <3>1, <5>5
      <4>4. QED
        BY <4>2, <4>3
    <3>6. PICK c \in Archivers : c = cur
      BY <3>2
    <3>7. ReadWell(c)'
      <4>1. Last(oMess) \in Int /\ count \in Nat
        <5>1. oMess \in Seq(0..MaxMess) /\ Len(oMess) \in 1..Len(oMess)
          BY <1>0, <3>1 DEF TypeOK
        <5>2. oMess[Len(oMess)] \in 0..MaxMess
          BY <5>1, ElementOfSeq
        <5>3. QED
          BY <1>0, <5>2, Places DEF Last
      <4>2. Last(oMess) >= 0
        <5>1. oMess \in Seq(0..MaxMess) /\ Len(oMess) \in 1..Len(oMess)
          BY <1>0, <3>1 DEF TypeOK
        <5>2. oMess[Len(oMess)] \in 0..MaxMess
          BY <5>1, ElementOfSeq
        <5>3. QED
          BY <1>0, <5>2, Places DEF Last
      <4>3. count - (count - Last(oMess)) = Last(oMess) /\ count - Last(oMess) <= count
        BY <4>1, <4>2
      <4>4. QED
        BY <2>1, <3>1, <3>2, <3>3, <3>4, <3>5, <3>6, <4>3 DEF ReadWell
    <3>8. ReadIsWritten'
      BY <1>0, <2>1, <3>2, <3>7, <3>6, RingStays, Active DEF ReadIsWritten
    <3>9. QED
      BY <1>0, <2>1, <2>2, <3>8, RingStays DEF RInv
  <2>5. QED
    BY <2>3, <2>4
<1>8. ASSUME NEW arch \in Targets, MessPut(arch) PROVE RInv'
  BY <1>0, <1>8, ToRingKeeps DEF MessPut, task
<1>9. ASSUME NEW a \in Archivers, NEW m \in 1..MaxMess, DirectPut(a, m) PROVE RInv'
  <2>1. UNCHANGED <<actMess, pc, cur, oMess, newHead>>
    BY <1>9 DEF DirectPut, task
  <2>2. CASE UNCHANGED <<ring, messHead>>
    <3>1. AtPut'
      BY <1>0, <2>1, <2>2, PutStays
    <3>2. QED
      BY <1>1, <2>1, <2>2, <3>1
  <2>3. CASE ToRing /\ UNCHANGED archived
    BY <1>0, <2>1, <2>3, ToRingKeeps
  <2>4. QED
    BY <1>9, <2>2, <2>3 DEF DirectPut
<1>10. ASSUME NEW l \in Lens PROVE FALSE
  BY DEF FixedRing
<1>11. ASSUME NEW a \in Archivers, StartArchiver(a) \/ StopArchiver(a) \/ UpdateArchiver(a)
       PROVE  RInv'
  <2>1. /\ UNCHANGED <<ring, pc, cur, oMess, newHead>>
        /\ messHead' = [messHead EXCEPT ![a] = -1]
    BY <1>11 DEF StartArchiver, StopArchiver, UpdateArchiver, task
  <2>2. Range(actMess') \subseteq Range(actMess) \cup {a}
    <3>1. actMess \in Seq(Archivers) /\ IsInjective(actMess)
      BY <1>0 DEF TypeOK
    <3>2. CASE StartArchiver(a)
      BY <3>1, <3>2, Appended DEF StartArchiver
    <3>3. CASE StopArchiver(a)
      BY <3>1, <3>3, Removed DEF StopArchiver
    <3>4. CASE UpdateArchiver(a)
      BY <3>4 DEF UpdateArchiver
    <3>5. QED
      BY <1>11, <3>2, <3>3, <3>4
  <2>3. messHead'[a] = -1 /\ \A b \in Archivers : b # a => messHead'[b] = messHead[b]
    BY <1>0, <2>1 DEF TypeOK
  <2>4. ReadWell(a)'
    BY <2>3 DEF ReadWell
  <2>5. ReadIsWritten'
    BY <1>0, <2>1, <2>2, <2>3, <2>4, RingStays, Active DEF ReadIsWritten
  <2>6. AtPut'
    BY <1>0, <2>1, PutStays
  <2>7. QED
    BY <1>0, <2>1, <2>5, <2>6, RingStays DEF RInv
<1>12. CASE UNCHANGED vars
  <2>1. UNCHANGED <<ring, messHead, pc, cur, oMess, newHead>> /\ actMess' = actMess
    BY <1>12 DEF vars, task
  <2>2. AtPut'
    BY <1>0, <2>1, PutStays
  <2>3. QED
    BY <1>1, <2>1, <2>2
<1>13. QED
  BY <1>2, <1>3, <1>4, <1>5, <1>6, <1>7, <1>8, <1>9, <1>10, <1>11, <1>12
     DEF Next, ArhMessTask, Ended

THEOREM ReadInvariance == ASSUME FixedRing PROVE Spec => []RInv
<1>1. BInv /\ RInv /\ [Next]_vars => RInv'
  BY NextRInv
<1>2. QED
  BY Invariance, InitRInv, <1>1, PTL DEF Spec

\* The message in a slot a reader may come upon.
LEMMA KeptAt ==
  ASSUME MessBufAssumption, TypeOK, RingAt, NEW i \in Kept
  PROVE  \E k \in 0..size-2 : /\ i = Back(k, headBuf, size) /\ k < count
                              /\ mBuf[i] = count - k
<1> DEFINE k == IF i < headBuf THEN headBuf - 1 - i ELSE headBuf - 1 - i + size
<1>1. i \in 0..size-1 /\ i # headBuf /\ mBuf[i] # 0
  BY DEF Kept, Slots
<1>2. k \in 0..size-2 /\ k \in 0..size-1 /\ i = Back(k, headBuf, size)
  BY <1>1, Places DEF Back
<1> HIDE DEF k
<1>3. mBuf[Back(k, headBuf, size)] = IF k < count THEN count - k ELSE 0
  BY <1>2 DEF RingAt
<1>4. mBuf[i] = IF k < count THEN count - k ELSE 0
  BY <1>2, <1>3
<1>5. k < count /\ mBuf[i] = count - k
  BY <1>1, <1>4
<1>6. QED
  BY <1>2, <1>5

LEMMA KeptIsInRing ==
  ASSUME MessBufAssumption, TypeOK, RingAt, NEW i \in Kept
  PROVE  mBuf[i] \in 1..count /\ InRing(mBuf[i])
<1>1. PICK k \in 0..size-2 : k < count /\ mBuf[i] = count - k
  BY KeptAt
<1>2. QED
  BY <1>1, Places DEF InRing

\* messHead is "last read and archived head of messages buffer": with a ring of
\* one length, whatever the threads that write, the task, failing archivers,
\* archivers stopped and started and the subsystem's updates do: a message the
\* ring keeps is in an active archiver's archive or the next reading finds it.
\* The head that ArhMessTask() took before it unlocked the ring still stands for
\* the last message it copied when it comes back, as long as the ring is not
\* overrun in between.
THEOREM NothingIsSkipped == ASSUME FixedRing PROVE Spec => []NothingSkipped
<1>1. BInv /\ RInv => NothingSkipped
  <2>1. SUFFICES ASSUME BInv, RInv, NEW a \in Range(actMess), NEW i \in Kept,
                        mBuf[i] \notin Range(archived[a])
                 PROVE  i \in Unread(a)
    BY DEF NothingSkipped
  <2> USE MessBufAssumption
  <2>2. TypeOK /\ RingAt /\ ReadIsWritten
    BY <2>1 DEF BInv, RInv
  <2>3. PICK h, u : h = ReadFrom(a) /\ u = Ahead(h, headBuf, size)
    OBVIOUS
  <2>4. /\ h \in Nat /\ h < size /\ u <= count
        /\ \A m \in 1..count : InRing(m) /\ m <= count - u => m \in Range(archived[a])
    BY <2>2, <2>3, WhereItReads
  <2>5. PICK k \in 0..size-2 : i = Back(k, headBuf, size) /\ k < count /\ mBuf[i] = count - k
    BY <2>2, KeptAt
  <2>6. count \in Nat /\ size \in Nat /\ headBuf \in Nat
    BY <2>2, Places
  <2>7. u \in Int
    BY <2>3, <2>4, <2>6 DEF Ahead
  <2>8. k < u
    <3>1. mBuf[i] \in 1..count /\ InRing(mBuf[i])
      BY <2>2, KeptIsInRing
    <3>2. ~(mBuf[i] <= count - u)
      BY <2>1, <2>4, <3>1
    <3>3. QED
      BY <2>5, <2>6, <2>7, <3>2
  <2>9. h # headBuf
    BY <2>3, <2>5, <2>6, <2>8 DEF Ahead
  <2>10. /\ DOMAIN SlotsFrom(h) = 1..u
         /\ \A x \in 1..u : SlotsFrom(h)[x] = Back(u - x, headBuf, size)
    BY <2>2, <2>3, <2>4, <2>9, SlotsRead
  <2>11. u - k \in 1..u /\ u - (u - k) = k
    BY <2>5, <2>6, <2>7, <2>8
  <2>12. SlotsFrom(h)[u - k] = i
    BY <2>5, <2>10, <2>11
  <2>13. i \in Range(SlotsFrom(h))
    BY <2>10, <2>11, <2>12 DEF Range
  <2>14. QED
    BY <2>3, <2>9, <2>13 DEF Unread
<1>2. QED
  BY Invariance, ReadInvariance, <1>1, PTL

-----------------------------------------------------------------------------
(* The last turn of the task                                               *)

\* Archiver a has read the messages up to m.
ReadUpTo(a, m) == messHead[a] >= 0 /\ m <= count - Ahead(messHead[a], headBuf, size)

\* Without stops and failing writes all the archivers are active, and none complains.
AllStarted ==
  /\ stops = 0 => Range(actMess) = Archivers
  /\ fails = 0 /\ stops = 0 => pc \notin {"threw", "complain", "failed"}

\* In the last turn the archivers before the task's place have read what came
\* before it was asked to end.
LastTurn ==
  /\ flushTo <= count /\ (isLast => endrun) /\ (pc = "done" => isLast)
  /\ pc = "done" /\ fails = 0 /\ stops = 0 => iM > Len(actMess)
  /\ isLast /\ fails = 0 /\ stops = 0 =>
       /\ \A j \in 1..iM-1 : j <= Len(actMess) => ReadUpTo(actMess[j], flushTo)
       /\ pc \in {"put", "wrote"} =>
            iM <= Len(actMess) /\ cur = actMess[iM] /\ flushTo <= Last(oMess)

LInv == AllStarted /\ LastTurn

LEMMA InitLInv == Init => LInv
<1> SUFFICES ASSUME Init PROVE LInv
  OBVIOUS
<1>1. Range(actMess) = Archivers
  BY MessBufAssumption, AllInOrder DEF Init
<1>2. /\ pc = "sleep" /\ isLast = FALSE /\ flushTo = 0 /\ count = 0
  BY DEF Init
<1>3. AllStarted
  BY <1>1, <1>2 DEF AllStarted
<1>4. LastTurn
  BY <1>2 DEF LastTurn
<1>5. QED
  BY <1>3, <1>4 DEF LInv

\* What an archiver has read it has read, whatever comes into the ring.
LEMMA UpToStays ==
  ASSUME MessBufAssumption, TypeOK, ReadIsWritten, NEW a \in Range(actMess), NEW m \in Int,
         ReadUpTo(a, m), ToRing \/ UNCHANGED <<ring, messHead>>
  PROVE  messHead'[a] >= 0 /\ m <= count' - Ahead(messHead'[a], headBuf', size')
<1>1. CASE UNCHANGED <<ring, messHead>>
  BY <1>1 DEF ring, ReadUpTo
<1>2. CASE ToRing
  <2>1. /\ messHead[a] >= 0 /\ messHead[a] < size
        /\ m <= count - Ahead(messHead[a], headBuf, size)
    BY DEF ReadUpTo, ReadIsWritten, ReadWell
  <2>2. count \in Nat /\ size \in Nat /\ headBuf \in Nat /\ count' = count + 1
    BY <1>2, Places DEF ToRing
  <2>3. messHead[a] \in Int
    <3>1. messHead[a] \in -1..MaxMessBufSize-1 /\ MaxMessBufSize \in Nat
      BY Active, Places DEF TypeOK
    <3>2. QED
      BY <3>1
  <2>4. Ahead(messHead[a], headBuf, size) \in Int
    BY <2>2, <2>3 DEF Ahead
  <2>5. /\ messHead'[a] \in Nat
        /\ \/ Ahead(messHead'[a], headBuf', size') = Ahead(messHead[a], headBuf, size) + 1
           \/ /\ Ahead(messHead'[a], headBuf', size') = size - 1
              /\ Ahead(messHead[a], headBuf, size) = size - 1
    BY <1>2, <2>1, HeadAfter
  <2>6. QED
    BY <2>1, <2>2, <2>4, <2>5
<1>3. QED
  BY <1>1, <1>2

\* Numbers of failing writes, of stops and of messages do not go down.
LEMMA NumbersGrow ==
  ASSUME MessBufAssumption, TypeOK, [Next]_vars
  PROVE  /\ fails' = 0 => fails = 0
         /\ stops' = 0 => stops = 0
         /\ count' >= count
<1>1. fails \in Nat /\ stops \in Nat /\ count \in Nat
  BY Counters, Places
<1>2. /\ fails' = fails \/ fails' = fails + 1
      /\ stops' = stops \/ stops' = stops + 1
      /\ count' = count \/ count' = count + 1
  BY DEF Next, ArhMessTask, Wake, Skip, Take, Written, Failed, Complain, Relock, PassEnd, Destroy,
         Ended, MessPut, DirectPut, ToRing, SetMessBufLen, StartArchiver, StopArchiver,
         UpdateArchiver, vars, ring, bounds
<1>3. QED
  BY <1>1, <1>2

LEMMA NextLInv == BInv /\ FixedRing /\ RInv /\ LInv /\ [Next]_vars => LInv'
<1> SUFFICES ASSUME BInv, FixedRing, RInv, LInv, [Next]_vars PROVE LInv'
  OBVIOUS
<1> USE MessBufAssumption
<1>0. TypeOK /\ RingAt /\ ReadIsWritten /\ AtPut /\ AllStarted /\ LastTurn /\ BInv'
  BY NextBInv DEF BInv, RInv, LInv
<1>1. /\ fails' = 0 => fails = 0
      /\ stops' = 0 => stops = 0
      /\ count' >= count /\ count \in Nat /\ count' \in Nat /\ flushTo \in Nat /\ flushTo <= count
  <2>1. count' \in 0..MaxMess /\ flushTo \in 0..MaxMess /\ flushTo <= count
    BY <1>0 DEF BInv, TypeOK, LastTurn
  <2>2. QED
    BY <1>0, <2>1, NumbersGrow, Places
<1>2. /\ actMess \in Seq(Archivers) /\ IsInjective(actMess) /\ Len(actMess) \in Nat
      /\ DOMAIN actMess = 1..Len(actMess) /\ iM \in Nat \ {0} /\ iM' \in Nat \ {0}
  <2>1. iM \in 1..Cardinality(Archivers)+1 /\ iM' \in 1..Cardinality(Archivers)+1
    BY <1>0 DEF BInv, TypeOK
  <2>2. Cardinality(Archivers) \in Nat
    BY FS_CardinalityType DEF MessBufAssumption
  <2>3. iM \in Nat \ {0} /\ iM' \in Nat \ {0}
    BY <2>1, <2>2
  <2>4. actMess \in Seq(Archivers) /\ IsInjective(actMess)
    BY <1>0 DEF TypeOK
  <2>5. QED
    BY <2>3, <2>4
<1>3. \A j \in 1..Len(actMess) : actMess[j] \in Archivers /\ actMess[j] \in Range(actMess)
  BY <1>2 DEF Range
\* Steps that leave the task where it is.
<1>4. ASSUME UNCHANGED <<actMess, pc, iM, cur, oMess, isLast, endrun, flushTo>>,
             ToRing \/ UNCHANGED <<ring, messHead>> \/ ~isLast
      PROVE  LInv'
  <2>1. AllStarted'
    BY <1>0, <1>1, <1>4 DEF AllStarted
  <2>2. SUFFICES LastTurn'
    BY <2>1 DEF LInv
  <2>3. /\ flushTo' <= count' /\ (isLast' => endrun') /\ (pc' = "done" => isLast')
        /\ pc' = "done" /\ fails' = 0 /\ stops' = 0 => iM' > Len(actMess')
    BY <1>0, <1>1, <1>4 DEF LastTurn
  <2>4. ASSUME isLast, fails' = 0, stops' = 0, NEW j \in 1..iM-1, j <= Len(actMess)
        PROVE  messHead'[actMess[j]] >= 0
               /\ flushTo <= count' - Ahead(messHead'[actMess[j]], headBuf', size')
    <3>1. ReadUpTo(actMess[j], flushTo) /\ actMess[j] \in Range(actMess) /\ flushTo \in Int
      BY <1>0, <1>1, <1>2, <1>3, <2>4 DEF LastTurn
    <3>2. QED
      BY <1>0, <1>4, <2>4, <3>1, UpToStays
  <2>5. isLast /\ fails' = 0 /\ stops' = 0 /\ pc \in {"put", "wrote"} =>
          iM <= Len(actMess) /\ cur = actMess[iM] /\ flushTo <= Last(oMess)
    BY <1>0, <1>1 DEF LastTurn
  <2>6. QED
    BY <1>4, <2>3, <2>4, <2>5 DEF LastTurn, ReadUpTo, Last
<1>5. CASE Wake
  <2>1. UNCHANGED <<ring, actMess, endrun, flushTo>> /\ pc' = "scan" /\ iM' = 1 /\ isLast' = endrun
    BY <1>5 DEF Wake
  <2>2. LastTurn'
    BY <1>0, <1>1, <2>1 DEF LastTurn, ring
  <2>3. QED
    BY <1>0, <1>1, <2>1, <2>2 DEF LInv, AllStarted
<1>6. CASE Skip
  <2>1. PICK a \in Archivers : a = actMess[iM]
    BY <1>2, <1>3, <1>6 DEF Skip
  <2>2. /\ UNCHANGED <<ring, actMess, pc, isLast, endrun, flushTo>> /\ iM' = iM + 1
        /\ pc = "scan" /\ messHead' = [messHead EXCEPT ![a] = headBuf]
    BY <1>6, <2>1 DEF Skip
  <2>3. size' = size /\ headBuf' = headBuf /\ count' = count
    BY <2>2 DEF ring
  <2>4. messHead'[a] = headBuf /\ \A b \in Archivers : b # a => messHead'[b] = messHead[b]
    BY <1>0, <2>1, <2>2 DEF TypeOK
  <2>5. ASSUME isLast, fails' = 0, stops' = 0, NEW j \in 1..iM, j <= Len(actMess)
        PROVE  messHead'[actMess[j]] >= 0
               /\ flushTo <= count - Ahead(messHead'[actMess[j]], headBuf, size)
    <3>1. CASE actMess[j] = a
      BY <1>0, <1>1, <2>4, <3>1, Places DEF Ahead
    <3>2. CASE actMess[j] # a
      <4>1. j \in 1..iM-1 /\ j \in 1..Len(actMess)
        BY <1>2, <2>1, <2>5, <3>2
      <4>2. ReadUpTo(actMess[j], flushTo)
        BY <1>0, <1>1, <2>5, <4>1 DEF LastTurn
      <4>3. QED
        BY <1>3, <2>4, <3>2, <4>1, <4>2 DEF ReadUpTo
    <3>3. QED
      BY <3>1, <3>2
  <2>6. iM' - 1 = iM
    BY <1>2, <2>2
  <2>7. LastTurn'
    BY <1>0, <1>1, <2>2, <2>3, <2>5, <2>6 DEF LastTurn, ReadUpTo
  <2>8. QED
    BY <1>0, <1>1, <2>2, <2>7 DEF LInv, AllStarted
<1>7. CASE Take
  <2>1. PICK a \in Range(actMess), h \in Nat, u \in 1..size-1 : a \in Archivers /\ TakesUpTo(a, h, u)
    BY <1>0, <1>7, TakeReads
  <2>2. /\ UNCHANGED <<ring, actMess, iM, isLast, endrun, flushTo>> /\ iM <= Len(actMess)
        /\ pc' = "put"
    BY <1>7 DEF Take
  <2>3. size' = size /\ headBuf' = headBuf /\ count' = count
    BY <2>2 DEF ring
  <2>4. /\ a = actMess[iM] /\ cur' = a /\ Last(oMess') = count
        /\ \A b \in Archivers : b # a => messHead'[b] = messHead[b]
    BY <2>1 DEF TakesUpTo
  <2>5. ASSUME isLast, fails' = 0, stops' = 0, NEW j \in 1..iM-1, j <= Len(actMess)
        PROVE  messHead'[actMess[j]] >= 0
               /\ flushTo <= count - Ahead(messHead'[actMess[j]], headBuf, size)
    <3>1. j \in 1..Len(actMess) /\ iM \in 1..Len(actMess) /\ j # iM
      BY <1>2, <2>2, <2>5
    <3>2. actMess[j] # a /\ actMess[j] \in Archivers
      BY <1>2, <1>3, <2>4, <3>1 DEF IsInjective
    <3>3. ReadUpTo(actMess[j], flushTo)
      BY <1>0, <1>1, <2>5, <3>1 DEF LastTurn
    <3>4. QED
      BY <2>4, <3>2, <3>3 DEF ReadUpTo
  <2>6. LastTurn'
    BY <1>0, <1>1, <2>2, <2>3, <2>4, <2>5 DEF LastTurn, ReadUpTo, Last
  <2>7. QED
    BY <1>0, <1>1, <2>2, <2>6 DEF LInv, AllStarted
<1>8. CASE Written
  <2>1. /\ UNCHANGED <<ring, messHead, actMess, iM, cur, oMess, isLast, endrun, flushTo>>
        /\ pc = "put" /\ pc' = "wrote"
    BY <1>8 DEF Written
  <2>2. LastTurn'
    BY <1>0, <1>1, <2>1 DEF LastTurn, ReadUpTo, Last, ring
  <2>3. QED
    BY <1>0, <1>1, <2>1, <2>2 DEF LInv, AllStarted
<1>9. CASE Failed
  <2>1. /\ UNCHANGED <<ring, actMess, iM, isLast, endrun, flushTo, stops>>
        /\ pc = "put" /\ pc' \in {"failed", "threw"}
    BY <1>9 DEF Failed
  <2>2. ~(fails' = 0 /\ stops' = 0)
    <3>1. SUFFICES ASSUME fails' = 0, stops' = 0 PROVE FALSE
      OBVIOUS
    <3>2. cur \in Range(actMess)
      BY <1>0, <1>1, <3>1 DEF AllStarted, TypeOK
    <3>3. fails' = fails + 1
      BY <1>9, <3>2 DEF Failed
    <3>4. fails \in Nat
      BY <1>0, Counters
    <3>5. QED
      BY <3>1, <3>3, <3>4
  <2>3. AllStarted'
    BY <1>0, <1>1, <2>1, <2>2 DEF AllStarted
  <2>4. LastTurn'
    BY <1>0, <1>1, <2>1, <2>2 DEF LastTurn, ring
  <2>5. QED
    BY <2>3, <2>4 DEF LInv
<1>10. CASE Complain
  <2>1. /\ UNCHANGED <<actMess, iM, isLast, endrun, flushTo, fails, stops>>
        /\ pc \in {"threw", "complain"} /\ pc' \in {"complain", "failed"}
    BY <1>10 DEF Complain, bounds
  <2>2. ~(fails' = 0 /\ stops' = 0)
    BY <1>0, <1>1, <2>1 DEF AllStarted
  <2>3. AllStarted'
    BY <1>0, <1>1, <2>1, <2>2 DEF AllStarted
  <2>4. LastTurn'
    BY <1>0, <1>1, <2>1, <2>2 DEF LastTurn
  <2>5. QED
    BY <2>3, <2>4 DEF LInv
<1>11. CASE Relock
  <2>1. /\ UNCHANGED <<ring, actMess, cur, isLast, endrun, flushTo>>
        /\ pc \in {"wrote", "failed"} /\ pc' = "scan" /\ iM' = iM + 1
        /\ messHead' = IF pc = "wrote" THEN [messHead EXCEPT ![cur] = newHead] ELSE messHead
    BY <1>11 DEF Relock
  <2>2. size' = size /\ headBuf' = headBuf /\ count' = count
    BY <2>1 DEF ring
  <2>3. ASSUME isLast, fails' = 0, stops' = 0, NEW j \in 1..iM, j <= Len(actMess)
        PROVE  messHead'[actMess[j]] >= 0
               /\ flushTo <= count - Ahead(messHead'[actMess[j]], headBuf, size)
    <3>1. /\ pc = "wrote" /\ iM <= Len(actMess) /\ cur = actMess[iM] /\ flushTo <= Last(oMess)
          /\ cur \in Archivers
      BY <1>0, <1>1, <2>1, <2>3 DEF AllStarted, LastTurn, TypeOK
    <3>2. messHead'[cur] = newHead /\ \A b \in Archivers : b # cur => messHead'[b] = messHead[b]
      BY <1>0, <2>1, <3>1 DEF TypeOK
    <3>3. CASE actMess[j] = cur
      <4>1. /\ Ahead(newHead, headBuf, size) = count - Last(oMess)
            /\ Len(oMess) >= 1
        BY <1>0, <3>1 DEF AtPut, Writing
      <4>2. Last(oMess) \in Int
        <5>1. oMess \in Seq(0..MaxMess) /\ Len(oMess) \in 1..Len(oMess)
          BY <1>0, <4>1 DEF TypeOK
        <5>2. oMess[Len(oMess)] \in 0..MaxMess
          BY <5>1, ElementOfSeq
        <5>3. QED
          BY <5>2 DEF Last
      <4>3. newHead >= 0
        BY <1>0 DEF TypeOK
      <4>4. QED
        BY <1>1, <3>1, <3>2, <3>3, <4>1, <4>2, <4>3
    <3>4. CASE actMess[j] # cur
      <4>1. j \in 1..iM-1 /\ j \in 1..Len(actMess)
        BY <1>2, <2>3, <3>1, <3>4
      <4>2. ReadUpTo(actMess[j], flushTo)
        BY <1>0, <1>1, <2>3, <4>1 DEF LastTurn
      <4>3. QED
        BY <1>3, <3>2, <3>4, <4>1, <4>2 DEF ReadUpTo
    <3>5. QED
      BY <3>3, <3>4
  <2>4. iM' - 1 = iM
    BY <1>2, <2>1
  <2>5. LastTurn'
    BY <1>0, <1>1, <2>1, <2>2, <2>3, <2>4 DEF LastTurn, ReadUpTo
  <2>6. QED
    BY <1>0, <1>1, <2>1, <2>5 DEF LInv, AllStarted
<1>12. CASE PassEnd
  <2>1. /\ UNCHANGED <<ring, messHead, actMess, iM, isLast, endrun, flushTo>>
        /\ iM > Len(actMess) /\ pc' = IF isLast THEN "done" ELSE "sleep"
    BY <1>12 DEF PassEnd
  <2>2. LastTurn'
    BY <1>0, <1>1, <2>1 DEF LastTurn, ReadUpTo, ring
  <2>3. QED
    BY <1>0, <1>1, <2>1, <2>2 DEF LInv, AllStarted
<1>13. CASE Destroy
  <2>1. UNCHANGED <<ring, actMess, pc, isLast>> /\ ~endrun /\ endrun' = TRUE /\ flushTo' = count
    BY <1>13 DEF Destroy, task
  <2>2. ~isLast /\ pc # "done" /\ count' = count
    BY <1>0, <2>1 DEF LastTurn, ring
  <2>3. LastTurn'
    BY <1>1, <2>1, <2>2 DEF LastTurn
  <2>4. QED
    BY <1>0, <1>1, <2>1, <2>3 DEF LInv, AllStarted
<1>14. ASSUME NEW arch \in Targets, MessPut(arch) PROVE LInv'
  BY <1>4, <1>14 DEF MessPut, task
<1>15. ASSUME NEW a \in Archivers, NEW m \in 1..MaxMess, DirectPut(a, m) PROVE LInv'
  BY <1>4, <1>15 DEF DirectPut, task
<1>16. ASSUME NEW l \in Lens PROVE FALSE
  BY DEF FixedRing
<1>17. ASSUME NEW a \in Archivers, UpdateArchiver(a) PROVE LInv'
  BY <1>0, <1>4, <1>17 DEF UpdateArchiver, task, LastTurn
<1>18. ASSUME NEW a \in Archivers, StartArchiver(a) \/ StopArchiver(a) PROVE LInv'
  <2>1. UNCHANGED <<ring, pc, isLast, endrun, flushTo>>
    BY <1>18 DEF StartArchiver, StopArchiver, task
  <2>2. stops' # 0
    <3>1. CASE StartArchiver(a)
      <4>1. stops' = stops /\ a \notin Range(actMess)
        BY <3>1 DEF StartArchiver, bounds
      <4>2. QED
        BY <1>0, <4>1 DEF AllStarted
    <3>2. CASE StopArchiver(a)
      BY <1>0, <3>2, Counters DEF StopArchiver
    <3>3. QED
      BY <1>18, <3>1, <3>2
  <2>3. QED
    BY <1>0, <1>1, <2>1, <2>2 DEF LInv, AllStarted, LastTurn
<1>19. CASE UNCHANGED vars
  BY <1>4, <1>19 DEF vars, task
<1>20. QED
  BY <1>5, <1>6, <1>7, <1>8, <1>9, <1>10, <1>11, <1>12, <1>13, <1>14, <1>15, <1>16, <1>17, <1>18,
     <1>19 DEF Next, ArhMessTask, Ended

THEOREM LastTurnInvariance == ASSUME FixedRing PROVE Spec => []LInv
<1>1. BInv /\ RInv /\ LInv /\ [Next]_vars => LInv'
  BY NextLInv
<1>2. QED
  BY Invariance, ReadInvariance, InitLInv, <1>1, PTL DEF Spec

\* subStop() asks the task to end, and the task makes one turn more before it
\* does: when it is over, and neither an archiver failed nor was one stopped,
\* every message that came before the asking and that the ring keeps is in the
\* archives of all the archivers, those the turn came to first included.
THEOREM AllIsFlushed == ASSUME FixedRing PROVE Spec => []FlushedAtEnd
<1>1. BInv /\ RInv /\ LInv => FlushedAtEnd
  <2>1. SUFFICES ASSUME BInv, RInv, LInv, pc = "done", fails = 0, stops = 0,
                        NEW a \in Range(actMess), NEW i \in Kept, mBuf[i] <= flushTo
                 PROVE  mBuf[i] \in Range(archived[a])
    BY DEF FlushedAtEnd
  <2> USE MessBufAssumption
  <2>2. TypeOK /\ RingAt /\ ReadIsWritten /\ LastTurn
    BY <2>1 DEF BInv, RInv, LInv
  <2>3. PICK j \in 1..Len(actMess) : actMess[j] = a
    <3>1. DOMAIN actMess = 1..Len(actMess)
      BY <2>2 DEF TypeOK
    <3>2. QED
      BY <3>1 DEF Range
  <2>4. ReadUpTo(a, flushTo)
    <3>1. iM > Len(actMess) /\ isLast
      BY <2>1, <2>2 DEF LastTurn
    <3>2. Len(actMess) \in Nat /\ iM \in Int
      <4>1. actMess \in Seq(Archivers) /\ iM \in 1..Cardinality(Archivers)+1
        BY <2>2 DEF TypeOK
      <4>2. Cardinality(Archivers) \in Nat
        BY FS_CardinalityType DEF MessBufAssumption
      <4>3. QED
        BY <4>1, <4>2
    <3>3. j \in 1..iM-1 /\ j <= Len(actMess)
      BY <3>1, <3>2
    <3>4. QED
      BY <2>1, <2>2, <2>3, <3>1, <3>3 DEF LastTurn
  <2>5. mBuf[i] \in 1..count /\ InRing(mBuf[i])
    BY <2>2, KeptIsInRing
  <2>6. flushTo \in Nat /\ count \in Nat
    BY <2>2, Places DEF TypeOK
  <2>7. Ahead(messHead[a], headBuf, size) \in Int /\ messHead[a] >= 0
    <3>1. messHead[a] \in -1..MaxMessBufSize-1 /\ MaxMessBufSize \in Nat
      BY <2>2, Active, Places DEF TypeOK
    <3>2. messHead[a] \in Int /\ headBuf \in Int /\ size \in Int
      BY <2>2, <3>1, Places
    <3>3. QED
      BY <2>4, <3>2 DEF Ahead, ReadUpTo
  <2>8. mBuf[i] <= count - Ahead(messHead[a], headBuf, size)
    BY <2>1, <2>4, <2>5, <2>6, <2>7 DEF ReadUpTo
  <2>9. QED
    BY <2>2, <2>5, <2>7, <2>8 DEF ReadIsWritten, ReadWell
<1>2. QED
  BY Invariance, ReadInvariance, LastTurnInvariance, <1>1, PTL

-----------------------------------------------------------------------------
(* The order in the archives                                               *)

\* Only the task writes: messPut() is called for the buffer.
TaskOnly == Targets \subseteq {"buffer"}

InOrder(s) ==
  \A j \in DOMAIN s : (\A i \in 1..j-1 : s[i] # s[j]) => \A i \in 1..j-1 : s[i] < s[j]

\* One after another.
Rising(t) == \A i, j \in DOMAIN t : i < j => t[i] < t[j]

LEMMA ConcatAt ==
  ASSUME NEW S, NEW s \in Seq(S), NEW t \in Seq(S), NEW j \in DOMAIN (s \o t)
  PROVE  /\ DOMAIN s = 1..Len(s) /\ DOMAIN t = 1..Len(t) /\ j \in Nat
         /\ Len(s) \in Nat /\ Len(t) \in Nat
         /\ \/ j \in 1..Len(s) /\ (s \o t)[j] = s[j]
            \/ /\ j > Len(s) /\ j - Len(s) \in 1..Len(t) /\ (s \o t)[j] = t[j - Len(s)]
<1>1. /\ DOMAIN s = 1..Len(s) /\ DOMAIN t = 1..Len(t)
      /\ Len(s) \in Nat /\ Len(t) \in Nat
  OBVIOUS
<1>2. /\ s \o t \in Seq(S) /\ Len(s \o t) = Len(s) + Len(t)
      /\ \A i \in 1..Len(s) + Len(t) : (s \o t)[i] = IF i <= Len(s) THEN s[i] ELSE t[i - Len(s)]
  BY ConcatProperties
<1>3. DOMAIN (s \o t) = 1..Len(s) + Len(t)
  BY <1>2, LenProperties
<1>4. j \in 1..Len(s) + Len(t)
  BY <1>3
<1>5. (s \o t)[j] = IF j <= Len(s) THEN s[j] ELSE t[j - Len(s)]
  BY <1>2, <1>4
<1>6. QED
  BY <1>1, <1>4, <1>5

\* What comes one after another, and is written already if what is written
\* comes behind it, keeps the order.
LEMMA InOrderPut ==
  ASSUME NEW s \in Seq(0..MaxMess), NEW t \in Seq(0..MaxMess), MaxMess \in Nat, InOrder(s), Rising(t),
         \A m \in Range(t), w \in Range(s) : m < w => m \in Range(s)
  PROVE  InOrder(s \o t)
<1>1. SUFFICES ASSUME NEW j \in DOMAIN (s \o t), \A i \in 1..j-1 : (s \o t)[i] # (s \o t)[j],
                      NEW i \in 1..j-1
               PROVE  (s \o t)[i] < (s \o t)[j]
  BY DEF InOrder
<1> DEFINE r == s \o t
<1>2. /\ DOMAIN s = 1..Len(s) /\ DOMAIN t = 1..Len(t) /\ j \in Nat
      /\ Len(s) \in Nat /\ Len(t) \in Nat
      /\ \/ j \in 1..Len(s) /\ r[j] = s[j]
         \/ j > Len(s) /\ j - Len(s) \in 1..Len(t) /\ r[j] = t[j - Len(s)]
  BY ConcatAt
<1>3. \A x \in 1..j : /\ x \in 1..Len(s) => r[x] = s[x]
                      /\ x > Len(s) => x - Len(s) \in 1..Len(t) /\ r[x] = t[x - Len(s)]
  <2>1. SUFFICES ASSUME NEW x \in 1..j
                 PROVE  /\ x \in 1..Len(s) => r[x] = s[x]
                        /\ x > Len(s) => x - Len(s) \in 1..Len(t) /\ r[x] = t[x - Len(s)]
    OBVIOUS
  <2>2. r \in Seq(0..MaxMess) /\ DOMAIN r = 1..Len(r)
    BY ConcatProperties, LenProperties
  <2>3. x \in DOMAIN r
    BY <2>2, <1>2
  <2>4. /\ Len(s) \in Nat
        /\ \/ x \in 1..Len(s) /\ r[x] = s[x]
           \/ x > Len(s) /\ x - Len(s) \in 1..Len(t) /\ r[x] = t[x - Len(s)]
    BY <2>3, ConcatAt
  <2> HIDE DEF r
  <2>5. QED
    BY <2>4
<1>4. \A x \in 1..j-1 : r[x] # r[j]
  BY <1>1
<1> HIDE DEF r
<1>5. \A k \in 1..Len(t) : t[k] \in 0..MaxMess
  BY <1>2, ElementOfSeq
<1>6. \A k \in 1..Len(s) : s[k] \in 0..MaxMess
  BY <1>2, ElementOfSeq
<1>7. i \in 1..j /\ i < j
  BY <1>2
<1>8. CASE j \in 1..Len(s)
  <2>1. r[j] = s[j] /\ \A x \in 1..j-1 : r[x] = s[x]
    <3>1. \A x \in 1..j-1 : x \in 1..j /\ x \in 1..Len(s)
      BY <1>2, <1>8
    <3>2. QED
      BY <1>2, <1>3, <1>8, <3>1
  <2>2. \A x \in 1..j-1 : s[x] # s[j]
    BY <1>4, <2>1
  <2>3. s[i] < s[j]
    BY <1>2, <1>8, <2>2 DEF InOrder
  <2>4. QED
    BY <2>1, <2>3 DEF r
<1>9. CASE ~(j \in 1..Len(s))
  <2>1. j > Len(s) /\ j - Len(s) \in 1..Len(t) /\ r[j] = t[j - Len(s)]
    BY <1>2, <1>9
  <2>2. CASE i > Len(s)
    <3>1. i - Len(s) \in 1..Len(t) /\ r[i] = t[i - Len(s)] /\ i - Len(s) < j - Len(s)
      BY <1>2, <1>3, <1>7, <2>2
    <3>2. t[i - Len(s)] < t[j - Len(s)]
      BY <1>2, <2>1, <3>1 DEF Rising
    <3>3. QED
      BY <2>1, <3>1, <3>2 DEF r
  <2>3. CASE ~(i > Len(s))
    <3>1. i \in 1..Len(s) /\ r[i] = s[i]
      BY <1>2, <1>3, <1>7, <2>3
    <3>2. r[j] \notin Range(s)
      <4>1. \A x \in 1..Len(s) : x \in 1..j-1 /\ x \in 1..j
        BY <1>2, <2>1
      <4>2. \A x \in 1..Len(s) : r[x] = s[x]
        BY <1>3, <4>1
      <4>3. QED
        BY <1>2, <1>4, <4>1, <4>2 DEF Range
    <3>3. r[j] \in Range(t) /\ s[i] \in Range(s)
      BY <1>2, <2>1, <3>1 DEF Range
    <3>4. ~(r[j] < s[i]) /\ r[j] # s[i]
      BY <3>2, <3>3
    <3>5. r[j] \in 0..MaxMess /\ s[i] \in 0..MaxMess
      BY <1>5, <1>6, <2>1, <3>1
    <3>6. QED
      BY <3>1, <3>4, <3>5 DEF r
  <2>4. QED
    BY <2>2, <2>3
<1>10. QED
  BY <1>8, <1>9

\* What is newer than all that is written is written once.
LEMMA OncePut ==
  ASSUME NEW s \in Seq(0..MaxMess), NEW t \in Seq(0..MaxMess), MaxMess \in Nat,
         IsInjective(s), Rising(t),
         \A m \in Range(t), w \in Range(s) : w < m
  PROVE  IsInjective(s \o t)
<1>1. SUFFICES ASSUME NEW i \in DOMAIN (s \o t), NEW j \in DOMAIN (s \o t),
                      (s \o t)[i] = (s \o t)[j], i # j
               PROVE  FALSE
  BY DEF IsInjective
<1> DEFINE r == s \o t
           n == Len(s)
<1>2. /\ DOMAIN s = 1..n /\ DOMAIN t = 1..Len(t) /\ n \in Nat /\ Len(t) \in Nat
      /\ i \in Nat /\ j \in Nat
      /\ \/ i \in 1..n /\ r[i] = s[i]
         \/ i > n /\ i - n \in 1..Len(t) /\ r[i] = t[i - n]
      /\ \/ j \in 1..n /\ r[j] = s[j]
         \/ j > n /\ j - n \in 1..Len(t) /\ r[j] = t[j - n]
  BY ConcatAt
<1>3. r[i] = r[j]
  BY <1>1
<1> HIDE DEF r, n
<1>4. \A k \in 1..Len(t) : t[k] \in 0..MaxMess /\ t[k] \in Range(t)
  BY <1>2, ElementOfSeq DEF Range
<1>5. \A k \in 1..n : s[k] \in 0..MaxMess /\ s[k] \in Range(s)
  BY <1>2, ElementOfSeq DEF Range, n
<1>6. \A k \in 1..n, l \in 1..Len(t) : s[k] < t[l] /\ s[k] # t[l]
  BY <1>4, <1>5
<1>7. CASE i \in 1..n /\ j \in 1..n
  <2>1. s[i] = s[j]
    BY <1>2, <1>3, <1>7
  <2>2. \A x, y \in 1..n : s[x] = s[y] => x = y
    BY <1>2 DEF IsInjective
  <2>3. QED
    BY <1>1, <1>7, <2>1, <2>2
<1>8. CASE i > n /\ j > n
  <2>1. i - n \in 1..Len(t) /\ j - n \in 1..Len(t) /\ t[i - n] = t[j - n]
    BY <1>2, <1>3, <1>8
  <2>2. i - n < j - n \/ j - n < i - n
    BY <1>1, <1>2
  <2>3. t[i - n] < t[j - n] \/ t[j - n] < t[i - n]
    BY <1>2, <2>1, <2>2 DEF Rising
  <2>4. t[i - n] \in Int
    BY <1>4, <2>1
  <2>5. QED
    BY <2>1, <2>3, <2>4
<1>9. CASE i \in 1..n /\ j > n
  <2>1. j - n \in 1..Len(t) /\ s[i] = t[j - n]
    BY <1>2, <1>3, <1>9
  <2>2. QED
    BY <1>6, <1>9, <2>1
<1>10. CASE i > n /\ j \in 1..n
  <2>1. i - n \in 1..Len(t) /\ s[j] = t[i - n]
    BY <1>2, <1>3, <1>10
  <2>2. QED
    BY <1>6, <1>10, <2>1
<1>11. QED
  BY <1>2, <1>7, <1>8, <1>9, <1>10

\* All that is written came.
OnlyCame == \A a \in Archivers : \A w \in Range(archived[a]) : w <= count

\* An archive has no gap among the messages the ring keeps.
NoGap ==
  \A a \in Archivers : \A m \in 1..count, w \in Range(archived[a]) :
    InRing(m) /\ m < w => m \in Range(archived[a])

\* Of the messages the task holds those are written already that come first.
PutInOrder ==
  pc = "put" => \A m \in Range(oMess), w \in Range(archived[cur]) :
    m < w => m \in Range(archived[cur])

OInv == direct = {} /\ OnlyCame /\ NoGap /\ PutInOrder /\ ArchivedInOrder

\* The messages the task holds are one after another.
LEMMA HeldRise ==
  ASSUME TypeOK, AtPut, pc \in Writing
  PROVE  /\ Rising(oMess) /\ Len(oMess) \in Nat \ {0} /\ DOMAIN oMess = 1..Len(oMess)
         /\ oMess[1] \in Nat /\ Last(oMess) \in Nat
         /\ \A m \in Range(oMess) : m \in Nat /\ oMess[1] <= m /\ m <= Last(oMess)
         /\ \A k \in 1..Len(oMess) : \A m \in Nat :
              oMess[1] <= m /\ m <= oMess[k] => \E l \in 1..k : oMess[l] = m
<1>1. oMess \in Seq(0..MaxMess) /\ Len(oMess) \in Nat \ {0} /\ DOMAIN oMess = 1..Len(oMess)
  BY DEF TypeOK, AtPut
<1>2. \A k \in 1..Len(oMess) : oMess[k] = oMess[1] + k - 1
  BY DEF AtPut
<1>3. oMess[1] \in Nat
  <2>1. 1 \in 1..Len(oMess)
    BY <1>1
  <2>2. oMess[1] \in 0..MaxMess
    BY <1>1, <2>1, ElementOfSeq
  <2>3. QED
    BY <2>2
<1>4. Last(oMess) = oMess[1] + Len(oMess) - 1
  BY <1>1, <1>2 DEF Last
<1>5. Rising(oMess)
  BY <1>1, <1>2, <1>3 DEF Rising
<1>6. \A m \in Range(oMess) : m \in Nat /\ oMess[1] <= m /\ m <= Last(oMess)
  BY <1>1, <1>2, <1>3, <1>4 DEF Range
<1>7. ASSUME NEW k \in 1..Len(oMess), NEW m \in Nat, oMess[1] <= m, m <= oMess[k]
      PROVE  \E l \in 1..k : oMess[l] = m
  <2>1. oMess[k] = oMess[1] + k - 1
    BY <1>2
  <2>2. m - oMess[1] + 1 \in 1..k /\ m - oMess[1] + 1 \in 1..Len(oMess)
    BY <1>1, <1>3, <1>7, <2>1
  <2>3. oMess[m - oMess[1] + 1] = oMess[1] + (m - oMess[1] + 1) - 1
    BY <1>2, <2>2
  <2>4. oMess[m - oMess[1] + 1] = m
    BY <1>3, <1>7, <2>3
  <2>5. QED
    BY <2>2, <2>4
<1>8. QED
  BY <1>1, <1>3, <1>4, <1>5, <1>6, <1>7

\* put() writes the first k of the messages the task holds: all, or a part.
Puts(k) ==
  /\ archived' = [archived EXCEPT ![cur] = @ \o SubSeq(oMess, 1, k)]

LEMMA PutWrites ==
  ASSUME TypeOK, AtPut, pc = "put", Written \/ Failed
  PROVE  archived' = archived \/ \E k \in 0..Len(oMess) : Puts(k)
<1>1. CASE Written
  <2>1. oMess \in Seq(0..MaxMess) /\ Len(oMess) \in 0..Len(oMess)
    BY DEF TypeOK
  <2>2. SubSeq(oMess, 1, Len(oMess)) = oMess
    BY <2>1, SubSeqFull
  <2>3. QED
    BY <1>1, <2>1, <2>2 DEF Written, Puts
<1>2. CASE Failed
  BY <1>2, FailedPart DEF Puts
<1>3. QED
  BY <1>1, <1>2

LEMMA PutsWhat ==
  ASSUME TypeOK, AtPut, pc = "put", NEW k \in 0..Len(oMess), Puts(k)
  PROVE  LET t == SubSeq(oMess, 1, k)
         IN  /\ t \in Seq(0..MaxMess) /\ Rising(t)
             /\ Range(t) \subseteq Range(oMess)
             /\ \A m \in Nat, w \in Range(t) : oMess[1] <= m /\ m <= w => m \in Range(t)
             /\ archived'[cur] = archived[cur] \o t
             /\ Range(archived'[cur]) = Range(archived[cur]) \cup Range(t)
             /\ \A a \in Archivers : a # cur => archived'[a] = archived[a]
<1> DEFINE t == SubSeq(oMess, 1, k)
<1>1. t \in Seq(0..MaxMess) /\ Len(t) = k /\ \A i \in 1..k : t[i] = oMess[i]
  BY PutPart
<1>2. archived' = [archived EXCEPT ![cur] = @ \o t]
  BY DEF Puts
<1> HIDE DEF t
<1>3. pc \in Writing
  BY DEF Writing
<1>4. /\ Rising(oMess) /\ Len(oMess) \in Nat \ {0} /\ DOMAIN oMess = 1..Len(oMess)
      /\ \A j \in 1..Len(oMess) : \A m \in Nat :
           oMess[1] <= m /\ m <= oMess[j] => \E l \in 1..j : oMess[l] = m
  BY <1>3, HeldRise
<1>5. DOMAIN t = 1..k /\ \A i \in 1..k : i \in 1..Len(oMess)
  BY <1>1, <1>4
<1>6. Rising(t)
  BY <1>1, <1>4, <1>5 DEF Rising
<1>7. Range(t) \subseteq Range(oMess)
  BY <1>1, <1>4, <1>5 DEF Range
<1>8. ASSUME NEW m \in Nat, NEW w \in Range(t), oMess[1] <= m, m <= w
      PROVE  m \in Range(t)
  <2>1. PICK j \in 1..k : w = oMess[j]
    BY <1>1, <1>5 DEF Range
  <2>2. PICK l \in 1..j : oMess[l] = m
    BY <1>4, <1>5, <1>8, <2>1
  <2>3. l \in 1..k
    BY <1>4, <2>1, <2>2
  <2>4. QED
    BY <1>1, <1>5, <2>2, <2>3 DEF Range
<1>9. /\ archived'[cur] = archived[cur] \o t
      /\ Range(archived'[cur]) = Range(archived[cur]) \cup Range(t)
      /\ \A a \in Archivers : a # cur => archived'[a] = archived[a]
  BY <1>1, <1>2, PutRange
<1>10. QED
  BY <1>1, <1>6, <1>7, <1>8, <1>9 DEF t

LEMMA InOrderMeans == ArchivedInOrder <=> \A a \in Archivers : InOrder(archived[a])
  BY DEF ArchivedInOrder, InOrder

LEMMA InitOInv == Init => OInv
<1> SUFFICES ASSUME Init PROVE OInv
  OBVIOUS
<1>1. \A a \in Archivers : archived[a] = <<>> /\ Range(archived[a]) = {}
  BY DEF Init, Range
<1>2. OnlyCame /\ NoGap
  BY <1>1 DEF OnlyCame, NoGap
<1>5. ArchivedInOrder
  <2>1. \A a \in Archivers : DOMAIN archived[a] = {}
    BY <1>1
  <2>2. QED
    BY <2>1 DEF ArchivedInOrder
<1>3. PutInOrder /\ direct = {}
  BY DEF Init, PutInOrder
<1>4. QED
  BY <1>2, <1>3, <1>5 DEF OInv

\* The archives change at the task's put() only.
LEMMA OnlyTheTask ==
  ASSUME TypeOK, FixedRing, TaskOnly, direct = {}, [Next]_vars
  PROVE  /\ direct' = {} /\ size' = size
         /\ UNCHANGED archived \/ Written \/ Failed
         /\ Take \/ pc' # "put" \/ (pc = "put" /\ UNCHANGED <<cur, oMess>>)
<1>1. ASSUME NEW arch \in Targets, MessPut(arch)
      PROVE  /\ direct' = {} /\ size' = size /\ UNCHANGED <<archived, pc, cur, oMess>>
  BY <1>1 DEF TaskOnly, MessPut, ToRing, task
<1>2. ASSUME NEW a \in Archivers, NEW m \in 1..MaxMess, DirectPut(a, m) PROVE FALSE
  BY <1>2 DEF DirectPut
<1>3. ASSUME NEW l \in Lens PROVE FALSE
  BY DEF FixedRing
<1>4. ASSUME ArhMessTask
      PROVE  /\ direct' = {} /\ size' = size
             /\ UNCHANGED archived \/ Written \/ Failed
             /\ Take \/ pc' # "put"
  BY <1>4 DEF ArhMessTask, Wake, Skip, Take, Written, Failed, Complain, Relock, PassEnd, ToRing, ring
<1>5. ASSUME Destroy \/ UNCHANGED vars
             \/ \E a \in Archivers : StartArchiver(a) \/ StopArchiver(a) \/ UpdateArchiver(a)
      PROVE  /\ direct' = {} /\ size' = size /\ UNCHANGED <<archived, pc, cur, oMess>>
  BY <1>5 DEF Destroy, StartArchiver, StopArchiver, UpdateArchiver, vars, ring, task
<1>6. QED
  BY <1>1, <1>2, <1>3, <1>4, <1>5 DEF Next, Ended

LEMMA StillAfter ==
  ASSUME NEW m \in Nat, NEW n \in Nat, NEW c \in Nat, NEW s \in Nat, n <= c, m > c - s + 1
  PROVE  m > n - s + 1
  OBVIOUS

LEMMA NextOInv == BInv /\ FixedRing /\ TaskOnly /\ RInv /\ OInv /\ [Next]_vars => OInv'
<1> SUFFICES ASSUME BInv, FixedRing, TaskOnly, RInv, OInv, [Next]_vars PROVE OInv'
  OBVIOUS
<1> USE MessBufAssumption
<1>0. /\ TypeOK /\ RingAt /\ ReadIsWritten /\ AtPut
      /\ direct = {} /\ OnlyCame /\ NoGap /\ PutInOrder /\ ArchivedInOrder
  BY DEF BInv, RInv, OInv
<1>1. /\ direct' = {} /\ size' = size
      /\ UNCHANGED archived \/ Written \/ Failed
      /\ Take \/ pc' # "put" \/ (pc = "put" /\ UNCHANGED <<cur, oMess>>)
  BY <1>0, OnlyTheTask
<1>2. /\ count' >= count /\ count \in Nat /\ count' \in Nat /\ size \in Nat /\ MaxMess \in Nat
      /\ archived \in [Archivers -> Seq(0..MaxMess)] /\ cur \in Archivers
  <2>1. count' \in 0..MaxMess
    BY NextBInv DEF BInv, TypeOK
  <2>2. /\ count \in 0..MaxMess /\ MaxMess \in Nat
        /\ archived \in [Archivers -> Seq(0..MaxMess)] /\ cur \in Archivers
    BY <1>0 DEF TypeOK, MessBufAssumption
  <2>3. size \in Nat
    BY <1>0, Places
  <2>4. count' >= count
    BY <1>0, NumbersGrow
  <2>5. QED
    BY <2>1, <2>2, <2>3, <2>4
<1>3. \A a \in Archivers : archived[a] \in Seq(0..MaxMess) /\ Range(archived[a]) \subseteq 0..MaxMess
  BY <1>2, RangeOfSeq
<1>4. ASSUME UNCHANGED archived, PutInOrder' PROVE OInv'
  <2>1. OnlyCame'
    <3>1. SUFFICES ASSUME NEW a \in Archivers, NEW w \in Range(archived[a]) PROVE w <= count'
      BY <1>4 DEF OnlyCame
    <3>2. w <= count /\ w \in 0..MaxMess
      BY <1>0, <1>3 DEF OnlyCame
    <3>3. QED
      BY <1>2, <3>2
  <2>2. NoGap'
    <3>1. SUFFICES ASSUME NEW a \in Archivers, NEW m \in 1..count', NEW w \in Range(archived[a]),
                          InRing(m)', m < w
                   PROVE  m \in Range(archived[a])
      BY <1>4 DEF NoGap
    <3>2. w <= count /\ w \in 0..MaxMess
      BY <1>0, <1>3 DEF OnlyCame
    <3>3. m \in 1..count
      BY <1>2, <3>1, <3>2
    <3>4. InRing(m)
      <4>1. m > count' - size' + 1
        BY <3>1 DEF InRing
      <4>4. m > count' - size + 1
        <5>1. size' = size
          BY <1>1
        <5>2. QED
          BY <4>1, <5>1
      <4>5. m \in Nat /\ count \in Nat /\ count' \in Nat /\ size \in Nat /\ count' >= count
        BY <1>2, <3>3
      <4>2. m > count - size + 1
        BY <4>4, <4>5, StillAfter
      <4>3. QED
        BY <4>2 DEF InRing
    <3>5. QED
      BY <1>0, <3>1, <3>3, <3>4 DEF NoGap
  <2>3. ArchivedInOrder'
    BY <1>0, <1>4 DEF ArchivedInOrder
  <2>4. QED
    BY <1>1, <1>4, <2>1, <2>2, <2>3 DEF OInv
<1>5. CASE Take
  <2>1. UNCHANGED archived
    BY <1>5 DEF Take
  <2>2. PICK a \in Range(actMess), h \in Nat, u \in 1..size-1 : a \in Archivers /\ TakesUpTo(a, h, u)
    BY <1>0, <1>5, TakeReads
  <2>3. /\ u <= count /\ cur' = a /\ Len(oMess') = u /\ \A k \in 1..u : oMess'[k] = count - u + k
    BY <2>2 DEF TakesUpTo
  <2>4. DOMAIN oMess' = 1..u
    <3>1. oMess' \in Seq(0..MaxMess)
      BY NextBInv DEF BInv, TypeOK
    <3>2. QED
      BY <2>3, <3>1
  <2>5. ASSUME NEW m \in Range(oMess'), NEW w \in Range(archived[a]), m < w
        PROVE  m \in Range(archived[a])
    <3>1. PICK k \in 1..u : m = count - u + k
      BY <2>3, <2>4 DEF Range
    <3>2. w <= count /\ w \in 0..MaxMess
      BY <1>0, <1>3, <2>2 DEF OnlyCame
    <3>3. m \in 1..count /\ InRing(m)
      BY <1>2, <2>2, <2>3, <3>1 DEF InRing
    <3>4. QED
      BY <1>0, <2>2, <2>5, <3>3 DEF NoGap
  <2>6. PutInOrder'
    BY <2>1, <2>3, <2>5 DEF PutInOrder
  <2>7. QED
    BY <1>4, <2>1, <2>6
<1>6. CASE UNCHANGED archived /\ (pc' # "put" \/ (pc = "put" /\ UNCHANGED <<cur, oMess>>))
  <2>1. PutInOrder'
    BY <1>0, <1>6 DEF PutInOrder
  <2>2. QED
    BY <1>4, <1>6, <2>1
<1>7. CASE Written \/ Failed
  <2>1. UNCHANGED <<ring, cur, oMess>> /\ pc = "put" /\ pc' # "put"
    BY <1>7 DEF Written, Failed
  <2>2. CASE UNCHANGED archived
    BY <1>6, <2>1, <2>2
  <2>3. ASSUME NEW k \in 0..Len(oMess), Puts(k) PROVE OInv'
    <3>1. PICK t : t = SubSeq(oMess, 1, k)
      OBVIOUS
    <3>2. /\ t \in Seq(0..MaxMess) /\ Rising(t) /\ Range(t) \subseteq Range(oMess)
          /\ \A m \in Nat, w \in Range(t) : oMess[1] <= m /\ m <= w => m \in Range(t)
          /\ archived'[cur] = archived[cur] \o t
          /\ Range(archived'[cur]) = Range(archived[cur]) \cup Range(t)
          /\ \A a \in Archivers : a # cur => archived'[a] = archived[a]
      BY <1>0, <2>1, <2>3, <3>1, PutsWhat
    <3>3. /\ count' = count
          /\ \A m : InRing(m)' = InRing(m)
      BY <2>1 DEF InRing, ring
    <3>4. /\ oMess[1] \in Nat /\ Last(oMess) \in Nat /\ Last(oMess) <= count
          /\ \A m \in Range(oMess) : m \in Nat /\ oMess[1] <= m /\ m <= Last(oMess)
          /\ \A m \in 1..count : InRing(m) /\ m < oMess[1] => m \in Range(archived[cur])
      BY <1>0, <2>1, HeldRise DEF AtPut, Writing
    <3>5. OnlyCame'
      <4>1. SUFFICES ASSUME NEW a \in Archivers, NEW w \in Range(archived'[a]) PROVE w <= count
        BY <3>3 DEF OnlyCame
      <4>2. CASE w \in Range(archived[a])
        BY <1>0, <4>2 DEF OnlyCame
      <4>3. CASE w \notin Range(archived[a])
        <5>1. w \in Range(oMess)
          BY <3>2, <4>1, <4>3
        <5>2. QED
          BY <1>2, <3>4, <5>1
      <4>4. QED
        BY <4>2, <4>3
    <3>6. NoGap'
      <4>1. SUFFICES ASSUME NEW a \in Archivers, NEW m \in 1..count, NEW w \in Range(archived'[a]),
                            InRing(m), m < w
                     PROVE  m \in Range(archived'[a])
        BY <3>3 DEF NoGap
      <4>2. Range(archived[a]) \subseteq Range(archived'[a])
        BY <3>2
      <4>3. CASE w \in Range(archived[a])
        BY <1>0, <4>1, <4>2, <4>3 DEF NoGap
      <4>4. CASE w \notin Range(archived[a])
        <5>1. a = cur /\ w \in Range(t)
          BY <3>2, <4>1, <4>4
        <5>2. CASE m < oMess[1]
          BY <3>4, <4>1, <4>2, <5>1, <5>2
        <5>3. CASE ~(m < oMess[1])
          <6>1. m \in Nat /\ oMess[1] <= m
            BY <3>4, <5>3
          <6>2. m <= w
            BY <3>2, <3>4, <4>1, <5>1
          <6>3. QED
            BY <3>2, <5>1, <6>1, <6>2
        <5>4. QED
          BY <5>2, <5>3
      <4>5. QED
        BY <4>3, <4>4
    <3>7. ArchivedInOrder'
      <4>1. InOrder(archived'[cur])
        <5>1. InOrder(archived[cur]) /\ archived[cur] \in Seq(0..MaxMess)
          BY <1>0, <1>2, <1>3, InOrderMeans
        <5>2. \A m \in Range(t), w \in Range(archived[cur]) : m < w => m \in Range(archived[cur])
          BY <1>0, <2>1, <3>2 DEF PutInOrder
        <5>3. InOrder(archived[cur] \o t)
          BY <1>2, <3>2, <5>1, <5>2, InOrderPut
        <5>4. QED
          BY <3>2, <5>3
      <4>2. \A a \in Archivers : InOrder(archived'[a])
        BY <1>0, <3>2, <4>1, InOrderMeans
      <4>3. QED
        BY <4>2 DEF ArchivedInOrder, InOrder
    <3>8. PutInOrder'
      BY <2>1 DEF PutInOrder
    <3>9. QED
      BY <1>1, <3>5, <3>6, <3>7, <3>8 DEF OInv
  <2>4. QED
    BY <1>0, <1>7, <2>1, <2>2, <2>3, PutWrites
<1>8. QED
  BY <1>1, <1>5, <1>6, <1>7

THEOREM OrderInvariance == ASSUME FixedRing, TaskOnly PROVE Spec => []OInv
<1>1. BInv /\ RInv /\ OInv /\ [Next]_vars => OInv'
  BY NextOInv
<1>2. QED
  BY Invariance, ReadInvariance, InitOInv, <1>1, PTL DEF Spec

\* An archiver that fails after a part, or is stopped and started, is given the
\* same messages again, and the ring may have lost some in between: still it
\* never is given for the first time a message older than one it has.
THEOREM OrderIsKept == ASSUME FixedRing, TaskOnly PROVE Spec => []ArchivedInOrder
<1>1. OInv => ArchivedInOrder
  BY DEF OInv
<1>2. QED
  BY OrderInvariance, <1>1, PTL

-----------------------------------------------------------------------------
(* Each message is written once                                            *)

\* The subsystem is not updated while it runs.
NoUpdates == MaxUpdates = 0

\* No archiver is given a message twice.
Once == \A a \in Archivers : IsInjective(archived[a])

\* What is written is read, but for what is just written.
WrittenIsRead ==
  \A a \in Archivers : \A w \in Range(archived[a]) : (pc = "wrote" /\ a = cur) \/ ReadUpTo(a, w)

\* What the task holds is newer than what is written, until it is written.
HeldIsNew ==
  /\ pc = "put" => \A w \in Range(archived[cur]) : w < oMess[1]
  /\ pc = "wrote" => \A w \in Range(archived[cur]) : w <= Last(oMess)

WInv == fails = 0 /\ stops = 0 => Once /\ WrittenIsRead /\ HeldIsNew

LEMMA InitWInv == Init => WInv
<1> SUFFICES ASSUME Init PROVE WInv
  OBVIOUS
<1>1. \A a \in Archivers : archived[a] = <<>> /\ DOMAIN archived[a] = {} /\ Range(archived[a]) = {}
  BY DEF Init, Range
<1>2. Once
  BY <1>1 DEF Once, IsInjective
<1>3. WrittenIsRead /\ HeldIsNew
  BY <1>1 DEF Init, WrittenIsRead, HeldIsNew
<1>4. QED
  BY <1>2, <1>3 DEF WInv

\* What comes into the ring leaves what is written read.
LEMMA WritesStay ==
  ASSUME MessBufAssumption, TypeOK, ReadIsWritten, Range(actMess) = Archivers,
         Once, WrittenIsRead, HeldIsNew, UNCHANGED <<archived, pc, cur, oMess>>,
         ToRing \/ UNCHANGED <<ring, messHead>>
  PROVE  Once' /\ WrittenIsRead' /\ HeldIsNew'
<1>1. Once' /\ HeldIsNew'
  BY DEF Once, HeldIsNew, Last
<1>2. ASSUME NEW a \in Archivers, NEW w \in Range(archived[a]), ~(pc = "wrote" /\ a = cur)
      PROVE  messHead'[a] >= 0 /\ w <= count' - Ahead(messHead'[a], headBuf', size')
  <2>1. w \in 0..MaxMess /\ MaxMess \in Nat
    BY RangeOfSeq, Places DEF TypeOK
  <2>2. w \in Int /\ a \in Range(actMess) /\ ReadUpTo(a, w)
    BY <1>2, <2>1 DEF WrittenIsRead
  <2>3. QED
    BY <2>2, UpToStays
<1>3. WrittenIsRead'
  BY <1>2 DEF WrittenIsRead, ReadUpTo
<1>4. QED
  BY <1>1, <1>3

\* A head that moves to the last of the messages read keeps what is written read.
LEMMA HeadMoves ==
  ASSUME NEW a \in Archivers, WrittenIsRead, UNCHANGED <<ring, archived>>, pc' = "scan" \/ pc' = "put",
         \A b \in Archivers : b # a => messHead'[b] = messHead[b],
         pc = "wrote" => a = cur,
         \A w \in Range(archived[a]) :
           messHead'[a] >= 0 /\ w <= count - Ahead(messHead'[a], headBuf, size)
  PROVE  WrittenIsRead'
<1>1. size' = size /\ headBuf' = headBuf /\ count' = count
  BY DEF ring
<1>2. ASSUME NEW b \in Archivers, NEW w \in Range(archived[b])
      PROVE  messHead'[b] >= 0 /\ w <= count - Ahead(messHead'[b], headBuf, size)
  <2>1. CASE b = a
    BY <1>2, <2>1
  <2>2. CASE b # a
    BY <1>2, <2>2 DEF WrittenIsRead, ReadUpTo
  <2>3. QED
    BY <2>1, <2>2
<1>3. QED
  BY <1>1, <1>2 DEF WrittenIsRead, ReadUpTo

LEMMA NextWInv ==
  BInv /\ FixedRing /\ TaskOnly /\ NoUpdates /\ RInv /\ LInv /\ OInv /\ WInv /\ [Next]_vars => WInv'
<1> SUFFICES ASSUME BInv, FixedRing, TaskOnly, NoUpdates, RInv, LInv, OInv, WInv, [Next]_vars,
                    fails' = 0, stops' = 0
             PROVE  (Once /\ WrittenIsRead /\ HeldIsNew)'
  BY DEF WInv
<1> USE MessBufAssumption
<1>0. /\ TypeOK /\ RingAt /\ ReadIsWritten /\ AtPut /\ AllStarted /\ OnlyCame /\ direct = {}
      /\ fails = 0 /\ stops = 0
  BY NumbersGrow DEF BInv, RInv, LInv, OInv
<1>1. /\ Range(actMess) = Archivers /\ pc \notin {"threw", "complain", "failed"}
      /\ Once /\ WrittenIsRead /\ HeldIsNew
  BY <1>0 DEF AllStarted, WInv
<1>2. /\ count \in Nat /\ size \in Nat /\ headBuf \in Nat /\ MaxMess \in Nat /\ cur \in Archivers
      /\ archived \in [Archivers -> Seq(0..MaxMess)]
  BY <1>0, Places DEF TypeOK
<1>3. \A a \in Archivers : \A w \in Range(archived[a]) : w \in Nat /\ w <= count
  <2>1. \A a \in Archivers : Range(archived[a]) \subseteq 0..MaxMess
    BY <1>2, RangeOfSeq
  <2>2. QED
    BY <1>0, <1>2, <2>1 DEF OnlyCame
\* Steps that neither write nor take.
<1>4. ASSUME UNCHANGED <<archived, cur, oMess>>, UNCHANGED <<ring, messHead>>,
             pc \notin {"put", "wrote"}, pc' \notin {"put", "wrote"}
      PROVE  (Once /\ WrittenIsRead /\ HeldIsNew)'
  BY <1>1, <1>4 DEF Once, WrittenIsRead, HeldIsNew, ReadUpTo, ring
<1>5. ASSUME UNCHANGED <<archived, pc, cur, oMess>>, ToRing \/ UNCHANGED <<ring, messHead>>
      PROVE  (Once /\ WrittenIsRead /\ HeldIsNew)'
  BY <1>0, <1>1, <1>5, WritesStay
<1>6. CASE Wake \/ PassEnd
  BY <1>4, <1>6 DEF Wake, PassEnd
<1>7. CASE Skip
  <2>1. PICK a \in Archivers : a = actMess[iM]
    <3>1. actMess \in Seq(Archivers) /\ iM \in 1..Len(actMess)
      BY <1>0, <1>7 DEF TypeOK, Skip
    <3>2. QED
      BY <3>1, ElementOfSeq
  <2>2. /\ UNCHANGED <<ring, archived, pc, cur, oMess>> /\ pc = "scan"
        /\ messHead' = [messHead EXCEPT ![a] = headBuf]
    BY <1>7, <2>1 DEF Skip
  <2>3. messHead'[a] = headBuf /\ \A b \in Archivers : b # a => messHead'[b] = messHead[b]
    BY <1>0, <2>1, <2>2 DEF TypeOK
  <2>4. \A w \in Range(archived[a]) :
          messHead'[a] >= 0 /\ w <= count - Ahead(messHead'[a], headBuf, size)
    BY <1>2, <1>3, <2>3 DEF Ahead
  <2>5. WrittenIsRead'
    BY <1>1, <2>2, <2>3, <2>4, HeadMoves
  <2>6. QED
    BY <1>1, <2>2, <2>5 DEF Once, HeldIsNew
<1>8. CASE Take
  <2>1. PICK a \in Range(actMess), h \in Nat, u \in 1..size-1 : a \in Archivers /\ TakesUpTo(a, h, u)
    BY <1>0, <1>8, TakeReads
  <2>2. /\ UNCHANGED <<ring, archived>> /\ pc = "scan" /\ pc' = "put"
    BY <1>8 DEF Take
  <2>3. /\ cur' = a /\ messHead'[a] = h /\ oMess'[1] = count - u + 1
        /\ h = ReadFrom(a) /\ u = Ahead(h, headBuf, size)
        /\ \A b \in Archivers : b # a => messHead'[b] = messHead[b]
    BY <2>1 DEF TakesUpTo
  <2>4. \A w \in Range(archived[a]) : w <= count - u
    <3>1. SUFFICES ASSUME NEW w \in Range(archived[a]) PROVE w <= count - u
      OBVIOUS
    <3>2. ReadUpTo(a, w)
      BY <1>1, <2>1, <2>2 DEF WrittenIsRead
    <3>3. h = messHead[a]
      BY <2>3, <3>2 DEF ReadUpTo, ReadFrom
    <3>4. QED
      BY <2>3, <3>2, <3>3 DEF ReadUpTo
  <2>5. WrittenIsRead'
    BY <1>1, <2>1, <2>2, <2>3, <2>4, HeadMoves
  <2>6. \A w \in Range(archived[a]) : w < oMess'[1]
    <3>1. u \in Int /\ count \in Int /\ oMess'[1] = count - u + 1
      BY <1>2, <2>1, <2>3
    <3>2. ASSUME NEW w \in Range(archived[a]) PROVE w < count - u + 1
      <4>1. w \in Nat /\ w <= count - u
        BY <1>3, <2>1, <2>4
      <4>2. QED
        BY <3>1, <4>1
    <3>3. QED
      BY <3>1, <3>2
  <2>7. HeldIsNew'
    BY <2>2, <2>3, <2>6 DEF HeldIsNew
  <2>8. QED
    BY <1>1, <2>2, <2>5, <2>7 DEF Once
<1>9. CASE Written
  <2>1. /\ UNCHANGED <<ring, messHead, cur, oMess>> /\ pc = "put" /\ pc' = "wrote"
        /\ archived' = [archived EXCEPT ![cur] = @ \o oMess]
    BY <1>9 DEF Written
  <2>2. /\ Rising(oMess) /\ oMess[1] \in Nat /\ Last(oMess) \in Nat
        /\ \A m \in Range(oMess) : m \in Nat /\ oMess[1] <= m /\ m <= Last(oMess)
    BY <1>0, <2>1, HeldRise DEF Writing
  <2>3. oMess \in Seq(0..MaxMess) /\ archived[cur] \in Seq(0..MaxMess)
    BY <1>0, <1>2 DEF TypeOK
  <2>4. /\ archived'[cur] = archived[cur] \o oMess
        /\ \A a \in Archivers : a # cur => archived'[a] = archived[a]
    BY <1>2, <2>1
  <2>5. \A w \in Range(archived[cur]) : w \in Nat /\ w < oMess[1]
    BY <1>1, <1>2, <1>3, <2>1 DEF HeldIsNew
  <2>6. IsInjective(archived[cur] \o oMess)
    <3>1. \A m \in Range(oMess), w \in Range(archived[cur]) : w < m
      BY <2>2, <2>5
    <3>2. IsInjective(archived[cur])
      BY <1>1, <1>2 DEF Once
    <3>3. QED
      BY <1>2, <2>2, <2>3, <3>1, <3>2, OncePut
  <2>7. Once'
    BY <1>1, <2>4, <2>6 DEF Once
  <2>8. WrittenIsRead'
    <3>1. SUFFICES ASSUME NEW a \in Archivers, NEW w \in Range(archived[a]), a # cur
                   PROVE  ReadUpTo(a, w)
      BY <2>1, <2>4 DEF WrittenIsRead, ReadUpTo, ring
    <3>2. QED
      BY <1>1, <3>1 DEF WrittenIsRead
  <2>9. HeldIsNew'
    <3>1. Range(archived[cur] \o oMess) = Range(archived[cur]) \cup Range(oMess)
      BY <2>3, RangeConcatenation
    <3>2. 1 \in DOMAIN oMess /\ oMess[1] \in Range(oMess)
      BY <1>0, <2>1, HeldRise DEF Writing, Range
    <3>3. \A w \in Range(archived[cur] \o oMess) : w <= Last(oMess)
      BY <2>2, <2>5, <3>1, <3>2
    <3>4. QED
      BY <2>1, <2>4, <3>3 DEF HeldIsNew, Last
  <2>10. QED
    BY <2>7, <2>8, <2>9
<1>10. CASE Failed
  <2>1. cur \in Range(actMess)
    BY <1>1, <1>2
  <2>2. fails' = fails + 1
    BY <1>10, <2>1 DEF Failed
  <2>3. QED
    BY <1>0, <2>2
<1>11. CASE Complain
  BY <1>1, <1>11 DEF Complain
<1>12. CASE Relock
  <2>1. /\ UNCHANGED <<ring, archived, cur, oMess>> /\ pc = "wrote" /\ pc' = "scan"
        /\ messHead' = [messHead EXCEPT ![cur] = newHead]
    BY <1>1, <1>12 DEF Relock
  <2>2. PICK c \in Archivers : c = cur
    BY <1>2
  <2>3. messHead'[c] = newHead /\ \A b \in Archivers : b # c => messHead'[b] = messHead[b]
    BY <1>0, <2>1, <2>2 DEF TypeOK
  <2>4. newHead >= 0 /\ Ahead(newHead, headBuf, size) = count - Last(oMess) /\ Last(oMess) \in Nat
    <3>1. pc \in Writing
      BY <2>1 DEF Writing
    <3>2. newHead >= 0
      BY <1>0 DEF TypeOK
    <3>3. Ahead(newHead, headBuf, size) = count - Last(oMess)
      BY <1>0, <3>1 DEF AtPut
    <3>4. Last(oMess) \in Nat
      BY <1>0, <3>1, HeldRise
    <3>5. QED
      BY <3>2, <3>3, <3>4
  <2>5. \A w \in Range(archived[c]) : w <= Last(oMess)
    BY <1>1, <2>1, <2>2 DEF HeldIsNew
  <2>6. count - (count - Last(oMess)) = Last(oMess)
    BY <1>2, <2>4
  <2>7. \A w \in Range(archived[c]) :
          messHead'[c] >= 0 /\ w <= count - Ahead(messHead'[c], headBuf, size)
    BY <2>3, <2>4, <2>5, <2>6
  <2>8. WrittenIsRead'
    BY <1>1, <2>1, <2>2, <2>3, <2>7, HeadMoves
  <2>9. QED
    BY <1>1, <2>1, <2>8 DEF Once, HeldIsNew
<1>13. CASE Destroy \/ UNCHANGED vars
  BY <1>5, <1>13 DEF Destroy, vars, task
<1>14. ASSUME NEW arch \in Targets, MessPut(arch)
       PROVE  (Once /\ WrittenIsRead /\ HeldIsNew)'
  BY <1>5, <1>14 DEF MessPut, task
<1>15. ASSUME NEW a \in Archivers, NEW m \in 1..MaxMess, DirectPut(a, m) PROVE FALSE
  BY <1>0, <1>15 DEF DirectPut
<1>16. ASSUME NEW l \in Lens PROVE FALSE
  BY DEF FixedRing
<1>17. ASSUME NEW a \in Archivers, StartArchiver(a) \/ StopArchiver(a) \/ UpdateArchiver(a)
       PROVE  FALSE
  <2>1. ~StartArchiver(a)
    BY <1>1 DEF StartArchiver
  <2>2. ~StopArchiver(a)
    <3>1. StopArchiver(a) => stops' = stops + 1
      BY DEF StopArchiver
    <3>2. QED
      BY <1>0, <3>1
  <2>3. ~UpdateArchiver(a)
    <3>1. updates \in 0..MaxUpdates
      BY <1>0 DEF TypeOK
    <3>2. QED
      BY <3>1 DEF UpdateArchiver, NoUpdates
  <2>4. QED
    BY <1>17, <2>1, <2>2, <2>3
<1>18. QED
  BY <1>6, <1>7, <1>8, <1>9, <1>10, <1>11, <1>12, <1>13, <1>14, <1>15, <1>16, <1>17
     DEF Next, ArhMessTask, Ended

THEOREM OnceInvariance == ASSUME FixedRing, TaskOnly, NoUpdates PROVE Spec => []WInv
<1>1. BInv /\ RInv /\ LInv /\ OInv /\ WInv /\ [Next]_vars => WInv'
  BY NextWInv
<1>2. QED
  BY Invariance, ReadInvariance, LastTurnInvariance, OrderInvariance, InitWInv, <1>1, PTL DEF Spec

\* Where no writing failed, no archiver was stopped and the subsystem was not
\* updated, the reading head stands behind all that is written whenever the
\* task comes to the archiver, so it is given nothing twice.
THEOREM GivenOnce == ASSUME FixedRing, TaskOnly, NoUpdates PROVE Spec => []ArchivedOnce
<1>1. WInv => ArchivedOnce
  BY DEF WInv, Once, ArchivedOnce
<1>2. QED
  BY OnceInvariance, <1>1, PTL
=============================================================================
