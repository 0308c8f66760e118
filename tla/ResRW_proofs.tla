---------------------------- MODULE ResRW_proofs ----------------------------
(***************************************************************************)
(* Proofs about ResRW: the exclusion its guards give holds for any number  *)
(* of threads, nested guards and requests.                                 *)
(***************************************************************************)
EXTENDS ResRW, TLAPS

\* A thread that waits does it in its innermost guard, which holds nothing;
\* no scope that is not constructed holds anything.
TopAndAbove ==
  \A t \in Threads :
    /\ Waiting(t) => depth[t] > 0 /\ guards[t][depth[t]] = "no"
    /\ \A i \in Depths : i > depth[t] => guards[t][i] = "no"

\* A thread makes the write acquisition once.
OneWriteGuard ==
  \A t \in Threads, i \in Depths, j \in Depths :
    guards[t][i] = "W" /\ guards[t][j] = "W" => i = j

\* The rwlock itself: a writer and readers exclude each other.
WriterAlone == wrHold # NoThread => rdHold = {}

IInv ==
  /\ TypeOK
  /\ TopAndAbove
  /\ OneWriteGuard
  /\ WriterAlone
  /\ LockAccounting
  /\ BorrowedIsCovered

-----------------------------------------------------------------------------
(* Effects of the helpers.                                                 *)

\* SetTop changes one guard and keeps the type.
LEMMA SetTopEffect ==
  ASSUME TypeOK, NEW t \in Threads, depth[t] > 0, NEW g \in Guards, SetTop(t, g)
  PROVE  /\ depth[t] \in Depths
         /\ guards' \in [Threads -> [Depths -> Guards]]
         /\ \A u \in Threads, i \in Depths :
              guards'[u][i] = IF u = t /\ i = depth[t] THEN g ELSE guards[u][i]
<1>1. depth[t] \in Depths
  BY DEF TypeOK, Depths
<1>2. guards \in [Threads -> [Depths -> Guards]]
  BY DEF TypeOK
<1>3. guards' = [guards EXCEPT ![t] = [guards[t] EXCEPT ![depth[t]] = g]]
  BY DEF SetTop
<1>4. [guards[t] EXCEPT ![depth[t]] = g] \in [Depths -> Guards]
  BY <1>2
<1>5. QED
  BY <1>1, <1>2, <1>3, <1>4

\* Releasing the top guard takes away exactly what it held.
LEMMA DropTopEffect ==
  ASSUME ResAssumption, IInv, NEW t \in Threads, DropTop(t)
  PROVE  /\ wrHold' = IF Top(t) = "W" THEN NoThread ELSE wrHold
         /\ rdHold' = rdHold \ {<<t, depth[t]>>}
<1>1. depth[t] \in Depths
  BY DEF DropTop, IInv, TypeOK, Depths
<1>2. /\ <<t, depth[t]>> \in rdHold <=> Top(t) = "R"
      /\ Top(t) = "W" => wrHold = t
  BY <1>1 DEF IInv, LockAccounting, Top
<1>3. wrHold = t => rdHold = {}
  BY DEF IInv, WriterAlone, ResAssumption
<1>4. QED
  BY <1>2, <1>3 DEF DropTop, Unlock, Modes

-----------------------------------------------------------------------------
(* Every action keeps the invariant.                                       *)

LEMMA ConstructKeeps ==
  ASSUME ResAssumption, IInv, NEW t \in Threads, Construct(t)
  PROVE  IInv'
<1>1. TypeOK'
  BY DEF IInv, TypeOK, Construct, ResAssumption
<1>2. TopAndAbove'
  BY DEF IInv, TypeOK, TopAndAbove, Construct, Waiting, Depths
<1>3. OneWriteGuard' /\ WriterAlone' /\ LockAccounting' /\ BorrowedIsCovered'
  BY DEF IInv, OneWriteGuard, WriterAlone, LockAccounting, BorrowedIsCovered,
         Construct
<1>4. QED
  BY <1>1, <1>2, <1>3 DEF IInv

\* release(), request() and the destructor: the top guard lets go.
LEMMA DropTopKeeps ==
  ASSUME ResAssumption, IInv, NEW t \in Threads, DropTop(t)
  PROVE  /\ OneWriteGuard' /\ WriterAlone' /\ LockAccounting' /\ BorrowedIsCovered'
         /\ wrHold' \in Threads \cup {NoThread}
         /\ rdHold' \subseteq Threads \X Depths
         /\ depth[t] \in Depths
         /\ guards' \in [Threads -> [Depths -> Guards]]
         /\ \A u \in Threads, i \in Depths :
              guards'[u][i] = IF u = t /\ i = depth[t] THEN "no" ELSE guards[u][i]
<1>1. /\ depth[t] \in Depths
      /\ guards' \in [Threads -> [Depths -> Guards]]
      /\ \A u \in Threads, i \in Depths :
           guards'[u][i] = IF u = t /\ i = depth[t] THEN "no" ELSE guards[u][i]
  BY SetTopEffect DEF IInv, DropTop, Guards
<1>2. /\ wrHold' = IF Top(t) = "W" THEN NoThread ELSE wrHold
      /\ rdHold' = rdHold \ {<<t, depth[t]>>}
  BY DropTopEffect
<1>3. Top(t) = guards[t][depth[t]]
  BY DEF Top
<1>4. /\ wrHold' \in Threads \cup {NoThread}
      /\ rdHold' \subseteq Threads \X Depths
  BY <1>2 DEF IInv, TypeOK
<1>5. OneWriteGuard'
  BY <1>1 DEF IInv, OneWriteGuard
<1>6. WriterAlone'
  BY <1>2 DEF IInv, WriterAlone
<1>7. LockAccounting'
  <2>1. ASSUME NEW u \in Threads, NEW i \in Depths
        PROVE  <<u, i>> \in rdHold' <=> guards'[u][i] = "R"
    BY <1>1, <1>2 DEF IInv, LockAccounting
  <2>2. ASSUME NEW u \in Threads
        PROVE  wrHold' = u <=> \E i \in Depths : guards'[u][i] = "W"
    <3>1. CASE Top(t) = "W"
      <4>1. wrHold = t
        BY <1>1, <1>3, <3>1 DEF IInv, LockAccounting
      <4>2. ASSUME NEW i \in Depths PROVE guards'[u][i] # "W"
        <5>1. CASE u # t
          BY <1>1, <4>1, <5>1 DEF IInv, LockAccounting
        <5>2. CASE u = t
          <6>1. guards[t][depth[t]] = "W" /\ depth[t] \in Depths
            BY <1>1, <1>3, <3>1
          <6>2. guards[t][i] = "W" => i = depth[t]
            BY <6>1 DEF IInv, OneWriteGuard
          <6>3. QED
            BY <1>1, <5>2, <6>2
        <5>3. QED
          BY <5>1, <5>2
      <4>3. QED
        BY <1>2, <3>1, <4>2 DEF ResAssumption
    <3>2. CASE Top(t) # "W"
      <4>1. \A i \in Depths : guards'[u][i] = "W" <=> guards[u][i] = "W"
        BY <1>1, <1>3, <3>2
      <4>2. QED
        BY <1>2, <3>2, <4>1 DEF IInv, LockAccounting
    <3>3. QED
      BY <3>1, <3>2
  <2>3. QED
    BY <2>1, <2>2 DEF LockAccounting
<1>8. BorrowedIsCovered'
  <2> SUFFICES ASSUME NEW u \in Threads, NEW i \in Depths, guards'[u][i] \in {"r", "w"}
               PROVE  \E j \in Depths : j < i /\ guards'[u][j] = "W"
    BY DEF BorrowedIsCovered
  <2>1. guards[u][i] \in {"r", "w"}
    BY <1>1
  <2>2. PICK j \in Depths : j < i /\ guards[u][j] = "W"
    BY <2>1 DEF IInv, BorrowedIsCovered
  <2>3. ~(u = t /\ j = depth[t])
    BY <1>1, <2>1, <2>2 DEF IInv, TopAndAbove
  <2>4. QED
    BY <1>1, <2>2, <2>3
<1>9. QED
  BY <1>1, <1>4, <1>5, <1>6, <1>7, <1>8

\* A waiting thread gets its acquisition, or runs under the outer one.
LEMMA GrantKeeps ==
  ASSUME ResAssumption, IInv, NEW t \in Threads, NEW g \in Guards,
         Waiting(t), SetTop(t, g), Resumed(t),
         \/ g = "W" /\ wrHold = NoThread /\ rdHold = {} /\ wrHold' = t /\ UNCHANGED rdHold
         \/ g = "R" /\ wrHold = NoThread /\ UNCHANGED wrHold
            /\ rdHold' = rdHold \cup {<<t, depth[t]>>}
         \/ g \in {"r", "w"} /\ wrHold = t /\ UNCHANGED <<wrHold, rdHold>>
  PROVE  IInv'
<1>1. depth[t] > 0 /\ guards[t][depth[t]] = "no"
  BY DEF IInv, TopAndAbove
<1>2. /\ depth[t] \in Depths
      /\ guards' \in [Threads -> [Depths -> Guards]]
      /\ \A u \in Threads, i \in Depths :
           guards'[u][i] = IF u = t /\ i = depth[t] THEN g ELSE guards[u][i]
  BY <1>1, SetTopEffect DEF IInv
<1>3. wrHold = NoThread => \A u \in Threads, i \in Depths : guards[u][i] # "W"
  BY DEF IInv, LockAccounting, ResAssumption
<1>4. TypeOK'
  <2>1. wrHold' \in Threads \cup {NoThread} /\ rdHold' \subseteq Threads \X Depths
    BY <1>2 DEF IInv, TypeOK
  <2>2. /\ depth' \in [Threads -> 0..MaxDepth]
        /\ pc' \in [Threads -> (Modes \X BOOLEAN) \cup {Running}]
        /\ left' \in [Threads -> 0..MaxReq]
    BY DEF IInv, TypeOK, Resumed
  <2>3. QED
    BY <1>2, <2>1, <2>2 DEF TypeOK
<1>5. TopAndAbove'
  <2>1. /\ depth' = depth
        /\ \A u \in Threads : Waiting(u)' => Waiting(u) /\ u # t
    BY DEF IInv, TypeOK, Resumed, Waiting
  <2>2. ASSUME NEW u \in Threads, Waiting(u)'
        PROVE  depth[u] > 0 /\ guards'[u][depth[u]] = "no"
    <3>1. depth[u] > 0 /\ guards[u][depth[u]] = "no" /\ depth[u] \in Depths
      BY <2>1, <2>2 DEF IInv, TopAndAbove, TypeOK, Depths
    <3>2. QED
      BY <1>2, <2>1, <2>2, <3>1
  <2>3. ASSUME NEW u \in Threads, NEW i \in Depths, i > depth[u]
        PROVE  guards'[u][i] = "no"
    BY <1>2, <2>3 DEF IInv, TopAndAbove, Depths
  <2>4. QED
    BY <2>1, <2>2, <2>3 DEF TopAndAbove, Waiting
<1>6. OneWriteGuard'
  BY <1>2, <1>3 DEF IInv, OneWriteGuard
<1>7. WriterAlone'
  BY DEF IInv, WriterAlone
<1>8. LockAccounting'
  BY <1>1, <1>2, <1>3 DEF IInv, LockAccounting, ResAssumption
<1>9. BorrowedIsCovered'
  <2>1. ASSUME NEW u \in Threads, NEW i \in Depths, guards[u][i] \in {"r", "w"}
        PROVE  \E j \in Depths : j < i /\ guards'[u][j] = "W"
    BY <1>1, <1>2, <2>1 DEF IInv, BorrowedIsCovered
  <2>2. ASSUME g \in {"r", "w"}
        PROVE  \E j \in Depths : j < depth[t] /\ guards'[t][j] = "W"
    <3>1. PICK j \in Depths : guards[t][j] = "W"
      BY <2>2 DEF IInv, LockAccounting
    <3>2. ~(j > depth[t]) /\ j # depth[t]
      BY <1>1, <3>1 DEF IInv, TopAndAbove
    <3>3. j < depth[t]
      BY <1>2, <3>2 DEF Depths
    <3>4. QED
      BY <1>2, <3>1, <3>2, <3>3
  <2>3. QED
    BY <1>2, <2>1, <2>2 DEF BorrowedIsCovered
<1>10. QED
  BY <1>4, <1>5, <1>6, <1>7, <1>8, <1>9 DEF IInv

-----------------------------------------------------------------------------
(* The invariant, and what it gives.                                       *)

LEMMA InitIInv == ASSUME ResAssumption, Init PROVE IInv
BY DEF Init, IInv, TypeOK, TopAndAbove, Waiting, OneWriteGuard, WriterAlone,
       LockAccounting, BorrowedIsCovered, ResAssumption, Guards

LEMMA StepKeeps == ASSUME ResAssumption, IInv, [Next]_vars PROVE IInv'
<1>1. ASSUME UNCHANGED vars PROVE IInv'
  BY <1>1 DEF IInv, vars, TypeOK, TopAndAbove, Waiting, OneWriteGuard,
     WriterAlone, LockAccounting, BorrowedIsCovered
<1>2. ASSUME NEW t \in Threads, NEW m \in Modes, NEW timed \in BOOLEAN,
             Request(t, m, timed)
      PROVE  IInv'
  <2>1. DropTop(t) /\ UNCHANGED depth /\ pc' = [pc EXCEPT ![t] = <<m, timed>>]
    BY <1>2 DEF Request
  <2>2. TypeOK'
    BY <1>2, <2>1, DropTopKeeps DEF IInv, TypeOK, Request
  <2>3. TopAndAbove'
    <3>1. ASSUME NEW u \in Threads, Waiting(u)'
          PROVE  depth[u] > 0 /\ guards'[u][depth[u]] = "no"
      <4>1. (depth[u] > 0 /\ guards[u][depth[u]] = "no") \/ u = t
        BY <2>1, <3>1 DEF IInv, TypeOK, TopAndAbove, Waiting
      <4>2. u # t => depth[u] \in Depths \/ depth[u] = 0
        BY DEF IInv, TypeOK, Depths
      <4>3. depth[t] > 0
        BY <2>1 DEF DropTop
      <4>4. QED
        BY <2>1, <4>1, <4>2, <4>3, DropTopKeeps
    <3>2. ASSUME NEW u \in Threads, NEW i \in Depths, i > depth[u]
          PROVE  guards'[u][i] = "no"
      BY <2>1, <3>2, DropTopKeeps DEF IInv, TopAndAbove
    <3>3. QED
      BY <2>1, <3>1, <3>2 DEF TopAndAbove, Waiting
  <2>4. QED
    BY <2>1, <2>2, <2>3, DropTopKeeps DEF IInv
<1>3. ASSUME NEW t \in Threads, Release(t) PROVE IInv'
  <2>1. TypeOK'
    BY <1>3, DropTopKeeps DEF IInv, TypeOK, Release
  <2>2. TopAndAbove'
    <3>1. DropTop(t) /\ ~Waiting(t) /\ UNCHANGED <<depth, pc>>
      BY <1>3 DEF Release
    <3>2. ASSUME NEW u \in Threads, Waiting(u)'
          PROVE  depth[u] > 0 /\ guards'[u][depth[u]] = "no"
      <4>1. Waiting(u) /\ u # t
        BY <3>1, <3>2 DEF Waiting
      <4>2. depth[u] > 0 /\ guards[u][depth[u]] = "no" /\ depth[u] \in Depths
        BY <4>1 DEF IInv, TypeOK, TopAndAbove, Depths
      <4>3. QED
        BY <3>1, <4>1, <4>2, DropTopKeeps
    <3>3. ASSUME NEW u \in Threads, NEW i \in Depths, i > depth[u]
          PROVE  guards'[u][i] = "no"
      BY <3>1, <3>3, DropTopKeeps DEF IInv, TopAndAbove
    <3>4. QED
      BY <3>1, <3>2, <3>3 DEF TopAndAbove, Waiting
  <2>3. QED
    BY <1>3, <2>1, <2>2, DropTopKeeps DEF IInv, Release
<1>4. ASSUME NEW t \in Threads, Destroy(t) PROVE IInv'
  <2>1. TypeOK'
    BY <1>4, DropTopKeeps DEF IInv, TypeOK, Destroy, Depths
  <2>2. TopAndAbove'
    BY <1>4, DropTopKeeps DEF IInv, TypeOK, TopAndAbove, Waiting, Depths, Destroy
  <2>3. QED
    BY <1>4, <2>1, <2>2, DropTopKeeps DEF IInv, Destroy
<1>5. ASSUME NEW t \in Threads, GrantW(t) PROVE IInv'
  BY <1>5, GrantKeeps DEF GrantW, Free, Guards
<1>6. ASSUME NEW t \in Threads, GrantR(t) PROVE IInv'
  BY <1>6, GrantKeeps DEF GrantR, Free, Guards
<1>7. ASSUME NEW t \in Threads, GrantByOuter(t) PROVE IInv'
  BY <1>7, GrantKeeps DEF GrantByOuter, Borrowed, Guards
<1>8. ASSUME NEW t \in Threads, TimeOut(t) PROVE IInv'
  BY <1>8 DEF IInv, TimeOut, Resumed, TypeOK, TopAndAbove, Waiting,
     OneWriteGuard, WriterAlone, LockAccounting, BorrowedIsCovered
<1>9. QED
  BY <1>1, <1>2, <1>3, <1>4, <1>5, <1>6, <1>7, <1>8, ConstructKeeps
     DEF Next, Idle, Step

\* The inductive invariant holds in every behaviour of the guards.
THEOREM Invariance == ASSUME ResAssumption PROVE Spec => []IInv
<1>1. Init => IInv
  BY InitIInv
<1>2. IInv /\ [Next]_vars => IInv'
  BY StepKeeps
<1>3. QED
  BY <1>1, <1>2, PTL DEF Spec

\* The variables keep their types: no guard is released that was not locked,
\* no scope is left that was not entered.
THEOREM Types == ASSUME ResAssumption PROVE Spec => []TypeOK
<1>1. IInv => TypeOK
  BY DEF IInv
<1>2. QED
  BY <1>1, Invariance, PTL

\* The guards and the rwlock agree in every reachable state.
THEOREM Accounting == ASSUME ResAssumption PROVE Spec => []LockAccounting
<1>1. IInv => LockAccounting
  BY DEF IInv
<1>2. QED
  BY <1>1, Invariance, PTL

\* A request() that swallowed EDEADLK runs under a guard that writes.
THEOREM Covered == ASSUME ResAssumption PROVE Spec => []BorrowedIsCovered
<1>1. IInv => BorrowedIsCovered
  BY DEF IInv
<1>2. QED
  BY <1>1, Invariance, PTL

\* What the guards promise: a scope that relies on writing is alone.
LEMMA ExclusionHolds == ASSUME ResAssumption, IInv PROVE Exclusion
<1> SUFFICES ASSUME NEW t \in Threads, NEW u \in Threads, t # u, Relies(t, "W")
             PROVE  ~Relies(u, "W") /\ ~Relies(u, "R")
  BY DEF Exclusion
<1>1. \A v \in Threads, i \in Depths :
        guards[v][i] \in {"W", "w", "r"} => wrHold = v
  BY DEF IInv, BorrowedIsCovered, LockAccounting
<1>2. \A v \in Threads, i \in Depths : guards[v][i] \in Guards
  BY DEF IInv, TypeOK
<1>3. wrHold = t
  BY <1>1, <1>2 DEF Relies, ReliesOn, Guards
<1>4. \A i \in Depths : guards[u][i] # "R"
  BY <1>3 DEF IInv, WriterAlone, LockAccounting, ResAssumption
<1>5. \A i \in Depths : guards[u][i] = "no"
  BY <1>1, <1>2, <1>3, <1>4 DEF Guards
<1>6. QED
  BY <1>5 DEF Relies, ReliesOn

THEOREM MutualExclusion == ASSUME ResAssumption PROVE Spec => []Exclusion
<1>1. IInv => Exclusion
  BY ExclusionHolds
<1>2. QED
  BY <1>1, Invariance, PTL

-----------------------------------------------------------------------------
(* ResRW implements RWRegion.                                              *)

\* The place of a thread, told from the rwlock.
PlaceInLock(t) ==
  IF wrHold = t THEN "W"
  ELSE IF \E i \in Depths : <<t, i>> \in rdHold THEN "R" ELSE "out"

PlacesInLock == \A t \in Threads : PlaceOf(t) = PlaceInLock(t)

LEMMA PlaceByHolds == IInv => PlacesInLock
<1> SUFFICES ASSUME IInv, NEW t \in Threads PROVE PlaceOf(t) = PlaceInLock(t)
  BY DEF PlacesInLock
<1>1. \A i \in Depths : guards[t][i] \in Guards
  BY DEF IInv, TypeOK
<1>2. wrHold = t => \E i \in Depths : guards[t][i] = "W"
  BY DEF IInv, LockAccounting
<1>3. \A i \in Depths : guards[t][i] \in {"W", "w", "r"} => wrHold = t
  BY DEF IInv, BorrowedIsCovered, LockAccounting
<1>4. \A i \in Depths : <<t, i>> \in rdHold <=> guards[t][i] = "R"
  BY DEF IInv, LockAccounting
<1>5. Relies(t, "W") <=> wrHold = t
  BY <1>1, <1>2, <1>3 DEF Relies, ReliesOn, Guards
<1>6. wrHold # t => (Relies(t, "R") <=> \E i \in Depths : <<t, i>> \in rdHold)
  BY <1>1, <1>3, <1>4 DEF Relies, ReliesOn, Guards
<1>7. QED
  BY <1>5, <1>6 DEF PlaceOf, PlaceInLock

LEMMA PlaceByHoldsNext == IInv' => PlacesInLock'
BY PlaceByHolds, PTL

\* A step of the rwlock is a step of the region, or changes no place.
LEMMA HoldStep ==
  ASSUME ResAssumption, IInv, IInv', NEW t \in Threads,
         \/ /\ wrHold' = wrHold \/ (wrHold = t /\ wrHold' = NoThread)
            /\ \E i \in Depths : rdHold' = rdHold \ {<<t, i>>}
         \/ UNCHANGED <<wrHold, rdHold>>
         \/ wrHold = NoThread /\ rdHold = {} /\ wrHold' = t /\ rdHold' = {}
         \/ wrHold = NoThread /\ wrHold' = wrHold
            /\ \E i \in Depths : rdHold' = rdHold \cup {<<t, i>>}
  PROVE  [Region!Next]_place
<1>1. /\ \A u \in Threads : place[u] = PlaceInLock(u)
      /\ \A u \in Threads : place'[u] = PlaceInLock(u)'
  BY PlaceByHolds, PlaceByHoldsNext DEF PlacesInLock, place
<1>2. /\ place \in [Threads -> Region!Places]
      /\ place' \in [Threads -> Region!Places]
  BY <1>1 DEF PlaceInLock, Region!Places, place
<1>3. ASSUME NEW u \in Threads \ {t} PROVE place'[u] = place[u]
  <2>1. wrHold' = u <=> wrHold = u
    BY DEF ResAssumption
  <2>2. \A i \in Depths : <<u, i>> \in rdHold' <=> <<u, i>> \in rdHold
    OBVIOUS
  <2>3. QED
    BY <1>1, <2>1, <2>2 DEF PlaceInLock
<1>4. CASE place'[t] = place[t]
  <2>1. place' = place
    BY <1>2, <1>3, <1>4
  <2>2. QED
    BY <2>1
<1>5. CASE place[t] # "out" /\ place'[t] = "out"
  <2>1. place' = [place EXCEPT ![t] = "out"]
    BY <1>2, <1>3, <1>5
  <2>2. Region!Leave(t)
    BY <1>5, <2>1 DEF Region!Leave
  <2>3. QED
    BY <2>2 DEF Region!Next
<1>6. CASE /\ place[t] = "out" /\ place'[t] = "R"
           /\ \A u \in Threads : place[u] # "W"
  <2>1. place' = [place EXCEPT ![t] = "R"]
    BY <1>2, <1>3, <1>6
  <2>2. Region!Enter(t, "R")
    BY <1>6, <2>1 DEF Region!Enter
  <2>3. QED
    BY <2>2 DEF Region!Next
<1>7. CASE /\ place'[t] = "W"
           /\ \A u \in Threads : place[u] = "out"
  <2>1. place' = [place EXCEPT ![t] = "W"]
    BY <1>2, <1>3, <1>7
  <2>2. Region!Enter(t, "W")
    BY <1>7, <2>1 DEF Region!Enter
  <2>3. QED
    BY <2>2 DEF Region!Next
<1>8. QED
  <2>1. CASE UNCHANGED <<wrHold, rdHold>>
    BY <1>1, <1>4, <2>1 DEF PlaceInLock
  <2>2. CASE wrHold = NoThread /\ rdHold = {} /\ wrHold' = t /\ rdHold' = {}
    BY <1>1, <1>7, <2>2 DEF PlaceInLock, ResAssumption
  <2>3. CASE /\ wrHold = NoThread /\ wrHold' = wrHold
             /\ \E i \in Depths : rdHold' = rdHold \cup {<<t, i>>}
    BY <1>1, <1>4, <1>6, <2>3 DEF PlaceInLock, ResAssumption
  <2>4. CASE /\ wrHold' = wrHold
             /\ \E i \in Depths : rdHold' = rdHold \ {<<t, i>>}
    BY <1>1, <1>4, <1>5, <2>4 DEF PlaceInLock
  <2>5. CASE /\ wrHold = t /\ wrHold' = NoThread
             /\ \E i \in Depths : rdHold' = rdHold \ {<<t, i>>}
    <3>1. rdHold = {}
      BY <2>5 DEF IInv, WriterAlone, ResAssumption
    <3>2. QED
      BY <1>1, <1>5, <2>5, <3>1 DEF PlaceInLock, ResAssumption
  <2>6. QED
    BY <2>1, <2>2, <2>3, <2>4, <2>5

\* Every step of ResRW is a step of the region or changes no place.
LEMMA RegionStep == ASSUME ResAssumption, IInv, IInv', [Next]_vars PROVE [Region!Next]_place
<1>1. ASSUME NEW t \in Threads, DropTop(t) PROVE [Region!Next]_place
  <2>1. depth[t] \in Depths /\ (Top(t) = "W" => wrHold = t)
    BY <1>1 DEF DropTop, IInv, TypeOK, LockAccounting, Top, Depths
  <2>2. /\ wrHold' = wrHold \/ (wrHold = t /\ wrHold' = NoThread)
        /\ \E i \in Depths : rdHold' = rdHold \ {<<t, i>>}
    BY <1>1, <2>1, DropTopEffect
  <2>3. QED
    BY <2>2, HoldStep
<1>2. ASSUME NEW t \in Threads, GrantW(t) PROVE [Region!Next]_place
  BY <1>2, HoldStep DEF GrantW, Free
<1>3. ASSUME NEW t \in Threads, GrantR(t) PROVE [Region!Next]_place
  <2>1. depth[t] \in Depths
    BY <1>3 DEF GrantR, IInv, TypeOK, TopAndAbove, Depths
  <2>2. QED
    BY <1>3, <2>1, HoldStep DEF GrantR, Free
<1>4. ASSUME NEW t \in Threads,
             Construct(t) \/ GrantByOuter(t) \/ TimeOut(t) \/ UNCHANGED vars
      PROVE  [Region!Next]_place
  BY <1>4, HoldStep DEF Construct, GrantByOuter, TimeOut, vars
<1>5. ASSUME UNCHANGED vars PROVE [Region!Next]_place
  BY <1>5 DEF vars, place, PlaceOf, Relies
<1>6. QED
  BY <1>1, <1>2, <1>3, <1>4, <1>5 DEF Next, Idle, Step, Request, Release, Destroy

\* ResRW and ResAlloc implement the read/write region.
THEOREM Refinement == ASSUME ResAssumption PROVE Spec => ImplementsRegion
<1>1. Init => Region!Init
  BY DEF Init, Region!Init, place, PlaceOf, Relies, ReliesOn
<1>2. IInv /\ IInv' /\ [Next]_vars => [Region!Next]_place
  BY RegionStep
<1>3. QED
  BY <1>1, <1>2, Invariance, PTL DEF Spec, ImplementsRegion, Region!Spec
=============================================================================
