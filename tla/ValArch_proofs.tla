--------------------------- MODULE ValArch_proofs ---------------------------
(***************************************************************************)
(* Proofs about ValArch: for any archives, archivers and threads that call *)
(* any of the operations, the two sides list each other, a pass of a task  *)
(* visits elements that are there, a stopped archive is attached nowhere,  *)
(* and what an archiver takes for stored is stored.                        *)
(***************************************************************************)
EXTENDS ValArch, TLAPS

-----------------------------------------------------------------------------
(* The inductive invariant                                                 *)

\* The writer of aRes is the thread that attaches or detaches; nothing reads
\* longer than a step.
AResHeld ==
  \A x \in Archives :
    /\ aRes[x].r = {}
    /\ aRes[x].w \in Threads \cup {Nobody}
    /\ \A t \in Threads : aRes[x].w = t <=> pc[t] \in {"place", "remove"} /\ v[t] = x

\* The readers of archRes are the pass of the task and the threads that sort;
\* nothing writes longer than a step.
ArchResHeld ==
  \A y \in Archivers :
    /\ archRes[y].w = Nobody
    /\ y \in archRes[y].r <=> pcT[y] = "pass"
    /\ \A t \in Threads : t \in archRes[y].r <=> pc[t] = "sort" /\ a[t] = y

\* Each side lists the other, also while aRes is held.
Mirror == \A x \in Archives, y \in Archivers : y \in elsV[x] <=> x \in elsA[y]

\* What a pass and a change of the period are still to visit is attached.
VisitsAttached ==
  /\ \A y \in Archivers : left[y] # {} => pcT[y] = "pass" /\ left[y] \subseteq elsA[y]
  /\ \A t \in Threads : pc[t] = "sort" => todo[t] \subseteq elsA[a[t]]

\* Thread t is in a stop() or another detachment of archive x that is still to
\* come to archiver y.
Detaching(t, x, y) ==
  /\ v[t] = x
  /\ \/ pc[t] = "list"
     \/ pc[t] \in {"detach", "remove"} /\ y \in todo[t]
     \/ pc[t] = "remove" /\ a[t] = y

\* A stopped archive whose start() did not fail and that is attached is being
\* detached; one that is about to be attached is still to be listed by the thread
\* that stops it.
StopComes ==
  \A x \in Archives \ failed : ~runV[x] =>
    /\ \A y \in elsV[x] : \E t \in Threads : Detaching(t, x, y)
    /\ \A u \in Threads : pc[u] = "place" /\ v[u] = x =>
         \E t \in Threads : pc[t] = "list" /\ v[t] = x

\* runSt and the task of an archiver; the last pass comes after the request.
TaskRuns ==
  \A y \in Archivers :
    /\ runA[y] <=> pcT[y] # "none"
    /\ pcT[y] # "none" /\ isLast[y] => endrun[y]
    /\ pcT[y] = "end" => isLast[y]

\* mLastGet is at most next to the newest value, and what the buffer has below
\* it is stored, for archives not attached as well.
MarksStored ==
  \A y \in Archivers, x \in Archives :
    /\ lastGet[y][x] <= last[x] + 1
    /\ \A c \in 1..MaxVals : c \in Held(x) /\ c < lastGet[y][x] => c \in stored[y][x]

\* What is due is of started archives attached, and has come.
DueThere ==
  \A y \in Archivers : \A d \in due[y] :
    d[1] \in elsA[y] /\ runV[d[1]] /\ d[2] <= last[d[1]]

\* The last pass is over archive x.
Passed(y, x) ==
  \/ pcT[y] \in {"end", "none"}
  \/ pcT[y] = "pass" /\ isLast[y] /\ x \notin left[y]

DueStored ==
  \A y \in Archivers : \A d \in due[y] :
    Passed(y, d[1]) /\ d[2] \in Held(d[1]) => d[2] \in stored[y][d[1]]

IInv ==
  /\ TypeOK
  /\ AResHeld /\ ArchResHeld
  /\ Mirror /\ VisitsAttached
  /\ StopComes
  /\ TaskRuns /\ MarksStored /\ DueThere /\ DueStored

-----------------------------------------------------------------------------
(* What the buffers hold                                                   *)

\* Max of two numbers is one of them and not below the other.
LEMMA MaxOfTwo ==
  ASSUME NEW i \in Int, NEW j \in Int
  PROVE  Max({i, j}) = IF i >= j THEN i ELSE j
<1>1. \A m \in {i, j} : (\A k \in {i, j} : m >= k) => m = IF i >= j THEN i ELSE j
  OBVIOUS
<1>2. \E m \in {i, j} : \A k \in {i, j} : m >= k
  OBVIOUS
<1>3. QED
  BY <1>1, <1>2 DEF Max

\* The window of the last BufSize of l numbers, as First and Held have it.
Oldest(l) == IF l = 0 THEN 0 ELSE Max({1, l - BufSize + 1})
Window(l) == IF l = 0 THEN {} ELSE Oldest(l)..l

LEMMA WindowIs ==
  ASSUME ValArchAssumption, NEW l \in Nat
  PROVE  /\ Oldest(l) \in Nat
         /\ Oldest(l) = 0 <=> l = 0
         /\ \A c \in Int : c \in Window(l) <=> 1 <= c /\ c <= l /\ l - BufSize < c
         /\ \A c \in Window(l) : c \in Nat /\ Oldest(l) <= c
<1>1. BufSize \in Nat \ {0}
  BY DEF ValArchAssumption
<1>2. CASE l = 0
  BY <1>2 DEF Oldest, Window
<1>3. CASE l # 0
  <2>1. Oldest(l) = IF 1 >= l - BufSize + 1 THEN 1 ELSE l - BufSize + 1
    BY <1>1, <1>3, MaxOfTwo DEF Oldest
  <2>2. Oldest(l) \in Nat \ {0} /\ Window(l) = Oldest(l)..l
    BY <1>1, <1>3, <2>1 DEF Window
  <2>3. ASSUME NEW c \in Int
        PROVE  c \in Window(l) <=> 1 <= c /\ c <= l /\ l - BufSize < c
    <3>1. c \in Window(l) <=> Oldest(l) <= c /\ c <= l
      BY <2>2
    <3>2. Oldest(l) <= c <=> 1 <= c /\ l - BufSize < c
      BY <1>1, <2>1
    <3>3. QED
      BY <3>1, <3>2
  <2>4. QED
    BY <1>3, <2>2, <2>3
<1>4. QED
  BY <1>2, <1>3

\* A buffer holds the last BufSize of the values that came, before a step and
\* after it.
LEMMA HeldIs ==
  ASSUME ValArchAssumption, NEW x \in Archives, last[x] \in Nat
  PROVE  /\ First(x) \in Nat
         /\ First(x) = 0 <=> last[x] = 0
         /\ \A c \in Int : c \in Held(x) <=> 1 <= c /\ c <= last[x] /\ last[x] - BufSize < c
         /\ \A c \in Held(x) : c \in Nat /\ First(x) <= c
<1>1. First(x) = Oldest(last[x]) /\ Held(x) = Window(last[x])
  BY DEF First, Held, Oldest, Window
<1>2. QED
  BY <1>1, WindowIs

LEMMA HeldNext ==
  ASSUME ValArchAssumption, NEW x \in Archives, last'[x] \in Nat
  PROVE  /\ \A c \in Int : c \in Held(x)' <=> 1 <= c /\ c <= last'[x] /\ last'[x] - BufSize < c
         /\ \A c \in Held(x)' : c \in Nat
<1>1. Held(x)' = Window(last'[x])
  BY DEF First, Held, Oldest, Window
<1>2. QED
  BY <1>1, WindowIs

\* The buffers are the same after a step that puts no value.
LEMMA HeldSame == UNCHANGED last => \A x \in Archives : Held(x)' = Held(x) /\ First(x)' = First(x)
BY DEF Held, First

-----------------------------------------------------------------------------
(* What a step leaves alone                                                *)

LEMMA DataSame == ASSUME IInv, UNCHANGED data PROVE MarksStored'
BY HeldSame DEF IInv, MarksStored, data

LEMMA TasksSame == ASSUME IInv, UNCHANGED <<runA, endrun, pcT, isLast>> PROVE TaskRuns'
BY DEF IInv, TaskRuns

\* Nothing becomes due, and the tasks stay where they are.
LEMMA DueSame ==
  ASSUME ValArchAssumption, IInv, UNCHANGED <<data, pcT, isLast, left>>,
         \A x \in Archives : runV[x] => runV'[x],
         \A y \in Archivers : due'[y] \subseteq due[y] /\ elsA[y] \subseteq elsA'[y]
  PROVE  DueThere' /\ DueStored'
<1>1. \A y \in Archivers : \A d \in due'[y] : d[1] \in Archives
  BY DEF IInv, TypeOK
<1>2. DueThere'
  BY <1>1 DEF IInv, DueThere, data
<1>3. DueStored'
  BY <1>1, HeldSame DEF IInv, DueStored, Passed, data
<1>4. QED
  BY <1>2, <1>3

\* Threads other than t do nothing.
Alone(t) ==
  \A u \in Threads \ {t} :
    pc'[u] = pc[u] /\ v'[u] = v[u] /\ a'[u] = a[u] /\ todo'[u] = todo[u]

\* A step without a lock held before it or after.
LEMMA LocksSame ==
  ASSUME IInv, NEW t \in Threads, Alone(t), UNCHANGED <<aRes, archRes, pcT>>,
         pc[t] \notin {"place", "remove", "sort"}, pc'[t] \notin {"place", "remove", "sort"}
  PROVE  AResHeld' /\ ArchResHeld'
<1>1. AResHeld'
  BY DEF IInv, AResHeld, Alone
<1>2. ArchResHeld'
  BY DEF IInv, ArchResHeld, Alone
<1>3. QED
  BY <1>1, <1>2

\* A step in neither list, of a thread that did not detach.
LEMMA ListsSame ==
  ASSUME IInv, NEW t \in Threads, Alone(t), UNCHANGED <<elsV, elsA, left, pcT>>,
         pc'[t] # "sort"
  PROVE  Mirror' /\ VisitsAttached'
<1>1. Mirror'
  BY DEF IInv, Mirror
<1>2. VisitsAttached'
  BY DEF IInv, VisitsAttached, Alone
<1>3. QED
  BY <1>1, <1>2

LEMMA StopSame ==
  ASSUME IInv, NEW t \in Threads, Alone(t), UNCHANGED elsV, failed \subseteq failed',
         \A x \in Archives : runV[x] => runV'[x],
         pc[t] \notin {"list", "detach", "remove"}, pc'[t] # "place"
  PROVE  StopComes'
BY DEF IInv, StopComes, Detaching, Alone

-----------------------------------------------------------------------------
(* Calls                                                                   *)

LEMMA PutValKeeps ==
  ASSUME ValArchAssumption, IInv, NEW x \in Archives, PutVal(x)
  PROVE  IInv'
<1>0. /\ last' = [last EXCEPT ![x] = @ + 1]
      /\ UNCHANGED <<archives, archivers, lastGet, stored, locks, threads, tasks, history>>
  BY DEF PutVal
<1>1. TypeOK'
  <2>1. last' \in [Archives -> 0..MaxVals]
    BY DEF PutVal, IInv, TypeOK, ValArchAssumption
  <2>2. QED
    BY <1>0, <2>1 DEF IInv, TypeOK, archives, archivers, locks, threads, tasks, history
<1>2. /\ AResHeld' /\ ArchResHeld' /\ Mirror' /\ VisitsAttached' /\ StopComes' /\ TaskRuns'
  BY <1>0 DEF IInv, AResHeld, ArchResHeld, Mirror, VisitsAttached, StopComes, Detaching,
         TaskRuns, archives, archivers, locks, threads, tasks, history
<1>3. \A z \in Archives : last[z] \in Nat /\ last'[z] \in Nat
                          /\ last'[z] = IF z = x THEN last[z] + 1 ELSE last[z]
  BY <1>0 DEF IInv, TypeOK, ValArchAssumption
<1>4. \A z \in Archives : \A c \in Held(z)' : c \in Nat /\ (c \in Held(z) \/ c = last[z] + 1)
  <2>1. SUFFICES ASSUME NEW z \in Archives
                 PROVE  \A c \in Held(z)' : c \in Nat /\ (c \in Held(z) \/ c = last[z] + 1)
    OBVIOUS
  <2>2. BufSize \in Nat /\ last[z] \in Nat /\ last'[z] \in Nat
        /\ (last'[z] = last[z] \/ last'[z] = last[z] + 1)
    BY <1>3 DEF ValArchAssumption
  <2>3. \A c \in Int : c \in Held(z) <=> 1 <= c /\ c <= last[z] /\ last[z] - BufSize < c
    BY <2>2, HeldIs
  <2>4. \A c \in Held(z)' : c \in Nat /\ 1 <= c /\ c <= last'[z] /\ last'[z] - BufSize < c
    BY <2>2, HeldNext
  <2>5. QED
    BY <2>2, <2>3, <2>4
<1>5. MarksStored'
  BY <1>0, <1>3, <1>4 DEF IInv, MarksStored, TypeOK, ValArchAssumption
<1>6. DueThere'
  BY <1>0, <1>3 DEF IInv, TypeOK, DueThere, archives, archivers, history
<1>7. DueStored'
  BY <1>0, <1>3, <1>4 DEF IInv, TypeOK, DueThere, DueStored, Passed, archives, archivers, history,
         tasks
<1>8. QED
  BY <1>1, <1>2, <1>5, <1>6, <1>7 DEF IInv

\* The start of an operation changes the thread only.
CallsOnly(t, x, where, w) ==
  /\ pc[t] = "idle" /\ At(t, where)
  /\ v' = [v EXCEPT ![t] = x] /\ todo' = [todo EXCEPT ![t] = w]
  /\ op' \in [Threads -> Kinds \cup {"none"}] /\ ops' \in 0..MaxOps
  /\ UNCHANGED <<archS, elsV, archivers, data, locks, a, tasks, fails>>

LEMMA CallIs ==
  ASSUME ValArchAssumption, IInv, NEW t \in Threads, NEW x \in Archives, NEW y \in Archivers
  PROVE  /\ StartV(t, x) => \/ CallsOnly(t, x, "attach", archS[x])
                            \/ CallsOnly(t, x, "source", todo[t])
         /\ StopV(t, x) => CallsOnly(t, x, "list", {})
         /\ AttachOne(t, x, y) => CallsOnly(t, x, "attach", {y})
         /\ DetachOne(t, x, y) => CallsOnly(t, x, "detach", {y})
<1>1. \A kind \in Kinds : Call(t, kind) => /\ pc[t] = "idle" /\ ops' \in 0..MaxOps
                                           /\ op' \in [Threads -> Kinds \cup {"none"}]
  BY DEF Call, IInv, TypeOK, ValArchAssumption
<1>2. UNCHANGED todo => todo' = [todo EXCEPT ![t] = todo[t]]
  BY DEF IInv, TypeOK
<1>3. ASSUME StartV(t, x)
      PROVE  CallsOnly(t, x, "attach", archS[x]) \/ CallsOnly(t, x, "source", todo[t])
  <2>1. Call(t, "startV")
    BY <1>3 DEF StartV
  <2>2. QED
    BY <1>1, <1>2, <1>3, <2>1 DEF StartV, ToArchS, CallsOnly, Kinds
<1>4. QED
  BY <1>1, <1>3 DEF StopV, AttachOne, DetachOne, CallsOnly, Kinds, archives

LEMMA CallsOnlyKeeps ==
  ASSUME ValArchAssumption, IInv, NEW t \in Threads, NEW x \in Archives,
         NEW where \in {"source", "attach", "list", "detach"},
         NEW w \in SUBSET (Archives \cup Archivers),
         CallsOnly(t, x, where, w),
         runV' \in [Archives -> BOOLEAN], failed' \in SUBSET Archives,
         due' \in [Archivers -> SUBSET (Archives \X (1..MaxVals))]
  PROVE  /\ Alone(t)
         /\ TypeOK' /\ AResHeld' /\ ArchResHeld' /\ Mirror' /\ VisitsAttached'
         /\ TaskRuns' /\ MarksStored'
<1>1. /\ pc[t] = "idle" /\ pc' = [pc EXCEPT ![t] = where] /\ v' = [v EXCEPT ![t] = x]
      /\ todo' = [todo EXCEPT ![t] = w]
      /\ UNCHANGED <<aRes, archRes, elsV, elsA, left, pcT, a>>
  BY DEF CallsOnly, At, archivers, locks, tasks
<1>2. Alone(t)
  BY <1>1 DEF Alone, IInv, TypeOK
<1>3. TypeOK'
  BY <1>1 DEF CallsOnly, IInv, TypeOK, archivers, data, locks, tasks, Pc
<1>4. pc'[t] = where
  BY <1>1 DEF IInv, TypeOK
<1>5. AResHeld' /\ ArchResHeld'
  BY <1>1, <1>2, <1>4, LocksSame
<1>6. Mirror' /\ VisitsAttached'
  BY <1>1, <1>2, <1>4, ListsSame
<1>7. MarksStored' /\ TaskRuns'
  BY DataSame, TasksSame DEF CallsOnly, archivers, tasks
<1>8. QED
  BY <1>2, <1>3, <1>5, <1>6, <1>7

LEMMA CallKeeps ==
  ASSUME ValArchAssumption, IInv, NEW t \in Threads, NEW x \in Archives, NEW y \in Archivers,
         StartV(t, x) \/ AttachOne(t, x, y) \/ DetachOne(t, x, y)
  PROVE  IInv'
<1>0. \/ CallsOnly(t, x, "attach", archS[x]) \/ CallsOnly(t, x, "source", todo[t])
      \/ CallsOnly(t, x, "attach", {y}) \/ CallsOnly(t, x, "detach", {y})
  BY CallIs
<1>1. PICK where \in {"source", "attach", "detach"}, w \in SUBSET (Archives \cup Archivers) :
        CallsOnly(t, x, where, w)
  <2>1. /\ archS[x] \in SUBSET (Archives \cup Archivers)
        /\ {y} \in SUBSET (Archives \cup Archivers) /\ todo[t] \in SUBSET (Archives \cup Archivers)
    BY DEF IInv, TypeOK
  <2>2. QED
    BY <1>0, <2>1
<1>2. /\ runV' \in [Archives -> BOOLEAN] /\ \A z \in Archives : runV[z] => runV'[z]
      /\ UNCHANGED <<due, failed>> /\ due' \in [Archivers -> SUBSET (Archives \X (1..MaxVals))]
      /\ failed' \in SUBSET Archives
  BY DEF StartV, AttachOne, DetachOne, IInv, TypeOK, archives
<1>3. /\ Alone(t)
      /\ TypeOK' /\ AResHeld' /\ ArchResHeld' /\ Mirror' /\ VisitsAttached'
      /\ TaskRuns' /\ MarksStored'
  BY <1>1, <1>2, CallsOnlyKeeps
<1>4. StopComes'
  BY <1>1, <1>2, <1>3, StopSame DEF CallsOnly, At, IInv, TypeOK
<1>5. DueThere' /\ DueStored'
  BY <1>1, <1>2, DueSame DEF CallsOnly, archivers, tasks
<1>6. QED
  BY <1>3, <1>4, <1>5 DEF IInv

LEMMA StopVKeeps ==
  ASSUME ValArchAssumption, IInv, NEW t \in Threads, NEW x \in Archives, StopV(t, x)
  PROVE  IInv'
<1>1. PICK y \in Archivers : TRUE
  BY DEF ValArchAssumption
<1>2. CallsOnly(t, x, "list", {})
  BY <1>1, CallIs
<1>3. /\ runV' \in [Archives -> BOOLEAN]
      /\ \A z \in Archives : runV'[z] = IF z = x THEN FALSE ELSE runV[z]
      /\ due' \in [Archivers -> SUBSET (Archives \X (1..MaxVals))]
      /\ \A z \in Archivers : due'[z] = {d \in due[z] : d[1] # x}
      /\ failed' = failed \ {x} /\ failed' \in SUBSET Archives
  BY DEF StopV, WithoutDue, IInv, TypeOK
<1>4. /\ Alone(t)
      /\ TypeOK' /\ AResHeld' /\ ArchResHeld' /\ Mirror' /\ VisitsAttached'
      /\ TaskRuns' /\ MarksStored'
  BY <1>2, <1>3, CallsOnlyKeeps
<1>5. /\ pc[t] = "idle" /\ pc'[t] = "list" /\ v'[t] = x
      /\ UNCHANGED <<elsV, elsA, data, a, pcT, isLast, left>>
  BY <1>2 DEF CallsOnly, At, IInv, TypeOK, archivers, tasks
<1>6. StopComes'
  <2>1. ASSUME NEW z \in Archives \ failed', ~runV'[z], z # x
        PROVE  /\ \A w \in elsV'[z] : \E u \in Threads : Detaching(u, z, w)'
               /\ \A u \in Threads : pc'[u] = "place" /\ v'[u] = z =>
                    \E r \in Threads : pc'[r] = "list" /\ v'[r] = z
    <3>1. ~runV[z] /\ z \in Archives \ failed
      BY <1>3, <2>1
    <3>2. ASSUME NEW w \in elsV[z] PROVE \E u \in Threads : Detaching(u, z, w)'
      <4>1. PICK u \in Threads : Detaching(u, z, w)
        BY <3>1, <3>2 DEF IInv, StopComes
      <4>2. u # t
        BY <1>5, <4>1 DEF Detaching
      <4>3. QED
        BY <1>4, <1>5, <4>1, <4>2 DEF Detaching, Alone
    <3>3. ASSUME NEW u \in Threads, pc'[u] = "place", v'[u] = z
          PROVE  \E r \in Threads : pc'[r] = "list" /\ v'[r] = z
      <4>1. pc[u] = "place" /\ v[u] = z
        BY <1>4, <1>5, <3>3 DEF Alone
      <4>2. PICK r \in Threads : pc[r] = "list" /\ v[r] = z
        BY <3>1, <4>1 DEF IInv, StopComes
      <4>3. QED
        BY <1>4, <1>5, <4>2 DEF Alone
    <3>4. QED
      BY <1>5, <3>2, <3>3
  <2>2. QED
    BY <1>5, <2>1 DEF StopComes, Detaching
<1>7. DueThere'
  <2>1. ASSUME NEW z \in Archivers, NEW d \in due'[z]
        PROVE  d[1] \in elsA'[z] /\ runV'[d[1]] /\ d[2] <= last'[d[1]]
    <3>1. d \in due[z] /\ d[1] # x /\ d[1] \in Archives
      BY <1>3 DEF IInv, TypeOK
    <3>2. QED
      BY <1>3, <1>5, <3>1 DEF IInv, DueThere, data
  <2>2. QED
    BY <2>1 DEF DueThere
<1>8. DueStored'
  BY <1>3, <1>5, HeldSame DEF IInv, TypeOK, DueStored, Passed, data
<1>9. QED
  BY <1>4, <1>6, <1>7, <1>8 DEF IInv

-----------------------------------------------------------------------------
(* Steps of a thread that attaches or detaches                             *)

\* A step of a thread that changes neither lists nor data, and is not sorting
\* after it.
LEMMA RestSame ==
  ASSUME ValArchAssumption, IInv, NEW t \in Threads, Alone(t), pc'[t] # "sort",
         UNCHANGED <<runV, elsV, archivers, data, tasks, due>>
  PROVE  /\ Mirror' /\ VisitsAttached' /\ TaskRuns' /\ MarksStored'
         /\ DueThere' /\ DueStored'
<1>1. Mirror' /\ VisitsAttached'
  BY ListsSame DEF archivers, tasks
<1>2. MarksStored' /\ TaskRuns'
  BY DataSame, TasksSame DEF archivers, tasks
<1>3. DueThere' /\ DueStored'
  BY DueSame DEF archivers, tasks
<1>4. QED
  BY <1>1, <1>2, <1>3

\* The helpers of the locks change one field of one lock.
LEMMA LockChanged ==
  ASSUME NEW S, NEW f \in [S -> Locks], NEW x \in S,
         NEW w \in Holders \cup {Nobody}, NEW r \in SUBSET Holders, NEW g,
         g = [f EXCEPT ![x] = [w |-> w, r |-> r]]
  PROVE  /\ g \in [S -> Locks]
         /\ \A z \in S : /\ g[z].w = IF z = x THEN w ELSE f[z].w
                        /\ g[z].r = IF z = x THEN r ELSE f[z].r
BY DEF Locks

LEMMA LockedIs ==
  ASSUME NEW S, NEW f \in [S -> Locks], NEW x \in S, NEW h \in Holders
  PROVE  /\ Locked(f, x, h) \in [S -> Locks]
         /\ \A z \in S : /\ Locked(f, x, h)[z].r = f[z].r
                        /\ Locked(f, x, h)[z].w = IF z = x THEN h ELSE f[z].w
<1>1. Locked(f, x, h) = [f EXCEPT ![x] = [w |-> h, r |-> f[x].r]]
  BY DEF Locked
<1>2. f[x].r \in SUBSET Holders
  BY DEF Locks
<1>3. QED
  BY <1>1, <1>2, LockChanged

LEMMA ReadingIs ==
  ASSUME NEW S, NEW f \in [S -> Locks], NEW x \in S, NEW h \in Holders
  PROVE  /\ Reading(f, x, h) \in [S -> Locks]
         /\ \A z \in S \ {x} : Reading(f, x, h)[z] = f[z]
         /\ Reading(f, x, h)[x].w = f[x].w
         /\ Reading(f, x, h)[x].r = f[x].r \cup {h}
<1>1. PICK w \in Holders \cup {Nobody}, r \in SUBSET Holders : w = f[x].w /\ r = f[x].r \cup {h}
  <2>1. f[x].w \in Holders \cup {Nobody} /\ f[x].r \cup {h} \in SUBSET Holders
    BY DEF Locks
  <2>2. QED
    BY <2>1
<1>2. Reading(f, x, h) = [f EXCEPT ![x] = [w |-> w, r |-> r]]
  BY <1>1 DEF Reading
<1>3. [w |-> w, r |-> r] \in Locks
  BY DEF Locks
<1>4. /\ Reading(f, x, h) \in [S -> Locks] /\ Reading(f, x, h)[x] = [w |-> w, r |-> r]
      /\ \A z \in S \ {x} : Reading(f, x, h)[z] = f[z]
  BY <1>2, <1>3
<1>5. QED
  BY <1>1, <1>4

LEMMA ReleasedIs ==
  ASSUME NEW S, NEW f \in [S -> Locks], NEW x \in S, NEW h \in Holders
  PROVE  /\ Released(f, x, h) \in [S -> Locks]
         /\ \A z \in S \ {x} : Released(f, x, h)[z] = f[z]
         /\ Released(f, x, h)[x].w = IF f[x].w = h THEN Nobody ELSE f[x].w
         /\ Released(f, x, h)[x].r = f[x].r \ {h}
<1>1. Released(f, x, h) = [f EXCEPT ![x] = [w |-> IF f[x].w = h THEN Nobody ELSE f[x].w,
                                            r |-> f[x].r \ {h}]]
  BY DEF Released
<1>2. /\ (IF f[x].w = h THEN Nobody ELSE f[x].w) \in Holders \cup {Nobody}
      /\ f[x].r \ {h} \in SUBSET Holders
  BY DEF Locks
<1>3. PICK w \in Holders \cup {Nobody}, r \in SUBSET Holders :
        /\ w = IF f[x].w = h THEN Nobody ELSE f[x].w
        /\ r = f[x].r \ {h}
  BY <1>2
<1>4. Released(f, x, h) = [f EXCEPT ![x] = [w |-> w, r |-> r]]
  BY <1>1, <1>3
<1>5. [w |-> w, r |-> r] \in Locks
  BY DEF Locks
<1>6. Released(f, x, h) \in [S -> Locks] /\ Released(f, x, h)[x] = [w |-> w, r |-> r]
      /\ \A z \in S \ {x} : Released(f, x, h)[z] = f[z]
  BY <1>4, <1>5
<1>7. QED
  BY <1>3, <1>6

\* The step at which a thread takes aRes, and the one that releases it.
LEMMA ARes ==
  ASSUME ValArchAssumption, IInv, NEW t \in Threads, Alone(t),
         UNCHANGED <<v, archRes, pcT>>,
         \/ /\ aRes[v[t]].w = Nobody /\ aRes' = Locked(aRes, v[t], t)
            /\ pc[t] \notin {"place", "remove", "sort"} /\ pc'[t] \in {"place", "remove"}
         \/ /\ aRes' = Released(aRes, v[t], t)
            /\ pc[t] \in {"place", "remove"} /\ pc'[t] \notin {"place", "remove", "sort"}
  PROVE  /\ aRes' \in [Archives -> Locks]
         /\ AResHeld' /\ ArchResHeld'
         /\ \A l \in Range(aRes') \cup Range(archRes') : l.w # Nobody => l.r = {}
<1>1. /\ aRes \in [Archives -> Locks] /\ archRes \in [Archivers -> Locks]
      /\ t \in Holders /\ v[t] \in Archives /\ Nobody \notin Threads
  BY DEF IInv, TypeOK, Holders, ValArchAssumption
<1>2. /\ aRes' \in [Archives -> Locks]
      /\ \A x \in Archives :
           /\ aRes'[x].r = {}
           /\ x # v[t] => aRes'[x].w = aRes[x].w
           /\ x = v[t] => aRes'[x].w = IF pc'[t] \in {"place", "remove"} THEN t ELSE Nobody
  <2>1. CASE /\ aRes' = Locked(aRes, v[t], t) /\ pc'[t] \in {"place", "remove"}
    <3>1. \A x \in Archives : aRes[x].r = {}
      BY DEF IInv, AResHeld
    <3>2. /\ aRes' \in [Archives -> Locks]
          /\ \A x \in Archives : /\ aRes'[x].r = aRes[x].r
                                 /\ aRes'[x].w = IF x = v[t] THEN t ELSE aRes[x].w
      BY <1>1, <2>1, LockedIs
    <3>3. QED
      BY <2>1, <3>1, <3>2
  <2>2. CASE /\ aRes' = Released(aRes, v[t], t) /\ pc[t] \in {"place", "remove"}
             /\ pc'[t] \notin {"place", "remove", "sort"}
    <3>1. aRes[v[t]].w = t /\ \A x \in Archives : aRes[x].r = {}
      BY <1>1, <2>2 DEF IInv, AResHeld
    <3>2. /\ aRes' \in [Archives -> Locks]
          /\ \A x \in Archives \ {v[t]} : aRes'[x] = aRes[x]
          /\ aRes'[v[t]].w = IF aRes[v[t]].w = t THEN Nobody ELSE aRes[v[t]].w
          /\ aRes'[v[t]].r = aRes[v[t]].r \ {t}
      BY <1>1, <2>2, ReleasedIs
    <3>3. QED
      BY <2>2, <3>1, <3>2
  <2>3. QED
    BY <2>1, <2>2
<1>3. /\ aRes[v[t]].w \in {t, Nobody}
      /\ aRes[v[t]].w = t <=> pc[t] \in {"place", "remove"}
  BY <1>1 DEF IInv, AResHeld
<1>4. AResHeld'
  <2>1. ASSUME NEW x \in Archives, NEW u \in Threads
        PROVE  aRes'[x].w = u <=> pc'[u] \in {"place", "remove"} /\ v'[u] = x
    BY <1>1, <1>2, <1>3 DEF IInv, AResHeld, Alone
  <2>2. QED
    BY <1>1, <1>2, <2>1 DEF IInv, AResHeld
<1>5. ArchResHeld'
  BY DEF IInv, ArchResHeld, Alone
<1>6. QED
  BY <1>1, <1>2, <1>4, <1>5 DEF AResHeld, ArchResHeld, Range

\* archivatorAttach() and archivatorDetach() take aRes to place or remove one
\* element, or leave it.
LEMMA AttachKeeps ==
  ASSUME ValArchAssumption, IInv, NEW t \in Threads, NEW y \in Archivers, Attach(t, y)
  PROVE  IInv'
<1>1. /\ pc[t] = "attach" /\ y \in todo[t] /\ v[t] \in Archives
      /\ aRes[v[t]].w = Nobody
      /\ todo' = [todo EXCEPT ![t] = @ \ {y}]
      /\ UNCHANGED <<runV, elsV, archivers, data, archRes, v, op, tasks, history>>
  BY DEF Attach, CanWrite, IInv, TypeOK
<1>2. CASE /\ runA[y] /\ runV[v[t]] /\ y \notin elsV[v[t]]
           /\ aRes' = Locked(aRes, v[t], t) /\ a' = [a EXCEPT ![t] = y] /\ At(t, "place")
           /\ UNCHANGED archS
  <2>1. /\ Alone(t) /\ pc' = [pc EXCEPT ![t] = "place"]
        /\ pc'[t] = "place"
    BY <1>1, <1>2 DEF Alone, At, IInv, TypeOK
  <2>2. /\ aRes' \in [Archives -> Locks] /\ AResHeld' /\ ArchResHeld'
        /\ \A l \in Range(aRes') \cup Range(archRes') : l.w # Nobody => l.r = {}
    BY <1>1, <1>2, <2>1, ARes DEF tasks
  <2>3. TypeOK'
    BY <1>1, <1>2, <2>1, <2>2 DEF IInv, TypeOK, archivers, data, tasks, history, Pc
  <2>4. StopComes'
    BY <1>1, <1>2, <2>1 DEF IInv, TypeOK, StopComes, Detaching, Alone, history
  <2>5. /\ Mirror' /\ VisitsAttached' /\ TaskRuns' /\ MarksStored'
        /\ DueThere' /\ DueStored'
    BY <1>1, <2>1, RestSame DEF history
  <2>6. QED
    BY <2>2, <2>3, <2>4, <2>5 DEF IInv
<1>3. CASE /\ archS' = IF runA[y] THEN WithArchS(v[t], y, elsV[v[t]]) ELSE archS
           /\ UNCHANGED <<aRes, a, pc>>
  <2>1. Alone(t)
    BY <1>1, <1>3 DEF Alone, IInv, TypeOK
  <2>2. archS' \in [Archives -> SUBSET Archivers]
    BY <1>1, <1>3 DEF WithArchS, IInv, TypeOK
  <2>3. TypeOK'
    BY <1>1, <1>3, <2>2 DEF IInv, TypeOK, archivers, data, tasks, history
  <2>4. AResHeld' /\ ArchResHeld' /\ StopComes'
    BY <1>1, <1>3, <2>1, LocksSame, StopSame DEF tasks, history
  <2>5. QED
    BY <1>1, <1>3, <2>1, <2>3, <2>4, RestSame DEF IInv, history
<1>4. QED
  BY <1>2, <1>3 DEF Attach

\* archivePlace(): both lists take the element up, and aRes is released.
LEMMA PlaceKeeps ==
  ASSUME ValArchAssumption, IInv, NEW t \in Threads, Place(t)
  PROVE  IInv'
<1> DEFINE x == v[t]
           y == a[t]
<1>1. /\ x \in Archives /\ y \in Archivers
      /\ pc[t] = "place" /\ CanWrite(archRes[y])
      /\ elsA' = [elsA EXCEPT ![y] = @ \cup {x}]
      /\ lastGet' = IF x \in elsA[y] THEN lastGet ELSE [lastGet EXCEPT ![y][x] = 0]
      /\ elsV' = [elsV EXCEPT ![x] = @ \cup {y}]
      /\ archS' = WithArchS(x, y, elsV'[x])
      /\ aRes' = Released(aRes, x, t)
      /\ pc' = [pc EXCEPT ![t] = "attach"]
      /\ UNCHANGED <<runV, runA, endrun, stored, last, archRes, v, a, todo, op, tasks, history>>
  BY DEF Place, At, IInv, TypeOK
<1>2. Alone(t) /\ pc'[t] = "attach" /\ UNCHANGED failed
  BY <1>1 DEF Alone, IInv, TypeOK, history
<1>3. /\ aRes' \in [Archives -> Locks] /\ AResHeld' /\ ArchResHeld'
      /\ \A l \in Range(aRes') \cup Range(archRes') : l.w # Nobody => l.r = {}
  BY <1>1, <1>2, ARes DEF tasks
<1>4. /\ elsA' \in [Archivers -> SUBSET Archives] /\ elsV' \in [Archives -> SUBSET Archivers]
      /\ archS' \in [Archives -> SUBSET Archivers]
      /\ \A z \in Archivers : elsA'[z] = IF z = y THEN elsA[z] \cup {x} ELSE elsA[z]
      /\ \A z \in Archives : elsV'[z] = IF z = x THEN elsV[z] \cup {y} ELSE elsV[z]
  <2>1. /\ elsA \in [Archivers -> SUBSET Archives] /\ elsV \in [Archives -> SUBSET Archivers]
        /\ archS \in [Archives -> SUBSET Archivers]
    BY DEF IInv, TypeOK
  <2>2. /\ elsA[y] \cup {x} \in SUBSET Archives /\ elsV[x] \cup {y} \in SUBSET Archivers
    BY <1>1, <2>1
  <2>3. elsV' \in [Archives -> SUBSET Archivers] /\ elsV'[x] \in SUBSET Archivers
    BY <1>1, <2>1, <2>2
  <2>4. archS' \in [Archives -> SUBSET Archivers]
    BY <1>1, <2>1, <2>3 DEF WithArchS
  <2>5. QED
    BY <1>1, <2>1, <2>2, <2>3, <2>4
<1>5. /\ lastGet' \in [Archivers -> [Archives -> 0..MaxVals + 1]]
      /\ \A z \in Archivers, u \in Archives : lastGet'[z][u] \in {0, lastGet[z][u]}
  BY <1>1 DEF IInv, TypeOK, ValArchAssumption
<1>6. TypeOK'
  BY <1>1, <1>3, <1>4, <1>5 DEF IInv, TypeOK, tasks, history, Pc
<1>7. Mirror'
  BY <1>1, <1>4 DEF IInv, Mirror
<1>8. VisitsAttached'
  BY <1>1, <1>2, <1>4 DEF IInv, VisitsAttached, Alone, TypeOK, tasks
<1>9. StopComes'
  <2>1. ASSUME NEW z \in Archives \ failed', ~runV'[z], NEW w \in elsV'[z]
        PROVE  \E u \in Threads : Detaching(u, z, w)'
    <3>1. CASE w \in elsV[z]
      <4>1. PICK u \in Threads : Detaching(u, z, w)
        BY <1>1, <1>2, <2>1, <3>1 DEF IInv, StopComes
      <4>2. u # t
        BY <1>1, <4>1 DEF Detaching
      <4>3. QED
        BY <1>1, <1>2, <4>1, <4>2 DEF Detaching, Alone
    <3>2. CASE w \notin elsV[z]
      <4>1. z = x
        BY <1>4, <2>1, <3>2
      <4>2. PICK u \in Threads : pc[u] = "list" /\ v[u] = x
        BY <1>1, <1>2, <2>1, <4>1 DEF IInv, StopComes
      <4>3. QED
        BY <1>1, <1>2, <4>1, <4>2 DEF Detaching, Alone
    <3>3. QED
      BY <3>1, <3>2
  <2>2. ASSUME NEW z \in Archives \ failed', ~runV'[z], NEW u \in Threads, pc'[u] = "place", v'[u] = z
        PROVE  \E r \in Threads : pc'[r] = "list" /\ v'[r] = z
    <3>1. pc[u] = "place" /\ v[u] = z /\ ~runV[z] /\ z \in Archives \ failed
      BY <1>1, <1>2, <2>2 DEF Alone
    <3>2. PICK r \in Threads : pc[r] = "list" /\ v[r] = z
      BY <3>1 DEF IInv, StopComes
    <3>3. QED
      BY <1>1, <1>2, <3>2 DEF Alone
  <2>3. QED
    BY <2>1, <2>2 DEF StopComes
<1>10. MarksStored'
  <2>1. UNCHANGED <<last, stored>>
    BY <1>1
  <2>2. ASSUME NEW z \in Archivers, NEW u \in Archives
        PROVE  /\ lastGet'[z][u] <= last'[u] + 1
               /\ \A c \in 1..MaxVals :
                    c \in Held(u)' /\ c < lastGet'[z][u] => c \in stored'[z][u]
    <3>1. CASE lastGet'[z][u] = lastGet[z][u]
      BY <2>1, <3>1, HeldSame DEF IInv, MarksStored
    <3>2. CASE lastGet'[z][u] = 0
      <4>1. last[u] \in Nat
        BY DEF IInv, TypeOK, ValArchAssumption
      <4>2. QED
        BY <2>1, <3>2, <4>1 DEF ValArchAssumption
    <3>3. QED
      BY <1>5, <3>1, <3>2
  <2>3. QED
    BY <2>2 DEF MarksStored
<1>11. TaskRuns'
  BY <1>1, TasksSame DEF tasks
<1>12. DueThere'
  BY <1>1, <1>4 DEF IInv, DueThere, history
<1>13. DueStored'
  BY <1>1, HeldSame DEF IInv, TypeOK, DueStored, Passed, history, tasks
<1>14. QED
  BY <1>3, <1>6, <1>7, <1>8, <1>9, <1>10, <1>11, <1>12, <1>13 DEF IInv

\* stop() lists the archivers of its archive; none is being attached then.
LEMMA ListKeeps ==
  ASSUME ValArchAssumption, IInv, NEW t \in Threads, List(t)
  PROVE  IInv'
<1>1. /\ pc[t] = "list" /\ v[t] \in Archives /\ aRes[v[t]].w = Nobody
      /\ todo' = [todo EXCEPT ![t] = elsV[v[t]]] /\ pc' = [pc EXCEPT ![t] = "detach"]
      /\ UNCHANGED <<archives, archivers, data, locks, v, a, op, tasks, history>>
  BY DEF List, CanRead, At, IInv, TypeOK
<1>2. /\ Alone(t) /\ pc'[t] = "detach" /\ todo'[t] = elsV[v[t]]
      /\ UNCHANGED <<aRes, archRes, pcT, runV, elsV, archivers, data, tasks, due, failed, v, a>>
  BY <1>1 DEF Alone, IInv, TypeOK, archives, locks, tasks, history
<1>3. TypeOK'
  BY <1>1 DEF IInv, TypeOK, archives, archivers, data, locks, tasks, history, Pc
<1>4. AResHeld' /\ ArchResHeld'
  BY <1>1, <1>2, LocksSame
<1>5. \A u \in Threads : ~(pc[u] = "place" /\ v[u] = v[t])
  BY <1>1 DEF IInv, AResHeld, ValArchAssumption
<1>6. StopComes'
  <2>1. ASSUME NEW z \in Archives \ failed', ~runV'[z], NEW w \in elsV'[z]
        PROVE  \E u \in Threads : Detaching(u, z, w)'
    <3>1. CASE z = v[t]
      BY <1>2, <2>1, <3>1 DEF Detaching
    <3>2. CASE z # v[t]
      <4>1. PICK u \in Threads : Detaching(u, z, w)
        BY <1>2, <2>1, <3>2 DEF IInv, StopComes
      <4>2. u # t
        BY <3>2, <4>1 DEF Detaching
      <4>3. QED
        BY <1>2, <4>1, <4>2 DEF Detaching, Alone
    <3>3. QED
      BY <3>1, <3>2
  <2>2. ASSUME NEW z \in Archives \ failed', ~runV'[z], NEW u \in Threads, pc'[u] = "place", v'[u] = z
        PROVE  \E r \in Threads : pc'[r] = "list" /\ v'[r] = z
    <3>1. pc[u] = "place" /\ v[u] = z /\ ~runV[z] /\ z \in Archives \ failed
      BY <1>2, <2>2 DEF Alone
    <3>2. PICK r \in Threads : pc[r] = "list" /\ v[r] = z
      BY <3>1 DEF IInv, StopComes
    <3>3. r # t
      BY <1>5, <3>1, <3>2
    <3>4. QED
      BY <1>2, <3>2, <3>3 DEF Alone
  <2>3. QED
    BY <2>1, <2>2 DEF StopComes
<1>7. QED
  BY <1>2, <1>3, <1>4, <1>6, RestSame DEF IInv

LEMMA DetachKeeps ==
  ASSUME ValArchAssumption, IInv, NEW t \in Threads, NEW y \in Archivers, Detach(t, y)
  PROVE  IInv'
<1>1. /\ pc[t] = "detach" /\ y \in todo[t] /\ v[t] \in Archives
      /\ aRes[v[t]].w = Nobody
      /\ todo' = [todo EXCEPT ![t] = @ \ {y}]
      /\ UNCHANGED <<runV, elsV, archivers, data, archRes, v, op, tasks, history>>
  BY DEF Detach, CanWrite, IInv, TypeOK
<1>2. /\ todo'[t] = todo[t] \ {y} /\ todo' \in [Threads -> SUBSET (Archives \cup Archivers)]
      /\ UNCHANGED <<runV, elsV, elsA, archRes, v, pcT, due>>
  BY <1>1 DEF IInv, TypeOK, archivers, tasks, history
<1>3. CASE /\ y \in elsV[v[t]]
           /\ aRes' = Locked(aRes, v[t], t) /\ a' = [a EXCEPT ![t] = y] /\ At(t, "remove")
           /\ UNCHANGED archS
  <2>1. /\ Alone(t) /\ pc' = [pc EXCEPT ![t] = "remove"] /\ pc'[t] = "remove" /\ a'[t] = y
    BY <1>1, <1>3 DEF Alone, At, IInv, TypeOK
  <2>2. /\ aRes' \in [Archives -> Locks] /\ AResHeld' /\ ArchResHeld'
        /\ \A l \in Range(aRes') \cup Range(archRes') : l.w # Nobody => l.r = {}
    BY <1>1, <1>2, <1>3, <2>1, ARes
  <2>3. TypeOK'
    BY <1>1, <1>2, <1>3, <2>1, <2>2 DEF IInv, TypeOK, archivers, data, tasks, history, Pc
  <2>4. StopComes'
    <3>1. \A z \in Archives, w \in Archivers, u \in Threads :
            Detaching(u, z, w) => Detaching(u, z, w)'
      BY <1>1, <1>2, <2>1 DEF Detaching, Alone
    <3>2. \A u \in Threads : /\ pc'[u] = "place" => pc[u] = "place"
                             /\ pc[u] = "list" => pc'[u] = "list"
      BY <1>1, <2>1 DEF Alone
    <3>3. elsV \in [Archives -> SUBSET Archivers] /\ UNCHANGED failed
      BY <1>1 DEF IInv, TypeOK, history
    <3>4. QED
      BY <1>2, <3>1, <3>2, <3>3 DEF IInv, StopComes
  <2>5. /\ Mirror' /\ VisitsAttached' /\ TaskRuns' /\ MarksStored'
        /\ DueThere' /\ DueStored'
    BY <1>1, <1>2, <2>1, RestSame
  <2>6. QED
    BY <2>2, <2>3, <2>4, <2>5 DEF IInv
<1>4. CASE y \notin elsV[v[t]] /\ archS' = Modified(t, v[t], y, elsV[v[t]]) /\ UNCHANGED <<aRes, a, pc>>
  <2>1. Alone(t)
    BY <1>1, <1>4 DEF Alone, IInv, TypeOK
  <2>2. archS' \in [Archives -> SUBSET Archivers]
    BY <1>1, <1>4 DEF Modified, IInv, TypeOK
  <2>3. TypeOK'
    BY <1>1, <1>2, <1>4, <2>2 DEF IInv, TypeOK, archivers, data, tasks, history
  <2>4. AResHeld' /\ ArchResHeld'
    BY <1>1, <1>2, <1>4, <2>1, LocksSame
  <2>5. StopComes'
    <3>1. \A z \in Archives : \A w \in elsV[z] : \A u \in Threads :
            Detaching(u, z, w) => Detaching(u, z, w)'
      BY <1>1, <1>2, <1>4, <2>1 DEF Detaching, Alone
    <3>2. QED
      BY <1>1, <1>2, <1>4, <3>1 DEF IInv, StopComes, history
  <2>6. QED
    BY <1>1, <1>2, <1>4, <2>1, <2>3, <2>4, <2>5, RestSame DEF IInv
<1>5. QED
  BY <1>3, <1>4 DEF Detach

\* archiveRemove(): waits for the pass, then both lists let the element go.
LEMMA RemoveKeeps ==
  ASSUME ValArchAssumption, IInv, NEW t \in Threads, Remove(t)
  PROVE  IInv'
<1> DEFINE x == v[t]
           y == a[t]
<1>1. /\ x \in Archives /\ y \in Archivers
      /\ pc[t] = "remove" /\ CanWrite(archRes[y])
      /\ elsA' = [elsA EXCEPT ![y] = @ \ {x}]
      /\ elsV' = [elsV EXCEPT ![x] = @ \ {y}]
      /\ archS' = Modified(t, x, y, elsV'[x])
      /\ lastGet' = [lastGet EXCEPT ![y][x] = 0]
      /\ stored' \in {stored, [stored EXCEPT ![y][x] = {}]}
      /\ due' = [due EXCEPT ![y] = {d \in @ : d[1] # x}]
      /\ aRes' = Released(aRes, x, t)
      /\ pc' = [pc EXCEPT ![t] = "detach"]
      /\ UNCHANGED <<runV, runA, endrun, last, archRes, v, a, todo, op, tasks, fails, ops, failed>>
  BY DEF Remove, At, IInv, TypeOK
<1>2. Alone(t) /\ pc'[t] = "detach"
  BY <1>1 DEF Alone, IInv, TypeOK
<1>3. /\ aRes' \in [Archives -> Locks] /\ AResHeld' /\ ArchResHeld'
      /\ \A l \in Range(aRes') \cup Range(archRes') : l.w # Nobody => l.r = {}
  BY <1>1, <1>2, ARes DEF tasks
<1>4. /\ elsA' \in [Archivers -> SUBSET Archives] /\ elsV' \in [Archives -> SUBSET Archivers]
      /\ archS' \in [Archives -> SUBSET Archivers]
      /\ \A z \in Archivers : elsA'[z] = IF z = y THEN elsA[z] \ {x} ELSE elsA[z]
      /\ \A z \in Archives : elsV'[z] = IF z = x THEN elsV[z] \ {y} ELSE elsV[z]
  <2>1. /\ elsA \in [Archivers -> SUBSET Archives] /\ elsV \in [Archives -> SUBSET Archivers]
        /\ archS \in [Archives -> SUBSET Archivers]
    BY DEF IInv, TypeOK
  <2>2. elsA[y] \ {x} \in SUBSET Archives /\ elsV[x] \ {y} \in SUBSET Archivers
    BY <1>1, <2>1
  <2>3. elsV' \in [Archives -> SUBSET Archivers] /\ elsV'[x] \in SUBSET Archivers
    BY <1>1, <2>1, <2>2
  <2>4. archS' \in [Archives -> SUBSET Archivers]
    BY <1>1, <2>1, <2>3 DEF Modified
  <2>5. QED
    BY <1>1, <2>1, <2>2, <2>3, <2>4
<1>5. /\ due' \in [Archivers -> SUBSET (Archives \X (1..MaxVals))]
      /\ \A z \in Archivers : due'[z] = IF z = y THEN {d \in due[z] : d[1] # x} ELSE due[z]
  BY <1>1 DEF IInv, TypeOK
<1>5a. /\ lastGet' \in [Archivers -> [Archives -> 0..MaxVals + 1]]
       /\ stored' \in [Archivers -> [Archives -> SUBSET (1..MaxVals)]]
       /\ lastGet'[y][x] = 0
       /\ \A z \in Archivers, u \in Archives :
            ~(z = y /\ u = x) => lastGet'[z][u] = lastGet[z][u] /\ stored'[z][u] = stored[z][u]
  <2>1. /\ lastGet \in [Archivers -> [Archives -> 0..MaxVals + 1]] /\ 0 \in 0..MaxVals + 1
        /\ stored \in [Archivers -> [Archives -> SUBSET (1..MaxVals)]]
    BY DEF IInv, TypeOK, ValArchAssumption
  <2>2. /\ lastGet' \in [Archivers -> [Archives -> 0..MaxVals + 1]] /\ lastGet'[y][x] = 0
        /\ \A z \in Archivers, u \in Archives :
             ~(z = y /\ u = x) => lastGet'[z][u] = lastGet[z][u]
    BY <1>1, <2>1
  <2>3. CASE UNCHANGED stored
    BY <2>1, <2>2, <2>3
  <2>4. CASE stored' = [stored EXCEPT ![y][x] = {}]
    <3>1. {} \in SUBSET (1..MaxVals)
      OBVIOUS
    <3>2. /\ stored' \in [Archivers -> [Archives -> SUBSET (1..MaxVals)]]
          /\ \A z \in Archivers, u \in Archives :
               ~(z = y /\ u = x) => stored'[z][u] = stored[z][u]
      BY <1>1, <2>1, <2>4, <3>1
    <3>3. QED
      BY <2>2, <3>2
  <2>5. QED
    BY <1>1, <2>3, <2>4
<1>6. TypeOK'
  BY <1>1, <1>3, <1>4, <1>5, <1>5a DEF IInv, TypeOK, tasks, Pc
<1>7. Mirror'
  BY <1>1, <1>4 DEF IInv, Mirror
<1>8. VisitsAttached'
  <2>1. pcT[y] # "pass" /\ \A u \in Threads : ~(pc[u] = "sort" /\ a[u] = y)
    BY <1>1 DEF CanWrite, IInv, ArchResHeld
  <2>2. ASSUME NEW z \in Archivers, left'[z] # {}
        PROVE  pcT'[z] = "pass" /\ left'[z] \subseteq elsA'[z]
    BY <1>1, <1>4, <2>1, <2>2 DEF IInv, VisitsAttached, tasks
  <2>3. ASSUME NEW u \in Threads, pc'[u] = "sort"
        PROVE  todo'[u] \subseteq elsA'[a'[u]]
    <3>1. pc[u] = "sort" /\ a[u] # y /\ a[u] \in Archivers
      BY <1>1, <1>2, <2>1, <2>3 DEF Alone, IInv, TypeOK
    <3>2. QED
      BY <1>1, <1>4, <3>1 DEF IInv, VisitsAttached
  <2>4. QED
    BY <2>2, <2>3 DEF VisitsAttached
<1>9. StopComes'
  <2>1. \A z \in Archives : \A w \in elsV'[z] : w \in elsV[z] /\ \A u \in Threads :
          Detaching(u, z, w) => Detaching(u, z, w)'
    BY <1>1, <1>2, <1>4 DEF Detaching, Alone
  <2>2. \A u \in Threads : /\ pc'[u] = "place" => pc[u] = "place"
                           /\ pc[u] = "list" => pc'[u] = "list"
    BY <1>1, <1>2 DEF Alone
  <2>3. QED
    BY <1>1, <2>1, <2>2 DEF IInv, StopComes
<1>10. MarksStored' /\ TaskRuns'
  <2>1. ASSUME NEW z \in Archivers, NEW u \in Archives
        PROVE  /\ lastGet'[z][u] <= last'[u] + 1
               /\ \A c \in 1..MaxVals :
                    c \in Held(u)' /\ c < lastGet'[z][u] => c \in stored'[z][u]
    <3>1. CASE z = y /\ u = x
      <4>1. last'[u] \in Nat /\ lastGet'[z][u] = 0
        BY <1>1, <1>5a, <3>1 DEF IInv, TypeOK, ValArchAssumption
      <4>2. QED
        BY <4>1 DEF ValArchAssumption
    <3>2. CASE ~(z = y /\ u = x)
      BY <1>1, <1>5a, <3>2, HeldSame DEF IInv, MarksStored
    <3>3. QED
      BY <3>1, <3>2
  <2>2. MarksStored'
    BY <2>1 DEF MarksStored
  <2>3. QED
    BY <1>1, <2>2, TasksSame DEF tasks
<1>11. DueThere'
  <2>1. ASSUME NEW z \in Archivers, NEW d \in due'[z]
        PROVE  d[1] \in elsA'[z] /\ runV'[d[1]] /\ d[2] <= last'[d[1]]
    <3>1. d \in due[z] /\ (z = y => d[1] # x)
      BY <1>5
    <3>2. QED
      BY <1>1, <1>4, <3>1 DEF IInv, DueThere
  <2>2. QED
    BY <2>1 DEF DueThere
<1>12. DueStored'
  <2>1. ASSUME NEW z \in Archivers, NEW d \in due'[z], Passed(z, d[1])', d[2] \in Held(d[1])'
        PROVE  d[2] \in stored'[z][d[1]]
    <3>1. d \in due[z] /\ (z = y => d[1] # x)
      BY <1>5
    <3>2. d[1] \in Archives
      BY <3>1 DEF IInv, TypeOK
    <3>3. d[2] \in Held(d[1])
      BY <1>1, <2>1, <3>2, HeldSame
    <3>4. Passed(z, d[1])
      BY <1>1, <2>1 DEF Passed, tasks
    <3>5. stored'[z][d[1]] = stored[z][d[1]]
      BY <1>5a, <3>1, <3>2
    <3>6. QED
      BY <3>1, <3>3, <3>4, <3>5 DEF IInv, DueStored
  <2>2. QED
    BY <2>1 DEF DueStored
<1>13. QED
  BY <1>3, <1>6, <1>7, <1>8, <1>9, <1>10, <1>11, <1>12 DEF IInv

-----------------------------------------------------------------------------
(* The end of operations, and the operations of archivers                  *)

\* What is left of an operation is typed, and that of the others the same.
Leaves(t) ==
  /\ a' \in [Threads -> Archivers] /\ op' \in [Threads -> Kinds \cup {"none"}]
  /\ \A u \in Threads \ {t} : a'[u] = a[u]

LEMMA ReturnsIs ==
  ASSUME ValArchAssumption, IInv, NEW t \in Threads
  PROVE  /\ Returns(t) => Leaves(t) /\ pc' = [pc EXCEPT ![t] = "idle"]
         /\ UNCHANGED <<a, op>> => Leaves(t)
<1>1. (CHOOSE x \in Archivers : TRUE) \in Archivers
  BY DEF ValArchAssumption
<1>2. a \in [Threads -> Archivers] /\ op \in [Threads -> Kinds \cup {"none"}]
  BY DEF IInv, TypeOK
<1>3. QED
  BY <1>1, <1>2 DEF Returns, Leaves, At

LEMMA DoneKeeps ==
  ASSUME ValArchAssumption, IInv, NEW t \in Threads, Done(t)
  PROVE  IInv'
<1>1. /\ pc[t] \in {"attach", "detach"} /\ todo[t] = {}
      /\ \E where \in {"take", "source", "idle"} : pc' = [pc EXCEPT ![t] = where]
      /\ Leaves(t)
      /\ UNCHANGED <<archives, archivers, data, locks, v, todo, tasks, history>>
  BY ReturnsIs DEF Done, At
<1>2. /\ Alone(t) /\ pc'[t] \in {"take", "source", "idle"} /\ pc' \in [Threads -> Pc]
      /\ UNCHANGED <<runV, elsV, aRes, archRes, v, todo, pcT, due, failed>>
  BY <1>1 DEF Alone, Leaves, IInv, TypeOK, Pc, archives, locks, tasks, history
<1>3. TypeOK'
  BY <1>1, <1>2 DEF Leaves, IInv, TypeOK, archives, archivers, data, locks, tasks, history
<1>4. AResHeld' /\ ArchResHeld'
  BY <1>1, <1>2, LocksSame
<1>5. StopComes'
  <2>1. \A z \in Archives, w \in Archivers, u \in Threads :
          Detaching(u, z, w) => Detaching(u, z, w)'
    BY <1>1, <1>2 DEF Detaching, Alone
  <2>2. \A u \in Threads : /\ pc'[u] = "place" => pc[u] = "place"
                           /\ pc[u] = "list" => pc'[u] = "list"
    BY <1>1, <1>2 DEF Alone
  <2>3. elsV \in [Archives -> SUBSET Archivers]
    BY DEF IInv, TypeOK
  <2>4. QED
    BY <1>2, <2>1, <2>2, <2>3 DEF IInv, StopComes
<1>6. QED
  BY <1>1, <1>2, <1>3, <1>4, <1>5, RestSame DEF IInv

\* A step of a thread alone that neither attaches nor detaches.
LEMMA StepsOn ==
  ASSUME ValArchAssumption, IInv, NEW t \in Threads, NEW where \in {"attach", "idle"},
         NEW w \in SUBSET (Archives \cup Archivers),
         pc[t] \in {"source", "ending"}, pc' = [pc EXCEPT ![t] = where],
         todo' = [todo EXCEPT ![t] = w], Leaves(t),
         UNCHANGED <<archives, archivers, data, locks, v, tasks, history>>
  PROVE  IInv'
<1>1. /\ Alone(t) /\ pc'[t] = where /\ pc' \in [Threads -> Pc]
      /\ UNCHANGED <<runV, elsV, aRes, archRes, pcT, due, failed>>
  BY DEF Alone, Leaves, IInv, TypeOK, Pc, archives, locks, tasks, history
<1>2. TypeOK'
  BY <1>1 DEF Leaves, IInv, TypeOK, archives, archivers, data, locks, tasks, history
<1>3. AResHeld' /\ ArchResHeld' /\ StopComes'
  BY <1>1, LocksSame, StopSame
<1>4. QED
  BY <1>1, <1>2, <1>3, RestSame DEF IInv

\* setSrcMode() that connects, and stop() that gives up.
LEMMA ConnectKeeps ==
  ASSUME ValArchAssumption, IInv, NEW t \in Threads, Connect(t) \/ StopGivesUp(t)
  PROVE  IInv'
<1>1. /\ v[t] \in Archives /\ archS[v[t]] \in SUBSET (Archives \cup Archivers)
      /\ todo[t] \in SUBSET (Archives \cup Archivers)
      /\ UNCHANGED todo => todo' = [todo EXCEPT ![t] = todo[t]]
  BY DEF IInv, TypeOK
<1>2. /\ pc[t] \in {"source", "ending"}
      /\ UNCHANGED <<archives, archivers, data, locks, v, tasks, history>>
      /\ \/ ToArchS(t, v[t]) /\ UNCHANGED <<a, op>>
         \/ Returns(t) /\ UNCHANGED todo
  BY DEF Connect, StopGivesUp
<1>3. CASE ToArchS(t, v[t]) /\ UNCHANGED <<a, op>>
  <2>1. /\ pc' = [pc EXCEPT ![t] = "attach"] /\ todo' = [todo EXCEPT ![t] = archS[v[t]]]
        /\ Leaves(t)
    BY <1>3, ReturnsIs DEF ToArchS, At
  <2>2. QED
    BY <1>1, <1>2, <2>1, StepsOn
<1>4. CASE Returns(t) /\ UNCHANGED todo
  <2>1. pc' = [pc EXCEPT ![t] = "idle"] /\ Leaves(t)
    BY <1>4, ReturnsIs
  <2>2. QED
    BY <1>1, <1>2, <1>4, <2>1, StepsOn
<1>5. QED
  BY <1>2, <1>3, <1>4

\* start() that fails stops its archive without a detachment, and has it failed.
LEMMA ConnectFailsKeeps ==
  ASSUME ValArchAssumption, IInv, NEW t \in Threads, ConnectFails(t)
  PROVE  IInv'
<1> DEFINE x == v[t]
<1>1. /\ x \in Archives /\ pc[t] = "source" /\ pc' = [pc EXCEPT ![t] = "idle"] /\ Leaves(t)
      /\ runV' = [runV EXCEPT ![x] = FALSE] /\ failed' = failed \cup {x}
      /\ due' = [z \in Archivers |-> {d \in due[z] : d[1] # x}]
      /\ UNCHANGED <<archS, elsV, archivers, data, locks, v, todo, tasks, fails, ops>>
  <2>1. x \in Archives
    BY DEF IInv, TypeOK
  <2>2. QED
    BY <2>1, ReturnsIs DEF ConnectFails, WithoutDue
<1>2. /\ Alone(t) /\ pc'[t] = "idle" /\ pc' \in [Threads -> Pc]
      /\ UNCHANGED <<elsV, elsA, left, pcT, isLast, aRes, archRes, v, todo>>
  BY <1>1 DEF Alone, Leaves, IInv, TypeOK, Pc, archivers, locks, tasks
<1>3. /\ due' \in [Archivers -> SUBSET (Archives \X (1..MaxVals))]
      /\ \A z \in Archivers : due'[z] = {d \in due[z] : d[1] # x}
      /\ runV' \in [Archives -> BOOLEAN]
      /\ \A z \in Archives : runV'[z] = IF z = x THEN FALSE ELSE runV[z]
  BY <1>1 DEF IInv, TypeOK
<1>4. TypeOK'
  BY <1>1, <1>2, <1>3 DEF Leaves, IInv, TypeOK, archivers, data, locks, tasks
<1>5. AResHeld' /\ ArchResHeld'
  BY <1>1, <1>2, LocksSame
<1>6. Mirror' /\ VisitsAttached'
  BY <1>1, <1>2, ListsSame
<1>7. StopComes'
  <2>1. \A z \in Archives, w \in Archivers, u \in Threads :
          Detaching(u, z, w) => Detaching(u, z, w)'
    BY <1>1, <1>2 DEF Detaching, Alone
  <2>2. \A u \in Threads : /\ pc'[u] = "place" => pc[u] = "place"
                           /\ pc[u] = "list" => pc'[u] = "list"
    BY <1>1, <1>2 DEF Alone
  <2>3. elsV \in [Archives -> SUBSET Archivers]
    BY DEF IInv, TypeOK
  <2>4. ASSUME NEW z \in Archives \ failed', ~runV'[z]
        PROVE  z \in Archives \ failed /\ ~runV[z]
    BY <1>1, <1>3, <2>4
  <2>5. QED
    BY <1>2, <2>1, <2>2, <2>3, <2>4 DEF IInv, StopComes
<1>8. TaskRuns' /\ MarksStored'
  BY <1>1, TasksSame, DataSame DEF archivers, tasks
<1>9. ASSUME NEW z \in Archivers, NEW d \in due'[z]
      PROVE  /\ d[1] \in elsA'[z] /\ runV'[d[1]] /\ d[2] <= last'[d[1]]
             /\ Passed(z, d[1])' /\ d[2] \in Held(d[1])' => d[2] \in stored'[z][d[1]]
  <2>1. d \in due[z] /\ d[1] # x /\ d[1] \in Archives
    BY <1>3 DEF IInv, TypeOK
  <2>2. Passed(z, d[1])' => Passed(z, d[1])
    BY <1>2 DEF Passed
  <2>3. UNCHANGED <<last, stored>> /\ Held(d[1])' = Held(d[1])
    BY <1>1, <2>1, HeldSame DEF data
  <2>4. d[1] \in elsA'[z] /\ runV'[d[1]] /\ d[2] <= last'[d[1]]
    BY <1>2, <1>3, <2>1, <2>3 DEF IInv, DueThere
  <2>5. QED
    BY <2>1, <2>2, <2>3, <2>4 DEF IInv, DueStored
<1>10. DueThere' /\ DueStored'
  BY <1>9 DEF DueThere, DueStored
<1>11. QED
  BY <1>4, <1>5, <1>6, <1>7, <1>8, <1>10 DEF IInv

LEMMA RestartKeeps ==
  ASSUME ValArchAssumption, IInv, NEW t \in Threads, Restart(t)
  PROVE  IInv'
<1>1. /\ v[t] \in Archives /\ pc[t] = "source"
      /\ runV' = [runV EXCEPT ![v[t]] = TRUE] /\ op' = [op EXCEPT ![t] = "startV"]
      /\ UNCHANGED <<archS, elsV, archivers, data, locks, pc, v, a, todo, tasks, history>>
  BY DEF Restart, IInv, TypeOK
<1>2. /\ Alone(t) /\ runV' \in [Archives -> BOOLEAN] /\ \A z \in Archives : runV[z] => runV'[z]
      /\ op' \in [Threads -> Kinds \cup {"none"}]
      /\ UNCHANGED <<elsV, elsA, left, pcT, isLast, aRes, archRes, due, failed>>
  BY <1>1 DEF Alone, IInv, TypeOK, Kinds, archivers, locks, tasks, history
<1>3. TypeOK'
  BY <1>1, <1>2 DEF IInv, TypeOK, archivers, data, locks, tasks, history
<1>4. AResHeld' /\ ArchResHeld' /\ Mirror' /\ VisitsAttached' /\ StopComes'
  BY <1>1, <1>2, LocksSame, ListsSame, StopSame
<1>5. TaskRuns' /\ MarksStored' /\ DueThere' /\ DueStored'
  BY <1>1, <1>2, TasksSame, DataSame, DueSame DEF archivers, tasks
<1>6. QED
  BY <1>3, <1>4, <1>5 DEF IInv

\* runSt of an archiver whose task has ended is reset already.
LEMMA TaskEndedKeeps ==
  ASSUME ValArchAssumption, IInv, NEW t \in Threads, TaskEnded(t)
  PROVE  IInv'
<1>1. /\ pc[t] = "ending" /\ pcT[a[t]] = "none" /\ a[t] \in Archivers
      /\ runA' = [runA EXCEPT ![a[t]] = FALSE] /\ pc' = [pc EXCEPT ![t] = "take"]
      /\ UNCHANGED <<archives, elsA, endrun, data, locks, v, a, todo, op, tasks, history>>
  BY DEF TaskEnded, At, IInv, TypeOK
<1>2. runA' = runA
  <2>1. runA[a[t]] = FALSE
    BY <1>1 DEF IInv, TypeOK, TaskRuns
  <2>2. QED
    BY <1>1, <2>1 DEF IInv, TypeOK
<1>3. /\ Alone(t) /\ pc'[t] = "take" /\ pc' \in [Threads -> Pc]
      /\ UNCHANGED <<runV, elsV, aRes, archRes, v, a, pcT, due, failed, archivers>>
  BY <1>1, <1>2 DEF Alone, IInv, TypeOK, Pc, archives, archivers, locks, tasks, history
<1>4. TypeOK'
  BY <1>1, <1>2, <1>3 DEF IInv, TypeOK, archives, archivers, data, locks, tasks, history
<1>5. AResHeld' /\ ArchResHeld' /\ StopComes'
  BY <1>1, <1>3, LocksSame, StopSame
<1>6. QED
  BY <1>1, <1>3, <1>4, <1>5, RestSame DEF IInv

LEMMA TakeKeeps ==
  ASSUME ValArchAssumption, IInv, NEW t \in Threads, Take(t)
  PROVE  IInv'
<1>1. /\ pc[t] = "take" /\ a[t] \in Archivers
      /\ UNCHANGED <<archives, archivers, data, locks, tasks, history>>
      /\ Leaves(t)
      /\ \/ pc' = [pc EXCEPT ![t] = "idle"] /\ UNCHANGED <<v, todo>>
         \/ \E x \in elsA[a[t]] : /\ v' = [v EXCEPT ![t] = x]
                                  /\ todo' = [todo EXCEPT ![t] = {a[t]}]
                                  /\ pc' = [pc EXCEPT ![t] = "detach"]
  <2>1. a[t] \in Archivers
    BY DEF IInv, TypeOK
  <2>2. QED
    BY <2>1, ReturnsIs DEF Take, At
<1>2. /\ Alone(t) /\ pc'[t] \in {"idle", "detach"} /\ pc' \in [Threads -> Pc]
      /\ UNCHANGED <<runV, elsV, aRes, archRes, pcT, due, failed>>
  <2>1. UNCHANGED <<runV, elsV, aRes, archRes, pcT, due, failed>>
    BY <1>1 DEF archives, locks, tasks, history
  <2>2. PICK where \in {"idle", "detach"} : pc' = [pc EXCEPT ![t] = where]
    BY <1>1
  <2>3. pc' \in [Threads -> Pc] /\ pc'[t] = where /\ \A u \in Threads \ {t} : pc'[u] = pc[u]
    BY <2>2 DEF IInv, TypeOK, Pc
  <2>4. \A u \in Threads \ {t} : v'[u] = v[u] /\ todo'[u] = todo[u]
    BY <1>1 DEF IInv, TypeOK
  <2>5. QED
    BY <1>1, <2>1, <2>3, <2>4 DEF Alone, Leaves
<1>3. /\ v' \in [Threads -> Archives] /\ todo' \in [Threads -> SUBSET (Archives \cup Archivers)]
  <2>1. elsA[a[t]] \subseteq Archives /\ {a[t]} \in SUBSET (Archives \cup Archivers)
    BY <1>1 DEF IInv, TypeOK
  <2>2. v \in [Threads -> Archives] /\ todo \in [Threads -> SUBSET (Archives \cup Archivers)]
    BY DEF IInv, TypeOK
  <2>3. CASE UNCHANGED <<v, todo>>
    BY <2>2, <2>3
  <2>4. CASE \E x \in elsA[a[t]] : /\ v' = [v EXCEPT ![t] = x]
                                   /\ todo' = [todo EXCEPT ![t] = {a[t]}]
    BY <2>1, <2>2, <2>4
  <2>5. QED
    BY <1>1, <2>3, <2>4
<1>4. TypeOK'
  BY <1>1, <1>2, <1>3 DEF Leaves, IInv, TypeOK, archives, archivers, data, locks, tasks, history
<1>5. AResHeld' /\ ArchResHeld' /\ StopComes'
  BY <1>1, <1>2, LocksSame, StopSame
<1>6. QED
  BY <1>1, <1>2, <1>4, <1>5, RestSame DEF IInv

\* The step at which a thread takes archRes to sort, and the one that releases it.
LEMMA ArchRes ==
  ASSUME ValArchAssumption, IInv, NEW t \in Threads, NEW y \in Archivers, Alone(t),
         UNCHANGED <<aRes, pcT>>,
         \/ /\ archRes' = Reading(archRes, y, t) /\ a'[t] = y
            /\ pc[t] \notin {"place", "remove", "sort"} /\ pc'[t] = "sort"
         \/ /\ archRes' = Released(archRes, y, t) /\ a[t] = y
            /\ pc[t] = "sort" /\ pc'[t] \notin {"place", "remove", "sort"}
  PROVE  /\ archRes' \in [Archivers -> Locks]
         /\ AResHeld' /\ ArchResHeld'
         /\ \A l \in Range(aRes') \cup Range(archRes') : l.w # Nobody => l.r = {}
<1>1. /\ aRes \in [Archives -> Locks] /\ archRes \in [Archivers -> Locks]
      /\ t \in Holders /\ Nobody \notin Threads /\ t \notin Archivers
  BY DEF IInv, TypeOK, Holders, ValArchAssumption
<1>2. /\ archRes' \in [Archivers -> Locks]
      /\ \A z \in Archivers :
           /\ archRes'[z].w = Nobody
           /\ \A h \in Holders : ~(z = y /\ h = t) => (h \in archRes'[z].r <=> h \in archRes[z].r)
      /\ t \in archRes'[y].r <=> pc'[t] = "sort"
  <2>1. \A z \in Archivers : archRes[z].w = Nobody
    BY DEF IInv, ArchResHeld
  <2>2. CASE archRes' = Reading(archRes, y, t) /\ pc'[t] = "sort"
    <3>1. /\ archRes' \in [Archivers -> Locks]
          /\ \A z \in Archivers \ {y} : archRes'[z] = archRes[z]
          /\ archRes'[y].w = archRes[y].w
          /\ archRes'[y].r = archRes[y].r \cup {t}
      BY <1>1, <2>2, ReadingIs
    <3>2. QED
      BY <2>1, <2>2, <3>1
  <2>3. CASE archRes' = Released(archRes, y, t) /\ pc'[t] # "sort"
    <3>1. /\ archRes' \in [Archivers -> Locks]
          /\ \A z \in Archivers \ {y} : archRes'[z] = archRes[z]
          /\ archRes'[y].w = IF archRes[y].w = t THEN Nobody ELSE archRes[y].w
          /\ archRes'[y].r = archRes[y].r \ {t}
      BY <1>1, <2>3, ReleasedIs
    <3>2. QED
      BY <2>1, <2>3, <3>1
  <2>4. QED
    BY <2>2, <2>3
<1>3. ArchResHeld'
  <2>1. ASSUME NEW z \in Archivers
        PROVE  z \in archRes'[z].r <=> pcT'[z] = "pass"
    <3>1. z \in Holders /\ z # t
      BY <1>1 DEF Holders
    <3>2. QED
      BY <1>2, <3>1 DEF IInv, ArchResHeld
  <2>2. ASSUME NEW z \in Archivers, NEW u \in Threads
        PROVE  u \in archRes'[z].r <=> pc'[u] = "sort" /\ a'[u] = z
    <3>1. u \in Holders
      BY DEF Holders
    <3>2. CASE u # t
      BY <1>2, <3>1, <3>2 DEF IInv, ArchResHeld, Alone
    <3>3. CASE u = t /\ z = y
      BY <1>2, <3>3
    <3>4. CASE u = t /\ z # y
      <4>1. t \in archRes'[z].r <=> t \in archRes[z].r
        BY <1>1, <1>2, <3>4
      <4>2. ~(pc[t] = "sort" /\ a[t] = z)
        BY <3>4
      <4>3. QED
        BY <3>4, <4>1, <4>2 DEF IInv, ArchResHeld
    <3>5. QED
      BY <3>2, <3>3, <3>4
  <2>3. QED
    BY <1>2, <2>1, <2>2 DEF ArchResHeld
<1>4. AResHeld'
  BY <1>1 DEF IInv, AResHeld, Alone
<1>5. QED
  BY <1>1, <1>2, <1>3, <1>4 DEF AResHeld, ArchResHeld, Range

\* A change of the period holds archRes while it is in the elements.
LEMMA SortKeeps ==
  ASSUME ValArchAssumption, IInv, NEW t \in Threads, NEW y \in Archivers,
         SortA(t, y) \/ (SortDone(t) /\ a[t] = y)
  PROVE  IInv'
<1>1. /\ Alone(t) /\ a' \in [Threads -> Archivers] /\ pc' \in [Threads -> Pc]
      /\ op' \in [Threads -> Kinds \cup {"none"}] /\ ops' \in 0..MaxOps
      /\ todo' \in [Threads -> SUBSET (Archives \cup Archivers)]
      /\ UNCHANGED <<archives, archivers, data, aRes, v, tasks, due, fails, failed>>
      /\ pc[t] \notin {"place", "list", "detach", "remove"}
      /\ pc'[t] \in {"sort", "idle"}
      /\ pc'[t] = "sort" => todo'[t] = elsA[y] /\ a'[t] = y
      /\ \/ /\ archRes' = Reading(archRes, y, t) /\ a'[t] = y
            /\ pc[t] \notin {"place", "remove", "sort"} /\ pc'[t] = "sort"
         \/ /\ archRes' = Released(archRes, y, t) /\ a[t] = y
            /\ pc[t] = "sort" /\ pc'[t] \notin {"place", "remove", "sort"}
  <2>1. CASE SortA(t, y)
    <3>1. /\ pc[t] = "idle" /\ ops' = ops + 1 /\ ops < MaxOps /\ op' = [op EXCEPT ![t] = "sort"]
          /\ a' = [a EXCEPT ![t] = y] /\ archRes' = Reading(archRes, y, t)
          /\ todo' = [todo EXCEPT ![t] = elsA[y]] /\ pc' = [pc EXCEPT ![t] = "sort"]
          /\ UNCHANGED <<archives, archivers, data, aRes, v, tasks, due, fails, failed>>
      BY <2>1 DEF SortA, Call, At
    <3>2. elsA[y] \in SUBSET (Archives \cup Archivers)
      BY DEF IInv, TypeOK
    <3>3. QED
      BY <3>1, <3>2 DEF Alone, IInv, TypeOK, Pc, Kinds, ValArchAssumption
  <2>2. CASE SortDone(t) /\ a[t] = y
    <3>1. /\ pc[t] = "sort" /\ archRes' = Released(archRes, y, t) /\ Leaves(t)
          /\ pc' = [pc EXCEPT ![t] = "idle"]
          /\ UNCHANGED <<archives, archivers, data, aRes, v, todo, tasks, history>>
      BY <2>2, ReturnsIs DEF SortDone
    <3>2. QED
      BY <2>2, <3>1 DEF Leaves, Alone, IInv, TypeOK, Pc, history
  <2>3. QED
    BY <2>1, <2>2
<1>2. /\ archRes' \in [Archivers -> Locks] /\ AResHeld' /\ ArchResHeld'
      /\ \A l \in Range(aRes') \cup Range(archRes') : l.w # Nobody => l.r = {}
  BY <1>1, ArchRes DEF tasks
<1>3. TypeOK'
  BY <1>1, <1>2 DEF IInv, TypeOK, archives, archivers, data, tasks
<1>4. VisitsAttached'
  BY <1>1 DEF IInv, VisitsAttached, Alone, archivers, tasks
<1>5. StopComes'
  BY <1>1, StopSame DEF archives
<1>6. Mirror' /\ MarksStored' /\ TaskRuns'
  BY <1>1, DataSame, TasksSame DEF IInv, Mirror, archives, archivers, tasks
<1>7. DueThere' /\ DueStored'
  BY <1>1, DueSame DEF archives, archivers, tasks
<1>8. QED
  BY <1>2, <1>3, <1>4, <1>5, <1>6, <1>7 DEF IInv

LEMMA SortOneKeeps ==
  ASSUME ValArchAssumption, IInv, NEW t \in Threads, NEW x \in Archives, SortOne(t, x)
  PROVE  IInv'
<1>1. /\ pc[t] = "sort" /\ todo' = [todo EXCEPT ![t] = @ \ {x}]
      /\ UNCHANGED <<archives, archivers, data, locks, pc, v, a, op, tasks, history>>
  BY DEF SortOne
<1>2. /\ Alone(t) /\ todo' \in [Threads -> SUBSET (Archives \cup Archivers)]
      /\ todo'[t] \subseteq todo[t]
      /\ UNCHANGED <<runV, elsV, elsA, left, pcT, due, failed, aRes, archRes>>
  BY <1>1 DEF Alone, IInv, TypeOK, archives, archivers, locks, tasks, history
<1>3. TypeOK'
  BY <1>1, <1>2 DEF IInv, TypeOK, archives, archivers, data, locks, tasks, history
<1>4. AResHeld' /\ ArchResHeld' /\ Mirror'
  BY <1>1, <1>2 DEF IInv, AResHeld, ArchResHeld, Mirror
<1>5. VisitsAttached'
  BY <1>1, <1>2 DEF IInv, VisitsAttached, Alone
<1>6. StopComes'
  BY <1>1, <1>2, StopSame
<1>7. MarksStored' /\ TaskRuns' /\ DueThere' /\ DueStored'
  BY <1>1, <1>2, DataSame, TasksSame, DueSame DEF archivers, tasks
<1>8. QED
  BY <1>3, <1>4, <1>5, <1>6, <1>7 DEF IInv

\* The task of a started archiver sleeps first.
LEMMA StartAKeeps ==
  ASSUME ValArchAssumption, IInv, NEW t \in Threads, NEW y \in Archivers, StartA(t, y)
  PROVE  IInv'
<1>1. /\ pcT[y] = "none"
      /\ runA' = [runA EXCEPT ![y] = TRUE] /\ endrun' = [endrun EXCEPT ![y] = FALSE]
      /\ pcT' = [pcT EXCEPT ![y] = "sleep"] /\ isLast' = [isLast EXCEPT ![y] = FALSE]
      /\ op' \in [Threads -> Kinds \cup {"none"}] /\ ops' \in 0..MaxOps
      /\ UNCHANGED <<archives, elsA, data, locks, pc, v, a, todo, left, due, fails, failed>>
  BY DEF StartA, Call, Kinds, IInv, TypeOK, ValArchAssumption
<1>2. /\ UNCHANGED <<runV, elsV, aRes, archRes>>
      /\ \A z \in Archivers : /\ pcT'[z] = IF z = y THEN "sleep" ELSE pcT[z]
                              /\ isLast'[z] = IF z = y THEN FALSE ELSE isLast[z]
                              /\ runA'[z] = IF z = y THEN TRUE ELSE runA[z]
                              /\ endrun'[z] = IF z = y THEN FALSE ELSE endrun[z]
  BY <1>1 DEF IInv, TypeOK, archives, locks
<1>3. TypeOK'
  BY <1>1 DEF IInv, TypeOK, archives, data, locks, PcT
<1>4. AResHeld' /\ Mirror' /\ StopComes'
  BY <1>1, <1>2 DEF IInv, AResHeld, Mirror, StopComes, Detaching
<1>5. ArchResHeld' /\ VisitsAttached'
  BY <1>1, <1>2 DEF IInv, ArchResHeld, VisitsAttached
<1>6. TaskRuns'
  BY <1>2 DEF IInv, TaskRuns
<1>7. MarksStored' /\ DueThere'
  BY <1>1, <1>2, DataSame DEF IInv, DueThere, data
<1>8. DueStored'
  <2>1. ASSUME NEW z \in Archivers, NEW d \in due'[z], Passed(z, d[1])', d[2] \in Held(d[1])'
        PROVE  d[2] \in stored'[z][d[1]]
    <3>1. d \in due[z] /\ d[1] \in Archives
      BY <1>1, <2>1 DEF IInv, TypeOK
    <3>2. z # y /\ Passed(z, d[1])
      <4>1. pcT'[z] = "sleep" => ~Passed(z, d[1])'
        BY DEF Passed
      <4>2. z # y
        BY <1>2, <2>1, <4>1
      <4>3. QED
        BY <1>1, <1>2, <2>1, <4>2 DEF Passed
    <3>3. d[2] \in Held(d[1])
      BY <1>1, <2>1, <3>1, HeldSame DEF data
    <3>4. QED
      BY <1>1, <3>1, <3>2, <3>3 DEF IInv, DueStored, data
  <2>2. QED
    BY <2>1 DEF DueStored
<1>9. QED
  BY <1>3, <1>4, <1>5, <1>6, <1>7, <1>8 DEF IInv

\* What is due when the end is first asked for: the last pass is to come.
LEMMA StopAKeeps ==
  ASSUME ValArchAssumption, IInv, NEW t \in Threads, NEW y \in Archivers, StopA(t, y)
  PROVE  IInv'
<1>1. /\ pc[t] = "idle" /\ op' \in [Threads -> Kinds \cup {"none"}] /\ ops' \in 0..MaxOps
      /\ a' = [a EXCEPT ![t] = y] /\ todo' = [todo EXCEPT ![t] = {}]
      /\ endrun' = [endrun EXCEPT ![y] = @ \/ runA[y]]
      /\ due' = IF runA[y] /\ ~endrun[y]
                  THEN [due EXCEPT ![y] = {d \in elsA[y] \X (1..MaxVals) :
                                             runV[d[1]] /\ d[2] \in Held(d[1])}]
                  ELSE due
      /\ pc' = [pc EXCEPT ![t] = "ending"]
      /\ UNCHANGED <<archives, runA, elsA, data, locks, v, tasks, fails, failed>>
  BY DEF StopA, Call, At, Kinds, IInv, TypeOK, ValArchAssumption
<1>2. /\ Alone(t) /\ pc'[t] = "ending" /\ pc' \in [Threads -> Pc]
      /\ UNCHANGED <<runV, elsV, elsA, left, pcT, isLast, aRes, archRes, last>>
  BY <1>1 DEF Alone, IInv, TypeOK, Pc, archives, data, locks, tasks
<1>3. due' \in [Archivers -> SUBSET (Archives \X (1..MaxVals))]
  <2>1. {d \in elsA[y] \X (1..MaxVals) : runV[d[1]] /\ d[2] \in Held(d[1])}
          \in SUBSET (Archives \X (1..MaxVals))
    BY DEF IInv, TypeOK
  <2>2. QED
    BY <1>1, <2>1 DEF IInv, TypeOK
<1>4. TypeOK'
  BY <1>1, <1>2, <1>3 DEF IInv, TypeOK, archives, data, locks, tasks
<1>5. AResHeld' /\ ArchResHeld' /\ Mirror' /\ VisitsAttached' /\ StopComes' /\ MarksStored'
  BY <1>1, <1>2, LocksSame, ListsSame, StopSame, DataSame
<1>6. TaskRuns'
  <2>1. \A z \in Archivers : endrun[z] => endrun'[z]
    BY <1>1 DEF IInv, TypeOK
  <2>2. QED
    BY <1>1, <2>1 DEF IInv, TaskRuns, tasks
<1>7. ASSUME NEW z \in Archivers, NEW d \in due'[z]
      PROVE  /\ d[1] \in elsA'[z] /\ runV'[d[1]] /\ d[2] <= last'[d[1]]
             /\ Passed(z, d[1])' /\ d[2] \in Held(d[1])' => d[2] \in stored'[z][d[1]]
  <2>1. CASE d \in due[z]
    <3>1. d[1] \in Archives
      BY <2>1 DEF IInv, TypeOK
    <3>2. Passed(z, d[1])' => Passed(z, d[1])
      BY <1>2 DEF Passed
    <3>3. Held(d[1])' = Held(d[1])
      BY <1>2, <3>1, HeldSame
    <3>4. QED
      BY <1>1, <1>2, <2>1, <3>1, <3>2, <3>3 DEF IInv, DueThere, DueStored, data
  <2>2. CASE d \notin due[z]
    <3>1. /\ z = y /\ runA[y] /\ ~endrun[y]
          /\ d \in elsA[y] \X (1..MaxVals) /\ runV[d[1]] /\ d[2] \in Held(d[1])
      BY <1>1, <1>7, <2>2 DEF IInv, TypeOK
    <3>2. d[1] \in Archives /\ last[d[1]] \in Nat
      BY <3>1 DEF IInv, TypeOK, ValArchAssumption
    <3>3. d[2] <= last[d[1]]
      BY <3>1, <3>2, HeldIs
    <3>4. pcT[y] # "none" /\ ~isLast[y] /\ pcT[y] # "end"
      BY <3>1 DEF IInv, TaskRuns
    <3>5. QED
      BY <1>2, <3>1, <3>3, <3>4 DEF Passed
  <2>3. QED
    BY <2>1, <2>2
<1>8. DueThere' /\ DueStored'
  BY <1>7 DEF DueThere, DueStored
<1>9. QED
  BY <1>4, <1>5, <1>6, <1>8 DEF IInv

-----------------------------------------------------------------------------
(* The task of an archiver                                                 *)

\* The step at which a pass takes archRes, and the one that releases it.
LEMMA PassRes ==
  ASSUME ValArchAssumption, IInv, NEW y \in Archivers, UNCHANGED <<aRes, pc, v, a>>,
         \A z \in Archivers \ {y} : pcT'[z] = pcT[z],
         \/ archRes' = Reading(archRes, y, y) /\ pcT'[y] = "pass"
         \/ archRes' = Released(archRes, y, y) /\ pcT'[y] # "pass"
  PROVE  /\ archRes' \in [Archivers -> Locks]
         /\ AResHeld' /\ ArchResHeld'
         /\ \A l \in Range(aRes') \cup Range(archRes') : l.w # Nobody => l.r = {}
<1>1. /\ aRes \in [Archives -> Locks] /\ archRes \in [Archivers -> Locks]
      /\ y \in Holders /\ y # Nobody /\ y \notin Threads
  BY DEF IInv, TypeOK, Holders, ValArchAssumption
<1>2. \A z \in Archivers : archRes[z].w = Nobody
  BY DEF IInv, ArchResHeld
<1>3. /\ archRes' \in [Archivers -> Locks]
      /\ \A z \in Archivers \ {y} : archRes'[z] = archRes[z]
      /\ archRes'[y].w = Nobody
      /\ \A h \in Threads : h \in archRes'[y].r <=> h \in archRes[y].r
      /\ y \in archRes'[y].r <=> pcT'[y] = "pass"
  <2>1. CASE archRes' = Reading(archRes, y, y) /\ pcT'[y] = "pass"
    <3>1. /\ archRes' \in [Archivers -> Locks]
          /\ \A z \in Archivers \ {y} : archRes'[z] = archRes[z]
          /\ archRes'[y].w = archRes[y].w
          /\ archRes'[y].r = archRes[y].r \cup {y}
      BY <1>1, <2>1, ReadingIs
    <3>2. QED
      BY <1>1, <1>2, <2>1, <3>1
  <2>2. CASE archRes' = Released(archRes, y, y) /\ pcT'[y] # "pass"
    <3>1. /\ archRes' \in [Archivers -> Locks]
          /\ \A z \in Archivers \ {y} : archRes'[z] = archRes[z]
          /\ archRes'[y].w = IF archRes[y].w = y THEN Nobody ELSE archRes[y].w
          /\ archRes'[y].r = archRes[y].r \ {y}
      BY <1>1, <2>2, ReleasedIs
    <3>2. QED
      BY <1>1, <1>2, <2>2, <3>1
  <2>3. QED
    BY <2>1, <2>2
<1>4. ArchResHeld'
  BY <1>2, <1>3 DEF IInv, ArchResHeld
<1>5. AResHeld'
  BY DEF IInv, AResHeld
<1>6. QED
  BY <1>1, <1>3, <1>4, <1>5 DEF AResHeld, ArchResHeld, Range

\* A pass starts with all the archives attached; what is due is among them.
LEMMA WakeKeeps ==
  ASSUME ValArchAssumption, IInv, NEW y \in Archivers, Wake(y)
  PROVE  IInv'
<1>1. /\ pcT[y] = "sleep"
      /\ isLast' = [isLast EXCEPT ![y] = endrun[y]]
      /\ archRes' = Reading(archRes, y, y)
      /\ left' = [left EXCEPT ![y] = elsA[y]]
      /\ pcT' = [pcT EXCEPT ![y] = "pass"]
      /\ UNCHANGED <<archives, archivers, data, aRes, threads, history>>
  BY DEF Wake
<1>2. /\ UNCHANGED <<runV, elsV, runA, elsA, endrun, pc, op, v, a, todo, due, fails, ops, failed>>
      /\ \A z \in Archivers : /\ pcT'[z] = IF z = y THEN "pass" ELSE pcT[z]
                              /\ isLast'[z] = IF z = y THEN endrun[z] ELSE isLast[z]
                              /\ left'[z] = IF z = y THEN elsA[z] ELSE left[z]
  BY <1>1 DEF IInv, TypeOK, archives, archivers, threads, history
<1>3. /\ archRes' \in [Archivers -> Locks] /\ AResHeld' /\ ArchResHeld'
      /\ \A l \in Range(aRes') \cup Range(archRes') : l.w # Nobody => l.r = {}
  BY <1>1, <1>2, PassRes
<1>4. TypeOK'
  BY <1>1, <1>2, <1>3 DEF IInv, TypeOK, archives, archivers, data, PcT
<1>5. Mirror' /\ StopComes'
  BY <1>2 DEF IInv, Mirror, StopComes, Detaching
<1>6. VisitsAttached'
  BY <1>2 DEF IInv, VisitsAttached
<1>7. TaskRuns'
  BY <1>1, <1>2 DEF IInv, TaskRuns
<1>8. MarksStored' /\ DueThere'
  BY <1>1, <1>2, DataSame DEF IInv, DueThere, data
<1>9. DueStored'
  <2>1. ASSUME NEW z \in Archivers, NEW d \in due'[z], Passed(z, d[1])', d[2] \in Held(d[1])'
        PROVE  d[2] \in stored'[z][d[1]]
    <3>1. d \in due[z] /\ d[1] \in Archives /\ d[1] \in elsA[z]
      BY <1>2, <2>1 DEF IInv, TypeOK, DueThere
    <3>2. pcT'[z] = "pass" => d[1] \notin left'[z]
      BY <2>1 DEF Passed
    <3>3. z # y
      BY <1>2, <3>1, <3>2
    <3>4. Passed(z, d[1])
      BY <1>2, <2>1, <3>3 DEF Passed
    <3>5. d[2] \in Held(d[1])
      BY <1>1, <2>1, <3>1, HeldSame DEF data
    <3>6. QED
      BY <1>1, <3>1, <3>4, <3>5 DEF IInv, DueStored, data
  <2>2. QED
    BY <2>1 DEF DueStored
<1>10. QED
  BY <1>3, <1>4, <1>5, <1>6, <1>7, <1>8, <1>9 DEF IInv

LEMMA PassDoneKeeps ==
  ASSUME ValArchAssumption, IInv, NEW y \in Archivers, PassDone(y)
  PROVE  IInv'
<1>1. /\ pcT[y] = "pass" /\ left[y] = {}
      /\ archRes' = Released(archRes, y, y)
      /\ pcT' = [pcT EXCEPT ![y] = IF isLast[y] THEN "end" ELSE "sleep"]
      /\ UNCHANGED <<archives, archivers, data, aRes, threads, isLast, left, history>>
  BY DEF PassDone
<1>2. /\ UNCHANGED <<runV, elsV, runA, elsA, endrun, pc, op, v, a, todo, due, fails, ops, failed,
                     left, isLast>>
      /\ \A z \in Archivers : pcT'[z] = IF z = y THEN IF isLast[z] THEN "end" ELSE "sleep"
                                                 ELSE pcT[z]
  BY <1>1 DEF IInv, TypeOK, archives, archivers, threads, history
<1>3. /\ archRes' \in [Archivers -> Locks] /\ AResHeld' /\ ArchResHeld'
      /\ \A l \in Range(aRes') \cup Range(archRes') : l.w # Nobody => l.r = {}
  BY <1>1, <1>2, PassRes
<1>4. TypeOK'
  BY <1>1, <1>2, <1>3 DEF IInv, TypeOK, archives, archivers, data, PcT
<1>5. Mirror' /\ StopComes'
  BY <1>2 DEF IInv, Mirror, StopComes, Detaching
<1>6. VisitsAttached'
  BY <1>1, <1>2 DEF IInv, VisitsAttached
<1>7. TaskRuns'
  BY <1>1, <1>2 DEF IInv, TaskRuns
<1>8. MarksStored' /\ DueThere'
  BY <1>1, <1>2, DataSame DEF IInv, DueThere, data
<1>9. DueStored'
  <2>1. ASSUME NEW z \in Archivers, NEW d \in due'[z], Passed(z, d[1])', d[2] \in Held(d[1])'
        PROVE  d[2] \in stored'[z][d[1]]
    <3>1. d \in due[z] /\ d[1] \in Archives
      BY <1>2, <2>1 DEF IInv, TypeOK
    <3>2. Passed(z, d[1])
      BY <1>1, <1>2, <2>1 DEF Passed
    <3>3. d[2] \in Held(d[1])
      BY <1>1, <2>1, <3>1, HeldSame DEF data
    <3>4. QED
      BY <1>1, <3>1, <3>2, <3>3 DEF IInv, DueStored, data
  <2>2. QED
    BY <2>1 DEF DueStored
<1>10. QED
  BY <1>3, <1>4, <1>5, <1>6, <1>7, <1>8, <1>9 DEF IInv

LEMMA TaskEndKeeps ==
  ASSUME ValArchAssumption, IInv, NEW y \in Archivers, TaskEnd(y)
  PROVE  IInv'
<1>1. /\ pcT[y] = "end"
      /\ runA' = [runA EXCEPT ![y] = FALSE]
      /\ pcT' = [pcT EXCEPT ![y] = "none"]
      /\ UNCHANGED <<archives, elsA, endrun, data, locks, threads, isLast, left, history>>
  BY DEF TaskEnd
<1>2. /\ UNCHANGED <<runV, elsV, elsA, endrun, pc, op, v, a, todo, due, fails, ops, failed, left, isLast,
                     aRes, archRes>>
      /\ \A z \in Archivers : /\ pcT'[z] = IF z = y THEN "none" ELSE pcT[z]
                              /\ runA'[z] = IF z = y THEN FALSE ELSE runA[z]
  BY <1>1 DEF IInv, TypeOK, archives, locks, threads, history
<1>3. TypeOK'
  BY <1>1, <1>2 DEF IInv, TypeOK, archives, data, locks, PcT
<1>4. AResHeld' /\ Mirror' /\ StopComes'
  BY <1>2 DEF IInv, AResHeld, Mirror, StopComes, Detaching
<1>5. ArchResHeld' /\ VisitsAttached'
  BY <1>1, <1>2 DEF IInv, ArchResHeld, VisitsAttached
<1>6. TaskRuns'
  BY <1>1, <1>2 DEF IInv, TaskRuns
<1>7. MarksStored' /\ DueThere'
  BY <1>1, <1>2, DataSame DEF IInv, DueThere, data
<1>8. DueStored'
  <2>1. ASSUME NEW z \in Archivers, NEW d \in due'[z], Passed(z, d[1])', d[2] \in Held(d[1])'
        PROVE  d[2] \in stored'[z][d[1]]
    <3>1. d \in due[z] /\ d[1] \in Archives
      BY <1>2, <2>1 DEF IInv, TypeOK
    <3>2. Passed(z, d[1])
      BY <1>1, <1>2, <2>1 DEF Passed
    <3>3. d[2] \in Held(d[1])
      BY <1>1, <2>1, <3>1, HeldSame DEF data
    <3>4. QED
      BY <1>1, <3>1, <3>2, <3>3 DEF IInv, DueStored, data
  <2>2. QED
    BY <2>1 DEF DueStored
<1>9. QED
  BY <1>3, <1>4, <1>5, <1>6, <1>7, <1>8 DEF IInv

\* The values from the mark on, or the oldest that is still held, are stored up
\* to setOK: what is held below the new mark is stored, and what is due and was
\* not stored is not due any more.
LEMMA TransferKeeps ==
  ASSUME ValArchAssumption, IInv, NEW y \in Archivers, NEW x \in Archives, Transfer(y, x)
  PROVE  IInv'
<1> DEFINE beg == Max({lastGet[y][x], First(x)})
           end == last[x]
<1>1. /\ pcT[y] = "pass" /\ x \in left[y]
      /\ left' = [left EXCEPT ![y] = @ \ {x}]
      /\ UNCHANGED <<archives, archivers, last, locks, threads, pcT, isLast, ops, failed>>
  BY DEF Transfer
<1>2. /\ UNCHANGED <<runV, elsV, runA, elsA, endrun, pc, op, v, a, todo, aRes, archRes>>
      /\ left' \in [Archivers -> SUBSET Archives]
      /\ \A z \in Archivers : left'[z] = IF z = y THEN left[z] \ {x} ELSE left[z]
  BY <1>1 DEF IInv, TypeOK, archives, archivers, locks, threads
<1>3. /\ lastGet \in [Archivers -> [Archives -> 0..MaxVals + 1]]
      /\ stored \in [Archivers -> [Archives -> SUBSET (1..MaxVals)]]
      /\ due \in [Archivers -> SUBSET (Archives \X (1..MaxVals))]
      /\ end \in 0..MaxVals /\ lastGet[y][x] \in Nat /\ MaxVals \in Nat
      /\ lastGet[y][x] <= end + 1
      /\ fails \in 0..MaxFails
  BY DEF IInv, TypeOK, MarksStored, ValArchAssumption
<1>4. /\ First(x) \in Nat /\ (First(x) = 0 <=> end = 0)
      /\ \A c \in Held(x) : c \in Nat /\ First(x) <= c /\ 1 <= c /\ c <= end
  <2>1. end \in Nat
    BY <1>3
  <2>2. QED
    BY <2>1, HeldIs
<1>5. beg = IF lastGet[y][x] >= First(x) THEN lastGet[y][x] ELSE First(x)
  <2>1. lastGet[y][x] \in Int /\ First(x) \in Int
    BY <1>3, <1>4
  <2>2. QED
    BY <2>1, MaxOfTwo
<1>6. \A z \in Archives : Held(z)' = Held(z)
  BY <1>1, HeldSame
<1>7. \A c \in 1..MaxVals : c \in Held(x) /\ c < lastGet[y][x] => c \in stored[y][x]
  BY DEF IInv, MarksStored
<1>8. AResHeld' /\ ArchResHeld' /\ Mirror' /\ StopComes' /\ TaskRuns'
  BY <1>1, <1>2, TasksSame DEF IInv, AResHeld, ArchResHeld, Mirror, StopComes, Detaching
<1>9. VisitsAttached'
  BY <1>1, <1>2 DEF IInv, VisitsAttached
<1>10. ASSUME NEW z \in Archivers, NEW d \in due[z], ~(z = y /\ d[1] = x),
              Passed(z, d[1])', d[2] \in Held(d[1])'
       PROVE  d[2] \in stored[z][d[1]]
  <2>1. d[1] \in Archives
    BY <1>3
  <2>2. d[2] \in Held(d[1])
    BY <1>6, <1>10, <2>1
  <2>3. Passed(z, d[1])
    BY <1>1, <1>2, <1>10 DEF Passed
  <2>4. QED
    BY <2>2, <2>3 DEF IInv, DueStored
<1>11. CASE /\ ~runV[x] \/ beg = 0 \/ end = 0 \/ beg > end
            /\ UNCHANGED <<lastGet, stored, due, fails>>
  <2>1. UNCHANGED data
    BY <1>1, <1>11 DEF data
  <2>2. TypeOK'
    BY <1>1, <1>2, <2>1, <1>11 DEF IInv, TypeOK, archives, archivers, data, locks, threads
  <2>3. MarksStored' /\ DueThere'
    BY <1>2, <2>1, <1>11, DataSame DEF IInv, DueThere, data
  <2>4. ASSUME NEW d \in due[y], d[1] = x, d[2] \in Held(x)
        PROVE  d[2] \in stored[y][x]
    <3>1. runV[x] /\ d[2] \in 1..MaxVals
      BY <1>3, <2>4 DEF IInv, DueThere
    <3>2. d[2] < lastGet[y][x]
      BY <1>3, <1>4, <1>5, <1>11, <2>4, <3>1
    <3>3. QED
      BY <1>7, <2>4, <3>1, <3>2
  <2>5. DueStored'
    BY <1>3, <1>6, <1>10, <1>11, <2>4 DEF DueStored
  <2>6. QED
    BY <1>8, <1>9, <2>2, <2>3, <2>5 DEF IInv
<1>12. CASE /\ runV[x] /\ beg # 0 /\ end # 0 /\ ~(beg > end)
            /\ \E setOK \in {0} \cup (beg..end) :
                 /\ setOK # end => fails < MaxFails
                 /\ fails' = IF setOK = end THEN fails ELSE fails + 1
                 /\ stored' = [stored EXCEPT ![y][x] = @ \cup (beg..setOK)]
                 /\ lastGet' = [lastGet EXCEPT ![y][x] = Got(y, x, setOK)]
                 /\ due' = [due EXCEPT ![y] = {d \in @ : d[1] = x => d[2] <= setOK}]
  <2>1. PICK setOK \in {0} \cup (beg..end) :
          /\ setOK # end => fails < MaxFails
          /\ fails' = IF setOK = end THEN fails ELSE fails + 1
          /\ stored' = [stored EXCEPT ![y][x] = @ \cup (beg..setOK)]
          /\ lastGet' = [lastGet EXCEPT ![y][x] = Got(y, x, setOK)]
          /\ due' = [due EXCEPT ![y] = {d \in @ : d[1] = x => d[2] <= setOK}]
    BY <1>12
  <2>2. /\ beg \in Nat \ {0} /\ beg >= lastGet[y][x] /\ beg >= First(x) /\ setOK \in 0..end
        /\ setOK = 0 \/ setOK >= beg
    BY <1>3, <1>4, <1>5, <1>12, <2>1
  <2>3. Got(y, x, setOK) = IF setOK = 0 THEN lastGet[y][x] ELSE setOK + 1
    BY <1>3, <2>2 DEF Got
  <2>4. fails' \in 0..MaxFails
    BY <1>3, <2>1 DEF ValArchAssumption
  <2>5. /\ lastGet' \in [Archivers -> [Archives -> 0..MaxVals + 1]]
        /\ lastGet'[y][x] = Got(y, x, setOK)
        /\ \A z \in Archivers, u \in Archives :
             ~(z = y /\ u = x) => lastGet'[z][u] = lastGet[z][u]
    <3>1. Got(y, x, setOK) \in 0..MaxVals + 1
      BY <1>3, <2>2, <2>3
    <3>2. QED
      BY <1>3, <2>1, <3>1
  <2>6. /\ stored' \in [Archivers -> [Archives -> SUBSET (1..MaxVals)]]
        /\ stored'[y][x] = stored[y][x] \cup (beg..setOK)
        /\ \A z \in Archivers, u \in Archives :
             ~(z = y /\ u = x) => stored'[z][u] = stored[z][u]
    <3>1. stored[y][x] \in SUBSET (1..MaxVals)
      BY <1>3
    <3>2. beg..setOK \in SUBSET (1..MaxVals)
      <4>1. /\ beg \in Nat \ {0} /\ end \in Nat /\ MaxVals \in Nat /\ end <= MaxVals
            /\ setOK \in Nat /\ setOK <= end
        BY <1>3, <2>2
      <4>2. \A c \in beg..setOK : c \in 1..MaxVals
        BY <4>1
      <4>3. QED
        BY <4>2
    <3>3. PICK s \in SUBSET (1..MaxVals) : s = stored[y][x] \cup (beg..setOK)
      BY <3>1, <3>2
    <3>4. stored' = [stored EXCEPT ![y][x] = s]
      BY <2>1, <3>3
    <3>5. QED
      BY <1>3, <3>3, <3>4
  <2>7. /\ due' \in [Archivers -> SUBSET (Archives \X (1..MaxVals))]
        /\ \A z \in Archivers : due'[z] \subseteq due[z]
        /\ \A d \in due'[y] : d[1] = x => d[2] <= setOK
    <3>1. {d \in due[y] : d[1] = x => d[2] <= setOK} \in SUBSET (Archives \X (1..MaxVals))
      BY <1>3
    <3>2. QED
      BY <1>3, <2>1, <3>1
  <2>8. TypeOK'
    BY <1>1, <1>2, <2>4, <2>5, <2>6, <2>7 DEF IInv, TypeOK, archives, archivers, locks, threads
  <2>9. ASSUME NEW c \in 1..MaxVals, c \in Held(x), c < lastGet'[y][x] \/ c <= setOK
        PROVE  c \in stored'[y][x]
    <3>1. CASE c < lastGet[y][x]
      BY <1>7, <2>6, <2>9, <3>1
    <3>2. CASE ~(c < lastGet[y][x])
      <4>1. beg <= c /\ c <= setOK
        BY <1>3, <1>4, <1>5, <2>2, <2>3, <2>5, <2>9, <3>2
      <4>2. QED
        BY <2>2, <2>6, <4>1
    <3>3. QED
      BY <3>1, <3>2
  <2>10. MarksStored'
    <3>1. ASSUME NEW z \in Archivers, NEW u \in Archives
          PROVE  /\ lastGet'[z][u] <= last'[u] + 1
                 /\ \A c \in 1..MaxVals :
                      c \in Held(u)' /\ c < lastGet'[z][u] => c \in stored'[z][u]
      <4>1. CASE z = y /\ u = x
        <5>1. last'[x] = end /\ Held(x)' = Held(x)
          BY <1>1, <1>6
        <5>2. lastGet'[y][x] <= end + 1
          BY <1>3, <2>2, <2>3, <2>5
        <5>3. QED
          BY <2>9, <4>1, <5>1, <5>2
      <4>2. CASE ~(z = y /\ u = x)
        <5>1. /\ lastGet'[z][u] = lastGet[z][u] /\ stored'[z][u] = stored[z][u]
              /\ last'[u] = last[u] /\ Held(u)' = Held(u)
          BY <1>1, <1>6, <2>5, <2>6, <4>2
        <5>2. QED
          BY <5>1 DEF IInv, MarksStored
      <4>3. QED
        BY <4>1, <4>2
    <3>2. QED
      BY <3>1 DEF MarksStored
  <2>11. DueThere'
    BY <1>1, <1>2, <2>7 DEF IInv, DueThere
  <2>12. ASSUME NEW z \in Archivers, NEW d \in due'[z], Passed(z, d[1])', d[2] \in Held(d[1])'
         PROVE  d[2] \in stored'[z][d[1]]
    <3>1. d \in due[z] /\ d[1] \in Archives /\ d[2] \in 1..MaxVals
      BY <1>3, <2>7, <2>12
    <3>2. CASE z = y /\ d[1] = x
      BY <1>6, <2>7, <2>9, <2>12, <3>1, <3>2
    <3>3. CASE ~(z = y /\ d[1] = x)
      BY <1>10, <2>6, <2>12, <3>1, <3>3
    <3>4. QED
      BY <3>2, <3>3
  <2>13. DueStored'
    BY <2>12 DEF DueStored
  <2>14. QED
    BY <1>8, <1>9, <2>8, <2>10, <2>11, <2>13 DEF IInv
<1>13. QED
  <2>1. \/ /\ ~runV[x] \/ beg = 0 \/ end = 0 \/ beg > end
           /\ UNCHANGED <<lastGet, stored, due, fails>>
        \/ /\ runV[x] /\ beg # 0 /\ end # 0 /\ ~(beg > end)
           /\ \E setOK \in {0} \cup (beg..end) :
                /\ setOK # end => fails < MaxFails
                /\ fails' = IF setOK = end THEN fails ELSE fails + 1
                /\ stored' = [stored EXCEPT ![y][x] = @ \cup (beg..setOK)]
                /\ lastGet' = [lastGet EXCEPT ![y][x] = Got(y, x, setOK)]
                /\ due' = [due EXCEPT ![y] = {d \in @ : d[1] = x => d[2] <= setOK}]
    BY Zenon DEF Transfer
  <2>2. QED
    BY <1>11, <1>12, <2>1

\* What a write that throws leaves stored is of the buffer; the mark stays.
LEMMA PassThrowsKeeps ==
  ASSUME ValArchAssumption, IInv, NEW y \in Archivers, NEW x \in Archives, PassThrows(y, x)
  PROVE  IInv'
<1>1. /\ pcT[y] = "pass" /\ fails < MaxFails /\ fails' = fails + 1
      /\ left' = [left EXCEPT ![y] = {}]
      /\ archRes' = Released(archRes, y, y)
      /\ pcT' = [pcT EXCEPT ![y] = "sleep"]
      /\ UNCHANGED <<archives, archivers, lastGet, last, aRes, threads, isLast, due, ops, failed>>
  BY DEF PassThrows
<1>2. /\ UNCHANGED <<runV, elsV, runA, elsA, endrun, pc, op, v, a, todo>>
      /\ \A z \in Archivers : /\ pcT'[z] = IF z = y THEN "sleep" ELSE pcT[z]
                              /\ left'[z] = IF z = y THEN {} ELSE left[z]
  BY <1>1 DEF IInv, TypeOK, archives, archivers, threads
<1>3. /\ archRes' \in [Archivers -> Locks] /\ AResHeld' /\ ArchResHeld'
      /\ \A l \in Range(aRes') \cup Range(archRes') : l.w # Nobody => l.r = {}
  BY <1>1, <1>2, PassRes
<1>4. /\ stored' \in [Archivers -> [Archives -> SUBSET (1..MaxVals)]]
      /\ \A z \in Archivers, u \in Archives : stored[z][u] \subseteq stored'[z][u]
  <2>1. PICK upto \in Since(y, x) \cup {0} :
          stored' = [stored EXCEPT ![y][x] = @ \cup {c \in Since(y, x) : c <= upto}]
    BY DEF PassThrows
  <2>2. last[x] \in 0..MaxVals /\ MaxVals \in Nat
    BY DEF IInv, TypeOK, ValArchAssumption
  <2>3. \A c \in Held(x) : c \in Nat /\ 1 <= c /\ c <= last[x]
    BY <2>2, HeldIs
  <2>4. {c \in Since(y, x) : c <= upto} \in SUBSET (1..MaxVals)
    BY <2>2, <2>3 DEF Since
  <2>5. PICK w \in SUBSET (1..MaxVals) : w = {c \in Since(y, x) : c <= upto}
    BY <2>4
  <2>6. stored' = [stored EXCEPT ![y][x] = @ \cup w]
    BY <2>1, <2>5
  <2>7. QED
    BY <2>6 DEF IInv, TypeOK
<1>5. fails' \in 0..MaxFails
  BY <1>1 DEF IInv, TypeOK, ValArchAssumption
<1>6. TypeOK'
  <2>1. /\ left' \in [Archivers -> SUBSET Archives] /\ pcT' \in [Archivers -> PcT]
    BY <1>1 DEF IInv, TypeOK, PcT
  <2>2. UNCHANGED <<archS, aRes, lastGet, last, isLast, due, ops, failed>>
    BY <1>1 DEF archives
  <2>3. QED
    BY <1>2, <1>3, <1>4, <1>5, <2>1, <2>2 DEF IInv, TypeOK
<1>7. Mirror' /\ StopComes'
  BY <1>1, <1>2 DEF IInv, Mirror, StopComes, Detaching
<1>8. VisitsAttached'
  BY <1>1, <1>2 DEF IInv, VisitsAttached
<1>9. TaskRuns'
  BY <1>1, <1>2 DEF IInv, TaskRuns
<1>10. MarksStored'
  BY <1>1, <1>4, HeldSame DEF IInv, MarksStored
<1>11. DueThere'
  BY <1>1, <1>2 DEF IInv, DueThere
<1>12. DueStored'
  <2>1. ASSUME NEW z \in Archivers, NEW d \in due'[z], Passed(z, d[1])', d[2] \in Held(d[1])'
        PROVE  d[2] \in stored'[z][d[1]]
    <3>1. d \in due[z] /\ d[1] \in Archives
      BY <1>1, <2>1 DEF IInv, TypeOK
    <3>2. pcT'[z] = "sleep" => ~Passed(z, d[1])'
      BY DEF Passed
    <3>3. z # y
      BY <1>2, <2>1, <3>2
    <3>4. Passed(z, d[1])
      BY <1>1, <1>2, <2>1, <3>3 DEF Passed
    <3>5. d[2] \in Held(d[1])
      BY <1>1, <2>1, <3>1, HeldSame
    <3>6. d[2] \in stored[z][d[1]]
      BY <3>1, <3>4, <3>5 DEF IInv, DueStored
    <3>7. QED
      BY <1>4, <3>1, <3>6
  <2>2. QED
    BY <2>1 DEF DueStored
<1>13. QED
  BY <1>3, <1>6, <1>7, <1>8, <1>9, <1>10, <1>11, <1>12 DEF IInv

-----------------------------------------------------------------------------
(* The theorems                                                            *)

LEMMA InitEstablishes == ASSUME ValArchAssumption, Init PROVE IInv
<1>1. /\ (CHOOSE x \in Archives : TRUE) \in Archives
      /\ (CHOOSE x \in Archivers : TRUE) \in Archivers
  BY DEF ValArchAssumption
<1>2. /\ \A x \in Archives : aRes[x].w = Nobody /\ aRes[x].r = {}
      /\ \A y \in Archivers : archRes[y].w = Nobody /\ archRes[y].r = {}
      /\ aRes \in [Archives -> Locks] /\ archRes \in [Archivers -> Locks]
  BY DEF Init, Free, Locks
<1>3. AResHeld /\ ArchResHeld
  BY <1>2 DEF Init, AResHeld, ArchResHeld, ValArchAssumption
<1>4. \A l \in Range(aRes) \cup Range(archRes) : l.w # Nobody => l.r = {}
  BY <1>2 DEF Range
<1>5. TypeOK
  <2>1. /\ MaxVals \in Nat /\ MaxFails \in Nat /\ MaxOps \in Nat
        /\ Attached \in [Archives -> SUBSET Archivers]
    BY DEF ValArchAssumption
  <2>2. /\ runV \in [Archives -> BOOLEAN]
        /\ archS \in [Archives -> SUBSET Archivers] /\ elsV \in [Archives -> SUBSET Archivers]
        /\ runA \in [Archivers -> BOOLEAN] /\ endrun \in [Archivers -> BOOLEAN]
        /\ elsA \in [Archivers -> SUBSET Archives]
        /\ lastGet \in [Archivers -> [Archives -> 0..MaxVals+1]]
        /\ stored \in [Archivers -> [Archives -> SUBSET (1..MaxVals)]]
        /\ last \in [Archives -> 0..MaxVals]
    BY <2>1 DEF Init
  <2>3. /\ pc \in [Threads -> Pc] /\ op \in [Threads -> Kinds \cup {"none"}]
        /\ v \in [Threads -> Archives] /\ a \in [Threads -> Archivers]
        /\ todo \in [Threads -> SUBSET (Archives \cup Archivers)]
    BY <1>1 DEF Init, Pc, Kinds
  <2>4. /\ pcT \in [Archivers -> PcT] /\ isLast \in [Archivers -> BOOLEAN]
        /\ left \in [Archivers -> SUBSET Archives]
        /\ due \in [Archivers -> SUBSET (Archives \X (1..MaxVals))]
        /\ fails \in 0..MaxFails /\ ops \in 0..MaxOps /\ failed \subseteq Archives
    BY <2>1 DEF Init, PcT
  <2>5. QED
    BY <1>2, <1>4, <2>2, <2>3, <2>4 DEF TypeOK
<1>6. Mirror /\ VisitsAttached /\ StopComes /\ TaskRuns /\ DueThere /\ DueStored
  BY DEF Init, Mirror, VisitsAttached, StopComes, TaskRuns, DueThere, DueStored
<1>7. MarksStored
  BY DEF Init, MarksStored, ValArchAssumption
<1>8. QED
  BY <1>3, <1>5, <1>6, <1>7 DEF IInv

LEMMA NextKeeps == ASSUME ValArchAssumption, IInv, [Next]_vars PROVE IInv'
<1>1. CASE UNCHANGED vars
  <2>1. /\ UNCHANGED <<runV, archS, elsV, runA, elsA, endrun, lastGet, stored, last, aRes, archRes,
                       pc, op, v, a, todo, pcT, isLast, left, due, fails, ops, failed>>
    BY <1>1 DEF vars, archives, archivers, data, locks, threads, tasks, history
  <2>2. TypeOK'
    BY <2>1 DEF IInv, TypeOK
  <2>3. AResHeld' /\ ArchResHeld' /\ Mirror' /\ VisitsAttached' /\ StopComes' /\ TaskRuns'
    BY <2>1 DEF IInv, AResHeld, ArchResHeld, Mirror, VisitsAttached, StopComes, Detaching, TaskRuns
  <2>4. MarksStored' /\ DueThere' /\ DueStored'
    BY <2>1, DataSame, DueSame DEF data
  <2>5. QED
    BY <2>2, <2>3, <2>4 DEF IInv
<1>2. ASSUME NEW x \in Archives, PutVal(x) PROVE IInv'
  BY <1>2, PutValKeeps
<1>3. ASSUME NEW t \in Threads, Calls(t) PROVE IInv'
  <2>1. PICK x \in Archives, y \in Archivers :
          \/ StartV(t, x) \/ StopV(t, x) \/ AttachOne(t, x, y) \/ DetachOne(t, x, y)
          \/ StartA(t, y) \/ StopA(t, y) \/ SortA(t, y)
    BY <1>3 DEF Calls, ValArchAssumption
  <2>2. QED
    BY <2>1, CallKeeps, StopVKeeps, StartAKeeps, StopAKeeps, SortKeeps
<1>4. ASSUME NEW t \in Threads, Goes(t) PROVE IInv'
  <2>1. a[t] \in Archivers
    BY DEF IInv, TypeOK
  <2>2. QED
    BY <1>4, <2>1, AttachKeeps, DetachKeeps, PlaceKeeps, ListKeeps, RemoveKeeps, DoneKeeps,
       TaskEndedKeeps, TakeKeeps, SortOneKeeps, SortKeeps, ConnectKeeps, ConnectFailsKeeps,
       RestartKeeps DEF Goes
<1>5. ASSUME NEW y \in Archivers, Task(y) PROVE IInv'
  BY <1>5, WakeKeeps, TransferKeeps, PassThrowsKeeps, PassDoneKeeps, TaskEndKeeps DEF Task
<1>6. QED
  BY <1>1, <1>2, <1>3, <1>4, <1>5 DEF Next

\* The inductive invariant holds in every behaviour of archives and archivers.
THEOREM Invariance == ASSUME ValArchAssumption PROVE Spec => []IInv
<1>1. Init => IInv
  BY InitEstablishes
<1>2. IInv /\ [Next]_vars => IInv'
  BY NextKeeps
<1>3. QED
  BY <1>1, <1>2, PTL DEF Spec

\* The variables keep their types: a lock never has a writer and readers, and
\* mLastGet goes at most one beyond the values there are.
THEOREM Types == ASSUME ValArchAssumption PROVE Spec => []TypeOK
<1>1. IInv => TypeOK
  BY DEF IInv
<1>2. QED
  BY <1>1, Invariance, PTL

\* archivePlace() and archiveRemove() keep the list of an archive and the lists
\* of the archivers the same, whoever calls them at the same time.
THEOREM Mirrored == ASSUME ValArchAssumption PROVE Spec => []ListsMirror
<1>1. IInv => ListsMirror
  BY DEF IInv, Mirror, ListsMirror
<1>2. QED
  BY <1>1, Invariance, PTL

\* The task of an archiver visits no element that was deleted: archRes, which it
\* reads under, holds archiveRemove() up to the end of the pass.
THEOREM PassIsSafe == ASSUME ValArchAssumption PROVE Spec => []PassOverAttached
<1>1. IInv => PassOverAttached
  BY DEF IInv, VisitsAttached, PassOverAttached
<1>2. QED
  BY <1>1, Invariance, PTL

\* stop() of an archive leaves nothing attached, also when start(), attachments
\* by hand and stops of archivers run into it, until a start() fails.
THEOREM StopDetaches == ASSUME ValArchAssumption PROVE Spec => []StoppedIsDetached
<1>1. ASSUME IInv PROVE StoppedIsDetached
  <2>1. ASSUME NEW x \in Archives \ failed, \A t \in Threads : pc[t] # "idle" => v[t] # x,
               ~runV[x], elsV[x] # {}
        PROVE  FALSE
    <3>1. PICK t \in Threads, y \in elsV[x] : Detaching(t, x, y)
      BY <1>1, <2>1 DEF IInv, StopComes
    <3>2. QED
      BY <2>1, <3>1 DEF Detaching
  <2>2. QED
    BY <2>1 DEF StoppedIsDetached
<1>2. QED
  BY <1>1, Invariance, PTL

\* mLastGet is a mark below which all that the buffer has is in the storage,
\* whatever writes fail or take a part.
THEOREM MarkIsStored == ASSUME ValArchAssumption PROVE Spec => []LastGetIsStored
<1>1. ASSUME IInv PROVE LastGetIsStored
  <2>1. \A y \in Archivers : elsA[y] \subseteq Archives
    BY <1>1 DEF IInv, TypeOK
  <2>2. QED
    BY <1>1, <2>1 DEF IInv, MarksStored, LastGetIsStored
<1>2. QED
  BY <1>1, Invariance, PTL

\* The last pass stores what was in the buffers when the archiver was told to
\* end, whatever starts, stops, attaches and detaches during it.
THEOREM StopFlushes == ASSUME ValArchAssumption PROVE Spec => []FlushedAtStop
<1>1. IInv => FlushedAtStop
  BY DEF IInv, DueStored, Passed, FlushedAtStop
<1>2. QED
  BY <1>1, Invariance, PTL
=============================================================================
