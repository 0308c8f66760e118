------------------------------ MODULE ValArch ------------------------------
(***************************************************************************)
(* Archives of values and their archivers: TVArchive, TVArchivator and     *)
(* TVArchEl (src/src/tarchval.cpp).  An archive lists the archivers it is  *)
(* attached to (archEl, under its aRes), an archiver the archives attached *)
(* (archEl, under its archRes), and the task of the archiver moves values  *)
(* from the buffers of the archives to the storage.                        *)
(*                                                                         *)
(* A thread does one operation at a time.  A step takes the lock it starts *)
(* with and reads what it checks; what it changes under the lock, and the  *)
(* release, is the step at which the last lock is taken.  The locks are    *)
(* those of ResRW.tla, without recursion, as nothing here takes one twice. *)
(*                                                                         *)
(* The buffer of an archive holds its last BufSize values, numbered as     *)
(* they come (see ValBuf.tla for what is in it).  The storage is external  *)
(* (FSArch, DBArch): it may write less than it is given, or nothing.       *)
(***************************************************************************)
EXTENDS Integers, FiniteSetsExt, Functions

CONSTANTS Archives, Archivers,
          Threads, Nobody,
          Attached,     \* the archivers of ArchS of each archive at first
          OpsOf,        \* [Threads -> the kinds of operations it calls]
          LoneSort,     \* nobody is at work while the period of an archiver changes
          BufSize,
          MaxVals,      \* bound: values that come to an archive
          MaxFails,     \* bound: writes that are not complete
          MaxOps        \* bound: operations called

ASSUME ValArchAssumption ==
  /\ Archives # {} /\ Archivers # {} /\ Threads \cap Archivers = {}
  /\ Attached \in [Archives -> SUBSET Archivers]
  /\ LoneSort \in BOOLEAN
  /\ Nobody \notin Threads \cup Archivers
  /\ BufSize \in Nat \ {0}
  /\ MaxVals \in Nat /\ MaxFails \in Nat /\ MaxOps \in Nat

VARIABLES
  runV, archS, elsV,         \* archives: runSt, ArchS and the archivers of archEl
  runA, elsA, endrun,        \* archivers: runSt, the archives of archEl, endrunReq
  lastGet, stored,           \* TVArchEl: mLastGet; what its storage has
  last,                      \* the number of the last value of each buffer
  aRes, archRes,             \* locks: [w: the writer, r: the readers]
  pc, op, v, a, todo,        \* threads: where it is, with what, what is left
  pcT, isLast, left,         \* tasks of the archivers
  due, fails, ops,
  failed                     \* archives whose start() failed since they were last stopped

archives == <<runV, archS, elsV>>
archivers == <<runA, elsA, endrun>>
data == <<lastGet, stored, last>>
locks == <<aRes, archRes>>
threads == <<pc, op, v, a, todo>>
tasks == <<pcT, isLast, left>>
history == <<due, fails, ops, failed>>
vars == <<archives, archivers, data, locks, threads, tasks, history>>

Holders == Threads \cup Archivers
Locks == [w : Holders \cup {Nobody}, r : SUBSET Holders]
Free == [w |-> Nobody, r |-> {}]
Pc == {"idle", "source", "attach", "place", "list", "detach", "remove", "ending", "take", "sort"}
Kinds == {"startV", "stopV", "attach", "detach", "startA", "stopA", "sort"}
PcT == {"none", "sleep", "pass", "end"}

TypeOK ==
  /\ runV \in [Archives -> BOOLEAN]
  /\ archS \in [Archives -> SUBSET Archivers] /\ elsV \in [Archives -> SUBSET Archivers]
  /\ runA \in [Archivers -> BOOLEAN] /\ endrun \in [Archivers -> BOOLEAN]
  /\ elsA \in [Archivers -> SUBSET Archives]
  /\ lastGet \in [Archivers -> [Archives -> 0..MaxVals+1]]
  /\ stored \in [Archivers -> [Archives -> SUBSET (1..MaxVals)]]
  /\ last \in [Archives -> 0..MaxVals]
  /\ aRes \in [Archives -> Locks] /\ archRes \in [Archivers -> Locks]
  /\ \A l \in Range(aRes) \cup Range(archRes) : l.w # Nobody => l.r = {}
  /\ pc \in [Threads -> Pc] /\ op \in [Threads -> Kinds \cup {"none"}]
  /\ v \in [Threads -> Archives] /\ a \in [Threads -> Archivers]
  /\ todo \in [Threads -> SUBSET (Archives \cup Archivers)]
  /\ pcT \in [Archivers -> PcT] /\ isLast \in [Archivers -> BOOLEAN]
  /\ left \in [Archivers -> SUBSET Archives]
  /\ due \in [Archivers -> SUBSET (Archives \X (1..MaxVals))]
  /\ fails \in 0..MaxFails /\ ops \in 0..MaxOps
  /\ failed \subseteq Archives

\* Nothing is started, nothing is attached.
Init ==
  /\ runV = [x \in Archives |-> FALSE] /\ archS = Attached
  /\ elsV = [x \in Archives |-> {}]
  /\ runA = [x \in Archivers |-> FALSE] /\ endrun = [x \in Archivers |-> FALSE]
  /\ elsA = [x \in Archivers |-> {}]
  /\ lastGet = [x \in Archivers |-> [y \in Archives |-> 0]]
  /\ stored = [x \in Archivers |-> [y \in Archives |-> {}]]
  /\ last = [x \in Archives |-> 0]
  /\ aRes = [x \in Archives |-> Free] /\ archRes = [x \in Archivers |-> Free]
  /\ pc = [t \in Threads |-> "idle"] /\ op = [t \in Threads |-> "none"]
  /\ v = [t \in Threads |-> CHOOSE x \in Archives : TRUE]
  /\ a = [t \in Threads |-> CHOOSE x \in Archivers : TRUE]
  /\ todo = [t \in Threads |-> {}]
  /\ pcT = [x \in Archivers |-> "none"] /\ isLast = [x \in Archivers |-> FALSE]
  /\ left = [x \in Archivers |-> {}]
  /\ due = [x \in Archivers |-> {}]
  /\ fails = 0 /\ ops = 0 /\ failed = {}

-----------------------------------------------------------------------------
(* Buffers and locks *)

First(x) == IF last[x] = 0 THEN 0 ELSE Max({1, last[x] - BufSize + 1})
Held(x) == IF last[x] = 0 THEN {} ELSE First(x)..last[x]

\* Mutant of CanWrite: readers are written over.
CanWriteOver(l) == l.w = Nobody

CanWrite(l) == l.w = Nobody /\ l.r = {}
CanRead(l) == l.w = Nobody
Locked(f, x, h) == [f EXCEPT ![x] = [w |-> h, r |-> @.r]]
Reading(f, x, h) == [f EXCEPT ![x] = [w |-> @.w, r |-> @.r \cup {h}]]
Released(f, x, h) == [f EXCEPT ![x] = [w |-> IF @.w = h THEN Nobody ELSE @.w, r |-> @.r \ {h}]]

At(t, where) == pc' = [pc EXCEPT ![t] = where]

\* The operation returns, and nothing of it is left.
Returns(t) ==
  /\ At(t, "idle")
  /\ op' = [op EXCEPT ![t] = "none"]
  /\ a' = [a EXCEPT ![t] = CHOOSE x \in Archivers : TRUE]

\* A new value in the buffer, from the attribute the started archive is of.
PutVal(x) ==
  /\ runV[x] /\ last[x] < MaxVals
  /\ last' = [last EXCEPT ![x] = @ + 1]
  /\ UNCHANGED <<archives, archivers, lastGet, stored, locks, threads, tasks, history>>

-----------------------------------------------------------------------------
(* Operations: TVArchive::start, stop, archivatorAttach, archivatorDetach *)

Call(t, kind) ==
  /\ pc[t] = "idle" /\ ops < MaxOps /\ kind \in OpsOf[t]
  /\ LoneSort => \A u \in Threads : pc[u] # "sort" /\ (kind = "sort" => pc[u] = "idle")
  /\ ops' = ops + 1
  /\ op' = [op EXCEPT ![t] = kind]

\* All of ArchS is attached, one after another.
ToArchS(t, x) ==
  /\ todo' = [todo EXCEPT ![t] = archS[x]]
  /\ At(t, "attach")

\* Nothing is due any more of an archive that is stopped.
WithoutDue(x) == [y \in Archivers |-> {d \in due[y] : d[1] # x}]

\* start() is runSt, then the connection to the source, then the archivers.
StartV(t, x) ==
  /\ Call(t, "startV")
  /\ runV' = [runV EXCEPT ![x] = TRUE]
  /\ v' = [v EXCEPT ![t] = x]
  /\ IF runV[x] THEN ToArchS(t, x) ELSE At(t, "source") /\ UNCHANGED todo
  /\ UNCHANGED <<archS, elsV, archivers, data, locks, a, tasks, due, fails, failed>>

\* setSrcMode(), of start() and at the end of stop(): the connection is made,
\* there was none to make, or, of stop(), it failed, which changes nothing more.
Connect(t) ==
  /\ pc[t] = "source"
  /\ IF op[t] = "startV" THEN ToArchS(t, v[t]) /\ UNCHANGED <<a, op>>
     ELSE Returns(t) /\ UNCHANGED todo
  /\ UNCHANGED <<archives, archivers, data, locks, v, tasks, history>>

\* The source is not there or has an archive: start() takes runSt back and ends,
\* what was attached in the meantime stays.
ConnectFails(t) ==
  LET x == v[t]
  IN  /\ pc[t] = "source" /\ op[t] = "startV"
      /\ runV' = [runV EXCEPT ![x] = FALSE]
      /\ failed' = failed \cup {x}
      /\ due' = WithoutDue(x)
      /\ Returns(t)
      /\ UNCHANGED <<archS, elsV, archivers, data, locks, v, todo, tasks, fails, ops>>

\* setSrcMode() began with runSt and finds it taken back: it calls start().
Restart(t) ==
  /\ pc[t] = "source" /\ ~runV[v[t]]
  /\ runV' = [runV EXCEPT ![v[t]] = TRUE]
  /\ op' = [op EXCEPT ![t] = "startV"]
  /\ UNCHANGED <<archS, elsV, archivers, data, locks, pc, v, a, todo, tasks, history>>

AttachOne(t, x, y) ==
  /\ Call(t, "attach")
  /\ v' = [v EXCEPT ![t] = x]
  /\ todo' = [todo EXCEPT ![t] = {y}]
  /\ At(t, "attach")
  /\ UNCHANGED <<archives, archivers, data, locks, a, tasks, due, fails, failed>>

\* ArchS is made anew from the elements when the archiver is to come into it.
WithArchS(x, y, els) ==
  [archS EXCEPT ![x] = IF y \in @ THEN @ ELSE els]

\* Mutant of Attach: to any archive, started or not.
AttachToAny(t, y) ==
  LET x == v[t]
  IN  /\ pc[t] = "attach" /\ y \in todo[t]
      /\ CanWrite(aRes[x])
      /\ todo' = [todo EXCEPT ![t] = @ \ {y}]
      /\ IF runA[y] /\ y \notin elsV[x]
           THEN /\ aRes' = Locked(aRes, x, t)
                /\ a' = [a EXCEPT ![t] = y]
                /\ At(t, "place")
                /\ UNCHANGED archS
           ELSE /\ archS' = IF runA[y] THEN WithArchS(x, y, elsV[x]) ELSE archS
                /\ UNCHANGED <<aRes, a, pc>>
      /\ UNCHANGED <<runV, elsV, archivers, data, archRes, v, op, tasks, history>>

\* Takes aRes of the archive.  Nothing is attached by an archiver that is
\* stopped, and nothing to an archive that is.
Attach(t, y) ==
  LET x == v[t]
  IN  /\ pc[t] = "attach" /\ y \in todo[t]
      /\ CanWrite(aRes[x])
      /\ todo' = [todo EXCEPT ![t] = @ \ {y}]
      /\ IF runA[y] /\ runV[x] /\ y \notin elsV[x]
           THEN /\ aRes' = Locked(aRes, x, t)
                /\ a' = [a EXCEPT ![t] = y]
                /\ At(t, "place")
                /\ UNCHANGED archS
           ELSE /\ archS' = IF runA[y] THEN WithArchS(x, y, elsV[x]) ELSE archS
                /\ UNCHANGED <<aRes, a, pc>>
      /\ UNCHANGED <<runV, elsV, archivers, data, archRes, v, op, tasks, history>>

\* Mutant of Place: the lists are not of the same archivers and archives.
PlaceOneSided(t) ==
  LET x == v[t] y == a[t]
  IN  /\ pc[t] = "place" /\ CanWrite(archRes[y])
      /\ elsV' = [elsV EXCEPT ![x] = @ \cup {y}]
      /\ archS' = WithArchS(x, y, elsV'[x])
      /\ aRes' = Released(aRes, x, t)
      /\ At(t, "attach")
      /\ UNCHANGED <<runV, archivers, data, archRes, v, a, todo, op, tasks, history>>

\* archivePlace(): takes archRes of the archiver, in aRes of the archive.
Place(t) ==
  LET x == v[t] y == a[t]
  IN  /\ pc[t] = "place" /\ CanWrite(archRes[y])
      /\ elsA' = [elsA EXCEPT ![y] = @ \cup {x}]
      /\ lastGet' = IF x \in elsA[y] THEN lastGet ELSE [lastGet EXCEPT ![y][x] = 0]
      /\ elsV' = [elsV EXCEPT ![x] = @ \cup {y}]
      /\ archS' = WithArchS(x, y, elsV'[x])
      /\ aRes' = Released(aRes, x, t)
      /\ At(t, "attach")
      /\ UNCHANGED <<runV, runA, endrun, stored, last, archRes, v, a, todo, op, tasks, history>>

\* stop() first lists the archivers, then detaches each.
StopV(t, x) ==
  /\ Call(t, "stopV")
  /\ runV' = [runV EXCEPT ![x] = FALSE]
  /\ due' = WithoutDue(x)
  /\ failed' = failed \ {x}
  /\ v' = [v EXCEPT ![t] = x]
  /\ todo' = [todo EXCEPT ![t] = {}]
  /\ At(t, "list")
  /\ UNCHANGED <<archS, elsV, archivers, data, locks, a, tasks, fails>>

List(t) ==
  /\ pc[t] = "list" /\ CanRead(aRes[v[t]])
  /\ todo' = [todo EXCEPT ![t] = elsV[v[t]]]
  /\ At(t, "detach")
  /\ UNCHANGED <<archives, archivers, data, locks, v, a, op, tasks, history>>

\* By hand, with the change of ArchS.
DetachOne(t, x, y) ==
  /\ Call(t, "detach")
  /\ v' = [v EXCEPT ![t] = x]
  /\ todo' = [todo EXCEPT ![t] = {y}]
  /\ At(t, "detach")
  /\ UNCHANGED <<archives, archivers, data, locks, a, tasks, due, fails, failed>>

\* Only archivatorDetach() by hand has toModify.
Modified(t, x, y, els) ==
  [archS EXCEPT ![x] = IF op[t] = "detach" /\ y \in @ THEN els ELSE @]

Detach(t, y) ==
  LET x == v[t]
  IN  /\ pc[t] = "detach" /\ y \in todo[t]
      /\ CanWrite(aRes[x])
      /\ todo' = [todo EXCEPT ![t] = @ \ {y}]
      /\ IF y \in elsV[x]
           THEN /\ aRes' = Locked(aRes, x, t)
                /\ a' = [a EXCEPT ![t] = y]
                /\ At(t, "remove")
                /\ UNCHANGED archS
           ELSE archS' = Modified(t, x, y, elsV[x]) /\ UNCHANGED <<aRes, a, pc>>
      /\ UNCHANGED <<runV, elsV, archivers, data, archRes, v, op, tasks, history>>

\* archiveRemove(): as archivePlace(), and the element is deleted, with all that
\* its storage has: always by hand, by stop() when a node is removed with its data.
Remove(t) ==
  LET x == v[t] y == a[t]
  IN  /\ pc[t] = "remove" /\ CanWrite(archRes[y])
      /\ elsA' = [elsA EXCEPT ![y] = @ \ {x}]
      /\ elsV' = [elsV EXCEPT ![x] = @ \ {y}]
      /\ archS' = Modified(t, x, y, elsV'[x])
      /\ lastGet' = [lastGet EXCEPT ![y][x] = 0]
      /\ \/ op[t] # "detach" /\ UNCHANGED stored
         \/ stored' = [stored EXCEPT ![y][x] = {}]
      /\ due' = [due EXCEPT ![y] = {d \in @ : d[1] # x}]
      /\ aRes' = Released(aRes, x, t)
      /\ At(t, "detach")
      /\ UNCHANGED <<runV, runA, endrun, last, archRes, v, a, todo, op, tasks, fails, ops, failed>>

\* All are attached or detached; stop() of an archiver looks for more, stop() of
\* an archive that was started meanwhile connects it.
Done(t) ==
  /\ pc[t] \in {"attach", "detach"} /\ todo[t] = {}
  /\ \/ op[t] = "stopA" /\ At(t, "take") /\ UNCHANGED <<a, op>>
     \/ op[t] = "stopV" /\ runV[v[t]] /\ At(t, "source") /\ UNCHANGED <<a, op>>
     \/ op[t] # "stopA" /\ ~(op[t] = "stopV" /\ runV[v[t]]) /\ Returns(t)
  /\ UNCHANGED <<archives, archivers, data, locks, v, todo, tasks, history>>

-----------------------------------------------------------------------------
(* Operations: TVArchivator::start, stop, cfgChange of V_PER *)

\* start() returns when the task has set runSt.
StartA(t, y) ==
  /\ Call(t, "startA")
  /\ ~runA[y] /\ pcT[y] = "none"
  /\ runA' = [runA EXCEPT ![y] = TRUE]
  /\ endrun' = [endrun EXCEPT ![y] = FALSE]
  /\ pcT' = [pcT EXCEPT ![y] = "sleep"]
  /\ isLast' = [isLast EXCEPT ![y] = FALSE]
  /\ UNCHANGED <<archives, elsA, data, locks, pc, v, a, todo, left, due, fails, failed>>

\* stop() tells the task to end and waits for that.
StopA(t, y) ==
  /\ Call(t, "stopA")
  /\ a' = [a EXCEPT ![t] = y]
  /\ todo' = [todo EXCEPT ![t] = {}]
  /\ endrun' = [endrun EXCEPT ![y] = @ \/ runA[y]]
  /\ due' = IF runA[y] /\ ~endrun[y]
              THEN [due EXCEPT ![y] = {d \in elsA[y] \X (1..MaxVals) :
                                         runV[d[1]] /\ d[2] \in Held(d[1])}]
              ELSE due
  /\ At(t, "ending")
  /\ UNCHANGED <<archives, runA, elsA, data, locks, v, tasks, fails, failed>>

TaskEnded(t) ==
  LET y == a[t]
  IN  /\ pc[t] = "ending" /\ pcT[y] = "none"
      /\ runA' = [runA EXCEPT ![y] = FALSE]
      /\ At(t, "take")
      /\ UNCHANGED <<archives, elsA, endrun, data, locks, v, a, todo, op, tasks, history>>

\* The task has not ended in the period of the archiver: stop() gives up.
StopGivesUp(t) ==
  /\ pc[t] = "ending" /\ pcT[a[t]] # "none"
  /\ Returns(t)
  /\ UNCHANGED <<archives, archivers, data, locks, v, todo, tasks, history>>

\* Mutant of Take: the lock is kept in the loop.
TakeLocked(t) ==
  LET y == a[t]
  IN  /\ pc[t] = "take" /\ CanRead(archRes[y])
      /\ \/ /\ elsA[y] = {}
            /\ Returns(t)
            /\ archRes' = Released(archRes, y, t)
            /\ UNCHANGED <<v, todo>>
         \/ \E x \in elsA[y] :
              /\ archRes' = Reading(archRes, y, t)
              /\ v' = [v EXCEPT ![t] = x]
              /\ todo' = [todo EXCEPT ![t] = {y}]
              /\ At(t, "detach")
              /\ UNCHANGED <<a, op>>
      /\ UNCHANGED <<archives, archivers, data, aRes, tasks, history>>

\* The loop of stop(): one archive at a time, without the lock in between.
Take(t) ==
  LET y == a[t]
  IN  /\ pc[t] = "take" /\ CanRead(archRes[y])
      /\ \/ /\ elsA[y] = {}
            /\ Returns(t)
            /\ UNCHANGED <<v, todo>>
         \/ \E x \in elsA[y] :
              /\ v' = [v EXCEPT ![t] = x]
              /\ todo' = [todo EXCEPT ![t] = {y}]
              /\ At(t, "detach")
              /\ UNCHANGED <<a, op>>
      /\ UNCHANGED <<archives, archivers, data, locks, tasks, history>>

\* A new period of the values sorts the elements of each archive: takes aRes of
\* the archive in archRes of the archiver.
SortA(t, y) ==
  /\ Call(t, "sort")
  /\ a' = [a EXCEPT ![t] = y]
  /\ CanRead(archRes[y])
  /\ archRes' = Reading(archRes, y, t)
  /\ todo' = [todo EXCEPT ![t] = elsA[y]]
  /\ At(t, "sort")
  /\ UNCHANGED <<archives, archivers, data, aRes, v, tasks, due, fails, failed>>

SortOne(t, x) ==
  /\ pc[t] = "sort" /\ x \in todo[t]
  /\ CanWrite(aRes[x])
  /\ todo' = [todo EXCEPT ![t] = @ \ {x}]
  /\ UNCHANGED <<archives, archivers, data, locks, pc, v, a, op, tasks, history>>

SortDone(t) ==
  /\ pc[t] = "sort" /\ todo[t] = {}
  /\ archRes' = Released(archRes, a[t], t)
  /\ Returns(t)
  /\ UNCHANGED <<archives, archivers, data, aRes, v, todo, tasks, history>>

-----------------------------------------------------------------------------
(* TVArchivator::Task *)

\* Mutant of Wake: the task ends as soon as it is told to.
WakeToEnd(y) ==
  /\ pcT[y] = "sleep" /\ CanRead(archRes[y])
  /\ isLast' = [isLast EXCEPT ![y] = endrun[y]]
  /\ archRes' = Reading(archRes, y, y)
  /\ left' = [left EXCEPT ![y] = IF endrun[y] THEN {} ELSE elsA[y]]
  /\ pcT' = [pcT EXCEPT ![y] = "pass"]
  /\ UNCHANGED <<archives, archivers, data, aRes, threads, history>>

Wake(y) ==
  /\ pcT[y] = "sleep" /\ CanRead(archRes[y])
  /\ isLast' = [isLast EXCEPT ![y] = endrun[y]]
  /\ archRes' = Reading(archRes, y, y)
  /\ left' = [left EXCEPT ![y] = elsA[y]]
  /\ pcT' = [pcT EXCEPT ![y] = "pass"]
  /\ UNCHANGED <<archives, archivers, data, aRes, threads, history>>

\* Mutants of Got: beyond what comes next; a write that gave nothing is taken
\* for all.
GotBeyond(y, x, setOK) == IF setOK # 0 THEN setOK + 2 ELSE lastGet[y][x]

GotAll(y, x, setOK) ==
  IF lastGet[y][x] = 0 \/ last[x] > lastGet[y][x] - 1 THEN last[x] + 1 ELSE lastGet[y][x]

\* TVArchEl::setVals(): mLastGet goes beyond what the storage has said it has.  In the code
\* by a microsecond only, so that its > takes in the next value: >= of numbers.
Got(y, x, setOK) ==
  IF setOK # 0 /\ (lastGet[y][x] = 0 \/ setOK >= lastGet[y][x]) THEN setOK + 1
  ELSE lastGet[y][x]

\* One archive: what it has since mLastGet.  The storage takes the values up to
\* setOK of them, less also when the rest is later than the current time.
Transfer(y, x) ==
  LET beg == Max({lastGet[y][x], First(x)})
      end == last[x]
  IN  /\ pcT[y] = "pass" /\ x \in left[y]
      /\ left' = [left EXCEPT ![y] = @ \ {x}]
      /\ IF ~runV[x] \/ beg = 0 \/ end = 0 \/ beg > end
           THEN UNCHANGED <<lastGet, stored, due, fails>>
           ELSE \E setOK \in {0} \cup (beg..end) :
                  /\ setOK # end => fails < MaxFails
                  /\ fails' = IF setOK = end THEN fails ELSE fails + 1
                  /\ stored' = [stored EXCEPT ![y][x] = @ \cup (beg..setOK)]
                  /\ lastGet' = [lastGet EXCEPT ![y][x] = Got(y, x, setOK)]
                  /\ due' = [due EXCEPT ![y] = {d \in @ : d[1] = x => d[2] <= setOK}]
      /\ UNCHANGED <<archives, archivers, last, locks, threads, pcT, isLast, ops, failed>>

\* What an archive has since mLastGet.
Since(y, x) == {c \in Held(x) : c >= lastGet[y][x]}

\* A write throws: what the storage has got of the archive stays, the rest of the
\* pass is left out, and it begins anew without the sleep.
PassThrows(y, x) ==
  /\ pcT[y] = "pass" /\ x \in left[y]
  /\ runV[x] /\ Since(y, x) # {}
  /\ fails < MaxFails /\ fails' = fails + 1
  /\ \E upto \in Since(y, x) \cup {0} :
       stored' = [stored EXCEPT ![y][x] = @ \cup {c \in Since(y, x) : c <= upto}]
  /\ left' = [left EXCEPT ![y] = {}]
  /\ archRes' = Released(archRes, y, y)
  /\ pcT' = [pcT EXCEPT ![y] = "sleep"]
  /\ UNCHANGED <<archives, archivers, lastGet, last, aRes, threads, isLast, due, ops, failed>>

\* The lock is released; after the last pass the task ends.
PassDone(y) ==
  /\ pcT[y] = "pass" /\ left[y] = {}
  /\ archRes' = Released(archRes, y, y)
  /\ pcT' = [pcT EXCEPT ![y] = IF isLast[y] THEN "end" ELSE "sleep"]
  /\ UNCHANGED <<archives, archivers, data, aRes, threads, isLast, left, history>>

TaskEnd(y) ==
  /\ pcT[y] = "end"
  /\ runA' = [runA EXCEPT ![y] = FALSE]
  /\ pcT' = [pcT EXCEPT ![y] = "none"]
  /\ UNCHANGED <<archives, elsA, endrun, data, locks, threads, isLast, left, history>>

-----------------------------------------------------------------------------
Calls(t) ==
  \/ \E x \in Archives : StartV(t, x) \/ StopV(t, x)
  \/ \E x \in Archives, y \in Archivers : AttachOne(t, x, y) \/ DetachOne(t, x, y)
  \/ \E y \in Archivers : StartA(t, y) \/ StopA(t, y) \/ SortA(t, y)

Goes(t) ==
  \/ \E y \in Archivers : Attach(t, y) \/ Detach(t, y)
  \/ Connect(t) \/ ConnectFails(t) \/ Restart(t)
  \/ Place(t) \/ List(t) \/ Remove(t) \/ Done(t)
  \/ TaskEnded(t) \/ StopGivesUp(t) \/ Take(t)
  \/ (\E x \in Archives : SortOne(t, x)) \/ SortDone(t)

Task(y) ==
  \/ Wake(y) \/ PassDone(y) \/ TaskEnd(y)
  \/ \E x \in Archives : Transfer(y, x) \/ PassThrows(y, x)

Next ==
  \/ \E x \in Archives : PutVal(x)
  \/ \E t \in Threads : Calls(t) \/ Goes(t)
  \/ \E y \in Archivers : Task(y)

Spec == Init /\ [][Next]_vars

\* A thread and a task that may go on do; values and calls need not come.  A
\* task lets go of its lock for the whole period of its sleep, so a thread that
\* waits for a lock again and again free gets it.
FairSpec == Spec /\ (\A t \in Threads : SF_vars(Goes(t)))
                 /\ (\A y \in Archivers : WF_vars(Task(y)))

-----------------------------------------------------------------------------
(* Properties *)

\* Whenever its aRes is not held for writing, an archive is in the list of the
\* archivers that are in its list and of no other: a task reaches no element
\* that was deleted, and none is left over.
ListsMirror ==
  \A x \in Archives, y \in Archivers :
    aRes[x].w = Nobody => (y \in elsV[x] <=> x \in elsA[y])

\* The elements a pass of a task is still to visit are there to the end of it.
PassOverAttached == \A y \in Archivers : left[y] \subseteq elsA[y]

\* When nobody starts or stops it, a stopped archive is attached nowhere, also
\* when it was being attached as it was stopped and when it was started after
\* that, stopped again or not.  Not so an archive whose start() failed since it
\* was last stopped: that detaches nothing.
StoppedIsDetached ==
  \A x \in Archives \ failed :
    (\A t \in Threads : pc[t] # "idle" => v[t] # x) /\ ~runV[x] => elsV[x] = {}

\* mLastGet of an element is never beyond a value that the buffer still has and
\* the storage has not, after writes that failed or took a part as well.
LastGetIsStored ==
  \A y \in Archivers : \A x \in elsA[y], c \in 1..MaxVals :
    c \in Held(x) /\ c < lastGet[y][x] => c \in stored[y][x]

\* When the task of an archiver has ended, all the values that the started
\* archives attached had when it was told to are in the storage, but for those
\* that a write gave back and those new values have taken the place of; a pass
\* that throws has another after it, the last one as well.
FlushedAtStop ==
  \A y \in Archivers : pcT[y] = "none" =>
    \A d \in due[y] : d[2] \in Held(d[1]) => d[2] \in stored[y][d[1]]

\* Every operation comes to its end, when writes fail MaxFails times at most: to
\* attach and to detach takes archRes in aRes, stop() of an archiver waits with
\* neither, and so does its task sleep.  The change of a period takes aRes in
\* archRes, which is safe with LoneSort only.
OperationsEnd == \A t \in Threads : pc[t] # "idle" ~> pc[t] = "idle"
=============================================================================
