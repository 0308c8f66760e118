--------------------------- MODULE CntrNode_proofs ---------------------------
(***************************************************************************)
(* Proofs about CntrNode, for any names, nodes and number of calls.        *)
(*                                                                         *)
(* For any threads and calls: every handle is counted, once.  When one     *)
(* thread changes the tree and the others use it: no node is deleted that  *)
(* is used, what fails is put back, and the storage follows the tree.      *)
(***************************************************************************)
EXTENDS CntrNode, TLAPS, FiniteSetTheorems

-----------------------------------------------------------------------------
(* Any threads                                                             *)

\* mChM is locked at its labels.
LockHeld == \A t \in Threads : chM = t <=> pc[t] \in LockedPc

\* Which call a thread is in at a label.
OpsAt(l) ==
  CASE l = "idle" -> {"none"}
    [] l = "check" -> {"use", "edit", "del"}
    [] l = "hold" -> {"use", "edit"}
    [] l = "addMode" -> {"add", "new"}
    [] l \in EnablePc -> {"add", "new", "undel", "unoff", "load", "on"}
    [] l \in {"delMode", "erase"} -> {"del"}
    [] l \in DisablePc \ {"delMode"} -> {"del", "off"}
    [] l \in {"list", "visit"} -> Walks \cup {"on"}
    [] l = "child" -> {"isModify", "load", "save"}
    [] l \in {"loaded", "failed"} -> {"load"}
    [] l = "saved" -> {"save"}
    [] l = "back" -> Walks \cup {"on"}
    [] l = "free" -> {"add", "new", "del", "undel", "unoff", "on"}
    [] l = "offEnd" -> {"off"}
    [] OTHER -> {"off", "unoff"}

CallShape ==
  \A t \in Threads :
    /\ op[t] \in OpsAt(pc[t])
    /\ Reaching(t) => node[t] \in Objs
    /\ Reaching(t) \/ pc[t] = "erase" => name[t] \in Names

HInv == TypeOK /\ LockHeld /\ CallShape /\ HandlesCounted

-----------------------------------------------------------------------------
(* One thread changes the tree                                             *)

\* The others read, and change the data of nodes, but not the tree.
SoleAdmin(ad) ==
  ad \in Threads /\ \A t \in Threads \ {ad} : Ops[t] \subseteq {"use", "edit", "isModify"}

\* The others do not change the data either.
SoleWriter(ad) ==
  ad \in Threads /\ \A t \in Threads \ {ad} : Ops[t] \subseteq {"use", "isModify"}

UseOps == {"none", "use", "edit", "isModify"}

OthersUse(ad) == \A t \in Threads \ {ad} : op[t] \in UseOps

\* The children are live nodes, each under one name; the one the administrator
\* works on is in the tree under the name of the call.
MapLive(ad) ==
  /\ \A n \in Names : inMap[n] # NoObj => alive[inMap[n]] = "live"
  /\ \A n \in Names, m \in Names : inMap[n] # NoObj /\ inMap[n] = inMap[m] => n = m
  /\ \A o \in Objs : alive[o] = "none" => mode[o] = "Disabled"
  /\ Reaching(ad) \/ pc[ad] = "erase" => inMap[name[ad]] = node[ad]

\* The administrator turns on back a node that is used.
Restoring(ad, o) ==
  node[ad] = o /\ pc[ad] \in {"enMode", "enSet"} /\ op[ad] \in {"undel", "unoff"}

\* The others have got no further than the check with a node that is disabled.
DisabledUnused(ad) ==
  \A t \in Threads \ {ad} :
    Reaching(t) /\ pc[t] \notin {"check", "visit"} /\ mode[node[t]] = "Disabled"
      => Restoring(ad, node[t])

\* The mode of the node the administrator works on.
ModeAt(ad) ==
  /\ pc[ad] = "addMode" => mode[node[ad]] \in {"Enabled", "Disabled"}
  /\ pc[ad] \in {"delMode", "disMode", "disSet"} => mode[node[ad]] = "Enabled"
  /\ pc[ad] = "disWait" => mode[node[ad]] = "DoDisable"
  /\ pc[ad] = "disFail" => mode[node[ad]] \in {"DoDisable", "Disabled"}
  /\ pc[ad] \in {"disDone", "erase", "enMode", "enSet"} => mode[node[ad]] = "Disabled"
  /\ pc[ad] = "enDone" => mode[node[ad]] = "DoEnable"
  /\ pc[ad] = "free" => mode[node[ad]] = IF op[ad] = "del" THEN "Disabled" ELSE "Enabled"
  /\ pc[ad] = "back" /\ op[ad] = "on" => mode[node[ad]] = "Enabled"

\* The mode of the container goes with the calls of the administrator.
ContainerMode(ad) ==
  /\ op[ad] \in {"use", "edit", "add", "new", "del", "undel", "load", "save"} => cMode = "Enabled"
  /\ op[ad] \in {"none", "isModify"} => cMode \in {"Enabled", "Disabled"}
  /\ op[ad] \in {"off", "unoff"} => cMode = IF pc[ad] = "restore" THEN "Disabled" ELSE "DoDisable"
  /\ op[ad] = "on" => cMode = "DoEnable"
  /\ op[ad] = "on" => pc[ad] # "free"

\* The administrator is at work on the mode of node o.
Processing(ad, o) ==
  node[ad] = o /\ pc[ad] \in EnablePc \cup DisablePc \cup {"addMode", "free", "erase"}

\* The modes of the other children: enabled in an enabled container.
MapModes(ad) ==
  \A n \in Names : inMap[n] # NoObj /\ ~Processing(ad, inMap[n]) =>
    \/ mode[inMap[n]] = "Enabled"
    \/ mode[inMap[n]] = "Disabled" /\ cMode # "Enabled"

\* The walk that enables the children has not left one out.
AllTurnedOn(ad) ==
  op[ad] = "on" =>
    \A n \in Names : inMap[n] # NoObj =>
      \/ mode[inMap[n]] = "Enabled" \/ n \in todo[ad] \/ (Reaching(ad) /\ node[ad] = inMap[n])

TInv(ad) ==
  /\ OthersUse(ad) /\ MapLive(ad) /\ NoDangling
  /\ DisabledUnused(ad) /\ ModeAt(ad)
  /\ ContainerMode(ad) /\ MapModes(ad) /\ AllTurnedOn(ad)

-----------------------------------------------------------------------------
(* The storage                                                             *)

\* A saved node is in the storage; a node about to be erased is not.
StoreAt(ad) ==
  /\ pc[ad] = "saved" => node[ad] \in synced /\ name[ad] \in db
  /\ pc[ad] = "erase" \/ (pc[ad] = "free" /\ op[ad] = "del") => name[ad] \notin db

RecordsInTree == \A n \in db : inMap[n] # NoObj

ReadOps == {"none", "use", "isModify"}

OthersRead(ad) == \A t \in Threads \ {ad} : op[t] \in ReadOps

SInv(ad) == OthersRead(ad) /\ StoreAt(ad) /\ RecordsInTree /\ ChangesTracked

-----------------------------------------------------------------------------
(* Every action keeps what is said of any threads                          *)

OpNames == Calls \cup {"none", "new", "undel", "unoff", "on"}

\* The data of the tree have their types.
TreeTyped ==
  /\ cMode \in Mode /\ inMap \in [Names -> Objs \cup {NoObj}] /\ mode \in [Objs -> Mode]
  /\ alive \in [Objs -> {"none", "live", "dead"}]
  /\ modified \in [Objs -> BOOLEAN] /\ db \subseteq Names /\ synced \subseteq Objs
  /\ dropped \subseteq Objs

LEMMA TypeSplit ==
  TypeOK <=> /\ TreeTyped
             /\ chM \in Threads \cup {NoThread} /\ users \in [Objs -> SUBSET Threads]
             /\ pc \in [Threads -> Pc] /\ op \in [Threads -> OpNames]
             /\ name \in [Threads -> Names \cup {NoName}]
             /\ node \in [Threads -> Objs \cup {NoObj}]
             /\ todo \in [Threads -> SUBSET Names] /\ left \in [Threads -> 0..MaxOps]
BY DEF TypeOK, TreeTyped, OpNames

\* What the call of thread t is now is all that changes of the calls.
CallOf(t, l) ==
  /\ pc' \in [Threads -> Pc] /\ op' \in [Threads -> OpNames]
  /\ name' \in [Threads -> Names \cup {NoName}] /\ node' \in [Threads -> Objs \cup {NoObj}]
  /\ todo' \in [Threads -> SUBSET Names] /\ left' \in [Threads -> 0..MaxOps]
  /\ pc'[t] = l
  /\ \A u \in Threads \ {t} : /\ pc'[u] = pc[u] /\ op'[u] = op[u] /\ name'[u] = name[u]
                              /\ node'[u] = node[u] /\ todo'[u] = todo[u]

\* Labels at which a thread goes on to use its node.
ReachPc == Pc \ {"idle", "list", "erase", "offEnd", "restore"}

\* The label l that thread t gets to fits to its call, to the lock, to its handle.
Fits(t, l) ==
  /\ op'[t] \in OpsAt(l)
  /\ l \in ReachPc => node'[t] \in Objs
  /\ l \in ReachPc \/ l = "erase" => name'[t] \in Names

Locks(t, l) ==
  /\ chM' = IF l \in LockedPc THEN t ELSE IF pc[t] \in LockedPc THEN NoThread ELSE chM
  /\ l \in LockedPc => pc[t] \in LockedPc \/ chM = NoThread

Counts(t, l) ==
  /\ users' \in [Objs -> SUBSET Threads]
  /\ \A o \in Objs :
       /\ users'[o] \ {t} = users[o] \ {t}
       /\ t \in users'[o] <=> l \in ReachPc /\ node'[t] = o /\ op'[t] # "new"

\* One thread's step keeps the invariant when its label fits.
LEMMA StepKeeps ==
  ASSUME NodeAssumption, HInv, NEW t \in Threads, NEW l \in Pc, CallOf(t, l), TreeTyped',
         Fits(t, l), Locks(t, l), Counts(t, l)
  PROVE  HInv'
<1>1. TypeOK'
  <2>1. chM \in Threads \cup {NoThread}
    BY DEF HInv, TypeOK
  <2>2. chM' \in Threads \cup {NoThread}
    BY <2>1 DEF Locks
  <2>3. QED
    BY <2>2 DEF TypeOK, TreeTyped, OpNames, CallOf, Counts
<1>2. LockHeld'
  BY DEF HInv, LockHeld, CallOf, NodeAssumption, Locks
<1>3. \A u \in Threads : Reaching(u)' <=> pc'[u] \in ReachPc
  BY DEF Reaching, ReachPc, CallOf
<1>4. \A u \in Threads \ {t} : Reaching(u)' <=> Reaching(u)
  BY DEF Reaching, CallOf
<1>5. CallShape'
  BY <1>3, <1>4 DEF HInv, CallShape, CallOf, Fits
<1>6. HandlesCounted'
  <2>1. ASSUME NEW u \in Threads, NEW o \in Objs
        PROVE  u \in users'[o] <=> Reaching(u)' /\ node'[u] = o /\ op'[u] # "new"
    <3>1. CASE u = t
      BY <1>3, <3>1 DEF CallOf, Counts
    <3>2. CASE u # t
      <4>1. u \in users'[o] <=> u \in users[o]
        BY <3>2 DEF Counts
      <4>2. QED
        BY <1>4, <3>2, <4>1 DEF HInv, HandlesCounted, CallOf
    <3>3. QED
      BY <3>1, <3>2
  <2>2. QED
    BY <2>1 DEF HandlesCounted
<1>7. QED
  BY <1>1, <1>2, <1>5, <1>6 DEF HInv

\* A step within a call that keeps the lock and the handles.
LEMMA MoveKeeps ==
  ASSUME NodeAssumption, HInv, NEW t \in Threads,
         NEW l \in ReachPc \ LockedPc, pc[t] \in ReachPc \ LockedPc, Goto(t, l),
         NEW k \in OpNames, op' = [op EXCEPT ![t] = k], k = "new" <=> op[t] = "new",
         k \in OpsAt(l),
         NEW s \in SUBSET Names, todo' = [todo EXCEPT ![t] = s],
         UNCHANGED <<chM, users, name, node, left>>, TreeTyped'
  PROVE  HInv'
<1>1. TypeOK /\ CallShape /\ HandlesCounted
  BY DEF HInv
<1>2. Reaching(t) /\ l \in Pc
  BY DEF Reaching, ReachPc
<1>3. CallOf(t, l)
  BY <1>1, <1>2 DEF TypeOK, CallOf, Goto, ReachPc, OpNames
<1>4. op'[t] = k /\ node'[t] = node[t] /\ name'[t] = name[t]
  BY <1>1 DEF TypeOK
<1>5. Fits(t, l)
  BY <1>1, <1>2, <1>4 DEF CallShape, Fits
<1>6. Locks(t, l)
  BY DEF Locks
<1>7. Counts(t, l)
  BY <1>1, <1>2, <1>4 DEF HandlesCounted, Counts, TypeOK
<1>8. QED
  BY <1>2, <1>3, <1>5, <1>6, <1>7, StepKeeps

LEMMA QuietKeeps ==
  ASSUME NodeAssumption, HInv, NEW t \in Threads,
         NEW l \in ReachPc \ LockedPc, pc[t] \in ReachPc \ LockedPc, Goto(t, l),
         op[t] \in OpsAt(l), UNCHANGED <<chM, users, call>>, TreeTyped'
  PROVE  HInv'
<1>1. op[t] \in OpNames /\ todo[t] \in SUBSET Names
  BY DEF HInv, TypeOK, OpNames
<1>2. op' = [op EXCEPT ![t] = op[t]] /\ todo' = [todo EXCEPT ![t] = todo[t]]
  BY DEF HInv, TypeOK, call
<1>3. UNCHANGED <<chM, users, name, node, left>>
  BY DEF call
<1>4. QED
  BY <1>1, <1>2, <1>3, MoveKeeps

\* nodeEn and nodeDis of a child.
LEMMA EnablingKeeps ==
  ASSUME NodeAssumption, HInv, NEW t \in Threads,
         AddMode(t) \/ EnMode(t) \/ EnSet(t) \/ EnDone(t)
  PROVE  HInv'
<1> DEFINE moves(l) == pc[t] \in ReachPc \ LockedPc /\ Goto(t, l) /\ op[t] \in OpsAt(l)
<1>1. TypeOK /\ op[t] \in OpsAt(pc[t])
  BY DEF HInv, CallShape
<1>2. CASE AddMode(t)
  <2>1. \E l \in ReachPc \ LockedPc : moves(l)
    BY <1>1, <1>2 DEF AddMode, OpsAt, ReachPc, Pc, LockedPc, EnablePc, DisablePc
  <2>2. TreeTyped' /\ UNCHANGED <<chM, users, call>>
    BY <1>1, <1>2 DEF AddMode, TypeOK, TreeTyped, tree, objs, store
  <2>3. QED
    BY <2>1, <2>2, QuietKeeps
<1>3. CASE EnMode(t)
  <2>1. \E l \in ReachPc \ LockedPc : moves(l)
    BY <1>1, <1>3 DEF EnMode, AfterEn, AfterEnThrow, OpsAt, ReachPc, Pc, LockedPc, EnablePc, DisablePc, Walks
  <2>2. TreeTyped' /\ UNCHANGED <<chM, users, call>>
    BY <1>1, <1>3 DEF EnMode, TypeOK, TreeTyped, tree, objs, store
  <2>3. QED
    BY <2>1, <2>2, QuietKeeps
<1>4. CASE EnSet(t)
  <2>1. moves("enDone") /\ "enDone" \in ReachPc \ LockedPc
    BY <1>1, <1>4 DEF EnSet, OpsAt, ReachPc, Pc, LockedPc, EnablePc, DisablePc
  <2>2. TreeTyped' /\ UNCHANGED <<chM, users, call>>
    BY <1>1, <1>4 DEF EnSet, SetMode, Mode, TypeOK, TreeTyped, objs, store
  <2>3. QED
    BY <2>1, <2>2, QuietKeeps
<1>5. CASE EnDone(t)
  <2>1. \E l \in ReachPc \ LockedPc : moves(l)
    BY <1>1, <1>5 DEF EnDone, AfterEn, OpsAt, ReachPc, Pc, LockedPc, EnablePc, DisablePc, Walks
  <2>2. TreeTyped' /\ UNCHANGED <<chM, users, call>>
    BY <1>1, <1>5 DEF EnDone, SetMode, Mode, TypeOK, TreeTyped, objs, store
  <2>3. QED
    BY <2>1, <2>2, QuietKeeps
<1>6. QED
  BY <1>2, <1>3, <1>4, <1>5

LEMMA DisablingKeeps ==
  ASSUME NodeAssumption, HInv, NEW t \in Threads,
         DelMode(t) \/ DisMode(t) \/ DisSet(t) \/ DisWait(t) \/ DisDone(t) \/ DisFail(t)
  PROVE  HInv'
<1> DEFINE moves(l) == pc[t] \in ReachPc \ LockedPc /\ Goto(t, l) /\ op[t] \in OpsAt(l)
<1> DEFINE moved(l, k) ==
      /\ pc[t] \in ReachPc \ LockedPc /\ Goto(t, l) /\ op' = [op EXCEPT ![t] = k]
      /\ k = "new" <=> op[t] = "new"
      /\ k \in OpsAt(l)
<1>1. TypeOK /\ op[t] \in OpsAt(pc[t]) /\ todo[t] \in SUBSET Names
  BY DEF HInv, CallShape, TypeOK
<1>2. CASE DelMode(t)
  <2>1. \E l \in ReachPc \ LockedPc : moves(l)
    BY <1>1, <1>2 DEF DelMode, OpsAt, ReachPc, Pc, LockedPc, EnablePc, DisablePc
  <2>2. TreeTyped' /\ UNCHANGED <<chM, users, call>>
    BY <1>1, <1>2 DEF DelMode, TypeOK, TreeTyped, tree, objs, store
  <2>3. QED
    BY <2>1, <2>2, QuietKeeps
<1>3. CASE DisMode(t)
  <2>1. op[t] \in {"del", "off"} /\ op \in [Threads -> OpNames]
    BY <1>1, <1>3 DEF DisMode, OpsAt, EnablePc, DisablePc, TypeOK, OpNames
  <2>2. \E l \in ReachPc \ LockedPc, k \in OpNames : moved(l, k)
    <3>1. CASE Goto(t, "free") /\ Undo(t)
      <4>1. PICK k \in {"unoff", "undel"} : op' = [op EXCEPT ![t] = k]
        BY <3>1 DEF Undo
      <4>2. pc[t] = "disMode"
        BY <1>3 DEF DisMode
      <4>3. k \in OpNames /\ "free" \in ReachPc \ LockedPc /\ "disMode" \in ReachPc \ LockedPc
        BY DEF OpNames, ReachPc, Pc, LockedPc, DisablePc
      <4>4. moved("free", k)
        BY <2>1, <3>1, <4>1, <4>2, <4>3 DEF OpsAt, EnablePc, DisablePc
      <4>5. QED
        BY <4>3, <4>4
    <3>2. CASE (Goto(t, "disSet") \/ Goto(t, AfterDis(t))) /\ UNCHANGED op
      <4>1. op' = [op EXCEPT ![t] = op[t]] /\ pc[t] = "disMode"
        BY <2>1, <3>2, <1>3 DEF DisMode
      <4>2. PICK l \in {"disSet", "back", "free"} : /\ Goto(t, l)
                                                    /\ l = "back" => op[t] = "off"
                                                    /\ l = "free" => op[t] = "del"
        BY <2>1, <3>2 DEF AfterDis
      <4>3. op[t] \in OpNames /\ l \in ReachPc \ LockedPc /\ "disMode" \in ReachPc \ LockedPc
        BY <2>1, <4>2 DEF OpNames, Calls, ReachPc, Pc, LockedPc, DisablePc
      <4>4. op[t] \in OpsAt(l)
        BY <2>1, <4>2 DEF OpsAt, EnablePc, DisablePc, Walks
      <4>5. moved(l, op[t])
        BY <4>1, <4>2, <4>3, <4>4
      <4>6. QED
        BY <4>3, <4>5
    <3>3. QED
      BY <1>3, <3>1, <3>2 DEF DisMode
  <2>3. TreeTyped' /\ UNCHANGED <<chM, users, name, node, left>>
    BY <1>1, <1>3 DEF DisMode, TypeOK, TreeTyped, tree, objs, store
  <2>4. todo' = [todo EXCEPT ![t] = todo[t]]
    BY <1>1, <1>3 DEF DisMode, TypeOK
  <2>5. QED
    BY <1>1, <2>2, <2>3, <2>4, MoveKeeps
<1>4. CASE DisSet(t)
  <2>1. moves("disWait") /\ "disWait" \in ReachPc \ LockedPc
    BY <1>1, <1>4 DEF DisSet, OpsAt, ReachPc, Pc, LockedPc, EnablePc, DisablePc
  <2>2. TreeTyped' /\ UNCHANGED <<chM, users, call>>
    BY <1>1, <1>4 DEF DisSet, SetMode, Mode, TypeOK, TreeTyped, objs, store
  <2>3. QED
    BY <2>1, <2>2, QuietKeeps
<1>5. CASE DisWait(t)
  <2>1. \E l \in ReachPc \ LockedPc : moves(l)
    BY <1>1, <1>5 DEF DisWait, OpsAt, ReachPc, Pc, LockedPc, EnablePc, DisablePc
  <2>2. TreeTyped' /\ UNCHANGED <<chM, users, call>>
    BY <1>1, <1>5 DEF DisWait, SetMode, Mode, TypeOK, TreeTyped, objs, store
  <2>3. QED
    BY <2>1, <2>2, QuietKeeps
<1>6. CASE DisDone(t)
  <2>1. \E l \in ReachPc \ LockedPc : moves(l)
    BY <1>1, <1>6 DEF DisDone, AfterDis, OpsAt, ReachPc, Pc, LockedPc, EnablePc, DisablePc, Walks
  <2>2. TreeTyped' /\ UNCHANGED <<chM, users, call>>
    BY <1>1, <1>6 DEF DisDone, Mark, TypeOK, TreeTyped, objs
  <2>3. QED
    BY <2>1, <2>2, QuietKeeps
<1>7. CASE DisFail(t)
  <2>1. op[t] \in {"del", "off"} /\ op \in [Threads -> OpNames]
    BY <1>1, <1>7 DEF DisFail, OpsAt, EnablePc, DisablePc, TypeOK, OpNames
  <2>2. \E l \in ReachPc \ LockedPc, k \in OpNames : moved(l, k)
    <3>1. PICK k \in {"unoff", "undel"} : op' = [op EXCEPT ![t] = k]
      BY <1>7 DEF DisFail, Undo
    <3>2. Goto(t, "enMode") /\ pc[t] = "disFail"
      BY <1>7 DEF DisFail
    <3>3. k \in OpNames /\ "enMode" \in ReachPc \ LockedPc /\ "disFail" \in ReachPc \ LockedPc
      BY DEF OpNames, ReachPc, Pc, LockedPc, EnablePc, DisablePc
    <3>4. moved("enMode", k)
      BY <2>1, <3>1, <3>2, <3>3 DEF OpsAt, EnablePc, DisablePc
    <3>5. QED
      BY <3>3, <3>4
  <2>3. TreeTyped' /\ UNCHANGED <<chM, users, name, node, left>>
    BY <1>1, <1>7 DEF DisFail, SetMode, Mode, TypeOK, TreeTyped, objs, store
  <2>4. todo' = [todo EXCEPT ![t] = todo[t]]
    BY <1>1, <1>7 DEF DisFail, TypeOK
  <2>5. QED
    BY <1>1, <2>2, <2>3, <2>4, MoveKeeps
<1>8. QED
  BY <1>2, <1>3, <1>4, <1>5, <1>6, <1>7

\* The data of a child: changed, saved, loaded, looked at.
LEMMA DataKeeps ==
  ASSUME NodeAssumption, HInv, NEW t \in Threads,
         \/ Edit(t) \/ SaveChild(t) \/ Saved(t) \/ LoadChild(t) \/ Loaded(t) \/ LoadFails(t)
         \/ IsModifyChild(t)
  PROVE  HInv'
<1> DEFINE moves(l) == pc[t] \in ReachPc \ LockedPc /\ Goto(t, l) /\ op[t] \in OpsAt(l)
<1>1. TypeOK /\ op[t] \in OpsAt(pc[t]) /\ todo[t] \in SUBSET Names
  BY DEF HInv, CallShape, TypeOK
<1>2. Reaching(t) => node[t] \in Objs /\ name[t] \in Names
  BY DEF HInv, CallShape
<1>3. CASE Edit(t)
  <2>1. moves("hold") /\ "hold" \in ReachPc \ LockedPc
    BY <1>1, <1>3 DEF Edit, Goto, TypeOK, OpsAt, ReachPc, Pc, LockedPc, EnablePc, DisablePc
  <2>2. TreeTyped' /\ UNCHANGED <<chM, users, call>>
    BY <1>1, <1>3 DEF Edit, Mark, TypeOK, TreeTyped, objs
  <2>3. QED
    BY <2>1, <2>2, QuietKeeps
<1>4. CASE SaveChild(t)
  <2>1. \E l \in ReachPc \ LockedPc : moves(l)
    BY <1>1, <1>4 DEF SaveChild, OpsAt, ReachPc, Pc, LockedPc, EnablePc, DisablePc, Walks
  <2>2. node[t] \in Objs /\ name[t] \in Names
    BY <1>2, <1>4 DEF SaveChild, Reaching
  <2>3. TreeTyped' /\ UNCHANGED <<chM, users, call>>
    BY <2>2, <1>1, <1>4 DEF SaveChild, TypeOK, TreeTyped, objs
  <2>4. QED
    BY <2>1, <2>3, QuietKeeps
<1>5. CASE Saved(t)
  <2>1. moves("back") /\ "back" \in ReachPc \ LockedPc
    BY <1>1, <1>5 DEF Saved, OpsAt, ReachPc, Pc, LockedPc, EnablePc, DisablePc, Walks
  <2>2. TreeTyped' /\ UNCHANGED <<chM, users, call>>
    BY <1>1, <1>5 DEF Saved, Unmark, TypeOK, TreeTyped, objs
  <2>3. QED
    BY <2>1, <2>2, QuietKeeps
<1>6. CASE LoadChild(t)
  <2>1. \E l \in ReachPc \ LockedPc : moves(l)
    BY <1>1, <1>6 DEF LoadChild, OpsAt, ReachPc, Pc, LockedPc, EnablePc, DisablePc, Walks
  <2>2. TreeTyped' /\ UNCHANGED <<chM, users, call>>
    BY <1>1, <1>6 DEF LoadChild, TypeOK, TreeTyped, tree, objs, store
  <2>3. QED
    BY <2>1, <2>2, QuietKeeps
<1>7. CASE Loaded(t)
  <2>1. \E l \in ReachPc \ LockedPc : moves(l)
    BY <1>1, <1>7 DEF Loaded, OpsAt, ReachPc, Pc, LockedPc, EnablePc, DisablePc, Walks
  <2>2. node[t] \in Objs
    BY <1>2, <1>7 DEF Loaded, Reaching
  <2>3. TreeTyped' /\ UNCHANGED <<chM, users, call>>
    BY <2>2, <1>1, <1>7 DEF Loaded, Unmark, TypeOK, TreeTyped, objs
  <2>4. QED
    BY <2>1, <2>3, QuietKeeps
<1>8. CASE IsModifyChild(t)
  <2>1. PICK s \in SUBSET Names : todo' = [todo EXCEPT ![t] = s]
    BY <1>1, <1>8 DEF IsModifyChild
  <2>2. moves("back") /\ "back" \in ReachPc \ LockedPc
    BY <1>1, <1>8 DEF IsModifyChild, OpsAt, ReachPc, Pc, LockedPc, EnablePc, DisablePc, Walks
  <2>3. TreeTyped' /\ UNCHANGED <<chM, users, op, name, node, left>>
    BY <1>1, <1>8 DEF IsModifyChild, TypeOK, TreeTyped, tree, objs, store
  <2>4. op[t] \in OpNames /\ op' = [op EXCEPT ![t] = op[t]]
    BY <1>1, <2>3 DEF TypeOK, OpNames
  <2>5. QED
    BY <2>1, <2>2, <2>3, <2>4, MoveKeeps
<1>9. CASE LoadFails(t)
  <2>1. moves("back") /\ "back" \in ReachPc \ LockedPc
    BY <1>1, <1>9 DEF LoadFails, OpsAt, ReachPc, Pc, LockedPc, EnablePc, DisablePc, Walks
  <2>2. node[t] \in Objs
    BY <1>2, <1>9 DEF LoadFails, Reaching
  <2>3. TreeTyped' /\ UNCHANGED <<chM, users, call>>
    BY <2>2, <1>1, <1>9 DEF LoadFails, Unmark, TypeOK, TreeTyped, objs
  <2>4. QED
    BY <2>1, <2>3, QuietKeeps
<1>10. QED
  BY <1>3, <1>4, <1>5, <1>6, <1>7, <1>8, <1>9

\* AHDConnect and AHDDisConnect count the handle of this thread only.
LEMMA AttachCounts ==
  ASSUME users \in [Objs -> SUBSET Threads], NEW t \in Threads, NEW o \in Objs, Attach(t, o),
         \A p \in Objs : t \notin users[p]
  PROVE  /\ users' \in [Objs -> SUBSET Threads]
         /\ \A p \in Objs : users'[p] \ {t} = users[p] \ {t} /\ (t \in users'[p] <=> p = o)
<1>1. users[o] \cup {t} \in SUBSET Threads
  OBVIOUS
<1>2. users' = [users EXCEPT ![o] = users[o] \cup {t}]
  BY DEF Attach
<1>3. QED
  BY <1>1, <1>2

LEMMA DetachCounts ==
  ASSUME users \in [Objs -> SUBSET Threads], NEW t \in Threads, Detach(t),
         \A p \in Objs : t \in users[p] => p = node[t]
  PROVE  /\ users' \in [Objs -> SUBSET Threads]
         /\ \A p \in Objs : users'[p] \ {t} = users[p] \ {t} /\ t \notin users'[p]
<1>1. users' = [users EXCEPT ![node[t]] = users[node[t]] \ {t}]
  BY DEF Detach
<1>2. users' \in [Objs -> SUBSET Threads]
  BY <1>1
<1>3. ASSUME NEW p \in Objs
      PROVE  users'[p] \ {t} = users[p] \ {t} /\ t \notin users'[p]
  <2>1. CASE p = node[t]
    <3>1. users'[p] = users[p] \ {t}
      BY <1>1, <2>1
    <3>2. QED
      BY <3>1
  <2>2. CASE p # node[t]
    <3>1. users'[p] = users[p]
      BY <1>1, <2>2
    <3>2. QED
      BY <3>1, <2>2
  <2>3. QED
    BY <2>1, <2>2
<1>4. QED
  BY <1>2, <1>3

\* A call that returns, with no lock and no handle left.
LEMMA ReturnKeeps ==
  ASSUME NodeAssumption, HInv, NEW t \in Threads, Return(t), TreeTyped',
         pc[t] # "idle",
         chM' = IF pc[t] \in LockedPc THEN NoThread ELSE chM,
         Reaching(t) => Detach(t), ~Reaching(t) => UNCHANGED users
  PROVE  HInv'
<1>1. TypeOK /\ HandlesCounted
  BY DEF HInv
<1>2. CallOf(t, "idle")
  BY <1>1 DEF Return, Goto, CallOf, TypeOK, Pc, OpNames
<1>3. op'[t] = "none"
  BY <1>1 DEF Return, TypeOK
<1>4. /\ users' \in [Objs -> SUBSET Threads]
      /\ \A p \in Objs : users'[p] \ {t} = users[p] \ {t} /\ t \notin users'[p]
  <2>1. \A p \in Objs : t \in users[p] => Reaching(t) /\ p = node[t]
    BY <1>1 DEF HandlesCounted
  <2>2. CASE Reaching(t)
    BY <2>1, <2>2, <1>1, DetachCounts DEF TypeOK
  <2>3. CASE ~Reaching(t)
    BY <2>1, <2>3, <1>1 DEF TypeOK
  <2>4. QED
    BY <2>2, <2>3
<1>5. "idle" \in Pc /\ "idle" \notin LockedPc /\ "idle" \notin ReachPc
  BY DEF Pc, LockedPc, ReachPc
<1>6. Fits(t, "idle")
  BY <1>3, <1>5 DEF Fits, OpsAt, EnablePc, DisablePc, Walks
<1>7. Locks(t, "idle") /\ Counts(t, "idle")
  BY <1>4, <1>5 DEF Locks, Counts
<1>8. QED
  BY <1>2, <1>5, <1>6, <1>7, StepKeeps

\* A thread without a handle takes one.
LEMMA TakeKeeps ==
  ASSUME NodeAssumption, HInv, NEW t \in Threads, NEW l \in ReachPc, NEW n \in Names,
         NEW o \in Objs, NEW k \in OpNames, k # "new", k \in OpsAt(l), ~Reaching(t),
         Attach(t, o), Goto(t, l), op' = [op EXCEPT ![t] = k],
         name' = [name EXCEPT ![t] = n], node' = [node EXCEPT ![t] = o],
         NEW s \in SUBSET Names, todo' = [todo EXCEPT ![t] = s],
         left' \in [Threads -> 0..MaxOps], TreeTyped', Locks(t, l)
  PROVE  HInv'
<1>1. TypeOK /\ HandlesCounted
  BY DEF HInv
<1>2. l \in Pc
  BY DEF ReachPc
<1>3. CallOf(t, l)
  BY <1>1, <1>2 DEF Goto, CallOf, TypeOK, OpNames
<1>4. op'[t] = k /\ name'[t] = n /\ node'[t] = o
  BY <1>1 DEF TypeOK
<1>5. Fits(t, l)
  BY <1>4 DEF Fits
<1>6. Counts(t, l)
  <2>1. \A p \in Objs : t \notin users[p]
    BY <1>1 DEF HandlesCounted
  <2>2. /\ users' \in [Objs -> SUBSET Threads]
        /\ \A p \in Objs : users'[p] \ {t} = users[p] \ {t} /\ (t \in users'[p] <=> p = o)
    BY <1>1, <2>1, AttachCounts DEF TypeOK
  <2>3. QED
    BY <1>4, <2>2 DEF Counts
<1>7. QED
  BY <1>2, <1>3, <1>5, <1>6, StepKeeps

\* A step that leaves the handles alone, and the name and the node of the call.
LEMMA StayKeeps ==
  ASSUME NodeAssumption, HInv, NEW t \in Threads, NEW l \in Pc,
         NEW k \in OpNames, op' = [op EXCEPT ![t] = k], k \in OpsAt(l),
         l \in ReachPc <=> Reaching(t), l \in ReachPc => (k = "new" <=> op[t] = "new"),
         l # "erase", Goto(t, l), NEW s \in SUBSET Names, todo' = [todo EXCEPT ![t] = s],
         left' \in [Threads -> 0..MaxOps], UNCHANGED <<users, name, node>>, TreeTyped',
         Locks(t, l)
  PROVE  HInv'
<1>1. TypeOK /\ HandlesCounted /\ CallShape
  BY DEF HInv
<1>2. CallOf(t, l)
  BY <1>1 DEF Goto, CallOf, TypeOK, OpNames
<1>3. op'[t] = k /\ name'[t] = name[t] /\ node'[t] = node[t]
  BY <1>1 DEF TypeOK
<1>4. Fits(t, l)
  BY <1>1, <1>3 DEF Fits, CallShape
<1>5. Counts(t, l)
  BY <1>1, <1>3 DEF Counts, TypeOK, HandlesCounted
<1>6. QED
  BY <1>2, <1>4, <1>5, StepKeeps

\* A step that releases the handle, and goes on with the call.
LEMMA ReleaseKeeps ==
  ASSUME NodeAssumption, HInv, NEW t \in Threads, NEW l \in Pc \ ReachPc, l # "idle",
         Reaching(t), Detach(t), Goto(t, l), op[t] \in OpsAt(l), UNCHANGED call,
         TreeTyped', Locks(t, l)
  PROVE  HInv'
<1>1. TypeOK /\ HandlesCounted /\ CallShape
  BY DEF HInv
<1>2. CallOf(t, l)
  BY <1>1 DEF Goto, CallOf, TypeOK, OpNames, call
<1>3. op'[t] = op[t] /\ name'[t] = name[t]
  BY DEF call
<1>4. Fits(t, l)
  BY <1>1, <1>3 DEF Fits, CallShape
<1>5. Counts(t, l)
  <2>1. \A p \in Objs : t \in users[p] => p = node[t]
    BY <1>1 DEF HandlesCounted
  <2>2. /\ users' \in [Objs -> SUBSET Threads]
        /\ \A p \in Objs : users'[p] \ {t} = users[p] \ {t} /\ t \notin users'[p]
    BY <1>1, <2>1, DetachCounts DEF TypeOK
  <2>3. QED
    BY <2>2 DEF Counts
<1>6. QED
  BY <1>2, <1>4, <1>5, StepKeeps

LEMMA CallingTyped ==
  ASSUME NodeAssumption, HInv, NEW t \in Threads, NEW k, Calling(t, k)
  PROVE  /\ left' \in [Threads -> 0..MaxOps]
         /\ ~Reaching(t) /\ pc[t] = "idle" /\ chM # t
<1>1. TypeOK /\ LockHeld
  BY DEF HInv
<1>2. left[t] \in 0..MaxOps /\ left[t] > 0 /\ MaxOps \in Nat
  BY <1>1 DEF TypeOK, Calling, NodeAssumption
<1>3. left[t] - 1 \in 0..MaxOps /\ left' = [left EXCEPT ![t] = left[t] - 1]
  BY <1>2 DEF Calling
<1>4. left' \in [Threads -> 0..MaxOps]
  BY <1>1, <1>3 DEF TypeOK
<1>5. QED
  BY <1>1, <1>4 DEF Calling, Reaching, LockHeld, LockedPc

\* chldAt and chldAdd start.
LEMMA StartKeeps ==
  ASSUME NodeAssumption, HInv, NEW t \in Threads, Start(t)
  PROVE  HInv'
<1>1. TypeOK /\ todo[t] \in SUBSET Names /\ todo = [todo EXCEPT ![t] = todo[t]]
  BY DEF HInv, TypeOK
<1>2. ASSUME NEW k \in {"use", "edit", "del"}, NEW n \in Names, AtFind(t, k, n)
      PROVE  HInv'
  <2>1. inMap[n] \in Objs /\ Calling(t, k)
    BY <1>1, <1>2 DEF AtFind, TypeOK
  <2>2. TreeTyped'
    BY <1>1, <1>2 DEF AtFind, TypeOK, TreeTyped, tree, objs, store
  <2>3. Locks(t, "check") /\ "check" \in ReachPc
    BY <1>2 DEF AtFind, Lock, Locks, ReachPc, Pc, LockedPc
  <2>4. k \in OpNames /\ k # "new" /\ k \in OpsAt("check")
    BY <1>2 DEF OpNames, Calls, OpsAt, EnablePc, DisablePc, Walks
  <2>5. /\ Attach(t, inMap[n]) /\ Goto(t, "check") /\ op' = [op EXCEPT ![t] = k]
        /\ name' = [name EXCEPT ![t] = n] /\ node' = [node EXCEPT ![t] = inMap[n]]
        /\ todo' = [todo EXCEPT ![t] = todo[t]]
    BY <1>1, <1>2 DEF AtFind
  <2>6. QED
    BY <1>1, <2>1, <2>2, <2>3, <2>4, <2>5, CallingTyped, TakeKeeps
<1>3. ASSUME NEW n \in Names, AddFound(t, n)
      PROVE  HInv'
  <2>1. inMap[n] \in Objs /\ Calling(t, "add")
    BY <1>1, <1>3 DEF AddFound, TypeOK
  <2>2. TreeTyped'
    BY <1>1, <1>3 DEF AddFound, TypeOK, TreeTyped, tree, objs, store
  <2>3. Locks(t, "addMode") /\ "addMode" \in ReachPc
    BY <1>3 DEF AddFound, Locks, ReachPc, Pc, LockedPc, Calling
  <2>4. "add" \in OpNames /\ "add" \in OpsAt("addMode")
    BY DEF OpNames, Calls, OpsAt, EnablePc, DisablePc, Walks
  <2>5. /\ Attach(t, inMap[n]) /\ Goto(t, "addMode") /\ op' = [op EXCEPT ![t] = "add"]
        /\ name' = [name EXCEPT ![t] = n] /\ node' = [node EXCEPT ![t] = inMap[n]]
        /\ todo' = [todo EXCEPT ![t] = todo[t]]
    BY <1>1, <1>3 DEF AddFound
  <2>6. QED
    BY <1>1, <2>1, <2>2, <2>3, <2>4, <2>5, CallingTyped, TakeKeeps
<1>4. ASSUME NEW n \in Names, NEW o \in Objs, AddNew(t, n, o)
      PROVE  HInv'
  <2>1. ~Reaching(t) /\ left' \in [Threads -> 0..MaxOps] /\ pc[t] = "idle"
    BY <1>4, CallingTyped DEF AddNew
  <2>2. TreeTyped'
    BY <1>1, <1>4 DEF AddNew, TypeOK, TreeTyped
  <2>3. Locks(t, "addMode") /\ "addMode" \in Pc
    BY <1>4, <2>1 DEF AddNew, Locks, Pc, LockedPc
  <2>4. CallOf(t, "addMode")
    BY <1>1, <1>4, <2>1 DEF AddNew, CallOf, Goto, TypeOK, OpNames, Pc
  <2>5. op'[t] = "new" /\ name'[t] = n /\ node'[t] = o
    BY <1>1, <1>4 DEF AddNew, TypeOK
  <2>6. Fits(t, "addMode")
    BY <2>5 DEF Fits, OpsAt, EnablePc, DisablePc, Walks
  <2>7. \A p \in Objs : t \notin users[p]
    BY <2>1 DEF HInv, HandlesCounted
  <2>8. Counts(t, "addMode")
    BY <1>1, <1>4, <2>5, <2>7 DEF Counts, AddNew, TypeOK
  <2>9. QED
    BY <2>2, <2>3, <2>4, <2>6, <2>8, StepKeeps
<1>5. ASSUME NEW k \in Walks, WalkBegin(t, k)
      PROVE  HInv'
  <2>1. ~Reaching(t) /\ left' \in [Threads -> 0..MaxOps] /\ pc[t] = "idle"
    BY <1>5, CallingTyped DEF WalkBegin
  <2>2. TreeTyped'
    <3>1. cMode' \in Mode
      BY <1>1, <1>5 DEF WalkBegin, TypeOK, Mode
    <3>2. QED
      BY <1>1, <1>5, <3>1 DEF WalkBegin, TypeOK, TreeTyped, objs, store
  <2>3. Locks(t, "list") /\ "list" \in Pc /\ "list" \notin ReachPc
    BY <1>5 DEF WalkBegin, Lock, Locks, Pc, LockedPc, ReachPc
  <2>4. k \in OpNames /\ k \in OpsAt("list")
    BY DEF OpNames, Calls, OpsAt, Walks, EnablePc, DisablePc
  <2>5. Listed(k) \in SUBSET Names /\ todo' = [todo EXCEPT ![t] = Listed(k)]
    BY <1>5 DEF WalkBegin, Listed
  <2>6. Goto(t, "list") /\ op' = [op EXCEPT ![t] = k] /\ UNCHANGED <<users, name, node>>
    BY <1>5 DEF WalkBegin
  <2>7. QED
    BY <2>1, <2>2, <2>3, <2>4, <2>5, <2>6, StayKeeps
<1>6. QED
  BY <1>2, <1>3, <1>4, <1>5 DEF Start

\* The check of chldAt, the end of a handle, and of the calls.
LEMMA EndKeeps ==
  ASSUME NodeAssumption, HInv, NEW t \in Threads,
         AtCheck(t) \/ Drop(t) \/ Free(t) \/ Erase(t)
  PROVE  HInv'
<1>1. TypeOK /\ CallShape /\ op[t] \in OpsAt(pc[t]) /\ todo[t] \in SUBSET Names
  BY DEF HInv, CallShape, TypeOK
<1>2. CASE AtCheck(t)
  <2>1. TreeTyped' /\ Reaching(t) /\ chM' = NoThread
    BY <1>1, <1>2 DEF AtCheck, TypeOK, TreeTyped, tree, objs, store, Reaching, Unlock
  <2>2. pc[t] = "check" /\ op[t] \in {"use", "edit", "del"}
    BY <1>1, <1>2 DEF AtCheck, OpsAt, EnablePc, DisablePc, Walks
  <2>3. CASE ModeIs(t, "Disabled")
    <3>1. Detach(t) /\ Return(t)
      BY <1>2, <2>3 DEF AtCheck
    <3>2. QED
      BY <2>1, <2>2, <3>1, ReturnKeeps DEF LockedPc
  <2>4. CASE ~ModeIs(t, "Disabled")
    <3>1. PICK l \in {"delMode", "hold"} :
            Goto(t, l) /\ (l = "delMode" <=> op[t] = "del") /\ UNCHANGED <<users, call>>
      BY <1>2, <2>4 DEF AtCheck
    <3>2. l \in ReachPc /\ l \in Pc /\ l \notin LockedPc /\ l # "erase" /\ op[t] \in OpsAt(l)
      BY <2>2, <3>1 DEF ReachPc, Pc, LockedPc, DisablePc, EnablePc, OpsAt
    <3>3. Locks(t, l)
      BY <2>1, <2>2, <3>2 DEF Locks, LockedPc
    <3>4. op[t] \in OpNames /\ op' = [op EXCEPT ![t] = op[t]] /\ todo' = [todo EXCEPT ![t] = todo[t]]
      BY <1>1, <3>1 DEF TypeOK, OpNames, call
    <3>5. UNCHANGED <<users, name, node>> /\ left' \in [Threads -> 0..MaxOps]
      BY <1>1, <3>1 DEF call, TypeOK
    <3>6. QED
      BY <1>1, <2>1, <3>1, <3>2, <3>3, <3>4, <3>5, StayKeeps
  <2>5. QED
    BY <2>3, <2>4
<1>3. CASE Drop(t)
  <2>1. TreeTyped' /\ Reaching(t) /\ pc[t] = "hold"
    BY <1>1, <1>3 DEF Drop, TypeOK, TreeTyped, tree, objs, store, Reaching
  <2>2. QED
    BY <1>3, <2>1, ReturnKeeps DEF Drop, LockedPc
<1>4. CASE Free(t)
  <2>1. cMode' \in Mode
    BY <1>1, <1>4 DEF Free, TypeOK, Mode
  <2>2. TreeTyped' /\ Reaching(t) /\ pc[t] = "free" /\ Detach(t) /\ chM' = chM
    BY <1>1, <1>4, <2>1 DEF Free, TypeOK, TreeTyped, objs, store, Reaching
  <2>3. CASE op[t] \in {"del", "unoff"}
    <3>1. PICK l \in {"erase", "restore"} :
            Goto(t, l) /\ (l = "erase" <=> op[t] = "del") /\ UNCHANGED call
      BY <1>4, <2>3 DEF Free
    <3>2. l \in Pc \ ReachPc /\ l # "idle" /\ op[t] \in OpsAt(l)
      BY <2>3, <3>1 DEF Pc, ReachPc, OpsAt, EnablePc, DisablePc
    <3>3. Locks(t, l)
      BY <2>2, <3>1 DEF Locks, LockedPc
    <3>4. QED
      BY <2>2, <3>1, <3>2, <3>3, ReleaseKeeps
  <2>4. CASE op[t] \notin {"del", "unoff"}
    BY <1>4, <2>2, <2>4, ReturnKeeps DEF Free, LockedPc
  <2>5. QED
    BY <2>3, <2>4
<1>5. CASE Erase(t)
  <2>1. name[t] \in Names /\ pc[t] = "erase" /\ ~Reaching(t)
    BY <1>1, <1>5 DEF Erase, CallShape, Reaching
  <2>2. TreeTyped'
    <3>1. inMap[name[t]] \in Objs \cup {NoObj}
      BY <1>1, <2>1 DEF TypeOK
    <3>2. alive' \in [Objs -> {"none", "live", "dead"}] /\ mode' \in [Objs -> Mode]
      BY <1>1, <1>5 DEF Erase, TypeOK, Mode
    <3>3. inMap' \in [Names -> Objs \cup {NoObj}]
      BY <1>1, <1>5 DEF Erase, TypeOK
    <3>4. QED
      BY <1>1, <1>5, <3>2, <3>3 DEF Erase, TypeOK, TreeTyped, store
  <2>3. QED
    BY <1>5, <2>1, <2>2, ReturnKeeps DEF Erase, LockedPc
<1>6. QED
  BY <1>2, <1>3, <1>4, <1>5

\* The walks over the children.
LEMMA WalkKeeps ==
  ASSUME NodeAssumption, HInv, NEW t \in Threads,
         \/ \E n \in Names : WalkNext(t, n)
         \/ Visit(t) \/ Back(t) \/ WalkEnd(t) \/ OffEnd(t) \/ Restore(t)
  PROVE  HInv'
<1> DEFINE same == op' = [op EXCEPT ![t] = op[t]] /\ todo' = [todo EXCEPT ![t] = todo[t]]
<1>1. /\ TypeOK /\ LockHeld /\ CallShape /\ op[t] \in OpsAt(pc[t])
      /\ todo[t] \in SUBSET Names /\ op[t] \in OpNames /\ left \in [Threads -> 0..MaxOps]
  BY DEF HInv, CallShape, TypeOK, OpNames
<1>2. UNCHANGED call => same /\ UNCHANGED <<name, node>> /\ left' \in [Threads -> 0..MaxOps]
  BY <1>1 DEF call, TypeOK
<1>3. UNCHANGED tree => TreeTyped'
  BY <1>1 DEF tree, objs, store, TypeOK, TreeTyped
<1>4. ASSUME NEW n \in Names, WalkNext(t, n)
      PROVE  HInv'
  <2>1. pc[t] = "list" /\ ~Reaching(t) /\ op[t] \in Walks \cup {"on"} /\ chM = t
    BY <1>1, <1>4 DEF WalkNext, Reaching, OpsAt, EnablePc, DisablePc, LockHeld, LockedPc
  <2>2. TreeTyped' /\ UNCHANGED <<chM, op, left>>
    BY <1>3, <1>4 DEF WalkNext
  <2>3. PICK s \in SUBSET Names : todo' = [todo EXCEPT ![t] = s]
    BY <1>1, <1>4 DEF WalkNext
  <2>4. op' = [op EXCEPT ![t] = op[t]] /\ left' \in [Threads -> 0..MaxOps]
    BY <1>1, <2>2 DEF TypeOK
  <2>5. Locks(t, "list") /\ Locks(t, "visit") /\ op[t] # "new"
    BY <2>1, <2>2 DEF Locks, LockedPc, Walks
  <2>6. op[t] \in OpsAt("list") /\ op[t] \in OpsAt("visit")
    BY <2>1 DEF OpsAt, EnablePc, DisablePc, Walks
  <2>7. "list" \in Pc \ ReachPc /\ "visit" \in ReachPc
    BY DEF Pc, ReachPc, LockedPc
  <2>8. CASE inMap[n] = NoObj
    <3>1. Goto(t, "list") /\ UNCHANGED <<users, name, node>>
      BY <1>1, <1>4, <2>1, <2>8 DEF WalkNext, Goto, TypeOK
    <3>2. QED
      BY <1>1, <2>1, <2>2, <2>3, <2>4, <2>5, <2>6, <2>7, <3>1, StayKeeps
  <2>9. CASE inMap[n] # NoObj
    <3>1. inMap[n] \in Objs
      BY <1>1, <2>9 DEF TypeOK
    <3>2. /\ Attach(t, inMap[n]) /\ Goto(t, "visit")
          /\ name' = [name EXCEPT ![t] = n] /\ node' = [node EXCEPT ![t] = inMap[n]]
      BY <1>4, <2>9 DEF WalkNext
    <3>3. QED
      BY <1>1, <2>1, <2>2, <2>3, <2>4, <2>5, <2>6, <2>7, <3>1, <3>2, TakeKeeps
  <2>10. QED
    BY <2>8, <2>9
<1>5. CASE Visit(t)
  <2>1. pc[t] = "visit" /\ Reaching(t) /\ op[t] \in Walks \cup {"on"} /\ chM = t
    BY <1>1, <1>5 DEF Visit, Reaching, OpsAt, EnablePc, DisablePc, LockHeld, LockedPc
  <2>2. TreeTyped' /\ UNCHANGED call
    BY <1>3, <1>5 DEF Visit
  <2>3. CASE GoesIn(t)
    <3>1. PICK l \in {"disMode", "enMode", "child"} :
            /\ Goto(t, l) /\ UNCHANGED users /\ chM' = NoThread
            /\ l = "disMode" => op[t] = "off"
            /\ l = "enMode" => op[t] = "on"
            /\ l = "child" => op[t] \notin {"off", "on"}
      BY <1>5, <2>3 DEF Visit, Unlock
    <3>2. l \in Pc /\ l \in ReachPc /\ l # "erase" /\ l \notin LockedPc /\ op[t] \in OpsAt(l)
      BY <2>1, <3>1 DEF Pc, ReachPc, LockedPc, OpsAt, EnablePc, DisablePc, Walks
    <3>3. Locks(t, l)
      BY <2>1, <3>1, <3>2 DEF Locks, LockedPc
    <3>4. QED
      BY <1>1, <1>2, <2>1, <2>2, <3>1, <3>2, <3>3, StayKeeps
  <2>4. CASE ~GoesIn(t)
    <3>1. Detach(t) /\ Goto(t, "list") /\ UNCHANGED chM
      BY <1>5, <2>4 DEF Visit
    <3>2. "list" \in Pc \ ReachPc /\ op[t] \in OpsAt("list") /\ Locks(t, "list")
      BY <2>1, <3>1 DEF Pc, ReachPc, LockedPc, OpsAt, EnablePc, DisablePc, Walks, Locks
    <3>3. QED
      BY <2>1, <2>2, <3>1, <3>2, ReleaseKeeps
  <2>5. QED
    BY <2>3, <2>4
<1>6. CASE Back(t)
  <2>1. pc[t] = "back" /\ Reaching(t) /\ op[t] \in Walks \cup {"on"}
    BY <1>1, <1>6 DEF Back, Reaching, OpsAt, EnablePc, DisablePc
  <2>2. TreeTyped' /\ UNCHANGED call /\ Detach(t) /\ Goto(t, "list")
    BY <1>3, <1>6 DEF Back
  <2>3. "list" \in Pc \ ReachPc /\ op[t] \in OpsAt("list") /\ Locks(t, "list")
    BY <1>6, <2>1 DEF Back, Lock, Pc, ReachPc, LockedPc, OpsAt, EnablePc, DisablePc, Walks, Locks
  <2>4. QED
    BY <2>1, <2>2, <2>3, ReleaseKeeps
<1>7. CASE WalkEnd(t)
  <2>1. pc[t] = "list" /\ ~Reaching(t) /\ chM' = NoThread /\ UNCHANGED users
    BY <1>7 DEF WalkEnd, Reaching, Unlock
  <2>2. cMode' \in Mode
    BY <1>1, <1>7 DEF WalkEnd, TypeOK, Mode
  <2>3. TreeTyped'
    BY <1>1, <1>7, <2>2 DEF WalkEnd, TypeOK, TreeTyped, objs, store
  <2>4. CASE op[t] = "off"
    <3>1. Goto(t, "offEnd") /\ UNCHANGED call
      BY <1>7, <2>4 DEF WalkEnd
    <3>2. "offEnd" \in Pc /\ "offEnd" \notin ReachPc /\ op[t] \in OpsAt("offEnd") /\ Locks(t, "offEnd")
      BY <2>1, <2>4 DEF Pc, ReachPc, LockedPc, OpsAt, EnablePc, DisablePc, Walks, Locks
    <3>3. QED
      BY <1>1, <1>2, <2>1, <2>3, <3>1, <3>2, StayKeeps
  <2>5. CASE op[t] # "off"
    BY <1>7, <2>1, <2>3, <2>5, ReturnKeeps DEF WalkEnd, LockedPc
  <2>6. QED
    BY <2>4, <2>5
<1>8. CASE OffEnd(t)
  <2>1. pc[t] = "offEnd" /\ ~Reaching(t) /\ op[t] = "off" /\ UNCHANGED <<chM, users>>
    BY <1>1, <1>8 DEF OffEnd, Reaching, OpsAt, EnablePc, DisablePc
  <2>2. TreeTyped'
    BY <1>1, <1>8 DEF OffEnd, TypeOK, TreeTyped, Mode, objs, store
  <2>3. CASE Return(t)
    BY <2>1, <2>2, <2>3, ReturnKeeps DEF LockedPc
  <2>4. CASE Goto(t, "restore") /\ UNCHANGED call
    <3>1. "restore" \in Pc /\ "restore" \notin ReachPc /\ op[t] \in OpsAt("restore") /\ Locks(t, "restore")
      BY <2>1 DEF Pc, ReachPc, LockedPc, OpsAt, EnablePc, DisablePc, Walks, Locks
    <3>2. QED
      BY <1>1, <1>2, <2>1, <2>2, <2>4, <3>1, StayKeeps
  <2>5. QED
    BY <1>8, <2>3, <2>4 DEF OffEnd
<1>9. CASE Restore(t)
  <2>1. pc[t] = "restore" /\ ~Reaching(t)
    BY <1>9 DEF Restore, Reaching
  <2>2. TreeTyped'
    BY <1>1, <1>9 DEF Restore, TypeOK, TreeTyped, Mode, objs, store
  <2>3. "list" \in Pc /\ "list" \notin ReachPc /\ "on" \in OpsAt("list") /\ Locks(t, "list")
    BY <1>9 DEF Restore, Lock, Pc, ReachPc, LockedPc, OpsAt, EnablePc, DisablePc, Walks, Locks
  <2>4. PICK s \in SUBSET Names : todo' = [todo EXCEPT ![t] = s]
    BY <1>9 DEF Restore
  <2>5. /\ op' = [op EXCEPT ![t] = "on"] /\ Goto(t, "list") /\ UNCHANGED <<users, name, node>>
        /\ "on" \in OpNames /\ left' \in [Threads -> 0..MaxOps]
    BY <1>1, <1>9 DEF Restore, OpNames
  <2>6. QED
    BY <1>1, <2>1, <2>2, <2>3, <2>4, <2>5, StayKeeps
<1>10. QED
  BY <1>4, <1>5, <1>6, <1>7, <1>8, <1>9

LEMMA RestKeeps == HInv /\ UNCHANGED vars => HInv'
BY DEF HInv, vars, tree, objs, store, call, TypeOK, LockHeld, CallShape, HandlesCounted, Reaching

LEMMA StartsHolding == ASSUME NodeAssumption, Init PROVE HInv
<1>1. TypeOK
  BY DEF NodeAssumption, Init, TypeOK, Mode, Pc
<1>2. LockHeld /\ CallShape /\ HandlesCounted
  BY DEF NodeAssumption, Init, LockHeld, CallShape, HandlesCounted, Reaching, LockedPc, OpsAt, EnablePc, DisablePc, Walks
<1>3. QED
  BY <1>1, <1>2 DEF HInv

LEMMA EveryStepKeeps == ASSUME NodeAssumption, HInv, [Next]_vars PROVE HInv'
<1>1. ASSUME NEW t \in Threads, Start(t) \/ Edit(t) \/ Continue(t)
      PROVE  HInv'
  BY <1>1, StartKeeps, EndKeeps, EnablingKeeps, DisablingKeeps, DataKeeps, WalkKeeps DEF Continue
<1>2. QED
  BY <1>1, RestKeeps DEF Next, Rest

\* The invariant of the tree for any threads and calls: mChM is held at its
\* labels and nowhere else, a thread is at the labels of its call, and its
\* handle is counted (chldAt, chldAdd, chldDel, nodeEn, nodeDis, the walks).
THEOREM Invariance == ASSUME NodeAssumption PROVE Spec => []HInv
<1>1. Init => HInv
  BY StartsHolding
<1>2. HInv /\ [Next]_vars => HInv'
  BY EveryStepKeeps
<1>3. QED
  BY <1>1, <1>2, PTL DEF Spec

\* The variables of the tree have their types: the mode of a node is one of the
\* four of TCntrNode::Flag, mUse counts handles of threads.
THEOREM Types == ASSUME NodeAssumption PROVE Spec => []TypeOK
<1>1. HInv => TypeOK
  BY DEF HInv
<1>2. QED
  BY <1>1, Invariance, PTL

\* mUse of a node counts the handles on it, for any threads and any calls:
\* no early return and no exception of chldAt, chldAdd, chldDel, nodeEn,
\* nodeDis and the walks loses one or counts one twice.
THEOREM Counted == ASSUME NodeAssumption PROVE Spec => []HandlesCounted
<1>1. HInv => HandlesCounted
  BY DEF HInv
<1>2. QED
  BY <1>1, Invariance, PTL

-----------------------------------------------------------------------------
(* One thread changes the tree: what the steps of the others are           *)

\* A step of a thread leaves the calls of the others alone.
LEMMA OnlyOwn ==
  ASSUME TypeOK, NEW t \in Threads, Start(t) \/ Edit(t) \/ Continue(t), NEW u \in Threads \ {t}
  PROVE  /\ pc'[u] = pc[u] /\ op'[u] = op[u] /\ name'[u] = name[u]
         /\ node'[u] = node[u] /\ todo'[u] = todo[u]
<1>1. CASE Start(t)
  BY <1>1 DEF TypeOK, Start, AtFind, AddFound, AddNew, WalkBegin, Goto
<1>2. CASE AtCheck(t) \/ Drop(t) \/ Edit(t) \/ Free(t) \/ Erase(t)
  BY <1>2 DEF TypeOK, AtCheck, Drop, Edit, Free, Erase, Goto, Return, call
<1>3. CASE AddMode(t) \/ EnMode(t) \/ EnSet(t) \/ EnDone(t)
  BY <1>3 DEF TypeOK, AddMode, EnMode, EnSet, EnDone, Goto, call
<1>4. CASE DelMode(t) \/ DisMode(t) \/ DisSet(t) \/ DisWait(t) \/ DisDone(t) \/ DisFail(t)
  BY <1>4 DEF TypeOK, DelMode, DisMode, DisSet, DisWait, DisDone, DisFail, Undo, Goto, call
<1>5. CASE SaveChild(t) \/ Saved(t) \/ LoadChild(t) \/ Loaded(t) \/ LoadFails(t) \/ IsModifyChild(t)
  BY <1>5 DEF TypeOK, SaveChild, Saved, LoadChild, Loaded, LoadFails, IsModifyChild, Goto, call
<1>6. CASE \E n \in Names : WalkNext(t, n)
  BY <1>6 DEF TypeOK, WalkNext, Goto
<1>7. CASE Visit(t) \/ Back(t) \/ WalkEnd(t) \/ OffEnd(t) \/ Restore(t)
  BY <1>7 DEF TypeOK, Visit, Back, WalkEnd, OffEnd, Restore, Goto, Return, call
<1>8. QED
  BY <1>1, <1>2, <1>3, <1>4, <1>5, <1>6, <1>7 DEF Continue

\* The labels of a thread that uses the tree.
LEMMA UsePc ==
  ASSUME HInv, NEW t \in Threads, op[t] \in UseOps
  PROVE  /\ pc[t] \in {"idle", "check", "hold", "list", "visit", "child", "back"}
         /\ pc[t] \in {"list", "visit", "child", "back"} => op[t] = "isModify"
         /\ pc[t] \in {"check", "hold"} => op[t] \in {"use", "edit"}
         /\ pc[t] = "idle" => op[t] = "none"
<1>1. op[t] \in OpsAt(pc[t]) /\ pc[t] \in Pc
  BY DEF HInv, CallShape, TypeOK
<1>2. QED
  BY <1>1 DEF Pc, LockedPc, EnablePc, DisablePc, OpsAt, Walks, UseOps

LEMMA UseActions ==
  ASSUME HInv, NEW t \in Threads, op[t] \in UseOps, Edit(t) \/ Continue(t)
  PROVE  \/ AtCheck(t) \/ Drop(t) \/ Edit(t) \/ (\E n \in Names : WalkNext(t, n))
         \/ Visit(t) \/ IsModifyChild(t) \/ Back(t) \/ WalkEnd(t)
BY UsePc DEF Continue, AddMode, EnMode, EnSet, EnDone, DelMode, DisMode, DisSet,
   DisWait, DisDone, DisFail, Free, Erase, SaveChild, Saved, LoadChild, Loaded, LoadFails,
   OffEnd, Restore

\* What a thread that uses the tree reaches after a step: the child it found
\* in the map, or the one it had, seen not to be disabled when it went in.
Reached(t) ==
  \/ pc'[t] \in {"check", "visit"} /\ \E n \in Names : inMap[n] # NoObj /\ node'[t] = inMap[n]
  \/ /\ Reaching(t) /\ node'[t] = node[t]
     /\ pc[t] \in {"check", "visit"} => mode[node[t]] # "Disabled"

LEMMA UseSteps ==
  ASSUME NodeAssumption, HInv, NEW t \in Threads, op[t] \in UseOps,
         Ops[t] \subseteq {"use", "edit", "isModify"}, Start(t) \/ Edit(t) \/ Continue(t)
  PROVE  /\ UNCHANGED <<cMode, mode, inMap, alive>>
         /\ op'[t] \in UseOps
         /\ Reaching(t)' => Reached(t)
<1>1. TypeOK
  BY DEF HInv
<1>2. CASE Start(t)
  <2>1. ASSUME NEW k \in {"use", "edit", "del"}, NEW n \in Names, AtFind(t, k, n)
        PROVE  UNCHANGED <<cMode, mode, inMap, alive>> /\ op'[t] \in UseOps /\ Reached(t)
    <3>1. k \in {"use", "edit"}
      BY <2>1 DEF AtFind, Calling
    <3>2. op'[t] = k /\ pc'[t] = "check" /\ node'[t] = inMap[n] /\ inMap[n] # NoObj
      BY <1>1, <2>1 DEF AtFind, Goto, TypeOK
    <3>3. QED
      BY <2>1, <3>1, <3>2 DEF AtFind, tree, objs, UseOps, Reached
  <2>2. ASSUME NEW n \in Names, AddFound(t, n) PROVE FALSE
    BY <2>2 DEF AddFound, Calling
  <2>3. ASSUME NEW n \in Names, NEW o \in Objs, AddNew(t, n, o) PROVE FALSE
    BY <2>3 DEF AddNew, Calling
  <2>4. ASSUME NEW k \in Walks, WalkBegin(t, k)
        PROVE  UNCHANGED <<cMode, mode, inMap, alive>> /\ op'[t] \in UseOps /\ ~Reaching(t)'
    <3>1. k = "isModify"
      BY <2>4 DEF WalkBegin, Calling, Walks
    <3>2. op'[t] = k /\ pc'[t] = "list"
      BY <1>1, <2>4 DEF WalkBegin, Goto, TypeOK
    <3>3. QED
      BY <2>4, <3>1, <3>2 DEF WalkBegin, objs, UseOps, Reaching
  <2>5. QED
    BY <1>2, <2>1, <2>2, <2>3, <2>4 DEF Start
<1>3. ASSUME Edit(t) \/ Continue(t)
      PROVE  \/ AtCheck(t) \/ Drop(t) \/ Edit(t) \/ (\E n \in Names : WalkNext(t, n))
             \/ Visit(t) \/ IsModifyChild(t) \/ Back(t) \/ WalkEnd(t)
  BY <1>3, UseActions
<1>4. CASE AtCheck(t)
  <2>1. op[t] \in {"use", "edit"} /\ pc[t] = "check" /\ Reaching(t)
    BY <1>4, UsePc DEF AtCheck, Reaching
  <2>2. CASE mode[node[t]] = "Disabled"
    <3>1. op'[t] = "none" /\ pc'[t] = "idle"
      BY <1>1, <1>4, <2>2 DEF AtCheck, ModeIs, Return, Goto, TypeOK
    <3>2. QED
      BY <1>4, <3>1 DEF AtCheck, tree, objs, UseOps, Reaching
  <2>3. CASE mode[node[t]] # "Disabled"
    <3>1. UNCHANGED call
      BY <1>4, <2>3 DEF AtCheck, ModeIs
    <3>2. QED
      BY <1>4, <2>1, <2>3, <3>1 DEF AtCheck, call, tree, objs, UseOps, Reached
  <2>4. QED
    BY <2>2, <2>3
<1>5. CASE Drop(t)
  <2>1. op'[t] = "none" /\ pc'[t] = "idle"
    BY <1>1, <1>5 DEF Drop, Return, Goto, TypeOK
  <2>2. QED
    BY <1>5, <2>1 DEF Drop, tree, objs, UseOps, Reaching
<1>6. CASE Edit(t)
  BY <1>6 DEF Edit, objs, call, Reached, Reaching
<1>7. ASSUME NEW n \in Names, WalkNext(t, n)
      PROVE  UNCHANGED <<cMode, mode, inMap, alive>> /\ op'[t] \in UseOps
             /\ (Reaching(t)' => Reached(t))
  <2>1. CASE inMap[n] = NoObj
    <3>1. pc'[t] = "list"
      BY <1>7, <2>1 DEF WalkNext
    <3>2. QED
      BY <1>7, <3>1 DEF WalkNext, tree, objs, Reaching
  <2>2. CASE inMap[n] # NoObj
    <3>1. pc'[t] = "visit" /\ node'[t] = inMap[n]
      BY <1>1, <1>7, <2>2 DEF WalkNext, Goto, TypeOK
    <3>2. QED
      BY <1>7, <2>2, <3>1 DEF WalkNext, tree, objs, Reached
  <2>3. QED
    BY <2>1, <2>2
<1>8. CASE Visit(t)
  <2>1. op[t] = "isModify" /\ pc[t] = "visit" /\ Reaching(t)
    BY <1>8, UsePc DEF Visit, Reaching
  <2>2. CASE mode[node[t]] = "Enabled"
    BY <1>8, <2>1, <2>2 DEF Visit, tree, objs, call, Reached
  <2>3. CASE mode[node[t]] # "Enabled"
    <3>1. ~GoesIn(t)
      BY <2>1, <2>3 DEF GoesIn, ModeIs
    <3>2. pc'[t] = "list"
      BY <1>1, <1>8, <3>1 DEF Visit, Goto, TypeOK
    <3>3. QED
      BY <1>8, <3>2 DEF Visit, tree, objs, call, Reaching
  <2>4. QED
    BY <2>2, <2>3
<1>9. CASE IsModifyChild(t)
  BY <1>9 DEF IsModifyChild, tree, objs, Reached, Reaching
<1>10. CASE Back(t)
  <2>1. pc'[t] = "list"
    BY <1>1, <1>10 DEF Back, Goto, TypeOK
  <2>2. QED
    BY <1>10, <2>1 DEF Back, tree, objs, call, Reaching
<1>11. CASE WalkEnd(t)
  <2>1. op[t] = "isModify"
    BY <1>11, UsePc DEF WalkEnd
  <2>2. op'[t] = "none" /\ pc'[t] = "idle" /\ cMode' = cMode
    BY <1>1, <1>11, <2>1 DEF WalkEnd, Return, Goto, TypeOK
  <2>3. QED
    BY <1>11, <2>2 DEF WalkEnd, objs, UseOps, Reaching
<1>12. QED
  BY <1>2, <1>3, <1>4, <1>5, <1>6, <1>7, <1>8, <1>9, <1>10, <1>11

\* The steps of the others keep the invariant of the administrator.
LEMMA OthersKeep ==
  ASSUME NodeAssumption, HInv, HInv', NEW ad \in Threads, SoleAdmin(ad), TInv(ad),
         NEW t \in Threads \ {ad}, Start(t) \/ Edit(t) \/ Continue(t)
  PROVE  TInv(ad)'
<1>1. TypeOK /\ OthersUse(ad) /\ MapLive(ad) /\ NoDangling /\ DisabledUnused(ad)
  BY DEF HInv, TInv
<1>2. op[t] \in UseOps /\ Ops[t] \subseteq {"use", "edit", "isModify"}
  BY <1>1 DEF OthersUse, SoleAdmin
<1>3. /\ UNCHANGED <<cMode, mode, inMap, alive>> /\ op'[t] \in UseOps
      /\ Reaching(t)' => Reached(t)
  BY <1>2, UseSteps
<1>4. \A u \in Threads \ {t} : /\ pc'[u] = pc[u] /\ op'[u] = op[u] /\ name'[u] = name[u]
                               /\ node'[u] = node[u] /\ todo'[u] = todo[u]
  BY <1>1, OnlyOwn
<1>5. \A u \in Threads \ {t} : Reaching(u)' <=> Reaching(u)
  BY <1>4 DEF Reaching
<1>6. /\ pc'[ad] = pc[ad] /\ op'[ad] = op[ad] /\ name'[ad] = name[ad]
      /\ node'[ad] = node[ad] /\ todo'[ad] = todo[ad] /\ (Reaching(ad)' <=> Reaching(ad))
  BY <1>4, <1>5
<1>7. OthersUse(ad)'
  BY <1>1, <1>3, <1>4 DEF OthersUse
<1>8. MapLive(ad)'
  BY <1>1, <1>3, <1>6 DEF MapLive
<1>9. NoDangling'
  <2>1. Reaching(t)' => alive[node'[t]] = "live"
    BY <1>1, <1>3 DEF Reached, NoDangling, MapLive
  <2>2. \A u \in Threads \ {t} : Reaching(u)' => alive[node'[u]] = "live"
    BY <1>1, <1>4, <1>5 DEF NoDangling
  <2>3. QED
    BY <1>3, <2>1, <2>2 DEF NoDangling
<1>10. DisabledUnused(ad)'
  <2>1. Reaching(t)' /\ pc'[t] \notin {"check", "visit"} /\ mode[node'[t]] = "Disabled"
          => Restoring(ad, node'[t])
    BY <1>1, <1>3 DEF Reached, DisabledUnused
  <2>2. \A u \in Threads \ {ad, t} :
          Reaching(u)' /\ pc'[u] \notin {"check", "visit"} /\ mode[node'[u]] = "Disabled"
            => Restoring(ad, node'[u])
    BY <1>1, <1>4, <1>5 DEF DisabledUnused
  <2>3. ASSUME NEW u \in Threads \ {ad}, Reaching(u)', pc'[u] \notin {"check", "visit"},
               mode'[node'[u]] = "Disabled"
        PROVE  Restoring(ad, node[u])'
    BY <1>3, <2>1, <2>2, <2>3, <1>6 DEF Restoring
  <2>4. QED
    BY <2>3 DEF DisabledUnused
<1>11. ModeAt(ad)' /\ ContainerMode(ad)'
  BY <1>3, <1>6 DEF TInv, ModeAt, ContainerMode
<1>12. MapModes(ad)'
  BY <1>3, <1>6 DEF TInv, MapModes, Processing
<1>13. AllTurnedOn(ad)'
  BY <1>3, <1>6 DEF TInv, AllTurnedOn
<1>14. QED
  BY <1>7, <1>8, <1>9, <1>10, <1>11, <1>12, <1>13 DEF TInv

-----------------------------------------------------------------------------
(* One thread changes the tree: its own steps                              *)

TreeSafe(ad) == OthersUse(ad) /\ MapLive(ad) /\ NoDangling /\ DisabledUnused(ad)

ModesFit(ad) == ModeAt(ad) /\ ContainerMode(ad) /\ MapModes(ad) /\ AllTurnedOn(ad)

LEMMA Parts == ASSUME NEW ad PROVE TInv(ad) <=> TreeSafe(ad) /\ ModesFit(ad)
BY DEF TInv, TreeSafe, ModesFit

\* A step that changes no mode and no child.
LEMMA StillSafe ==
  ASSUME HInv, HInv', NEW ad \in Threads, TreeSafe(ad), Start(ad) \/ Edit(ad) \/ Continue(ad),
         NodeAssumption, UNCHANGED <<inMap, alive, mode>>,
         Reaching(ad)' \/ pc'[ad] = "erase" => inMap[name'[ad]] = node'[ad],
         \A o \in Objs : Restoring(ad, o) => Restoring(ad, o)'
  PROVE  TreeSafe(ad)'
<1>1. \A u \in Threads \ {ad} : /\ pc'[u] = pc[u] /\ op'[u] = op[u] /\ name'[u] = name[u]
                                /\ node'[u] = node[u] /\ (Reaching(u)' <=> Reaching(u))
  BY OnlyOwn DEF HInv, Reaching
<1>2. OthersUse(ad)'
  BY <1>1 DEF TreeSafe, OthersUse
<1>3. MapLive(ad)'
  BY DEF TreeSafe, MapLive
<1>4. NoDangling'
  <2>1. ASSUME Reaching(ad)' PROVE alive'[node'[ad]] = "live"
    <3>1. node'[ad] \in Objs /\ name'[ad] \in Names
      BY <2>1 DEF HInv, CallShape
    <3>2. QED
      BY <2>1, <3>1 DEF TreeSafe, MapLive, NodeAssumption
  <2>2. QED
    BY <1>1, <2>1 DEF TreeSafe, NoDangling
<1>5. DisabledUnused(ad)'
  <2>1. ASSUME NEW u \in Threads \ {ad}, Reaching(u)', pc'[u] \notin {"check", "visit"},
               mode'[node'[u]] = "Disabled"
        PROVE  Restoring(ad, node[u])'
    <3>1. Restoring(ad, node[u])
      BY <1>1, <2>1 DEF TreeSafe, DisabledUnused
    <3>2. node[u] \in Objs
      BY <1>1, <2>1 DEF HInv, CallShape
    <3>3. QED
      BY <1>1, <3>1, <3>2 DEF Restoring
  <2>2. QED
    BY <1>1, <2>1 DEF DisabledUnused, Restoring
<1>6. QED
  BY <1>2, <1>3, <1>4, <1>5 DEF TreeSafe

\* A step that sets the mode of the node.
LEMMA SettingSafe ==
  ASSUME HInv, HInv', NEW ad \in Threads, TreeSafe(ad), Start(ad) \/ Edit(ad) \/ Continue(ad),
         NodeAssumption, UNCHANGED <<inMap, alive>>, Reaching(ad), pc'[ad] \in ReachPc,
         node'[ad] = node[ad], name'[ad] = name[ad],
         NEW m \in Mode, SetMode(ad, m),
         m = "Disabled" => \/ Restoring(ad, node[ad])'
                           \/ \A u \in Threads \ {ad} : Reaching(u) => node[u] # node[ad]
  PROVE  TreeSafe(ad)'
<1>1. \A u \in Threads \ {ad} : /\ pc'[u] = pc[u] /\ op'[u] = op[u] /\ name'[u] = name[u]
                                /\ node'[u] = node[u] /\ (Reaching(u)' <=> Reaching(u))
  BY OnlyOwn DEF HInv, Reaching
<1>2. OthersUse(ad)'
  BY <1>1 DEF TreeSafe, OthersUse
<1>3. node[ad] \in Objs /\ alive[node[ad]] = "live" /\ mode \in [Objs -> Mode]
  BY DEF HInv, CallShape, TypeOK, TreeSafe, NoDangling
<1>4. mode' = [mode EXCEPT ![node[ad]] = m]
  BY DEF SetMode
<1>5. MapLive(ad)'
  <2>1. \A o \in Objs : alive'[o] = "none" => mode'[o] = "Disabled"
    BY <1>3, <1>4 DEF TreeSafe, MapLive
  <2>2. QED
    BY <2>1 DEF TreeSafe, MapLive
<1>6. NoDangling'
  BY <1>1, <1>3 DEF TreeSafe, NoDangling
<1>7. DisabledUnused(ad)'
  <2>1. ASSUME NEW u \in Threads \ {ad}, Reaching(u), pc[u] \notin {"check", "visit"},
               mode'[node[u]] = "Disabled"
        PROVE  Restoring(ad, node[u])'
    <3>1. node[u] \in Objs
      BY <2>1 DEF HInv, CallShape
    <3>2. CASE node[u] = node[ad]
      <4>1. m = "Disabled"
        BY <1>3, <1>4, <2>1, <3>2
      <4>2. QED
        BY <1>1, <2>1, <3>2, <4>1 DEF Restoring
    <3>3. CASE node[u] # node[ad]
      <4>1. mode[node[u]] = "Disabled"
        BY <1>3, <1>4, <2>1, <3>1, <3>3
      <4>2. QED
        BY <2>1, <3>3, <4>1 DEF TreeSafe, DisabledUnused, Restoring
    <3>4. QED
      BY <3>2, <3>3
  <2>2. QED
    BY <1>1, <2>1 DEF DisabledUnused, Restoring
<1>8. QED
  BY <1>2, <1>5, <1>6, <1>7 DEF TreeSafe

\* A step that goes on with the same node and changes no mode.
LEMMA GoingOnKeeps ==
  ASSUME HInv, HInv', NEW ad \in Threads, TInv(ad), Start(ad) \/ Edit(ad) \/ Continue(ad),
         NodeAssumption, UNCHANGED <<cMode, inMap, alive, mode>>, Reaching(ad), Reaching(ad)',
         op'[ad] = op[ad], name'[ad] = name[ad], node'[ad] = node[ad],
         todo'[ad] = todo[ad] \/ op[ad] # "on",
         ModeAt(ad)', op[ad] = "on" => pc'[ad] # "free",
         Restoring(ad, node[ad]) => Restoring(ad, node[ad])',
         ~Processing(ad, node[ad])' =>
           \/ ~Processing(ad, node[ad]) \/ mode[node[ad]] = "Enabled"
           \/ mode[node[ad]] = "Disabled" /\ cMode # "Enabled"
  PROVE  TInv(ad)'
<1>1. TreeSafe(ad) /\ ModesFit(ad)
  BY Parts
<1>2. \A o \in Objs : Restoring(ad, o) => Restoring(ad, o)'
  BY DEF Restoring
<1>3. inMap[name'[ad]] = node'[ad]
  BY <1>1 DEF TreeSafe, MapLive
<1>4. TreeSafe(ad)'
  BY <1>1, <1>2, <1>3, StillSafe
<1>5. ContainerMode(ad)'
  BY <1>1 DEF ModesFit, ContainerMode, Reaching
<1>6. MapModes(ad)'
  <2>1. ASSUME NEW o, o # node[ad] PROVE ~Processing(ad, o) /\ ~Processing(ad, o)'
    BY <2>1 DEF Processing
  <2>2. ASSUME NEW n \in Names, inMap[n] # NoObj, ~Processing(ad, inMap[n])'
        PROVE  mode[inMap[n]] = "Enabled" \/ (mode[inMap[n]] = "Disabled" /\ cMode # "Enabled")
    BY <1>1, <2>1, <2>2 DEF ModesFit, MapModes
  <2>3. QED
    BY <2>2 DEF MapModes, Processing
<1>7. AllTurnedOn(ad)'
  BY <1>1 DEF ModesFit, AllTurnedOn
<1>8. QED
  BY <1>4, <1>5, <1>6, <1>7 DEF TInv, TreeSafe

\* The node, the call and the modes stay as they are.
SameCall(ad) ==
  /\ UNCHANGED <<cMode, inMap, alive, mode>>
  /\ op'[ad] = op[ad] /\ name'[ad] = name[ad] /\ node'[ad] = node[ad]
  /\ todo'[ad] = todo[ad] \/ op[ad] # "on"

\* A step that sets the mode of the node, and goes on processing it or is done.
LEMMA SettingKeeps ==
  ASSUME HInv, HInv', NEW ad \in Threads, TInv(ad), Start(ad) \/ Edit(ad) \/ Continue(ad),
         NodeAssumption, UNCHANGED <<cMode, inMap, alive>>, Reaching(ad), pc'[ad] \in ReachPc,
         node'[ad] = node[ad], name'[ad] = name[ad], todo'[ad] = todo[ad],
         op'[ad] = op[ad] \/ op'[ad] # "on",
         NEW m \in Mode, SetMode(ad, m),
         m = "Disabled" => \/ Restoring(ad, node[ad])'
                           \/ \A u \in Threads \ {ad} : Reaching(u) => node[u] # node[ad],
         Processing(ad, node[ad])' \/ m = "Enabled",
         mode'[node[ad]] = m => ModeAt(ad)', ContainerMode(ad)'
  PROVE  TInv(ad)'
<1>1. TreeSafe(ad) /\ ModesFit(ad)
  BY Parts
<1>2. TreeSafe(ad)'
  BY <1>1, SettingSafe
<1>3. node[ad] \in Objs /\ mode \in [Objs -> Mode] /\ inMap \in [Names -> Objs \cup {NoObj}]
  BY DEF HInv, CallShape, TypeOK
<1>4. mode'[node[ad]] = m /\ \A o \in Objs : o # node[ad] => mode'[o] = mode[o]
  BY <1>3 DEF SetMode
<1>5. ASSUME NEW n \in Names, inMap[n] # NoObj PROVE inMap[n] \in Objs
  BY <1>3, <1>5
<1>6. MapModes(ad)'
  <2>1. ASSUME NEW n \in Names, inMap[n] # NoObj, ~Processing(ad, inMap[n])'
        PROVE  mode'[inMap[n]] = "Enabled" \/ (mode'[inMap[n]] = "Disabled" /\ cMode # "Enabled")
    <3>1. CASE inMap[n] = node[ad]
      BY <1>4, <2>1, <3>1 DEF Processing
    <3>2. CASE inMap[n] # node[ad]
      BY <1>1, <1>4, <1>5, <2>1, <3>2 DEF ModesFit, MapModes, Processing
    <3>3. QED
      BY <3>1, <3>2
  <2>2. QED
    BY <2>1 DEF MapModes, Processing
<1>7. AllTurnedOn(ad)'
  <2>1. ASSUME op'[ad] = "on", NEW n \in Names, inMap[n] # NoObj
        PROVE  mode'[inMap[n]] = "Enabled" \/ n \in todo[ad] \/ node[ad] = inMap[n]
    BY <1>1, <1>4, <1>5, <2>1 DEF ModesFit, AllTurnedOn
  <2>2. Reaching(ad)'
    BY DEF Reaching, ReachPc
  <2>3. QED
    BY <2>1, <2>2 DEF AllTurnedOn
<1>8. QED
  BY <1>2, <1>4, <1>6, <1>7 DEF TInv, TreeSafe

LEMMA ProcessingKeeps ==
  ASSUME NodeAssumption, HInv, HInv', NEW ad \in Threads, TInv(ad),
         \/ AddMode(ad) \/ EnMode(ad) \/ DelMode(ad) \/ DisMode(ad) \/ DisDone(ad)
  PROVE  TInv(ad)'
<1>1. /\ TypeOK /\ CallShape /\ ModesFit(ad) /\ op[ad] \in OpsAt(pc[ad])
      /\ Start(ad) \/ Edit(ad) \/ Continue(ad)
  BY Parts DEF HInv, CallShape, Continue
<1>2. ModeAt(ad) /\ ContainerMode(ad)
  BY <1>1 DEF ModesFit
<1>3. CASE AddMode(ad)
  <2>1. /\ SameCall(ad) /\ pc[ad] = "addMode" /\ op[ad] \in {"add", "new"}
        /\ pc'[ad] = IF mode[node[ad]] = "Disabled" THEN "enMode" ELSE "free"
    BY <1>1, <1>3 DEF AddMode, TypeOK, Goto, SameCall, tree, objs, call, ModeIs, OpsAt, EnablePc,
       DisablePc, Walks
  <2>2. ModeAt(ad)'
    BY <1>2, <2>1 DEF ModeAt, SameCall
  <2>3. QED
    BY <1>1, <2>1, <2>2, GoingOnKeeps
       DEF SameCall, Reaching, Restoring, Processing, EnablePc, DisablePc
<1>4. CASE EnMode(ad)
  <2>1. SameCall(ad) /\ pc[ad] = "enMode" /\ pc'[ad] = "enSet" /\ mode[node[ad]] = "Disabled"
    BY <1>1, <1>2, <1>4 DEF EnMode, ModeAt, TypeOK, Goto, SameCall, tree, objs, call, ModeIs
  <2>2. ModeAt(ad)'
    BY <1>2, <2>1 DEF ModeAt, SameCall
  <2>3. QED
    BY <1>1, <2>1, <2>2, GoingOnKeeps
       DEF SameCall, Reaching, Restoring, Processing, EnablePc, DisablePc
<1>5. CASE DelMode(ad)
  <2>1. SameCall(ad) /\ pc[ad] = "delMode" /\ pc'[ad] = "disMode" /\ mode[node[ad]] = "Enabled"
    BY <1>1, <1>2, <1>5 DEF DelMode, ModeAt, TypeOK, Goto, SameCall, tree, objs, call, ModeIs
  <2>2. ModeAt(ad)'
    BY <1>2, <2>1 DEF ModeAt, SameCall
  <2>3. QED
    BY <1>1, <2>1, <2>2, GoingOnKeeps
       DEF SameCall, Reaching, Restoring, Processing, EnablePc, DisablePc
<1>6. CASE DisMode(ad)
  <2>1. pc[ad] = "disMode" /\ ModeIs(ad, "Enabled")
    BY <1>2, <1>6 DEF DisMode, ModeAt, ModeIs
  <2>2. CASE Goto(ad, "disSet") /\ UNCHANGED op
    <3>1. SameCall(ad) /\ pc'[ad] = "disSet"
      BY <1>1, <1>6, <2>2 DEF DisMode, Goto, TypeOK, SameCall, tree, objs
    <3>2. ModeAt(ad)'
      BY <1>2, <2>1, <3>1 DEF ModeAt, SameCall, ModeIs
    <3>3. QED
      BY <1>1, <2>1, <3>1, <3>2, GoingOnKeeps
         DEF SameCall, Reaching, Restoring, Processing, EnablePc, DisablePc
  <2>3. CASE Goto(ad, "free") /\ Undo(ad)
    <3>1. op[ad] \in {"del", "off"}
      BY <1>1, <2>1 DEF OpsAt, EnablePc, DisablePc, Walks
    <3>2. /\ UNCHANGED <<cMode, inMap, alive, mode, node, name, todo>> /\ pc'[ad] = "free"
          /\ op'[ad] = IF op[ad] = "off" THEN "unoff" ELSE "undel"
      BY <1>1, <1>6, <2>3 DEF DisMode, Goto, Undo, TypeOK, tree, objs
    <3>3. SetMode(ad, "Enabled")
      BY <1>1, <2>1, <3>2 DEF SetMode, ModeIs, TypeOK
    <3>4. ModeAt(ad)'
      BY <2>1, <3>1, <3>2 DEF ModeAt, ModeIs
    <3>5. ContainerMode(ad)'
      BY <1>2, <2>1, <3>1, <3>2 DEF ContainerMode
    <3>6. "Enabled" \in Mode /\ Reaching(ad) /\ pc'[ad] \in ReachPc
      BY <2>1, <3>2 DEF Mode, Reaching, ReachPc, Pc
    <3>7. QED
      BY <1>1, <3>1, <3>2, <3>3, <3>4, <3>5, <3>6, SettingKeeps
  <2>4. QED
    BY <1>6, <2>1, <2>2, <2>3 DEF DisMode, ModeIs
<1>7. CASE DisDone(ad)
  <2>1. /\ SameCall(ad) /\ pc[ad] = "disDone" /\ mode[node[ad]] = "Disabled"
        /\ op[ad] \in {"del", "off"}
        /\ pc'[ad] \in {"disFail", IF op[ad] = "off" THEN "back" ELSE "free"}
    BY <1>1, <1>2, <1>7 DEF DisDone, AfterDis, ModeAt, TypeOK, Goto, SameCall, objs, call, OpsAt, EnablePc,
       DisablePc, Walks
  <2>2. ModeAt(ad)'
    BY <1>2, <2>1 DEF ModeAt, SameCall
  <2>3. op[ad] = "off" => cMode # "Enabled"
    BY <1>2, <2>1 DEF ContainerMode
  <2>4. QED
    BY <1>1, <2>1, <2>2, <2>3, GoingOnKeeps
       DEF SameCall, Reaching, Restoring, Processing, EnablePc, DisablePc
<1>8. QED
  BY <1>3, <1>4, <1>5, <1>6, <1>7

LEMMA DataKeepsTree ==
  ASSUME NodeAssumption, HInv, HInv', NEW ad \in Threads, TInv(ad),
         \/ Edit(ad) \/ SaveChild(ad) \/ Saved(ad) \/ LoadChild(ad) \/ Loaded(ad)
         \/ LoadFails(ad) \/ IsModifyChild(ad)
  PROVE  TInv(ad)'
<1>1. /\ TypeOK /\ CallShape /\ ModesFit(ad) /\ op[ad] \in OpsAt(pc[ad])
      /\ Start(ad) \/ Edit(ad) \/ Continue(ad)
  BY Parts DEF HInv, CallShape, Continue
<1>2. ModeAt(ad) /\ ContainerMode(ad)
  BY <1>1 DEF ModesFit
<1>3. CASE Edit(ad)
  <2>1. SameCall(ad) /\ pc[ad] = "hold" /\ pc'[ad] = "hold"
    BY <1>3 DEF Edit, SameCall, objs, call
  <2>2. ModeAt(ad)'
    BY <1>2, <2>1 DEF ModeAt, SameCall
  <2>3. QED
    BY <1>1, <2>1, <2>2, GoingOnKeeps
       DEF SameCall, Reaching, Restoring, Processing, EnablePc, DisablePc
<1>4. CASE SaveChild(ad)
  <2>1. SameCall(ad) /\ pc[ad] = "child" /\ op[ad] = "save" /\ pc'[ad] \in {"saved", "back"}
    BY <1>1, <1>4 DEF SaveChild, TypeOK, Goto, SameCall, objs, call
  <2>2. ModeAt(ad)'
    BY <1>2, <2>1 DEF ModeAt, SameCall
  <2>3. QED
    BY <1>1, <2>1, <2>2, GoingOnKeeps
       DEF SameCall, Reaching, Restoring, Processing, EnablePc, DisablePc
<1>5. CASE Saved(ad)
  <2>1. SameCall(ad) /\ pc[ad] = "saved" /\ op[ad] = "save" /\ pc'[ad] = "back"
    BY <1>1, <1>5 DEF Saved, TypeOK, Goto, SameCall, objs, call, OpsAt, EnablePc, DisablePc, Walks
  <2>2. ModeAt(ad)'
    BY <1>2, <2>1 DEF ModeAt, SameCall
  <2>3. QED
    BY <1>1, <2>1, <2>2, GoingOnKeeps
       DEF SameCall, Reaching, Restoring, Processing, EnablePc, DisablePc
<1>6. CASE LoadChild(ad)
  <2>1. /\ SameCall(ad) /\ pc[ad] = "child" /\ op[ad] = "load"
        /\ pc'[ad] \in {"back", "loaded"} \/ (pc'[ad] = "enMode" /\ mode[node[ad]] = "Disabled")
    BY <1>1, <1>6 DEF LoadChild, TypeOK, Goto, SameCall, tree, objs, call, ModeIs
  <2>2. ModeAt(ad)'
    BY <1>2, <2>1 DEF ModeAt, SameCall
  <2>3. QED
    BY <1>1, <2>1, <2>2, GoingOnKeeps
       DEF SameCall, Reaching, Restoring, Processing, EnablePc, DisablePc
<1>7. CASE Loaded(ad)
  <2>1. SameCall(ad) /\ pc[ad] = "loaded" /\ op[ad] = "load" /\ pc'[ad] \in {"back", "failed"}
    BY <1>1, <1>7 DEF Loaded, TypeOK, Goto, SameCall, objs, call, OpsAt, EnablePc, DisablePc, Walks
  <2>2. ModeAt(ad)'
    BY <1>2, <2>1 DEF ModeAt, SameCall
  <2>3. QED
    BY <1>1, <2>1, <2>2, GoingOnKeeps
       DEF SameCall, Reaching, Restoring, Processing, EnablePc, DisablePc
<1>8. CASE IsModifyChild(ad)
  <2>1. SameCall(ad) /\ pc[ad] = "child" /\ op[ad] = "isModify" /\ pc'[ad] = "back"
    BY <1>1, <1>8 DEF IsModifyChild, TypeOK, Goto, SameCall, tree, objs
  <2>2. ModeAt(ad)'
    BY <1>2, <2>1 DEF ModeAt, SameCall
  <2>3. QED
    BY <1>1, <2>1, <2>2, GoingOnKeeps
       DEF SameCall, Reaching, Restoring, Processing, EnablePc, DisablePc
<1>9. CASE LoadFails(ad)
  <2>1. SameCall(ad) /\ pc[ad] = "failed" /\ op[ad] = "load" /\ pc'[ad] = "back"
    BY <1>1, <1>9 DEF LoadFails, TypeOK, Goto, SameCall, objs, call, OpsAt, EnablePc, DisablePc, Walks
  <2>2. ModeAt(ad)'
    BY <1>2, <2>1 DEF ModeAt, SameCall
  <2>3. QED
    BY <1>1, <2>1, <2>2, GoingOnKeeps
       DEF SameCall, Reaching, Restoring, Processing, EnablePc, DisablePc
<1>10. QED
  BY <1>3, <1>4, <1>5, <1>6, <1>7, <1>8, <1>9

\* mUse = 1: the administrator is the only one with a handle on the node.
LEMMA OneUser ==
  ASSUME NodeAssumption, HInv, NEW ad \in Threads, TInv(ad), pc[ad] = "disWait",
         ~InUse(node[ad])
  PROVE  \A u \in Threads \ {ad} : Reaching(u) => node[u] # node[ad]
<1> DEFINE o == node[ad]
<1>1. Reaching(ad) /\ o \in Objs /\ op[ad] \in {"del", "off"}
  BY DEF HInv, CallShape, OpsAt, EnablePc, DisablePc, Walks, Reaching
<1>2. ad \in users[o] /\ users[o] \subseteq Threads
  BY <1>1 DEF HInv, HandlesCounted, TypeOK
<1>3. SUFFICES ASSUME NEW u \in Threads \ {ad}, Reaching(u), node[u] = o
               PROVE  FALSE
  OBVIOUS
<1>4. op[u] # "new"
  BY DEF TInv, OthersUse, UseOps
<1>5. u \in users[o]
  BY <1>1, <1>3, <1>4 DEF HInv, HandlesCounted
<1>6. {ad, u} \subseteq users[o] /\ IsFiniteSet(users[o])
  BY <1>2, <1>5, FS_Subset DEF NodeAssumption
<1>7. Cardinality({ad, u}) = 2
  <2>1. IsFiniteSet({ad}) /\ Cardinality({ad}) = 1
    BY FS_Singleton
  <2>2. Cardinality({ad} \cup {u}) = 2
    <3>1. Cardinality({ad} \cup {u}) = IF u \in {ad} THEN Cardinality({ad}) ELSE Cardinality({ad}) + 1
      BY <2>1, FS_AddElement, Zenon
    <3>2. u \notin {ad}
      OBVIOUS
    <3>3. QED
      BY <2>1, <3>1, <3>2
  <2>3. {ad, u} = {ad} \cup {u}
    OBVIOUS
  <2>4. QED
    BY <2>2, <2>3
<1>8. Cardinality(users[o]) \in Nat /\ Cardinality({ad, u}) <= Cardinality(users[o])
  BY <1>6, FS_Subset, FS_CardinalityType
<1>9. QED
  BY <1>7, <1>8 DEF InUse

LEMMA ModesKeepTree ==
  ASSUME NodeAssumption, HInv, HInv', NEW ad \in Threads, TInv(ad),
         \/ EnSet(ad) \/ EnDone(ad) \/ DisSet(ad) \/ DisWait(ad) \/ DisFail(ad)
  PROVE  TInv(ad)'
<1>1. /\ TypeOK /\ CallShape /\ ModesFit(ad) /\ op[ad] \in OpsAt(pc[ad])
      /\ Start(ad) \/ Edit(ad) \/ Continue(ad)
  BY Parts DEF HInv, CallShape, Continue
<1>2. ModeAt(ad) /\ ContainerMode(ad)
  BY <1>1 DEF ModesFit
<1> DEFINE same == /\ UNCHANGED <<cMode, inMap, alive>>
                   /\ node'[ad] = node[ad] /\ name'[ad] = name[ad] /\ todo'[ad] = todo[ad]
<1>3. CASE EnSet(ad)
  <2>1. /\ same /\ pc[ad] = "enSet" /\ op'[ad] = op[ad] /\ pc'[ad] = "enDone"
        /\ SetMode(ad, "DoEnable")
    BY <1>1, <1>3 DEF EnSet, TypeOK, Goto, objs, call
  <2>2. mode'[node[ad]] = "DoEnable" => ModeAt(ad)'
    BY <2>1 DEF ModeAt
  <2>3. ContainerMode(ad)'
    BY <1>2, <2>1 DEF ContainerMode
  <2>4. "DoEnable" \in Mode /\ Reaching(ad) /\ pc'[ad] \in ReachPc /\ Processing(ad, node[ad])'
    BY <2>1 DEF Mode, Reaching, ReachPc, Pc, Processing, EnablePc, DisablePc
  <2>5. QED
    BY <1>1, <2>1, <2>2, <2>3, <2>4, SettingKeeps
<1>4. CASE EnDone(ad)
  <2>1. /\ same /\ pc[ad] = "enDone" /\ op'[ad] = op[ad] /\ pc'[ad] = AfterEn(ad)
        /\ SetMode(ad, "Enabled") /\ op[ad] \in {"add", "new", "undel", "unoff", "load", "on"}
    BY <1>1, <1>4 DEF EnDone, TypeOK, Goto, objs, call, OpsAt, EnablePc, DisablePc, Walks
  <2>2. pc'[ad] = CASE op[ad] = "load" -> "loaded" [] op[ad] = "on" -> "back" [] OTHER -> "free"
    BY <2>1 DEF AfterEn
  <2>3. mode'[node[ad]] = "Enabled" => ModeAt(ad)'
    BY <2>1, <2>2 DEF ModeAt
  <2>4. ContainerMode(ad)'
    BY <1>2, <2>1, <2>2 DEF ContainerMode
  <2>5. "Enabled" \in Mode /\ Reaching(ad) /\ pc'[ad] \in ReachPc
    BY <2>1, <2>2 DEF Mode, Reaching, ReachPc, Pc
  <2>6. QED
    BY <1>1, <2>1, <2>3, <2>4, <2>5, SettingKeeps
<1>5. CASE DisSet(ad)
  <2>1. /\ same /\ pc[ad] = "disSet" /\ op'[ad] = op[ad] /\ pc'[ad] = "disWait"
        /\ SetMode(ad, "DoDisable")
    BY <1>1, <1>5 DEF DisSet, TypeOK, Goto, objs, call
  <2>2. mode'[node[ad]] = "DoDisable" => ModeAt(ad)'
    BY <2>1 DEF ModeAt
  <2>3. ContainerMode(ad)'
    BY <1>2, <2>1 DEF ContainerMode
  <2>4. "DoDisable" \in Mode /\ Reaching(ad) /\ pc'[ad] \in ReachPc /\ Processing(ad, node[ad])'
    BY <2>1 DEF Mode, Reaching, ReachPc, Pc, Processing, EnablePc, DisablePc
  <2>5. QED
    BY <1>1, <2>1, <2>2, <2>3, <2>4, SettingKeeps
<1>6. CASE DisWait(ad)
  <2>1. pc[ad] = "disWait" /\ Reaching(ad)
    BY <1>6 DEF DisWait, Reaching
  <2>2. CASE InUse(node[ad])
    <3>1. SameCall(ad) /\ pc'[ad] = "disFail"
      BY <1>1, <1>6, <2>2 DEF DisWait, TypeOK, Goto, SameCall, objs, call
    <3>2. ModeAt(ad)'
      BY <1>2, <2>1, <3>1 DEF ModeAt, SameCall
    <3>3. QED
      BY <1>1, <2>1, <3>1, <3>2, GoingOnKeeps
         DEF SameCall, Reaching, Restoring, Processing, EnablePc, DisablePc
  <2>3. CASE ~InUse(node[ad])
    <3>1. same /\ op'[ad] = op[ad] /\ pc'[ad] = "disDone" /\ SetMode(ad, "Disabled")
      BY <1>1, <1>6, <2>3 DEF DisWait, TypeOK, Goto, objs, call
    <3>2. mode'[node[ad]] = "Disabled" => ModeAt(ad)'
      BY <3>1 DEF ModeAt
    <3>3. ContainerMode(ad)'
      BY <1>2, <2>1, <3>1 DEF ContainerMode
    <3>4. "Disabled" \in Mode /\ pc'[ad] \in ReachPc /\ Processing(ad, node[ad])'
      BY <3>1 DEF Mode, ReachPc, Pc, Processing, EnablePc, DisablePc
    <3>5. \A u \in Threads \ {ad} : Reaching(u) => node[u] # node[ad]
      BY <2>1, <2>3, OneUser
    <3>6. QED
      BY <1>1, <2>1, <3>1, <3>2, <3>3, <3>4, <3>5, SettingKeeps
  <2>4. QED
    BY <2>2, <2>3
<1>7. CASE DisFail(ad)
  <2>1. op[ad] \in {"del", "off"} /\ pc[ad] = "disFail"
    BY <1>1, <1>7 DEF DisFail, OpsAt, EnablePc, DisablePc, Walks
  <2>2. /\ same /\ pc'[ad] = "enMode" /\ SetMode(ad, "Disabled")
        /\ op'[ad] = IF op[ad] = "off" THEN "unoff" ELSE "undel"
    BY <1>1, <1>7 DEF DisFail, Undo, TypeOK, Goto, objs
  <2>3. mode'[node[ad]] = "Disabled" => ModeAt(ad)'
    BY <2>2 DEF ModeAt
  <2>4. ContainerMode(ad)'
    BY <1>2, <2>1, <2>2 DEF ContainerMode
  <2>5. /\ "Disabled" \in Mode /\ Reaching(ad) /\ pc'[ad] \in ReachPc
        /\ Processing(ad, node[ad])' /\ Restoring(ad, node[ad])'
    BY <2>1, <2>2 DEF Mode, Reaching, ReachPc, Pc, Processing, Restoring, EnablePc, DisablePc
  <2>6. QED
    BY <1>1, <2>1, <2>2, <2>3, <2>4, <2>5, SettingKeeps
<1>8. QED
  BY <1>3, <1>4, <1>5, <1>6, <1>7

\* A child that is not being processed is enabled, or in a container that is not.
LEMMA NodeMode ==
  ASSUME NodeAssumption, HInv, NEW ad \in Threads, TInv(ad), Reaching(ad),
         ~Processing(ad, node[ad])
  PROVE  mode[node[ad]] = "Enabled" \/ (mode[node[ad]] = "Disabled" /\ cMode # "Enabled")
<1>1. node[ad] \in Objs /\ name[ad] \in Names
  BY DEF HInv, CallShape
<1>2. inMap[name[ad]] = node[ad]
  BY DEF TInv, MapLive
<1>3. QED
  BY <1>1, <1>2 DEF TInv, MapModes, NodeAssumption

\* A step after which the administrator has no child.
LEMMA ReleasedKeeps ==
  ASSUME HInv, HInv', NEW ad \in Threads, TInv(ad), Start(ad) \/ Edit(ad) \/ Continue(ad),
         NodeAssumption, UNCHANGED <<inMap, alive, mode>>,
         pc'[ad] \in {"idle", "list", "offEnd", "restore"}, pc[ad] \notin {"enMode", "enSet"},
         Processing(ad, node[ad]) => mode[node[ad]] = "Enabled",
         \/ cMode' = cMode \/ cMode' # "Enabled"
         \/ \A n \in Names : inMap[n] # NoObj => mode[inMap[n]] = "Enabled",
         ContainerMode(ad)', AllTurnedOn(ad)'
  PROVE  TInv(ad)'
<1>1. TreeSafe(ad) /\ ModesFit(ad)
  BY Parts
<1>2. ~Reaching(ad)' /\ pc'[ad] # "erase"
  BY DEF Reaching
<1>3. \A o \in Objs : Restoring(ad, o) => Restoring(ad, o)'
  BY DEF Restoring
<1>4. TreeSafe(ad)'
  BY <1>1, <1>2, <1>3, StillSafe
<1>5. ModeAt(ad)'
  BY DEF ModeAt
<1>6. MapModes(ad)'
  <2>1. ASSUME NEW n \in Names, inMap[n] # NoObj
        PROVE  mode[inMap[n]] = "Enabled" \/ (mode[inMap[n]] = "Disabled" /\ cMode' # "Enabled")
    <3>1. CASE Processing(ad, inMap[n])
      BY <3>1 DEF Processing
    <3>2. CASE ~Processing(ad, inMap[n])
      BY <1>1, <2>1, <3>2 DEF ModesFit, MapModes
    <3>3. QED
      BY <3>1, <3>2
  <2>2. QED
    BY <2>1 DEF MapModes
<1>7. QED
  BY <1>4, <1>5, <1>6 DEF TInv, TreeSafe

\* A step that takes a child from the map.
LEMMA TakenKeeps ==
  ASSUME HInv, HInv', NEW ad \in Threads, TInv(ad), Start(ad) \/ Edit(ad) \/ Continue(ad),
         NodeAssumption, UNCHANGED <<cMode, inMap, alive, mode>>,
         pc[ad] \in {"idle", "list"}, pc'[ad] \in {"check", "addMode", "visit"},
         NEW n \in Names, inMap[n] # NoObj, name'[ad] = n, node'[ad] = inMap[n],
         pc'[ad] = "addMode" => cMode = "Enabled",
         ContainerMode(ad)', AllTurnedOn(ad)'
  PROVE  TInv(ad)'
<1>1. TreeSafe(ad) /\ ModesFit(ad)
  BY Parts
<1>2. \A o \in Objs : Restoring(ad, o) => Restoring(ad, o)'
  BY DEF Restoring
<1>3. TreeSafe(ad)'
  BY <1>1, <1>2, StillSafe
<1>4. \A o : ~Processing(ad, o)
  BY DEF Processing, EnablePc, DisablePc
<1>5. ModeAt(ad)'
  BY <1>1, <1>4 DEF ModeAt, ModesFit, MapModes
<1>6. MapModes(ad)'
  BY <1>1, <1>4 DEF ModesFit, MapModes
<1>7. QED
  BY <1>3, <1>5, <1>6 DEF TInv, TreeSafe

LEMMA StartKeepsTree ==
  ASSUME NodeAssumption, HInv, HInv', NEW ad \in Threads, TInv(ad), Start(ad)
  PROVE  TInv(ad)'
<1>1. TypeOK /\ CallShape /\ ModesFit(ad) /\ op[ad] \in OpsAt(pc[ad])
  BY Parts DEF HInv, CallShape
<1>2. pc[ad] = "idle" /\ op[ad] = "none"
  <2>1. pc[ad] = "idle"
    BY DEF Start, AtFind, AddFound, AddNew, WalkBegin, Calling
  <2>2. QED
    BY <1>1, <2>1 DEF OpsAt, EnablePc, DisablePc, Walks
<1>3. cMode \in {"Enabled", "Disabled"}
  BY <1>1, <1>2 DEF ModesFit, ContainerMode
<1>4. ASSUME NEW k \in {"use", "edit", "del"}, NEW n \in Names, AtFind(ad, k, n)
      PROVE  TInv(ad)'
  <2>1. /\ UNCHANGED <<cMode, inMap, alive, mode>> /\ pc'[ad] = "check" /\ op'[ad] = k
        /\ name'[ad] = n /\ node'[ad] = inMap[n] /\ inMap[n] # NoObj /\ cMode # "Disabled"
    BY <1>1, <1>4 DEF AtFind, TypeOK, Goto, tree, objs
  <2>2. ContainerMode(ad)' /\ AllTurnedOn(ad)'
    BY <1>3, <2>1 DEF ContainerMode, AllTurnedOn
  <2>3. QED
    BY <1>2, <2>1, <2>2, TakenKeeps
<1>5. ASSUME NEW n \in Names, AddFound(ad, n)
      PROVE  TInv(ad)'
  <2>1. /\ UNCHANGED <<cMode, inMap, alive, mode>> /\ pc'[ad] = "addMode" /\ op'[ad] = "add"
        /\ name'[ad] = n /\ node'[ad] = inMap[n] /\ inMap[n] # NoObj /\ cMode = "Enabled"
    BY <1>1, <1>5 DEF AddFound, TypeOK, Goto, tree, objs
  <2>2. ContainerMode(ad)' /\ AllTurnedOn(ad)'
    BY <2>1 DEF ContainerMode, AllTurnedOn
  <2>3. QED
    BY <1>2, <2>1, <2>2, TakenKeeps
<1>6. ASSUME NEW n \in Names, NEW o \in Objs, AddNew(ad, n, o)
      PROVE  TInv(ad)'
  <2>1. /\ UNCHANGED <<cMode, mode>> /\ pc'[ad] = "addMode" /\ op'[ad] = "new"
        /\ name'[ad] = n /\ node'[ad] = o /\ cMode = "Enabled"
        /\ inMap[n] = NoObj /\ alive[o] = "none"
        /\ alive' = [alive EXCEPT ![o] = "live"] /\ inMap' = [inMap EXCEPT ![n] = o]
    BY <1>1, <1>6 DEF AddNew, TypeOK, Goto
  <2>2. OthersUse(ad) /\ MapLive(ad) /\ NoDangling /\ DisabledUnused(ad)
    BY DEF TInv
  <2>3. \A u \in Threads \ {ad} : /\ pc'[u] = pc[u] /\ op'[u] = op[u] /\ name'[u] = name[u]
                                  /\ node'[u] = node[u] /\ (Reaching(u)' <=> Reaching(u))
    BY <1>1, OnlyOwn DEF Reaching
  <2>4. /\ alive'[o] = "live" /\ inMap'[n] = o
        /\ \A p \in Objs : alive[p] = "live" => alive'[p] = "live"
        /\ \A p \in Objs : alive'[p] = "none" => alive[p] = "none"
        /\ \A m \in Names : m # n => inMap'[m] = inMap[m]
        /\ \A m \in Names : inMap[m] \in Objs \cup {NoObj}
    BY <1>1, <2>1 DEF TypeOK
  <2>5. OthersUse(ad)'
    BY <2>2, <2>3 DEF OthersUse
  <2>6. MapLive(ad)'
    <3>1. \A m \in Names : inMap[m] # o
      BY <2>1, <2>2 DEF MapLive, NodeAssumption
    <3>2. \A m \in Names : inMap'[m] # NoObj => alive'[inMap'[m]] = "live"
      BY <2>2, <2>4 DEF MapLive
    <3>3. \A m, p \in Names : inMap'[m] # NoObj /\ inMap'[m] = inMap'[p] => m = p
      BY <2>2, <2>4, <3>1 DEF MapLive
    <3>4. QED
      BY <2>1, <2>2, <2>4, <3>2, <3>3 DEF MapLive
  <2>7. NoDangling'
    <3>1. \A u \in Threads \ {ad} : Reaching(u) => node[u] \in Objs /\ alive[node[u]] = "live"
      BY <1>1, <2>2 DEF CallShape, NoDangling
    <3>2. QED
      BY <2>1, <2>3, <2>4, <3>1 DEF NoDangling
  <2>8. DisabledUnused(ad)'
    BY <1>2, <2>1, <2>2, <2>3 DEF DisabledUnused, Restoring
  <2>9. mode[o] = "Disabled"
    BY <2>1, <2>2 DEF MapLive
  <2>10. ModeAt(ad)' /\ ContainerMode(ad)' /\ AllTurnedOn(ad)'
    BY <2>1, <2>9 DEF ModeAt, ContainerMode, AllTurnedOn
  <2>11. MapModes(ad)'
    <3>1. \A p : ~Processing(ad, p)
      BY <1>2 DEF Processing, EnablePc, DisablePc
    <3>2. Processing(ad, o)'
      BY <2>1 DEF Processing
    <3>3. QED
      BY <1>1, <2>1, <2>4, <3>1, <3>2 DEF ModesFit, MapModes, Processing
  <2>12. QED
    BY <2>5, <2>6, <2>7, <2>8, <2>10, <2>11 DEF TInv
<1>7. ASSUME NEW k \in Walks, WalkBegin(ad, k)
      PROVE  TInv(ad)'
  <2>1. /\ UNCHANGED <<inMap, alive, mode>> /\ pc'[ad] = "list" /\ op'[ad] = k
        /\ cMode' = IF k = "off" THEN "DoDisable" ELSE cMode
    BY <1>1, <1>7 DEF WalkBegin, TypeOK, Goto, objs
  <2>2. k \in {"load", "save"} => cMode # "Disabled"
    BY <1>7 DEF WalkBegin, Listed
  <2>3. ContainerMode(ad)' /\ AllTurnedOn(ad)'
    BY <1>3, <2>1, <2>2 DEF ContainerMode, AllTurnedOn, Walks
  <2>4. ~Processing(ad, node[ad])
    BY <1>2 DEF Processing, EnablePc, DisablePc
  <2>5. QED
    BY <1>2, <2>1, <2>3, <2>4, ReleasedKeeps
<1>8. QED
  BY <1>4, <1>5, <1>6, <1>7 DEF Start

LEMMA EndKeepsTree ==
  ASSUME NodeAssumption, HInv, HInv', NEW ad \in Threads, TInv(ad),
         AtCheck(ad) \/ Drop(ad) \/ Free(ad)
  PROVE  TInv(ad)'
<1>1. /\ TypeOK /\ CallShape /\ ModesFit(ad) /\ op[ad] \in OpsAt(pc[ad])
      /\ Start(ad) \/ Edit(ad) \/ Continue(ad)
  BY Parts DEF HInv, CallShape, Continue
<1>2. ModeAt(ad) /\ ContainerMode(ad)
  BY <1>1 DEF ModesFit
<1>3. CASE AtCheck(ad)
  <2>1. /\ UNCHANGED <<cMode, inMap, alive, mode>> /\ pc[ad] = "check" /\ Reaching(ad)
        /\ op[ad] \in {"use", "edit", "del"} /\ ~Processing(ad, node[ad])
    BY <1>1, <1>3 DEF AtCheck, tree, objs, Reaching, OpsAt, EnablePc, DisablePc, Walks, Processing
  <2>2. CASE mode[node[ad]] = "Disabled"
    <3>1. pc'[ad] = "idle" /\ op'[ad] = "none"
      BY <1>1, <1>3, <2>2 DEF AtCheck, ModeIs, Return, Goto, TypeOK
    <3>2. ContainerMode(ad)' /\ AllTurnedOn(ad)'
      BY <1>2, <2>1, <3>1 DEF ContainerMode, AllTurnedOn
    <3>3. QED
      BY <1>1, <2>1, <3>1, <3>2, ReleasedKeeps
  <2>3. CASE mode[node[ad]] # "Disabled"
    <3>1. SameCall(ad) /\ pc'[ad] = IF op[ad] = "del" THEN "delMode" ELSE "hold"
      BY <1>1, <1>3, <2>1, <2>3 DEF AtCheck, ModeIs, Goto, TypeOK, call, SameCall
    <3>2. mode[node[ad]] = "Enabled"
      BY <2>1, <2>3, NodeMode
    <3>3. ModeAt(ad)'
      BY <2>1, <3>1, <3>2 DEF ModeAt, SameCall
    <3>4. QED
      BY <1>1, <2>1, <3>1, <3>2, <3>3, GoingOnKeeps
         DEF SameCall, Reaching, Restoring
  <2>4. QED
    BY <2>2, <2>3
<1>4. CASE Drop(ad)
  <2>1. /\ UNCHANGED <<cMode, inMap, alive, mode>> /\ pc[ad] = "hold"
        /\ op[ad] \in {"use", "edit"} /\ ~Processing(ad, node[ad])
        /\ pc'[ad] = "idle" /\ op'[ad] = "none"
    BY <1>1, <1>4 DEF Drop, tree, objs, OpsAt, EnablePc, DisablePc, Walks, Processing,
       Return, Goto, TypeOK
  <2>2. ContainerMode(ad)' /\ AllTurnedOn(ad)'
    BY <1>2, <2>1 DEF ContainerMode, AllTurnedOn
  <2>3. QED
    BY <1>1, <2>1, <2>2, ReleasedKeeps
<1>5. CASE Free(ad)
  <2>1. /\ UNCHANGED <<inMap, alive, mode>> /\ pc[ad] = "free"
        /\ op[ad] \in {"add", "new", "del", "undel", "unoff"}
        /\ cMode' = IF op[ad] = "unoff" THEN "Disabled" ELSE cMode
    BY <1>1, <1>2, <1>5 DEF Free, objs, OpsAt, EnablePc, DisablePc, Walks, ContainerMode
  <2>2. CASE op[ad] = "del"
    <3>1. SameCall(ad) /\ pc'[ad] = "erase"
      BY <1>1, <1>5, <2>1, <2>2 DEF Free, Goto, TypeOK, call, SameCall
    <3>2. Reaching(ad) /\ inMap[name[ad]] = node[ad] /\ TreeSafe(ad)
      BY <2>1, Parts DEF Reaching, TreeSafe, MapLive
    <3>3. \A o \in Objs : Restoring(ad, o) => Restoring(ad, o)'
      BY <2>1 DEF Restoring
    <3>4. TreeSafe(ad)'
      BY <1>1, <2>1, <3>1, <3>2, <3>3, StillSafe DEF SameCall
    <3>5. ModeAt(ad)' /\ ContainerMode(ad)' /\ AllTurnedOn(ad)'
      BY <1>2, <2>1, <2>2, <3>1 DEF ModeAt, ContainerMode, AllTurnedOn, SameCall
    <3>6. MapModes(ad)'
      BY <1>1, <2>1, <3>1 DEF ModesFit, MapModes, Processing, SameCall
    <3>7. QED
      BY <3>4, <3>5, <3>6 DEF TInv, TreeSafe
  <2>3. CASE op[ad] = "unoff"
    <3>1. pc'[ad] = "restore" /\ op'[ad] = op[ad] /\ cMode' = "Disabled"
      BY <1>1, <1>5, <2>1, <2>3 DEF Free, Goto, TypeOK, call
    <3>2. ContainerMode(ad)' /\ AllTurnedOn(ad)' /\ mode[node[ad]] = "Enabled"
      BY <1>2, <2>1, <2>3, <3>1 DEF ContainerMode, AllTurnedOn, ModeAt
    <3>3. QED
      BY <1>1, <2>1, <3>1, <3>2, ReleasedKeeps
  <2>4. CASE op[ad] \in {"add", "new", "undel"}
    <3>1. pc'[ad] = "idle" /\ op'[ad] = "none" /\ cMode' = cMode
      BY <1>1, <1>5, <2>1, <2>4 DEF Free, Return, Goto, TypeOK
    <3>2. ContainerMode(ad)' /\ AllTurnedOn(ad)' /\ mode[node[ad]] = "Enabled"
      BY <1>2, <2>1, <2>4, <3>1 DEF ContainerMode, AllTurnedOn, ModeAt
    <3>3. QED
      BY <1>1, <2>1, <3>1, <3>2, ReleasedKeeps
  <2>5. QED
    BY <2>1, <2>2, <2>3, <2>4
<1>6. QED
  BY <1>3, <1>4, <1>5

\* chldDel deletes the node: under mChM, and disabled, so nobody reaches it.
LEMMA EraseKeepsTree ==
  ASSUME NodeAssumption, HInv, HInv', NEW ad \in Threads, TInv(ad), Erase(ad)
  PROVE  TInv(ad)'
<1> DEFINE n == name[ad]
           o == inMap[name[ad]]
<1>1. /\ TypeOK /\ CallShape /\ LockHeld /\ ModesFit(ad) /\ op[ad] \in OpsAt(pc[ad])
      /\ Start(ad) \/ Edit(ad) \/ Continue(ad)
  BY Parts DEF HInv, CallShape, Continue
<1>2. OthersUse(ad) /\ MapLive(ad) /\ NoDangling /\ DisabledUnused(ad)
  BY DEF TInv
<1>3. /\ pc[ad] = "erase" /\ op[ad] = "del" /\ chM = NoThread /\ n \in Names
      /\ ~Reaching(ad) /\ o = node[ad] /\ mode[o] = "Disabled"
  BY <1>1, <1>2 DEF Erase, CallShape, OpsAt, EnablePc, DisablePc, Walks, MapLive, Reaching,
     ModesFit, ModeAt
<1>4. pc'[ad] = "idle" /\ op'[ad] = "none" /\ UNCHANGED cMode
  BY <1>1 DEF Erase, Return, Goto, TypeOK
<1>5. \A u \in Threads \ {ad} : /\ pc'[u] = pc[u] /\ op'[u] = op[u] /\ name'[u] = name[u]
                                /\ node'[u] = node[u] /\ (Reaching(u)' <=> Reaching(u))
  BY <1>1, OnlyOwn DEF Reaching
<1>6. ASSUME NEW u \in Threads, Reaching(u)
      PROVE  u # ad /\ node[u] \in Objs /\ node[u] # o
  <2>1. u # ad /\ node[u] \in Objs
    BY <1>1, <1>3, <1>6 DEF CallShape
  <2>2. pc[u] \notin {"check", "visit"}
    BY <1>1, <1>3 DEF LockHeld, LockedPc, NodeAssumption
  <2>3. ~Restoring(ad, node[u])
    BY <1>3 DEF Restoring
  <2>4. QED
    BY <1>2, <1>3, <1>6, <2>1, <2>2, <2>3 DEF DisabledUnused
<1>7. /\ UNCHANGED mode
      /\ \A p \in Objs : p # o => alive'[p] = alive[p]
      /\ \A p \in Objs : alive'[p] = "none" => alive[p] = "none"
      /\ \A m \in Names : m # n => inMap'[m] = inMap[m]
      /\ inMap'[n] = NoObj
  <2>1. CASE o = NoObj
    BY <1>1, <2>1 DEF Erase
  <2>2. CASE o # NoObj
    <3>1. o \in Objs
      BY <1>1, <1>3, <2>2 DEF TypeOK
    <3>2. /\ alive' = [alive EXCEPT ![o] = "dead"] /\ mode' = [mode EXCEPT ![o] = "Disabled"]
          /\ inMap' = [inMap EXCEPT ![n] = NoObj]
      BY <2>2 DEF Erase
    <3>3. mode' = mode
      BY <1>1, <1>3, <3>1, <3>2 DEF TypeOK
    <3>4. QED
      BY <1>1, <1>3, <3>1, <3>2, <3>3 DEF TypeOK
  <2>3. QED
    BY <2>1, <2>2
<1>8. \A m \in Names : inMap'[m] # NoObj =>
        m # n /\ inMap'[m] = inMap[m] /\ inMap[m] \in Objs /\ inMap[m] # o
  BY <1>1, <1>2, <1>3, <1>7 DEF MapLive, TypeOK
<1>9. OthersUse(ad)'
  BY <1>2, <1>5 DEF OthersUse
<1>10. MapLive(ad)'
  <2>1. \A m \in Names : inMap'[m] # NoObj => alive'[inMap'[m]] = "live"
    BY <1>2, <1>7, <1>8 DEF MapLive
  <2>2. \A m, p \in Names : inMap'[m] # NoObj /\ inMap'[m] = inMap'[p] => m = p
    BY <1>2, <1>8 DEF MapLive
  <2>3. QED
    BY <1>2, <1>4, <1>7, <2>1, <2>2 DEF MapLive, Reaching
<1>11. NoDangling'
  BY <1>2, <1>4, <1>5, <1>6, <1>7 DEF NoDangling, Reaching
<1>12. DisabledUnused(ad)'
  BY <1>2, <1>3, <1>5, <1>7 DEF DisabledUnused, Restoring
<1>13. ContainerMode(ad)' /\ ModeAt(ad)' /\ AllTurnedOn(ad)'
  BY <1>1, <1>3, <1>4 DEF ModesFit, ContainerMode, ModeAt, AllTurnedOn
<1>14. MapModes(ad)'
  BY <1>1, <1>3, <1>4, <1>7, <1>8 DEF ModesFit, MapModes, Processing
<1>15. QED
  BY <1>9, <1>10, <1>11, <1>12, <1>13, <1>14 DEF TInv

LEMMA WalkKeepsTree ==
  ASSUME NodeAssumption, HInv, HInv', NEW ad \in Threads, TInv(ad),
         \/ \E n \in Names : WalkNext(ad, n)
         \/ Visit(ad) \/ Back(ad) \/ WalkEnd(ad) \/ OffEnd(ad) \/ Restore(ad)
  PROVE  TInv(ad)'
<1>1. /\ TypeOK /\ CallShape /\ ModesFit(ad) /\ op[ad] \in OpsAt(pc[ad])
      /\ Start(ad) \/ Edit(ad) \/ Continue(ad)
  BY Parts DEF HInv, CallShape, Continue
<1>2. ModeAt(ad) /\ ContainerMode(ad) /\ AllTurnedOn(ad)
  BY <1>1 DEF ModesFit
<1>3. ASSUME NEW n \in Names, WalkNext(ad, n)
      PROVE  TInv(ad)'
  <2>1. /\ UNCHANGED <<cMode, inMap, alive, mode>> /\ pc[ad] = "list" /\ op'[ad] = op[ad]
        /\ todo'[ad] = todo[ad] \ {n} /\ ~Reaching(ad)
        /\ op[ad] \in Walks \cup {"on"} /\ ~Processing(ad, node[ad])
    BY <1>1, <1>3 DEF WalkNext, tree, objs, TypeOK, OpsAt, EnablePc, DisablePc, Walks, Processing,
       Reaching
  <2>2. CASE inMap[n] = NoObj
    <3>1. pc'[ad] = "list"
      BY <1>3, <2>1, <2>2 DEF WalkNext
    <3>2. ContainerMode(ad)' /\ AllTurnedOn(ad)'
      BY <1>2, <2>1, <2>2, <3>1 DEF ContainerMode, AllTurnedOn
    <3>3. QED
      BY <1>1, <2>1, <3>1, <3>2, ReleasedKeeps
  <2>3. CASE inMap[n] # NoObj
    <3>1. pc'[ad] = "visit" /\ name'[ad] = n /\ node'[ad] = inMap[n]
      BY <1>1, <1>3, <2>3 DEF WalkNext, Goto, TypeOK
    <3>2. ContainerMode(ad)' /\ AllTurnedOn(ad)'
      BY <1>2, <2>1, <2>3, <3>1 DEF ContainerMode, AllTurnedOn, Reaching, Walks
    <3>3. QED
      BY <1>1, <2>1, <2>3, <3>1, <3>2, TakenKeeps
  <2>4. QED
    BY <2>2, <2>3
<1>4. CASE Visit(ad)
  <2>1. /\ UNCHANGED <<cMode, inMap, alive, mode>> /\ pc[ad] = "visit" /\ Reaching(ad)
        /\ op[ad] \in Walks \cup {"on"} /\ ~Processing(ad, node[ad])
        /\ op'[ad] = op[ad] /\ todo'[ad] = todo[ad]
    BY <1>1, <1>4 DEF Visit, tree, objs, call, OpsAt, EnablePc, DisablePc, Walks, Processing,
       Reaching
  <2>2. mode[node[ad]] = "Enabled" \/ (mode[node[ad]] = "Disabled" /\ cMode # "Enabled")
    BY <2>1, NodeMode
  <2>3. CASE GoesIn(ad)
    <3>1. /\ SameCall(ad)
          /\ pc'[ad] = CASE op[ad] = "off" -> "disMode" [] op[ad] = "on" -> "enMode"
                         [] OTHER -> "child"
      BY <1>1, <1>4, <2>1, <2>3 DEF Visit, Goto, TypeOK, call, SameCall
    <3>2. /\ op[ad] = "off" => mode[node[ad]] = "Enabled"
          /\ op[ad] = "on" => mode[node[ad]] = "Disabled"
      BY <2>3 DEF GoesIn, ModeIs
    <3>3. ModeAt(ad)'
      BY <2>1, <3>1, <3>2 DEF ModeAt, SameCall
    <3>4. QED
      BY <1>1, <2>1, <2>2, <3>1, <3>2, <3>3, GoingOnKeeps DEF SameCall, Reaching, Restoring
  <2>4. CASE ~GoesIn(ad)
    <3>1. pc'[ad] = "list"
      BY <1>1, <1>4, <2>4 DEF Visit, Goto, TypeOK
    <3>2. op[ad] = "on" => mode[node[ad]] = "Enabled"
      BY <2>2, <2>4 DEF GoesIn, ModeIs
    <3>3. ContainerMode(ad)' /\ AllTurnedOn(ad)'
      BY <1>2, <2>1, <3>1, <3>2 DEF ContainerMode, AllTurnedOn
    <3>4. QED
      BY <1>1, <2>1, <3>1, <3>3, ReleasedKeeps
  <2>5. QED
    BY <2>3, <2>4
<1>5. CASE Back(ad)
  <2>1. /\ UNCHANGED <<cMode, inMap, alive, mode>> /\ pc[ad] = "back" /\ pc'[ad] = "list"
        /\ ~Processing(ad, node[ad]) /\ op'[ad] = op[ad] /\ todo'[ad] = todo[ad]
    BY <1>1, <1>5 DEF Back, tree, objs, call, EnablePc, DisablePc, Processing, Goto, TypeOK
  <2>2. ContainerMode(ad)' /\ AllTurnedOn(ad)'
    BY <1>2, <2>1 DEF ContainerMode, AllTurnedOn, ModeAt
  <2>3. QED
    BY <1>1, <2>1, <2>2, ReleasedKeeps
<1>6. CASE WalkEnd(ad)
  <2>1. /\ UNCHANGED <<inMap, alive, mode>> /\ pc[ad] = "list" /\ todo[ad] = {}
        /\ cMode' = (IF op[ad] = "on" THEN "Enabled" ELSE cMode)
        /\ op[ad] \in Walks \cup {"on"} /\ ~Processing(ad, node[ad]) /\ ~Reaching(ad)
    BY <1>1, <1>6 DEF WalkEnd, objs, OpsAt, EnablePc, DisablePc, Walks, Processing, Reaching
  <2>2. op[ad] = "on" => \A n \in Names : inMap[n] # NoObj => mode[inMap[n]] = "Enabled"
    BY <1>2, <2>1 DEF AllTurnedOn
  <2>3. IF op[ad] = "off" THEN pc'[ad] = "offEnd" /\ op'[ad] = op[ad]
                          ELSE pc'[ad] = "idle" /\ op'[ad] = "none"
    BY <1>1, <1>6 DEF WalkEnd, Return, Goto, TypeOK, call
  <2>4. ContainerMode(ad)' /\ AllTurnedOn(ad)'
    BY <1>2, <2>1, <2>3 DEF ContainerMode, AllTurnedOn, Walks
  <2>5. QED
    BY <1>1, <2>1, <2>2, <2>3, <2>4, ReleasedKeeps
<1>7. CASE OffEnd(ad)
  <2>1. /\ UNCHANGED <<inMap, alive, mode>> /\ pc[ad] = "offEnd" /\ op[ad] = "off"
        /\ cMode' = "Disabled" /\ ~Processing(ad, node[ad])
    BY <1>1, <1>7 DEF OffEnd, objs, OpsAt, EnablePc, DisablePc, Walks, Processing
  <2>2. \/ pc'[ad] = "idle" /\ op'[ad] = "none"
        \/ pc'[ad] = "restore" /\ op'[ad] = "off"
    BY <1>1, <1>7, <2>1 DEF OffEnd, Return, Goto, TypeOK, call
  <2>3. ContainerMode(ad)' /\ AllTurnedOn(ad)'
    BY <2>1, <2>2 DEF ContainerMode, AllTurnedOn
  <2>4. QED
    BY <1>1, <2>1, <2>2, <2>3, ReleasedKeeps
<1>8. CASE Restore(ad)
  <2>1. /\ UNCHANGED <<inMap, alive, mode>> /\ pc[ad] = "restore" /\ pc'[ad] = "list"
        /\ cMode' = "DoEnable" /\ op'[ad] = "on" /\ ~Processing(ad, node[ad])
        /\ todo'[ad] = {n \in Names : inMap[n] # NoObj}
    BY <1>1, <1>8 DEF Restore, objs, Processing, EnablePc, DisablePc, Goto, TypeOK
  <2>2. ContainerMode(ad)' /\ AllTurnedOn(ad)'
    BY <2>1 DEF ContainerMode, AllTurnedOn
  <2>3. QED
    BY <1>1, <2>1, <2>2, ReleasedKeeps
<1>9. QED
  BY <1>3, <1>4, <1>5, <1>6, <1>7, <1>8

LEMMA StartsSafe ==
  ASSUME NodeAssumption, NEW ad \in Threads, Init
  PROVE  TInv(ad)
<1>1. \A t \in Threads : pc[t] = "idle" /\ op[t] = "none" /\ ~Reaching(t)
  BY DEF Init, Reaching
<1>2. OthersUse(ad) /\ NoDangling /\ DisabledUnused(ad) /\ AllTurnedOn(ad)
  BY <1>1 DEF OthersUse, UseOps, NoDangling, DisabledUnused, AllTurnedOn
<1>3. MapLive(ad) /\ MapModes(ad)
  BY <1>1 DEF Init, MapLive, MapModes
<1>4. ModeAt(ad) /\ ContainerMode(ad)
  BY <1>1 DEF Init, ModeAt, ContainerMode
<1>5. QED
  BY <1>2, <1>3, <1>4 DEF TInv

LEMMA RestKeepsTree == ASSUME NEW ad, TInv(ad), UNCHANGED vars PROVE TInv(ad)'
BY DEF TInv, vars, tree, objs, store, call, OthersUse, MapLive, NoDangling, DisabledUnused, ModeAt,
       ContainerMode, MapModes, AllTurnedOn, Processing, Restoring, Reaching

LEMMA EveryStepKeepsTree ==
  ASSUME NodeAssumption, NEW ad \in Threads, SoleAdmin(ad), HInv, HInv', TInv(ad), [Next]_vars
  PROVE  TInv(ad)'
<1>1. ASSUME NEW t \in Threads \ {ad}, Start(t) \/ Edit(t) \/ Continue(t)
      PROVE  TInv(ad)'
  BY <1>1, OthersKeep
<1>2. CASE Start(ad) \/ Edit(ad) \/ Continue(ad)
  BY <1>2, StartKeepsTree, EndKeepsTree, EraseKeepsTree, ProcessingKeeps, ModesKeepTree,
     DataKeepsTree, WalkKeepsTree DEF Continue
<1>3. QED
  BY <1>1, <1>2, RestKeepsTree DEF Next, Rest

\* When one thread creates, enables, disables and deletes nodes, and the others
\* read and change them through handles, the tree and the handles fit together.
THEOREM TreeInvariance ==
  ASSUME NodeAssumption, NEW ad \in Threads, SoleAdmin(ad)
  PROVE  Spec => [](HInv /\ TInv(ad))
<1>1. Init => HInv /\ TInv(ad)
  BY StartsHolding, StartsSafe
<1>2. HInv /\ TInv(ad) /\ [Next]_vars => HInv' /\ TInv(ad)'
  BY EveryStepKeeps, EveryStepKeepsTree
<1>3. QED
  BY <1>1, <1>2, PTL DEF Spec

\* AutoHD: a node is not deleted while somebody reaches it.  chldDel finds mUse
\* at 1 and disables the node in one section of dataRes(), chldAt looks at the
\* mode with the handle taken and under mChM, and the deletion takes mChM.
\* That needs one thread that deletes: for two, cntr_two has a counterexample.
THEOREM NoneDangles ==
  ASSUME NodeAssumption, NEW ad \in Threads, SoleAdmin(ad)
  PROVE  Spec => []NoDangling
<1>1. TInv(ad) => NoDangling
  BY DEF TInv
<1>2. QED
  BY <1>1, TreeInvariance, PTL

\* The documented promise of AutoHD, for one thread that deletes: no node with
\* a counted handle on it is deleted.
THEOREM HandlesHold ==
  ASSUME NodeAssumption, NEW ad \in Threads, SoleAdmin(ad)
  PROVE  Spec => []AutoHDHolds
<1>1. HInv /\ TInv(ad) => AutoHDHolds
  BY DEF HInv, TypeOK, HandlesCounted, TInv, NoDangling, AutoHDHolds
<1>2. QED
  BY <1>1, TreeInvariance, PTL

\* nodeDis and chldDel that fail turn on back what they had disabled, child by
\* child and then the container: between the calls all is enabled.
THEOREM AllIsPutBack ==
  ASSUME NodeAssumption, NEW ad \in Threads, SoleAdmin(ad)
  PROVE  Spec => []RestIsEnabled
<1>1. HInv /\ TInv(ad) => RestIsEnabled
  <2>1. SUFFICES ASSUME HInv, TInv(ad), Resting, cMode # "Disabled"
                 PROVE  /\ cMode = "Enabled"
                        /\ \A n \in Names : inMap[n] # NoObj => mode[inMap[n]] = "Enabled"
    BY DEF RestIsEnabled
  <2>2. pc[ad] = "idle" /\ op[ad] = "none"
    BY <2>1 DEF Resting, HInv, CallShape, OpsAt, EnablePc, DisablePc, Walks
  <2>3. cMode = "Enabled"
    BY <2>1, <2>2 DEF TInv, ContainerMode
  <2>4. \A o : ~Processing(ad, o)
    BY <2>2 DEF Processing, EnablePc, DisablePc
  <2>5. QED
    BY <2>1, <2>3, <2>4 DEF TInv, MapModes
<1>2. QED
  BY <1>1, TreeInvariance, PTL

-----------------------------------------------------------------------------
(* The storage, when the others only read                                  *)

LEMMA ReadSteps ==
  ASSUME NodeAssumption, HInv, NEW t \in Threads, op[t] \in ReadOps,
         Ops[t] \subseteq {"use", "isModify"}, Start(t) \/ Edit(t) \/ Continue(t)
  PROVE  UNCHANGED store /\ op'[t] \in ReadOps
<1>1. TypeOK /\ op[t] \in UseOps
  BY DEF HInv, ReadOps, UseOps
<1>2. CASE Start(t)
  <2>1. ASSUME NEW k \in {"use", "edit", "del"}, NEW n \in Names, AtFind(t, k, n)
        PROVE  UNCHANGED store /\ op'[t] \in ReadOps
    BY <1>1, <2>1 DEF AtFind, Calling, tree, store, TypeOK, ReadOps
  <2>2. ASSUME NEW n \in Names, AddFound(t, n) PROVE FALSE
    BY <2>2 DEF AddFound, Calling
  <2>3. ASSUME NEW n \in Names, NEW o \in Objs, AddNew(t, n, o) PROVE FALSE
    BY <2>3 DEF AddNew, Calling
  <2>4. ASSUME NEW k \in Walks, WalkBegin(t, k)
        PROVE  UNCHANGED store /\ op'[t] \in ReadOps
    BY <1>1, <2>4 DEF WalkBegin, Calling, store, TypeOK, ReadOps
  <2>5. QED
    BY <1>2, <2>1, <2>2, <2>3, <2>4 DEF Start
<1>3. ASSUME Edit(t) PROVE FALSE
  BY <1>3 DEF Edit, ReadOps
<1>4. CASE AtCheck(t) \/ Drop(t)
  BY <1>1, <1>4 DEF AtCheck, Drop, tree, store, call, Return, TypeOK, ReadOps
<1>5. CASE \/ \E n \in Names : WalkNext(t, n)
           \/ Visit(t) \/ IsModifyChild(t) \/ Back(t) \/ WalkEnd(t)
  BY <1>1, <1>5 DEF WalkNext, Visit, IsModifyChild, Back, WalkEnd, tree, store, call, Return,
     TypeOK, ReadOps
<1>6. QED
  BY <1>1, <1>2, <1>3, <1>4, <1>5, UseActions

LEMMA ReadersKeepStore ==
  ASSUME NodeAssumption, HInv, NEW ad \in Threads, SoleWriter(ad), TInv(ad), SInv(ad),
         NEW t \in Threads \ {ad}, Start(t) \/ Edit(t) \/ Continue(t)
  PROVE  SInv(ad)'
<1>1. /\ op[t] \in ReadOps /\ op[t] \in UseOps /\ Ops[t] \subseteq {"use", "isModify"}
      /\ Ops[t] \subseteq {"use", "edit", "isModify"}
  BY DEF SInv, OthersRead, SoleWriter, ReadOps, UseOps
<1>2. UNCHANGED store /\ op'[t] \in ReadOps
  BY <1>1, ReadSteps
<1>3. UNCHANGED inMap
  BY <1>1, UseSteps
<1>4. \A u \in Threads \ {t} : pc'[u] = pc[u] /\ op'[u] = op[u] /\ name'[u] = name[u]
                               /\ node'[u] = node[u]
  BY OnlyOwn DEF HInv
<1>5. OthersRead(ad)'
  BY <1>2, <1>4 DEF SInv, OthersRead
<1>6. StoreAt(ad)'
  BY <1>2, <1>4 DEF store, SInv, StoreAt
<1>7. RecordsInTree' /\ ChangesTracked'
  BY <1>2, <1>3 DEF store, SInv, RecordsInTree, ChangesTracked
<1>8. QED
  BY <1>5, <1>6, <1>7 DEF SInv

\* The steps of the writer that leave the storage and the map alone.
LEMMA QuietStore ==
  ASSUME NodeAssumption, HInv, NEW ad \in Threads, SInv(ad),
         Start(ad) \/ Edit(ad) \/ Continue(ad),
         UNCHANGED <<inMap, store>>, pc'[ad] # "saved",
         pc'[ad] = "erase" \/ (pc'[ad] = "free" /\ op'[ad] = "del") => name'[ad] \notin db
  PROVE  SInv(ad)'
<1>1. \A u \in Threads \ {ad} : op'[u] = op[u]
  BY OnlyOwn DEF HInv
<1>2. OthersRead(ad)'
  BY <1>1 DEF SInv, OthersRead
<1>3. StoreAt(ad)'
  BY DEF store, StoreAt
<1>4. RecordsInTree' /\ ChangesTracked'
  BY DEF store, SInv, RecordsInTree, ChangesTracked
<1>5. QED
  BY <1>2, <1>3, <1>4 DEF SInv

LEMMA StartKeepsStore ==
  ASSUME NodeAssumption, HInv, NEW ad \in Threads, TInv(ad), SInv(ad), Start(ad)
  PROVE  SInv(ad)'
<1>1. TypeOK /\ MapLive(ad) /\ RecordsInTree /\ ChangesTracked
  BY DEF HInv, TInv, SInv
<1>2. ASSUME NEW k \in {"use", "edit", "del"}, NEW n \in Names, AtFind(ad, k, n)
      PROVE  SInv(ad)'
  <2>1. UNCHANGED <<inMap, store>> /\ pc'[ad] = "check"
    BY <1>1, <1>2 DEF AtFind, tree, objs, store, Goto, TypeOK
  <2>2. QED
    BY <2>1, QuietStore
<1>3. ASSUME NEW n \in Names, AddFound(ad, n)
      PROVE  SInv(ad)'
  <2>1. UNCHANGED <<inMap, store>> /\ pc'[ad] = "addMode"
    BY <1>1, <1>3 DEF AddFound, tree, objs, store, Goto, TypeOK
  <2>2. QED
    BY <2>1, QuietStore
<1>4. ASSUME NEW n \in Names, NEW o \in Objs, AddNew(ad, n, o)
      PROVE  SInv(ad)'
  <2>1. /\ inMap[n] = NoObj /\ UNCHANGED <<db, synced, dropped>> /\ pc'[ad] = "addMode"
        /\ inMap'[n] = o /\ modified'[o] = TRUE
        /\ \A m \in Names : m # n => inMap'[m] = inMap[m]
        /\ \A p \in Objs : p # o => modified'[p] = modified[p]
    BY <1>1, <1>4 DEF AddNew, Goto, TypeOK
  <2>2. RecordsInTree'
    BY <1>1, <2>1 DEF RecordsInTree, NodeAssumption, TypeOK
  <2>3. ChangesTracked'
    <3>1. ASSUME NEW m \in Names, inMap'[m] # NoObj
          PROVE  \/ modified'[inMap'[m]] \/ (inMap'[m] \in synced /\ m \in db)
                 \/ inMap'[m] \in dropped
      <4>1. CASE m = n
        BY <2>1, <4>1
      <4>2. CASE m # n
        <5>1. inMap[m] \in Objs /\ inMap'[m] = inMap[m]
          BY <1>1, <2>1, <3>1, <4>2 DEF TypeOK
        <5>2. CASE inMap[m] = o
          BY <2>1, <5>1, <5>2
        <5>3. CASE inMap[m] # o
          BY <1>1, <2>1, <3>1, <5>1, <5>3 DEF ChangesTracked
        <5>4. QED
          BY <5>2, <5>3
      <4>3. QED
        BY <4>1, <4>2
    <3>2. QED
      BY <2>1, <3>1 DEF ChangesTracked
  <2>4. \A u \in Threads \ {ad} : op'[u] = op[u]
    BY <1>1, OnlyOwn
  <2>5. QED
    BY <2>1, <2>2, <2>3, <2>4 DEF SInv, OthersRead, StoreAt
<1>5. ASSUME NEW k \in Walks, WalkBegin(ad, k)
      PROVE  SInv(ad)'
  <2>1. UNCHANGED <<inMap, store>> /\ pc'[ad] = "list"
    BY <1>1, <1>5 DEF WalkBegin, objs, store, Goto, TypeOK
  <2>2. QED
    BY <2>1, QuietStore
<1>6. QED
  BY <1>2, <1>3, <1>4, <1>5 DEF Start

LEMMA TreeStepsKeepStore ==
  ASSUME NodeAssumption, HInv, NEW ad \in Threads, TInv(ad), SInv(ad),
         \/ AtCheck(ad) \/ Drop(ad) \/ AddMode(ad) \/ EnMode(ad) \/ EnSet(ad) \/ EnDone(ad)
         \/ DelMode(ad) \/ DisMode(ad) \/ DisSet(ad) \/ DisWait(ad) \/ DisFail(ad) \/ Free(ad)
         \/ (\E n \in Names : WalkNext(ad, n)) \/ Visit(ad) \/ LoadChild(ad)
         \/ IsModifyChild(ad) \/ Back(ad) \/ WalkEnd(ad) \/ OffEnd(ad) \/ Restore(ad)
  PROVE  SInv(ad)'
<1> DEFINE quiet == UNCHANGED <<inMap, store>>
<1>1. /\ TypeOK /\ op[ad] \in OpsAt(pc[ad]) /\ ModeAt(ad) /\ StoreAt(ad)
      /\ Start(ad) \/ Edit(ad) \/ Continue(ad)
  BY DEF HInv, CallShape, TInv, SInv, Continue
<1>2. CASE AtCheck(ad) \/ Drop(ad)
  <2>1. quiet /\ pc'[ad] \in {"idle", "delMode", "hold"}
    BY <1>1, <1>2 DEF AtCheck, Drop, tree, objs, store, Goto, Return, TypeOK
  <2>2. QED
    BY <1>1, <2>1, QuietStore
<1>3. CASE AddMode(ad)
  <2>1. quiet /\ pc'[ad] \in {"enMode", "free"} /\ op'[ad] = op[ad] /\ op[ad] \in {"add", "new"}
    BY <1>1, <1>3 DEF AddMode, tree, objs, store, call, Goto, TypeOK, OpsAt, EnablePc, DisablePc,
       Walks
  <2>2. QED
    BY <1>1, <2>1, QuietStore
<1>4. CASE EnMode(ad)
  <2>1. quiet /\ pc'[ad] = "enSet"
    BY <1>1, <1>4 DEF EnMode, tree, objs, store, Goto, TypeOK, ModeAt, ModeIs
  <2>2. QED
    BY <1>1, <2>1, QuietStore
<1>5. CASE EnSet(ad)
  <2>1. quiet /\ pc'[ad] = "enDone"
    BY <1>1, <1>5 DEF EnSet, objs, store, Goto, TypeOK
  <2>2. QED
    BY <1>1, <2>1, QuietStore
<1>6. CASE EnDone(ad)
  <2>1. /\ quiet /\ pc'[ad] \in {"free", "loaded", "back"} /\ op'[ad] = op[ad]
        /\ op[ad] # "del"
    BY <1>1, <1>6 DEF EnDone, AfterEn, objs, store, call, Goto, TypeOK, OpsAt, EnablePc, DisablePc,
       Walks
  <2>2. QED
    BY <1>1, <2>1, QuietStore
<1>7. CASE DelMode(ad) \/ DisMode(ad)
  <2>1. quiet /\ pc'[ad] \in {"disMode", "disSet", "free"}
    BY <1>1, <1>7 DEF DelMode, DisMode, tree, objs, store, Goto, TypeOK, ModeAt, ModeIs
  <2>2. pc'[ad] = "free" => op'[ad] # "del"
    BY <1>1, <1>7 DEF DelMode, DisMode, Undo, Goto, TypeOK, ModeAt, ModeIs
  <2>3. QED
    BY <1>1, <2>1, <2>2, QuietStore
<1>8. CASE DisSet(ad) \/ DisWait(ad) \/ DisFail(ad)
  <2>1. quiet /\ pc'[ad] \in {"disWait", "disFail", "disDone", "enMode"}
    BY <1>1, <1>8 DEF DisSet, DisWait, DisFail, objs, store, Goto, TypeOK
  <2>2. QED
    BY <1>1, <2>1, QuietStore
<1>9. CASE Free(ad)
  <2>1. quiet /\ pc[ad] = "free" /\ pc'[ad] \in {"erase", "restore", "idle"}
        /\ (pc'[ad] = "erase" => op[ad] = "del" /\ name'[ad] = name[ad])
    BY <1>1, <1>9 DEF Free, objs, store, call, Goto, Return, TypeOK
  <2>2. QED
    BY <1>1, <2>1, QuietStore DEF StoreAt
<1>10. CASE \E n \in Names : WalkNext(ad, n)
  <2>1. quiet /\ pc'[ad] \in {"list", "visit"}
    BY <1>1, <1>10 DEF WalkNext, tree, objs, store, Goto, TypeOK
  <2>2. QED
    BY <1>1, <2>1, QuietStore
<1>11. CASE Visit(ad)
  <2>1. quiet /\ pc'[ad] \in {"disMode", "enMode", "child", "list"}
    BY <1>1, <1>11 DEF Visit, tree, objs, store, Goto, TypeOK
  <2>2. QED
    BY <1>1, <2>1, QuietStore
<1>12. CASE LoadChild(ad) \/ IsModifyChild(ad) \/ Back(ad)
  <2>1. quiet /\ pc'[ad] \in {"back", "enMode", "loaded", "list"}
    BY <1>1, <1>12 DEF LoadChild, IsModifyChild, Back, tree, objs, store, Goto, TypeOK
  <2>2. QED
    BY <1>1, <2>1, QuietStore
<1>13. CASE WalkEnd(ad) \/ OffEnd(ad) \/ Restore(ad)
  <2>1. quiet /\ pc'[ad] \in {"offEnd", "idle", "restore", "list"}
    BY <1>1, <1>13 DEF WalkEnd, OffEnd, Restore, objs, store, Goto, Return, TypeOK
  <2>2. QED
    BY <1>1, <2>1, QuietStore
<1>14. QED
  BY <1>2, <1>3, <1>4, <1>5, <1>6, <1>7, <1>8, <1>9, <1>10, <1>11, <1>12, <1>13

\* Saving, loading, changing and removing the data of a node.
LEMMA DataStepsKeepStore ==
  ASSUME NodeAssumption, HInv, NEW ad \in Threads, TInv(ad), SInv(ad),
         \/ Edit(ad) \/ SaveChild(ad) \/ Saved(ad) \/ Loaded(ad) \/ LoadFails(ad)
         \/ DisDone(ad) \/ Erase(ad)
  PROVE  SInv(ad)'
<1> DEFINE o == node[ad]
           n == name[ad]
<1>1. /\ TypeOK /\ CallShape /\ MapLive(ad) /\ op[ad] \in OpsAt(pc[ad])
      /\ StoreAt(ad) /\ RecordsInTree /\ ChangesTracked
      /\ Start(ad) \/ Edit(ad) \/ Continue(ad)
  BY DEF HInv, CallShape, TInv, SInv, Continue
<1>2. /\ pc[ad] \in {"hold", "child", "saved", "loaded", "failed", "disDone", "erase"} /\ n \in Names
      /\ inMap[n] = o /\ (Reaching(ad) => o \in Objs) /\ (pc[ad] # "erase" => Reaching(ad))
  BY <1>1 DEF Edit, SaveChild, Saved, Loaded, LoadFails, DisDone, Erase, CallShape, MapLive, Reaching
<1>3. \A m \in Names : inMap[m] \in Objs /\ inMap[m] = o => m = n
  BY <1>1, <1>2 DEF MapLive, NodeAssumption
<1>4. OthersRead(ad)'
  <2>1. \A u \in Threads \ {ad} : op'[u] = op[u]
    BY <1>1, OnlyOwn
  <2>2. QED
    BY <2>1 DEF SInv, OthersRead
<1>5. ASSUME NEW m \in Names, inMap[m] # NoObj
      PROVE  /\ inMap[m] \in Objs /\ (inMap[m] = o <=> m = n)
             /\ \/ modified[inMap[m]] \/ (inMap[m] \in synced /\ m \in db)
                \/ inMap[m] \in dropped
  BY <1>1, <1>2, <1>3, <1>5 DEF TypeOK, ChangesTracked
<1>6. CASE Edit(ad)
  <2>1. /\ modified'[o] /\ \A p \in Objs : p # o => modified'[p] = modified[p]
        /\ synced' = synced \ {o} /\ dropped' = dropped \ {o}
        /\ pc'[ad] = "hold" /\ UNCHANGED <<db, inMap>>
    BY <1>1, <1>2, <1>6 DEF Edit, Mark, TypeOK, objs, Reaching
  <2>2. ChangesTracked'
    BY <1>5, <2>1 DEF ChangesTracked
  <2>3. QED
    BY <1>1, <1>4, <2>1, <2>2 DEF SInv, StoreAt, RecordsInTree
<1>7. CASE SaveChild(ad)
  <2>1. UNCHANGED <<inMap, modified, dropped>> /\ o \in Objs /\ name' = name /\ node' = node
        /\ op[ad] = "save" /\ op' = op
    BY <1>2, <1>7 DEF SaveChild, objs, call
  <2>2. CASE db' = db \cup {n} /\ synced' = synced \cup {o} /\ pc'[ad] = "saved"
    <3>1. RecordsInTree'
      BY <1>1, <1>2, <2>1, <2>2 DEF RecordsInTree, NodeAssumption
    <3>2. ChangesTracked'
      BY <1>1, <2>1, <2>2 DEF ChangesTracked
    <3>3. StoreAt(ad)'
      BY <2>1, <2>2 DEF StoreAt
    <3>4. QED
      BY <1>4, <3>1, <3>2, <3>3 DEF SInv
  <2>3. CASE pc'[ad] = "back" /\ UNCHANGED <<db, synced>>
    BY <1>1, <2>1, <2>3, QuietStore DEF store
  <2>4. QED
    BY <1>1, <1>7, <2>2, <2>3 DEF SaveChild, Goto, TypeOK
<1>8. CASE Saved(ad)
  <2>1. /\ pc[ad] = "saved" /\ o \in Objs /\ pc'[ad] = "back"
        /\ \A p \in Objs : p # o => modified'[p] = modified[p]
        /\ UNCHANGED <<inMap, db, synced, dropped>>
    BY <1>1, <1>2, <1>8 DEF Saved, Unmark, Reaching, TypeOK, Goto, objs
  <2>2. o \in synced /\ n \in db
    BY <1>1, <2>1 DEF StoreAt
  <2>3. ChangesTracked'
    BY <1>5, <2>1, <2>2 DEF ChangesTracked
  <2>4. QED
    BY <1>1, <1>4, <2>1, <2>3 DEF SInv, StoreAt, RecordsInTree
<1>9. CASE Loaded(ad)
  <2>1. o \in Objs /\ pc'[ad] \in {"back", "failed"} /\ UNCHANGED <<inMap, db>>
    BY <1>1, <1>2, <1>9 DEF Loaded, Reaching, TypeOK, Goto, objs
  <2>2. CASE /\ n \in db /\ Unmark(ad) /\ synced' = synced \cup {o}
             /\ dropped' = dropped \ {o}
    <3>1. \A p \in Objs : p # o => modified'[p] = modified[p]
      BY <1>1, <2>2 DEF Unmark, TypeOK
    <3>2. ChangesTracked'
      BY <1>5, <2>1, <2>2, <3>1 DEF ChangesTracked
    <3>3. QED
      BY <1>1, <1>4, <2>1, <3>2 DEF SInv, StoreAt, RecordsInTree
  <2>3. CASE UNCHANGED <<modified, synced, dropped>>
    BY <1>1, <2>1, <2>3, QuietStore DEF store
  <2>4. QED
    BY <1>9, <2>2, <2>3 DEF Loaded
<1>10. CASE DisDone(ad)
  <2>1. /\ o \in Objs /\ pc'[ad] \in {"back", "free", "disFail"} /\ name' = name
        /\ modified'[o] /\ \A p \in Objs : p # o => modified'[p] = modified[p]
        /\ dropped' = dropped \ {o} /\ UNCHANGED inMap
    BY <1>1, <1>2, <1>10 DEF DisDone, Mark, AfterDis, Reaching, TypeOK, Goto, objs, call
  <2>2. /\ synced' \in {synced, synced \ {o}} /\ db' \in {db, db \ {n}}
        /\ pc'[ad] # "disFail" => db' = db \ {n}
    BY <1>1, <1>10 DEF DisDone, Goto, TypeOK
  <2>3. ChangesTracked'
    BY <1>5, <2>1, <2>2 DEF ChangesTracked
  <2>4. RecordsInTree'
    BY <1>1, <2>1, <2>2 DEF RecordsInTree
  <2>5. StoreAt(ad)'
    BY <2>1, <2>2 DEF StoreAt
  <2>6. QED
    BY <1>4, <2>3, <2>4, <2>5 DEF SInv
<1>11. CASE Erase(ad)
  <2>1. /\ pc[ad] = "erase" /\ pc'[ad] = "idle" /\ UNCHANGED store
        /\ \A m \in Names : m # n => inMap'[m] = inMap[m]
    BY <1>1, <1>11 DEF Erase, Return, Goto, TypeOK, store
  <2>2. inMap'[n] = NoObj
    BY <1>1, <1>2, <1>11 DEF Erase, TypeOK
  <2>3. n \notin db
    BY <1>1, <2>1 DEF StoreAt
  <2>4. RecordsInTree'
    BY <1>1, <2>1, <2>3 DEF store, RecordsInTree, TypeOK
  <2>5. ChangesTracked'
    BY <1>1, <2>1, <2>2 DEF store, ChangesTracked
  <2>6. QED
    BY <1>4, <2>1, <2>4, <2>5 DEF SInv, StoreAt
<1>12. CASE LoadFails(ad)
  <2>1. o \in Objs /\ pc'[ad] = "back" /\ UNCHANGED <<inMap, db, synced>>
    BY <1>1, <1>2, <1>12 DEF LoadFails, Reaching, TypeOK, Goto, objs
  <2>2. CASE UNCHANGED <<modified, dropped>>
    BY <1>1, <2>1, <2>2, QuietStore DEF store
  <2>3. CASE Unmark(ad) /\ dropped' = dropped \cup {o}
    <3>1. \A p \in Objs : p # o => modified'[p] = modified[p]
      BY <1>1, <2>3 DEF Unmark, TypeOK
    <3>2. ChangesTracked'
      BY <1>5, <2>1, <2>3, <3>1 DEF ChangesTracked
    <3>3. QED
      BY <1>1, <1>4, <2>1, <3>2 DEF SInv, StoreAt, RecordsInTree
  <2>4. QED
    BY <1>12, <2>2, <2>3 DEF LoadFails
<1>13. QED
  BY <1>6, <1>7, <1>8, <1>9, <1>10, <1>11, <1>12

LEMMA EveryStepKeepsStore ==
  ASSUME NodeAssumption, NEW ad \in Threads, SoleWriter(ad), HInv, TInv(ad), SInv(ad), [Next]_vars
  PROVE  SInv(ad)'
<1>1. ASSUME NEW t \in Threads \ {ad}, Start(t) \/ Edit(t) \/ Continue(t)
      PROVE  SInv(ad)'
  BY <1>1, ReadersKeepStore
<1>2. CASE Start(ad) \/ Edit(ad) \/ Continue(ad)
  BY <1>2, StartKeepsStore, TreeStepsKeepStore, DataStepsKeepStore DEF Continue
<1>3. CASE UNCHANGED vars
  BY <1>3 DEF vars, tree, objs, store, call, SInv, OthersRead, StoreAt, RecordsInTree, ChangesTracked
<1>4. QED
  BY <1>1, <1>2, <1>3 DEF Next, Rest

\* When the others only read, the tree and the storage fit together too.
THEOREM StoreInvariance ==
  ASSUME NodeAssumption, NEW ad \in Threads, SoleWriter(ad)
  PROVE  Spec => [](HInv /\ TInv(ad) /\ SInv(ad))
<1>1. SoleAdmin(ad)
  BY DEF SoleWriter, SoleAdmin
<1>2. Init => HInv /\ TInv(ad) /\ SInv(ad)
  <2>1. Init => SInv(ad)
    BY DEF Init, SInv, OthersRead, ReadOps, StoreAt, RecordsInTree, ChangesTracked
  <2>2. QED
    BY <2>1, StartsHolding, StartsSafe
<1>3. HInv /\ TInv(ad) /\ SInv(ad) /\ [Next]_vars => HInv' /\ TInv(ad)' /\ SInv(ad)'
  BY <1>1, EveryStepKeeps, EveryStepKeepsTree, EveryStepKeepsStore
<1>4. QED
  BY <1>2, <1>3, PTL DEF Spec

\* save(), load() and a removal that fails half-way lose no change: a node in
\* the tree is marked modified, or its record holds its data, or load() took
\* the mark in its catch.  save_() comes before modifClr(), and postDisable()
\* of a node removed comes with modif().
THEOREM NoChangeIsLost ==
  ASSUME NodeAssumption, NEW ad \in Threads, SoleWriter(ad)
  PROVE  Spec => []ChangesTracked
<1>1. SInv(ad) => ChangesTracked
  BY DEF SInv
<1>2. QED
  BY <1>1, StoreInvariance, PTL

\* NodeRemove removes from the storage: between the calls a record belongs to a
\* node in the tree, as nodeDis erases it before chldDel deletes the node.
THEOREM RemovalIsComplete ==
  ASSUME NodeAssumption, NEW ad \in Threads, SoleWriter(ad)
  PROVE  Spec => []RemovedFromStorage
<1>1. SInv(ad) => RemovedFromStorage
  BY DEF SInv, RecordsInTree, RemovedFromStorage
<1>2. QED
  BY <1>1, StoreInvariance, PTL
=============================================================================
