------------------------------ MODULE CntrNode ------------------------------
(***************************************************************************)
(* The dynamic tree of TCntrNode (src/src/tcntrnode.cpp): one container    *)
(* node, its child nodes, and the threads that reach the children through  *)
(* AutoHD handles (src/src/autohd.h), create, enable, disable, save, load  *)
(* and delete them.                                                        *)
(*                                                                         *)
(* A step ends where the code unlocks, or reads or writes a mode outside a *)
(* lock: mChM of the container is the variable chM, a section of dataRes() *)
(* is one step.  A thread works on one child at a time: node[t] is that    *)
(* child, name[t] its name, pc[t] how far the call is, op[t] which call it *)
(* is.  The container's children form one unordered group.                 *)
(*                                                                         *)
(* users[o] is mUse of the node: the counted handles, told apart by the    *)
(* thread that holds them (a thread has at most one here).  db holds the   *)
(* names with a record in the storage; synced the nodes whose data are the *)
(* data of their record.                                                   *)
(***************************************************************************)
EXTENDS Naturals, FiniteSets

CONSTANTS Threads,
          Names,      \* names children may have
          Objs,       \* bound: node objects that may be created
          NoObj, NoThread, NoName,
          Ops,        \* what a thread may call, by thread
          MaxOps      \* bound: calls of a thread

\* Calls: read or change a child through a handle; chldAdd; chldDel with
\* NodeRemove; nodeDis of the container with NodeRemove; isModify, load and
\* save of the container.
Calls == {"use", "edit", "add", "del", "off", "isModify", "load", "save"}

ASSUME NodeAssumption ==
  /\ NoObj \notin Objs /\ NoThread \notin Threads /\ NoName \notin Names
  /\ IsFiniteSet(Threads)
  /\ Ops \in [Threads -> SUBSET Calls]
  /\ MaxOps \in Nat

VARIABLES chM, cMode, inMap, mode, alive, users, modified, db, synced,
          dropped,  \* history: the nodes a failing load took the mark from
          pc, op, name, node, todo, left

objs == <<inMap, alive>>
store == <<modified, db, synced, dropped>>
tree == <<cMode, mode, objs, store>>
call == <<op, name, node, todo, left>>
vars == <<chM, users, tree, pc, call>>

Mode == {"Disabled", "DoEnable", "Enabled", "DoDisable"}

\* Labels with mChM locked, labels with a counted handle, and the rest.
LockedPc == {"check", "list", "visit"}
EnablePc == {"enMode", "enSet", "enDone"}
DisablePc == {"delMode", "disMode", "disSet", "disWait", "disDone", "disFail"}
Pc == LockedPc \cup EnablePc \cup DisablePc \cup
      {"idle", "hold", "addMode", "child", "loaded", "failed", "saved", "back", "free", "erase",
       "offEnd", "restore"}

TypeOK ==
  /\ chM \in Threads \cup {NoThread}
  /\ cMode \in Mode
  /\ inMap \in [Names -> Objs \cup {NoObj}]
  /\ mode \in [Objs -> Mode]
  /\ alive \in [Objs -> {"none", "live", "dead"}]
  /\ users \in [Objs -> SUBSET Threads]
  /\ modified \in [Objs -> BOOLEAN]
  /\ db \subseteq Names
  /\ synced \subseteq Objs
  /\ dropped \subseteq Objs
  /\ pc \in [Threads -> Pc]
  /\ op \in [Threads -> Calls \cup {"none", "new", "undel", "unoff", "on"}]
  /\ name \in [Threads -> Names \cup {NoName}]
  /\ node \in [Threads -> Objs \cup {NoObj}]
  /\ todo \in [Threads -> SUBSET Names]
  /\ left \in [Threads -> 0..MaxOps]

Init ==
  /\ chM = NoThread
  /\ cMode = "Enabled"
  /\ inMap = [n \in Names |-> NoObj]
  /\ mode = [o \in Objs |-> "Disabled"]
  /\ alive = [o \in Objs |-> "none"]
  /\ users = [o \in Objs |-> {}]
  /\ modified = [o \in Objs |-> FALSE]
  /\ db = {}
  /\ synced = {}
  /\ dropped = {}
  /\ pc = [t \in Threads |-> "idle"]
  /\ op = [t \in Threads |-> "none"]
  /\ name = [t \in Threads |-> NoName]
  /\ node = [t \in Threads |-> NoObj]
  /\ todo = [t \in Threads |-> {}]
  /\ left = [t \in Threads |-> MaxOps]

-----------------------------------------------------------------------------
(* Helpers *)

\* Mutant of SetMode: setNodeMode() sets the bits without clearing the old ones.
SetModeBits(t, m) ==
  mode' = [mode EXCEPT ![node[t]] = IF @ = "Disabled" THEN m ELSE "Mixed"]

\* modif() and modifClr() of the node.
Mark(t) ==
  /\ modified' = [modified EXCEPT ![node[t]] = TRUE]
  /\ dropped' = dropped \ {node[t]}
Unmark(t) == modified' = [modified EXCEPT ![node[t]] = FALSE]

Goto(t, l) == pc' = [pc EXCEPT ![t] = l]
SetMode(t, m) == mode' = [mode EXCEPT ![node[t]] = m]
ModeIs(t, m) == mode[node[t]] = m

\* AHDConnect and AHDDisConnect.
Attach(t, o) == users' = [users EXCEPT ![o] = @ \cup {t}]
Detach(t) == users' = [users EXCEPT ![node[t]] = @ \ {t}]

Lock(t) == chM = NoThread /\ chM' = t
Unlock(t) == chM' = NoThread

Calling(t, k) ==
  /\ pc[t] = "idle"
  /\ k \in Ops[t]
  /\ left[t] > 0
  /\ left' = [left EXCEPT ![t] = @ - 1]

\* The call returns, or is left by an exception: its locals are gone.
Return(t) ==
  /\ Goto(t, "idle")
  /\ op' = [op EXCEPT ![t] = "none"]
  /\ name' = [name EXCEPT ![t] = NoName]
  /\ node' = [node EXCEPT ![t] = NoObj]
  /\ todo' = [todo EXCEPT ![t] = {}]
  /\ UNCHANGED left

\* Mutant of InUse: one user too many is let pass.
InUseByMore(o) == Cardinality(users[o]) > 2

\* mUse > 1: somebody uses the node besides the one that disables it.
InUse(o) == Cardinality(users[o]) > 1

-----------------------------------------------------------------------------
(* chldAt *)

\* Find the child and attach to it under mChM.
AtFind(t, k, n) ==
  /\ k \in {"use", "edit", "del"}
  /\ Calling(t, k)
  /\ IF k = "del" THEN cMode = "Enabled" ELSE cMode # "Disabled"
  /\ inMap[n] # NoObj
  /\ Lock(t)
  /\ Attach(t, inMap[n])
  /\ Goto(t, "check")
  /\ op' = [op EXCEPT ![t] = k]
  /\ name' = [name EXCEPT ![t] = n]
  /\ node' = [node EXCEPT ![t] = inMap[n]]
  /\ UNCHANGED <<tree, todo>>

\* Mutant of AtCheck: the refusal leaves the handle counted.
AtCheckLeaks(t) ==
  /\ pc[t] = "check"
  /\ Unlock(t)
  /\ IF ModeIs(t, "Disabled")
       THEN Return(t)
       ELSE Goto(t, IF op[t] = "del" THEN "delMode" ELSE "hold") /\ UNCHANGED call
  /\ UNCHANGED <<users, tree>>

\* The mode is looked at with the handle taken: a disabled child is refused.
AtCheck(t) ==
  /\ pc[t] = "check"
  /\ Unlock(t)
  /\ IF ModeIs(t, "Disabled")
       THEN Detach(t) /\ Return(t)
       ELSE /\ Goto(t, IF op[t] = "del" THEN "delMode" ELSE "hold")
            /\ UNCHANGED <<users, call>>
  /\ UNCHANGED tree

\* The user changes the node's data and calls modif().
Edit(t) ==
  /\ pc[t] = "hold"
  /\ op[t] = "edit"
  /\ synced' = synced \ {node[t]}
  /\ Mark(t)
  /\ UNCHANGED <<chM, cMode, mode, objs, users, db, pc, call>>

\* ~AutoHD() of a user.
Drop(t) ==
  /\ pc[t] = "hold"
  /\ Detach(t)
  /\ Return(t)
  /\ UNCHANGED <<chM, tree>>

-----------------------------------------------------------------------------
(* chldAdd *)

\* The name is there already: attach to it; the new object is deleted.
AddFound(t, n) ==
  /\ Calling(t, "add")
  /\ cMode = "Enabled"
  /\ chM = NoThread
  /\ inMap[n] # NoObj
  /\ Attach(t, inMap[n])
  /\ Goto(t, "addMode")
  /\ op' = [op EXCEPT ![t] = "add"]
  /\ name' = [name EXCEPT ![t] = n]
  /\ node' = [node EXCEPT ![t] = inMap[n]]
  /\ UNCHANGED <<chM, tree, todo>>

\* The new object goes into the map, disabled and modified; the call goes on
\* with the plain pointer.
AddNew(t, n, o) ==
  /\ Calling(t, "add")
  /\ cMode = "Enabled"
  /\ chM = NoThread
  /\ inMap[n] = NoObj
  /\ alive[o] = "none"
  /\ alive' = [alive EXCEPT ![o] = "live"]
  /\ modified' = [modified EXCEPT ![o] = TRUE]
  /\ inMap' = [inMap EXCEPT ![n] = o]
  /\ Goto(t, "addMode")
  /\ op' = [op EXCEPT ![t] = "new"]
  /\ name' = [name EXCEPT ![t] = n]
  /\ node' = [node EXCEPT ![t] = o]
  /\ UNCHANGED <<chM, cMode, mode, users, db, synced, dropped, todo>>

\* if(nodeMode() == Disabled) nodeEn(...).
AddMode(t) ==
  /\ pc[t] = "addMode"
  /\ Goto(t, IF ModeIs(t, "Disabled") THEN "enMode" ELSE "free")
  /\ UNCHANGED <<chM, tree, users, call>>

-----------------------------------------------------------------------------
(* nodeEn of a child *)

\* Where a call goes on after nodeEn returned, and after it threw.  load()
\* catches what is thrown.
AfterEn(t) == CASE op[t] \in {"add", "new", "undel", "unoff"} -> "free"
                [] op[t] = "load" -> "loaded"
                [] OTHER -> "back"
AfterEnThrow(t) == IF op[t] = "load" THEN "failed" ELSE "free"

EnMode(t) ==
  /\ pc[t] = "enMode"
  /\ Goto(t, IF ModeIs(t, "Enabled") THEN AfterEn(t)
             ELSE IF ModeIs(t, "Disabled") THEN "enSet" ELSE AfterEnThrow(t))
  /\ UNCHANGED <<chM, tree, users, call>>

\* preEnable() does not throw: the classes that have one catch everything.
EnSet(t) ==
  /\ pc[t] = "enSet"
  /\ SetMode(t, "DoEnable")
  /\ Goto(t, "enDone")
  /\ UNCHANGED <<chM, cMode, objs, users, store, call>>

EnDone(t) ==
  /\ pc[t] = "enDone"
  /\ SetMode(t, "Enabled")
  /\ Goto(t, AfterEn(t))
  /\ UNCHANGED <<chM, cMode, objs, users, store, call>>

-----------------------------------------------------------------------------
(* nodeDis of a child, from chldDel or from nodeDis of the container *)

\* chldDel: if(nodeMode() == Enabled) nodeDis(tm, flag).
DelMode(t) ==
  /\ pc[t] = "delMode"
  /\ Goto(t, IF ModeIs(t, "Enabled") THEN "disMode" ELSE "free")
  /\ UNCHANGED <<chM, tree, users, call>>

\* The call is left by an exception of nodeDis.
Undo(t) == op' = [op EXCEPT ![t] = IF @ = "off" THEN "unoff" ELSE "undel"]

\* Where a call goes on after nodeDis returned.
AfterDis(t) == IF op[t] = "off" THEN "back" ELSE "free"

\* nodeDis returns on a disabled node; it throws on one being processed, and
\* when preDisable() throws: the caller is left with its handle released.
DisMode(t) ==
  /\ pc[t] = "disMode"
  /\ \/ ModeIs(t, "Enabled") /\ Goto(t, "disSet") /\ UNCHANGED op
     \/ ModeIs(t, "Disabled") /\ Goto(t, AfterDis(t)) /\ UNCHANGED op
     \/ ~ModeIs(t, "Disabled") /\ Goto(t, "free") /\ Undo(t)
  /\ UNCHANGED <<chM, tree, users, name, node, todo, left>>

DisSet(t) ==
  /\ pc[t] = "disSet"
  /\ SetMode(t, "DoDisable")
  /\ Goto(t, "disWait")
  /\ UNCHANGED <<chM, cMode, objs, users, store, call>>

\* Mutant of DisWait: no waiting time.
DisWaitForEver(t) ==
  /\ pc[t] = "disWait"
  /\ ~InUse(node[t])
  /\ Goto(t, "disDone")
  /\ SetMode(t, "Disabled")
  /\ UNCHANGED <<chM, cMode, objs, users, store, call>>

\* Under dataRes(): nobody else uses the node, it is disabled in the same
\* section; or the waiting time is over.  The waiting itself changes nothing.
\* (At the exit of the process, isFinalKill(), the node is disabled although
\* it is used, "which can cause to crash": that is not modelled.)
DisWait(t) ==
  /\ pc[t] = "disWait"
  /\ IF InUse(node[t])
       THEN Goto(t, "disFail") /\ UNCHANGED mode
       ELSE Goto(t, "disDone") /\ SetMode(t, "Disabled")
  /\ UNCHANGED <<chM, cMode, objs, users, store, call>>

\* Mutant of DisDone: the node is not marked modified.
DisDoneUnmarked(t) ==
  /\ pc[t] = "disDone"
  /\ db' = db \ {name[t]}
  /\ synced' = synced \ {node[t]}
  /\ Goto(t, AfterDis(t))
  /\ UNCHANGED <<chM, cMode, mode, objs, users, modified, dropped, call>>

\* Mutant of DisDone: postDisable() is called without NodeRemove.
DisDoneKeepsRecord(t) ==
  /\ pc[t] = "disDone"
  /\ Mark(t)
  /\ Goto(t, AfterDis(t))
  /\ UNCHANGED <<chM, cMode, mode, objs, users, db, synced, call>>

\* modif(); postDisable(NodeRemove) erases the record in the storage, or throws
\* with the record erased or left.
DisDone(t) ==
  /\ pc[t] = "disDone"
  /\ Mark(t)
  /\ \/ /\ db' = db \ {name[t]}
        /\ synced' = synced \ {node[t]}
        /\ Goto(t, AfterDis(t)) \/ Goto(t, "disFail")
     \/ Goto(t, "disFail") /\ UNCHANGED <<db, synced>>
  /\ UNCHANGED <<chM, cMode, mode, objs, users, call>>

\* Mutant of DisFail: the error is passed on before the node is turned on.
DisFailStaysOff(t) ==
  /\ pc[t] = "disFail"
  /\ SetMode(t, "Disabled")
  /\ Undo(t)
  /\ Goto(t, "free")
  /\ UNCHANGED <<chM, cMode, objs, users, store, name, node, todo, left>>

\* "Turning on back the node": setNodeMode(Disabled), nodeEn(NodeRestore), and
\* the error goes on to the caller.
DisFail(t) ==
  /\ pc[t] = "disFail"
  /\ SetMode(t, "Disabled")
  /\ Undo(t)
  /\ Goto(t, "enMode")
  /\ UNCHANGED <<chM, cMode, objs, users, store, name, node, todo, left>>

-----------------------------------------------------------------------------
(* The end of chldAdd, chldDel and of a walk left by an exception *)

\* The handle is released (chldAdd of a new node has none).  What comes next
\* is the erasing in chldDel, or the container that is turned on back.
Free(t) ==
  /\ pc[t] = "free"
  /\ Detach(t)
  /\ cMode' = IF op[t] = "unoff" THEN "Disabled" ELSE cMode
  /\ IF op[t] \in {"del", "unoff"}
       THEN Goto(t, IF op[t] = "del" THEN "erase" ELSE "restore") /\ UNCHANGED call
       ELSE Return(t)
  /\ UNCHANGED <<chM, mode, objs, store>>

\* chldDel finds the name again under mChM and deletes the object it has.
Erase(t) ==
  /\ pc[t] = "erase"
  /\ chM = NoThread
  /\ LET o == inMap[name[t]]
     IN  IF o = NoObj THEN UNCHANGED <<alive, mode, inMap>>
         ELSE /\ alive' = [alive EXCEPT ![o] = "dead"]
              /\ mode' = [mode EXCEPT ![o] = "Disabled"]
              /\ inMap' = [inMap EXCEPT ![name[t]] = NoObj]
  /\ Return(t)
  /\ UNCHANGED <<chM, cMode, users, store>>

-----------------------------------------------------------------------------
(* Walks over the children: isModify, load, save, nodeDis and nodeEn *)

Walks == {"isModify", "load", "save", "off"}

\* chldList: every child, or for load and save the enabled ones.
Listed(k) ==
  {n \in Names : /\ cMode # "Disabled"
                 /\ inMap[n] # NoObj
                 /\ k \in {"load", "save"} => mode[inMap[n]] = "Enabled"}

\* nodeDis of the container sets DoDisable before it walks; load and save walk
\* when isModify(Child) says so, and hold cfgLoadSaveM as long as they run.
WalkBegin(t, k) ==
  /\ k \in Walks
  /\ Calling(t, k)
  /\ k \in {"load", "save"} => \A u \in Threads : op[u] \notin {"load", "save"}
  /\ k \in {"load", "save"} => \E n \in Listed(k) : modified[inMap[n]]
  /\ k = "off" => cMode = "Enabled"
  /\ Lock(t)
  /\ cMode' = IF k = "off" THEN "DoDisable" ELSE cMode
  /\ todo' = [todo EXCEPT ![t] = Listed(k)]
  /\ op' = [op EXCEPT ![t] = k]
  /\ Goto(t, "list")
  /\ UNCHANGED <<mode, objs, users, store, name, node>>

\* The next name of the list: looked up again, attached to when it is there.
WalkNext(t, n) ==
  /\ pc[t] = "list"
  /\ n \in todo[t]
  /\ todo' = [todo EXCEPT ![t] = @ \ {n}]
  /\ IF inMap[n] = NoObj
       THEN UNCHANGED <<users, pc, name, node>>
       ELSE /\ Attach(t, inMap[n])
            /\ name' = [name EXCEPT ![t] = n]
            /\ node' = [node EXCEPT ![t] = inMap[n]]
            /\ Goto(t, "visit")
  /\ UNCHANGED <<chM, tree, op, left>>

\* Does the walk go into the child?  isModify, nodeDis and nodeEn look at its
\* mode; load and save at its modification only.
GoesIn(t) ==
  CASE op[t] \in {"isModify", "off"} -> ModeIs(t, "Enabled")
    [] op[t] = "on" -> ModeIs(t, "Disabled")
    [] OTHER -> modified[node[t]]

Visit(t) ==
  /\ pc[t] = "visit"
  /\ IF GoesIn(t)
       THEN /\ Unlock(t)
            /\ Goto(t, CASE op[t] = "off" -> "disMode"
                         [] op[t] = "on" -> "enMode"
                         [] OTHER -> "child")
            /\ UNCHANGED users
       ELSE Detach(t) /\ Goto(t, "list") /\ UNCHANGED chM
  /\ UNCHANGED <<tree, call>>

\* save() of the child: save_() writes the record, or fails and leaves the
\* node modified.
SaveChild(t) ==
  /\ pc[t] = "child"
  /\ op[t] = "save"
  /\ \/ /\ modified[node[t]]
        /\ db' = db \cup {name[t]}
        /\ synced' = synced \cup {node[t]}
        /\ Goto(t, "saved")
     \/ Goto(t, "back") /\ UNCHANGED <<db, synced>>
  /\ UNCHANGED <<chM, cMode, mode, objs, users, modified, dropped, call>>

\* modifClr() after save_() returned.
Saved(t) ==
  /\ pc[t] = "saved"
  /\ Unmark(t)
  /\ Goto(t, "back")
  /\ UNCHANGED <<chM, cMode, mode, objs, users, db, synced, dropped, call>>

\* load() of the child: a disabled one is enabled first.
LoadChild(t) ==
  /\ pc[t] = "child"
  /\ op[t] = "load"
  /\ Goto(t, IF ~modified[node[t]] THEN "back"
             ELSE IF ModeIs(t, "Disabled") THEN "enMode" ELSE "loaded")
  /\ UNCHANGED <<chM, tree, users, call>>

\* load_() reads the record and modifClr() follows; or load_() throws, as it
\* does without a record.
Loaded(t) ==
  /\ pc[t] = "loaded"
  /\ \/ /\ name[t] \in db
        /\ Unmark(t)
        /\ synced' = synced \cup {node[t]}
        /\ dropped' = dropped \ {node[t]}
        /\ Goto(t, "back")
     \/ Goto(t, "failed") /\ UNCHANGED <<modified, synced, dropped>>
  /\ UNCHANGED <<chM, cMode, mode, objs, users, db, call>>

\* The catch of load(): the node stays modified; or modifClr() "for not
\* selected DB", the error without a category, and "for forcibly loaded nodes
\* since they must not be saved in whole".
LoadFails(t) ==
  /\ pc[t] = "failed"
  /\ \/ UNCHANGED <<modified, dropped>>
     \/ Unmark(t) /\ dropped' = dropped \cup {node[t]}
  /\ Goto(t, "back")
  /\ UNCHANGED <<chM, cMode, mode, objs, users, db, synced, call>>

\* isModify() of the child ends the walk when the child is modified.
IsModifyChild(t) ==
  /\ pc[t] = "child"
  /\ op[t] = "isModify"
  /\ todo' = [todo EXCEPT ![t] = IF modified[node[t]] THEN {} ELSE @]
  /\ Goto(t, "back")
  /\ UNCHANGED <<chM, tree, users, op, name, node, left>>

\* mChM is locked again, then the handle of the child goes out of scope.
Back(t) ==
  /\ pc[t] = "back"
  /\ Lock(t)
  /\ Detach(t)
  /\ Goto(t, "list")
  /\ UNCHANGED <<tree, call>>

\* The list is done.  nodeEn of the container ends here (setNodeMode).
WalkEnd(t) ==
  /\ pc[t] = "list"
  /\ todo[t] = {}
  /\ Unlock(t)
  /\ cMode' = IF op[t] = "on" THEN "Enabled" ELSE cMode
  /\ IF op[t] = "off" THEN Goto(t, "offEnd") /\ UNCHANGED call
                      ELSE Return(t)
  /\ UNCHANGED <<mode, objs, users, store>>

\* nodeDis of the container: its own users decide whether it is disabled or
\* turned on back; they are not modelled, either may happen.
OffEnd(t) ==
  /\ pc[t] = "offEnd"
  /\ cMode' = "Disabled"
  /\ Return(t) \/ (Goto(t, "restore") /\ UNCHANGED call)
  /\ UNCHANGED <<chM, mode, objs, users, store>>

\* "Turning on back the node" for the container: nodeEn() sets DoEnable and
\* walks the children.
Restore(t) ==
  /\ pc[t] = "restore"
  /\ Lock(t)
  /\ cMode' = "DoEnable"
  /\ todo' = [todo EXCEPT ![t] = {n \in Names : inMap[n] # NoObj}]
  /\ op' = [op EXCEPT ![t] = "on"]
  /\ Goto(t, "list")
  /\ UNCHANGED <<mode, objs, users, store, name, node, left>>

-----------------------------------------------------------------------------
(* The system *)

Start(t) ==
  \/ \E k \in {"use", "edit", "del"}, n \in Names : AtFind(t, k, n)
  \/ \E n \in Names : AddFound(t, n)
  \/ \E n \in Names, o \in Objs : AddNew(t, n, o)
  \/ \E k \in Walks : WalkBegin(t, k)

\* The steps a call takes once it has started.
Continue(t) ==
  \/ AtCheck(t) \/ Drop(t) \/ AddMode(t)
  \/ EnMode(t) \/ EnSet(t) \/ EnDone(t)
  \/ DelMode(t) \/ DisMode(t) \/ DisSet(t) \/ DisWait(t) \/ DisDone(t) \/ DisFail(t)
  \/ Free(t) \/ Erase(t)
  \/ \E n \in Names : WalkNext(t, n)
  \/ Visit(t) \/ SaveChild(t) \/ Saved(t) \/ LoadChild(t) \/ Loaded(t)
  \/ LoadFails(t) \/ IsModifyChild(t) \/ Back(t) \/ WalkEnd(t) \/ OffEnd(t) \/ Restore(t)

Resting == \A t \in Threads : pc[t] = "idle"

\* The station rests: nobody has to call anything.
Rest == Resting /\ UNCHANGED vars

Next == Rest \/ \E t \in Threads : Start(t) \/ Edit(t) \/ Continue(t)

Spec == Init /\ [][Next]_vars

\* The scheduler runs a started call on; a user may keep its handle.
Fairness == \A t \in Threads : WF_vars(Continue(t) /\ pc[t] # "hold")

FairSpec == Spec /\ Fairness

-----------------------------------------------------------------------------
(* Properties *)

\* Labels at which the thread goes on to use node[t].
Reaching(t) == pc[t] \notin {"idle", "list", "erase", "offEnd", "restore"}

\* AutoHD: a node is not deleted while somebody reaches it, by a counted
\* handle or, in chldAdd of a new node, by the pointer.
NoDangling ==
  \A t \in Threads : Reaching(t) => alive[node[t]] = "live"

\* What AutoHD is for: a node is not deleted while a counted handle is on it.
AutoHDHolds ==
  \A o \in Objs : users[o] # {} => alive[o] = "live"

\* mUse counts the handles there are: none is lost on an early return, on an
\* exception or on the way back into a walk, and none stays counted that is
\* gone.
HandlesCounted ==
  \A t \in Threads, o \in Objs :
    t \in users[o] <=> Reaching(t) /\ node[t] = o /\ op[t] # "new"

\* chldDel and nodeDis that fail put back what they had disabled: when no call
\* is under way, every node of an enabled container is enabled.
RestIsEnabled ==
  Resting /\ cMode # "Disabled" =>
    /\ cMode = "Enabled"
    /\ \A n \in Names : inMap[n] # NoObj => mode[inMap[n]] = "Enabled"

\* A node in the tree is marked modified or its record in the storage holds
\* its data, also after a removal that failed half-way.  Only a load() that
\* failed for the database not selected or for a forcible load gives a change
\* up, and only until the node is changed again.
ChangesTracked ==
  \A n \in Names :
    inMap[n] # NoObj => \/ modified[inMap[n]]
                        \/ inMap[n] \in synced /\ n \in db
                        \/ inMap[n] \in dropped

\* NodeRemove: "node complete removing also from the storage".  When no call
\* is under way, no record is left of a node that is not in the tree.
RemovedFromStorage ==
  Resting => \A n \in db : inMap[n] # NoObj

\* A deletion ends, whatever the users of the node do: with the node deleted
\* or with the error that it is used.
DeletionEnds ==
  \A t \in Threads : op[t] \in {"del", "off"} ~> pc[t] = "idle"
=============================================================================
