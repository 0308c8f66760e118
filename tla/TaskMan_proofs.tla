--------------------------- MODULE TaskMan_proofs ---------------------------
(***************************************************************************)
(* Proofs about TaskMan: for any callers, paths and tasks and any number   *)
(* of calls, mTasks lists exactly the tasks there are, and a task that     *)
(* taskCreate() has returned can be signalled.                             *)
(***************************************************************************)
EXTENDS TaskMan, TLAPS

\* What a caller relies on while it is in taskCreate() and taskDestroy().
CallsOK ==
  \A c \in Callers :
    /\ pc[c] # "idle" => path[c] \in Paths
    /\ pc[c] = "thread" => /\ mine[c] \in Tasks
                           /\ home[mine[c]] = path[c]
                           /\ task[mine[c]] = "made"
    /\ pc[c] = "named" => /\ mine[c] \in Tasks
                          /\ home[mine[c]] = path[c]
                          /\ task[mine[c]] \notin {"free", "made"}

\* A record is made by one caller.
OneMaker ==
  \A c, d \in Callers :
    pc[c] = "thread" /\ pc[d] = "thread" /\ mine[c] = mine[d] => c = d

IInv == TypeOK /\ TasksListed /\ CreatedHasThread /\ CallsOK /\ OneMaker

-----------------------------------------------------------------------------
(* Steps of threads.                                                       *)

\* States of a task whose thread is there or has just ended.
Alive == TaskStates \ {"free", "gone", "made"}

\* A step that moves tasks among the states of a living thread, not back to
\* "starting", and nothing else but what was asked and who was first.
LEMMA AliveKeeps ==
  ASSUME TaskAssumption, IInv,
         task' \in [Tasks -> TaskStates],
         \A o \in Tasks : \/ task'[o] = task[o]
                          \/ task[o] \in Alive /\ task'[o] \in Alive \ {"starting"},
         asked' \in [Tasks -> BOOLEAN],
         first' \in [Callers -> BOOLEAN],
         left' \in [Callers -> 0..MaxCalls],
         UNCHANGED <<entry, home, pc, path, mine>>
  PROVE  IInv'
<1>1. TypeOK'
  BY DEF IInv, TypeOK
<1>2. TasksListed'
  BY DEF IInv, TasksListed, Alive
<1>3. CreatedHasThread'
  BY DEF IInv, CreatedHasThread, Alive, Detached
<1>4. CallsOK'
  BY DEF IInv, CallsOK, Alive
<1>5. OneMaker'
  BY DEF IInv, OneMaker
<1>6. QED
  BY <1>1, <1>2, <1>3, <1>4, <1>5 DEF IInv

LEMMA ThreadKeeps ==
  ASSUME TaskAssumption, IInv, NEW o \in Tasks,
         \/ ThrSet(o) \/ Masked(o) \/ TaskEndRun(o) \/ Blocks(o)
         \/ Event(o) \/ Leaves(o) \/ Finish(o)
  PROVE  IInv'
<1>1. PICK from \in Alive, to \in Alive \ {"starting"} : Step(o, from, to)
  BY DEF ThrSet, Masked, TaskEndRun, Blocks, Event, Leaves, Finish, Alive, TaskStates, InTask
<1>2. /\ task' \in [Tasks -> TaskStates]
      /\ \A k \in Tasks : \/ task'[k] = task[k]
                          \/ task[k] \in Alive /\ task'[k] \in Alive \ {"starting"}
  BY <1>1 DEF Step, IInv, TypeOK, Alive
<1>3. UNCHANGED <<entry, home, asked, pc, path, mine, first, left>>
  BY <1>1 DEF Step, caller
<1>4. QED
  BY <1>2, <1>3, AliveKeeps DEF IInv, TypeOK

\* A detached task erases itself.
LEMMA DestroySelfKeeps ==
  ASSUME TaskAssumption, IInv, NEW o \in Tasks, DestroySelf(o)
  PROVE  IInv'
<1>1. /\ task \in [Tasks -> TaskStates] /\ entry \in [Paths -> Tasks \cup {NoTask}]
      /\ home \in [Tasks -> Paths \cup {NoPath}]
  BY DEF IInv, TypeOK
<1>2. task[o] = "finished" /\ home[o] \in Paths /\ entry[home[o]] = o
  BY <1>1 DEF DestroySelf, Detached, TaskAssumption, IInv, TasksListed
<1>3. /\ \A k \in Tasks : task'[k] = IF k = o THEN "gone" ELSE task[k]
      /\ \A p \in Paths : entry'[p] = IF p = home[o] THEN NoTask ELSE entry[p]
      /\ UNCHANGED <<home, asked, pc, path, mine, first, left>>
  BY <1>1, <1>2 DEF DestroySelf, Over, caller
<1>4. TypeOK'
  BY <1>1 DEF IInv, TypeOK, DestroySelf, Over, caller, TaskStates
<1>5. TasksListed'
  BY <1>1, <1>2, <1>3 DEF IInv, TasksListed, TaskAssumption
<1>6. CreatedHasThread'
  BY <1>3 DEF IInv, CreatedHasThread, Detached
<1>7. CallsOK' /\ OneMaker'
  BY <1>2, <1>3 DEF IInv, CallsOK, OneMaker
<1>8. QED
  BY <1>4, <1>5, <1>6, <1>7 DEF IInv

-----------------------------------------------------------------------------
(* Steps of callers.                                                       *)

\* What a return and a move to another place of the call change.
LEMMA ReturnEffect ==
  ASSUME IInv, NEW c \in Callers, Return(c)
  PROVE  /\ pc' \in [Callers -> CallPc] /\ path' \in [Callers -> Paths \cup {NoPath}]
         /\ mine' \in [Callers -> Tasks \cup {NoTask}]
         /\ first' \in [Callers -> BOOLEAN] /\ left' = left
         /\ pc'[c] = "idle"
         /\ \A d \in Callers \ {c} :
              pc'[d] = pc[d] /\ path'[d] = path[d] /\ mine'[d] = mine[d]
BY DEF IInv, TypeOK, Return, Goto, CallPc

LEMMA GotoEffect ==
  ASSUME IInv, NEW c \in Callers, NEW l \in CallPc, Goto(c, l)
  PROVE  /\ pc' \in [Callers -> CallPc]
         /\ \A d \in Callers : pc'[d] = IF d = c THEN l ELSE pc[d]
BY DEF IInv, TypeOK, Goto

\* A caller returns or moves on, but for the making of a thread, and no task
\* changes: every task it leaves behind can be signalled or is detached.
LEMMA CallerKeeps ==
  ASSUME TaskAssumption, IInv, NEW c \in Callers,
         pc[c] # "thread",
         pc[c] = "named" => \/ task[mine[c]] # "starting"
                            \/ Detached(mine[c]),
         UNCHANGED <<entry, task, home, asked>>,
         pc' \in [Callers -> CallPc], path' \in [Callers -> Paths \cup {NoPath}],
         mine' \in [Callers -> Tasks \cup {NoTask}],
         first' \in [Callers -> BOOLEAN], left' \in [Callers -> 0..MaxCalls],
         pc'[c] \notin {"thread", "named"},
         pc'[c] # "idle" => path'[c] \in Paths,
         \A d \in Callers \ {c} : pc'[d] = pc[d] /\ path'[d] = path[d] /\ mine'[d] = mine[d]
  PROVE  IInv'
<1>1. TypeOK'
  BY DEF IInv, TypeOK
<1>2. TasksListed'
  BY DEF IInv, TasksListed
<1>3. CreatedHasThread'
  <2> SUFFICES ASSUME NEW o \in Tasks, task[o] \in {"made", "starting"}, ~Detached(o)
               PROVE  \E d \in Callers : pc'[d] \in {"thread", "named"} /\ mine'[d] = o
    BY DEF CreatedHasThread, Detached
  <2>1. PICK d \in Callers : pc[d] \in {"thread", "named"} /\ mine[d] = o
    BY DEF IInv, CreatedHasThread
  <2>2. d # c
    BY <2>1 DEF IInv, CallsOK
  <2>3. QED
    BY <2>1, <2>2
<1>4. CallsOK'
  BY DEF IInv, CallsOK
<1>5. OneMaker'
  BY DEF IInv, OneMaker
<1>6. QED
  BY <1>1, <1>2, <1>3, <1>4, <1>5 DEF IInv

LEMMA CreateCallKeeps ==
  ASSUME TaskAssumption, IInv, NEW c \in Callers, NEW p \in Paths, CreateCall(c, p)
  PROVE  IInv'
<1>1. /\ pc[c] = "idle"
      /\ UNCHANGED <<entry, task, home, asked, mine, first>>
  BY DEF CreateCall, Call, thread
<1>2. /\ pc' \in [Callers -> CallPc]
      /\ \A d \in Callers : pc'[d] = IF d = c THEN "find" ELSE pc[d]
  BY GotoEffect DEF CreateCall, CallPc
<1>3. /\ path' \in [Callers -> Paths \cup {NoPath}] /\ path'[c] = p
      /\ \A d \in Callers \ {c} : path'[d] = path[d]
  BY DEF IInv, TypeOK, CreateCall
<1>4. left' \in [Callers -> 0..MaxCalls]
  BY DEF IInv, TypeOK, CreateCall, Call, TaskAssumption
<1>5. QED
  BY <1>1, <1>2, <1>3, <1>4, CallerKeeps DEF IInv, TypeOK

LEMMA DestroyCallKeeps ==
  ASSUME TaskAssumption, IInv, NEW c \in Callers, NEW p \in Paths, DestroyCall(c, p)
  PROVE  IInv'
<1>1. /\ pc[c] = "idle"
      /\ UNCHANGED <<entry, task, home, asked, mine>>
  BY DEF DestroyCall, Call, thread
<1>2. /\ pc' \in [Callers -> CallPc]
      /\ \A d \in Callers : pc'[d] = IF d = c THEN "stop" ELSE pc[d]
  BY GotoEffect DEF DestroyCall, CallPc
<1>3. /\ path' \in [Callers -> Paths \cup {NoPath}] /\ path'[c] = p
      /\ \A d \in Callers \ {c} : path'[d] = path[d]
  BY DEF IInv, TypeOK, DestroyCall
<1>4. left' \in [Callers -> 0..MaxCalls]
  BY DEF IInv, TypeOK, DestroyCall, Call, TaskAssumption
<1>5. first' \in [Callers -> BOOLEAN]
  BY DEF IInv, TypeOK, DestroyCall
<1>6. QED
  BY <1>1, <1>2, <1>3, <1>4, <1>5, CallerKeeps DEF IInv, TypeOK

\* The ends of calls that change no task.
LEMMA ReturnKeeps ==
  ASSUME TaskAssumption, IInv, NEW c \in Callers,
         CreatePresent(c) \/ CreateStarted(c) \/ DestroyTimeOut(c)
  PROVE  IInv'
<1>1. pc[c] \notin {"thread", "named"} /\ Return(c) /\ UNCHANGED <<entry, task, home, asked>>
  BY DEF CreatePresent, CreateStarted, DestroyTimeOut, thread
<1>2. QED
  BY <1>1, ReturnEffect, CallerKeeps DEF IInv, TypeOK

LEMMA CreateNamedKeeps ==
  ASSUME TaskAssumption, IInv, NEW c \in Callers, CreateNamed(c)
  PROVE  IInv'
<1>1. pc[c] = "named" /\ UNCHANGED <<entry, task, home, asked>>
  BY DEF CreateNamed, thread
<1>2. path[c] \in Paths /\ mine[c] \in Tasks /\ home[mine[c]] = path[c]
  BY <1>1 DEF IInv, CallsOK
<1>3. task[mine[c]] # "starting" \/ Detached(mine[c])
  <2>1. CASE Dangling(c)
    BY <1>2, <2>1 DEF Dangling, Listed, IInv, TasksListed
  <2>2. CASE ~Dangling(c)
    BY <2>2 DEF CreateNamed
  <2>3. QED
    BY <2>1, <2>2
<1>4. CASE Return(c)
  BY <1>1, <1>3, <1>4, ReturnEffect, CallerKeeps DEF IInv, TypeOK
<1>5. CASE \E l \in {"start", "hung"} : Goto(c, l) /\ UNCHANGED <<path, mine, first, left>>
  <2>1. PICK l \in {"start", "hung"} : Goto(c, l) /\ UNCHANGED <<path, mine, first, left>>
    BY <1>5
  <2>2. l \in CallPc
    BY DEF CallPc
  <2>3. /\ pc' \in [Callers -> CallPc]
        /\ \A d \in Callers : pc'[d] = IF d = c THEN l ELSE pc[d]
    BY <2>1, <2>2, GotoEffect
  <2>4. QED
    BY <1>1, <1>2, <1>3, <2>1, <2>3, CallerKeeps DEF IInv, TypeOK
<1>6. QED
  BY <1>4, <1>5 DEF CreateNamed

\* A new record: the one that finished before it, if any, is joined and gone.
LEMMA CreateRecordKeeps ==
  ASSUME TaskAssumption, IInv, NEW c \in Callers, NEW o \in Tasks, CreateRecord(c, o)
  PROVE  IInv'
<1> DEFINE p == path[c]
           old == entry[path[c]]
<1>1. /\ task \in [Tasks -> TaskStates] /\ entry \in [Paths -> Tasks \cup {NoTask}]
      /\ home \in [Tasks -> Paths \cup {NoPath}] /\ mine \in [Callers -> Tasks \cup {NoTask}]
  BY DEF IInv, TypeOK
<1>2. p \in Paths /\ task[o] = "free" /\ pc[c] = "find"
  BY DEF CreateRecord, IsNew, IInv, CallsOK
<1>3. /\ pc' \in [Callers -> CallPc]
      /\ \A d \in Callers : pc'[d] = IF d = c THEN "thread" ELSE pc[d]
  BY GotoEffect DEF CreateRecord, CallPc
<1>4. /\ \A q \in Paths : entry'[q] = IF q = p THEN o ELSE entry[q]
      /\ \A k \in Tasks : home'[k] = IF k = o THEN p ELSE home[k]
      /\ \A d \in Callers : mine'[d] = IF d = c THEN o ELSE mine[d]
      /\ UNCHANGED <<asked, path, first, left>>
  BY <1>1, <1>2 DEF CreateRecord
<1>5. old # NoTask => old \in Tasks /\ old # o /\ home[old] = p /\ task[old] = "finished"
  BY <1>1, <1>2 DEF CreateRecord, Listed, IInv, TasksListed
<1>6. /\ task' \in [Tasks -> TaskStates]
      /\ \A k \in Tasks : task'[k] = IF k = o THEN "made" ELSE IF k = old THEN "gone" ELSE task[k]
  BY <1>1, <1>2, <1>5 DEF CreateRecord, Listed, Over, TaskStates, TaskAssumption
<1>7. TypeOK'
  BY <1>1, <1>2, <1>3, <1>6 DEF IInv, TypeOK, CreateRecord
<1>8. TasksListed'
  <2> SUFFICES ASSUME NEW k \in Tasks, NEW q \in Paths
               PROVE  entry'[q] = k <=> home'[k] = q /\ task'[k] \notin {"free", "gone"}
    BY DEF TasksListed
  <2>1. entry[q] = k <=> home[k] = q /\ task[k] \notin {"free", "gone"}
    BY DEF IInv, TasksListed
  <2>2. CASE k = o
    BY <1>2, <1>4, <1>6, <2>1, <2>2
  <2>3. CASE k # o /\ k = old
    BY <1>2, <1>4, <1>5, <1>6, <2>1, <2>3
  <2>4. CASE k # o /\ k # old
    BY <1>2, <1>4, <1>6, <2>1, <2>4
  <2>5. QED
    BY <2>2, <2>3, <2>4
<1>9. CreatedHasThread'
  <2> SUFFICES ASSUME NEW k \in Tasks, task'[k] \in {"made", "starting"},
                      home'[k] \notin DetachedPaths
               PROVE  \E d \in Callers : pc'[d] \in {"thread", "named"} /\ mine'[d] = k
    BY DEF CreatedHasThread, Detached
  <2>1. CASE k = o
    BY <1>3, <1>4, <2>1
  <2>2. CASE k # o
    <3>1. task[k] \in {"made", "starting"} /\ home[k] \notin DetachedPaths
      BY <1>4, <1>6, <2>2
    <3>2. PICK d \in Callers : pc[d] \in {"thread", "named"} /\ mine[d] = k
      BY <3>1 DEF IInv, CreatedHasThread, Detached
    <3>3. QED
      BY <1>2, <1>3, <1>4, <3>2
  <2>3. QED
    BY <2>1, <2>2
<1>10. CallsOK'
  BY <1>2, <1>3, <1>4, <1>5, <1>6 DEF IInv, CallsOK
<1>11. OneMaker'
  BY <1>2, <1>3, <1>4 DEF IInv, OneMaker, CallsOK
<1>12. QED
  BY <1>7, <1>8, <1>9, <1>10, <1>11 DEF IInv

LEMMA CreateThreadKeeps ==
  ASSUME TaskAssumption, IInv, NEW c \in Callers, CreateThread(c)
  PROVE  IInv'
<1> DEFINE o == mine[c]
           p == path[c]
<1>1. /\ task \in [Tasks -> TaskStates] /\ entry \in [Paths -> Tasks \cup {NoTask}]
  BY DEF IInv, TypeOK
<1>2. pc[c] = "thread" /\ p \in Paths /\ o \in Tasks /\ home[o] = p /\ task[o] = "made"
  BY DEF CreateThread, IInv, CallsOK
<1>3. entry[p] = o
  BY <1>2 DEF IInv, TasksListed
<1>4. UNCHANGED <<home, asked>>
  BY DEF CreateThread
<1>5. \A d \in Callers \ {c} : pc[d] = "thread" => mine[d] # o
  BY <1>2 DEF IInv, OneMaker
<1>6. \A d \in Callers : pc[d] = "named" => mine[d] # o
  BY <1>2 DEF IInv, CallsOK
<1>7. CASE /\ task' = [task EXCEPT ![o] = "starting"]
           /\ Goto(c, "named")
           /\ UNCHANGED <<entry, path, mine, first, left>>
  <2>1. /\ task' \in [Tasks -> TaskStates]
        /\ \A k \in Tasks : task'[k] = IF k = o THEN "starting" ELSE task[k]
    BY <1>1, <1>2, <1>7 DEF TaskStates
  <2>2. /\ pc' \in [Callers -> CallPc]
        /\ \A d \in Callers : pc'[d] = IF d = c THEN "named" ELSE pc[d]
    BY <1>7, GotoEffect DEF CallPc
  <2>3. TypeOK'
    BY <1>4, <1>7, <2>1, <2>2 DEF IInv, TypeOK
  <2>4. TasksListed'
    BY <1>2, <1>4, <1>7, <2>1 DEF IInv, TasksListed
  <2>5. CreatedHasThread'
    BY <1>2, <1>4, <1>7, <2>1, <2>2 DEF IInv, CreatedHasThread, Detached
  <2>6. CallsOK'
    BY <1>2, <1>4, <1>5, <1>7, <2>1, <2>2 DEF IInv, CallsOK
  <2>7. OneMaker'
    BY <1>7, <2>2 DEF IInv, OneMaker
  <2>8. QED
    BY <2>3, <2>4, <2>5, <2>6, <2>7 DEF IInv
<1>8. CASE /\ task' = Over(o)
           /\ entry' = [entry EXCEPT ![p] = NoTask]
           /\ Return(c)
  <2>1. /\ task' \in [Tasks -> TaskStates]
        /\ \A k \in Tasks : task'[k] = IF k = o THEN "gone" ELSE task[k]
        /\ entry' \in [Paths -> Tasks \cup {NoTask}]
        /\ \A q \in Paths : entry'[q] = IF q = p THEN NoTask ELSE entry[q]
    BY <1>1, <1>2, <1>8 DEF TaskStates, Over
  <2>2. TypeOK'
    BY <1>4, <1>8, <2>1, ReturnEffect DEF IInv, TypeOK
  <2>3. TasksListed'
    BY <1>2, <1>3, <1>4, <2>1 DEF IInv, TasksListed, TaskAssumption
  <2>4. CreatedHasThread'
    <3> SUFFICES ASSUME NEW k \in Tasks, task'[k] \in {"made", "starting"},
                        home[k] \notin DetachedPaths
                 PROVE  \E d \in Callers : pc'[d] \in {"thread", "named"} /\ mine'[d] = k
      BY <1>4 DEF CreatedHasThread, Detached
    <3>1. k # o /\ task[k] \in {"made", "starting"}
      BY <2>1
    <3>2. PICK d \in Callers : pc[d] \in {"thread", "named"} /\ mine[d] = k
      BY <3>1 DEF IInv, CreatedHasThread, Detached
    <3>3. QED
      BY <1>8, <3>1, <3>2, ReturnEffect
  <2>5. CallsOK'
    BY <1>4, <1>5, <1>6, <1>8, <2>1, ReturnEffect DEF IInv, CallsOK
  <2>6. OneMaker'
    BY <1>8, ReturnEffect DEF IInv, OneMaker
  <2>7. QED
    BY <2>2, <2>3, <2>4, <2>5, <2>6 DEF IInv
<1>9. QED
  BY <1>7, <1>8 DEF CreateThread

LEMMA DestroyEndKeeps ==
  ASSUME TaskAssumption, IInv, NEW c \in Callers, DestroyEnd(c)
  PROVE  IInv'
<1> DEFINE o == entry[path[c]]
           p == path[c]
<1>1. pc[c] = "stop" /\ Return(c) /\ UNCHANGED <<home, asked>> /\ p \in Paths
  BY DEF DestroyEnd, IInv, CallsOK
<1>2. CASE UNCHANGED <<entry, task>>
  BY <1>1, <1>2, ReturnEffect, CallerKeeps DEF IInv, TypeOK
<1>3. CASE /\ o # NoTask /\ task[o] = "finished"
           /\ task' = Over(o)
           /\ entry' = [entry EXCEPT ![p] = NoTask]
  <2>1. /\ task \in [Tasks -> TaskStates] /\ entry \in [Paths -> Tasks \cup {NoTask}]
        /\ o \in Tasks
    BY <1>1, <1>3 DEF IInv, TypeOK
  <2>2. home[o] = p
    BY <1>1, <2>1 DEF IInv, TasksListed
  <2>3. /\ task' \in [Tasks -> TaskStates]
        /\ \A k \in Tasks : task'[k] = IF k = o THEN "gone" ELSE task[k]
        /\ entry' \in [Paths -> Tasks \cup {NoTask}]
        /\ \A q \in Paths : entry'[q] = IF q = p THEN NoTask ELSE entry[q]
    BY <1>1, <1>3, <2>1 DEF TaskStates, Over
  <2>4. TypeOK'
    BY <1>1, <2>3, ReturnEffect DEF IInv, TypeOK
  <2>5. TasksListed'
    BY <1>1, <1>3, <2>1, <2>2, <2>3 DEF IInv, TasksListed, TaskAssumption
  <2>6. CreatedHasThread'
    <3> SUFFICES ASSUME NEW k \in Tasks, task'[k] \in {"made", "starting"},
                        home[k] \notin DetachedPaths
                 PROVE  \E d \in Callers : pc'[d] \in {"thread", "named"} /\ mine'[d] = k
      BY <1>1 DEF CreatedHasThread, Detached
    <3>1. task[k] \in {"made", "starting"}
      BY <2>3
    <3>2. PICK d \in Callers : pc[d] \in {"thread", "named"} /\ mine[d] = k
      BY <3>1 DEF IInv, CreatedHasThread, Detached
    <3>3. QED
      BY <1>1, <3>2, ReturnEffect
  <2>7. CallsOK'
    <3> SUFFICES ASSUME NEW d \in Callers, d # c PROVE
          /\ pc[d] = "thread" => mine[d] # o
          /\ pc[d] = "named" => task'[mine[d]] \notin {"free", "made"}
      BY <1>1, <2>3, ReturnEffect DEF IInv, CallsOK
    <3>1. QED
      BY <1>3, <2>3 DEF IInv, CallsOK
  <2>8. OneMaker'
    BY <1>1, ReturnEffect DEF IInv, OneMaker
  <2>9. QED
    BY <2>4, <2>5, <2>6, <2>7, <2>8 DEF IInv
<1>4. QED
  BY <1>2, <1>3 DEF DestroyEnd, Listed

\* Signals only wake a blocked thread.
LEMMA SignalKeeps ==
  ASSUME TaskAssumption, IInv, NEW c \in Callers,
         DestroySignal(c) \/ \E p \in Paths : SendSIGALRM(c, p)
  PROVE  IInv'
<1>1. PICK o : task' = Alarmed(o)
  BY DEF DestroySignal, SendSIGALRM
<1>2. /\ task' \in [Tasks -> TaskStates]
      /\ \A k \in Tasks : \/ task'[k] = task[k]
                          \/ task[k] = "blocked" /\ task'[k] = "test"
  BY <1>1 DEF Alarmed, IInv, TypeOK, TaskStates, InTask
<1>3. asked' \in [Tasks -> BOOLEAN]
  BY DEF DestroySignal, SendSIGALRM, IInv, TypeOK
<1>4. first' \in [Callers -> BOOLEAN]
  BY DEF DestroySignal, SendSIGALRM, IInv, TypeOK
<1>5. left' \in [Callers -> 0..MaxCalls]
  BY DEF DestroySignal, SendSIGALRM, Call, IInv, TypeOK, TaskAssumption
<1>6. UNCHANGED <<entry, home, pc, path, mine>>
  BY DEF DestroySignal, SendSIGALRM
<1>7. \A k \in Tasks : \/ task'[k] = task[k]
                       \/ task[k] \in Alive /\ task'[k] \in Alive \ {"starting"}
  BY <1>2 DEF Alive, TaskStates, InTask
<1>8. QED
  BY <1>2, <1>3, <1>4, <1>5, <1>6, <1>7, AliveKeeps

-----------------------------------------------------------------------------
(* The theorems.                                                           *)

LEMMA InitEstablishes == ASSUME TaskAssumption PROVE Init => IInv
BY DEF TaskAssumption, Init, IInv, TypeOK, TasksListed, CreatedHasThread, CallsOK, OneMaker,
       TaskStates, CallPc

LEMMA NextKeeps == ASSUME TaskAssumption, IInv, [Next]_vars PROVE IInv'
<1>1. ASSUME UNCHANGED vars PROVE IInv'
  BY <1>1 DEF vars, thread, caller, IInv, TypeOK, TasksListed, CreatedHasThread, CallsOK,
              OneMaker, Detached
<1>2. ASSUME NEW c \in Callers, Continue(c) PROVE IInv'
  BY <1>2, CreateRecordKeeps, CreateThreadKeeps, CreateNamedKeeps, ReturnKeeps, SignalKeeps,
     DestroyEndKeeps DEF Continue
<1>3. ASSUME NEW c \in Callers, CreatePresent(c) \/ DestroyTimeOut(c) PROVE IInv'
  BY <1>3, ReturnKeeps
<1>4. ASSUME NEW c \in Callers, NEW p \in Paths,
             CreateCall(c, p) \/ DestroyCall(c, p) \/ SendSIGALRM(c, p)
      PROVE  IInv'
  BY <1>4, CreateCallKeeps, DestroyCallKeeps, SignalKeeps
<1>5. ASSUME NEW o \in Tasks, Runs(o) \/ Event(o) \/ Leaves(o) PROVE IInv'
  BY <1>5, ThreadKeeps, DestroySelfKeeps DEF Runs
<1>6. QED
  BY <1>1, <1>2, <1>3, <1>4, <1>5 DEF Next, Rest

\* The inductive invariant holds in every behaviour of the tasks.
THEOREM Invariance == ASSUME TaskAssumption PROVE Spec => []IInv
<1>1. Init => IInv
  BY InitEstablishes
<1>2. IInv /\ [Next]_vars => IInv'
  BY NextKeeps
<1>3. QED
  BY <1>1, <1>2, PTL DEF Spec

\* The variables keep their types: no call moves a task to a state it has not
\* and none counts below zero.
THEOREM Types == ASSUME TaskAssumption PROVE Spec => []TypeOK
<1>1. IInv => TypeOK
  BY DEF IInv
<1>2. QED
  BY <1>1, Invariance, PTL

\* mTasks lists exactly the tasks there are: taskCreate(), taskDestroy() and the
\* self-destruction of detached tasks lose no thread and keep none.
THEOREM Listing == ASSUME TaskAssumption PROVE Spec => []TasksListed
<1>1. IInv => TasksListed
  BY DEF IInv
<1>2. QED
  BY <1>1, Invariance, PTL

\* A task whose thread cannot be signalled yet is still being created.
THEOREM Signalable == ASSUME TaskAssumption PROVE Spec => []CreatedHasThread
<1>1. IInv => CreatedHasThread
  BY DEF IInv
<1>2. QED
  BY <1>1, Invariance, PTL
=============================================================================
