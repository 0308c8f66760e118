------------------------------- MODULE TaskMan -------------------------------
(***************************************************************************)
(* The tasks of the station (TSYS in src/src/tsys.cpp): the table mTasks,  *)
(* taskCreate(), taskDestroy(), taskSendSIGALRM(), taskWrap() and the way  *)
(* a task function tests for its end with taskEndRun().                    *)
(*                                                                         *)
(* A record STask of mTasks and its thread are one task o: task[o] says    *)
(* how far the thread is, home[o] its path, asked[o] that SIGUSR1 waits    *)
(* blocked for it.  A section of taskRes is one step.  A caller works on   *)
(* path[c]; mine[c] is the reference htsk that taskCreate() keeps after    *)
(* the section.  The time limits wtm are choices: the waiting may be over  *)
(* at any time, where TimeOuts allows one.                                 *)
(***************************************************************************)
EXTENDS Naturals

CONSTANTS Callers, Paths,
          DetachedPaths,  \* paths of the clients' tasks, created detached
          Tasks,          \* bound: tasks created
          NoTask, NoPath,
          Ops,            \* what a caller may call
          StartSt,        \* is startSt given to taskCreate()?
          TimeOuts,       \* the waits that have a limit
          MaxCalls        \* bound: calls of a caller

ASSUME TaskAssumption ==
  /\ NoTask \notin Tasks /\ NoPath \notin Paths
  /\ DetachedPaths \subseteq Paths
  /\ Ops \in [Callers -> SUBSET {"create", "destroy", "alarm"}]
  /\ StartSt \subseteq BOOLEAN
  /\ TimeOuts \subseteq {"present", "start", "stop"}
  /\ MaxCalls \in Nat

VARIABLES entry, task, home, asked, pc, path, mine, first, left

thread == <<task, home, asked>>
caller == <<pc, path, mine, first, left>>
vars == <<entry, thread, caller>>

\* "made": listed, without a thread; "starting": thr is 0 yet; "named": thr is
\* set, SIGUSR1 still unblocked; "test" and "going": around taskEndRun();
\* "blocked": in a sleep, a select, a read; "returned": the task function is
\* over; "finished": FinishTask is set.
InTask == {"test", "going", "blocked", "returned"}
TaskStates == {"free", "made", "starting", "named", "finished", "gone"} \cup InTask
CallPc == {"idle", "find", "thread", "named", "start", "stop", "hung"}

TypeOK ==
  /\ entry \in [Paths -> Tasks \cup {NoTask}]
  /\ task \in [Tasks -> TaskStates]
  /\ home \in [Tasks -> Paths \cup {NoPath}]
  /\ asked \in [Tasks -> BOOLEAN]
  /\ pc \in [Callers -> CallPc]
  /\ path \in [Callers -> Paths \cup {NoPath}]
  /\ mine \in [Callers -> Tasks \cup {NoTask}]
  /\ first \in [Callers -> BOOLEAN]
  /\ left \in [Callers -> 0..MaxCalls]

Init ==
  /\ entry = [p \in Paths |-> NoTask]
  /\ task = [o \in Tasks |-> "free"]
  /\ home = [o \in Tasks |-> NoPath]
  /\ asked = [o \in Tasks |-> FALSE]
  /\ pc = [c \in Callers |-> "idle"]
  /\ path = [c \in Callers |-> NoPath]
  /\ mine = [c \in Callers |-> NoTask]
  /\ first = [c \in Callers |-> FALSE]
  /\ left = [c \in Callers |-> MaxCalls]

Detached(o) == home[o] \in DetachedPaths

-----------------------------------------------------------------------------
(* Callers *)

Call(c, k) ==
  /\ pc[c] = "idle"
  /\ k \in Ops[c]
  /\ left[c] > 0
  /\ left' = [left EXCEPT ![c] = @ - 1]

Goto(c, l) == pc' = [pc EXCEPT ![c] = l]

\* The call returns or throws.
Return(c) ==
  /\ Goto(c, "idle")
  /\ path' = [path EXCEPT ![c] = NoPath]
  /\ mine' = [mine EXCEPT ![c] = NoTask]
  /\ first' = [first EXCEPT ![c] = FALSE]
  /\ UNCHANGED left

\* What is listed at the path of the caller.
Listed(c) == entry[path[c]]

\* The record that taskCreate() goes on to read was erased.
Dangling(c) == Listed(c) # mine[c]

\* pthread_join() of a thread that has ended, and mTasks.erase().
Over(o) == [task EXCEPT ![o] = "gone"]

\* Records are all alike: the next one.
IsNew(o) == task[o] = "free" /\ o = CHOOSE k \in Tasks : task[k] = "free"

CreateCall(c, p) ==
  /\ Call(c, "create")
  /\ path' = [path EXCEPT ![c] = p]
  /\ Goto(c, "find")
  /\ UNCHANGED <<entry, thread, mine, first>>

\* No task is listed, or one that finished and is joined and removed: a new
\* record is made.
CreateRecord(c, o) ==
  /\ pc[c] = "find"
  /\ IsNew(o)
  /\ \/ Listed(c) = NoTask /\ task' = [task EXCEPT ![o] = "made"]
     \/ /\ Listed(c) # NoTask
        /\ task[Listed(c)] = "finished" /\ ~Detached(Listed(c))
        /\ task' = [Over(Listed(c)) EXCEPT ![o] = "made"]
  /\ entry' = [entry EXCEPT ![path[c]] = o]
  /\ home' = [home EXCEPT ![o] = path[c]]
  /\ mine' = [mine EXCEPT ![c] = o]
  /\ Goto(c, "thread")
  /\ UNCHANGED <<asked, path, first, left>>

\* Mutant of CreatePresent: the creation is tried again, without a limit.
CreateRetried(c) ==
  /\ pc[c] = "find"
  /\ "present" \in TimeOuts
  /\ Listed(c) # NoTask
  /\ left' = [left EXCEPT ![c] = @ - 1]
  /\ UNCHANGED <<entry, thread, pc, path, mine, first>>

\* "Task is already present!"
CreatePresent(c) ==
  /\ pc[c] = "find"
  /\ "present" \in TimeOuts
  /\ Listed(c) # NoTask
  /\ Return(c)
  /\ UNCHANGED <<entry, thread>>

\* pthread_create(), and when it fails the record is erased.
CreateThread(c) ==
  /\ pc[c] = "thread"
  /\ \/ /\ task' = [task EXCEPT ![mine[c]] = "starting"]
        /\ Goto(c, "named")
        /\ UNCHANGED <<entry, path, mine, first, left>>
     \/ /\ task' = Over(mine[c])
        /\ entry' = [entry EXCEPT ![path[c]] = NoTask]
        /\ Return(c)
  /\ UNCHANGED <<home, asked>>

\* Mutant of CreateNamed: taskCreate() does not wait for thr.
CreateUnnamed(c) ==
  /\ pc[c] = "named"
  /\ Return(c)
  /\ UNCHANGED <<entry, thread>>

\* The wait for htsk.thr is over, or there is none for a detached task; the
\* wait for *startSt may follow.  Of an erased record htsk.flgs and htsk.thr
\* read as anything: the call returns, goes on, or waits for ever.
CreateNamed(c) ==
  /\ pc[c] = "named"
  /\ \/ Dangling(c) /\ (Return(c) \/ \E l \in {"start", "hung"} :
                          Goto(c, l) /\ UNCHANGED <<path, mine, first, left>>)
     \/ ~Dangling(c) /\ Detached(mine[c]) /\ Return(c)
     \/ /\ ~Dangling(c) /\ ~Detached(mine[c])
        /\ task[mine[c]] # "starting"
        /\ \E given \in StartSt :
             IF given THEN Goto(c, "start") /\ UNCHANGED <<path, mine, first, left>>
                      ELSE Return(c)
  /\ UNCHANGED <<entry, thread>>

\* *startSt is the owner's "the task runs" flag, set and cleared by the task
\* function; its wait ends by time, too.
CreateStarted(c) ==
  /\ pc[c] = "start"
  /\ \/ \E o \in Tasks : home[o] = path[c] /\ task[o] \in InTask
     \/ Dangling(c)
     \/ "start" \in TimeOuts
  /\ Return(c)
  /\ UNCHANGED <<entry, thread>>

\* taskDestroy() of a task that is listed.
DestroyCall(c, p) ==
  /\ Call(c, "destroy")
  /\ path' = [path EXCEPT ![c] = p]
  /\ p \notin DetachedPaths
  /\ entry[p] # NoTask
  /\ Goto(c, "stop")
  /\ first' = [first EXCEPT ![c] = TRUE]
  /\ UNCHANGED <<entry, thread, mine>>

\* The task is gone, or it has finished and is joined and erased.
DestroyEnd(c) ==
  /\ pc[c] = "stop"
  /\ \/ Listed(c) = NoTask /\ UNCHANGED <<entry, task>>
     \/ /\ Listed(c) # NoTask
        /\ task[Listed(c)] = "finished"
        /\ task' = Over(Listed(c))
        /\ entry' = [entry EXCEPT ![path[c]] = NoTask]
  /\ Return(c)
  /\ UNCHANGED <<home, asked>>

\* SIGALRM interrupts what the thread waits in, and is nothing to it else.
Alarmed(o) == [task EXCEPT ![o] = IF @ = "blocked" THEN "test" ELSE @]

\* Mutant of DestroySignal: SIGALRM is sent with SIGUSR1 only.
DestroySignalOnce(c) ==
  /\ pc[c] = "stop"
  /\ Listed(c) # NoTask
  /\ task[Listed(c)] # "finished"
  /\ first[c]
  /\ asked' = [asked EXCEPT ![Listed(c)] = @ \/ (task[Listed(c)] \in InTask)]
  /\ task' = Alarmed(Listed(c))
  /\ first' = [first EXCEPT ![c] = FALSE]
  /\ UNCHANGED <<entry, home, pc, path, mine, left>>

\* SIGUSR1 the first time, SIGALRM every time.  SIGUSR1 is kept for the thread
\* that has blocked it and lost to one that has not yet.  (A task whose thread id
\* is not set yet is signalled as thread 0, which is undefined; here nothing
\* comes of it.  The flag, the condition and the silence a caller may ask for are
\* left out.)
DestroySignal(c) ==
  /\ pc[c] = "stop"
  /\ Listed(c) # NoTask
  /\ task[Listed(c)] # "finished"
  /\ asked' = [asked EXCEPT ![Listed(c)] = @ \/ (first[c] /\ task[Listed(c)] \in InTask)]
  /\ task' = Alarmed(Listed(c))
  /\ first' = [first EXCEPT ![c] = FALSE]
  /\ UNCHANGED <<entry, home, pc, path, mine, left>>

\* Mutant of DestroyTimeOut: the task that does not stop is erased.
DestroyForgets(c) ==
  /\ pc[c] = "stop"
  /\ "stop" \in TimeOuts
  /\ ~first[c]
  /\ entry' = [entry EXCEPT ![path[c]] = NoTask]
  /\ Return(c)
  /\ UNCHANGED thread

\* "Task is not stopped!"
DestroyTimeOut(c) ==
  /\ pc[c] = "stop"
  /\ "stop" \in TimeOuts
  /\ ~first[c]
  /\ Return(c)
  /\ UNCHANGED <<entry, thread>>

\* taskSendSIGALRM().
SendSIGALRM(c, p) ==
  /\ Call(c, "alarm")
  /\ entry[p] # NoTask
  /\ task' = Alarmed(entry[p])
  /\ UNCHANGED <<entry, home, asked, pc, path, mine, first>>

-----------------------------------------------------------------------------
(* Threads: taskWrap() and the task function *)

Step(o, from, to) ==
  /\ task[o] = from
  /\ task' = [task EXCEPT ![o] = to]
  /\ UNCHANGED <<entry, home, asked, caller>>

\* tsk->thr = pthread_self(); then SIGUSR1 is blocked and wTask() called.
ThrSet(o) == Step(o, "starting", "named")
Masked(o) == Step(o, "named", "test")

\* while(!taskEndRun()); what comes after it ends in a wait.
TaskEndRun(o) == Step(o, "test", IF asked[o] THEN "returned" ELSE "going")
Blocks(o) == Step(o, "going", "blocked")

\* The wait is over by itself.
Event(o) == Step(o, "blocked", "test")

\* The task function returns unasked, or by an exception.
Leaves(o) == Step(o, "going", "returned")

\* FinishTask; a task that is not detached is over with it.
Finish(o) == Step(o, "returned", "finished")

\* A detached task calls taskDestroy() of its own path, which erases it.
DestroySelf(o) ==
  /\ task[o] = "finished"
  /\ Detached(o)
  /\ task' = Over(o)
  /\ entry' = [entry EXCEPT ![home[o]] = NoTask]
  /\ UNCHANGED <<home, asked, caller>>

-----------------------------------------------------------------------------
(* The system *)

\* The steps a call takes once it has started.
Continue(c) ==
  \/ \E o \in Tasks : CreateRecord(c, o)
  \/ CreateThread(c) \/ CreateNamed(c) \/ CreateStarted(c)
  \/ DestroySignal(c) \/ DestroyEnd(c)

\* The steps a thread takes without anybody's doing.
Runs(o) ==
  ThrSet(o) \/ Masked(o) \/ TaskEndRun(o) \/ Blocks(o) \/ Finish(o) \/ DestroySelf(o)

Rest == (\A c \in Callers : pc[c] \in {"idle", "find", "hung"}) /\ UNCHANGED vars

Next ==
  \/ Rest
  \/ \E c \in Callers :
       \/ Continue(c) \/ CreatePresent(c) \/ DestroyTimeOut(c)
       \/ \E p \in Paths : CreateCall(c, p) \/ DestroyCall(c, p) \/ SendSIGALRM(c, p)
  \/ \E o \in Tasks : Runs(o) \/ Event(o) \/ Leaves(o)

Spec == Init /\ [][Next]_vars

\* Threads run on; nothing outside, no event and no time limit, is relied on.
Fairness ==
  /\ \A c \in Callers : WF_vars(Continue(c))
  /\ \A o \in Tasks : WF_vars(Runs(o))

FairSpec == Spec /\ Fairness

-----------------------------------------------------------------------------
(* Properties *)

\* mTasks lists exactly the tasks there are, under their paths, however
\* creations, destructions, failures and time limits meet: no thread runs or
\* waits to be joined unlisted, no thread that is over is listed, and no two
\* threads run the task of one path.
TasksListed ==
  \A o \in Tasks, p \in Paths :
    entry[p] = o <=> home[o] = p /\ task[o] \notin {"free", "gone"}

\* The wait for htsk.thr: a listed task whose thread cannot be signalled yet
\* is still in the hands of the taskCreate() that made it.
CreatedHasThread ==
  \A o \in Tasks :
    task[o] \in {"made", "starting"} /\ ~Detached(o) =>
      \E c \in Callers : pc[c] \in {"thread", "named"} /\ mine[c] = o

\* The repeated SIGALRM: a task that is asked to end is over at last, although
\* it may have gone to wait, for nothing that comes, between its test and the
\* first signal; or nobody waits for its end any more.
EndRequestHeard ==
  \A o \in Tasks :
    asked[o] ~> \/ task[o] \in {"finished", "gone"}
                \/ \A c \in Callers : pc[c] = "stop" => path[c] # home[o]

\* taskDestroy() "Destroy task with id path", waiting without a limit as
\* TBD::preDisable() does: it returns with the task stopped, as SIGUSR1 "is
\* checked by function taskEndRun()".
DestroyReturns == \A c \in Callers : pc[c] = "stop" ~> pc[c] # "stop"
=============================================================================
