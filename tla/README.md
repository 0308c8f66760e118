# A TLA+ model of the OpenSCADA core

This directory models the control of the OpenSCADA core library (`src/src/`):
the locks, the tree of nodes, the tasks, the archiving of messages and of
values, and the redundancy of stations.  The
modules are translated from the code; each definition's lines are named in
`PROJECT.json` under "map".  TLC checks the modules on small instances and
TLAPS proves theorems about them for every value of their constants.

Contents: [components](#the-systems-components), [modules](#modules),
[runs](#runs-bounds-and-what-they-show), [fairness](#fairness),
[findings](#where-the-code-and-its-promises-part),
[proofs](#proofs), [what is not modelled](#what-is-not-modelled-and-why),
[plan](#plan).

## The system's components

OpenSCADA is one process with many threads ("tasks").  Everything configurable
is a node of one tree (`TCntrNode`); subsystems, modules, controllers,
parameters, archives and databases are nodes.  Threads reach nodes by counted
handles (`AutoHD`), protect data with `ResRW`/`ResMtx` and their guards, and
exchange messages over a message buffer.

| Component | State it keeps | Operations | How others reach it | What is hard |
|---|---|---|---|---|
| Resources: `ResRW`, `ResAlloc` (`resalloc.cpp`) | a pthread rwlock; per guard `mAlloc` | request (read, write, with time), release, destructor | every component guards its containers with it | nested guards, upgrades, a swallowed EDEADLK, time limits |
| Node tree: `TCntrNode`, `AutoHD` (`tcntrnode.cpp`, `autohd.h`) | per node: groups of children, mode, users `mUse`, modification flags | chldAt, chldAdd, chldDel, nodeEn, nodeDis, isModify, load, save, AHDConnect/DisConnect | everything is a node; every access to another object is a handle | deletion against use, test and set of the mode in different sections, walks that unlock for each child, failure half-way |
| Tasks: `TSYS::taskCreate` and others (`tsys.cpp`) | table `mTasks` of `STask` (thread id, flags) | create, destroy, send SIGALRM, taskWrap, taskEndRun, taskSleep | every component with a thread of its own | lost signals, two creators, a task that ends by itself, limits on every wait |
| Message buffer: `TArchiveS`, `TMArchivator` (`tarchives.cpp`) | ring `mBuf` with head, list of active archivers with reading heads, alarms table | messPut, setMessBufLen, start and stop of archivers, the task ArhMessTask, requests | `TMess::put` from every thread | a ring that overruns its readers while they are unlocked, wrap, resizing, failing writes, last turn |
| Values: `TValBuf`, `TVArchive`, `TVArchivator` (`tarchval.cpp`) | buffers on hard and soft grids, archives, archivators' elements | set and get of values and ranges; start and stop of archives and archivers, attachment of one to the other, the task that transfers | DAQ puts values, archivers' tasks take them | positions at wraps and gaps, searches by halves, lists on both sides under two locks, partial writes, the last pass |
| Data acquisition: `TController`, `TParamContr`, `TDAQS` | enable and run state, parameters; `mRdUse`: the data comes from another station | enable, disable, start, stop, planning, data update | tasks of modules, `TSYS::RdTask` | start and stop in any order |
| Redundancy of stations: `TSYS::RdTask`, `TSYS::rdStRequest`, `TDAQS::rdProcess`, `TDAQS::rdStRequest` | table of stations `mSt` (live, level, time to the next try), what each of them runs `mRdCntr` | poll, plan, request to another station | a task of each station; requests over transports | stations that decide from stale knowledge of each other, lost answers, restarts, hand-over without a gap |
| Databases: `TBDS`, `TBD`, `TTable` | enabled databases, opened tables, open transactions | enable, open, close, transactions' closing by time | every `load_`/`save_` | tables closed in use, transactions closed behind a writer |
| Transports and protocols | started transports, connections to stations | start, stop, request over one output | redundancy, remote control | requests that time out, associated transports |
| Messages, configuration, elements, security, variants, XML | data structures | conversions, lookups | everywhere | text, no concurrency of their own |
| Modules (`src/src/moduls/`) | devices, SQL servers, sockets, sessions of user interfaces | as the core calls them | `dlopen()` | I/O |

How they interact in what is modelled: `TArchiveS` runs ArhMessTask as a task
of `TSYS`; each archiver is a node, so that the task holds a handle on it while
it writes; deleting an archiver is `chldDel` of `TCntrNode`; the locks of
`mTasks` and of the values' archives are `ResRW` resources with `ResAlloc`
guards.  `ValArch` takes `aRes` and `archRes` as such locks, and the task of an
archiver as one that `taskDestroy()` waits for; what is inside the buffer it
transfers from is `ValBuf`.  `Redundancy` is about the choice of the station that
acquires; what it acquires goes to the attributes, whose archives are those of
`ValArch`.

### What makes each component correct

- Resources: no acquisition is lost or given up twice; who relies on writing is
  alone; a scope that runs under an outer guard is covered by it; requests are
  answered.
- Node tree: a node is not deleted under a handle; handles are counted exactly;
  a deletion that fails puts back what it had disabled; changes are marked until
  they are saved; a removed node leaves no record; a deletion ends.
- Tasks: the table lists exactly the threads there are; a task that is asked to
  end ends; a creation that has returned made a task that can be signalled.
- Message buffer: an archiver gets every message the ring keeps, in order, once;
  the last turn flushes; requests find the newest messages; a task asked to end
  ends.
- Values: a value is found at its time whatever came before; a copy of a range
  is a copy; only the oldest values are lost.  The lists of archives and of
  archivers mirror each other; no value is passed over because a write failed;
  stopping an archiver writes what is left; no two operations wait for each
  other.
- Redundancy: one station acquires a controller, the preferred one; during the
  hand-over there is always one that does; data is asked for at the one that has
  it.

## Modules

| Module | Models | How state and actions correspond to the code |
|---|---|---|
| `RWRegion` | the abstract read/write region | nothing of the code: what a lock promises.  There is no step from reader to writer in place. |
| `ResRW` | `ResRW` and `ResAlloc` in full but for the try requests | A thread's guards are a stack (C++ scopes).  `guards[t][i]` is `mAlloc` with the kind of the acquisition; "r" and "w" stand for a request whose EDEADLK was swallowed.  `Request`, `GrantW`, `GrantR`, `GrantByOuter`, `TimeOut` are `ResAlloc::request` around the lock call, `Release` and `Destroy` the method and the destructor.  The pthread lock is external. |
| `ResRW_proofs` | proofs about `ResRW` | |
| `CntrNode` | one container with its children and the threads that work on them | `chM` is `mChM`; `mode`, `users`, `modified`, `inMap` are the node's fields; `db` and `synced` stand for the storage that `load_`, `save_` and `postDisable` reach.  A thread's `pc` stands where the code unlocks or reads a mode outside a lock.  `chldAt` is AtFind, AtCheck; `chldAdd` is AddFound/AddNew, AddMode and nodeEn; `chldDel` is AtFind, AtCheck, DelMode, nodeDis, Free, Erase; `nodeEn` EnMode..EnDone; `nodeDis` DisMode..DisFail; isModify, load, save, nodeDis and nodeEn of the container are the walks WalkBegin..WalkEnd, OffEnd and Restore.  `LoadFails` is the catch of `load()`, which keeps the modification mark or takes it (`dropped`); `preDisable()` and `postDisable()` may throw. |
| `CntrNode_proofs` | proofs about `CntrNode` | |
| `MessBuf` | the message ring and its archiving | `mBuf`, `headBuf`, `actMess`, `messHead` are the code's; a message is the number of its coming.  `MessPut` is the buffer section of `messPut()`, `DirectPut` its second, unlocked part; `SetMessBufLen` the resizing; Start-, Stop- and UpdateArchiver `TMArchivator::start`, `stop` and the repeated `start` of `subStart()`; Wake .. PassEnd are ArhMessTask, which holds `mRes` at the label "scan" and at no other. |
| `MessBuf_proofs` | proofs about `MessBuf` | |
| `TaskMan` | the tasks of `TSYS` | `entry` is `mTasks`; a record and its thread are one task.  `CreateCall`, `CreateRecord`, `CreatePresent`, `CreateThread`, `CreateNamed`, `CreateStarted` are the sections and waits of `taskCreate()`, `DestroyCall`, `DestroySignal`, `DestroyEnd`, `DestroyTimeOut` those of `taskDestroy()`; ThrSet .. DestroySelf are `taskWrap()` with a task function of the usual form `while(!taskEndRun()) { ... wait }`. |
| `TaskMan_proofs` | proofs about `TaskMan` | |
| `ValBuf` | `TValBuf::TBuf`: one buffer and what is read of it | `tb` is `buf`, `cur`, `beg`, `end`, `mEvalCnt`; `Get` is `get()` with a case for each grid (`HardGet`, `SoftGet`, `FlowGet`, the half dividers included), `GetVals` is `getVals()`, `Set` is `set()` with `HardSet`, `SoftSet`, `FlowSet`, which put entries with `Write`; `Clear`, `MakeBuf`, `AttrSetOld` are `clear()`, `makeBuf()` and the clearing by `TVal` after a value that is too old.  `told`, `first` and `room` are history: what the buffer was told, by the cell `set()` takes a time to be of (`CellTold`). |
| `ValBuf_proofs`, `ValBufTimed_proofs` | proofs about `ValBuf`: its hard grid; its flow, its soft grid, copies, and what holds on all of them | |
| `ValArch` | archives of values, archivers and their tasks | `elsV` and `elsA` are `archEl` of the archive and of the archiver, `archS` the setting `ArchS`, `lastGet` `mLastGet`.  A thread's `pc` stands where it waits for a lock or calls on: `Connect`, `ConnectFails`, `Restart` are `setSrcMode()` in `start()` and `stop()`, `Attach`, `Place` are `archivatorAttach()` and `archivePlace()` inside it, `Detach`, `Remove` their reverse, `Take` the loop of `TVArchivator::stop()`, `StopGivesUp` its limit, `Sort...` the change of V_PER; `Wake`, `Transfer`, `PassThrows`, `PassDone`, `TaskEnd` are `TVArchivator::Task`.  A value is the number of its coming. |
| `ValArch_proofs` | proofs about `ValArch` | |
| `Redundancy` | the stations that share controllers | `live` and `cnt` are `mSt`, `known` and `runs` `mRdCntr`, `use` and `first` `mRdUse` and `mRdFirst`, for every station.  `Poll` is one turn of the first loop of `RdTask`, `Update` and `Decide` one of `rdProcess()`, split where the request ends and the planning begins; `Request` is `TDAQS::rdStRequest()` with `TSYS::rdStRequest()` inside; `Write` is a value set to a passive controller.  `Crash`, lost requests, `CntrStop` and `Reload` are the faults. |
| `Redundancy_proofs` | proofs about `Redundancy` | |
| `MCCntrNode`, `MCMessBuf`, `MCTaskMan`, `MCValBuf`, `MCValArch`, `MCRedundancy` | constants for TLC | |

Operators named "Mutant of ..." stand before the definition they are a plausible
bug of; no specification uses them.

Conventions: a section under a lock is one step; a wait that polls is an action
that becomes enabled; a time limit is a choice that may be taken at any time.

## Runs, bounds and what they show

| Run | Bounds | Shows |
|---|---|---|
| `resrw` | 3 threads, 2 nested guards, 4 requests or constructions each | lock accounting, coverage of swallowed errors, exclusion; the guards implement `RWRegion`; nothing but a nested upgrade waits for ever |
| `cntr` | 2 names, 2 objects, 3 threads with 3 calls: one that changes the tree, one that uses it, one that walks over it; loads, saves and callbacks may fail | no dangling access, exact handle counts, restoration after failure, tracked changes, removal from the storage, deletions end |
| `cntr_two` | 1 name, 2 objects, 2 threads that add and delete | finding: a node is deleted under a handle |
| `mess_safe` | 2 archivers, ring of 3, 5 messages, 2 at most during a write, 1 failing write, 1 stop | nothing skipped, order, no repetition, the last turn flushes |
| `mess_live` | 1 archiver, ring of 2, 3 messages to the buffer or without target, 1 failing write, 1 update | messages are archived at last, the task ends |
| `mess_lens` | ring of 3 to 5, 7 messages, every length from 2 to 6 | the newest messages stay in place through any resizing |
| `task` | 2 callers with 3 calls, 3 tasks, an attached and a detached path, every wait with a limit | the table lists exactly the threads; created tasks can be signalled; a request to end is heard |
| `task_lost` | 1 caller, no limits, no startSt | finding: SIGUSR1 lost by a task just created |
| `valbuf` | buffers of 3 and 4, 4 values at 11 times of 5 cells, at their beginnings and between, every grid, resolution and way to fill, half dividers without a minimal window | reads and copies give what was told, only the oldest is lost, error values are counted |
| `valarch` | 1 archive, 1 archiver, a user and an administrator with 5 calls together, 3 values in a buffer of 2, 1 write that fails or takes a part, starts and stops that fail | mirrored lists, safe passes, nothing passed over, flush at stop, operations end |
| `redund` | 2 stations, 1 controller, every preference, 3 faults, a dead station retried after 1 pass | always served while nothing fails, settles at the preferred station |
| `redund_request` | 3 stations, no fault | finding: data is asked for at a station that does not run the controller |

Why the bounds are enough.  `ResRW`: a nested guard needs depth 2, a re-request
and an upgrade need a third request, a writer between two readers needs three
threads.  `CntrNode`: a second name shows walks over more than one child and a
second object a name that is used again; three calls per thread are enough to
add, change and delete while the others attach and walk.  `MessBuf`: the code
treats ring positions only by equality, the successor and the wrap, so that a
ring of 3 has a slot that is neither the head nor its neighbours; 5 messages
wrap it with a reader behind; two archivers are what shifts the index of the
list.  `mess_lens` reaches every position of the head at every length.
`ValBuf`: with buffers of 3 and 4 every position is written over within 4 values
when they leave gaps, and a gap may be longer than the buffer;
`HalfDivMinWin` is 5 in the code and 0 here, so that the half dividers work on
buffers this small.  A second is a cell long: low resolution rounds within it.
`ValArch`: 5 calls are a whole round of both starts, an attachment and a stop with a
competitor in the middle, and a start that fails on top of it; 3 values overrun
the buffer once.  Lists of more than one archive or archiver, in which one changes
while another is visited, do not come up in this run; that the invariants hold
for any number of both is proved.  `Redundancy`: the hand-over is between two
stations, and 3 faults allow a crash during the recovery from a lost answer;
that the safety does not depend on the number of stations is proved.
`TaskMan`: the third task of one path needs two removals before it, of which
one may be by a creation and one by a destruction.

Some limits are part of what the runs say, because beyond them the code does
not keep the property; each is in the note of its hazard in `PROJECT.json`:

- `mess_safe`: at most `MaxBurst` = 2 messages come during a write, one less than
  the ring's slots, and the running subsystem is not updated.
- `cntr`: one thread alone changes and saves the tree, which is how a station runs
  until a user changes it through a second interface.
- `valbuf`: the soft grid is not given a time ahead of its end that it would keep off
  the beginning of its cell (`Given`); that is one of high resolution, or of low
  with a period that is no whole number of seconds.  Every other time is given, on
  all grids, between the cells as well.  No buffer has one entry: a ring of one on
  the soft grid takes its begin from the entry it is about to write over
  (`tarchval.cpp:676`).
- `valarch`: nobody else is at work while an archiver's period changes
  (`LoneSort`).
- `redund`: the levels of stations differ, and nothing is said of `<optimal>`.

And some are in the properties:

- `StoppedIsDetached` excepts an archive whose `start()` failed since it was last
  stopped: `start()` then takes `runSt` back and detaches nothing that was attached in
  between (`tarchval.cpp:1061-1064`).  Without the exception TLC refutes it.
- `ChangesTracked` excepts a node whose failed `load()` took the mark
  (`tcntrnode.cpp:795`, `:797`), until it is changed again.
- `GetRight` is about the cell a value is told for.  `set()` divides `tm - end` with
  rounding toward zero (`tarchval.cpp:616`, `:659`), so that a time between the last
  cell but one and the end is of the cell of the end, whose value it replaces; on
  the hard grid every late time between cells is of the later of the two.  `CellTold`
  says this of the values told, from the cells alone and not from positions.
  With a period of 10 and an end of 50, a value of time 45 is answered at 50.

`MessBuf!TypeOK` and the like are one per module and catch slips of the model;
every property has a mutant in `PROJECT.json` that breaks it under its own run.

CHECK_DEADLOCK is FALSE for `resrw` and `valarch`.  A nested upgrade really stops
its thread, and with it, possibly, all of them.  In `ValArch` all calls may be used
up while no task runs; that no thread stays inside a call is `OperationsEnd`.  In
the other modules there is always a step, or the state where all is done is a
stuttering one (`Rest`, `Ended`).

## Fairness

- `ResRW!Fairness`: weak fairness of each thread's step.  The scheduler runs a
  runnable thread; a scope of code comes to its end.  No fairness of the
  rwlock between waiting threads is needed, for each makes a bounded number of
  requests.
- `CntrNode!Fairness`: weak fairness of a call that has started.  A user may keep
  its handle for ever (`hold` is excepted), and nobody has to call.
- `MessBuf!FairSpec`: weak fairness of ArhMessTask alone: its sleep is an absolute
  timer; no message has to come and no archiver has to succeed.
- `TaskMan!Fairness`: weak fairness of started calls but not of their limits, and
  of threads but not of the events they wait for nor of a task function's own
  end.
- `ValArch!FairSpec`: weak fairness of the archivers' tasks, strong fairness of a
  started call of a thread.  Strong, because the lock it waits for is taken and
  released by a task again and again; the task lets go of it for the whole
  period of its sleep, so that a waiting thread gets it.  Values and calls need
  not come.
- `Redundancy!FairSpec`: weak fairness of `RdTask` of each station, a periodic task
  that ends with the station, and of the start of controllers the user has not
  stopped, as the subsystem starts them when a station boots.  Nobody need
  switch a station on, and no value need be set.

## Where the code and its promises part

Three runs expect a violation; each quotes the promise in `PROJECT.json`.

1. `cntr_two` (`tcntrnode.cpp:578-589`): `chldDel` releases its handle, locks the
   container, finds the name again and deletes what it finds without a look at
   `mUse`.  A `chldAdd` of the same name in another thread attaches in between.
2. `task_lost` (`tsys.cpp:2470`): a thread shows itself before it has blocked
   SIGUSR1; a request to end that comes in between is lost and is not repeated.
3. `redund_request` (`tsys.cpp:2136`): `TSYS::rdStRequest()` looks at the station it
   is called for only with `toScan`; without it the first live station is asked,
   whoever runs the controller.

Further ones met while modelling are hazards with a note:

- `tcntrnode.cpp:833`: a save under way while the node is removed writes its record
  again; `tcntrnode.cpp:866`: a modification mark is cleared by a save that has not
  seen the change.
- `tarchives.cpp:886`: as many messages during a write as the buffer has slots are
  taken as archived; `tarchives.cpp:366`: the update of the running subsystem starts
  started archivers once more, and the whole buffer is archived again;
  `tarchives.cpp:814`: resizing does not shift reading heads; `tarchives.cpp:513`:
  messages without a target are written twice.
- `tsys.cpp:2335`: `taskCreate()` reads a record that may have been erased.
- `tarchval.cpp:616`, `:659`: a late value between cells replaces the one of the later
  cell; `tarchval.cpp:671`: an entry of the soft grid off the beginning of its cell
  may be replaced by a value of the next cell, and `getVals()` then does not end;
  `tarchval.cpp:1061`: `start()` that fails leaves attached what was attached meanwhile;
  `tcntrnode.cpp:795`: `load()` that fails takes the mark of a change;
  `tarchval.cpp:471`: `makeBuf()` deletes the old vector as one of the new type;
  `tarchval.cpp:2314`: a change of the period takes the two locks in the order
  opposite to attaching.
- `tdaqs.cpp:574`: with `<optimal>` two stations of one load yield to each other;
  `tsys.cpp:2585`: one answer without inProc ends the redundancy of a subsystem;
  `tarchives.cpp:1531`: the loop "To all hosts" repeats at the first of two.

## Proofs

The theorems hold for every value of the constants that satisfies the named
assumption of the module: any sets of threads, callers, paths and tasks, finite
or not, and any depth and number of requests or calls.

**`ResRW_proofs`**, from `ResAssumption` (the value that stands for no thread is
no thread, the bounds are numbers).  The invariant `IInv` is inductive and each
part is needed:

- `TypeOK`, and `TopAndAbove`: a waiting thread waits in its innermost guard,
  which holds nothing, and guards above the top hold nothing.  Without it an
  answered request could overwrite an acquisition.
- `OneWriteGuard`: only one guard of a thread made the write acquisition, so that
  its release leaves none that believes so.
- `WriterAlone`: the external rwlock keeps readers out while it is written.
  It decides which branch `Unlock` takes: the thread that writes has no read
  acquisition it could mean instead.
- `LockAccounting`: the rwlock is held by exactly the guards that believe so.
- `BorrowedIsCovered`: a swallowed EDEADLK lies under the writing guard.  That it
  stays so is the nesting of scopes: the outer guard cannot be released while
  the inner is on top.

`Invariance` gives `Types`, `Accounting` and `Covered`; `MutualExclusion` follows from
accounting and coverage, since every scope that relies on the resource has a
thread that holds the rwlock.  `Refinement` shows that the guards implement
`RWRegion`: under `IInv` the place of a thread is a function of what the rwlock
records of it (`PlaceByHolds`), so that a step is judged by its change of the
rwlock alone (`HoldStep`): one acquisition enters the region, one release leaves
it or changes nothing, and none goes from reading to writing.

**`TaskMan_proofs`**, from `TaskAssumption`.  `IInv` joins to `TypeOK`, `TasksListed`
and `CreatedHasThread` what a caller relies on in the middle of a call:
`CallsOK` (its path is a path; the record it makes a thread for is listed under
that path and has none yet) and `OneMaker` (no two callers make a thread for
one record, although both looked for it and found none).  Both were checked by
TLC first.  One lemma per action; the steps of threads share `AliveKeeps` and
those callers' steps that leave the table alone share `CallerKeeps`.  `Types`,
`Listing` and `Signalable` are its consequences.

**`Redundancy_proofs`**, from `RedundancyAssumption` (two stations or more, levels
that differ).  `Service`: while nothing fails no controller is left unserved,
for any number of stations and controllers.  `NeverUnserved` is far from
inductive, since stations decide from what they remember.  What carries it is
`Backed`: whoever is remembered to run a controller is backed by a station that
does run it and is at least as good by the preference.  A poll remembers a
station that runs it itself (it backs itself); a station yields only to one it
remembers that is better, whose backer is better still and so is another
station, and everybody this one backed is backed by that one.  Giving the
controller up thus never takes the last, and the best of those that run it
never yields.  `LoseOne` and `LoseType` are about lost stations, `UseShrinks` and
`RequestEffect` about requests, which only ever make a station run a controller;
one lemma per action follows, and `Types` and `Service` are consequences of
`Invariance`.  After a fault `Backed` says nothing, as a crashed station is
remembered; what holds then is `SettlesAtBest`, by TLC.

**`CntrNode_proofs`**, from `NodeAssumption` (a finite set of threads, since `mUse`
is a number; the values that stand for nothing are none of the things).  Three
invariants, each on top of the one before, for as much as is asked of the threads:

- For any threads and calls, `HInv`: `mChM` is held at its labels and nowhere else
  (`LockHeld`), a thread is at the labels of its call (`CallShape`), and `mUse` is
  the number of the threads that have a handle (`HandlesCounted`).  That a handle
  is released by the call that took it, on every early return and exception, is
  what `CallShape` says; `Types` and `Counted` follow.
- When one thread `ad` creates, enables, disables and deletes, and the others attach
  to nodes, use and change them (`SoleAdmin(ad)`), `TInv(ad)`: the children are live
  nodes (`MapLive`), nobody reaches a deleted one (`NoDangling`), what `ad` has
  disabled is used by nobody else (`DisabledUnused`), and at each label of `ad` the
  modes of its node, of the container and of the children are those the code has
  come to (`ModeAt`, `ContainerMode`, `MapModes`, `AllTurnedOn`).  The heart is the
  handshake of `nodeDis()` and `chldAt()`: the one finds `mUse` at its own handle and
  sets the mode in one section, the other counts itself before it looks at the
  mode.  `NoneDangles`, `HandlesHold` and `AllIsPutBack` follow.  `HandlesHold` is the
  documented promise that `cntr_two` refutes: the finding is about two threads that
  delete, and no other use of the tree can run into it.
- When the others do not change data either (`SoleWriter(ad)`), `SInv(ad)`: records
  are those of children, and a change is marked until it is saved.
  `NoChangeIsLost` and `RemovalIsComplete` follow, the first but for what a failed
  `load()` gave up (`dropped`).  Two writers lose changes (`tcntrnode.cpp:866`).

The run `cntr` has threads of each kind and meets both hypotheses.

**`ValArch_proofs`**, from `ValArchAssumption` (there are archives and archivers, and no
thread that calls is an archiver's own).  `IInv` is inductive for any archives,
archivers and threads:

- `AResHeld` and `ArchResHeld` say who holds the two locks at each label; from them
  `Mirror` (each side lists the other, also in the middle of an attachment) and
  `VisitsAttached` (a pass of a task and a change of the period visit what is
  there).  `Mirrored` and `PassIsSafe` follow.
- `StopComes`: what is attached to a stopped archive is on the way out: a thread is
  in its `stop()` and will come to it, and what another thread is about to attach
  will be in the list that `stop()` takes.  That the list is taken under `aRes` is
  why.  An archive whose `start()` `failed` is excepted until it is stopped again;
  `StopDetaches` follows.
- `TaskRuns`, `MarksStored`, `DueThere` and `DueStored`: `mLastGet` is a mark below
  which all the buffer has is stored, and the last pass, which begins after the
  request to end, comes to every archive that was attached then.  `MarkIsStored` and
  `StopFlushes` follow.

**`MessBuf_proofs`**, from `MessBufAssumption` (archivers, finitely many, and a ring of
two messages or more: `DEF_MessBufSize` is 500).

- Without more: `Types`, whose only delicate part is the task's index `iM`, that
  stays within the list although archivers leave it while mRes is unlocked; and
  `NewestKept`, for any lengths set at any time, by the inductive `NewestInPlace`:
  counted back from the head, the k-th slot has the k-th newest message.
- With `FixedRing` (the length is not set, and fewer messages come during a write
  than the ring has slots: beyond it the code skips messages, see the hazards at
  `tarchives.cpp:814` and `:886`), `RInv`: the ring has what came (`RingAt`), an
  archiver's head leaves unread what is not in its archive (`ReadIsWritten`), and what the
  task holds while the ring is unlocked is a run of messages whose end is still
  where the head it took stands (`AtPut`).  `NothingIsSkipped` follows, for failing
  writes, stops, starts and updates in any number.  `LInv` joins what
  the last turn has reached (`LastTurn`), for `AllIsFlushed`.
- With `TaskOnly` besides (messages are put to the buffer; without a target they
  are written twice, `tarchives.cpp:513`), `OInv`: an archive has no gap below what it
  has, as far as the ring reaches (`NoGap`), and of what the task holds it has a
  beginning (`PutInOrder`).  `OrderIsKept` follows: "the first time" is in order even
  if a write stopped half-way and was repeated after the ring had gone on.
- With `NoUpdates` besides (`tarchives.cpp:366`), `WInv`: what is written has been read
  (`WrittenIsRead`) and what the task holds is newer (`HeldIsNew`), for `GivenOnce`.

The run `mess_safe` meets all three hypotheses, and TLC checked the invariants on its
instance before they were proved.

**`ValBuf_proofs`**, from `ValBufAssumption` (a period of at least 1, times of at least two
periods and a second, as 0 is the time of an empty buffer, and a counter of at least one
bit), about the hard grid, for any period, sizes,
times, values and number of them.  `HardInv`, the inductive invariant: the buffer is
empty (`Rests`) or its ring goes on with what it was told (`GoesOn`), that is:

- `Fits`: the ring is as long as its times say, the cursor is behind its end or it has
  come to the size it was made with, and the counter is that of its error values;
- `Gives`: counted back from the cursor, the j-th value is the one last told for the
  j-th cell before the end;
- it begins with the first cell told, or has the size it was made with.

`room` is the size a buffer was made with, which `makeBuf()` may enlarge while the cursor
is anywhere in the ring: values are then written over for the rest of the round,
and the buffer grows after it.  One `set()` writes any number of cells (the loop of
`tarchval.cpp:631`), so that its effect is induction over them: `Counting` is induction as a
fact about sets of numbers, from the well-foundedness of `<`; `CellsGoOn` says that the
recursive function of `HardCells` takes steps, `NextFits`, `NextGives` and `NextBegins`
what one step keeps, `CellsAre` what all of them do, and `InPlace` what a value for
a cell that is there already does.  `HardGetRight`, `HardNewestKept` and `EvalIsCounted` follow,
the first with the arithmetic of cells and positions (`CellOf`, `CellPlus`, `BehindIs`); `RoundedTo`
and `CellOf` say what cell the division toward zero comes to for any time, on a cell or
between two.

**`ValBufTimed_proofs`**, from the same assumption, about the flow, for any sizes, times and
values and any window the half divider stops at.  `FlowInv`, the inductive invariant,
says of the buffer (`Flows`) that its times rise and are times an entry can keep, that its
begin and end are its first and last, that it has no more than `size` of them, and
that it has what it was told.  Both half dividers are instances of `Halves`, and `HalvesCome`
says what holds where such a search ends: a relation of a window and a place that each
of its steps leads on.  Of the search of `set()` the relation is that all before the
place is earlier (`UpwardCome`), so that the search one by one after it comes to the place
among all entries (`FlowPlace`); of that of `get()` it is that nothing behind the place is a
hit (`BackwardCome`, `FlowGetLast`).  `InsertRises`, `ReplaceRises` and `TailRises` say what becomes
of rising entries, `FlowSetAdds` what `FlowSet` does with them, and `StoredIs` that the
rounding to seconds keeps the order.  `FlowGetRight` and `FlowNewestKept` follow.

The same module, about the soft grid.  `SoftInv`, the inductive invariant, says (`SoftOn`)
that the ring has, back from its newest entry, the changes of what the buffer was told:

- `Ringed`: a ring is written over only where it is full;
- `Falls`, `OnCells`: its times fall, each the beginning of a cell, the oldest of them
  its begin;
- `Follows`: from the time of an entry up to that of the next newer one (`Spans`) all
  cells were told the value of that entry.  So a value that is left out as equal is not
  lost, and one that replaces the newest entry changes nothing but its cell.

As on the hard grid one `set()` is a recursion over cells; here each step depends on the
end the step before it came to (`SoftSteps`, `SoftCellsGoOn`, `SoftCellsAre`).  `WriteIs` is what
a write does to positions and begin, `SoftWrites` and `SoftNextIs` what it does to `Follows`,
`SoftSetFirst`, `SoftSetNext` and `SoftSetHere` are `set()` on an empty ring, after its end and
in the cell of its end.  Of `get()`, `SoftHalfIs` says that its half divider skips only entries
that are too new, wherever it stops, `SoftScan` what the scan back from there finds, and
`SoftGetIs` joins them.  `SoftGetRight` and `SoftNewestKept` hold in `SoftMode`:

- entries of low resolution keep whole seconds, so that the period must be some
  (`Per % Sec = 0`); high resolution is there for the others, and has no such condition;
- entries are kept at the beginning of their cells, which `Given` sees to (see the
  hazard at `tarchval.cpp:671`); a value between the cells that is not ahead of the
  end is put to the cell of the end (`CellRounded`, `QuotAhead`);
- the ring was not made with one entry (`tarchval.cpp:676`, above).

`Types` is about all grids.  `TypesKept` adds to `HardInv` and `FlowInv` that the ring of a soft
grid is `Ringed`, here without any of these conditions, and that all that is kept is of
the times given: a step of `set()` never goes past the time of its value
(`SoftCellsTyped`, `RingTyped`, `FlowSetTyped`), nor does what is told (`ToldKept`).  It rests on
`BoundAssumption`, that there are times and finitely many, for `Time` ends with their
greatest.

`CopyRight` is about a buffer that is not a variable: `getVals()` reads from a time to the
end, and what it read is set to an empty buffer, one value after another.

- `FoldIs` expands the library's fold down to a function on sets of positions,
  `SetsFrom` says that there is one, and `CopySteps` that the copy is the last of a sequence
  of buffers, each made by `set()` of the one before (`Sets`).
- `GetsNext`: `get()` searching upward gives what is told at the next time that is
  told.  `GetValsIs` says that what is read then is a `Chain`: from each value to the
  next no told time is left out, and the last is the end.  On the grids the next
  time is the next cell (`ChainCells`).
- `MakesCopies`: the copy of each chain again has `GetsNext`, from the first value of the
  chain to the same end, and so it answers as the buffer does (`SameNext`, `CopyIs`).

Each grid has its own reason why nothing is lost while the copy is made.  A copy on
the hard grid is never longer than the ring read, so that each value is appended
and its cursor is nowhere but at its end (`HardAppends`, `HardParts`).  In a flow the
times set are some of those that are held, and so not more than `size`
(`FlowAdds`, `FlowParts`).  On the soft grid the ring may hold more cells than entries;
`RoomLeft` says that the copy has no more entries than the ring read has up to that
cell, as the copy writes one only at a change, where the ring has one too (`SoftMore`, `SoftParts`).
`HardCopyRight`, `FlowCopyRight` and `SoftCopyRight` follow, the last under the same conditions
as `SoftGetRight`.

`GetIsRight`, `NewestIsKept` and `CopyIsRight` put the three grids together, under `CellsKept`
(no buffer of one entry, and a period of whole seconds), by which every soft grid is in
`SoftMode`; the run `valbuf` meets it.

What stays with TLC.  No invariant of a passing run: each is stated by a theorem,
those of the soft grid and of the last turns of `MessBuf` under the hypotheses named
above, which their runs meet.  The liveness properties (`OnlyUpgradesBlock`, `DeletionEnds`, `ArchivedAtLast`,
`DestroyEnds`, `EndRequestHeard`, `OperationsEnd`, `SettlesAtBest`), for the prover
handles neither ENABLED nor fairness.  The findings, which are counterexamples.  No
module declares a RECURSIVE operator.

## What is not modelled, and why

- `CntrNode`: `isFinalKill()`, by which at the exit of the process a node is disabled
  although it is used (`tcntrnode.cpp:305-311`); the code says that it may crash.  A
  `preEnable()` that throws: those there are catch everything.  `mUse` counts each
  thread once, as a call here has one handle on a node at a time.
- `MessBuf`: `messPut()` to archivers by name, and its early return for an alarm that
  is set already (`tarchives.cpp:480`).  A failed write leaves a beginning of what it
  was given, as with DBArch; FSArch may write what comes after a message it could
  not.
- `TaskMan`: a signal to thread 0, of a record whose thread has not set `thr`
  (`tsys.cpp:2366`), is undefined in the code and nothing here; the function
  `endrunCntr`, the condition variable and `noSignal` of `taskDestroy()`.
- In the modelled components: the try requests of `ResRW`; the control interface,
  ordered groups, copying and deeper levels of the tree; the alarms table, the
  requests and the redundancy of `TArchiveS` (the planning is that of `TDAQS`, line
  by line); the project lock and service procedure of `TSYS`.  The alarms table
  is planned; the rest is text or I/O.
- `ValBuf`: the conversions between types of values (a value is one of a small set
  with the error value in it); the use of the buffer from several threads:
  `get()` and `set()` hold `bRes` for their whole length, `clear()` (`tarchval.cpp:153`),
  `begin()` and `end()` do not, which is a data race.  `setPeriod()` and `setValType()`, which begin from nothing like every
  other change of the mode.
- `ValArch`: the combination of values at a period of the archiver longer than that
  of the buffer, `pushAccumVals()` and what it throws, the direct requests to the
  storage, and archivers with period 0, which have no task.  Handles that are not got
  (`owner().at()`, `valAt()`): archives and archivers are not deleted.  Values later
  than the current time, which `setVals()` leaves for later (`tarchval.cpp:2680`), are
  like a write that takes a part.  Passes that throw for ever: they are bounded by
  `MaxFails`, and without a bound a `stop()` only ends by its limit.  That the outer of
  two nested `start()` takes `runSt` back a second time after the inner failed.
- `Redundancy`: the synchronization in `TController::start()` and its `runSt = true` are one
  step (`tcontroller.cpp:201-206`); `TController::Off` and `OnlyAlarms` (they never set
  `mRdUse` or acquire
  anyway), a period of the task other than one unit of `RestTm`, the error answers
  that leave a station's state as it was, the archive data that is caught up.
  Stations with equal levels: `<high>` and `<low>` leave both running.
- The race on `messHead` between `start()` without `mRes` and the task inside one
  expression (`tarchives.cpp:866`) is below the grain of the model.
- `taskCreate()` with a dangling record: its outcome is arbitrary in the model,
  but what it could write elsewhere is not followed.
- Components listed with status not_modelled in `PROJECT.json`, each with its
  reason there.

## Plan

Done: `RWRegion`, `ResRW`, `CntrNode`, `MessBuf`, `TaskMan`, `ValArch`, `Redundancy`, and `ValBuf`,
all with their proofs.

1. `Alarms`: the alarms table of `messPut()` (set, clear, out of order, redundant
   stations) and its consistency with the buffer.
2. `TBD`: opening and closing of tables on demand against their users.
3. An abstract specification of the message archive (what an archiver has got is
   a prefix of what came, less what the ring lost) implemented by `MessBuf`, and
   one of the task table (create, ask, end) implemented by `TaskMan`.
