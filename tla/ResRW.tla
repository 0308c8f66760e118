-------------------------------- MODULE ResRW --------------------------------
(***************************************************************************)
(* The read/write resource ResRW and its automatic guard ResAlloc          *)
(* (src/src/resalloc.cpp).  A thread keeps the guards it has constructed   *)
(* as a stack, the innermost scope last: C++ destroys them in that order,  *)
(* and the code of a scope works on its own guard only.                    *)
(*                                                                         *)
(* A guard is "no" (nothing held), "R" or "W" (mAlloc: it made a read or    *)
(* the write acquisition), or "r" or "w": its request() swallowed EDEADLK, *)
(* so that the scope relies on reading or on writing without an            *)
(* acquisition of its own.                                                 *)
(*                                                                         *)
(* The POSIX rwlock below is external: wrHold is its writer, rdHold its    *)
(* read acquisitions, each named by the thread and the depth of the guard  *)
(* that made it.  glibc reports EDEADLK to a writer that asks again and    *)
(* says nothing to a reader that asks to write: that one waits for itself. *)
(***************************************************************************)
EXTENDS Naturals

CONSTANTS Threads,        \* the threads of the station
          NoThread,       \* the writer of a resource nobody writes
          MaxDepth,       \* bound: guards of one resource nested in a thread
          MaxReq          \* bound: guards a thread constructs and requests it makes

ASSUME ResAssumption ==
  /\ NoThread \notin Threads
  /\ MaxDepth \in Nat
  /\ MaxReq \in Nat

VARIABLES wrHold, rdHold, depth, guards, pc, left

vars == <<wrHold, rdHold, depth, guards, pc, left>>

Depths == 1..MaxDepth
Modes == {"R", "W"}
Guards == {"no", "R", "W", "r", "w"}

\* What a scope relies on, by its guard.
ReliesOn(g) == CASE g \in {"R", "r"} -> "R" [] g \in {"W", "w"} -> "W" [] OTHER -> "no"
Borrowed(m) == IF m = "R" THEN "r" ELSE "w"

\* A thread runs, or waits in pthread_rwlock_(timed)wrlock / rdlock.
Running == <<"no", FALSE>>
Waiting(t) == pc[t] # Running
Wants(t) == pc[t][1]

TypeOK ==
  /\ wrHold \in Threads \cup {NoThread}
  /\ rdHold \subseteq Threads \X Depths
  /\ depth \in [Threads -> 0..MaxDepth]
  /\ guards \in [Threads -> [Depths -> Guards]]
  /\ pc \in [Threads -> (Modes \X BOOLEAN) \cup {Running}]
  /\ left \in [Threads -> 0..MaxReq]

Top(t) == guards[t][depth[t]]
SetTop(t, g) == guards' = [guards EXCEPT ![t] = [@ EXCEPT ![depth[t]] = g]]

\* Some scope of thread t relies on mode m.
Relies(t, m) == \E i \in Depths : ReliesOn(guards[t][i]) = m

Init ==
  /\ wrHold = NoThread
  /\ rdHold = {}
  /\ depth = [t \in Threads |-> 0]
  /\ guards = [t \in Threads |-> [i \in Depths |-> "no"]]
  /\ pc = [t \in Threads |-> Running]
  /\ left = [t \in Threads |-> MaxReq]

\* pthread_rwlock_unlock by the guard at the top of t's stack: the writer
\* gives up the write lock, any other thread one of its read acquisitions.
Unlock(t) ==
  IF wrHold = t
    THEN wrHold' = NoThread /\ UNCHANGED rdHold
    ELSE rdHold' = rdHold \ {<<t, depth[t]>>} /\ UNCHANGED wrHold

\* Mutant of DropTop: mAlloc is not cleared after the unlock.
DropTopKeepsAlloc(t) ==
  /\ depth[t] > 0
  /\ IF Top(t) \in Modes THEN Unlock(t) ELSE UNCHANGED <<wrHold, rdHold>>
  /\ UNCHANGED guards

\* ResAlloc::release(): if(!mAlloc) return; unlock; mAlloc = false.
DropTop(t) ==
  /\ depth[t] > 0
  /\ IF Top(t) \in Modes THEN Unlock(t) ELSE UNCHANGED <<wrHold, rdHold>>
  /\ SetTop(t, "no")

\* ResAlloc::ResAlloc(rid): a scope is entered, nothing is requested yet.
Construct(t) ==
  /\ ~Waiting(t)
  /\ left[t] > 0
  /\ depth[t] < MaxDepth
  /\ depth' = [depth EXCEPT ![t] = @ + 1]
  /\ left' = [left EXCEPT ![t] = @ - 1]
  /\ UNCHANGED <<wrHold, rdHold, guards, pc>>

\* ResAlloc::request(write, tm) up to the lock call: what the guard holds is
\* released first, and the thread goes to wait.
Request(t, m, timed) ==
  /\ ~Waiting(t)
  /\ left[t] > 0
  /\ DropTop(t)
  /\ pc' = [pc EXCEPT ![t] = <<m, timed>>]
  /\ left' = [left EXCEPT ![t] = @ - 1]
  /\ UNCHANGED depth

\* The lock is free for what t waits for.
Free(t) ==
  /\ wrHold = NoThread
  /\ Wants(t) = "W" => rdHold = {}

Resumed(t) == pc' = [pc EXCEPT ![t] = Running] /\ UNCHANGED <<depth, left>>

\* resRequestW returns and request() sets mAlloc.
GrantW(t) ==
  /\ Waiting(t)
  /\ Wants(t) = "W"
  /\ Free(t)
  /\ wrHold' = t
  /\ SetTop(t, "W")
  /\ Resumed(t)
  /\ UNCHANGED rdHold

\* resRequestR returns and request() sets mAlloc.
GrantR(t) ==
  /\ Waiting(t)
  /\ Wants(t) = "R"
  /\ Free(t)
  /\ rdHold' = rdHold \cup {<<t, depth[t]>>}
  /\ SetTop(t, "R")
  /\ Resumed(t)
  /\ UNCHANGED wrHold

\* Mutant of GrantByOuter: request() swallows every error of the lock.
GrantByAnyError(t) ==
  /\ Waiting(t)
  /\ ~Free(t)
  /\ SetTop(t, Borrowed(Wants(t)))
  /\ Resumed(t)
  /\ UNCHANGED <<wrHold, rdHold>>

\* EDEADLK: the thread writes already; request() swallows the error and the
\* scope runs under the outer guard.
GrantByOuter(t) ==
  /\ Waiting(t)
  /\ wrHold = t
  /\ SetTop(t, Borrowed(Wants(t)))
  /\ Resumed(t)
  /\ UNCHANGED <<wrHold, rdHold>>

\* ETIMEDOUT: TError without the EDEADLK code, request() passes it on.
TimeOut(t) ==
  /\ Waiting(t)
  /\ pc[t][2]
  /\ wrHold # t /\ ~Free(t)
  /\ Resumed(t)
  /\ UNCHANGED <<wrHold, rdHold, guards>>

\* ResAlloc::release() in the scope.
Release(t) ==
  /\ ~Waiting(t)
  /\ DropTop(t)
  /\ UNCHANGED <<depth, pc, left>>

\* Mutant of Destroy: the destructor does not release.
DestroyLeaks(t) ==
  /\ ~Waiting(t)
  /\ depth[t] > 0
  /\ SetTop(t, "no")
  /\ depth' = [depth EXCEPT ![t] = @ - 1]
  /\ UNCHANGED <<wrHold, rdHold, pc, left>>

\* Mutant of Destroy: the scopes of the thread are left twice.
DestroyTwice(t) ==
  /\ ~Waiting(t)
  /\ DropTop(t)
  /\ depth' = [depth EXCEPT ![t] = @ - 2]
  /\ UNCHANGED <<pc, left>>

\* ResAlloc::~ResAlloc() at the end of the scope, or on its way out by an
\* exception: if(mAlloc) release().
Destroy(t) ==
  /\ ~Waiting(t)
  /\ DropTop(t)
  /\ depth' = [depth EXCEPT ![t] = @ - 1]
  /\ UNCHANGED <<pc, left>>

Step(t) ==
  \/ Construct(t)
  \/ \E m \in Modes, timed \in BOOLEAN : Request(t, m, timed)
  \/ GrantW(t)
  \/ GrantR(t)
  \/ GrantByOuter(t)
  \/ TimeOut(t)
  \/ Release(t)
  \/ Destroy(t)

\* Every thread has made its guards and requests and left its scopes.
Quiet == \A t \in Threads : ~Waiting(t) /\ left[t] = 0 /\ depth[t] = 0

Idle == Quiet /\ UNCHANGED vars

Next == Idle \/ \E t \in Threads : Step(t)

Spec == Init /\ [][Next]_vars

\* The scheduler runs every thread that can go on, and a thread in a scope
\* comes to the end of it.
Fairness == \A t \in Threads : WF_vars(Step(t))

FairSpec == Spec /\ Fairness

-----------------------------------------------------------------------------
(* Properties *)

\* No acquisition is leaked and none is given up twice (mAlloc in request(),
\* release() and the destructor): the rwlock is held exactly by the guards
\* that believe they hold it.
LockAccounting ==
  /\ \A t \in Threads, i \in Depths : <<t, i>> \in rdHold <=> guards[t][i] = "R"
  /\ \A t \in Threads : wrHold = t <=> \E i \in Depths : guards[t][i] = "W"

\* A scope that goes on after a swallowed EDEADLK is covered: an outer scope
\* of the same thread holds the write lock itself.
BorrowedIsCovered ==
  \A t \in Threads, i \in Depths :
    guards[t][i] \in {"r", "w"} => \E j \in Depths : j < i /\ guards[t][j] = "W"

\* Code that relies on writing alone (ResAlloc(..., true) returned) is alone:
\* no other thread is in a scope that relies on the resource.
Exclusion ==
  \A t, u \in Threads :
    t # u /\ Relies(t, "W") => ~Relies(u, "W") /\ ~Relies(u, "R")

\* The abstract resource: the place of a thread is the strongest thing its
\* scopes rely on.
PlaceOf(t) ==
  IF Relies(t, "W") THEN "W" ELSE IF Relies(t, "R") THEN "R" ELSE "out"

place == [t \in Threads |-> PlaceOf(t)]

Region == INSTANCE RWRegion WITH region <- place

\* ResRW with ResAlloc implements the abstract read/write region: request()
\* on a guard that holds the lock leaves the region before it enters again.
ImplementsRegion == Region!Spec

\* A thread waits, without a time, to write inside a reading scope of its own.
UpgradesNested(t) ==
  /\ Waiting(t) /\ ~pc[t][2]
  /\ Wants(t) = "W"
  /\ \E i \in Depths : guards[t][i] = "R"

\* Nested upgrades apart, no thread waits for ever: requests are answered and
\* scopes are left until all is quiet, or a nested upgrade stands there for
\* good.
OnlyUpgradesBlock == <>[](Quiet \/ \E t \in Threads : UpgradesNested(t))
=============================================================================
