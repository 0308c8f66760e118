----------------------------- MODULE Redundancy -----------------------------
(***************************************************************************)
(* Redundancy of stations for the controllers of data acquisition: the     *)
(* task of redundancy, TSYS::RdTask (src/src/tsys.cpp), the planning,      *)
(* TDAQS::rdProcess, and the requests to the station that runs a           *)
(* controller, TDAQS::rdStRequest (src/src/tdaqs.cpp).  The archivers of   *)
(* messages have the same planning (TArchiveS::rdProcess).                 *)
(*                                                                         *)
(* Each station has the same controllers, in the mode Asymmetric.  Where   *)
(* mRdUse is set, the controller acquires nothing itself and takes the     *)
(* data of another station.  In each pass the task of a station polls the  *)
(* others one by one, then plans its controllers one by one.  Requests of  *)
(* the user (TParamContr::vlSetRednt) come in between.                     *)
(*                                                                         *)
(* Stations are their places in the order of mSt.  A request and its       *)
(* answer are one step, as the asked station reads its state in one piece. *)
(* The network, a station that stops and the user are external.            *)
(***************************************************************************)
EXTENDS Integers, FiniteSetsExt

CONSTANTS N,            \* number of stations
          Controllers,
          Level,        \* [Stations -> Nat], rdStLevel() of each
          Modes,        \* the values of REDNT_RUN to check
          RestTm,       \* rdRestConnTm(), in passes of the task
          MaxFaults     \* bound: stops, lost requests, reloads

Stations == 1..N

\* The reserved values of REDNT_RUN; any other names a station.
High == 0
Low == -1
Optimal == -2

\* rdStLevel() differs at any two stations, as the levels are meant to; at
\* equal levels <high> and <low> leave both stations running.
ASSUME RedundancyAssumption ==
  /\ N \in Nat \ {0, 1}
  /\ Level \in [Stations -> Nat]
  /\ \A s, r \in Stations : s # r => Level[s] # Level[r]
  /\ Modes \subseteq {High, Low, Optimal} \cup Stations
  /\ RestTm \in Nat /\ MaxFaults \in Nat

VARIABLES
  mode,                 \* redntRun() of each controller, the same everywhere
  up,                   \* the stations that are on
  live, cnt,            \* mSt: isLive of the others, the time to the next try
  known, runs,          \* mRdCntr: what others have, what they run
  started, off,         \* runSt; the controllers the user stopped
  use, first,           \* mRdUse, mRdFirst
  polls, plans, plan,   \* RdTask: who is left to poll, what is left to plan,
  sts,                  \* the controller at hand; rdSts() as it was
  faults

stations == <<live, cnt>>
remote == <<known, runs>>
cntrs == <<started, off, use, first>>
task == <<polls, plans, plan, sts>>
vars == <<mode, up, stations, remote, cntrs, task, faults>>

Others(s) == Stations \ {s}

\* The controllers a station acquires: rdActCntrList(ls, true).
Runs(s) == started[s] \ use[s]

Active(c) == {s \in up : c \in Runs(s)}
On(c) == {s \in up : c \in started[s]}

-----------------------------------------------------------------------------
TypeOK ==
  /\ mode \in [Controllers -> Modes]
  /\ up \subseteq Stations
  /\ live \in [Stations -> SUBSET Stations]
  /\ cnt \in [Stations -> [Stations -> 0..RestTm]]
  /\ known \in [Stations -> [Stations -> SUBSET Controllers]]
  /\ runs \in [Stations -> [Stations -> SUBSET Controllers]]
  /\ started \in [Stations -> SUBSET Controllers]
  /\ off \in [Stations -> SUBSET Controllers]
  /\ use \in [Stations -> SUBSET Controllers]
  /\ first \in [Stations -> SUBSET Controllers]
  /\ polls \in [Stations -> SUBSET Stations]
  /\ plans \in [Stations -> SUBSET Controllers]
  /\ plan \in [Stations -> SUBSET Controllers]
  /\ sts \in [Stations -> SUBSET Stations]
  /\ \A s \in Stations : s \notin live[s] \cup polls[s] \cup sts[s]
  /\ faults \in 0..MaxFaults

\* A station after it was switched on: TController::load_() sets mRdUse.
Init ==
  /\ mode \in [Controllers -> Modes]
  /\ up = {}
  /\ live = [s \in Stations |-> {}]
  /\ cnt = [s \in Stations |-> [r \in Stations |-> 0]]
  /\ known = [s \in Stations |-> [r \in Stations |-> {}]]
  /\ runs = known
  /\ started = [s \in Stations |-> {}]
  /\ off = started
  /\ use = [s \in Stations |-> Controllers]
  /\ first = use
  /\ polls = [s \in Stations |-> Others(s)]
  /\ plans = started
  /\ plan = started
  /\ sts = live
  /\ faults = 0

-----------------------------------------------------------------------------
(* Requests *)

\* Which stations a request of s cannot reach, beside those that are off.
Cuts(s) == {{}} \cup IF faults < MaxFaults THEN {{r} : r \in live[s]} ELSE {}
Lose(cut) == faults' = faults + Cardinality(cut)

\* The stations the data of c is asked for at, by TDAQS::rdStRequest().
Asked(s, c, toRun) ==
  {r \in Others(s) : c \in known[s][r] /\ (toRun => c \in runs[s][r])}

\* TSYS::rdStRequest() takes the first live station that answers, whichever it
\* was called for, and marks dead the ones that do not.
Answering(s, cut) == (live[s] \cap up) \ cut
Tried(s, cut) ==
  IF Answering(s, cut) = {} THEN live[s]
  ELSE {r \in live[s] : r < Min(Answering(s, cut))}

\* Mutant of Missed: the time to the next try is added to the last one.
MissedMore(s, cut) ==
  /\ live' = [live EXCEPT ![s] = @ \ Tried(s, cut)]
  /\ cnt' = [cnt EXCEPT ![s] = [r \in Stations |->
       IF r \in Tried(s, cut) THEN 2*RestTm ELSE @[r]]]

Missed(s, cut) ==
  /\ live' = [live EXCEPT ![s] = @ \ Tried(s, cut)]
  /\ cnt' = [cnt EXCEPT ![s] = [r \in Stations |->
       IF r \in Tried(s, cut) THEN RestTm ELSE @[r]]]

\* TDAQS::rdStRequest(): with no answer the stations asked at are forgotten and
\* the controller is to run here.
Forget(tbl, s, c, toRun) ==
  [tbl EXCEPT ![s] = [r \in Stations |->
     IF r \in Asked(s, c, toRun) THEN {} ELSE @[r]]]

Request(s, c, toRun, cut) ==
  IF Asked(s, c, toRun) = {} THEN
    /\ use' = [use EXCEPT ![s] = @ \ {c}]
    /\ UNCHANGED <<stations, remote>>
  ELSE /\ Missed(s, cut)
       /\ IF Answering(s, cut) # {} THEN UNCHANGED <<remote, use>>
          ELSE /\ known' = Forget(known, s, c, toRun)
               /\ runs' = Forget(runs, s, c, toRun)
               /\ use' = [use EXCEPT ![s] = @ \ {c}]

Replied(s, c, toRun, cut) == Asked(s, c, toRun) # {} /\ Answering(s, cut) # {}

\* TController::redntDataUpdate(): until the first answer any station will do.
DataUpdate(s, c, cut) ==
  /\ Request(s, c, c \notin first[s], cut)
  /\ first' = IF Replied(s, c, c \notin first[s], cut)
              THEN [first EXCEPT ![s] = @ \ {c}] ELSE first

-----------------------------------------------------------------------------
(* RdTask *)

\* Mutant of Answered: what the other has is taken for what it runs.
AnsweredKnown(s, r) ==
  /\ live' = [live EXCEPT ![s] = @ \cup {r}]
  /\ known' = [known EXCEPT ![s][r] = started[r]]
  /\ runs' = [runs EXCEPT ![s][r] = started[r]]
  /\ UNCHANGED cnt

Answered(s, r) ==
  /\ live' = [live EXCEPT ![s] = @ \cup {r}]
  /\ known' = [known EXCEPT ![s][r] = started[r]]
  /\ runs' = [runs EXCEPT ![s][r] = Runs(r)]
  /\ UNCHANGED cnt

NotAnswered(s, r) ==
  /\ live' = [live EXCEPT ![s] = @ \ {r}]
  /\ cnt' = [cnt EXCEPT ![s][r] = RestTm]
  /\ UNCHANGED remote

\* The next station of the pass: asked when it is live or its time has come.
Poll(s) ==
  /\ s \in up
  /\ \E r \in polls[s] :
       /\ \A q \in polls[s] : r <= q
       /\ IF r \in live[s] \/ cnt[s][r] = 0 THEN
            \/ r \in up /\ Answered(s, r) /\ UNCHANGED faults
            \/ r \notin up /\ NotAnswered(s, r) /\ UNCHANGED faults
            \/ r \in up /\ faults < MaxFaults /\ NotAnswered(s, r) /\ Lose({r})
          ELSE /\ cnt' = [cnt EXCEPT ![s][r] = @ - 1]
               /\ UNCHANGED <<live, remote, faults>>
       /\ polls' = [polls EXCEPT ![s] = @ \ {r}]
       /\ IF polls'[s] = {} THEN
            /\ sts' = [sts EXCEPT ![s] = live'[s]]
            /\ plans' = [plans EXCEPT ![s] = started[s]]
          ELSE UNCHANGED <<sts, plans>>
  /\ UNCHANGED <<mode, up, cntrs, plan>>

\* What the planning of rdProcess() gives to setRedntUse(): who runs the
\* controller, of the stations live when the planning began, is to be preferred.
RunsAt(s, c) == {r \in sts[s] : c \in runs[s][r]}

Passive(s, c) ==
  CASE mode[c] = High -> \E r \in RunsAt(s, c) : Level[r] > Level[s]
    [] mode[c] = Low -> \E r \in RunsAt(s, c) : Level[r] < Level[s]
    [] mode[c] = Optimal ->
         \E r \in RunsAt(s, c) : Cardinality(Runs(s)) >= Cardinality(runs[s][r])
    [] OTHER -> mode[c] \in RunsAt(s, c)

\* Controllers of rdActCntrList() in turn: a passive one takes the data first.
\* That may change mRdUse, mSt and mRdCntr, while sts stays what it was.
Update(s, c) ==
  /\ s \in up /\ plan[s] = {} /\ c \in plans[s]
  /\ plans' = [plans EXCEPT ![s] = @ \ {c}]
  /\ plan' = [plan EXCEPT ![s] = {c}]
  /\ IF c \in started[s] \cap use[s]
     THEN \E cut \in Cuts(s) : DataUpdate(s, c, cut) /\ Lose(cut)
     ELSE UNCHANGED <<stations, remote, use, first, faults>>
  /\ UNCHANGED <<mode, up, started, off, polls, sts>>

\* Mutant of Decide: the planning passes the controller on and never takes it.
DecideYields(s, c) ==
  /\ s \in up /\ c \in plan[s]
  /\ plan' = [plan EXCEPT ![s] = {}]
  /\ use' = [use EXCEPT ![s] = IF Passive(s, c) THEN @ \cup {c} ELSE @]
  /\ UNCHANGED <<mode, up, stations, remote, started, off, first, polls, plans, sts, faults>>

Decide(s, c) ==
  /\ s \in up /\ c \in plan[s]
  /\ plan' = [plan EXCEPT ![s] = {}]
  /\ use' = [use EXCEPT ![s] = IF Passive(s, c) THEN @ \cup {c} ELSE @ \ {c}]
  /\ UNCHANGED <<mode, up, stations, remote, started, off, first, polls, plans, sts, faults>>

\* taskSleep(), and the next pass.
NextPass(s) ==
  /\ s \in up /\ polls[s] = {} /\ plans[s] = {} /\ plan[s] = {}
  /\ polls' = [polls EXCEPT ![s] = Others(s)]
  /\ sts' = [sts EXCEPT ![s] = {}]
  /\ UNCHANGED <<mode, up, stations, remote, cntrs, plans, plan, faults>>

RdTask(s) ==
  \/ Poll(s) \/ NextPass(s)
  \/ \E c \in Controllers : Update(s, c) \/ Decide(s, c)

-----------------------------------------------------------------------------
(* The user, the system *)

\* A value is set to a passive controller, started or not:
\* TParamContr::vlSetRednt().
Write(s, c) ==
  /\ s \in up /\ c \in use[s]
  /\ \E cut \in Cuts(s) : Request(s, c, TRUE, cut) /\ Lose(cut)
  /\ UNCHANGED <<mode, up, started, off, first, task>>

\* TController::start() synchronizes before it runs.  Both are one step here:
\* what the task of redundancy does between them is left out.
CntrStart(s, c) ==
  /\ s \in up /\ c \notin started[s]
  /\ \E cut \in Cuts(s) : DataUpdate(s, c, cut) /\ Lose(cut)
  /\ started' = [started EXCEPT ![s] = @ \cup {c}]
  /\ off' = [off EXCEPT ![s] = @ \ {c}]
  /\ UNCHANGED <<mode, up, task>>

CntrStop(s, c) ==
  /\ s \in up /\ c \in started[s]
  /\ Lose({s})
  /\ started' = [started EXCEPT ![s] = @ \ {c}]
  /\ off' = [off EXCEPT ![s] = @ \cup {c}]
  /\ UNCHANGED <<mode, up, stations, remote, use, first, task>>

\* TController::load_() of a controller that is there.
Reload(s, c) ==
  /\ s \in up /\ c \notin use[s]
  /\ Lose({s})
  /\ use' = [use EXCEPT ![s] = @ \cup {c}]
  /\ UNCHANGED <<mode, up, stations, remote, started, off, first, task>>

\* A station is switched on: TSYS::start() creates RdTask before it starts the
\* controllers.
Boot(s) ==
  /\ s \notin up
  /\ up' = up \cup {s}
  /\ UNCHANGED <<mode, stations, remote, cntrs, task, faults>>

\* A station stops or crashes, and leaves nothing of its state.
Crash(s) ==
  /\ s \in up
  /\ Lose({s})
  /\ up' = up \ {s}
  /\ live' = [live EXCEPT ![s] = {}]
  /\ cnt' = [cnt EXCEPT ![s] = [r \in Stations |-> 0]]
  /\ known' = [known EXCEPT ![s] = [r \in Stations |-> {}]]
  /\ runs' = [runs EXCEPT ![s] = [r \in Stations |-> {}]]
  /\ started' = [started EXCEPT ![s] = {}]
  /\ off' = [off EXCEPT ![s] = {}]
  /\ use' = [use EXCEPT ![s] = Controllers]
  /\ first' = [first EXCEPT ![s] = Controllers]
  /\ polls' = [polls EXCEPT ![s] = Others(s)]
  /\ plans' = [plans EXCEPT ![s] = {}]
  /\ plan' = [plan EXCEPT ![s] = {}]
  /\ sts' = [sts EXCEPT ![s] = {}]
  /\ UNCHANGED mode

Fault(s) ==
  /\ faults < MaxFaults
  /\ Crash(s) \/ \E c \in Controllers : CntrStop(s, c) \/ Reload(s, c)

Next == \E s \in Stations :
  \/ RdTask(s) \/ Boot(s) \/ Fault(s)
  \/ \E c \in Controllers : Write(s, c) \/ CntrStart(s, c)

Spec == Init /\ [][Next]_vars

\* The task runs at its period, and the subsystem starts the controllers of a
\* station that boots.  Nobody need switch a station on.
FairSpec ==
  /\ Spec
  /\ \A s \in Stations : WF_vars(RdTask(s))
  /\ \A s \in Stations, c \in Controllers :
       WF_vars(c \notin off[s] /\ CntrStart(s, c))

-----------------------------------------------------------------------------
(* Properties *)

\* While nothing fails, stations hand a controller over to one another without
\* a moment at which none acquires its data, though each decides from what it
\* was told in its last poll: the one who takes over starts first, then the
\* other yields.  Not so with <optimal>, where two stations of one load that
\* run a controller yield to each other.
NeverUnserved ==
  \A c \in Controllers :
    faults = 0 /\ mode[c] # Optimal /\ On(c) # {} => Active(c) # {}

\* After the last fault the controller is acquired at one station of those where
\* it is started: the best by levels, or the one REDNT_RUN names.  Without that
\* one each of the others acquires.
Placed(c) ==
  LET best == CASE mode[c] = High -> {s \in On(c) : \A r \in On(c) : Level[r] <= Level[s]}
                [] mode[c] = Low -> {s \in On(c) : \A r \in On(c) : Level[r] >= Level[s]}
                [] OTHER -> On(c) \cap {mode[c]}
  IN Active(c) = IF best = {} THEN On(c) ELSE best

SettlesAtBest == <>[](\A c \in Controllers : mode[c] # Optimal => Placed(c))

\* A passive controller takes the data of "the first active station for this
\* controller object": while nothing fails, of one it knows to run it.
RequestToRunner ==
  \A s \in up, c \in Controllers :
    (/\ c \in plans[s] \cap started[s] \cap use[s] /\ plan[s] = {}
     /\ Asked(s, c, TRUE) \cap live[s] # {})
    => Min(live[s]) \in Asked(s, c, TRUE)

=============================================================================
