-------------------------- MODULE Redundancy_proofs --------------------------
(***************************************************************************)
(* Proofs about Redundancy, for any number of stations and controllers:    *)
(* while nothing fails, no handing over leaves a controller unserved.      *)
(*                                                                         *)
(* A station yields to one of which it was told, maybe long ago, that it   *)
(* runs the controller.  What makes that safe is Backed: whoever is        *)
(* remembered to run a controller, one at least as preferable runs it now. *)
(***************************************************************************)
EXTENDS Redundancy, TLAPS, FiniteSetTheorems

\* Station t is no worse for controller c than station r.
AsGood(c, t, r) ==
  CASE mode[c] = High -> Level[t] >= Level[r]
    [] mode[c] = Low -> Level[t] <= Level[r]
    [] OTHER -> r = mode[c] => t = r

\* The controllers the planning by levels or by station concerns.
Planned(c) == mode[c] # Optimal

Backed ==
  \A s \in Stations, r \in Stations, c \in Controllers :
    Planned(c) /\ c \in runs[s][r] => \E t \in Active(c) : AsGood(c, t, r)

\* What a station knows to be started is started.
KnownOn ==
  \A s \in Stations, r \in Stations, c \in Controllers :
    c \in known[s][r] => r \in On(c)

Served == \A c \in Controllers : Planned(c) /\ On(c) # {} => Active(c) # {}

\* A station that is off runs nothing.
OffIsEmpty == \A s \in Stations \ up : started[s] = {}

IInv ==
  /\ TypeOK
  /\ OffIsEmpty
  /\ faults = 0 => Backed /\ KnownOn /\ Served

-----------------------------------------------------------------------------
(* Requests.                                                               *)

\* Losing the network costs a fault for each station that is cut off.
LEMMA LoseType ==
  ASSUME RedundancyAssumption, TypeOK, NEW s \in Stations, NEW cut \in Cuts(s), Lose(cut)
  PROVE  faults' \in 0..MaxFaults /\ (faults' = 0 => faults = 0 /\ cut = {})
<1>1. CASE cut = {}
  <2>1. faults' = faults
    BY <1>1, FS_EmptySet DEF Lose, TypeOK
  <2>2. QED
    BY <1>1, <2>1 DEF TypeOK
<1>2. CASE cut # {}
  <2>1. PICK r : cut = {r} /\ faults < MaxFaults
    BY <1>2, Zenon DEF Cuts
  <2>2. faults' = faults + 1
    BY <2>1, FS_Singleton DEF Lose
  <2>3. QED
    BY <2>1, <2>2 DEF TypeOK, RedundancyAssumption
<1>3. QED
  BY <1>1, <1>2

\* The fault of one station.
LEMMA LoseOne ==
  ASSUME RedundancyAssumption, TypeOK, faults < MaxFaults, NEW s, Lose({s})
  PROVE  faults' \in 1..MaxFaults
<1>1. faults' = faults + 1
  BY FS_Singleton DEF Lose
<1>2. QED
  BY <1>1 DEF TypeOK, RedundancyAssumption

\* Making a controller run here takes nobody off.
LEMMA UseShrinks ==
  ASSUME TypeOK, NEW s \in Stations, NEW c \in Controllers,
         use' = use \/ use' = [use EXCEPT ![s] = @ \ {c}]
  PROVE  /\ use' \in [Stations -> SUBSET Controllers]
         /\ \A q \in Stations : use'[q] \subseteq use[q]
<1>1. CASE use' = [use EXCEPT ![s] = @ \ {c}]
  BY <1>1 DEF TypeOK
<1>2. CASE use' = use
  BY <1>2 DEF TypeOK
<1>3. QED
  BY <1>1, <1>2

\* A request marks stations dead, forgets what was known of some, and may make
\* the controller run here.
LEMMA RequestEffect ==
  ASSUME RedundancyAssumption, TypeOK, NEW s \in Stations, NEW c \in Controllers,
         NEW toRun \in BOOLEAN, NEW cut, Request(s, c, toRun, cut)
  PROVE  /\ live' \in [Stations -> SUBSET Stations]
         /\ \A q \in Stations : live'[q] \subseteq live[q]
         /\ cnt' \in [Stations -> [Stations -> 0..RestTm]]
         /\ known' \in [Stations -> [Stations -> SUBSET Controllers]]
         /\ runs' \in [Stations -> [Stations -> SUBSET Controllers]]
         /\ \A q, r \in Stations :
              known'[q][r] \subseteq known[q][r] /\ runs'[q][r] \subseteq runs[q][r]
         /\ \/ use' = use /\ Replied(s, c, toRun, cut)
            \/ use' = [use EXCEPT ![s] = @ \ {c}] /\ ~Replied(s, c, toRun, cut)
<1>1. CASE Asked(s, c, toRun) = {}
  BY <1>1 DEF Request, Replied, TypeOK, stations, remote
<1>2. CASE Asked(s, c, toRun) # {}
  <2>1. Missed(s, cut)
    BY <1>2 DEF Request
  <2>2. /\ live' \in [Stations -> SUBSET Stations]
        /\ \A q \in Stations : live'[q] \subseteq live[q]
    BY <2>1 DEF Missed, TypeOK
  <2>3. RestTm \in 0..RestTm
    BY DEF RedundancyAssumption
  <2>4. cnt' \in [Stations -> [Stations -> 0..RestTm]]
    <3>1. [r \in Stations |-> IF r \in Tried(s, cut) THEN RestTm ELSE cnt[s][r]]
            \in [Stations -> 0..RestTm]
      BY <2>3 DEF TypeOK
    <3>2. cnt' = [cnt EXCEPT ![s] = [r \in Stations |->
                    IF r \in Tried(s, cut) THEN RestTm ELSE cnt[s][r]]]
      BY <2>1 DEF Missed
    <3>3. QED
      BY <3>1, <3>2 DEF TypeOK
  <2>5. CASE Answering(s, cut) # {}
    BY <1>2, <2>2, <2>4, <2>5 DEF Request, Replied, remote, TypeOK
  <2>6. CASE Answering(s, cut) = {}
    <3>1. ASSUME NEW tbl \in [Stations -> [Stations -> SUBSET Controllers]]
          PROVE  /\ Forget(tbl, s, c, toRun) \in [Stations -> [Stations -> SUBSET Controllers]]
                 /\ \A q, r \in Stations : Forget(tbl, s, c, toRun)[q][r] \subseteq tbl[q][r]
      BY <3>1 DEF Forget
    <3>2. /\ known' = Forget(known, s, c, toRun)
          /\ runs' = Forget(runs, s, c, toRun)
          /\ use' = [use EXCEPT ![s] = @ \ {c}]
      BY <1>2, <2>6 DEF Request
    <3>3. ~Replied(s, c, toRun, cut)
      BY <2>6 DEF Replied
    <3>4. QED
      BY <2>2, <2>4, <3>1, <3>2, <3>3 DEF TypeOK
  <2>7. QED
    BY <2>5, <2>6
<1>3. QED
  BY <1>1, <1>2

\* An update of the data is a request, whose first answer is noted.
LEMMA UpdateEffect ==
  ASSUME RedundancyAssumption, TypeOK, NEW s \in Stations, NEW c \in Controllers,
         NEW cut, DataUpdate(s, c, cut)
  PROVE  /\ first' \in [Stations -> SUBSET Controllers]
         /\ \E toRun \in BOOLEAN : Request(s, c, toRun, cut)
         /\ \/ use' = use /\ \E r \in Stations : c \in known[s][r]
            \/ use' = [use EXCEPT ![s] = @ \ {c}]
<1>1. PICK toRun \in BOOLEAN : toRun = (c \notin first[s])
  OBVIOUS
<1>2. Request(s, c, toRun, cut)
  BY <1>1 DEF DataUpdate
<1>3. first' \in [Stations -> SUBSET Controllers]
  BY DEF DataUpdate, TypeOK
<1>4. Replied(s, c, toRun, cut) => \E r \in Stations : c \in known[s][r]
  BY DEF Replied, Asked, Others
<1>5. QED
  BY <1>2, <1>3, <1>4, RequestEffect

-----------------------------------------------------------------------------
(* Steps that only add to who acquires.                                    *)

\* Where nobody ceases to acquire, and what is newly remembered is so, the
\* controllers stay served.
LEMMA GrowKeeps ==
  ASSUME RedundancyAssumption, TypeOK, Backed, KnownOn, Served, mode' = mode,
         \A c \in Controllers :
           /\ Active(c) \subseteq Active(c)' /\ On(c) \subseteq On(c)'
           /\ On(c)' # {} => On(c) # {} \/ Active(c)' # {},
         \A s, r \in Stations, c \in Controllers :
           /\ c \in runs'[s][r] => c \in runs[s][r] \/ r \in Active(c)'
           /\ c \in known'[s][r] => c \in known[s][r] \/ r \in On(c)'
  PROVE  Backed' /\ KnownOn' /\ Served'
<1>1. KnownOn'
  BY DEF KnownOn
<1>2. Served'
  BY DEF Served, Planned
<1>3. Backed'
  <2>1. SUFFICES ASSUME NEW s \in Stations, NEW r \in Stations, NEW c \in Controllers,
                        Planned(c), c \in runs'[s][r]
                 PROVE  \E t \in Active(c)' : AsGood(c, t, r)
    BY DEF Backed, Planned, AsGood
  <2>2. CASE c \in runs[s][r]
    BY <2>1, <2>2 DEF Backed
  <2>3. CASE r \in Active(c)'
    <3>1. AsGood(c, r, r)
      BY DEF AsGood, RedundancyAssumption
    <3>2. QED
      BY <2>3, <3>1
  <2>4. QED
    BY <2>1, <2>2, <2>3
<1>4. QED
  BY <1>1, <1>2, <1>3

\* A request alone: it takes nobody off.
LEMMA RequestKeeps ==
  ASSUME RedundancyAssumption, TypeOK, Backed, KnownOn, Served,
         NEW s \in Stations, NEW c \in Controllers,
         use' = use \/ use' = [use EXCEPT ![s] = @ \ {c}],
         \A q, r \in Stations :
           known'[q][r] \subseteq known[q][r] /\ runs'[q][r] \subseteq runs[q][r],
         UNCHANGED <<mode, up, started>>
  PROVE  Backed' /\ KnownOn' /\ Served'
<1>1. \A q \in Stations : use'[q] \subseteq use[q]
  BY UseShrinks
<1>2. \A d \in Controllers : Active(d) \subseteq Active(d)'
  BY <1>1 DEF Active, Runs, TypeOK
<1>3. \A d \in Controllers : On(d)' = On(d)
  BY DEF On
<1>4. QED
  BY <1>2, <1>3, GrowKeeps

-----------------------------------------------------------------------------
(* The actions.                                                            *)

LEMMA PollKeeps ==
  ASSUME RedundancyAssumption, IInv, NEW s \in Stations, Poll(s) PROVE IInv'
<1>1. PICK r \in polls[s] :
        /\ \/ r \in up /\ Answered(s, r) /\ UNCHANGED faults
           \/ r \notin up /\ NotAnswered(s, r) /\ UNCHANGED faults
           \/ r \in up /\ faults < MaxFaults /\ NotAnswered(s, r) /\ Lose({r})
           \/ /\ cnt[s][r] # 0
              /\ cnt' = [cnt EXCEPT ![s][r] = @ - 1]
              /\ UNCHANGED <<live, remote, faults>>
        /\ polls' = [polls EXCEPT ![s] = @ \ {r}]
        /\ \/ /\ sts' = [sts EXCEPT ![s] = live'[s]]
              /\ plans' = [plans EXCEPT ![s] = started[s]]
           \/ UNCHANGED <<sts, plans>>
  BY Zenon DEF Poll
<1>2. UNCHANGED <<mode, up, started, off, use, first, plan>>
  BY DEF Poll, cntrs
<1>3. r \in Stations /\ r # s /\ TypeOK /\ OffIsEmpty
  BY DEF IInv, TypeOK
<1>4. /\ live' \in [Stations -> SUBSET Stations]
      /\ \A q \in Stations : q \notin live'[q]
  <2>1. CASE live' = [live EXCEPT ![s] = @ \cup {r}]
    BY <1>3, <2>1 DEF TypeOK
  <2>2. CASE live' = [live EXCEPT ![s] = @ \ {r}]
    BY <1>3, <2>2 DEF TypeOK
  <2>3. CASE live' = live
    BY <1>3, <2>3 DEF TypeOK
  <2>4. QED
    BY <1>1, <2>1, <2>2, <2>3 DEF Answered, NotAnswered
<1>5. cnt' \in [Stations -> [Stations -> 0..RestTm]]
  <2>1. CASE cnt' = [cnt EXCEPT ![s][r] = RestTm]
    BY <1>3, <2>1 DEF TypeOK, RedundancyAssumption
  <2>2. CASE cnt[s][r] # 0 /\ cnt' = [cnt EXCEPT ![s][r] = @ - 1]
    <3>1. cnt[s][r] \in 0..RestTm /\ RestTm \in Nat
      BY <1>3 DEF TypeOK, RedundancyAssumption
    <3>2. cnt[s][r] - 1 \in 0..RestTm
      BY <2>2, <3>1
    <3>3. QED
      BY <1>3, <2>2, <3>2 DEF TypeOK
  <2>3. CASE cnt' = cnt
    BY <1>3, <2>3 DEF TypeOK
  <2>4. QED
    BY <1>1, <2>1, <2>2, <2>3 DEF Answered, NotAnswered
<1>6. Runs(r) \subseteq Controllers /\ started[r] \subseteq Controllers
  BY <1>3 DEF Runs, TypeOK
<1>7. /\ known' \in [Stations -> [Stations -> SUBSET Controllers]]
      /\ runs' \in [Stations -> [Stations -> SUBSET Controllers]]
      /\ \A q, t \in Stations, c \in Controllers :
           /\ c \in runs'[q][t] => c \in runs[q][t] \/ (t \in up /\ c \in Runs(t))
           /\ c \in known'[q][t] => c \in known[q][t] \/ (t \in up /\ c \in started[t])
  <2>1. CASE r \in up /\ Answered(s, r)
    BY <1>3, <1>6, <2>1 DEF Answered, TypeOK
  <2>2. CASE UNCHANGED remote
    BY <1>3, <2>2 DEF remote, TypeOK
  <2>3. QED
    BY <1>1, <2>1, <2>2 DEF NotAnswered
<1>8. faults' \in 0..MaxFaults /\ (faults' = 0 => faults = 0)
  <2>1. CASE faults < MaxFaults /\ Lose({r})
    <3>1. faults' \in 1..MaxFaults
      BY <1>3, <2>1, LoseOne
    <3>2. QED
      BY <3>1 DEF RedundancyAssumption
  <2>2. CASE UNCHANGED faults
    BY <1>3, <2>2 DEF TypeOK
  <2>3. QED
    BY <1>1, <2>1, <2>2
<1>9. /\ polls' \in [Stations -> SUBSET Stations]
      /\ sts' \in [Stations -> SUBSET Stations]
      /\ plans' \in [Stations -> SUBSET Controllers]
      /\ \A q \in Stations : q \notin polls'[q] \cup sts'[q]
  <2>1. /\ polls' \in [Stations -> SUBSET Stations]
        /\ \A q \in Stations : q \notin polls'[q]
    BY <1>1, <1>3 DEF TypeOK
  <2>2. CASE /\ sts' = [sts EXCEPT ![s] = live'[s]]
             /\ plans' = [plans EXCEPT ![s] = started[s]]
    BY <1>3, <1>4, <2>1, <2>2 DEF TypeOK
  <2>3. CASE UNCHANGED <<sts, plans>>
    BY <1>3, <2>1, <2>3 DEF TypeOK
  <2>4. QED
    BY <1>1, <2>2, <2>3
<1>10. TypeOK'
  BY <1>2, <1>3, <1>4, <1>5, <1>7, <1>8, <1>9 DEF TypeOK
<1>11. OffIsEmpty'
  BY <1>2, <1>3 DEF OffIsEmpty
<1>12. ASSUME faults' = 0 PROVE Backed' /\ KnownOn' /\ Served'
  <2>1. \A c \in Controllers : Active(c)' = Active(c) /\ On(c)' = On(c)
    BY <1>2 DEF Active, On, Runs
  <2>2. \A q, t \in Stations, c \in Controllers :
          /\ c \in runs'[q][t] => c \in runs[q][t] \/ t \in Active(c)'
          /\ c \in known'[q][t] => c \in known[q][t] \/ t \in On(c)'
    BY <1>7, <2>1 DEF Active, On
  <2>3. QED
    BY <1>2, <1>3, <1>8, <1>12, <2>1, <2>2, GrowKeeps DEF IInv
<1>13. QED
  BY <1>10, <1>11, <1>12 DEF IInv

LEMMA UpdateKeeps ==
  ASSUME RedundancyAssumption, IInv, NEW s \in Stations, NEW c \in Controllers, Update(s, c)
  PROVE  IInv'
<1>1. TypeOK /\ OffIsEmpty
  BY DEF IInv
<1>2. /\ plans' = [plans EXCEPT ![s] = @ \ {c}]
      /\ plan' = [plan EXCEPT ![s] = {c}]
      /\ UNCHANGED <<mode, up, started, off, polls, sts>>
  BY DEF Update
<1>3. /\ plans' \in [Stations -> SUBSET Controllers]
      /\ plan' \in [Stations -> SUBSET Controllers]
  BY <1>1, <1>2 DEF TypeOK
<1>4. OffIsEmpty'
  BY <1>1, <1>2 DEF OffIsEmpty
<1>5. CASE UNCHANGED <<stations, remote, use, first, faults>>
  <2>1. TypeOK'
    BY <1>1, <1>2, <1>3, <1>5 DEF TypeOK, stations, remote
  <2>2. ASSUME faults' = 0 PROVE Backed' /\ KnownOn' /\ Served'
    <3>1. known' = known /\ runs' = runs
      BY <1>5 DEF remote
    <3>2. QED
      BY <1>1, <1>2, <1>5, <2>2, <3>1, RequestKeeps DEF IInv
  <2>3. QED
    BY <1>4, <2>1, <2>2 DEF IInv
<1>6. CASE \E cut \in Cuts(s) : DataUpdate(s, c, cut) /\ Lose(cut)
  <2>1. PICK cut \in Cuts(s) : DataUpdate(s, c, cut) /\ Lose(cut)
    BY <1>6
  <2>2. PICK toRun \in BOOLEAN : Request(s, c, toRun, cut)
    BY <1>1, <2>1, UpdateEffect
  <2>3. use' = use \/ use' = [use EXCEPT ![s] = @ \ {c}]
    BY <1>1, <2>2, RequestEffect
  <2>4. use' \in [Stations -> SUBSET Controllers]
    BY <1>1, <2>3, UseShrinks
  <2>5. first' \in [Stations -> SUBSET Controllers]
    BY <1>1, <2>1, UpdateEffect
  <2>6. faults' \in 0..MaxFaults /\ (faults' = 0 => faults = 0)
    BY <1>1, <2>1, LoseType
  <2>7. /\ live' \in [Stations -> SUBSET Stations]
        /\ \A q \in Stations : live'[q] \subseteq live[q]
        /\ cnt' \in [Stations -> [Stations -> 0..RestTm]]
        /\ known' \in [Stations -> [Stations -> SUBSET Controllers]]
        /\ runs' \in [Stations -> [Stations -> SUBSET Controllers]]
        /\ \A q, r \in Stations :
             known'[q][r] \subseteq known[q][r] /\ runs'[q][r] \subseteq runs[q][r]
    BY <1>1, <2>2, RequestEffect
  <2>8. TypeOK'
    BY <1>1, <1>2, <1>3, <2>4, <2>5, <2>6, <2>7 DEF TypeOK
  <2>9. ASSUME faults' = 0 PROVE Backed' /\ KnownOn' /\ Served'
    BY <1>1, <1>2, <2>3, <2>6, <2>7, <2>9, RequestKeeps DEF IInv
  <2>10. QED
    BY <1>4, <2>8, <2>9 DEF IInv
<1>7. QED
  BY <1>5, <1>6 DEF Update

LEMMA WriteKeeps ==
  ASSUME RedundancyAssumption, IInv, NEW s \in Stations, NEW c \in Controllers, Write(s, c)
  PROVE  IInv'
<1>1. TypeOK /\ OffIsEmpty
  BY DEF IInv
<1>2. UNCHANGED <<mode, up, started, off, first, polls, plans, plan, sts>>
  BY DEF Write, task
<1>3. PICK cut \in Cuts(s) : Request(s, c, TRUE, cut) /\ Lose(cut)
  BY DEF Write
<1>4. use' = use \/ use' = [use EXCEPT ![s] = @ \ {c}]
  BY <1>1, <1>3, RequestEffect
<1>5. faults' \in 0..MaxFaults /\ (faults' = 0 => faults = 0)
  BY <1>1, <1>3, LoseType
<1>6. /\ live' \in [Stations -> SUBSET Stations]
      /\ \A q \in Stations : live'[q] \subseteq live[q]
      /\ cnt' \in [Stations -> [Stations -> 0..RestTm]]
      /\ known' \in [Stations -> [Stations -> SUBSET Controllers]]
      /\ runs' \in [Stations -> [Stations -> SUBSET Controllers]]
      /\ \A q, r \in Stations :
           known'[q][r] \subseteq known[q][r] /\ runs'[q][r] \subseteq runs[q][r]
  BY <1>1, <1>3, RequestEffect
<1>7. use' \in [Stations -> SUBSET Controllers]
  BY <1>1, <1>4, UseShrinks
<1>8. TypeOK'
  BY <1>1, <1>2, <1>5, <1>6, <1>7 DEF TypeOK
<1>9. OffIsEmpty'
  BY <1>1, <1>2 DEF OffIsEmpty
<1>10. ASSUME faults' = 0 PROVE Backed' /\ KnownOn' /\ Served'
  BY <1>1, <1>2, <1>4, <1>5, <1>6, <1>10, RequestKeeps DEF IInv
<1>11. QED
  BY <1>8, <1>9, <1>10 DEF IInv

\* A controller that starts is passive only if another station has it started:
\* then it is served already.
LEMMA CntrStartKeeps ==
  ASSUME RedundancyAssumption, IInv, NEW s \in Stations, NEW c \in Controllers,
         CntrStart(s, c)
  PROVE  IInv'
<1>1. TypeOK /\ OffIsEmpty /\ s \in up
  BY DEF IInv, CntrStart
<1>2. /\ UNCHANGED <<mode, up, polls, plans, plan, sts>>
      /\ started' = [started EXCEPT ![s] = @ \cup {c}]
      /\ off' = [off EXCEPT ![s] = @ \ {c}]
  BY DEF CntrStart, task
<1>3. PICK cut \in Cuts(s) : DataUpdate(s, c, cut) /\ Lose(cut)
  BY DEF CntrStart
<1>4. PICK toRun \in BOOLEAN : Request(s, c, toRun, cut)
  BY <1>1, <1>3, UpdateEffect
<1>5. /\ first' \in [Stations -> SUBSET Controllers]
      /\ \/ use' = use /\ \E r \in Stations : c \in known[s][r]
         \/ use' = [use EXCEPT ![s] = @ \ {c}]
  BY <1>1, <1>3, UpdateEffect
<1>6. faults' \in 0..MaxFaults /\ (faults' = 0 => faults = 0)
  BY <1>1, <1>3, LoseType
<1>7. /\ live' \in [Stations -> SUBSET Stations]
      /\ \A q \in Stations : live'[q] \subseteq live[q]
      /\ cnt' \in [Stations -> [Stations -> 0..RestTm]]
      /\ known' \in [Stations -> [Stations -> SUBSET Controllers]]
      /\ runs' \in [Stations -> [Stations -> SUBSET Controllers]]
      /\ \A q, r \in Stations :
           known'[q][r] \subseteq known[q][r] /\ runs'[q][r] \subseteq runs[q][r]
  BY <1>1, <1>4, RequestEffect
<1>8. /\ use' \in [Stations -> SUBSET Controllers]
      /\ started' \in [Stations -> SUBSET Controllers]
      /\ off' \in [Stations -> SUBSET Controllers]
  <2>1. use' \in [Stations -> SUBSET Controllers]
    BY <1>1, <1>5, UseShrinks
  <2>2. QED
    BY <1>1, <1>2, <2>1 DEF TypeOK
<1>9. TypeOK'
  BY <1>1, <1>2, <1>5, <1>6, <1>7, <1>8 DEF TypeOK
<1>10. OffIsEmpty'
  BY <1>1, <1>2 DEF OffIsEmpty, TypeOK
<1>11. ASSUME faults' = 0 PROVE Backed' /\ KnownOn' /\ Served'
  <2>1. Backed /\ KnownOn /\ Served
    BY <1>6, <1>11 DEF IInv
  <2>2. \A q \in Stations, d \in Controllers :
          /\ d \in started'[q] <=> d \in started[q] \/ (q = s /\ d = c)
          /\ d \in use'[q] => d \in use[q]
    BY <1>1, <1>2, <1>5 DEF TypeOK
  <2>3. \A d \in Controllers : Active(d) \subseteq Active(d)' /\ On(d) \subseteq On(d)'
    BY <1>1, <1>2, <2>2 DEF Active, On, Runs, TypeOK
  <2>4. \A d \in Controllers : On(d)' # {} => On(d) # {} \/ Active(d)' # {}
    <3>1. \A d \in Controllers : d # c => On(d)' = On(d)
      BY <1>1, <1>2, <2>2 DEF On, TypeOK
    <3>2. On(c) # {} \/ Active(c)' # {}
      <4>1. CASE \E r \in Stations : c \in known[s][r]
        BY <2>1, <4>1 DEF KnownOn
      <4>2. CASE use' = [use EXCEPT ![s] = @ \ {c}]
        <5>1. s \in Active(c)'
          BY <1>1, <1>2, <4>2 DEF Active, Runs, TypeOK
        <5>2. QED
          BY <5>1
      <4>3. QED
        BY <1>5, <4>1, <4>2
    <3>3. QED
      BY <3>1, <3>2
  <2>5. QED
    BY <1>1, <1>2, <1>7, <2>1, <2>3, <2>4, GrowKeeps
<1>12. QED
  BY <1>9, <1>10, <1>11 DEF IInv

\* Whoever a station yields to is backed by another one that runs now, which is
\* better than the station: so it backs all the station did.
LEMMA DecideKeeps ==
  ASSUME RedundancyAssumption, IInv, NEW s \in Stations, NEW c \in Controllers, Decide(s, c)
  PROVE  IInv'
<1>1. TypeOK /\ OffIsEmpty
  BY DEF IInv
<1>2. /\ plan' = [plan EXCEPT ![s] = {}]
      /\ use' = [use EXCEPT ![s] = IF Passive(s, c) THEN @ \cup {c} ELSE @ \ {c}]
      /\ UNCHANGED <<mode, up, live, cnt, known, runs, started, off, first, polls, plans, sts,
                     faults>>
  BY DEF Decide, stations, remote
<1>3. TypeOK'
  <2>1. /\ plan' \in [Stations -> SUBSET Controllers]
        /\ use' \in [Stations -> SUBSET Controllers]
    BY <1>1, <1>2 DEF TypeOK
  <2>2. QED
    BY <1>1, <1>2, <2>1 DEF TypeOK
<1>4. OffIsEmpty'
  BY <1>1, <1>2 DEF OffIsEmpty
<1>5. ASSUME faults' = 0 PROVE Backed' /\ KnownOn' /\ Served'
  <2>1. Backed /\ KnownOn /\ Served
    BY <1>2, <1>5 DEF IInv
  <2>2. CASE ~Passive(s, c)
    <3>1. use' = [use EXCEPT ![s] = @ \ {c}]
      BY <1>2, <2>2
    <3>2. QED
      BY <1>1, <1>2, <2>1, <3>1, RequestKeeps
  <2>3. CASE Passive(s, c)
    <3>1. use' = [use EXCEPT ![s] = @ \cup {c}]
      BY <1>2, <2>3
    <3>2. \A d \in Controllers :
            /\ On(d)' = On(d)
            /\ d # c => Active(d)' = Active(d)
            /\ Active(d) \ {s} \subseteq Active(d)'
      BY <1>1, <1>2, <3>1 DEF On, Active, Runs, TypeOK
    <3>3. ASSUME Planned(c)
          PROVE  \E t \in Active(c) \ {s} :
                   \A r \in Stations : AsGood(c, s, r) => AsGood(c, t, r)
      <4>1. PICK q \in RunsAt(s, c) :
              CASE mode[c] = High -> Level[q] > Level[s]
                [] mode[c] = Low -> Level[q] < Level[s]
                [] OTHER -> mode[c] = q
        BY <2>3, <3>3 DEF Passive, Planned
      <4>2. q \in Stations /\ q # s /\ c \in runs[s][q]
        BY <1>1, <4>1 DEF RunsAt, TypeOK
      <4>3. PICK t \in Active(c) : AsGood(c, t, q)
        BY <2>1, <3>3, <4>2 DEF Backed
      <4>4. t \in Stations
        BY <1>1, <4>3 DEF Active, TypeOK
      <4>5. /\ \A r \in Stations : Level[r] \in Int
            /\ High # Low
        BY DEF RedundancyAssumption, High, Low
      <4>6. CASE mode[c] = High
        BY <4>1, <4>2, <4>3, <4>4, <4>5, <4>6 DEF AsGood
      <4>7. CASE mode[c] = Low
        BY <4>1, <4>2, <4>3, <4>4, <4>5, <4>7 DEF AsGood
      <4>8. CASE mode[c] # High /\ mode[c] # Low
        BY <4>1, <4>2, <4>3, <4>8 DEF AsGood
      <4>9. QED
        BY <4>6, <4>7, <4>8
    <3>4. KnownOn'
      BY <1>2, <2>1, <3>2 DEF KnownOn
    <3>5. Served'
      <4>1. SUFFICES ASSUME NEW d \in Controllers, Planned(d), On(d) # {}
                     PROVE  Active(d)' # {}
        BY <1>2, <3>2 DEF Served, Planned
      <4>2. CASE d = c
        BY <3>2, <3>3, <4>1, <4>2
      <4>3. CASE d # c
        BY <2>1, <3>2, <4>1, <4>3 DEF Served
      <4>4. QED
        BY <4>2, <4>3
    <3>6. Backed'
      <4>1. SUFFICES ASSUME NEW p \in Stations, NEW r \in Stations, NEW d \in Controllers,
                            Planned(d), d \in runs[p][r]
                     PROVE  \E t \in Active(d)' : AsGood(d, t, r)
        BY <1>2 DEF Backed, Planned, AsGood
      <4>2. PICK t \in Active(d) : AsGood(d, t, r)
        BY <2>1, <4>1 DEF Backed
      <4>3. CASE d = c /\ t = s
        BY <3>2, <3>3, <4>1, <4>2, <4>3
      <4>4. CASE d # c \/ t # s
        BY <3>2, <4>2, <4>4
      <4>5. QED
        BY <4>3, <4>4
    <3>7. QED
      BY <3>4, <3>5, <3>6
  <2>4. QED
    BY <2>2, <2>3
<1>6. QED
  BY <1>3, <1>4, <1>5 DEF IInv

LEMMA NextPassKeeps ==
  ASSUME RedundancyAssumption, IInv, NEW s \in Stations, NextPass(s) PROVE IInv'
<1>1. TypeOK /\ OffIsEmpty
  BY DEF IInv
<1>2. /\ polls' = [polls EXCEPT ![s] = Others(s)]
      /\ sts' = [sts EXCEPT ![s] = {}]
      /\ UNCHANGED <<mode, up, live, cnt, known, runs, started, off, use, first, plans, plan,
                     faults>>
  BY DEF NextPass, stations, remote, cntrs
<1>3. TypeOK'
  <2>1. /\ polls' \in [Stations -> SUBSET Stations]
        /\ sts' \in [Stations -> SUBSET Stations]
        /\ \A q \in Stations : q \notin polls'[q] \cup sts'[q]
    BY <1>1, <1>2 DEF TypeOK, Others
  <2>2. QED
    BY <1>1, <1>2, <2>1 DEF TypeOK
<1>4. QED
  BY <1>1, <1>2, <1>3
  DEF IInv, OffIsEmpty, Backed, KnownOn, Served, Planned, AsGood, Active, On, Runs

LEMMA BootKeeps ==
  ASSUME RedundancyAssumption, IInv, NEW s \in Stations, Boot(s) PROVE IInv'
<1>1. TypeOK /\ OffIsEmpty
  BY DEF IInv
<1>2. /\ up' = up \cup {s}
      /\ UNCHANGED <<mode, live, cnt, known, runs, started, off, use, first, polls, plans, plan,
                     sts, faults>>
  BY DEF Boot, stations, remote, cntrs, task
<1>3. s \notin up /\ started[s] = {}
  BY <1>1 DEF Boot, OffIsEmpty
<1>4. TypeOK'
  BY <1>1, <1>2 DEF TypeOK
<1>5. OffIsEmpty'
  BY <1>1, <1>2 DEF OffIsEmpty
<1>6. \A c \in Controllers : Active(c)' = Active(c) /\ On(c)' = On(c)
  BY <1>2, <1>3 DEF Active, On, Runs
<1>7. ASSUME faults' = 0 PROVE Backed' /\ KnownOn' /\ Served'
  BY <1>1, <1>2, <1>6, <1>7, GrowKeeps DEF IInv
<1>8. QED
  BY <1>4, <1>5, <1>7 DEF IInv

\* After a fault only the types are left to keep.
LEMMA FaultKeeps ==
  ASSUME RedundancyAssumption, IInv, NEW s \in Stations, Fault(s) PROVE IInv'
<1>1. TypeOK /\ OffIsEmpty /\ faults < MaxFaults /\ s \in Stations
  BY DEF IInv, Fault
<1>2. Lose({s})
  BY DEF Fault, Crash, CntrStop, Reload
<1>3. faults' \in 0..MaxFaults /\ faults' # 0
  <2>1. faults' \in 1..MaxFaults
    BY <1>1, <1>2, LoseOne
  <2>2. QED
    BY <2>1 DEF RedundancyAssumption
<1>4. CASE Crash(s)
  <2>1. TypeOK'
    <3>1. live' \in [Stations -> SUBSET Stations] /\ sts' \in [Stations -> SUBSET Stations]
      BY <1>1, <1>4 DEF Crash, TypeOK
    <3>2. cnt' \in [Stations -> [Stations -> 0..RestTm]]
      <4>1. [r \in Stations |-> 0] \in [Stations -> 0..RestTm]
        BY DEF RedundancyAssumption
      <4>2. QED
        BY <1>1, <1>4, <4>1 DEF Crash, TypeOK
    <3>3. /\ known' \in [Stations -> [Stations -> SUBSET Controllers]]
          /\ runs' \in [Stations -> [Stations -> SUBSET Controllers]]
      BY <1>1, <1>4 DEF Crash, TypeOK
    <3>4. /\ started' \in [Stations -> SUBSET Controllers]
          /\ off' \in [Stations -> SUBSET Controllers]
          /\ use' \in [Stations -> SUBSET Controllers]
          /\ first' \in [Stations -> SUBSET Controllers]
      BY <1>1, <1>4 DEF Crash, TypeOK
    <3>5. /\ plans' \in [Stations -> SUBSET Controllers]
          /\ plan' \in [Stations -> SUBSET Controllers]
          /\ polls' \in [Stations -> SUBSET Stations]
      BY <1>1, <1>4 DEF Crash, TypeOK, Others
    <3>6. \A q \in Stations : q \notin live'[q] \cup polls'[q] \cup sts'[q]
      BY <1>1, <1>4 DEF Crash, TypeOK, Others
    <3>7. mode' \in [Controllers -> Modes] /\ up' \subseteq Stations
      BY <1>1, <1>4 DEF Crash, TypeOK
    <3>8. QED
      BY <1>3, <3>1, <3>2, <3>3, <3>4, <3>5, <3>6, <3>7 DEF TypeOK
  <2>2. OffIsEmpty'
    BY <1>1, <1>4 DEF Crash, OffIsEmpty, TypeOK
  <2>3. QED
    BY <1>3, <2>1, <2>2 DEF IInv
<1>5. ASSUME NEW c \in Controllers, CntrStop(s, c) PROVE IInv'
  <2>1. /\ started' = [started EXCEPT ![s] = @ \ {c}]
        /\ off' = [off EXCEPT ![s] = @ \cup {c}]
        /\ UNCHANGED <<mode, up, live, cnt, known, runs, use, first, polls, plans, plan, sts>>
    BY <1>5 DEF CntrStop, stations, remote, task
  <2>2. /\ started' \in [Stations -> SUBSET Controllers]
        /\ off' \in [Stations -> SUBSET Controllers]
    BY <1>1, <1>5, <2>1 DEF TypeOK
  <2>3. TypeOK'
    BY <1>1, <1>3, <2>1, <2>2 DEF TypeOK
  <2>4. OffIsEmpty'
    BY <1>1, <2>1 DEF OffIsEmpty, TypeOK
  <2>5. QED
    BY <1>3, <2>3, <2>4 DEF IInv
<1>6. ASSUME NEW c \in Controllers, Reload(s, c) PROVE IInv'
  <2>1. /\ use' = [use EXCEPT ![s] = @ \cup {c}]
        /\ UNCHANGED <<mode, up, live, cnt, known, runs, started, off, first, polls, plans,
                       plan, sts>>
    BY <1>6 DEF Reload, stations, remote, task
  <2>2. use' \in [Stations -> SUBSET Controllers]
    BY <1>1, <1>6, <2>1 DEF TypeOK
  <2>3. TypeOK'
    BY <1>1, <1>3, <2>1, <2>2 DEF TypeOK
  <2>4. OffIsEmpty'
    BY <1>1, <2>1 DEF OffIsEmpty
  <2>5. QED
    BY <1>3, <2>3, <2>4 DEF IInv
<1>7. QED
  BY <1>4, <1>5, <1>6 DEF Fault

-----------------------------------------------------------------------------
(* The theorems.                                                           *)

LEMMA InitEstablishes == ASSUME RedundancyAssumption, Init PROVE IInv
<1>1. TypeOK
  BY DEF Init, TypeOK, Others, RedundancyAssumption
<1>2. QED
  BY <1>1 DEF Init, IInv, OffIsEmpty, Backed, KnownOn, Served, On

LEMMA NextKeeps == ASSUME RedundancyAssumption, IInv, [Next]_vars PROVE IInv'
<1>1. ASSUME UNCHANGED vars PROVE IInv'
  <2>1. UNCHANGED <<mode, up, live, cnt, known, runs, started, off, use, first, polls, plans,
                    plan, sts, faults>>
    BY <1>1 DEF vars, stations, remote, cntrs, task
  <2>2. TypeOK' /\ OffIsEmpty'
    BY <2>1 DEF IInv, TypeOK, OffIsEmpty
  <2>3. ASSUME faults' = 0 PROVE Backed' /\ KnownOn' /\ Served'
    BY <2>1, <2>3 DEF IInv, Backed, KnownOn, Served, Planned, AsGood, Active, On, Runs
  <2>4. QED
    BY <2>2, <2>3 DEF IInv
<1>2. ASSUME NEW s \in Stations, RdTask(s) PROVE IInv'
  BY <1>2, PollKeeps, NextPassKeeps, UpdateKeeps, DecideKeeps DEF RdTask
<1>3. ASSUME NEW s \in Stations, Boot(s) \/ Fault(s) PROVE IInv'
  BY <1>3, BootKeeps, FaultKeeps
<1>4. ASSUME NEW s \in Stations, NEW c \in Controllers, Write(s, c) \/ CntrStart(s, c)
      PROVE  IInv'
  BY <1>4, WriteKeeps, CntrStartKeeps
<1>5. QED
  BY <1>1, <1>2, <1>3, <1>4 DEF Next

\* The inductive invariant holds in every behaviour of the stations.
THEOREM Invariance == ASSUME RedundancyAssumption PROVE Spec => []IInv
<1>1. Init => IInv
  BY InitEstablishes
<1>2. IInv /\ [Next]_vars => IInv'
  BY NextKeeps
<1>3. QED
  BY <1>1, <1>2, PTL DEF Spec

\* For any number of stations and controllers the state keeps its types.
THEOREM Types == ASSUME RedundancyAssumption PROVE Spec => []TypeOK
<1>1. IInv => TypeOK
  BY DEF IInv
<1>2. QED
  BY <1>1, Invariance, PTL

\* For any number of stations with levels in any order, while nothing fails a
\* controller that is started somewhere is always acquired by some station,
\* though stations plan by what they were told earlier.
THEOREM Service == ASSUME RedundancyAssumption PROVE Spec => []NeverUnserved
<1>1. IInv => NeverUnserved
  BY DEF IInv, NeverUnserved, Served, Planned
<1>2. QED
  BY <1>1, Invariance, PTL
=============================================================================
