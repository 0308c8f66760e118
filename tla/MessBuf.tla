------------------------------- MODULE MessBuf -------------------------------
(***************************************************************************)
(* The message buffer of the subsystem "Archives-History" and the task     *)
(* that archives it (TArchiveS in src/src/tarchives.cpp): the ring mBuf    *)
(* with its head headBuf, the active archivers actMess with their reading  *)
(* heads messHead, and ArhMessTask.                                        *)
(*                                                                         *)
(* A message is the number of its coming into the ring, 0 the blank record *)
(* of a slot nothing was put to.  A section of mRes is one step, but for   *)
(* the task, that holds mRes from step to step at the label "scan" and at  *)
(* no other: while an archiver writes, the ring is not locked.             *)
(*                                                                         *)
(* The archivers are external (FSArch, DBArch): archived[a] is what was    *)
(* written, and writing may succeed, fail or throw after a part of it.     *)
(***************************************************************************)
EXTENDS Integers, FiniteSetsExt, SequencesExt

CONSTANTS Archivers,
          DefMessBufSize, MaxMessBufSize,
          Lens,           \* lengths setMessBufLen() is called with
          Targets,        \* how messPut() is called: "buffer", "all"
          MaxMess,        \* bound: messages that come into the ring
          MaxBurst,       \* bound: messages that come while an archiver writes
          MaxFails,       \* bound: failing writes
          MaxStops,       \* bound: archivers stopped
          MaxUpdates      \* bound: updates of the subsystem while it runs

ASSUME MessBufAssumption ==
  /\ Archivers # {} /\ IsFiniteSet(Archivers)
  /\ DefMessBufSize \in Nat \ {0, 1}
  /\ MaxMessBufSize \in Nat /\ MaxMessBufSize >= DefMessBufSize
  /\ Lens \subseteq Nat
  /\ Targets \subseteq {"buffer", "all"}
  /\ \A b \in {MaxMess, MaxBurst, MaxFails, MaxStops, MaxUpdates} : b \in Nat

VARIABLES mBuf, size, headBuf, count, actMess, messHead,
          archived, direct,                            \* the archivers
          pc, iM, cur, oMess, newHead, endrun, isLast, \* ArhMessTask
          flushTo, fails, stops, updates

ring == <<mBuf, size, headBuf, count>>
task == <<pc, iM, cur, oMess, newHead, isLast>>
bounds == <<fails, stops, updates>>
vars == <<ring, actMess, messHead, archived, direct, task, endrun, flushTo, bounds>>

Slots(n) == 0..n-1
Writing == {"put", "wrote", "threw", "complain", "failed"}
Pc == {"sleep", "scan", "done"} \cup Writing

TypeOK ==
  /\ size \in DefMessBufSize..MaxMessBufSize
  /\ mBuf \in [Slots(size) -> 0..MaxMess]
  /\ headBuf \in Slots(size)
  /\ count \in 0..MaxMess
  /\ actMess \in Seq(Archivers) /\ IsInjective(actMess)
  /\ messHead \in [Archivers -> -1..MaxMessBufSize-1]
  /\ archived \in [Archivers -> Seq(0..MaxMess)]
  /\ direct \subseteq Archivers \X (1..MaxMess)
  /\ pc \in Pc
  /\ iM \in 1..Cardinality(Archivers)+1
  /\ cur \in Archivers
  /\ oMess \in Seq(0..MaxMess)
  /\ newHead \in 0..MaxMessBufSize-1
  /\ endrun \in BOOLEAN /\ isLast \in BOOLEAN
  /\ flushTo \in 0..MaxMess
  /\ fails \in 0..MaxFails /\ stops \in 0..MaxStops /\ updates \in 0..MaxUpdates

\* After subStart(): the archivers are started, the task sleeps.
Init ==
  /\ mBuf = [i \in Slots(DefMessBufSize) |-> 0]
  /\ size = DefMessBufSize
  /\ headBuf = 0
  /\ count = 0
  /\ actMess = SetToSeq(Archivers)
  /\ messHead = [a \in Archivers |-> -1]
  /\ archived = [a \in Archivers |-> <<>>]
  /\ direct = {}
  /\ pc = "sleep"
  /\ iM = 1
  /\ cur = actMess[1]
  /\ oMess = <<>>
  /\ newHead = 0
  /\ endrun = FALSE
  /\ isLast = FALSE
  /\ flushTo = 0
  /\ fails = 0 /\ stops = 0 /\ updates = 0

-----------------------------------------------------------------------------
(* messPut *)

\* Mutant of After: off by one at the end of the ring.
AfterTheEnd(i, n) == IF i + 1 > n THEN 0 ELSE i + 1

After(i, n) == IF i + 1 >= n THEN 0 ELSE i + 1

\* The section of messPut() that puts to the ring.  A reading head the ring's
\* head runs into goes on by one: the oldest message is lost to that archiver.
ToRing ==
  LET next == After(headBuf, size)
  IN  /\ count < MaxMess
      /\ UNCHANGED size
      /\ pc \in Writing => count - Last(oMess) < MaxBurst
      /\ count' = count + 1
      /\ mBuf' = [mBuf EXCEPT ![headBuf] = count + 1]
      /\ headBuf' = next
      /\ messHead' = [a \in Archivers |->
           IF a \in Range(actMess) /\ messHead[a] = next
             THEN After(next, size) ELSE messHead[a]]

\* messPut() of a thread.  Without a target it also goes on, unlocked, to put
\* the message to each started archiver itself.  Left out are targets that name an
\* archiver, and the return before the buffer for an alarm that a redundant
\* station has already.
MessPut(arch) ==
  /\ arch \in Targets
  /\ pc # "scan"
  /\ ToRing
  /\ direct' = IF arch = "all" THEN direct \cup (Archivers \X {count + 1}) ELSE direct
  /\ UNCHANGED <<actMess, archived, task, endrun, flushTo, bounds>>

\* One archiver in the second part of messPut(): passed over when it is
\* stopped; when it fails messPut() complains in a message of its own.
DirectPut(a, m) ==
  /\ <<a, m>> \in direct
  /\ direct' = direct \ {<<a, m>>}
  /\ \/ /\ a \in Range(actMess)
        /\ archived' = [archived EXCEPT ![a] = Append(@, m)]
        /\ UNCHANGED <<ring, messHead, fails>>
     \/ /\ a \in Range(actMess)
        /\ pc # "scan"
        /\ fails < MaxFails
        /\ fails' = fails + 1
        /\ ToRing
        /\ UNCHANGED archived
     \/ a \notin Range(actMess) /\ UNCHANGED <<ring, messHead, archived, fails>>
  /\ UNCHANGED <<actMess, task, endrun, flushTo, stops, updates>>

-----------------------------------------------------------------------------
(* setMessBufLen, and the archivers' start and stop *)

\* Mutant of SetMessBufLen: the vector is resized at its end.
SetMessBufLenAtEnd(l) ==
  LET len == Min({MaxMessBufSize, Max({DefMessBufSize, l})})
  IN  /\ l \in Lens
      /\ len # size
      /\ pc # "scan"
      /\ size' = len
      /\ headBuf' = IF headBuf >= len THEN 0 ELSE headBuf
      /\ mBuf' = [i \in Slots(len) |-> IF i < size THEN mBuf[i] ELSE 0]
      /\ messHead' = [a \in Archivers |->
           IF a \in Range(actMess) /\ messHead[a] >= len THEN 0 ELSE messHead[a]]
      /\ UNCHANGED <<count, actMess, archived, direct, task, endrun, flushTo, bounds>>

\* The slots after the change hold the messages in the order of the ring;
\* longer: blank records come in at the head; shorter: the oldest go away, and
\* the head moves to the start when all the slots behind it are gone.
SetMessBufLen(l) ==
  LET len == Min({MaxMessBufSize, Max({DefMessBufSize, l})})
      more == len - size
      behind == size - headBuf
      wraps == more < 0 /\ -more >= behind
  IN  /\ l \in Lens
      /\ len # size
      /\ pc # "scan"
      /\ size' = len
      /\ headBuf' = IF wraps THEN 0 ELSE headBuf
      /\ mBuf' = [i \in Slots(len) |->
           IF wraps THEN mBuf[i - more - behind]
           ELSE IF i < headBuf THEN mBuf[i]
           ELSE IF i < headBuf + more THEN 0
           ELSE mBuf[i - more]]
      /\ messHead' = [a \in Archivers |->
           IF a \in Range(actMess) /\ more < 0 /\ messHead[a] >= len THEN 0 ELSE messHead[a]]
      /\ UNCHANGED <<count, actMess, archived, direct, task, endrun, flushTo, bounds>>

\* TMArchivator::start() of a stopped archiver.
StartArchiver(a) ==
  /\ a \notin Range(actMess)
  /\ pc # "scan"
  /\ messHead' = [messHead EXCEPT ![a] = -1]
  /\ actMess' = Append(actMess, a)
  /\ UNCHANGED <<ring, archived, direct, task, endrun, flushTo, bounds>>

\* TMArchivator::stop().
StopArchiver(a) ==
  /\ pc # "scan"
  /\ stops < MaxStops
  /\ stops' = stops + 1
  /\ \E i \in DOMAIN actMess : actMess[i] = a /\ actMess' = RemoveAt(actMess, i)
  /\ messHead' = [messHead EXCEPT ![a] = -1]
  /\ UNCHANGED <<ring, archived, direct, task, endrun, flushTo, fails, updates>>

\* subStart() of the running subsystem, asked for by setToUpdate(): start() is
\* called for the archivers that are started as well ("Start already started
\* for update").  It takes no lock before it resets messHead.
UpdateArchiver(a) ==
  /\ a \in Range(actMess)
  /\ ~endrun
  /\ updates < MaxUpdates
  /\ updates' = updates + 1
  /\ messHead' = [messHead EXCEPT ![a] = -1]
  /\ UNCHANGED <<ring, actMess, archived, direct, task, endrun, flushTo, fails, stops>>

-----------------------------------------------------------------------------
(* ArhMessTask *)

\* Mutant of Wake: the task ends without a last turn.
WakeToEnd ==
  /\ pc = "sleep"
  /\ pc' = IF endrun THEN "done" ELSE "scan"
  /\ iM' = 1
  /\ isLast' = FALSE
  /\ UNCHANGED <<ring, actMess, messHead, archived, direct, cur, oMess, newHead, endrun,
                 flushTo, bounds>>

\* Mutant of Wake: the task does not look whether it is to end.
WakeOnly ==
  /\ pc = "sleep"
  /\ pc' = "scan"
  /\ iM' = 1
  /\ UNCHANGED <<ring, actMess, messHead, archived, direct, cur, oMess, newHead, endrun,
                 isLast, flushTo, bounds>>

\* taskSleep() is over: the period passed, or the task is asked to end.
Wake ==
  /\ pc = "sleep"
  /\ pc' = "scan"
  /\ iM' = 1
  /\ isLast' = endrun
  /\ UNCHANGED <<ring, actMess, messHead, archived, direct, cur, oMess, newHead, endrun,
                 flushTo, bounds>>

\* Mutant of ReadFrom: a fresh archiver begins with what comes.
ReadFromNow(a) == IF messHead[a] >= 0 THEN messHead[a] ELSE headBuf

\* Where a reading begins: at the head kept, or for a fresh archiver at the
\* oldest message but one.
ReadFrom(a) ==
  LET old == headBuf + 1
  IN  IF messHead[a] >= 0 THEN messHead[a]
      ELSE IF old >= size THEN 0
      ELSE IF mBuf[old] = 0 THEN 0 ELSE old

\* A slot's record; beyond the ring there is nothing but a dead record.
Record(i) == IF i < size THEN mBuf[i] ELSE 0

\* Mutant of SlotsFrom: the slots in the order of the vector.
SlotsInVector(h) ==
  IF h <= headBuf THEN [k \in 1..headBuf-h |-> h + k - 1]
  ELSE [k \in 1..size-h+headBuf |-> IF k <= headBuf THEN k - 1 ELSE h + k - headBuf - 1]

\* The slots from h to the ring's head, in reading order.
SlotsFrom(h) ==
  IF h <= headBuf THEN [k \in 1..headBuf-h |-> h + k - 1]
  ELSE IF h >= size THEN [k \in 1..headBuf+1 |-> IF k = 1 THEN h ELSE k - 2]
  ELSE [k \in 1..size-h+headBuf |-> (h + k - 1) % size]

\* The next active archiver has nothing to read.
Skip ==
  /\ pc = "scan"
  /\ iM <= Len(actMess)
  /\ LET a == actMess[iM]
     IN  /\ ReadFrom(a) = headBuf
         /\ messHead' = [messHead EXCEPT ![a] = headBuf]
  /\ iM' = iM + 1
  /\ UNCHANGED <<ring, actMess, archived, direct, pc, cur, oMess, newHead, endrun,
                 isLast, flushTo, bounds>>

\* The new messages are copied and mRes is unlocked for the writing.
Take ==
  /\ pc = "scan"
  /\ iM <= Len(actMess)
  /\ LET a == actMess[iM]
     IN  /\ ReadFrom(a) # headBuf
         /\ messHead' = [messHead EXCEPT ![a] = ReadFrom(a)]
         /\ cur' = a
         /\ oMess' = [k \in DOMAIN SlotsFrom(ReadFrom(a)) |-> Record(SlotsFrom(ReadFrom(a))[k])]
  /\ newHead' = headBuf
  /\ pc' = "put"
  /\ UNCHANGED <<ring, actMess, archived, direct, iM, endrun, isLast, flushTo, bounds>>

\* put() of the archiver returns true: all is written.
Written ==
  /\ pc = "put"
  /\ cur \in Range(actMess)
  /\ archived' = [archived EXCEPT ![cur] = @ \o oMess]
  /\ pc' = "wrote"
  /\ UNCHANGED <<ring, actMess, messHead, direct, iM, cur, oMess, newHead, endrun, isLast,
                 flushTo, bounds>>

\* put() returns false or throws, with a part written; of a stopped archiver
\* it throws ("The archive is not started!").  The part is a beginning, as
\* DBArch leaves it; FSArch may go on with the messages after a failed one, and
\* files each by its time.
Failed ==
  /\ pc = "put"
  /\ \/ /\ cur \in Range(actMess)
        /\ fails < MaxFails
        /\ fails' = fails + 1
        /\ \E k \in 0..Len(oMess) :
             archived' = [archived EXCEPT ![cur] = @ \o SubSeq(oMess, 1, k)]
        /\ pc' \in {"failed", "threw"}
     \/ cur \notin Range(actMess) /\ pc' = "threw" /\ UNCHANGED <<archived, fails>>
  /\ UNCHANGED <<ring, actMess, messHead, direct, iM, cur, oMess, newHead, endrun, isLast,
                 flushTo, stops, updates>>

\* mess_err() and mess_sys() tell of the exception: two messages more for the
\* ring, unless the level of the messages keeps them out.
Complain ==
  /\ pc \in {"threw", "complain"}
  /\ ToRing \/ UNCHANGED <<ring, messHead>>
  /\ pc' = IF pc = "threw" THEN "complain" ELSE "failed"
  /\ UNCHANGED <<actMess, archived, direct, iM, cur, oMess, newHead, endrun, isLast, flushTo, bounds>>

\* Mutant of Relock: the reading head moves whatever put() returned.
RelockMoves ==
  /\ pc \in {"wrote", "failed"}
  /\ messHead' = [messHead EXCEPT ![cur] = newHead]
  /\ iM' = iM + 1
  /\ pc' = "scan"
  /\ UNCHANGED <<ring, actMess, archived, direct, cur, oMess, newHead, endrun, isLast, flushTo, bounds>>

\* Mutant of Relock: the reading head does not move.
RelockStays ==
  /\ pc \in {"wrote", "failed"}
  /\ iM' = iM + 1
  /\ pc' = "scan"
  /\ UNCHANGED <<ring, actMess, messHead, archived, direct, cur, oMess, newHead, endrun, isLast,
                 flushTo, bounds>>

\* mRes is locked again; the reading head moves when put() returned true.
Relock ==
  /\ pc \in {"wrote", "failed"}
  /\ messHead' = IF pc = "wrote" THEN [messHead EXCEPT ![cur] = newHead] ELSE messHead
  /\ iM' = iM + 1
  /\ pc' = "scan"
  /\ UNCHANGED <<ring, actMess, archived, direct, cur, oMess, newHead, endrun, isLast, flushTo, bounds>>

\* All archivers are done: mRes is unlocked.
PassEnd ==
  /\ pc = "scan"
  /\ iM > Len(actMess)
  /\ pc' = IF isLast THEN "done" ELSE "sleep"
  /\ UNCHANGED <<ring, actMess, messHead, archived, direct, iM, cur, oMess, newHead, endrun,
                 isLast, flushTo, bounds>>

\* taskDestroy() in subStop() asks the task to end.
Destroy ==
  /\ ~endrun
  /\ endrun' = TRUE
  /\ flushTo' = count
  /\ UNCHANGED <<ring, actMess, messHead, archived, direct, task, bounds>>

-----------------------------------------------------------------------------
(* The system *)

ArhMessTask ==
  Wake \/ Skip \/ Take \/ Written \/ Failed \/ Complain \/ Relock \/ PassEnd

\* The task is over and nothing more happens.
Ended == pc = "done" /\ UNCHANGED vars

Next ==
  \/ ArhMessTask \/ Destroy \/ Ended
  \/ \E arch \in Targets : MessPut(arch)
  \/ \E a \in Archivers, m \in 1..MaxMess : DirectPut(a, m)
  \/ \E l \in Lens : SetMessBufLen(l)
  \/ \E a \in Archivers : StartArchiver(a) \/ StopArchiver(a) \/ UpdateArchiver(a)

Spec == Init /\ [][Next]_vars

\* The task runs on, and its sleep ends.
FairSpec == Spec /\ WF_vars(ArhMessTask)

-----------------------------------------------------------------------------
(* Properties *)

\* What the next turn to archiver a reads, as slots of the ring.
Unread(a) ==
  LET h == ReadFrom(a) IN IF h = headBuf THEN {} ELSE Range(SlotsFrom(h))

\* The newest messages, as many as the ring keeps for a reader: the slot at the
\* head is the next to be overwritten.
Kept == {i \in Slots(size) \ {headBuf} : mBuf[i] # 0}

\* messHead is the "last read and archived head of messages buffer": whatever
\* the writing threads, the task, failing and restarted archivers do, a message
\* the ring keeps is written to an active archiver's archive or will be read.
\* Messages are lost only to the ring's own limit.
NothingSkipped ==
  \A a \in Range(actMess) : \A i \in Kept :
    mBuf[i] \in Range(archived[a]) \/ i \in Unread(a)

\* However the ring wraps, grows and shrinks, messGet() finds in it the newest
\* DefMessBufSize messages, each in its place back from the head.
BufferKeepsNewest ==
  \A m \in 1..count :
    m > count - DefMessBufSize => mBuf[(headBuf + size - 1 - (count - m)) % size] = m

\* The archiver gets the messages in the order of their coming, also when the
\* writing fails and is repeated: one that is written for the first time is
\* newer than all that are written.
ArchivedInOrder ==
  \A a \in Archivers : \A j \in DOMAIN archived[a] :
    (\A i \in 1..j-1 : archived[a][i] # archived[a][j])
      => \A i \in 1..j-1 : archived[a][i] < archived[a][j]

\* Without failing writes and restarts, the archiver gets no message twice.
ArchivedOnce ==
  fails = 0 /\ stops = 0 => \A a \in Archivers : IsInjective(archived[a])

\* The last turn of the task: what came before it was asked to end is written
\* to every active archiver, or the ring did not keep it.
FlushedAtEnd ==
  pc = "done" /\ fails = 0 /\ stops = 0 =>
    \A a \in Range(actMess) : \A i \in Kept :
      mBuf[i] <= flushTo => mBuf[i] \in Range(archived[a])

\* A message that the ring keeps is written at last, or overtaken, or the
\* archiver or the task is stopped.
ArchivedAtLast ==
  \A a \in Archivers, m \in 1..MaxMess :
    m <= count ~> \/ m \in Range(archived[a])
                  \/ \A i \in Kept : mBuf[i] # m
                  \/ a \notin Range(actMess)
                  \/ pc = "done"

\* The task that is asked to end ends, whatever the archivers do.
DestroyEnds == endrun ~> pc = "done"
=============================================================================
