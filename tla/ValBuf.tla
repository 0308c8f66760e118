------------------------------- MODULE ValBuf -------------------------------
(***************************************************************************)
(* The value buffer TValBuf (src/src/tarchval.cpp), that every archive of  *)
(* values is, and that values are moved between archives and stations in:  *)
(* a ring on a hard time grid, a ring of changes on a soft one, or a       *)
(* sorted flow of values at times of their own.                            *)
(*                                                                         *)
(* tb is what TBuf keeps.  In C++ positions count from 0, here from 1; an  *)
(* entry of the hard grid keeps no time (tm = 0).  Time is in units of     *)
(* microseconds, Sec of them the second low resolution rounds down to, and *)
(* 0 is the time of an empty buffer.  Types of values are abstracted:      *)
(* Eval is the error value of each of them.                                *)
(*                                                                         *)
(* History, for the properties: told is what the buffer was told, by cell  *)
(* of the grid or by time of the flow, first the first cell of it and room *)
(* the size the buffer was made with.                                      *)
(***************************************************************************)
EXTENDS Integers, FiniteSetsExt, SequencesExt, Functions

CONSTANTS Vals, Eval,
          Per,           \* mPer of the grids
          Sec,
          HalfDivMinWin, \* where the half divider stops: 5 in the code
          EvalMod,       \* 2^width of mEvalCnt
          Grids,         \* \subseteq {"hard", "soft", "flow"}
          Sizes,         \* sizes setSize() is called with, 0 for no limit
          Times,         \* bound: the times values come with
          MaxSets        \* bound: values set

ASSUME ValBufAssumption ==
  /\ Eval \in Vals
  /\ Per \in Nat \ {0} /\ Sec \in Nat \ {0}
  /\ HalfDivMinWin \in Nat /\ EvalMod \in Nat \ {0, 1}
  /\ Grids \subseteq {"hard", "soft", "flow"}
  /\ Sizes \subseteq Nat
  /\ Times \subseteq Nat /\ \A t \in Times : t >= 2 * Per /\ t >= Sec

\* Of the bounds: only the types of what they bound rest on it.
ASSUME BoundAssumption ==
  Times # {} /\ IsFiniteSet(Times) /\ MaxSets \in Nat

VARIABLES grid, hgResTm, fillLast, size, tb, told, first, room, sets

mode == <<grid, hgResTm, fillLast>>
vars == <<mode, size, tb, told, first, room, sets>>

Time == 0..Max(Times)
Entry == [tm : Time, val : Vals]
Empty == [buf |-> <<>>, cur |-> 0, beg |-> 0, end |-> 0, evalCnt |-> 0]

TypeOK ==
  /\ grid \in Grids /\ hgResTm \in BOOLEAN /\ fillLast \in BOOLEAN
  /\ size \in Sizes /\ room \in Sizes
  /\ tb.buf \in Seq(Entry) /\ (size = 0 \/ Len(tb.buf) <= size)
  /\ tb.cur \in 0..Len(tb.buf)
  /\ tb.beg \in Time /\ tb.end \in Time
  /\ tb.evalCnt \in 0..EvalMod-1
  /\ DOMAIN told \subseteq Time /\ Range(told) \subseteq Vals
  /\ first \in Time
  /\ sets \in 0..MaxSets

Init ==
  /\ grid \in Grids /\ hgResTm \in BOOLEAN /\ fillLast \in BOOLEAN
  /\ size \in Sizes /\ room = size
  /\ tb = Empty
  /\ told = <<>> /\ first = 0
  /\ sets = 0

-----------------------------------------------------------------------------
(* Time and positions *)

\* Integer division of C++: toward zero.
Quot(a, b) == IF a >= 0 THEN a \div b ELSE -((-a) \div b)

Cell(t) == Per * (t \div Per)
CellUp(t) == Cell(t + Per - 1)

\* The time an entry keeps.
Stored(t) == IF hgResTm THEN t ELSE Sec * (t \div Sec)

\* i steps behind c in a ring of n, counted from 1.
Behind(c, i, n) == ((c - 1 - i) % n) + 1

\* The position last written.
NewestPos(b) == IF b.cur > 0 THEN b.cur ELSE Len(b.buf)

Counted(v) == IF v = Eval THEN 1 ELSE 0

-----------------------------------------------------------------------------
(* TBuf::get: the value and its time, 0 for none *)

None == [tm |-> 0, val |-> Eval]

HardGet(b, tm, up) ==
  LET n    == Len(b.buf)
      npos == IF up THEN (b.end - tm) \div Per ELSE n - 1 - (tm - b.beg) \div Per
  IN  IF npos < 0 \/ npos >= n THEN None
      ELSE [tm  |-> b.end - npos * Per,
            val |-> b.buf[Behind(NewestPos(b), npos, n)].val]

\* The half divider of the soft grid: the position the scan back starts from.
SoftHalf(b, tm) ==
  LET n == Len(b.buf)
      half[w \in 0..n] == [e \in 1..n |->
        IF w <= HalfDivMinWin THEN e
        ELSE LET c == Behind(e, w, n)
             IN  half[w \div 2][IF tm \div Per < b.buf[c].tm \div Per THEN c ELSE e]]
  IN  half[n \div 2][NewestPos(b)]

SoftGet(b, tm, up) ==
  LET n      == Len(b.buf)
      npos   == (IF up THEN b.end - tm ELSE tm - b.beg) \div Per
      from   == SoftHalf(b, tm)
      \* The scan stops when it comes back to the newest entry.
      steps  == (from - NewestPos(b)) % n
      scan   == IF steps = 0 THEN n - 1 ELSE steps - 1
      w(i)   == LET t == b.buf[Behind(from, i, n)].tm
                IN  IF up THEN b.end \div Per - t \div Per
                          ELSE t \div Per - b.beg \div Per
      hits   == {i \in 0..scan : IF up THEN w(i) >= npos ELSE w(i) <= npos}
  IN  IF hits = {} THEN None
      ELSE LET i == Min(hits)
               e == b.buf[Behind(from, i, n)]
           IN  [tm  |-> IF w(i) = npos THEN e.tm
                        ELSE IF up THEN b.end - npos * Per ELSE b.beg + npos * Per,
                val |-> e.val]

\* Both half dividers of the flow count c_end positions from one of its ends.
FlowGet(b, tm, up) ==
  LET n      == Len(b.buf)
      pos(c) == IF up THEN n - c ELSE c + 1
      hit(c) == IF up THEN tm <= b.buf[pos(c)].tm ELSE Stored(tm) >= b.buf[pos(c)].tm
      half[w \in 0..n] == [c \in 0..n |->
        IF w <= HalfDivMinWin THEN c
        ELSE half[w \div 2][IF hit(c - w) THEN c ELSE c - w]]
      hits   == {c \in 0..half[(n - 1) \div 2][n - 1] : hit(c)}
  IN  IF hits = {} THEN None ELSE b.buf[pos(Max(hits))]

Get(b, itm, up) ==
  LET tm == IF up THEN Max({itm, b.beg}) ELSE Min({itm, b.end})
  IN  IF (up /\ itm > b.end) \/ (~up /\ itm < b.beg)
        THEN [tm |-> itm, val |-> Eval]
      ELSE CASE grid = "hard" -> HardGet(b, tm, up)
             [] grid = "soft" -> SoftGet(b, tm, up)
             [] grid = "flow" -> FlowGet(b, tm, up)

\* Mutant of GetVals: the last value of the range is left out.
GetValsBefore(b, ibeg, iend, otherPer) ==
  LET step == IF grid # "flow" /\ otherPer > Per THEN otherPer ELSE 1
      last == Min({iend, b.end})
      from[t \in Nat] ==
        IF t >= last THEN <<>>
        ELSE LET g == Get(b, t, TRUE) IN <<g>> \o from[g.tm + step]
  IN  from[step * (Max({ibeg, b.beg}) \div step)]

\* What TValBuf::getVals() of ibeg..iend gives to a buffer with the period
\* otherPer.  A read without a time would set it back to the beginning.
GetVals(b, ibeg, iend, otherPer) ==
  LET per  == IF grid = "flow" THEN 1 ELSE Per
      vOK  == /\ b.beg # 0 /\ b.end # 0
              /\ iend \div per >= b.beg \div per
              /\ ibeg \div per <= b.end \div per
              /\ ibeg \div per <= iend \div per
      step == IF grid # "flow" /\ otherPer > Per THEN otherPer ELSE 1
      last == Min({iend, b.end})
      from[t \in Nat] ==
        IF t > last THEN <<>>
        ELSE LET g == Get(b, t, TRUE) IN <<g>> \o from[g.tm + step]
  IN  IF vOK THEN from[step * (Max({ibeg, b.beg}) \div step)] ELSE <<>>

-----------------------------------------------------------------------------
(* TBuf::set *)

\* Mutants of Write: the cursor goes past the last position; it goes back one
\* position early.
WritePastSize(b, e) ==
  LET over == b.cur < Len(b.buf)
      next == IF b.cur + 1 >= Len(b.buf) THEN 1 ELSE b.cur + 2
  IN  [buf |-> IF over THEN [b.buf EXCEPT ![b.cur + 1] = e] ELSE Append(b.buf, e),
       cur |-> IF size # 0 /\ b.cur + 1 > size THEN 0 ELSE b.cur + 1,
       beg |-> IF ~over THEN b.beg
               ELSE IF grid = "hard" THEN b.beg + Per ELSE Cell(b.buf[next].tm),
       end |-> b.end,
       evalCnt |-> b.evalCnt]

WriteBackEarly(b, e) ==
  LET over == b.cur < Len(b.buf)
      next == IF b.cur + 1 >= Len(b.buf) THEN 1 ELSE b.cur + 2
  IN  [buf |-> IF over THEN [b.buf EXCEPT ![b.cur + 1] = e] ELSE Append(b.buf, e),
       cur |-> IF size # 0 /\ b.cur + 2 >= size THEN 0 ELSE b.cur + 1,
       beg |-> IF ~over THEN b.beg
               ELSE IF grid = "hard" THEN b.beg + Per ELSE Cell(b.buf[next].tm),
       end |-> b.end,
       evalCnt |-> b.evalCnt]

\* Writes e at the cursor: a new entry, or over the oldest one, begin going on
\* by a cell of the hard grid, or to the entry that is the oldest then.
Write(b, e) ==
  LET over == b.cur < Len(b.buf)
      next == IF b.cur + 1 >= Len(b.buf) THEN 1 ELSE b.cur + 2
  IN  [buf |-> IF over THEN [b.buf EXCEPT ![b.cur + 1] = e] ELSE Append(b.buf, e),
       cur |-> IF size # 0 /\ b.cur + 1 >= size THEN 0 ELSE b.cur + 1,
       beg |-> IF ~over THEN b.beg
               ELSE IF grid = "hard" THEN b.beg + Per ELSE Cell(b.buf[next].tm),
       end |-> b.end,
       evalCnt |-> (b.evalCnt + Counted(e.val)
                      - (IF over THEN Counted(b.buf[b.cur + 1].val) ELSE 0)) % EvalMod]

Fill(b) == IF fillLast /\ b.buf # <<>> THEN b.buf[NewestPos(b)].val ELSE Eval

\* The hard grid goes on by npos cells, one after another: the last gets the
\* value, those passed get the fill.
HardNext(b, v) == [Write(b, [tm |-> 0, val |-> v]) EXCEPT !.end = @ + Per]

HardCells(b, npos, value) ==
  LET fill == Fill(b)
      cells[i \in 0..npos] ==
        IF i = 0 THEN b ELSE HardNext(cells[i-1], IF i < npos THEN fill ELSE value)
  IN  cells[npos]

\* Mutant of HardSet: an error value that is replaced is not counted off.
HardSetStillCounted(b, value, tm) ==
  LET npos == Quot(tm - b.end, Per)
      pos  == Behind(NewestPos(b), -npos, Len(b.buf))
  IN  IF npos > 0 THEN HardCells(b, npos, value)
      ELSE [b EXCEPT !.buf[pos].val = value,
                     !.evalCnt = (@ + Counted(value)) % EvalMod]

HardSet(b, value, tm) ==
  LET npos == Quot(tm - b.end, Per)
      pos  == Behind(NewestPos(b), -npos, Len(b.buf))
  IN  IF npos > 0 THEN HardCells(b, npos, value)
      ELSE [b EXCEPT !.buf[pos].val = value,
                     !.evalCnt = (@ + Counted(value) - Counted(b.buf[pos].val)) % EvalMod]

\* The soft grid goes on likewise; only a change is written.  (The code counts
\* the time of a fill twice over, from the end that goes on; but of the fills
\* only the first is ever a change, and its time is right.)
SoftNext(b, e) ==
  LET same == b.buf # <<>> /\ b.buf[NewestPos(b)].val = e.val
  IN  [(IF same THEN b ELSE Write(b, e)) EXCEPT !.end = @ + Per]

SoftCells(b, npos, value, tm) ==
  LET fill == Fill(b)
      cells[i \in 0..npos] ==
        IF i = 0 THEN b
        ELSE SoftNext(cells[i-1],
               IF i < npos THEN [tm |-> Stored(cells[i-1].end + Per), val |-> fill]
                           ELSE [tm |-> Stored(tm), val |-> value])
  IN  cells[npos]

\* Mutant of SoftSet: the newest entry is replaced, whatever its cell is.
SoftSetInPlace(b, value, tm) ==
  LET npos == Quot(tm - b.end, Per)
  IN  IF npos > 0 THEN SoftCells(b, npos, value, tm)
      ELSE [b EXCEPT !.buf[NewestPos(b)] = [tm |-> Stored(b.end), val |-> value]]

\* A value for the cell of end replaces the entry of that cell, where there is
\* one.
SoftSet(b, value, tm) ==
  LET npos == Quot(tm - b.end, Per)
      pos  == NewestPos(b)
      now  == [tm |-> Stored(b.end), val |-> value]
  IN  IF npos > 0 THEN SoftCells(b, npos, value, tm)
      ELSE IF Quot(b.buf[pos].tm - b.end, Per) # 0 THEN Write(b, now)
      ELSE [b EXCEPT !.buf[pos] = now]

\* Both half dividers of the flow are but a faster way to the same place.
FlowSet(b, value, tm) ==
  LET n  == Len(b.buf)
      e  == [tm |-> Stored(tm), val |-> value]
      half[w \in 0..n] == [c \in 0..n |->
        IF w <= HalfDivMinWin THEN c
        ELSE half[w \div 2][IF e.tm > b.buf[c + w + 1].tm THEN c + w ELSE c]]
      at == Min({c \in half[n \div 2][0]..n : c = n \/ e.tm <= b.buf[c + 1].tm}) + 1
      in == InsertAt(b.buf, at, e)
      to == IF size # 0 /\ n + 1 > size THEN Tail(in) ELSE in
  IN  IF at <= n /\ b.buf[at].tm = e.tm
        THEN [b EXCEPT !.buf[at] = e,
                       !.evalCnt = (@ - Counted(b.buf[at].val)) % EvalMod]
      ELSE [b EXCEPT !.buf = to, !.beg = Head(to).tm, !.end = Last(to).tm,
                     !.evalCnt = (@ + Counted(value)
                        - (IF to = in THEN 0 ELSE Counted(Head(in).val))) % EvalMod]

\* What the first value is set to.
Begun(b, tm) ==
  LET unit == IF grid = "flow" THEN 1 ELSE Per
  IN  [b EXCEPT !.end = IF @ # 0 THEN @ ELSE IF grid = "flow" THEN tm ELSE Cell(tm) - Per,
                !.beg = IF @ # 0 THEN @ ELSE unit * (tm \div unit)]

TooOld(b, tm) ==
  CASE grid = "hard" -> /\ Quot(tm - b.end, Per) < 0
                        /\ -Quot(tm - b.end, Per) >= Len(b.buf)
    [] grid = "soft" -> Quot(tm - b.end, Per) < 0
    [] grid = "flow" -> tm < b.beg /\ size # 0 /\ Len(b.buf) >= size

SetTo(b, value, tm) ==
  LET c == Begun(b, tm)
  IN  CASE grid = "hard" -> HardSet(c, value, tm)
        [] grid = "soft" -> SoftSet(c, value, tm)
        [] grid = "flow" -> FlowSet(c, value, tm)

-----------------------------------------------------------------------------
(* The operations *)

\* The cell a value is for.  A time between two cells is of the one before it,
\* but ahead of the last cell told of the one after it: (tm-end)/per is rounded
\* toward zero.  So a late value of the last cell but one, set between the
\* cells, is the value of the last.
CellTold(tm) == IF told # <<>> /\ tm < Max(DOMAIN told) THEN CellUp(tm) ELSE Cell(tm)

\* What the buffer is told with a value: a cell it is the first to reach is
\* told all cells since the last one; of a flow the newest size are of interest.
ToldWith(value, tm) ==
  LET c    == CellTold(tm)
      last == Max(DOMAIN told)
      new  == IF told = <<>> THEN {c} ELSE {last + i * Per : i \in 1..((c - last) \div Per)}
      fill == IF fillLast /\ told # <<>> THEN told[last] ELSE Eval
      flow == [x \in {Stored(tm)} \union DOMAIN told |-> IF x = Stored(tm) THEN value ELSE told[x]]
      old  == IF size # 0 /\ Cardinality(DOMAIN flow) > size THEN {Min(DOMAIN flow)} ELSE {}
  IN  IF grid = "flow" THEN Restrict(flow, DOMAIN flow \ old)
      ELSE [x \in {c} \union new \union DOMAIN told |->
              IF x = c THEN value ELSE IF x \in new THEN fill ELSE told[x]]

\* Any time, but for one case: a time the soft grid would keep that is not the
\* beginning of a cell.  The entry then may be taken for one of the next cell.
Given(tm) == grid = "soft" /\ tm >= tb.end + Per => Stored(tm) = Cell(tm)

Set(value, tm) ==
  /\ sets < MaxSets
  /\ Given(tm)
  /\ ~TooOld(Begun(tb, tm), tm)
  /\ tb' = SetTo(tb, value, tm)
  /\ told' = ToldWith(value, tm)
  /\ first' = IF told = <<>> THEN Cell(tm) ELSE first
  /\ sets' = sets + 1
  /\ UNCHANGED <<mode, size, room>>

Forget == told' = <<>> /\ first' = 0

\* TBuf::clear().
Clear ==
  /\ tb.buf # <<>>
  /\ tb' = Empty
  /\ Forget
  /\ room' = size
  /\ UNCHANGED <<mode, size, sets>>

\* TVal::set?() of an attribute with an archive: a value that is too old clears
\* the buffer.  (To other callers it is an error and no more.)
AttrSetOld(tm) ==
  /\ tb.buf # <<>>
  /\ TooOld(tb, tm)
  /\ Clear

\* TBuf::makeBuf(): a larger buffer goes on with what is in it, any other change
\* begins from nothing.
MakeBuf(isz, g, hgRes) ==
  /\ <<isz, g, hgRes>> # <<size, grid, hgResTm>>
  /\ size' = isz /\ grid' = g /\ hgResTm' = hgRes
  /\ IF isz < size \/ size = 0 \/ g # grid \/ hgRes # hgResTm
       THEN tb' = Empty /\ Forget /\ room' = isz
       ELSE UNCHANGED <<tb, told, first, room>>
  /\ UNCHANGED <<fillLast, sets>>

SetFillLast ==
  /\ fillLast' = ~fillLast
  /\ UNCHANGED <<grid, hgResTm, size, tb, told, first, room, sets>>

Next ==
  \/ \E value \in Vals, tm \in Times : Set(value, tm)
  \/ \E tm \in Times : AttrSetOld(tm)
  \/ Clear
  \/ \E isz \in Sizes, g \in Grids, hgRes \in BOOLEAN : MakeBuf(isz, g, hgRes)
  \/ SetFillLast

Spec == Init /\ [][Next]_vars

-----------------------------------------------------------------------------
(* Properties *)

Held == IF tb.end = 0 THEN {} ELSE tb.beg..tb.end

\* get() at any time the buffer says it has gives what was last told for it:
\* on a grid for the cell of the time, or for the next one when searched upward,
\* in a flow the nearest value of that side; whatever was filled, left out as
\* equal, written over or found by halves.  Which cell a value was told for is
\* CellTold: not always the cell of its time.
GetRight ==
  \A t \in Held : \A up \in BOOLEAN :
    LET g    == Get(tb, t, up)
        near == IF grid # "flow" THEN IF up THEN CellUp(t) ELSE Cell(t)
                ELSE IF up THEN Min({x \in DOMAIN told : x >= t})
                ELSE Max({x \in DOMAIN told : x <= t})
    IN  /\ g.val = told[near]
        /\ (IF grid = "flow" THEN g.tm ELSE Cell(g.tm)) = near

\* getVals() into a buffer of the same mode makes a copy: it comes to its end,
\* and gives the same values for every time of the range.
CopyRight ==
  \A t \in Held :
    LET set(c, g) == SetTo(c, g.val, g.tm)
        copy      == FoldLeft(set, Empty, GetVals(tb, t, tb.end, 0))
    IN  \A u \in t..tb.end : Get(copy, u, TRUE) = Get(tb, u, TRUE)

\* Values are lost to newer ones only when the buffer holds as many as it was
\* made for: cells of a grid, values of a flow.
NewestKept ==
  IF grid = "flow" THEN Len(tb.buf) = Cardinality(DOMAIN told)
  ELSE tb.end # 0 =>
         \/ tb.beg = first
         \/ room # 0 /\ (tb.end - tb.beg) \div Per + 1 >= room

\* The counter of error values, by which an archiver asks the other station for
\* what it has none of, is right on the hard grid.
EvalCounted ==
  grid = "hard" =>
    tb.evalCnt = Cardinality({i \in DOMAIN tb.buf : tb.buf[i].val = Eval}) % EvalMod
=============================================================================
