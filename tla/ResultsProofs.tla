---------------------------- MODULE ResultsProofs ----------------------------
(***************************************************************************)
(* What is reported of a run, for every run that ends.  The rows at uniform*)
(* time steps, the accounts of the loads that went unserved and the balance*)
(* of energies are all made of the recorded flows alone, so what must be   *)
(* known of the run is what its record looks like: it begins at time 0 and *)
(* reaches to the final time; its times increase; it holds no amount that a*)
(* store could not; no load takes more than it asks for; and every row's   *)
(* flows pass through the components that neither make nor use any.        *)
(***************************************************************************)
EXTENDS Results, DispatchProofs

RowInRange(i) ==
  \A c \in Stores : timeAndFlows[i].amount[c] \in 0 .. Part[c].capacity

(* The record is not empty when the clock leaves a time, and its last row  *)
(* is that of the time it leaves, the final one when the run is done.      *)
RecordInv ==
  /\ \A i \in DOMAIN timeAndFlows : RowInRange(i)
  /\ timeAndFlows = <<>> => t = 0
  /\ timeAndFlows # <<>> => timeAndFlows[1].time = 0
  /\ Settled => /\ timeAndFlows # <<>>
                /\ timeAndFlows[Len(timeAndFlows)].time = t
  /\ Finished => t = FinalTime

-----------------------------------------------------------------------------
(* Appending a row.                                                        *)
LEMMA AppendFacts ==
  ASSUME NEW S, NEW seq \in Seq(S), NEW e \in S
  PROVE  /\ Append(seq, e) \in Seq(S)
         /\ Append(seq, e) # <<>>
         /\ Len(seq) \in Nat
         /\ Len(Append(seq, e)) = Len(seq) + 1
         /\ DOMAIN seq = 1 .. Len(seq)
         /\ DOMAIN Append(seq, e) = 1 .. Len(seq) + 1
         /\ \A i \in 1 .. Len(seq) : Append(seq, e)[i] = seq[i]
         /\ Append(seq, e)[Len(seq) + 1] = e
  OBVIOUS

LEMMA RowsType ==
  ASSUME IInv
  PROVE  /\ timeAndFlows \in Seq(Snapshot)
         /\ Len(timeAndFlows) \in Nat
         /\ DOMAIN timeAndFlows = 1 .. Len(timeAndFlows)
         /\ timeAndFlows # <<>> => Len(timeAndFlows) > 0
<1>1. timeAndFlows \in Seq(Snapshot)
  BY DEF IInv, TypeOK
<1> HIDE DEF Snapshot
<1> QED
  BY <1>1

LEMMA RecordKeepsRecordInv ==
  ASSUME IInv, RecordInv, Record
  PROVE  RecordInv'
<1> DEFINE row == [time |-> t, req |-> ss.req, avail |-> ss.avail,
                   actual |-> ss.actual, amount |-> ss.amount]
           n == Len(timeAndFlows)
<1>1. /\ timeAndFlows' = Append(timeAndFlows, row)
      /\ UNCHANGED <<ss, t>>
      /\ pc' = IF t = FinalTime THEN "done" ELSE "advance"
  BY DEF Record
<1>2. row \in Snapshot /\ row.time = t /\ row.amount = ss.amount
  BY DEF IInv, TypeOK, State, Snapshot, Stores
<1>3. \A c \in Stores : ss.amount[c] \in 0 .. Part[c].capacity
  BY DEF IInv, AmountsInRange
<1> HIDE DEF row
<1>4. /\ n \in Nat /\ DOMAIN timeAndFlows = 1 .. n
      /\ timeAndFlows' # <<>> /\ Len(timeAndFlows') = n + 1
      /\ DOMAIN timeAndFlows' = 1 .. n + 1
      /\ \A i \in 1 .. n : timeAndFlows'[i] = timeAndFlows[i]
      /\ timeAndFlows'[n + 1] = row
  <2> HIDE DEF Snapshot
  <2> QED
    BY <1>1, <1>2, RowsType, AppendFacts
<1>5. timeAndFlows = <<>> <=> n = 0
  <2> HIDE DEF Snapshot
  <2> QED
    BY RowsType
<1> HIDE DEF n
<1>6. \A i \in DOMAIN timeAndFlows' : RowInRange(i)'
  <2> SUFFICES ASSUME NEW i \in 1 .. n + 1
               PROVE  \A c \in Stores : timeAndFlows'[i].amount[c] \in 0 .. Part[c].capacity
    BY <1>4 DEF RowInRange
  <2>1. i \in 1 .. n \/ i = n + 1
    BY <1>4
  <2> QED
    BY <1>2, <1>3, <1>4, <2>1 DEF RecordInv, RowInRange
<1>7. timeAndFlows'[1].time = 0
  BY <1>2, <1>4, <1>5 DEF RecordInv
<1>8. timeAndFlows'[n + 1].time = t'
  BY <1>1, <1>2, <1>4
<1>9. Finished' => t' = FinalTime
  BY <1>1 DEF Finished
<1> QED
  BY <1>4, <1>6, <1>7, <1>8, <1>9 DEF RecordInv

LEMMA OtherStepsKeepRecordInv ==
  ASSUME IInv, RecordInv, [Next]_vars, ~ Record
  PROVE  RecordInv'
<1>1. CASE UNCHANGED vars
  BY <1>1 DEF vars, RecordInv, RowInRange, Settled, Finished
<1>2. CASE Advance
  <2>1. /\ pc = "advance" /\ timeAndFlows' = timeAndFlows
        /\ pc' \in {"reliability", "assertionFailed"}
    BY <1>2 DEF Advance
  <2> QED
    BY <2>1 DEF RecordInv, RowInRange, Settled, Finished
<1>3. CASE Next /\ ~ Advance /\ ~ UNCHANGED vars
  <2>1. /\ UNCHANGED <<t, timeAndFlows>>
        /\ pc' \notin {"advance", "done"}
    BY <1>3 DEF Next, ActivateReliability, Activate, NextPhase, PhaseAfter, BeginRun,
       TakeBackward, StepBackward, EndBackward, TakeForward, StepForward, EndForward,
       Finalize, RunSwitchLogic, Terminated
  <2> QED
    BY <2>1 DEF RecordInv, RowInRange, Settled, Finished
<1> QED
  BY <1>1, <1>2, <1>3

LEMMA RecordInvHolds == Spec => []RecordInv
<1>1. Init => RecordInv
  BY DEF Init, RecordInv, Settled, Finished
<1>2. IInv /\ RecordInv /\ [Next]_vars => RecordInv'
  BY RecordKeepsRecordInv, OtherStepsKeepRecordInv
<1> QED
  BY <1>1, <1>2, IInvHolds, PTL DEF Spec

-----------------------------------------------------------------------------
(* Extremes of sets of numbers.                                            *)
LEMMA LeastExists ==
  ASSUME NEW S, S \subseteq Nat, S # {}
  PROVE  \E x \in S : \A y \in S : x <= y
<1>1. PICK x \in S : \A y \in S : ~ (<<y, x>> \in OpToRel(<, Nat))
  BY WFMin, NatLessThanWellFounded
<1>2. \A y \in S : ~ (y < x)
  BY <1>1 DEF OpToRel
<1> QED
  BY <1>2

LEMMA MinOf ==
  ASSUME NEW S, S \subseteq Nat, S # {}
  PROVE  Min(S) \in S /\ \A y \in S : Min(S) <= y
BY LeastExists DEF Min

LEMMA MaxIs ==
  ASSUME NEW S, S \subseteq Int, NEW x \in S, \A y \in S : y <= x
  PROVE  Max(S) = x
<1>1. x \in S /\ \A y \in S : x >= y
  OBVIOUS
<1>2. Max(S) \in S /\ \A y \in S : Max(S) >= y
  BY <1>1 DEF Max
<1>3. x \in Int /\ Max(S) \in Int /\ x >= Max(S) /\ Max(S) >= x
  BY <1>1, <1>2
<1> QED
  BY <1>3

(* A weighted mean of two numbers is not outside of them, and is exact     *)
(* where all the weight is on one.                                         *)
LEMMA QuotientBounds ==
  ASSUME NEW n \in Nat, NEW d \in Nat \ {0}, NEW cap \in Nat, n <= cap * d
  PROVE  n \div d \in 0 .. cap
<1> DEFINE q == n \div d
<1>1. q \in Nat /\ d * q <= n
  OBVIOUS
<1>2. cap * d = d * cap
  OBVIOUS
<1>3. d * q <= d * cap
  BY <1>1, <1>2
<1> HIDE DEF q
<1>4. ASSUME q >= cap + 1 PROVE FALSE
  <2>1. d * (cap + 1) <= d * q
    BY <1>1, <1>4
  <2>2. d * (cap + 1) = d * cap + d
    OBVIOUS
  <2>3. d * cap \in Int /\ d * q \in Int
    BY <1>1
  <2> QED
    BY <1>3, <2>1, <2>2, <2>3
<1>5. q \in 0 .. cap
  BY <1>1, <1>4
<1> QED
  BY <1>5 DEF q

LEMMA MeanBounds ==
  ASSUME NEW a \in Nat, NEW b \in Nat, a + b > 0,
         NEW cap \in Nat, NEW x \in 0 .. cap, NEW y \in 0 .. cap
  PROVE  (a * x + b * y) \div (a + b) \in 0 .. cap
<1>1. a * x \in Nat /\ b * y \in Nat /\ a * cap \in Nat /\ b * cap \in Nat
  OBVIOUS
<1>2. a * x <= a * cap
  OBVIOUS
<1>3. b * y <= b * cap
  OBVIOUS
<1>4. cap * (a + b) = a * cap + b * cap
  OBVIOUS
<1>5. a * x + b * y <= cap * (a + b)
  BY <1>1, <1>2, <1>3, <1>4
<1>6. a * x + b * y \in Nat /\ a + b \in Nat \ {0}
  BY <1>1
<1> QED
  BY <1>5, <1>6, QuotientBounds

LEMMA ExactQuotient ==
  ASSUME NEW b \in Nat \ {0}, NEW y \in Nat
  PROVE  (b * y) \div b = y
  OBVIOUS

-----------------------------------------------------------------------------
(* The record of a run that has ended.                                     *)
LEMMA FinishedRecord ==
  ASSUME IInv, EventInv, RecordInv, Finished
  PROVE  LET N == Len(timeAndFlows)
         IN  /\ N \in Nat \ {0} /\ DOMAIN timeAndFlows = 1 .. N
             /\ \A i \in 1 .. N : timeAndFlows[i].time \in Nat
             /\ \A i, j \in 1 .. N : i < j => timeAndFlows[i].time < timeAndFlows[j].time
             /\ timeAndFlows[1].time = 0
             /\ timeAndFlows[N].time = FinalTime
             /\ FinalTime \in Nat
             /\ \A i \in 1 .. N : RowInRange(i)
<1>1. Settled /\ t = FinalTime
  BY DEF Finished, Settled, RecordInv
<1>2. timeAndFlows # <<>> /\ timeAndFlows[Len(timeAndFlows)].time = FinalTime
  BY <1>1 DEF RecordInv
<1>3. timeAndFlows[1].time = 0
  BY <1>2 DEF RecordInv
<1>4. Len(timeAndFlows) \in Nat \ {0} /\ DOMAIN timeAndFlows = 1 .. Len(timeAndFlows)
  BY <1>2, RowsType
<1>5. \A i, j \in DOMAIN timeAndFlows :
        i < j => timeAndFlows[i].time < timeAndFlows[j].time
  BY DEF EventInv, RecordedInOrder
<1> QED
  BY <1>2, <1>3, <1>4, <1>5, RecordedTimesType, SimulationAssumption DEF RecordInv

(* What is shown at some time is the last result not after it.             *)
LEMMA LastRowIs ==
  ASSUME IInv, EventInv, RecordInv, Finished, NEW time \in Nat,
         NEW j \in 1 .. Len(timeAndFlows), timeAndFlows[j].time <= time,
         j = Len(timeAndFlows) \/ timeAndFlows[j + 1].time > time
  PROVE  Max({i \in DOMAIN timeAndFlows : timeAndFlows[i].time <= time}) = j
<1> DEFINE N == Len(timeAndFlows)
           past == {i \in DOMAIN timeAndFlows : timeAndFlows[i].time <= time}
<1>1. /\ N \in Nat /\ DOMAIN timeAndFlows = 1 .. N
      /\ \A i \in 1 .. N : timeAndFlows[i].time \in Nat
      /\ \A i, k \in 1 .. N : i < k => timeAndFlows[i].time < timeAndFlows[k].time
  BY FinishedRecord
<1>2. j \in 1 .. N /\ (j = N \/ timeAndFlows[j + 1].time > time)
  OBVIOUS
<1> HIDE DEF N
<1>3. past \subseteq Int /\ j \in past
  BY <1>2, <1>1
<1>4. ASSUME NEW i \in past PROVE i <= j
  <2>1. i \in 1 .. N /\ timeAndFlows[i].time <= time /\ j \in 1 .. N
    BY <1>2, <1>1, <1>4
  <2> HIDE DEF past
  <2>2. SUFFICES ASSUME i > j PROVE FALSE
    BY <1>1, <2>1
  <2>3. j + 1 \in 1 .. N
    BY <1>1, <2>1, <2>2
  <2>4. timeAndFlows[j + 1].time > time
    BY <2>1, <2>3, <1>2, <1>1
  <2>5. timeAndFlows[j + 1].time <= timeAndFlows[i].time
    <3>1. CASE i = j + 1
      BY <3>1, <2>1, <1>1
    <3>2. CASE j + 1 < i
      BY <3>2, <2>1, <2>3, <1>1
    <3> QED
      BY <1>1, <2>1, <2>2, <3>1, <3>2
  <2> QED
    BY <1>1, <2>1, <2>3, <2>4, <2>5
<1> HIDE DEF past
<1> QED
  BY <1>3, <1>4, MaxIs DEF past

(* The row for a time after the first, between a result before it and one  *)
(* that is not.                                                            *)
Shows(row, time, last) ==
  /\ row.time = time
  /\ row.actual = last.actual
  /\ \A c \in Stores : /\ row.amount[c] \in 0 .. Part[c].capacity
                       /\ row.time = last.time => row.amount[c] = last.amount[c]

LEMMA UniformRowShows ==
  ASSUME NEW row \in Snapshot, NEW next \in Snapshot, NEW time \in Nat,
         row.time < time, time <= next.time,
         \A c \in Stores : /\ Part[c].capacity \in Nat
                           /\ row.amount[c] \in 0 .. Part[c].capacity
                           /\ next.amount[c] \in 0 .. Part[c].capacity
  PROVE  Shows(UniformRow(row, next, time), time, IF time = next.time THEN next ELSE row)
<1> DEFINE flows == IF time = next.time THEN next ELSE row
           mean == [c \in Stores |->
                      ((next.time - time) * row.amount[c] + (time - row.time) * next.amount[c])
                      \div (next.time - row.time)]
           shown == UniformRow(row, next, time)
<1>1. row.time \in Nat /\ next.time \in Nat
  BY DEF Snapshot
<1>2. shown = [flows EXCEPT !.time = time, !.amount = mean]
  BY DEF UniformRow
<1>3. flows \in Snapshot
  OBVIOUS
<1>4. ASSUME NEW c \in Stores
      PROVE  mean[c] \in 0 .. Part[c].capacity
  <2> DEFINE a == next.time - time
             b == time - row.time
             x == row.amount[c]
             y == next.amount[c]
             cap == Part[c].capacity
  <2>1. a \in Nat /\ b \in Nat /\ a + b > 0 /\ next.time - row.time = a + b
    BY <1>1
  <2>2. cap \in Nat /\ x \in 0 .. cap /\ y \in 0 .. cap
    OBVIOUS
  <2>3. mean[c] = (a * x + b * y) \div (next.time - row.time)
    OBVIOUS
  <2> HIDE DEF a, b, x, y, cap, mean
  <2>4. (a * x + b * y) \div (a + b) \in 0 .. cap
    BY <2>1, <2>2, MeanBounds
  <2> QED
    BY <2>1, <2>3, <2>4 DEF cap
<1>5. ASSUME time = next.time, NEW c \in Stores
      PROVE  mean[c] = next.amount[c]
  <2> DEFINE b == time - row.time
             x == row.amount[c]
             y == next.amount[c]
  <2>1. b \in Nat \ {0} /\ x \in Nat /\ y \in Nat
    BY <1>1
  <2>2. next.time - time = 0 /\ next.time - row.time = b
    BY <1>1, <1>5
  <2>3. mean[c] = ((next.time - time) * x + b * y) \div (next.time - row.time)
    OBVIOUS
  <2> HIDE DEF b, x, y, mean
  <2>4. mean[c] = (b * y) \div b
    BY <2>1, <2>2, <2>3
  <2> QED
    BY <2>1, <2>4, ExactQuotient DEF y
<1> HIDE DEF mean
<1>6. shown.time = time /\ shown.amount = mean /\ shown.actual = flows.actual
  BY <1>2, <1>3 DEF Snapshot
<1>7. shown.time = flows.time => time = next.time /\ flows = next
  BY <1>1, <1>6
<1> HIDE DEF shown, flows
<1>8. Shows(shown, time, flows)
  BY <1>4, <1>5, <1>6, <1>7 DEF Shows
<1> QED
  BY <1>8 DEF shown, flows

LEMMA MultipleWithin ==
  ASSUME NEW step \in Nat \ {0}, NEW F \in Nat, NEW k \in 0 .. F \div step
  PROVE  k * step \in 0 .. F /\ (k > 0 => k * step > 0)
<1> DEFINE q == F \div step
<1>1. q \in Nat /\ step * q <= F
  OBVIOUS
<1>2. k \in Nat /\ k <= q
  BY <1>1
<1> HIDE DEF q
<1>3. k * step = step * k /\ step * k <= step * q /\ step * q \in Nat
  BY <1>1, <1>2
<1>4. k * step \in Nat
  BY <1>2
<1>5. k > 0 => k * step > 0
  BY <1>2
<1> QED
  BY <1>1, <1>3, <1>4, <1>5

(* In every run that has ended, and for every step a user asks for, there  *)
(* is a row for every multiple of the step up to the final time; it shows  *)
(* the flows of the last event not after it, and what it says of a store   *)
(* is an amount the store can hold, its own at an event.                   *)
(* (ApplyUniformTimeStep.)                                                 *)
THEOREM UniformRowsAreTheRuns == Spec => []UniformRowsShowTheRun
<1>1. IInv /\ EventInv /\ RecordInv => UniformRowsShowTheRun
  <2> SUFFICES ASSUME IInv, EventInv, RecordInv, Finished, NEW step \in TimeSteps
               PROVE  LET rows == ApplyUniformTimeStep(timeAndFlows, step)
                      IN  /\ Len(rows) = FinalTime \div step + 1
                          /\ \A n \in DOMAIN rows :
                               LET past == {i \in DOMAIN timeAndFlows :
                                              timeAndFlows[i].time <= rows[n].time}
                                   last == timeAndFlows[Max(past)]
                               IN  Shows(rows[n], (n - 1) * step, last)
    BY DEF UniformRowsShowTheRun, Shows
  <2> DEFINE N    == Len(timeAndFlows)
             F    == FinalTime \div step
             rows == ApplyUniformTimeStep(timeAndFlows, step)
             reached(time) == Min({i \in DOMAIN timeAndFlows : timeAndFlows[i].time >= time})
  <2>1. /\ N \in Nat \ {0} /\ DOMAIN timeAndFlows = 1 .. N
        /\ \A i \in 1 .. N : timeAndFlows[i].time \in Nat
        /\ \A i, j \in 1 .. N : i < j => timeAndFlows[i].time < timeAndFlows[j].time
        /\ timeAndFlows[1].time = 0
        /\ timeAndFlows[N].time = FinalTime
        /\ FinalTime \in Nat
        /\ \A i \in 1 .. N : RowInRange(i)
    BY FinishedRecord
  <2>2. \A i \in 1 .. N : timeAndFlows[i] \in Snapshot
    <3> HIDE DEF Snapshot
    <3> QED
      BY RowsType
  <2>3. step \in Nat \ {0} /\ F \in Nat
    BY <2>1, ResultsAssumption
  <2>4. rows = [n \in 1 .. F + 1 |->
                  IF n = 1 THEN timeAndFlows[1]
                  ELSE LET time == (n - 1) * step
                           i    == reached(time)
                       IN  UniformRow(timeAndFlows[i - 1], timeAndFlows[i], time)]
    BY <2>1 DEF ApplyUniformTimeStep
  <2>5. \A c \in Stores : Part[c].capacity \in Nat
    BY StoreParts DEF Stores, OfKind
  <2> HIDE DEF N, F, rows, reached
  <2>6. Len(rows) = F + 1 /\ DOMAIN rows = 1 .. F + 1
    BY <2>3, <2>4
  <2>7. ASSUME NEW n \in 1 .. F + 1
        PROVE  LET past == {i \in DOMAIN timeAndFlows : timeAndFlows[i].time <= rows[n].time}
                   last == timeAndFlows[Max(past)]
               IN  Shows(rows[n], (n - 1) * step, last)
    <3> DEFINE past == {i \in DOMAIN timeAndFlows : timeAndFlows[i].time <= rows[n].time}
               time == (n - 1) * step
    <3>1. CASE n = 1
      <4>1. rows[n] = timeAndFlows[1] /\ time = 0
        BY <3>1, <2>3, <2>4
      <4>2. 1 \in 1 .. N /\ (1 = N \/ timeAndFlows[1 + 1].time > 0)
        BY <2>1
      <4>3. Max(past) = 1
        <5>1. 0 \in Nat /\ rows[n].time = 0
          BY <4>1, <2>1
        <5>2. timeAndFlows[1].time <= 0
          BY <2>1
        <5>3. Max({i \in DOMAIN timeAndFlows : timeAndFlows[i].time <= 0}) = 1
          BY <4>2, <5>2, LastRowIs, Zenon DEF N
        <5> QED
          BY <5>1, <5>3
      <4>4. Shows(timeAndFlows[1], 0, timeAndFlows[1])
        BY <4>2, <2>1 DEF Shows, RowInRange
      <4> QED
        BY <4>1, <4>3, <4>4
    <3>2. CASE n # 1
      <4>1. time \in Nat /\ time > 0 /\ time <= FinalTime
        <5> DEFINE k == n - 1
        <5>1. k \in 0 .. F /\ k > 0 /\ time = k * step
          BY <3>2, <2>3
        <5> HIDE DEF k, time
        <5>2. k * step \in 0 .. FinalTime /\ (k > 0 => k * step > 0)
          BY <5>1, <2>1, <2>3, MultipleWithin DEF F
        <5> QED
          BY <5>1, <5>2, <2>1
      <4> DEFINE later == {i \in DOMAIN timeAndFlows : timeAndFlows[i].time >= time}
                 i     == reached(time)
                 row   == timeAndFlows[i - 1]
                 next  == timeAndFlows[i]
      <4> HIDE DEF time
      <4>2. rows[n] = UniformRow(row, next, time)
        BY <3>2, <2>4 DEF time
      <4>3. i \in later /\ \A j \in later : i <= j
        <5>1. later \subseteq Nat /\ N \in later
          BY <4>1, <2>1
        <5> HIDE DEF later
        <5>2. i = Min(later)
          BY DEF reached, later
        <5> QED
          BY <5>1, <5>2, MinOf
      <4>4. i \in 1 .. N /\ next.time >= time
        BY <4>3, <2>1
      <4>5. i - 1 \in 1 .. N /\ row.time < time
        <5> HIDE DEF i
        <5>1. i # 1
          BY <4>1, <4>4, <2>1
        <5>2. i - 1 \in 1 .. N /\ ~ (i <= i - 1)
          BY <4>4, <5>1, <2>1
        <5>3. i - 1 \notin later
          BY <4>3, <5>2
        <5>4. timeAndFlows[i - 1].time \in Nat /\ ~ (timeAndFlows[i - 1].time >= time)
          BY <5>2, <5>3, <2>1
        <5> QED
          BY <5>2, <5>4, <4>1
      <4> HIDE DEF i, later
      <4>6. row \in Snapshot /\ next \in Snapshot
        BY <4>4, <4>5, <2>2
      <4>7. \A c \in Stores : /\ row.amount[c] \in 0 .. Part[c].capacity
                              /\ next.amount[c] \in 0 .. Part[c].capacity
        BY <4>4, <4>5, <2>1 DEF RowInRange
      <4> DEFINE last == IF time = next.time THEN next ELSE row
      <4>8. Shows(rows[n], time, last)
        <5> HIDE DEF row, next
        <5> QED
          BY <4>1, <4>2, <4>4, <4>5, <4>6, <4>7, <2>5, UniformRowShows DEF row, next
      <4>9. last = timeAndFlows[Max(past)]
        <5>1. rows[n].time = time
          BY <4>8 DEF Shows
        <5>2. CASE time = next.time
          <6>1. i = N \/ timeAndFlows[i + 1].time > time
            BY <4>4, <5>2, <2>1
          <6>2. Max(past) = i
            BY <4>1, <4>4, <5>1, <5>2, <6>1, <2>1, LastRowIs DEF N
          <6> QED
            BY <5>2, <6>2
        <5>3. CASE time # next.time
          <6>1. next.time \in Nat /\ row.time \in Nat
            BY <4>4, <4>5, <2>1
          <6>2. (i - 1) + 1 = i /\ next.time > time /\ row.time <= time
            BY <4>1, <4>4, <4>5, <5>3, <6>1
          <6>3. Max(past) = i - 1
            BY <4>1, <4>5, <5>1, <6>2, LastRowIs DEF N
          <6> QED
            BY <5>3, <6>3
        <5> QED
          BY <5>2, <5>3
      <4> QED
        BY <4>8, <4>9 DEF time
    <3> QED
      BY <3>1, <3>2
  <2> QED
    BY <2>6, <2>7 DEF rows, F
<1> QED
  BY <1>1, IInvHolds, EventInvHolds, RecordInvHolds, PTL


-----------------------------------------------------------------------------
(* The statistics of a run that has ended.  What each recorded row must    *)
(* satisfy for them is an invariant of the record: only a step that records*)
(* the current flows can change it.                                        *)
LEMMA RowsChange ==
  ASSUME IInv, [Next]_vars, timeAndFlows' # timeAndFlows
  PROVE  LET n == Len(timeAndFlows)
         IN  /\ Settled'
             /\ n \in Nat /\ DOMAIN timeAndFlows = 1 .. n
             /\ DOMAIN timeAndFlows' = 1 .. n + 1
             /\ \A i \in 1 .. n : timeAndFlows'[i] = timeAndFlows[i]
             /\ timeAndFlows'[n + 1].req = ss'.req
             /\ timeAndFlows'[n + 1].actual = ss'.actual
             /\ timeAndFlows'[n + 1].amount = ss'.amount
<1> DEFINE row == [time |-> t, req |-> ss.req, avail |-> ss.avail,
                   actual |-> ss.actual, amount |-> ss.amount]
<1>1. Record
  <2>1. CASE UNCHANGED vars
    BY <2>1 DEF vars
  <2>2. CASE Advance
    BY <2>2 DEF Advance
  <2>3. CASE Next /\ ~ Advance /\ ~ UNCHANGED vars /\ ~ Record
    BY <2>3 DEF Next, ActivateReliability, Activate, NextPhase, BeginRun,
       TakeBackward, StepBackward, EndBackward, TakeForward, StepForward, EndForward,
       Finalize, RunSwitchLogic, Terminated
  <2> QED
    BY <2>1, <2>2, <2>3
<1>2. /\ timeAndFlows' = Append(timeAndFlows, row)
      /\ UNCHANGED ss
      /\ Settled'
  BY <1>1 DEF Record, Settled
<1>3. row \in Snapshot /\ timeAndFlows \in Seq(Snapshot)
  BY DEF IInv, TypeOK, State, Snapshot, Stores
<1>4. row.req = ss'.req /\ row.actual = ss'.actual /\ row.amount = ss'.amount
  BY <1>2
<1> HIDE DEF row, Snapshot
<1> QED
  BY <1>2, <1>3, <1>4, AppendFacts

(* No load was recorded as taking more than it asked for.                  *)
LoadsTakeNoMore ==
  \A i \in DOMAIN timeAndFlows : \A k \in LoadConns :
    timeAndFlows[i].actual[k] <= timeAndFlows[i].req[k]

LEMMA LoadsTakeNoMoreHolds ==
  ASSUME EveryChangeIsTold, ConvertersAreWired, ScheduledLoadsDoNotFail
  PROVE  Spec /\ [](~ CutShort) => []LoadsTakeNoMore
<1>1. Init => LoadsTakeNoMore
  BY DEF Init, LoadsTakeNoMore
<1>2. IInv /\ LoadsTakeNoMore /\ [Next]_vars
        /\ IInv' /\ NothingIsLeft' /\ FlowsAreFinal' /\ (~ CutShort)'
        => LoadsTakeNoMore'
  <2> SUFFICES ASSUME IInv, LoadsTakeNoMore, [Next]_vars,
                      IInv', NothingIsLeft', FlowsAreFinal', ~ CutShort'
               PROVE  LoadsTakeNoMore'
    OBVIOUS
  <2>1. CASE timeAndFlows' = timeAndFlows
    BY <2>1 DEF LoadsTakeNoMore
  <2>2. CASE timeAndFlows' # timeAndFlows
    <3>1. LET n == Len(timeAndFlows)
          IN  /\ Settled'
              /\ n \in Nat /\ DOMAIN timeAndFlows = 1 .. n
              /\ DOMAIN timeAndFlows' = 1 .. n + 1
              /\ \A i \in 1 .. n : timeAndFlows'[i] = timeAndFlows[i]
              /\ timeAndFlows'[n + 1].req = ss'.req
              /\ timeAndFlows'[n + 1].actual = ss'.actual
              /\ timeAndFlows'[n + 1].amount = ss'.amount
      BY <2>2, RowsChange
    <3>2. ss' \in State
      BY DEF IInv, TypeOK
    <3>3. Quiet(ss') /\ pc' \notin {"backward", "forward", "finalize"}
      BY <3>1 DEF NothingIsLeft, CutShort, Quiet, Settled
    <3>4. ASSUME NEW k \in LoadConns PROVE ss'.actual[k] <= ss'.req[k]
      <4>1. k \in Conn /\ Part[Connection[k].to].kind \in {"ConstantLoad", "ScheduleBasedLoad"}
        BY DEF LoadConns, Into
      <4>2. ~ SourceWaste(k)
        BY <4>1 DEF SourceWaste, EveryChangeIsTold, WasteIsDisposedOf
      <4>3. ss'.actual[k] = FinalizeFlowValue(ss'.req[k], ss'.avail[k])
        BY <3>3, <4>1, <4>2 DEF FlowsAreFinal, IsFinal
      <4>4. ss'.req[k] \in Nat /\ ss'.avail[k] \in Nat
        BY <3>2, <4>1, FlowsOfState, FlowIsNat
      <4> QED
        BY <4>3, <4>4 DEF FinalizeFlowValue
    <3> QED
      BY <3>1, <3>4 DEF LoadsTakeNoMore
  <2> QED
    BY <2>1, <2>2
<1> QED
  BY <1>1, <1>2, IInvHolds, NothingIsLeftHolds, FlowsAreFinalHolds, PTL DEF Spec

-----------------------------------------------------------------------------
(* Adding up the times between the rows.                                   *)
LEMMA IntervalSet ==
  ASSUME NEW a \in Nat, NEW b \in Nat
  PROVE  NatSet(a .. b)
<1>1. IsFiniteSet(a .. b)
  BY FS_Interval
<1> QED
  BY <1>1 DEF NatSet

LEMMA PartsOfSets ==
  ASSUME NEW S, NatSet(S), NEW R, R \subseteq S
  PROVE  NatSet(R)
  BY FS_Subset DEF NatSet

LEMMA Telescopes ==
  ASSUME NEW n \in Nat \ {0}, NEW times, \A i \in 1 .. n : times[i] \in Int,
         NEW f, \A i \in 2 .. n : f[i] = times[i] - times[i - 1]
  PROVE  Sum(f, 2 .. n) = times[n] - times[1]
<1> DEFINE S == {m \in Nat : m + 1 \in 1 .. n =>
                   Sum(f, 2 .. m + 1) = times[m + 1] - times[1]}
<1>1. 0 \in S
  <2>1. 2 .. 0 + 1 = {} /\ 0 + 1 = 1
    OBVIOUS
  <2>2. Sum(f, 2 .. 0 + 1) = 0
    BY <2>1, SumEmpty
  <2> QED
    BY <2>1, <2>2
<1>2. ASSUME NEW m \in S PROVE m + 1 \in S
  <2> m \in Nat
    OBVIOUS
  <2> (m + 1) + 1 = m + 2
    OBVIOUS
  <2>1. SUFFICES ASSUME m + 2 \in 1 .. n
                 PROVE  Sum(f, 2 .. m + 2) = times[m + 2] - times[1]
    OBVIOUS
  <2>2. m + 1 \in 1 .. n /\ m + 2 \in 2 .. n /\ (m + 2) - 1 = m + 1
    BY <2>1
  <2>3. Sum(f, 2 .. m + 1) = times[m + 1] - times[1]
    BY <2>2
  <2>4. 2 .. m + 2 = (2 .. m + 1) \cup {m + 2} /\ \A j \in 2 .. m + 1 : j < m + 2
    BY <2>2
  <2>5. Sum(f, (2 .. m + 1) \cup {m + 2}) = Sum(f, 2 .. m + 1) + f[m + 2]
    <3> DEFINE R == 2 .. m + 1
               x == m + 2
    <3>1. NatSet(R) /\ x \in Nat
      BY IntervalSet
    <3>2. \A j \in R : j < x
      BY <2>4
    <3> HIDE DEF R, x
    <3>3. Sum(f, R \cup {x}) = Sum(f, R) + f[x]
      BY <3>1, <3>2, SumTop
    <3> QED
      BY <3>3 DEF R, x
  <2>6. f[m + 2] = times[m + 2] - times[m + 1]
    BY <2>2
  <2>7. times[m + 2] \in Int /\ times[m + 1] \in Int /\ times[1] \in Int
    BY <2>1, <2>2
  <2> HIDE DEF S
  <2>8. Sum(f, 2 .. m + 2) = Sum(f, 2 .. m + 1) + f[m + 2]
    BY <2>4, <2>5
  <2> QED
    BY <2>3, <2>6, <2>7, <2>8
<1> HIDE DEF S
<1>3. S = Nat
  <2>1. S \subseteq Nat
    BY DEF S
  <2> QED
    BY <1>1, <1>2, <2>1, SetInduction
<1>4. n - 1 \in S /\ n - 1 \in Nat /\ (n - 1) + 1 = n
  BY <1>3
<1> QED
  BY <1>4 DEF S

LEMMA IntervalFacts ==
  ASSUME IInv, EventInv, RecordInv, Finished
  PROVE  LET N == Len(timeAndFlows)
         IN  /\ N \in Nat \ {0} /\ Intervals = 2 .. N /\ NatSet(Intervals)
             /\ \A i \in Intervals : /\ i \in 1 .. N /\ i - 1 \in 1 .. N
                                     /\ Elapsed(i) \in Nat \ {0}
             /\ Sum([i \in Intervals |-> Elapsed(i)], Intervals) = FinalTime
<1> DEFINE N     == Len(timeAndFlows)
           times == [i \in 1 .. N |-> timeAndFlows[i].time]
           spans == [i \in Intervals |-> Elapsed(i)]
<1>1. /\ N \in Nat \ {0}
      /\ \A i \in 1 .. N : timeAndFlows[i].time \in Nat
      /\ \A i, j \in 1 .. N : i < j => timeAndFlows[i].time < timeAndFlows[j].time
      /\ timeAndFlows[1].time = 0
      /\ timeAndFlows[N].time = FinalTime
      /\ FinalTime \in Nat
  BY FinishedRecord
<1>2. Intervals = 2 .. N
  BY DEF Intervals
<1> HIDE DEF N
<1>3. NatSet(Intervals)
  BY <1>1, <1>2, IntervalSet
<1>4. ASSUME NEW i \in Intervals
      PROVE  i \in 1 .. N /\ i - 1 \in 1 .. N /\ Elapsed(i) \in Nat \ {0}
  <2>1. i \in 1 .. N /\ i - 1 \in 1 .. N /\ i - 1 < i
    BY <1>1, <1>2
  <2>2. timeAndFlows[i - 1].time < timeAndFlows[i].time
    BY <1>1, <2>1
  <2> QED
    BY <1>1, <2>1, <2>2 DEF Elapsed
<1>5. \A i \in 2 .. N : spans[i] = times[i] - times[i - 1]
  BY <1>2, <1>4 DEF Elapsed
<1>6. \A i \in 1 .. N : times[i] \in Int
  BY <1>1
<1>7. times[1] = 0 /\ times[N] = FinalTime
  BY <1>1
<1> HIDE DEF times, spans
<1>8. Sum(spans, 2 .. N) = times[N] - times[1]
  BY <1>1, <1>5, <1>6, Telescopes
<1> QED
  BY <1>1, <1>2, <1>3, <1>4, <1>7, <1>8 DEF spans, N

LEMMA ConnsAreNat ==
  ASSUME NEW conns, conns \subseteq Conn
  PROVE  NatSet(conns)
<1>1. NatSet(Conn)
  BY NetworkAssumption, FiniteAssumption DEF NatSet
<1> QED
  BY <1>1, PartsOfSets

LEMMA RowFlows ==
  ASSUME IInv, NEW i \in 1 .. Len(timeAndFlows), NEW k \in Conn
  PROVE  timeAndFlows[i].req[k] \in Nat /\ timeAndFlows[i].actual[k] \in Nat
<1>1. timeAndFlows[i] \in Snapshot
  <2> HIDE DEF Snapshot
  <2> QED
    BY RowsType
<1>2. timeAndFlows[i].req \in [Conn -> Flow] /\ timeAndFlows[i].actual \in [Conn -> Flow]
  BY <1>1 DEF Snapshot
<1> QED
  BY <1>2, FlowIsNat

(* The time connections are met and the time they are not.                 *)
Missed(conns) == {i \in Intervals : ~ Met(conns, i)}
Lost(conns)   == Sum([i \in Intervals |-> Elapsed(i)], Missed(conns))

LEMMA UpAndDown ==
  ASSUME IInv, EventInv, RecordInv, Finished, NEW conns
  PROVE  /\ Uptime(conns) \in Nat /\ Lost(conns) \in Nat /\ FinalTime \in Nat
         /\ Uptime(conns) + Lost(conns) = FinalTime
<1> DEFINE spans == [i \in Intervals |-> Elapsed(i)]
           up    == {i \in Intervals : Met(conns, i)}
           down  == Missed(conns)
           spent == [i \in up |-> Elapsed(i)]
<1>1. /\ NatSet(Intervals)
      /\ \A i \in Intervals : Elapsed(i) \in Nat
      /\ Sum(spans, Intervals) = FinalTime
  BY IntervalFacts
<1>2. /\ up \cup down = Intervals /\ up \cap down = {}
      /\ up \subseteq Intervals /\ down \subseteq Intervals
  BY DEF Missed
<1>3. Uptime(conns) = Sum(spent, up)
  BY DEF Uptime, Over
<1>4. \A i \in up : spent[i] = spans[i]
  OBVIOUS
<1>5. \A i \in Intervals : spans[i] \in Nat
  BY <1>1
<1>6. Lost(conns) = Sum(spans, down)
  BY DEF Lost
<1> HIDE DEF spans, up, down, spent
<1>7. NatSet(up) /\ NatSet(down)
  BY <1>1, <1>2, PartsOfSets
<1>8. Sum(spent, up) = Sum(spans, up)
  BY <1>4, <1>7, SumAgrees
<1>9. Sum(spans, up \cup down) = Sum(spans, up) + Sum(spans, down)
  <2>1. \A k \in up \cup down : spans[k] \in Int
    BY <1>2, <1>5
  <2> QED
    BY <1>2, <1>7, <2>1, SumOfUnion
<1>10. Sum(spans, up) \in Nat /\ Sum(spans, down) \in Nat
  <2>1. \A k \in up : spans[k] \in Nat
    BY <1>2, <1>5
  <2>2. \A k \in down : spans[k] \in Nat
    BY <1>2, <1>5
  <2> QED
    BY <1>7, <2>1, <2>2, SumType
<1>11. FinalTime = Sum(spans, up) + Sum(spans, down)
  BY <1>1, <1>2, <1>9
<1> QED
  BY <1>3, <1>6, <1>8, <1>10, <1>11

LEMMA DowntimeIsLost ==
  ASSUME IInv, EventInv, RecordInv, Finished
  PROVE  Downtime = Lost(LoadConns)
<1> DEFINE spans == [i \in Intervals |-> Elapsed(i)]
           down  == Missed(LoadConns)
           spent == [i \in down |-> Elapsed(i)]
<1>1. {i \in Intervals : ~ AllLoadsMet(i)} = down
  BY DEF Missed, AllLoadsMet
<1>2. Downtime = Sum(spent, down)
  BY <1>1 DEF Downtime, Over
<1>3. NatSet(down)
  BY IntervalFacts, PartsOfSets DEF Missed
<1>4. \A i \in down : spent[i] = spans[i]
  BY DEF Missed
<1>5. Lost(LoadConns) = Sum(spans, down)
  BY DEF Lost
<1> HIDE DEF spans, down, spent
<1> QED
  BY <1>2, <1>3, <1>4, <1>5, SumAgrees

LEMMA NothingLost ==
  ASSUME IInv, EventInv, RecordInv, Finished, NEW conns
  PROVE  Lost(conns) = 0 <=> \A i \in Intervals : Met(conns, i)
<1> DEFINE spans == [i \in Intervals |-> Elapsed(i)]
           down  == Missed(conns)
<1>1. /\ NatSet(down) /\ down \subseteq Intervals
      /\ \A i \in Intervals : Elapsed(i) \in Nat \ {0}
  <2>1. down \subseteq Intervals
    BY DEF Missed
  <2> HIDE DEF down
  <2> QED
    BY <2>1, IntervalFacts, PartsOfSets
<1>2. \A i \in down : spans[i] \in Nat \ {0}
  BY <1>1
<1>3. Lost(conns) = Sum(spans, down)
  BY DEF Lost
<1> HIDE DEF spans, down
<1>4. ASSUME down = {} PROVE Sum(spans, down) = 0
  BY <1>4, SumEmpty
<1>5. ASSUME NEW i \in down PROVE Sum(spans, down) # 0
  <2>1. Sum(spans, down) >= spans[i] /\ Sum(spans, down) \in Nat
    <3>1. \A k \in down : spans[k] \in Nat
      BY <1>2
    <3> QED
      BY <1>1, <3>1, SumAtLeast, SumType
  <2> QED
    BY <1>2, <2>1
<1> QED
  BY <1>3, <1>4, <1>5 DEF down, Missed

LEMMA LostGrows ==
  ASSUME IInv, EventInv, RecordInv, Finished, NEW conns \in SUBSET LoadConns
  PROVE  Lost(conns) <= Lost(LoadConns)
<1> DEFINE spans == [i \in Intervals |-> Elapsed(i)]
           some  == Missed(conns)
           rest  == Missed(LoadConns) \ Missed(conns)
<1>1. some \subseteq Missed(LoadConns)
  BY DEF Missed, Met
<1>2. Missed(LoadConns) = some \cup rest /\ some \cap rest = {}
  BY <1>1
<1>3. /\ some \subseteq Intervals /\ rest \subseteq Intervals
      /\ NatSet(some) /\ NatSet(rest)
  <2>1. some \subseteq Intervals /\ rest \subseteq Intervals
    BY DEF Missed
  <2> QED
    BY <2>1, IntervalFacts, PartsOfSets
<1>4. \A i \in Intervals : spans[i] \in Nat
  BY IntervalFacts
<1>5. Lost(conns) = Sum(spans, some) /\ Lost(LoadConns) = Sum(spans, some \cup rest)
  BY <1>2 DEF Lost
<1> HIDE DEF spans, some, rest
<1>6. Sum(spans, some \cup rest) = Sum(spans, some) + Sum(spans, rest)
  <2>1. \A k \in some \cup rest : spans[k] \in Int
    BY <1>3, <1>4
  <2> QED
    BY <1>2, <1>3, <2>1, SumOfUnion
<1>7. Sum(spans, some) \in Nat /\ Sum(spans, rest) \in Nat
  <2>1. (\A k \in some : spans[k] \in Nat) /\ (\A k \in rest : spans[k] \in Nat)
    BY <1>3, <1>4
  <2> QED
    BY <1>3, <2>1, SumType
<1> QED
  BY <1>5, <1>6, <1>7


-----------------------------------------------------------------------------
(* What the loads asked for, got and went without.                         *)
UnmetAt(i, conns) == Sum([k \in conns |-> Unmet(Before(i), k)], conns)

LEMMA UnmetFacts ==
  ASSUME IInv, EventInv, RecordInv, Finished, LoadsTakeNoMore,
         NEW conns \in SUBSET LoadConns, NEW i \in Intervals
  PROVE  /\ Sum(Before(i).req, conns) \in Nat
         /\ Sum(Before(i).actual, conns) \in Nat
         /\ UnmetAt(i, conns) \in Nat
         /\ Sum(Before(i).req, conns) = Sum(Before(i).actual, conns) + UnmetAt(i, conns)
         /\ UnmetAt(i, conns) = 0 <=> Met(conns, i)
<1> DEFINE unmet == [k \in conns |-> Unmet(Before(i), k)]
           req   == Before(i).req
           got   == Before(i).actual
<1>1. i - 1 \in 1 .. Len(timeAndFlows) /\ i - 1 \in DOMAIN timeAndFlows
  BY IntervalFacts, RowsType
<1>2. conns \subseteq Conn /\ conns \subseteq LoadConns
  BY DEF LoadConns, Into
<1>3. NatSet(conns)
  BY <1>2, ConnsAreNat
<1>4. ASSUME NEW k \in conns
      PROVE  /\ req[k] \in Nat /\ got[k] \in Nat /\ got[k] <= req[k]
             /\ unmet[k] = req[k] - got[k]
  <2>1. req[k] \in Nat /\ got[k] \in Nat
    BY <1>1, <1>2, RowFlows DEF Before
  <2>2. got[k] <= req[k]
    BY <1>1, <1>2 DEF LoadsTakeNoMore, Before
  <2>3. unmet[k] = Unmet(Before(i), k)
    OBVIOUS
  <2> QED
    BY <2>1, <2>2, <2>3 DEF Unmet
<1>5. UnmetAt(i, conns) = Sum(unmet, conns)
  BY DEF UnmetAt
<1>6. Met(conns, i) <=> \A k \in conns : got[k] = req[k]
  BY DEF Met
<1> HIDE DEF unmet, req, got
<1>7. /\ \A k \in conns : req[k] \in Nat
      /\ \A k \in conns : got[k] \in Nat
      /\ \A k \in conns : unmet[k] \in Nat
      /\ \A k \in conns : got[k] \in Int /\ unmet[k] \in Int /\ req[k] = got[k] + unmet[k]
  BY <1>4
<1>8. Sum(req, conns) \in Nat /\ Sum(got, conns) \in Nat /\ Sum(unmet, conns) \in Nat
  BY <1>3, <1>7, SumType
<1>9. Sum(req, conns) = Sum(got, conns) + Sum(unmet, conns)
  BY <1>3, <1>7, SumOfSums
<1>10. ASSUME \A k \in conns : got[k] = req[k] PROVE Sum(unmet, conns) = 0
  <2>1. \A k \in conns : unmet[k] = 0
    BY <1>4, <1>10
  <2> QED
    BY <1>3, <2>1, SumOfNothing
<1>11. ASSUME NEW k \in conns, got[k] # req[k] PROVE Sum(unmet, conns) # 0
  <2>1. unmet[k] \in Nat /\ unmet[k] # 0
    BY <1>4, <1>11
  <2>2. Sum(unmet, conns) >= unmet[k]
    BY <1>3, <1>7, SumAtLeast
  <2> QED
    BY <1>8, <2>1, <2>2
<1> QED
  BY <1>5, <1>6, <1>8, <1>9, <1>10, <1>11 DEF req, got

LEMMA LoadsAddUp ==
  ASSUME IInv, EventInv, RecordInv, Finished, LoadsTakeNoMore,
         NEW conns \in SUBSET LoadConns
  PROVE  /\ EnergyRequested(conns) = EnergyActual(conns) + LoadNotServed(conns)
         /\ LoadNotServed(conns) = 0 <=> \A i \in Intervals : Met(conns, i)
<1> DEFINE asked  == [i \in Intervals |-> Elapsed(i) * Sum(Before(i).req, conns)]
           got    == [i \in Intervals |-> Elapsed(i) * Sum(Before(i).actual, conns)]
           missed == [i \in Intervals |-> Elapsed(i) * UnmetAt(i, conns)]
<1>1. /\ NatSet(Intervals)
      /\ \A i \in Intervals : Elapsed(i) \in Nat \ {0}
  BY IntervalFacts
<1>2. /\ EnergyRequested(conns) = Sum(asked, Intervals)
      /\ EnergyActual(conns) = Sum(got, Intervals)
      /\ LoadNotServed(conns) = Sum(missed, Intervals)
  BY DEF EnergyRequested, EnergyActual, LoadNotServed, Over, UnmetAt
<1>3. ASSUME NEW i \in Intervals
      PROVE  /\ got[i] \in Int /\ missed[i] \in Nat /\ asked[i] = got[i] + missed[i]
             /\ missed[i] = 0 <=> Met(conns, i)
  <2> DEFINE e == Elapsed(i)
             r == Sum(Before(i).req, conns)
             a == Sum(Before(i).actual, conns)
             u == UnmetAt(i, conns)
  <2>1. e \in Nat \ {0} /\ r \in Nat /\ a \in Nat /\ u \in Nat /\ r = a + u
        /\ (u = 0 <=> Met(conns, i))
    BY <1>1, UnmetFacts
  <2>2. asked[i] = e * r /\ got[i] = e * a /\ missed[i] = e * u
    OBVIOUS
  <2> HIDE DEF e, r, a, u, asked, got, missed
  <2>3. e * r = e * a + e * u /\ e * a \in Nat /\ e * u \in Nat
    BY <2>1
  <2>4. e * u = 0 <=> u = 0
    BY <2>1
  <2> QED
    BY <2>1, <2>2, <2>3, <2>4
<1> HIDE DEF asked, got, missed
<1>4. \A i \in Intervals : got[i] \in Int /\ missed[i] \in Int /\ asked[i] = got[i] + missed[i]
  BY <1>3
<1>5. Sum(asked, Intervals) = Sum(got, Intervals) + Sum(missed, Intervals)
  BY <1>1, <1>4, SumOfSums
<1>6. ASSUME \A i \in Intervals : Met(conns, i) PROVE Sum(missed, Intervals) = 0
  <2>1. \A i \in Intervals : missed[i] = 0
    BY <1>3, <1>6
  <2> QED
    BY <1>1, <2>1, SumOfNothing
<1>7. ASSUME NEW i \in Intervals, ~ Met(conns, i) PROVE Sum(missed, Intervals) # 0
  <2>1. missed[i] \in Nat /\ missed[i] # 0
    BY <1>3, <1>7
  <2>2. \A k \in Intervals : missed[k] \in Nat
    BY <1>3
  <2>3. Sum(missed, Intervals) >= missed[i] /\ Sum(missed, Intervals) \in Nat
    BY <1>1, <2>2, SumAtLeast, SumType
  <2> QED
    BY <2>1, <2>3
<1> QED
  BY <1>2, <1>5, <1>6, <1>7

-----------------------------------------------------------------------------
(* The longest outage.  The two counters are functions of the rows before: *)
(* one that exists satisfies its definition.                               *)
Iterates(G, f, n) == f = [i \in 1 .. n |-> IF i = 1 THEN 0 ELSE G[<<i, f[i - 1]>>]]

LEMMA IterationsExist ==
  ASSUME NEW n \in Nat, NEW G
  PROVE  \E f : Iterates(G, f, n)
<1> DEFINE S == {m \in Nat : \E f : Iterates(G, f, m)}
<1>1. 0 \in S
  <2>1. Iterates(G, [i \in 1 .. 0 |-> 0], 0)
    BY DEF Iterates
  <2> QED
    BY <2>1
<1>2. ASSUME NEW m \in S PROVE m + 1 \in S
  <2>1. m \in Nat
    OBVIOUS
  <2>2. PICK f : Iterates(G, f, m)
    OBVIOUS
  <2> DEFINE top == IF m + 1 = 1 THEN 0 ELSE G[<<m + 1, f[m]>>]
             g == [i \in 1 .. m + 1 |-> IF i = m + 1 THEN top ELSE f[i]]
  <2>3. ASSUME NEW i \in 1 .. m + 1
        PROVE  g[i] = IF i = 1 THEN 0 ELSE G[<<i, g[i - 1]>>]
    <3>1. CASE i = m + 1
      <4>1. (m + 1) - 1 = m /\ (m + 1 # 1 => m \in 1 .. m + 1 /\ m # m + 1)
        BY <2>1
      <4> QED
        BY <3>1, <4>1
    <3>2. CASE i # m + 1
      <4>1. i \in 1 .. m /\ i # m + 1
        BY <2>1, <3>2
      <4>2. i # 1 => i - 1 \in 1 .. m + 1 /\ i - 1 # m + 1
        BY <2>1, <4>1
      <4>3. g[i] = f[i] /\ (i # 1 => g[i - 1] = f[i - 1])
        BY <4>1, <4>2
      <4>4. f[i] = IF i = 1 THEN 0 ELSE G[<<i, f[i - 1]>>]
        BY <2>2, <4>1 DEF Iterates
      <4> QED
        BY <4>3, <4>4
    <3> QED
      BY <3>1, <3>2
  <2>4. Iterates(G, g, m + 1)
    <3>1. DOMAIN g = 1 .. m + 1 /\ g = [i \in 1 .. m + 1 |-> g[i]]
      OBVIOUS
    <3> HIDE DEF g
    <3> QED
      BY <2>3, <3>1 DEF Iterates
  <2> QED
    BY <2>1, <2>4
<1> HIDE DEF S
<1>3. S = Nat
  <2>1. S \subseteq Nat
    BY DEF S
  <2> QED
    BY <1>1, <1>2, <2>1, SetInduction
<1>4. n \in S
  BY <1>3
<1> QED
  BY <1>4 DEF S


LEMMA NaturalIterations ==
  ASSUME NEW n \in Nat, NEW G, \A i \in 2 .. n : \A x \in Nat : G[<<i, x>>] \in Nat
  PROVE  \E f : Iterates(G, f, n) /\ \A i \in 1 .. n : f[i] \in Nat
<1>0. PICK f : Iterates(G, f, n)
  BY IterationsExist
<1>1. f = [i \in 1 .. n |-> IF i = 1 THEN 0 ELSE G[<<i, f[i - 1]>>]]
  BY <1>0 DEF Iterates
<1> DEFINE S == {m \in Nat : m + 1 \in 1 .. n => f[m + 1] \in Nat}
<1>2. 0 \in S
  BY <1>1
<1>3. ASSUME NEW m \in S PROVE m + 1 \in S
  <2>1. m \in Nat /\ (m + 1) + 1 = m + 2
    OBVIOUS
  <2>2. SUFFICES ASSUME m + 2 \in 1 .. n PROVE f[m + 2] \in Nat
    BY <2>1
  <2>3. m + 1 \in 1 .. n /\ m + 2 \in 2 .. n /\ m + 2 # 1 /\ (m + 2) - 1 = m + 1
    BY <2>1, <2>2
  <2>4. f[m + 1] \in Nat
    BY <2>3
  <2>5. f[m + 2] = G[<<m + 2, f[m + 1]>>]
    BY <1>1, <2>2, <2>3
  <2> QED
    BY <2>3, <2>4, <2>5
<1> HIDE DEF S
<1>4. S = Nat
  <2>1. S \subseteq Nat
    BY DEF S
  <2> QED
    BY <1>2, <1>3, <2>1, SetInduction
<1>5. ASSUME NEW i \in 1 .. n PROVE f[i] \in Nat
  <2>1. i - 1 \in S /\ (i - 1) + 1 = i
    BY <1>4
  <2> QED
    BY <2>1 DEF S
<1>6. \A i \in 1 .. n : f[i] \in Nat
  BY <1>5
<1> QED
  BY <1>0, <1>6

(* The outages seen by the two counters: none lasts longer than the longer *)
(* of the two, and each counter is that of an outage, or zero.             *)
Without(met, a, b) == \A i \in a .. b : i \notin met

RunsAreCounted(times, met, run, m) ==
  /\ run[m] \in Nat
  /\ \A a \in 2 .. m : Without(met, a, m) => times[m] - times[a - 1] <= run[m]
  /\ run[m] = 0 \/ \E a \in 2 .. m : /\ Without(met, a, m)
                                     /\ run[m] = times[m] - times[a - 1]

BestIsCounted(times, met, run, best, m) ==
  /\ best[m] \in Nat
  /\ \A b \in 2 .. m : \A a \in 2 .. b : Without(met, a, b) =>
       times[b] - times[a - 1] <= best[m] \/ times[b] - times[a - 1] <= run[m]
  /\ best[m] = 0 \/ \E b \in 2 .. m : \E a \in 2 .. b :
       Without(met, a, b) /\ best[m] = times[b] - times[a - 1]

LEMMA CountersStep ==
  ASSUME NEW times, NEW met, NEW run, NEW best, NEW m \in Nat \ {0},
         \A i \in 1 .. m + 1 : times[i] \in Nat, times[m] < times[m + 1],
         RunsAreCounted(times, met, run, m),
         BestIsCounted(times, met, run, best, m),
         run[m + 1] = IF m + 1 \in met THEN 0 ELSE run[m] + (times[m + 1] - times[m]),
         best[m + 1] = IF m + 1 \in met THEN IF best[m] >= run[m] THEN best[m] ELSE run[m]
                       ELSE best[m]
  PROVE  /\ RunsAreCounted(times, met, run, m + 1)
         /\ BestIsCounted(times, met, run, best, m + 1)
<1>1. run[m] \in Nat /\ best[m] \in Nat /\ times[m] \in Nat /\ times[m + 1] \in Nat
  BY DEF RunsAreCounted, BestIsCounted
<1>2. CASE m + 1 \in met
  <2>1. run[m + 1] = 0 /\ best[m + 1] = IF best[m] >= run[m] THEN best[m] ELSE run[m]
    BY <1>2
  <2>2. \A a \in 2 .. m + 1 : ~ Without(met, a, m + 1)
    BY <1>2 DEF Without
  <2>3. RunsAreCounted(times, met, run, m + 1)
    BY <2>1, <2>2 DEF RunsAreCounted
  <2>4. ASSUME NEW b \in 2 .. m + 1, NEW a \in 2 .. b, Without(met, a, b)
        PROVE  times[b] - times[a - 1] <= best[m + 1]
    <3>1. b \in 2 .. m
      BY <2>2, <2>4
    <3>2. times[b] - times[a - 1] <= best[m] \/ times[b] - times[a - 1] <= run[m]
      BY <2>4, <3>1 DEF BestIsCounted
    <3>3. times[b] \in Nat /\ times[a - 1] \in Nat
      <4>1. a - 1 \in 1 .. m + 1 /\ b \in 1 .. m + 1
        BY <3>1
      <4> QED
        BY <4>1
    <3> QED
      BY <1>1, <2>1, <3>2, <3>3
  <2>5. best[m + 1] = 0 \/ \E b \in 2 .. m + 1 : \E a \in 2 .. b :
          Without(met, a, b) /\ best[m + 1] = times[b] - times[a - 1]
    <3>1. CASE best[m + 1] = best[m]
      <4>1. best[m] = 0 \/ \E b \in 2 .. m : \E a \in 2 .. b :
              Without(met, a, b) /\ best[m] = times[b] - times[a - 1]
        BY DEF BestIsCounted
      <4>2. 2 .. m \subseteq 2 .. m + 1
        OBVIOUS
      <4> QED
        BY <3>1, <4>1, <4>2
    <3>2. CASE best[m + 1] = run[m] /\ run[m] # 0
      <4>1. PICK a \in 2 .. m : Without(met, a, m) /\ run[m] = times[m] - times[a - 1]
        BY <3>2 DEF RunsAreCounted
      <4>2. m \in 2 .. m + 1
        BY <4>1
      <4> QED
        BY <3>2, <4>1, <4>2
    <3> QED
      BY <1>1, <2>1, <3>1, <3>2
  <2>6. best[m + 1] \in Nat
    BY <1>1, <2>1
  <2> QED
    BY <2>3, <2>4, <2>5, <2>6 DEF BestIsCounted
<1>3. CASE m + 1 \notin met
  <2>1. run[m + 1] = run[m] + (times[m + 1] - times[m]) /\ best[m + 1] = best[m]
    BY <1>3
  <2>2. run[m + 1] \in Nat /\ run[m] <= run[m + 1] /\ times[m + 1] - times[m] <= run[m + 1]
    BY <1>1, <2>1
  <2>3. ASSUME NEW a \in 2 .. m + 1, Without(met, a, m + 1)
        PROVE  times[m + 1] - times[a - 1] <= run[m + 1]
    <3>1. CASE a = m + 1
      BY <1>1, <2>2, <3>1
    <3>2. CASE a # m + 1
      <4>1. a \in 2 .. m /\ a - 1 \in 1 .. m + 1 /\ a .. m \subseteq a .. m + 1
        BY <3>2
      <4>2. Without(met, a, m)
        BY <2>3, <4>1 DEF Without
      <4>3. times[m] - times[a - 1] <= run[m]
        BY <4>1, <4>2 DEF RunsAreCounted
      <4>4. times[a - 1] \in Nat
        BY <4>1
      <4> QED
        BY <1>1, <2>1, <4>3, <4>4
    <3> QED
      BY <3>1, <3>2
  <2>4. \E a \in 2 .. m + 1 : /\ Without(met, a, m + 1)
                              /\ run[m + 1] = times[m + 1] - times[a - 1]
    <3>1. CASE run[m] = 0
      <4>1. m + 1 \in 2 .. m + 1 /\ (m + 1) - 1 = m /\ (m + 1) .. (m + 1) = {m + 1}
        OBVIOUS
      <4>2. Without(met, m + 1, m + 1)
        BY <1>3, <4>1 DEF Without
      <4>3. run[m + 1] = times[m + 1] - times[m]
        BY <1>1, <2>1, <3>1
      <4> QED
        BY <4>1, <4>2, <4>3
    <3>2. CASE run[m] # 0
      <4>1. PICK a \in 2 .. m : Without(met, a, m) /\ run[m] = times[m] - times[a - 1]
        BY <3>2 DEF RunsAreCounted
      <4>2. a \in 2 .. m + 1 /\ a - 1 \in 1 .. m + 1 /\ a .. m + 1 = (a .. m) \cup {m + 1}
        BY <4>1
      <4>3. Without(met, a, m + 1)
        BY <1>3, <4>1, <4>2 DEF Without
      <4>4. times[a - 1] \in Nat
        BY <4>2
      <4>5. run[m + 1] = times[m + 1] - times[a - 1]
        BY <1>1, <2>1, <4>1, <4>4
      <4> QED
        BY <4>2, <4>3, <4>5
    <3> QED
      BY <3>1, <3>2
  <2>5. RunsAreCounted(times, met, run, m + 1)
    BY <2>2, <2>3, <2>4 DEF RunsAreCounted
  <2>6. ASSUME NEW b \in 2 .. m + 1, NEW a \in 2 .. b, Without(met, a, b)
        PROVE  \/ times[b] - times[a - 1] <= best[m + 1]
               \/ times[b] - times[a - 1] <= run[m + 1]
    <3>1. CASE b = m + 1
      BY <2>3, <2>6, <3>1
    <3>2. CASE b # m + 1
      <4>1. b \in 2 .. m /\ a - 1 \in 1 .. m + 1 /\ b \in 1 .. m + 1
        BY <3>2
      <4>2. times[b] - times[a - 1] <= best[m] \/ times[b] - times[a - 1] <= run[m]
        BY <2>6, <4>1 DEF BestIsCounted
      <4>3. times[b] \in Nat /\ times[a - 1] \in Nat
        BY <4>1
      <4> QED
        BY <1>1, <2>1, <2>2, <4>2, <4>3
    <3> QED
      BY <3>1, <3>2
  <2>7. best[m + 1] = 0 \/ \E b \in 2 .. m + 1 : \E a \in 2 .. b :
          Without(met, a, b) /\ best[m + 1] = times[b] - times[a - 1]
    <3>1. best[m] = 0 \/ \E b \in 2 .. m : \E a \in 2 .. b :
            Without(met, a, b) /\ best[m] = times[b] - times[a - 1]
      BY DEF BestIsCounted
    <3>2. 2 .. m \subseteq 2 .. m + 1
      OBVIOUS
    <3> QED
      BY <2>1, <3>1, <3>2
  <2> QED
    BY <1>1, <2>1, <2>5, <2>6, <2>7 DEF BestIsCounted
<1> QED
  BY <1>2, <1>3


LEMMA CountersHold ==
  ASSUME NEW n \in Nat \ {0}, NEW times, NEW met, NEW run, NEW best,
         \A i \in 1 .. n : times[i] \in Nat,
         \A i \in 2 .. n : times[i - 1] < times[i],
         \A i \in 1 .. n :
           /\ run[i] = IF i = 1 \/ i \in met THEN 0
                       ELSE run[i - 1] + (times[i] - times[i - 1])
           /\ best[i] = IF i = 1 THEN 0
                        ELSE IF i \in met
                          THEN IF best[i - 1] >= run[i - 1] THEN best[i - 1] ELSE run[i - 1]
                        ELSE best[i - 1]
  PROVE  RunsAreCounted(times, met, run, n) /\ BestIsCounted(times, met, run, best, n)
<1> DEFINE S == {m \in Nat : m + 1 \in 1 .. n =>
                   /\ RunsAreCounted(times, met, run, m + 1)
                   /\ BestIsCounted(times, met, run, best, m + 1)}
<1>1. 0 \in S
  <2>1. run[1] = 0 /\ best[1] = 0 /\ 2 .. 1 = {} /\ 0 + 1 = 1
    OBVIOUS
  <2>2. RunsAreCounted(times, met, run, 1) /\ BestIsCounted(times, met, run, best, 1)
    BY <2>1 DEF RunsAreCounted, BestIsCounted
  <2> QED
    BY <2>1, <2>2
<1>2. ASSUME NEW m \in S PROVE m + 1 \in S
  <2>1. m \in Nat /\ (m + 1) + 1 = m + 2
    OBVIOUS
  <2>2. SUFFICES ASSUME m + 2 \in 1 .. n
                 PROVE  /\ RunsAreCounted(times, met, run, m + 2)
                        /\ BestIsCounted(times, met, run, best, m + 2)
    BY <2>1
  <2> DEFINE l == m + 1
  <2>3. /\ l \in Nat \ {0} /\ l + 1 = m + 2 /\ l \in 1 .. n /\ l + 1 \in 2 .. n
        /\ l + 1 \in 1 .. n /\ l + 1 # 1 /\ (l + 1) - 1 = l
    BY <2>1, <2>2
  <2>4. RunsAreCounted(times, met, run, l) /\ BestIsCounted(times, met, run, best, l)
    BY <2>3
  <2> HIDE DEF S, l
  <2>5. /\ \A i \in 1 .. l + 1 : times[i] \in Nat
        /\ times[l] < times[l + 1]
    <3>1. \A i \in 1 .. l + 1 : i \in 1 .. n
      BY <2>3
    <3> QED
      BY <2>3, <3>1
  <2>6. run[l + 1] = IF l + 1 \in met THEN 0 ELSE run[l] + (times[l + 1] - times[l])
    BY <2>3
  <2>7. best[l + 1] = IF l + 1 \in met THEN IF best[l] >= run[l] THEN best[l] ELSE run[l]
                      ELSE best[l]
    BY <2>3
  <2> QED
    BY <2>3, <2>4, <2>5, <2>6, <2>7, CountersStep
<1> HIDE DEF S
<1>3. S = Nat
  <2>1. S \subseteq Nat
    BY DEF S
  <2> QED
    BY <1>1, <1>2, <2>1, SetInduction
<1>4. n - 1 \in S /\ (n - 1) + 1 = n
  BY <1>3
<1> QED
  BY <1>4 DEF S

LEMMA MaxOfTwo ==
  ASSUME NEW a \in Nat, NEW b \in Nat
  PROVE  Max({a, b}) = IF a >= b THEN a ELSE b
<1>1. CASE a >= b
  <2>1. Max({a, b}) = a
    BY <1>1, MaxIs
  <2> QED
    BY <1>1, <2>1
<1>2. CASE ~ (a >= b)
  <2>1. Max({a, b}) = b
    BY <1>2, MaxIs
  <2> QED
    BY <1>2, <2>1
<1> QED
  BY <1>1, <1>2

(* The counters of the code are such functions of the recorded rows.       *)
LEMMA SEDTIs ==
  ASSUME IInv, EventInv, RecordInv, Finished
  PROVE  /\ SEDT = [i \in 1 .. Len(timeAndFlows) |->
                      IF i = 1 \/ AllLoadsMet(i) THEN 0 ELSE SEDT[i - 1] + Elapsed(i)]
         /\ \A i \in 1 .. Len(timeAndFlows) : SEDT[i] \in Nat
<1> DEFINE N == Len(timeAndFlows)
           G == [p \in (2 .. N) \X Nat |->
                   IF AllLoadsMet(p[1]) THEN 0 ELSE p[2] + Elapsed(p[1])]
           Counts(f) == f = [i \in 1 .. N |->
                          IF i = 1 \/ AllLoadsMet(i) THEN 0 ELSE f[i - 1] + Elapsed(i)]
<1>1. N \in Nat \ {0} /\ \A i \in 2 .. N : Elapsed(i) \in Nat
  BY IntervalFacts
<1>2. \A i \in 2 .. N : \A x \in Nat :
        G[<<i, x>>] = IF AllLoadsMet(i) THEN 0 ELSE x + Elapsed(i)
  OBVIOUS
<1> HIDE DEF N, G
<1>3. ASSUME NEW i \in 2 .. N, NEW x \in Nat PROVE G[<<i, x>>] \in Nat
  <2>1. Elapsed(i) \in Nat
    BY <1>1
  <2>2. G[<<i, x>>] = IF AllLoadsMet(i) THEN 0 ELSE x + Elapsed(i)
    BY <1>2
  <2> QED
    BY <2>1, <2>2
<1>0. PICK f : Iterates(G, f, N) /\ \A i \in 1 .. N : f[i] \in Nat
  BY <1>1, <1>3, NaturalIterations
<1>4. /\ f = [i \in 1 .. N |-> IF i = 1 THEN 0 ELSE G[<<i, f[i - 1]>>]]
      /\ \A i \in 1 .. N : f[i] \in Nat
  BY <1>0 DEF Iterates
<1>5. ASSUME NEW i \in 1 .. N
      PROVE  f[i] = IF i = 1 \/ AllLoadsMet(i) THEN 0 ELSE f[i - 1] + Elapsed(i)
  <2>1. CASE i = 1
    BY <1>4, <2>1
  <2>2. CASE i # 1
    <3>1. i \in 2 .. N /\ i - 1 \in 1 .. N
      BY <1>1, <2>2
    <3>2. f[i] = G[<<i, f[i - 1]>>] /\ f[i - 1] \in Nat
      BY <1>4, <2>2, <3>1
    <3> QED
      BY <1>2, <2>2, <3>1, <3>2
  <2> QED
    BY <2>1, <2>2
<1>6. Counts(f)
  <2>1. f = [i \in 1 .. N |-> f[i]]
    BY <1>4
  <2> QED
    BY <1>5, <2>1
<1>7. SEDT = CHOOSE g : Counts(g)
  BY DEF SEDT, N
<1> HIDE DEF Counts
<1>8. Counts(SEDT)
  BY <1>6, <1>7
<1>9. SEDT = [i \in 1 .. N |-> IF i = 1 \/ AllLoadsMet(i) THEN 0 ELSE SEDT[i - 1] + Elapsed(i)]
  BY <1>8 DEF Counts
<1> DEFINE S == {m \in Nat : m + 1 \in 1 .. N => SEDT[m + 1] \in Nat}
<1>10. 0 \in S
  BY <1>1, <1>9
<1>11. ASSUME NEW m \in S PROVE m + 1 \in S
  <2>1. m \in Nat /\ (m + 1) + 1 = m + 2
    OBVIOUS
  <2>2. SUFFICES ASSUME m + 2 \in 1 .. N PROVE SEDT[m + 2] \in Nat
    BY <2>1
  <2>3. m + 1 \in 1 .. N /\ m + 2 \in 2 .. N /\ m + 2 # 1 /\ (m + 2) - 1 = m + 1
    BY <1>1, <2>1, <2>2
  <2>4. SEDT[m + 1] \in Nat /\ Elapsed(m + 2) \in Nat
    BY <1>1, <2>3
  <2>5. SEDT[m + 2] = IF AllLoadsMet(m + 2) THEN 0 ELSE SEDT[m + 1] + Elapsed(m + 2)
    BY <1>9, <2>2, <2>3
  <2> QED
    BY <2>4, <2>5
<1> HIDE DEF S
<1>12. S = Nat
  <2>1. S \subseteq Nat
    BY DEF S
  <2> QED
    BY <1>10, <1>11, <2>1, SetInduction
<1>13. ASSUME NEW i \in 1 .. N PROVE SEDT[i] \in Nat
  <2>1. i - 1 \in S /\ (i - 1) + 1 = i
    BY <1>1, <1>12
  <2> QED
    BY <2>1 DEF S
<1> QED
  BY <1>9, <1>13 DEF N


LEMMA LongestEndedIs ==
  ASSUME IInv, EventInv, RecordInv, Finished
  PROVE  LET Larger(a, b) == IF a >= b THEN a ELSE b
         IN  /\ LongestEnded = [i \in 1 .. Len(timeAndFlows) |->
                  IF i = 1 THEN 0
                  ELSE IF AllLoadsMet(i) THEN Max({LongestEnded[i - 1], SEDT[i - 1]})
                  ELSE LongestEnded[i - 1]]
             /\ \A i \in 2 .. Len(timeAndFlows) :
                  LongestEnded[i] = IF AllLoadsMet(i)
                                      THEN Larger(LongestEnded[i - 1], SEDT[i - 1])
                                      ELSE LongestEnded[i - 1]
<1> DEFINE N == Len(timeAndFlows)
           Larger(a, b) == IF a >= b THEN a ELSE b
           G == [p \in (2 .. N) \X Nat |->
                   IF AllLoadsMet(p[1]) THEN Max({p[2], SEDT[p[1] - 1]}) ELSE p[2]]
           Longest(f) == f = [i \in 1 .. N |->
                           IF i = 1 THEN 0
                           ELSE IF AllLoadsMet(i) THEN Max({f[i - 1], SEDT[i - 1]})
                           ELSE f[i - 1]]
<1>1. N \in Nat \ {0} /\ \A i \in 1 .. N : SEDT[i] \in Nat
  BY IntervalFacts, SEDTIs
<1>2. \A i \in 2 .. N : \A x \in Nat :
        G[<<i, x>>] = IF AllLoadsMet(i) THEN Max({x, SEDT[i - 1]}) ELSE x
  OBVIOUS
<1> HIDE DEF N, G
<1>3. ASSUME NEW i \in 2 .. N, NEW x \in Nat PROVE G[<<i, x>>] \in Nat
  <2>1. SEDT[i - 1] \in Nat
    BY <1>1
  <2>2. Max({x, SEDT[i - 1]}) \in Nat
    BY <2>1, MaxOfTwo
  <2> QED
    BY <1>2, <2>2
<1>0. PICK f : Iterates(G, f, N) /\ \A i \in 1 .. N : f[i] \in Nat
  BY <1>1, <1>3, NaturalIterations
<1>4. /\ f = [i \in 1 .. N |-> IF i = 1 THEN 0 ELSE G[<<i, f[i - 1]>>]]
      /\ \A i \in 1 .. N : f[i] \in Nat
  BY <1>0 DEF Iterates
<1>5. ASSUME NEW i \in 1 .. N
      PROVE  f[i] = IF i = 1 THEN 0
                    ELSE IF AllLoadsMet(i) THEN Max({f[i - 1], SEDT[i - 1]})
                    ELSE f[i - 1]
  <2>1. CASE i = 1
    BY <1>4, <2>1
  <2>2. CASE i # 1
    <3>1. i \in 2 .. N /\ i - 1 \in 1 .. N
      BY <1>1, <2>2
    <3>2. f[i] = G[<<i, f[i - 1]>>] /\ f[i - 1] \in Nat
      BY <1>4, <2>2, <3>1
    <3> QED
      BY <1>2, <2>2, <3>1, <3>2
  <2> QED
    BY <2>1, <2>2
<1>6. Longest(f)
  <2>1. f = [i \in 1 .. N |-> f[i]]
    BY <1>4
  <2> QED
    BY <1>5, <2>1
<1>7. LongestEnded = CHOOSE g : Longest(g)
  BY DEF LongestEnded, N
<1> HIDE DEF Longest
<1>8. Longest(LongestEnded)
  BY <1>6, <1>7
<1>9. LongestEnded = [i \in 1 .. N |->
        IF i = 1 THEN 0
        ELSE IF AllLoadsMet(i) THEN Max({LongestEnded[i - 1], SEDT[i - 1]})
        ELSE LongestEnded[i - 1]]
  BY <1>8 DEF Longest
<1> DEFINE S == {m \in Nat : m + 1 \in 1 .. N => LongestEnded[m + 1] \in Nat}
<1>10. 0 \in S
  BY <1>1, <1>9
<1>11. ASSUME NEW m \in S PROVE m + 1 \in S
  <2>1. m \in Nat /\ (m + 1) + 1 = m + 2
    OBVIOUS
  <2>2. SUFFICES ASSUME m + 2 \in 1 .. N PROVE LongestEnded[m + 2] \in Nat
    BY <2>1
  <2>3. m + 1 \in 1 .. N /\ m + 2 \in 2 .. N /\ m + 2 # 1 /\ (m + 2) - 1 = m + 1
    BY <1>1, <2>1, <2>2
  <2>4. LongestEnded[m + 1] \in Nat /\ SEDT[m + 1] \in Nat
    BY <1>1, <2>3
  <2>5. Max({LongestEnded[m + 1], SEDT[m + 1]}) \in Nat
    BY <2>4, MaxOfTwo
  <2>6. LongestEnded[m + 2] = IF AllLoadsMet(m + 2)
                                THEN Max({LongestEnded[m + 1], SEDT[m + 1]})
                                ELSE LongestEnded[m + 1]
    BY <1>9, <2>2, <2>3
  <2> QED
    BY <2>4, <2>5, <2>6
<1> HIDE DEF S
<1>12. S = Nat
  <2>1. S \subseteq Nat
    BY DEF S
  <2> QED
    BY <1>10, <1>11, <2>1, SetInduction
<1>13. ASSUME NEW i \in 1 .. N PROVE LongestEnded[i] \in Nat
  <2>1. i - 1 \in S /\ (i - 1) + 1 = i
    BY <1>1, <1>12
  <2> QED
    BY <2>1 DEF S
<1>14. ASSUME NEW i \in 2 .. N
       PROVE  LongestEnded[i] = IF AllLoadsMet(i)
                                  THEN Larger(LongestEnded[i - 1], SEDT[i - 1])
                                  ELSE LongestEnded[i - 1]
  <2>1. i \in 1 .. N /\ i # 1 /\ i - 1 \in 1 .. N
    BY <1>1
  <2>2. LongestEnded[i] = IF AllLoadsMet(i)
                            THEN Max({LongestEnded[i - 1], SEDT[i - 1]})
                            ELSE LongestEnded[i - 1]
    BY <1>9, <2>1
  <2>3. Max({LongestEnded[i - 1], SEDT[i - 1]}) = Larger(LongestEnded[i - 1], SEDT[i - 1])
    BY <1>1, <1>13, <2>1, MaxOfTwo
  <2> QED
    BY <2>2, <2>3
<1> QED
  BY <1>9, <1>14 DEF N

LEMMA LongestOutage ==
  ASSUME IInv, EventInv, RecordInv, Finished
  PROVE  MaxSEDT = Max({0} \cup {timeAndFlows[s[2]].time - timeAndFlows[s[1] - 1].time :
                                   s \in Stretches})
<1> DEFINE N     == Len(timeAndFlows)
           times == [i \in 1 .. N |-> timeAndFlows[i].time]
           met   == {i \in 2 .. N : AllLoadsMet(i)}
           Lasting(s) == timeAndFlows[s[2]].time - timeAndFlows[s[1] - 1].time
           all   == {0} \cup {Lasting(s) : s \in Stretches}
           Larger(a, b) == IF a >= b THEN a ELSE b
<1>1. /\ N \in Nat \ {0} /\ Intervals = 2 .. N
      /\ \A i \in 2 .. N : /\ i \in 1 .. N /\ i - 1 \in 1 .. N
                           /\ Elapsed(i) \in Nat \ {0}
  BY IntervalFacts
<1>2. \A i \in 1 .. N : times[i] \in Nat /\ times[i] = timeAndFlows[i].time
  BY FinishedRecord
<1>3. \A i \in 2 .. N : Elapsed(i) = times[i] - times[i - 1]
  BY <1>1 DEF Elapsed
<1>4. \A i \in 1 .. N : SEDT[i] = IF i = 1 \/ i \in met THEN 0
                                  ELSE SEDT[i - 1] + (times[i] - times[i - 1])
  <2>1. \A i \in 1 .. N : SEDT[i] = IF i = 1 \/ AllLoadsMet(i) THEN 0
                                    ELSE SEDT[i - 1] + Elapsed(i)
    BY SEDTIs
  <2>2. \A i \in 1 .. N : i = 1 \/ i \in 2 .. N
    OBVIOUS
  <2> HIDE DEF N, times
  <2> QED
    BY <1>3, <2>1, <2>2
<1>5. \A i \in 1 .. N : LongestEnded[i] = IF i = 1 THEN 0
                          ELSE IF i \in met THEN Larger(LongestEnded[i - 1], SEDT[i - 1])
                          ELSE LongestEnded[i - 1]
  <2>0. LongestEnded = [i \in 1 .. N |->
          IF i = 1 THEN 0
          ELSE IF AllLoadsMet(i) THEN Max({LongestEnded[i - 1], SEDT[i - 1]})
          ELSE LongestEnded[i - 1]]
    BY LongestEndedIs
  <2>1. LongestEnded[1] = 0
    <3>1. 1 \in 1 .. N
      BY <1>1
    <3> HIDE DEF N
    <3> QED
      BY <2>0, <3>1
  <2>2. \A i \in 2 .. N :
          LongestEnded[i] = IF AllLoadsMet(i)
                              THEN Larger(LongestEnded[i - 1], SEDT[i - 1])
                              ELSE LongestEnded[i - 1]
    BY LongestEndedIs
  <2>3. \A i \in 1 .. N : i = 1 \/ i \in 2 .. N
    OBVIOUS
  <2> HIDE DEF N
  <2> QED
    BY <2>1, <2>2, <2>3
<1>6. MaxSEDT = Max({LongestEnded[N], SEDT[N]})
  BY DEF MaxSEDT
<1>7. \A s : s \in Stretches <=>
        s \in (2 .. N) \X (2 .. N) /\ s[1] <= s[2] /\ \A i \in s[1] .. s[2] : ~ AllLoadsMet(i)
  BY <1>1 DEF Stretches
<1> HIDE DEF N, times, met
<1>8. \A i \in 2 .. N : times[i - 1] < times[i]
  <2> TAKE i \in 2 .. N
  <2>1. Elapsed(i) \in Nat \ {0} /\ times[i] \in Nat /\ times[i - 1] \in Nat
    BY <1>1, <1>2
  <2> QED
    BY <1>3, <2>1
<1>9. RunsAreCounted(times, met, SEDT, N) /\ BestIsCounted(times, met, SEDT, LongestEnded, N)
  BY <1>1, <1>2, <1>4, <1>5, <1>8, CountersHold
<1>10. ASSUME NEW a \in 2 .. N, NEW b \in 2 .. N, a <= b
       PROVE  /\ <<a, b>> \in Stretches <=> Without(met, a, b)
              /\ Lasting(<<a, b>>) = times[b] - times[a - 1]
  <2>1. b \in 1 .. N /\ a - 1 \in 1 .. N /\ a .. b \subseteq 2 .. N
    BY <1>1
  <2>2. \A i \in a .. b : i \in met <=> AllLoadsMet(i)
    BY <2>1 DEF met
  <2>3. <<a, b>> \in Stretches <=> \A i \in a .. b : ~ AllLoadsMet(i)
    BY <1>7, <1>10
  <2>4. Lasting(<<a, b>>) = times[b] - times[a - 1]
    BY <1>2, <2>1
  <2> QED
    BY <2>2, <2>3, <2>4 DEF Without
<1> DEFINE le   == LongestEnded[N]
           run  == SEDT[N]
           most == Larger(le, run)
<1>11. le \in Nat /\ run \in Nat /\ most \in Nat
  BY <1>9 DEF RunsAreCounted, BestIsCounted
<1>12. \A y \in all : y \in Int /\ y <= most
  <2> SUFFICES ASSUME NEW s \in Stretches PROVE Lasting(s) \in Int /\ Lasting(s) <= most
    BY <1>11
  <2>1. PICK a \in 2 .. N, b \in 2 .. N : s = <<a, b>> /\ a <= b
    BY <1>7
  <2>2. Without(met, a, b) /\ Lasting(s) = times[b] - times[a - 1]
    BY <1>10, <2>1
  <2>3. times[b] - times[a - 1] <= le \/ times[b] - times[a - 1] <= run
    <3>1. a \in 2 .. b
      BY <2>1
    <3> QED
      BY <1>9, <2>2, <3>1 DEF BestIsCounted
  <2>4. times[b] \in Nat /\ times[a - 1] \in Nat
    BY <1>1, <1>2
  <2> HIDE DEF Lasting, le, run
  <2> QED
    BY <1>11, <2>2, <2>3, <2>4
<1>13. most \in all
  <2>1. run \in all
    <3>1. CASE run = 0
      BY <3>1
    <3>2. CASE run # 0
      <4>1. PICK a \in 2 .. N : Without(met, a, N) /\ run = times[N] - times[a - 1]
        BY <1>9, <3>2 DEF RunsAreCounted
      <4>2. N \in 2 .. N /\ a <= N
        BY <1>1, <4>1
      <4>3. <<a, N>> \in Stretches /\ run = Lasting(<<a, N>>)
        BY <1>10, <4>1, <4>2
      <4> HIDE DEF Lasting
      <4> QED
        BY <4>3
    <3> QED
      BY <3>1, <3>2
  <2>2. le \in all
    <3>1. CASE le = 0
      BY <3>1
    <3>2. CASE le # 0
      <4>0. PICK b \in 2 .. N : \E a \in 2 .. b :
              Without(met, a, b) /\ le = times[b] - times[a - 1]
        BY <1>9, <3>2 DEF BestIsCounted
      <4>1. PICK a \in 2 .. b : Without(met, a, b) /\ le = times[b] - times[a - 1]
        BY <4>0
      <4>2. a \in 2 .. N /\ a <= b
        BY <1>1, <4>1
      <4>3. <<a, b>> \in Stretches /\ le = Lasting(<<a, b>>)
        BY <1>10, <4>1, <4>2
      <4> HIDE DEF Lasting
      <4> QED
        BY <4>3
    <3> QED
      BY <3>1, <3>2
  <2> HIDE DEF le, run, all
  <2> QED
    BY <2>1, <2>2
<1>14. Max({le, run}) = most
  BY <1>11, MaxOfTwo
<1>15. Max(all) = most
  <2> HIDE DEF all, most
  <2>1. all \subseteq Int
    BY <1>12
  <2> QED
    BY <1>12, <1>13, <2>1, MaxIs
<1> QED
  BY <1>6, <1>14, <1>15

(* The statistics of a run that has ended account for every outage: the    *)
(* loads are up or down for the whole duration; what any of them asked for *)
(* is what they got and what they went without, and they went without      *)
(* exactly when they were not up all the time; and the longest outage is   *)
(* that of the longest stretch of rows with a load unserved, also when it  *)
(* is the last and never ends - unless the solver is ever cut short.       *)
THEOREM OutagesAddUp ==
  ASSUME EveryChangeIsTold, ConvertersAreWired, ScheduledLoadsDoNotFail
  PROVE  Spec /\ [](~ CutShort) => []OutagesAreAccountedFor
<1>1. IInv /\ EventInv /\ RecordInv /\ LoadsTakeNoMore => OutagesAreAccountedFor
  <2> SUFFICES ASSUME IInv, EventInv, RecordInv, LoadsTakeNoMore, Finished
               PROVE  OutagesAreAccountedFor
    BY DEF OutagesAreAccountedFor
  <2>1. Uptime(LoadConns) + Downtime = FinalTime
    BY UpAndDown, DowntimeIsLost
  <2>2. ASSUME NEW conns \in SUBSET LoadConns
        PROVE  /\ EnergyRequested(conns) = EnergyActual(conns) + LoadNotServed(conns)
               /\ LoadNotServed(conns) = 0 <=> Uptime(conns) = FinalTime
               /\ Uptime(conns) >= Uptime(LoadConns)
    <3>1. /\ Uptime(conns) \in Nat /\ Lost(conns) \in Nat /\ FinalTime \in Nat
          /\ Uptime(conns) + Lost(conns) = FinalTime
      BY UpAndDown
    <3>2. /\ Uptime(LoadConns) \in Nat /\ Lost(LoadConns) \in Nat
          /\ Uptime(LoadConns) + Lost(LoadConns) = FinalTime
      BY UpAndDown
    <3>3. Lost(conns) <= Lost(LoadConns)
      BY LostGrows
    <3>4. /\ EnergyRequested(conns) = EnergyActual(conns) + LoadNotServed(conns)
          /\ LoadNotServed(conns) = 0 <=> Lost(conns) = 0
      BY LoadsAddUp, NothingLost
    <3> QED
      BY <3>1, <3>2, <3>3, <3>4
  <2> QED
    BY <2>1, <2>2, LongestOutage DEF OutagesAreAccountedFor
<1> QED
  BY <1>1, IInvHolds, EventInvHolds, RecordInvHolds, LoadsTakeNoMoreHolds, PTL


-----------------------------------------------------------------------------
(* The energy balance.  Adding up by rows and by columns.                  *)
LEMMA SumSwap ==
  ASSUME NEW A, NatSet(A), NEW B, NatSet(B),
         NEW g, \A a \in A : \A b \in B : g[<<a, b>>] \in Int
  PROVE  Sum([a \in A |-> Sum([b \in B |-> g[<<a, b>>]], B)], A)
           = Sum([b \in B |-> Sum([a \in A |-> g[<<a, b>>]], A)], B)
<1> DEFINE row    == [a \in A |-> Sum([b \in B |-> g[<<a, b>>]], B)]
           col(T) == [b \in B |-> Sum([a \in A |-> g[<<a, b>>]], T)]
           P == {T \in SUBSET A : Sum(row, T) = Sum(col(T), B)}
<1>1. {} \in P
  <2>1. \A b \in B : col({})[b] = 0
    BY SumEmpty
  <2>2. Sum(row, {}) = 0
    BY SumEmpty
  <2> HIDE DEF row, col
  <2>3. Sum(col({}), B) = 0
    BY <2>1, SumOfNothing
  <2> QED
    BY <2>2, <2>3
<1>2. ASSUME NEW T \in SUBSET A, NEW m \in A \ T, T \in P, \A j \in T : j < m
      PROVE  T \cup {m} \in P
  <2>1. NatSet(T) /\ m \in Nat
    BY FS_Subset DEF NatSet
  <2>2. Sum(row, T \cup {m}) = Sum(row, T) + row[m]
    BY <1>2, <2>1, SumTop
  <2> DEFINE mrow == [b \in B |-> g[<<m, b>>]]
  <2>3. row[m] = Sum(mrow, B)
    OBVIOUS
  <2>4. ASSUME NEW b \in B
        PROVE  /\ col(T)[b] \in Int /\ mrow[b] \in Int
               /\ col(T \cup {m})[b] = col(T)[b] + mrow[b]
    <3> DEFINE h == [a \in A |-> g[<<a, b>>]]
    <3>1. Sum(h, T \cup {m}) = Sum(h, T) + h[m]
      BY <1>2, <2>1, SumTop
    <3>2. \A k \in T : h[k] \in Int
      OBVIOUS
    <3>3. h[m] = mrow[b] /\ mrow[b] \in Int
      OBVIOUS
    <3>4. col(T)[b] = Sum(h, T) /\ col(T \cup {m})[b] = Sum(h, T \cup {m})
      OBVIOUS
    <3> HIDE DEF h, col, mrow
    <3>5. Sum(h, T) \in Int
      BY <2>1, <3>2, SumType
    <3> QED
      BY <3>1, <3>3, <3>4, <3>5
  <2>5. Sum(row, T) = Sum(col(T), B)
    BY <1>2
  <2> HIDE DEF row, col, mrow
  <2>6. Sum(col(T \cup {m}), B) = Sum(col(T), B) + Sum(mrow, B)
    BY <2>4, SumOfSums
  <2>7. Sum(row, T \cup {m}) = Sum(col(T \cup {m}), B)
    BY <2>2, <2>3, <2>5, <2>6
  <2> QED
    BY <2>7
<1> HIDE DEF P
<1>3. A \in P
  BY <1>1, <1>2, SetsGrow
<1>4. Sum(row, A) = Sum(col(A), B)
  BY <1>3 DEF P
<1> QED
  BY <1>4

(* Things added up by what they belong to.                                 *)
LEMMA SumByOwner ==
  ASSUME NEW C, NatSet(C), NEW K, NatSet(K), NEW own,
         NEW f, \A k \in K : f[k] \in Int
  PROVE  Sum([c \in C |-> Sum(f, {k \in K : own[k] = c})], C)
           = Sum(f, {k \in K : own[k] \in C})
<1> DEFINE of(c) == {k \in K : own[k] = c}
           each  == [c \in C |-> Sum(f, of(c))]
           all(T) == {k \in K : own[k] \in T}
           P == {T \in SUBSET C : Sum(each, T) = Sum(f, all(T))}
<1>1. {} \in P
  <2>1. all({}) = {}
    OBVIOUS
  <2> QED
    BY <2>1, SumEmpty
<1>2. ASSUME NEW T \in SUBSET C, NEW m \in C \ T, T \in P, \A j \in T : j < m
      PROVE  T \cup {m} \in P
  <2>1. NatSet(T) /\ m \in Nat
    BY FS_Subset DEF NatSet
  <2>2. Sum(each, T \cup {m}) = Sum(each, T) + each[m]
    BY <1>2, <2>1, SumTop
  <2>3. each[m] = Sum(f, of(m))
    OBVIOUS
  <2>4. /\ all(T \cup {m}) = all(T) \cup of(m) /\ all(T) \cap of(m) = {}
        /\ all(T) \subseteq K /\ of(m) \subseteq K
    OBVIOUS
  <2>5. Sum(each, T) = Sum(f, all(T))
    BY <1>2
  <2> HIDE DEF all, of, each
  <2>6. NatSet(all(T)) /\ NatSet(of(m))
    BY <2>4, PartsOfSets
  <2>7. Sum(f, all(T) \cup of(m)) = Sum(f, all(T)) + Sum(f, of(m))
    <3>1. \A k \in all(T) \cup of(m) : f[k] \in Int
      BY <2>4
    <3> QED
      BY <2>4, <2>6, <3>1, SumOfUnion
  <2>8. Sum(each, T \cup {m}) = Sum(f, all(T \cup {m}))
    BY <2>2, <2>3, <2>4, <2>5, <2>7
  <2> QED
    BY <2>8
<1> HIDE DEF P
<1>3. C \in P
  BY <1>1, <1>2, SetsGrow
<1>4. Sum(each, C) = Sum(f, all(C))
  BY <1>3 DEF P
<1> QED
  BY <1>4

(* As many times the same.                                                 *)
LEMMA SumOfSame ==
  ASSUME NEW S, NatSet(S), NEW x \in Int, NEW f, \A k \in S : f[k] = x
  PROVE  Sum(f, S) = Cardinality(S) * x
<1> DEFINE P == {T \in SUBSET S : Sum(f, T) = Cardinality(T) * x}
<1>1. {} \in P
  <2>1. Cardinality({}) = 0 /\ Sum(f, {}) = 0
    BY FS_EmptySet, SumEmpty
  <2> QED
    BY <2>1
<1>2. ASSUME NEW T \in SUBSET S, NEW m \in S \ T, T \in P, \A j \in T : j < m
      PROVE  T \cup {m} \in P
  <2>1. NatSet(T) /\ m \in Nat
    BY FS_Subset DEF NatSet
  <2>2. Sum(f, T \cup {m}) = Sum(f, T) + x
    <3>1. (\A k \in T \cup {m} : f[k] \in Int) /\ f[m] = x
      OBVIOUS
    <3> HIDE DEF P
    <3>2. Sum(f, T \cup {m}) = Sum(f, T) + f[m]
      BY <1>2, <2>1, <3>1, SumTop
    <3> QED
      BY <3>1, <3>2
  <2>3. Cardinality(T \cup {m}) = Cardinality(T) + 1 /\ Cardinality(T) \in Nat
    <3>1. IsFiniteSet(T)
      BY <2>1 DEF NatSet
    <3>2. m \notin T
      OBVIOUS
    <3> HIDE DEF P
    <3>3. Cardinality(T) \in Nat
      BY <3>1, FS_CardinalityType
    <3>4. Cardinality(T \cup {m}) = IF m \in T THEN Cardinality(T) ELSE Cardinality(T) + 1
      BY ONLY <3>1, FS_AddElement
    <3> QED
      BY <3>2, <3>3, <3>4
  <2>4. Sum(f, T) = Cardinality(T) * x
    BY <1>2
  <2> DEFINE n == Cardinality(T)
  <2>5. n \in Nat
    BY <2>3
  <2> HIDE DEF n
  <2>6. (n + 1) * x = n * x + x
    BY <2>5
  <2>7. Sum(f, T \cup {m}) = Cardinality(T \cup {m}) * x
    BY <2>2, <2>3, <2>4, <2>6 DEF n
  <2> QED
    BY <2>7
<1> HIDE DEF P
<1>3. S \in P
  BY <1>1, <1>2, SetsGrow
<1> QED
  BY <1>3 DEF P

(* From the intervals, named by the row at their end, to those named by    *)
(* the row they start at.                                                  *)
LEMMA SumFromTwo ==
  ASSUME NEW n \in Nat \ {0}, NEW f, NEW terms,
         \A i \in 1 .. n - 1 : terms[i] \in Int /\ terms[i] = f[i + 1]
  PROVE  Sum(f, 2 .. n) = Prefix(terms, n - 1)
<1> DEFINE list == [i \in 1 .. n - 1 |-> i + 1]
<1>1. {list[i] : i \in 1 .. n - 1} = 2 .. n
  <2>1. ASSUME NEW j \in 2 .. n PROVE \E i \in 1 .. n - 1 : list[i] = j
    <3>1. j - 1 \in 1 .. n - 1 /\ (j - 1) + 1 = j
      OBVIOUS
    <3>2. list[j - 1] = j
      BY <3>1
    <3> QED
      BY <3>1, <3>2
  <2>2. \A i \in 1 .. n - 1 : list[i] \in 2 .. n
    OBVIOUS
  <2> QED
    BY <2>1, <2>2
<1>2. \A i \in 1 .. n - 1 : list[i] \in Nat /\ f[list[i]] \in Int /\ terms[i] = f[list[i]]
  OBVIOUS
<1>3. \A i, j \in 1 .. n - 1 : list[i] = list[j] => i = j
  OBVIOUS
<1> DEFINE m == n - 1
<1>4. m \in Nat
  OBVIOUS
<1> HIDE DEF list, m
<1>5. /\ \A i \in 1 .. m : list[i] \in Nat
      /\ \A i \in 1 .. m : f[list[i]] \in Int /\ terms[i] = f[list[i]]
      /\ \A i, j \in 1 .. m : list[i] = list[j] => i = j
  BY <1>2, <1>3 DEF m
<1>6. Sum(f, {list[i] : i \in 1 .. m}) = Prefix(terms, m)
  BY <1>4, <1>5, SumOfList
<1> QED
  BY <1>1, <1>6 DEF m

-----------------------------------------------------------------------------
(* One row.  Every component but a source, a load, a sink and a store gives*)
(* on what it takes; every connection is the outflow of one and the inflow *)
(* of one.                                                                 *)
Passes(c, f) ==
  Part[c].kind \in {"PassThrough", "Converter", "Mover", "Mux", "Switch"}
    => Sum(f, Inflows(c)) = Sum(f, Outflows(c))

SupplyKinds == {"ConstantSource", "ScheduleBasedSource", "EnvironmentSource"}
DemandKinds == {"ConstantLoad", "ScheduleBasedLoad", "WasteSink"}

LEMMA EndsOfSuppliesAndDemands ==
  ASSUME EachPortIsWiredOnce, NEW c \in Comp
  PROVE  /\ Part[c].kind \in SupplyKinds => Inflows(c) = {}
         /\ Part[c].kind \in DemandKinds => Outflows(c) = {}
<1>1. Part[c].kind \in SupplyKinds => PortsIn(c) = {}
  BY DEF PortsIn, SupplyKinds
<1>2. Part[c].kind \in DemandKinds => PortsOut(c) = {}
  BY DEF PortsOut, DemandKinds
<1> QED
  BY <1>1, <1>2, WiredEnds

LEMMA EndsOfStore ==
  ASSUME EachPortIsWiredOnce, NEW c \in Stores
  PROVE  /\ Inflows(c) = IF HasInflow(c, 0) THEN {Inflow[c][0]} ELSE {}
         /\ Outflows(c) = IF HasOutflow(c, WastePort(c))
                            THEN {Outflow[c][0], Outflow[c][WastePort(c)]}
                            ELSE {Outflow[c][0]}
         /\ HasOutflow(c, WastePort(c)) => Outflow[c][0] # Outflow[c][WastePort(c)]
<1>1. c \in Comp /\ Part[c].kind = "Store"
  BY DEF Stores, OfKind
<1>2. PortsIn(c) = {0} /\ PortsOut(c) = {0, WastePort(c)}
  BY <1>1 DEF PortsIn, PortsOut
<1>3. \A k \in Inflows(c) : /\ Connection[k].toPort \in PortsIn(c)
                            /\ k = Inflow[c][Connection[k].toPort]
                            /\ HasInflow(c, Connection[k].toPort)
  BY <1>1, WiredEnds DEF HasInflow, Inflow
<1>4. \A k \in Outflows(c) : /\ Connection[k].fromPort \in PortsOut(c)
                             /\ k = Outflow[c][Connection[k].fromPort]
                             /\ HasOutflow(c, Connection[k].fromPort)
  BY <1>1, WiredEnds DEF HasOutflow, Outflow
<1>5. \A p : /\ HasInflow(c, p) => Inflow[c][p] \in Inflows(c)
             /\ HasOutflow(c, p) => /\ Outflow[c][p] \in Outflows(c)
                                    /\ Connection[Outflow[c][p]].fromPort = p
  BY <1>1, InflowType, OutflowType DEF Inflows, Outflows
<1>6. HasOutflow(c, 0)
  BY <1>1, KnownKind DEF WellConnected
<1>7. WastePort(c) # 0
  BY <1>1 DEF WastePort
<1>8. Inflows(c) = IF HasInflow(c, 0) THEN {Inflow[c][0]} ELSE {}
  BY <1>2, <1>3, <1>5
<1>9. Outflows(c) = IF HasOutflow(c, WastePort(c))
                      THEN {Outflow[c][0], Outflow[c][WastePort(c)]}
                      ELSE {Outflow[c][0]}
  BY <1>2, <1>4, <1>5, <1>6
<1> QED
  BY <1>5, <1>6, <1>7, <1>8, <1>9

(* What the components of a set take in and what they give, and what goes  *)
(* through the connections into and out of them.                           *)
InOf(f)  == [c \in Comp |-> Sum(f, Inflows(c))]
OutOf(f) == [c \in Comp |-> Sum(f, Outflows(c))]

IntoSet(C) == {k \in Conn : Connection[k].to \in C}
FromSet(C) == {k \in Conn : Connection[k].from \in C}

LEMMA ComponentsAreNat ==
  ASSUME NEW C, C \subseteq Comp
  PROVE  NatSet(C)
  BY NetworkAssumption, FiniteAssumption, FS_Subset DEF NatSet

LEMMA EndsAddUp ==
  ASSUME NEW C, C \subseteq Comp, NEW f, \A k \in Conn : f[k] \in Int
  PROVE  /\ Sum(InOf(f), C) = Sum(f, IntoSet(C))
         /\ Sum(OutOf(f), C) = Sum(f, FromSet(C))
         /\ \A c \in C : InOf(f)[c] \in Int /\ OutOf(f)[c] \in Int
<1> DEFINE to   == [k \in Conn |-> Connection[k].to]
           from == [k \in Conn |-> Connection[k].from]
           ins  == [c \in C |-> Sum(f, {k \in Conn : to[k] = c})]
           outs == [c \in C |-> Sum(f, {k \in Conn : from[k] = c})]
<1>1. NatSet(C) /\ NatSet(Conn)
  BY ComponentsAreNat, ConnsAreNat
<1>2. \A c \in C : /\ Inflows(c) = {k \in Conn : to[k] = c}
                   /\ Outflows(c) = {k \in Conn : from[k] = c}
  BY DEF Inflows, Outflows
<1>3. \A c \in C : InOf(f)[c] = ins[c] /\ OutOf(f)[c] = outs[c]
  BY <1>2 DEF InOf, OutOf
<1>4. /\ IntoSet(C) = {k \in Conn : to[k] \in C}
      /\ FromSet(C) = {k \in Conn : from[k] \in C}
  BY DEF IntoSet, FromSet
<1>5. \A c \in C : ins[c] \in Int /\ outs[c] \in Int
  <2>1. \A R \in SUBSET Conn : Sum(f, R) \in Int
    <3> SUFFICES ASSUME NEW R \in SUBSET Conn PROVE Sum(f, R) \in Int
      OBVIOUS
    <3>1. NatSet(R) /\ \A k \in R : f[k] \in Int
      BY ConnsAreNat
    <3> QED
      BY <3>1, SumType
  <2> QED
    BY <2>1
<1> HIDE DEF to, from
<1>6. /\ Sum(ins, C) = Sum(f, {k \in Conn : to[k] \in C})
      /\ Sum(outs, C) = Sum(f, {k \in Conn : from[k] \in C})
  BY <1>1, SumByOwner
<1> HIDE DEF ins, outs
<1>7. Sum(InOf(f), C) = Sum(ins, C) /\ Sum(OutOf(f), C) = Sum(outs, C)
  BY <1>1, <1>3, SumAgrees
<1> QED
  BY <1>3, <1>4, <1>5, <1>6, <1>7

LEMMA SetsAddUp ==
  ASSUME NEW A, NatSet(A), NEW B, NatSet(B), NEW C, NatSet(C), NEW D, NatSet(D),
         A \cap B = {}, (A \cup B) \cap C = {}, (A \cup B \cup C) \cap D = {},
         NEW f, \A k \in A \cup B \cup C \cup D : f[k] \in Int
  PROVE  Sum(f, A \cup B \cup C \cup D) = Sum(f, A) + Sum(f, B) + Sum(f, C) + Sum(f, D)
<1>1. NatSet(A \cup B) /\ NatSet(A \cup B \cup C)
  BY FS_Union DEF NatSet
<1>2. Sum(f, A \cup B) = Sum(f, A) + Sum(f, B)
  BY SumOfUnion
<1>3. Sum(f, (A \cup B) \cup C) = Sum(f, A \cup B) + Sum(f, C)
  BY <1>1, SumOfUnion
<1>4. Sum(f, (A \cup B \cup C) \cup D) = Sum(f, A \cup B \cup C) + Sum(f, D)
  BY <1>1, SumOfUnion
<1>5. Sum(f, A) \in Int /\ Sum(f, B) \in Int /\ Sum(f, C) \in Int /\ Sum(f, D) \in Int
  BY SumType
<1> QED
  BY <1>2, <1>3, <1>4, <1>5

LEMMA StoreTakesIn ==
  ASSUME EachPortIsWiredOnce, NEW c \in Stores, NEW f, \A k \in Conn : f[k] \in Int
  PROVE  NetInflow(c, f) = InOf(f)[c] - OutOf(f)[c]
<1>1. c \in Comp
  BY DEF Stores, OfKind
<1>2. InOf(f)[c] = Sum(f, Inflows(c)) /\ OutOf(f)[c] = Sum(f, Outflows(c))
  BY <1>1 DEF InOf, OutOf
<1>3. Inflows(c) \subseteq Conn /\ Outflows(c) \subseteq Conn /\ Conn \subseteq Nat
  BY EndsAreConnections, NetworkAssumption
<1>4. Sum(f, Inflows(c)) = IF HasInflow(c, 0) THEN f[Inflow[c][0]] ELSE 0
  <2>1. Inflows(c) = IF HasInflow(c, 0) THEN {Inflow[c][0]} ELSE {}
    BY EndsOfStore
  <2>2. CASE HasInflow(c, 0)
    <3>1. Inflow[c][0] \in Nat /\ f[Inflow[c][0]] \in Int
      BY <1>3, <2>1, <2>2
    <3> QED
      BY <2>1, <2>2, <3>1, SumOfOne
  <2>3. CASE ~ HasInflow(c, 0)
    BY <2>1, <2>3, SumEmpty
  <2> QED
    BY <2>2, <2>3
<1>5. Sum(f, Outflows(c)) = f[Outflow[c][0]]
        + (IF HasOutflow(c, WastePort(c)) THEN f[Outflow[c][WastePort(c)]] ELSE 0)
  <2> DEFINE x == Outflow[c][0]
             y == Outflow[c][WastePort(c)]
  <2>1. /\ Outflows(c) = IF HasOutflow(c, WastePort(c)) THEN {x, y} ELSE {x}
        /\ HasOutflow(c, WastePort(c)) => x # y
    BY EndsOfStore
  <2>2. x \in Nat /\ f[x] \in Int
    BY <1>3, <2>1
  <2>3. CASE HasOutflow(c, WastePort(c))
    <3>1. y \in Nat /\ f[y] \in Int
      BY <1>3, <2>1, <2>3
    <3> HIDE DEF x, y
    <3>2. Sum(f, {x, y}) = f[x] + f[y]
      BY <2>1, <2>2, <2>3, <3>1, SumOfTwo
    <3> QED
      BY <2>1, <2>3, <3>2 DEF x, y
  <2>4. CASE ~ HasOutflow(c, WastePort(c))
    <3> HIDE DEF x, y
    <3>1. Sum(f, {x}) = f[x]
      BY <2>2, SumOfOne
    <3> QED
      BY <2>1, <2>2, <2>4, <3>1 DEF x, y
  <2> QED
    BY <2>3, <2>4
<1>6. f[Outflow[c][0]] \in Int
  BY <1>3, EndsOfStore
<1>7. /\ HasInflow(c, 0) => f[Inflow[c][0]] \in Int
      /\ HasOutflow(c, WastePort(c)) => f[Outflow[c][WastePort(c)]] \in Int
  BY <1>3, EndsOfStore
<1> QED
  BY <1>2, <1>4, <1>5, <1>6, <1>7 DEF NetInflow

(* What the sources and the environment give is what loads and sinks take  *)
(* and what stays in the stores.                                           *)
Gained(f) == Sum([c \in Stores |-> NetInflow(c, f)], Stores)

LEMMA RowBalance ==
  ASSUME EachPortIsWiredOnce, NEW f, \A k \in Conn : f[k] \in Nat,
         \A c \in Comp : Passes(c, f)
  PROVE  /\ Sum(f, SourceConns) + Sum(f, EnvironmentConns)
              = Sum(f, LoadConns) + Sum(f, WasteConns) + Gained(f)
         /\ \A conns \in {SourceConns, EnvironmentConns, LoadConns, WasteConns} :
              Sum(f, conns) \in Int
         /\ Gained(f) \in Int
<1> DEFINE A == {c \in Comp : Part[c].kind \in SupplyKinds}
           B == {c \in Comp : Part[c].kind \in DemandKinds}
           D == Comp \ (A \cup B \cup Stores)
           in == InOf(f)
           out == OutOf(f)
<1>1. Stores = {c \in Comp : Part[c].kind = "Store"}
  BY DEF Stores, OfKind
<1>2. /\ A \subseteq Comp /\ B \subseteq Comp /\ Stores \subseteq Comp /\ D \subseteq Comp
      /\ A \cap B = {} /\ (A \cup B) \cap Stores = {} /\ (A \cup B \cup Stores) \cap D = {}
      /\ A \cup B \cup Stores \cup D = Comp
  BY <1>1 DEF SupplyKinds, DemandKinds
<1>3. \A k \in Conn : f[k] \in Int
  OBVIOUS
<1>4. \A c \in Comp : in[c] = Sum(f, Inflows(c)) /\ out[c] = Sum(f, Outflows(c))
  BY DEF InOf, OutOf
<1>5. \A c \in A : in[c] = 0
  BY <1>4, EndsOfSuppliesAndDemands, SumEmpty
<1>6. \A c \in B : out[c] = 0
  BY <1>4, EndsOfSuppliesAndDemands, SumEmpty
<1>7. \A c \in D : in[c] = out[c]
  <2>1. \A c \in D : Part[c].kind \in {"PassThrough", "Converter", "Mover", "Mux", "Switch"}
    BY <1>1, NetworkAssumption DEF Kinds, SupplyKinds, DemandKinds
  <2> QED
    BY <1>4, <2>1 DEF Passes
<1>8. FromSet(A) = From(SupplyKinds) /\ IntoSet(B) = Into(DemandKinds)
  <2>1. \A k \in Conn : Connection[k].to \in Comp /\ Connection[k].from \in Comp
    BY NetworkAssumption
  <2> QED
    BY <2>1 DEF FromSet, IntoSet, From, Into
<1>9. FromSet(Comp) = Conn /\ IntoSet(Comp) = Conn
  BY NetworkAssumption DEF FromSet, IntoSet
<1> HIDE DEF A, B, D, in, out
<1>10. \A C \in SUBSET Comp : /\ NatSet(C)
                              /\ Sum(in, C) = Sum(f, IntoSet(C))
                              /\ Sum(out, C) = Sum(f, FromSet(C))
                              /\ \A c \in C : in[c] \in Int /\ out[c] \in Int
  BY <1>3, EndsAddUp, ComponentsAreNat DEF in, out
<1>11. NatSet(A) /\ NatSet(B) /\ NatSet(Stores) /\ NatSet(D) /\ NatSet(Comp)
  BY <1>2, <1>10
<1>12. \A c \in Comp : in[c] \in Int /\ out[c] \in Int
  BY <1>10
<1>13. /\ Sum(in, Comp) = Sum(in, A) + Sum(in, B) + Sum(in, Stores) + Sum(in, D)
       /\ Sum(out, Comp) = Sum(out, A) + Sum(out, B) + Sum(out, Stores) + Sum(out, D)
  <2>1. ASSUME NEW f1, \A c \in Comp : f1[c] \in Int
        PROVE  Sum(f1, A \cup B \cup Stores \cup D)
                 = Sum(f1, A) + Sum(f1, B) + Sum(f1, Stores) + Sum(f1, D)
    BY <1>2, <1>11, <2>1, SetsAddUp
  <2> QED
    BY <1>2, <1>12, <2>1
<1>14. Sum(in, Comp) = Sum(out, Comp)
  BY <1>9, <1>10
<1>15. Sum(in, A) = 0 /\ Sum(out, B) = 0 /\ Sum(in, D) = Sum(out, D)
  BY <1>5, <1>6, <1>7, <1>11, SumOfNothing, SumAgrees
<1>16. /\ Sum(out, A) = Sum(f, From(SupplyKinds))
       /\ Sum(in, B) = Sum(f, Into(DemandKinds))
  BY <1>2, <1>8, <1>10
<1>17. Sum(in, Stores) = Gained(f) + Sum(out, Stores)
  <2> DEFINE net == [c \in Stores |-> NetInflow(c, f)]
  <2>1. \A c \in Stores : net[c] = in[c] - out[c]
    BY <1>3, StoreTakesIn DEF in, out
  <2> HIDE DEF net
  <2>2. \A c \in Stores : net[c] \in Int /\ out[c] \in Int /\ in[c] = net[c] + out[c]
    BY <1>2, <1>12, <2>1
  <2>3. Sum(in, Stores) = Sum(net, Stores) + Sum(out, Stores)
    BY <1>11, <2>2, SumOfSums
  <2> QED
    BY <2>3 DEF net, Gained
<1>18. Gained(f) \in Int
  <2>1. \A c \in Stores : [d \in Stores |-> NetInflow(d, f)][c] \in Int
    BY <1>2, <1>3, <1>12, StoreTakesIn DEF in, out
  <2> HIDE DEF in, out
  <2> QED
    BY <1>11, <2>1, SumType DEF Gained
<1>19. \A conns \in SUBSET Conn : NatSet(conns) /\ Sum(f, conns) \in Int
  BY <1>3, ConnsAreNat, SumType
<1>20. /\ SourceConns \subseteq Conn /\ EnvironmentConns \subseteq Conn
       /\ LoadConns \subseteq Conn /\ WasteConns \subseteq Conn
       /\ SourceConns \cap EnvironmentConns = {} /\ LoadConns \cap WasteConns = {}
       /\ From(SupplyKinds) = SourceConns \cup EnvironmentConns
       /\ Into(DemandKinds) = LoadConns \cup WasteConns
  BY DEF SourceConns, EnvironmentConns, LoadConns, WasteConns, From, Into,
         SupplyKinds, DemandKinds
<1>21. /\ Sum(f, From(SupplyKinds)) = Sum(f, SourceConns) + Sum(f, EnvironmentConns)
       /\ Sum(f, Into(DemandKinds)) = Sum(f, LoadConns) + Sum(f, WasteConns)
  BY <1>3, <1>19, <1>20, SumOfUnion
<1>22. /\ Sum(in, Stores) \in Int /\ Sum(out, Stores) \in Int /\ Sum(in, D) \in Int
       /\ Sum(f, SourceConns) \in Int /\ Sum(f, EnvironmentConns) \in Int
       /\ Sum(f, LoadConns) \in Int /\ Sum(f, WasteConns) \in Int
  BY <1>2, <1>11, <1>12, <1>19, <1>20, SumType
<1>23. Sum(f, SourceConns) + Sum(f, EnvironmentConns)
         = Sum(f, LoadConns) + Sum(f, WasteConns) + Gained(f)
  <2>1. Sum(in, B) + Sum(in, Stores) = Sum(out, A) + Sum(out, Stores)
    <3>1. Sum(in, B) \in Int /\ Sum(out, A) \in Int
      BY <1>16, <1>21, <1>22
    <3> QED
      BY <1>13, <1>14, <1>15, <1>22, <3>1
  <2> QED
    BY <1>16, <1>17, <1>18, <1>21, <1>22, <2>1
<1> QED
  BY <1>18, <1>22, <1>23

LEMMA RecordedRow ==
  ASSUME IInv, Record
  PROVE  /\ timeAndFlows' # timeAndFlows
         /\ Len(timeAndFlows') = Len(timeAndFlows) + 1
         /\ timeAndFlows' # <<>>
<1> DEFINE row == [time |-> t, req |-> ss.req, avail |-> ss.avail,
                   actual |-> ss.actual, amount |-> ss.amount]
<1>1. timeAndFlows' = Append(timeAndFlows, row)
  BY DEF Record
<1>2. row \in Snapshot /\ timeAndFlows \in Seq(Snapshot)
  BY DEF IInv, TypeOK, State, Snapshot, Stores
<1> HIDE DEF row, Snapshot
<1> QED
  BY <1>1, <1>2, AppendFacts

(* In every recorded row what is neither made, used nor stored is passed   *)
(* on.                                                                     *)
RowsPass ==
  \A i \in DOMAIN timeAndFlows : \A c \in Comp : Passes(c, timeAndFlows[i].actual)

LEMMA RowsPassHolds ==
  ASSUME EveryChangeIsTold, EachPortIsWiredOnce, NothingIsMadeOfNothing,
         ScheduledLoadsDoNotFail
  PROVE  Spec /\ [](~ CutShort /\ ~ RequestsOverflow) => []RowsPass
<1>1. Init => RowsPass
  BY DEF Init, RowsPass
<1>2. IInv /\ RowsPass /\ [Next]_vars
        /\ (CutShort \/ RequestsOverflow \/ FlowsBalance)'
        /\ (~ CutShort /\ ~ RequestsOverflow)'
        => RowsPass'
  <2> SUFFICES ASSUME IInv, RowsPass, [Next]_vars, FlowsBalance'
               PROVE  RowsPass'
    OBVIOUS
  <2>1. CASE timeAndFlows' = timeAndFlows
    BY <2>1 DEF RowsPass
  <2>2. CASE timeAndFlows' # timeAndFlows
    <3>1. LET n == Len(timeAndFlows)
          IN  /\ Settled'
              /\ n \in Nat /\ DOMAIN timeAndFlows = 1 .. n
              /\ DOMAIN timeAndFlows' = 1 .. n + 1
              /\ \A i \in 1 .. n : timeAndFlows'[i] = timeAndFlows[i]
              /\ timeAndFlows'[n + 1].req = ss'.req
              /\ timeAndFlows'[n + 1].actual = ss'.actual
              /\ timeAndFlows'[n + 1].amount = ss'.amount
      BY <2>2, RowsChange
    <3>2. \A c \in Comp : Passes(c, ss'.actual)
      BY <3>1 DEF FlowsBalance, Passes
    <3> QED
      BY <3>1, <3>2 DEF RowsPass
  <2> QED
    BY <2>1, <2>2
<1> QED
  BY <1>1, <1>2, IInvHolds, FlowsAddUp, PTL DEF Spec

(* The first row shows what the stores held at the start, the last what    *)
(* they hold when it has just been made.                                   *)
AmountsAreShown ==
  /\ timeAndFlows = <<>> => \A c \in Stores : ss.amount[c] = Part[c].initial
  /\ timeAndFlows # <<>> => \A c \in Stores : timeAndFlows[1].amount[c] = Part[c].initial
  /\ Settled => timeAndFlows # <<>> /\ timeAndFlows[Len(timeAndFlows)].amount = ss.amount

LEMMA RowsShowAmounts ==
  ASSUME IInv, AmountsAreShown, [Next]_vars
  PROVE  AmountsAreShown'
<1>1. CASE timeAndFlows' # timeAndFlows
  <2> DEFINE n == Len(timeAndFlows)
  <2>1. /\ n \in Nat /\ DOMAIN timeAndFlows = 1 .. n
        /\ DOMAIN timeAndFlows' = 1 .. n + 1
        /\ \A i \in 1 .. n : timeAndFlows'[i] = timeAndFlows[i]
        /\ timeAndFlows'[n + 1].amount = ss'.amount
    BY <1>1, RowsChange
  <2>2. Record
    <3>1. ~ UNCHANGED vars /\ ~ Advance
      BY <1>1 DEF vars, Advance
    <3>2. Next
      BY <3>1
    <3> QED
      BY <1>1, <3>1, <3>2 DEF Next, ActivateReliability, Activate, NextPhase, BeginRun,
         TakeBackward, StepBackward, EndBackward, TakeForward, StepForward, EndForward,
         Finalize, RunSwitchLogic, Terminated
  <2>3. ss' = ss
    BY <2>2 DEF Record
  <2>4. Len(timeAndFlows') = n + 1 /\ timeAndFlows' # <<>>
    BY <2>2, RecordedRow
  <2>5. ASSUME NEW c \in Stores PROVE timeAndFlows'[1].amount[c] = Part[c].initial
    <3>1. CASE timeAndFlows = <<>>
      <4>1. n = 0
        BY <3>1
      <4> QED
        BY <2>1, <2>3, <3>1, <4>1 DEF AmountsAreShown
    <3>2. CASE timeAndFlows # <<>>
      <4>1. 1 \in 1 .. n
        BY <3>2, RowsType
      <4> QED
        BY <2>1, <3>2, <4>1 DEF AmountsAreShown
    <3> QED
      BY <3>1, <3>2
  <2> QED
    BY <2>1, <2>4, <2>5 DEF AmountsAreShown
<1>2. CASE timeAndFlows' = timeAndFlows /\ UNCHANGED vars
  BY <1>2 DEF AmountsAreShown, Settled, vars
<1>3. CASE timeAndFlows' = timeAndFlows /\ Advance
  <2>1. pc = "advance" /\ pc' \in {"reliability", "assertionFailed"}
    BY <1>3 DEF Advance
  <2> QED
    BY <1>3, <2>1 DEF AmountsAreShown, Settled
<1>4. CASE timeAndFlows' = timeAndFlows /\ Next /\ ~ Advance /\ ~ UNCHANGED vars
  <2>1. ss'.amount = ss.amount
    BY <1>4, OnlyAdvanceMovesIndices DEF Kept
  <2>2. ~ Record
    <3>1. Record => timeAndFlows' # timeAndFlows
      BY RecordedRow
    <3> QED
      BY <1>4, <3>1
  <2>3. pc' \notin {"advance", "done"}
    BY <1>4, <2>2 DEF Next, ActivateReliability, Activate, NextPhase, PhaseAfter, BeginRun,
       TakeBackward, StepBackward, EndBackward, TakeForward, StepForward, EndForward,
       Finalize, RunSwitchLogic, Terminated
  <2> QED
    BY <1>4, <2>1, <2>3 DEF AmountsAreShown, Settled
<1> QED
  BY <1>1, <1>2, <1>3, <1>4

LEMMA AmountsAreShownHolds == Spec => []AmountsAreShown
<1>1. Init => AmountsAreShown
  BY DEF Init, AmountsAreShown, InitialState, Settled, Stores
<1>2. IInv /\ AmountsAreShown /\ [Next]_vars => AmountsAreShown'
  BY RowsShowAmounts
<1> QED
  BY <1>1, <1>2, IInvHolds, PTL DEF Spec

(* All the rows.  The net energy the network makes is what flows into the  *)
(* stores in every interval; added up store by store it is what each was   *)
(* brought, which its amount follows but for rounding.                     *)
StepEnergy(i, conns) == Elapsed(i) * Sum(Before(i).actual, conns)
StepGain(i)          == Elapsed(i) * Gained(Before(i).actual)

LEMMA StepBalance ==
  ASSUME IInv, EventInv, RecordInv, Finished, RowsPass, EachPortIsWiredOnce,
         NEW i \in Intervals
  PROVE  /\ StepEnergy(i, SourceConns) + StepEnergy(i, EnvironmentConns)
              = StepEnergy(i, LoadConns) + StepEnergy(i, WasteConns) + StepGain(i)
         /\ \A conns \in {SourceConns, EnvironmentConns, LoadConns, WasteConns} :
              StepEnergy(i, conns) \in Int
         /\ StepGain(i) \in Int
<1> DEFINE e == Elapsed(i)
           f == Before(i).actual
<1>1. e \in Nat /\ i - 1 \in 1 .. Len(timeAndFlows)
  BY IntervalFacts
<1>2. \A k \in Conn : f[k] \in Nat
  BY <1>1, RowFlows DEF Before
<1>3. \A c \in Comp : Passes(c, f)
  BY <1>1, RowsType DEF RowsPass, Before
<1> DEFINE s == Sum(f, SourceConns)
           v == Sum(f, EnvironmentConns)
           l == Sum(f, LoadConns)
           w == Sum(f, WasteConns)
           g == Gained(f)
<1> HIDE DEF e, f
<1>4. /\ s + v = l + w + g
      /\ s \in Int /\ v \in Int /\ l \in Int /\ w \in Int /\ g \in Int
  BY <1>2, <1>3, RowBalance
<1>5. /\ StepEnergy(i, SourceConns) = e * s /\ StepEnergy(i, EnvironmentConns) = e * v
      /\ StepEnergy(i, LoadConns) = e * l /\ StepEnergy(i, WasteConns) = e * w
      /\ StepGain(i) = e * g
  BY DEF StepEnergy, StepGain, e, f
<1> HIDE DEF s, v, l, w, g
<1>6. /\ e * s \in Int /\ e * v \in Int /\ e * l \in Int /\ e * w \in Int /\ e * g \in Int
  BY <1>1, <1>4
<1>7. e * s + e * v = e * l + e * w + e * g
  <2>1. e * (s + v) = e * s + e * v /\ e * (l + w + g) = e * l + e * w + e * g
    BY <1>1, <1>4
  <2> QED
    BY <1>4, <2>1
<1> QED
  BY <1>5, <1>6, <1>7

TotalGain == Sum([i \in Intervals |-> StepGain(i)], Intervals)

LEMMA EnergyIsGained ==
  ASSUME IInv, EventInv, RecordInv, Finished, RowsPass, EachPortIsWiredOnce
  PROVE  /\ EnergyActual(SourceConns) + EnergyActual(EnvironmentConns)
              = EnergyActual(LoadConns) + EnergyActual(WasteConns) + TotalGain
         /\ EnergyActual(SourceConns) \in Int /\ EnergyActual(EnvironmentConns) \in Int
         /\ EnergyActual(LoadConns) \in Int /\ EnergyActual(WasteConns) \in Int
         /\ TotalGain \in Int
<1> DEFINE I == Intervals
           s == [i \in I |-> StepEnergy(i, SourceConns)]
           v == [i \in I |-> StepEnergy(i, EnvironmentConns)]
           l == [i \in I |-> StepEnergy(i, LoadConns)]
           w == [i \in I |-> StepEnergy(i, WasteConns)]
           g == [i \in I |-> StepGain(i)]
           both == [i \in I |-> s[i] + v[i]]
           used == [i \in I |-> l[i] + w[i]]
<1>1. /\ EnergyActual(SourceConns) = Sum(s, I) /\ EnergyActual(EnvironmentConns) = Sum(v, I)
      /\ EnergyActual(LoadConns) = Sum(l, I) /\ EnergyActual(WasteConns) = Sum(w, I)
      /\ TotalGain = Sum(g, I)
  BY DEF EnergyActual, Over, StepEnergy, TotalGain
<1>2. \A i \in I : /\ s[i] + v[i] = l[i] + w[i] + g[i]
                   /\ s[i] \in Int /\ v[i] \in Int /\ l[i] \in Int /\ w[i] \in Int
                   /\ g[i] \in Int
  BY StepBalance
<1>3. NatSet(I)
  BY IntervalFacts
<1> HIDE DEF s, v, l, w, g, I
<1>4. \A i \in I : /\ both[i] \in Int /\ used[i] \in Int
                   /\ both[i] = s[i] + v[i] /\ used[i] = l[i] + w[i]
                   /\ both[i] = used[i] + g[i]
  BY <1>2
<1> HIDE DEF both, used
<1>5. Sum(both, I) = Sum(s, I) + Sum(v, I)
  BY <1>2, <1>3, <1>4, SumOfSums
<1>6. Sum(used, I) = Sum(l, I) + Sum(w, I)
  BY <1>2, <1>3, <1>4, SumOfSums
<1>7. Sum(both, I) = Sum(used, I) + Sum(g, I)
  BY <1>2, <1>3, <1>4, SumOfSums
<1>8. /\ Sum(s, I) \in Int /\ Sum(v, I) \in Int /\ Sum(l, I) \in Int /\ Sum(w, I) \in Int
      /\ Sum(g, I) \in Int
  BY <1>2, <1>3, SumType
<1> QED
  BY <1>1, <1>5, <1>6, <1>7, <1>8

(* What was brought to a store, interval by interval.                      *)
LEMMA BroughtToAStore ==
  ASSUME IInv, EventInv, RecordInv, Finished, NEW c \in Stores
  PROVE  /\ Sum([i \in Intervals |-> Elapsed(i) * NetInflow(c, Before(i).actual)], Intervals)
              = ChargedBefore(c)
         /\ \A i \in Intervals : Elapsed(i) * NetInflow(c, Before(i).actual) \in Int
<1> DEFINE N == Len(timeAndFlows)
           f == [i \in Intervals |-> Elapsed(i) * NetInflow(c, Before(i).actual)]
           terms == [i \in 1 .. N - 1 |-> Charged(c, i)]
<1>1. /\ N \in Nat \ {0} /\ Intervals = 2 .. N
      /\ \A i \in Intervals : i - 1 \in 1 .. N /\ Elapsed(i) \in Nat
  BY IntervalFacts
<1>2. \A i \in Intervals : NetInflow(c, Before(i).actual) \in Int
  <2> TAKE i \in Intervals
  <2>1. i - 1 \in 1 .. N
    BY <1>1
  <2>2. timeAndFlows[i - 1] \in Snapshot
    BY <2>1, RowsType
  <2>3. Before(i).actual \in [Conn -> Flow]
    BY <2>2 DEF Before, Snapshot
  <2> QED
    BY <2>3, StoreFlowsType
<1>3. \A i \in Intervals : Elapsed(i) * NetInflow(c, Before(i).actual) \in Int
  <2> TAKE i \in Intervals
  <2> DEFINE e == Elapsed(i)
             x == NetInflow(c, Before(i).actual)
  <2>1. e \in Int /\ x \in Int
    BY <1>1, <1>2
  <2> HIDE DEF e, x
  <2>2. e * x \in Int
    BY <2>1
  <2> QED
    BY <2>2 DEF e, x
<1>4. \A i \in 1 .. N - 1 : terms[i] \in Int /\ terms[i] = f[i + 1]
  <2> TAKE i \in 1 .. N - 1
  <2>1. i + 1 \in 2 .. N /\ (i + 1) - 1 = i
    BY <1>1
  <2>2. Elapsed(i + 1) = Lasted(i) /\ Before(i + 1) = timeAndFlows[i]
    BY <2>1 DEF Elapsed, Lasted, Before
  <2>3. f[i + 1] = Elapsed(i + 1) * NetInflow(c, Before(i + 1).actual)
    BY <1>1, <2>1
  <2>4. f[i + 1] = Charged(c, i)
    BY <2>2, <2>3 DEF Charged
  <2>5. f[i + 1] \in Int
    BY <1>1, <1>3, <2>1, <2>3
  <2> QED
    BY <2>4, <2>5
<1> HIDE DEF f, terms
<1>5. Sum(f, 2 .. N) = Prefix(terms, N - 1)
  BY <1>1, <1>4, SumFromTwo
<1> QED
  BY <1>1, <1>3, <1>5 DEF f, terms, ChargedBefore

LEMMA GainedByStore ==
  ASSUME IInv, EventInv, RecordInv, Finished
  PROVE  TotalGain = Sum([c \in Stores |-> ChargedBefore(c)], Stores)
<1> DEFINE I == Intervals
           g == [x \in I \X Stores |->
                   Elapsed(x[1]) * NetInflow(x[2], Before(x[1]).actual)]
           rows == [i \in I |-> Sum([c \in Stores |-> g[<<i, c>>]], Stores)]
           cols == [c \in Stores |-> Sum([i \in I |-> g[<<i, c>>]], I)]
<1>1. NatSet(I) /\ NatSet(Stores)
  BY IntervalFacts, ComponentsAreNat DEF Stores, OfKind
<1>2. \A i \in I : \A c \in Stores :
        g[<<i, c>>] = Elapsed(i) * NetInflow(c, Before(i).actual)
  OBVIOUS
<1>3. \A i \in I : \A c \in Stores : g[<<i, c>>] \in Int
  BY <1>2, BroughtToAStore
<1>4. ASSUME NEW i \in I PROVE rows[i] = StepGain(i)
  <2> DEFINE net == [c \in Stores |-> NetInflow(c, Before(i).actual)]
             h == [c \in Stores |-> g[<<i, c>>]]
             e == Elapsed(i)
  <2>1. e \in Int
    BY IntervalFacts
  <2>2. \A c \in Stores : net[c] \in Int
    <3>1. i - 1 \in 1 .. Len(timeAndFlows)
      BY IntervalFacts
    <3>2. timeAndFlows[i - 1] \in Snapshot
      BY <3>1, RowsType
    <3>3. Before(i).actual \in [Conn -> Flow]
      BY <3>2 DEF Before, Snapshot
    <3> QED
      BY <3>3, StoreFlowsType
  <2>3. \A c \in Stores : h[c] = e * net[c]
    BY <1>2
  <2>4. rows[i] = Sum(h, Stores) /\ StepGain(i) = e * Sum(net, Stores)
    BY DEF StepGain, Gained
  <2> HIDE DEF net, h, e, rows
  <2>5. Sum(h, Stores) = e * Sum(net, Stores)
    BY <1>1, <2>1, <2>2, <2>3, SumScaled
  <2> QED
    BY <2>4, <2>5
<1>5. ASSUME NEW c \in Stores PROVE cols[c] = ChargedBefore(c)
  <2>1. [i \in I |-> g[<<i, c>>]] = [i \in I |-> Elapsed(i) * NetInflow(c, Before(i).actual)]
    BY <1>2
  <2> HIDE DEF g
  <2> QED
    BY <2>1, BroughtToAStore
<1> HIDE DEF g
<1>6. Sum(rows, I) = Sum(cols, Stores)
  BY <1>1, <1>3, SumSwap
<1>7. rows = [i \in I |-> StepGain(i)] /\ cols = [c \in Stores |-> ChargedBefore(c)]
  BY <1>4, <1>5
<1> QED
  BY <1>6, <1>7 DEF TotalGain

(* What was charged less what was discharged is what the stores hold more  *)
(* at the end than at the start.                                           *)
LEMMA ChargesAreChanges ==
  ASSUME IInv, EventInv, RecordInv, Finished, AmountsAreShown
  PROVE  /\ StorageCharge - StorageDischarge
              = Sum([c \in Stores |-> ss.amount[c] - Part[c].initial], Stores)
         /\ StorageCharge \in Int /\ StorageDischarge \in Int
<1> DEFINE I == Intervals
           N == Len(timeAndFlows)
           a(i, c) == timeAndFlows[i].amount[c]
           up   == [i \in I |-> Sum([c \in Stores |-> Monus(a(i, c), Before(i).amount[c])], Stores)]
           down == [i \in I |-> Sum([c \in Stores |-> Monus(Before(i).amount[c], a(i, c))], Stores)]
           g    == [x \in I \X Stores |-> a(x[1], x[2]) - a(x[1] - 1, x[2])]
           rows == [i \in I |-> Sum([c \in Stores |-> g[<<i, c>>]], Stores)]
           cols == [c \in Stores |-> Sum([i \in I |-> g[<<i, c>>]], I)]
<1>1. NatSet(I) /\ NatSet(Stores)
  BY IntervalFacts, ComponentsAreNat DEF Stores, OfKind
<1>2. /\ N \in Nat \ {0} /\ I = 2 .. N
      /\ \A i \in I : i \in 1 .. N /\ i - 1 \in 1 .. N
  BY IntervalFacts
<1>3. \A i \in 1 .. N : \A c \in Stores : a(i, c) \in Int
  <2> TAKE i \in 1 .. N
  <2>1. timeAndFlows[i] \in Snapshot
    BY RowsType
  <2> QED
    BY <2>1 DEF Snapshot
<1>4. StorageCharge = Sum(up, I) /\ StorageDischarge = Sum(down, I)
  BY DEF StorageCharge, StorageDischarge, Over
<1>5. ASSUME NEW i \in I
      PROVE  up[i] \in Int /\ down[i] \in Int /\ rows[i] \in Int /\ up[i] = down[i] + rows[i]
  <2> DEFINE u == [c \in Stores |-> Monus(a(i, c), Before(i).amount[c])]
             d == [c \in Stores |-> Monus(Before(i).amount[c], a(i, c))]
             h == [c \in Stores |-> g[<<i, c>>]]
  <2>1. ASSUME NEW c \in Stores
        PROVE  u[c] \in Int /\ d[c] \in Int /\ h[c] \in Int /\ u[c] = d[c] + h[c]
    <3>1. a(i, c) \in Int /\ a(i - 1, c) \in Int /\ Before(i).amount[c] = a(i - 1, c)
      BY <1>2, <1>3 DEF Before
    <3> DEFINE x == a(i, c)
               y == a(i - 1, c)
    <3>2. u[c] = Monus(x, y) /\ d[c] = Monus(y, x) /\ h[c] = x - y
      BY <3>1
    <3> HIDE DEF u, d, h, x, y
    <3> QED
      BY <3>1, <3>2 DEF Monus, x, y
  <2>2. up[i] = Sum(u, Stores) /\ down[i] = Sum(d, Stores) /\ rows[i] = Sum(h, Stores)
    OBVIOUS
  <2> HIDE DEF u, d, h, up, down, rows
  <2>3. Sum(u, Stores) = Sum(d, Stores) + Sum(h, Stores)
    BY <1>1, <2>1, SumOfSums
  <2>4. Sum(d, Stores) \in Int /\ Sum(h, Stores) \in Int /\ Sum(u, Stores) \in Int
    BY <1>1, <2>1, SumType
  <2> QED
    BY <2>2, <2>3, <2>4
<1>6. \A i \in I : \A c \in Stores : /\ g[<<i, c>>] = a(i, c) - a(i - 1, c)
                                     /\ g[<<i, c>>] \in Int
  <2> TAKE i \in I
  <2> TAKE c \in Stores
  <2>1. a(i, c) \in Int /\ a(i - 1, c) \in Int
    BY <1>2, <1>3
  <2>2. g[<<i, c>>] = a(i, c) - a(i - 1, c)
    OBVIOUS
  <2> QED
    BY <2>1, <2>2
<1>7. ASSUME NEW c \in Stores PROVE cols[c] = ss.amount[c] - Part[c].initial
  <2> DEFINE h == [i \in I |-> g[<<i, c>>]]
             amounts == [i \in 1 .. N |-> a(i, c)]
  <2>1. \A i \in 1 .. N : amounts[i] \in Int
    BY <1>3
  <2>2. \A i \in 2 .. N : h[i] = amounts[i] - amounts[i - 1]
    BY <1>2, <1>6
  <2>3. cols[c] = Sum(h, I)
    OBVIOUS
  <2>4. timeAndFlows # <<>> /\ Settled
    BY <1>2 DEF Finished, Settled, AmountsAreShown
  <2>5. amounts[N] = ss.amount[c] /\ amounts[1] = Part[c].initial
    BY <1>2, <2>4 DEF AmountsAreShown
  <2> HIDE DEF h, amounts, cols, N
  <2>6. Sum(h, 2 .. N) = amounts[N] - amounts[1]
    BY <1>2, <2>1, <2>2, Telescopes
  <2> QED
    BY <1>2, <2>3, <2>5, <2>6
<1> HIDE DEF g
<1>8. Sum(rows, I) = Sum(cols, Stores)
  BY <1>1, <1>6, SumSwap
<1>9. cols = [c \in Stores |-> ss.amount[c] - Part[c].initial]
  BY <1>7
<1> HIDE DEF up, down, rows, cols
<1>10. Sum(up, I) = Sum(down, I) + Sum(rows, I)
  BY <1>1, <1>5, SumOfSums
<1>11. Sum(up, I) \in Int /\ Sum(down, I) \in Int /\ Sum(rows, I) \in Int
  BY <1>1, <1>5, SumType
<1> QED
  BY <1>4, <1>8, <1>9, <1>10, <1>11

(* What rounding may have won or lost.                                     *)
LEMMA RoundingOfIntervals ==
  ASSUME IInv, EventInv, RecordInv, Finished
  PROVE  Over(Intervals, LAMBDA i : Rounding(Elapsed(i))) = RoundedBefore
<1> DEFINE N == Len(timeAndFlows)
           f == [i \in Intervals |-> Rounding(Elapsed(i))]
           terms == [i \in 1 .. N - 1 |-> Rounding(Lasted(i))]
<1>1. /\ N \in Nat \ {0} /\ Intervals = 2 .. N
      /\ \A i \in Intervals : i - 1 \in 1 .. N /\ Elapsed(i) \in Nat
  BY IntervalFacts
<1>2. \A i \in Intervals : Rounding(Elapsed(i)) \in Int
  BY NetworkAssumption DEF Rounding
<1>3. \A i \in 1 .. N - 1 : terms[i] \in Int /\ terms[i] = f[i + 1]
  <2> TAKE i \in 1 .. N - 1
  <2>1. i + 1 \in 2 .. N /\ (i + 1) - 1 = i
    BY <1>1
  <2>2. Elapsed(i + 1) = Lasted(i)
    BY <2>1 DEF Elapsed, Lasted
  <2> QED
    BY <1>1, <1>2, <2>1, <2>2
<1>4. Over(Intervals, LAMBDA i : Rounding(Elapsed(i))) = Sum(f, Intervals)
  BY DEF Over
<1> HIDE DEF f, terms
<1>5. Sum(f, 2 .. N) = Prefix(terms, N - 1)
  BY <1>1, <1>3, SumFromTwo
<1> QED
  BY <1>1, <1>4, <1>5 DEF terms, RoundedBefore

LEMMA EnergyWithinRounding ==
  ASSUME IInv, EventInv, RecordInv, Finished, RowsPass, AmountsAreShown,
         EachPortIsWiredOnce, StoredEnergyIsAccountedFor
  PROVE  EnergyBalances
<1> DEFINE T == TicksPerSecond
           R == RoundedBefore
           brought == [c \in Stores |-> ChargedBefore(c)]
           grown   == [c \in Stores |-> ss.amount[c] - Part[c].initial]
           held    == [c \in Stores |-> T * grown[c]]
           off     == [c \in Stores |-> brought[c] - held[c]]
           twice   == [c \in Stores |-> 2 * off[c]]
           most    == [c \in Stores |-> R]
           least   == [c \in Stores |-> -R]
           n == Cardinality(Stores)
<1>1. NatSet(Stores) /\ n \in Nat
  BY ComponentsAreNat, FS_CardinalityType DEF Stores, OfKind, NatSet
<1>2. timeAndFlows # <<>> /\ Settled
  BY IntervalFacts DEF Finished, Settled, AmountsAreShown
<1>3. R \in Nat /\ T \in Nat /\ \A c \in Stores : ChargedBefore(c) \in Int
  BY <1>2, LedgerTypes, NetworkAssumption
<1>4. ASSUME NEW c \in Stores
      PROVE  2 * (ChargedBefore(c) - (ss.amount[c] - Part[c].initial) * T) \in -R .. R
  BY <1>2 DEF StoredEnergyIsAccountedFor, ChargedBefore, RoundedBefore
<1>5. ASSUME NEW c \in Stores
      PROVE  /\ brought[c] \in Int /\ grown[c] \in Int /\ held[c] \in Int
             /\ off[c] \in Int /\ twice[c] \in Int
             /\ held[c] = T * grown[c] /\ brought[c] = off[c] + held[c]
             /\ twice[c] = 2 * off[c]
             /\ least[c] <= twice[c] /\ twice[c] <= most[c]
             /\ least[c] = -R /\ most[c] = R
  <2> DEFINE b == ChargedBefore(c)
             x == ss.amount[c] - Part[c].initial
  <2>1. b \in Int /\ x \in Int
    <3>1. ss \in State
      BY DEF IInv, TypeOK
    <3> QED
      BY <1>3, <3>1, HeldType
  <2>2. 2 * (b - x * T) \in -R .. R
    BY <1>4
  <2>3. /\ brought[c] = b /\ grown[c] = x /\ held[c] = T * x
        /\ off[c] = b - T * x /\ twice[c] = 2 * (b - T * x)
        /\ least[c] = -R /\ most[c] = R
    OBVIOUS
  <2> HIDE DEF b, x, brought, grown, held, off, twice, least, most, R, T
  <2>4. T * x \in Int /\ x * T = T * x
    BY <1>3, <2>1
  <2> DEFINE y == T * x
  <2> HIDE DEF y
  <2>5. /\ y \in Int /\ held[c] = y /\ off[c] = b - y /\ twice[c] = 2 * (b - y)
        /\ 2 * (b - y) \in -R .. R
    BY <2>2, <2>3, <2>4 DEF y
  <2> QED
    BY <1>3, <2>1, <2>3, <2>5
<1>6. TotalGain = Sum(brought, Stores)
  BY GainedByStore
<1>7. /\ StorageCharge - StorageDischarge = Sum(grown, Stores)
      /\ StorageCharge \in Int /\ StorageDischarge \in Int
  BY ChargesAreChanges
<1>8. Over(Intervals, LAMBDA i : Rounding(Elapsed(i))) = R
  BY RoundingOfIntervals
<1> HIDE DEF brought, grown, held, off, twice, most, least, n, R, T
<1>9. /\ Sum(brought, Stores) \in Int /\ Sum(grown, Stores) \in Int
      /\ Sum(held, Stores) \in Int /\ Sum(off, Stores) \in Int
  BY <1>1, <1>5, SumType
<1>10. Sum(held, Stores) = T * Sum(grown, Stores)
  BY <1>1, <1>3, <1>5, SumScaled
<1>11. Sum(brought, Stores) = Sum(off, Stores) + Sum(held, Stores)
  BY <1>1, <1>5, SumOfSums
<1>12. Sum(twice, Stores) = 2 * Sum(off, Stores)
  BY <1>1, <1>5, SumScaled
<1>13. Sum(least, Stores) <= Sum(twice, Stores) /\ Sum(twice, Stores) <= Sum(most, Stores)
  <2>1. \A c \in Stores : least[c] \in Int /\ most[c] \in Int
    BY <1>3, <1>5
  <2> QED
    BY <1>1, <1>5, <2>1, SumGrows
<1>14. Sum(most, Stores) = n * R /\ Sum(least, Stores) = n * (-R)
  BY <1>1, <1>3, <1>5, SumOfSame DEF n
<1>15. n * R \in Nat /\ n * (-R) = -(n * R)
  BY <1>1, <1>3
<1>16. 2 * Sum(off, Stores) \in -(n * R) .. n * R
  <2> DEFINE m == n * R
  <2> HIDE DEF m
  <2>1. m \in Nat /\ -m <= 2 * Sum(off, Stores) /\ 2 * Sum(off, Stores) <= m
    BY <1>12, <1>13, <1>14, <1>15 DEF m
  <2>2. 2 * Sum(off, Stores) \in -m .. m
    BY <1>9, <2>1
  <2> QED
    BY <2>2 DEF m
<1>17. Balance = Sum(off, Stores)
  <2> DEFINE change == StorageCharge - StorageDischarge
  <2>1. /\ EnergyActual(SourceConns) + EnergyActual(EnvironmentConns)
             = EnergyActual(LoadConns) + EnergyActual(WasteConns) + TotalGain
        /\ EnergyActual(SourceConns) \in Int /\ EnergyActual(EnvironmentConns) \in Int
        /\ EnergyActual(LoadConns) \in Int /\ EnergyActual(WasteConns) \in Int
        /\ TotalGain \in Int
    BY EnergyIsGained
  <2>2. change \in Int
    BY <1>7
  <2>3. Balance = EnergyActual(SourceConns) + EnergyActual(EnvironmentConns)
                  - (EnergyActual(LoadConns) + change * T + EnergyActual(WasteConns))
    BY DEF Balance, T
  <2>4. change = Sum(grown, Stores)
    BY <1>7
  <2> HIDE DEF change
  <2>5. change * T = Sum(held, Stores)
    BY <1>3, <1>10, <2>2, <2>4
  <2> QED
    BY <1>6, <1>9, <1>11, <2>1, <2>3, <2>5
<1> QED
  BY <1>8, <1>16, <1>17 DEF EnergyBalances, n

(* The books of a finished run balance: what the sources and the           *)
(* environment gave is what the loads took, the sinks wasted and the stores*)
(* gained - exactly, or to the rounding of each store in the intervals that*)
(* are not whole seconds.  The balance column of the statistics shows no   *)
(* energy made or lost in the networks wired port by port, unless the      *)
(* solver is cut short or a converter asks for more than a flow can carry. *)
THEOREM EnergyAddsUp ==
  ASSUME EveryChangeIsTold, EachPortIsWiredOnce, NothingIsMadeOfNothing,
         ScheduledLoadsDoNotFail
  PROVE  Spec /\ [](~ CutShort /\ ~ RequestsOverflow) => []EnergyBalances
<1>1. IInv /\ EventInv /\ RecordInv /\ RowsPass /\ AmountsAreShown
        /\ StoredEnergyIsAccountedFor => EnergyBalances
  BY EnergyWithinRounding DEF EnergyBalances
<1>2. ConvertersAreWired
  BY WiredConverters
<1>3. Spec /\ [](~ CutShort) => []StoredEnergyIsAccountedFor
  BY <1>2, StoredEnergyAddsUp
<1> QED
  BY <1>1, <1>3, IInvHolds, EventInvHolds, RecordInvHolds, RowsPassHolds,
     AmountsAreShownHolds, PTL

=============================================================================
