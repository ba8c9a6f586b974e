---------------------------- MODULE EventProofs ----------------------------
(***************************************************************************)
(* No event is stepped over: an index into a schedule stands where the     *)
(* clock is, so the next event is the earliest time anything changes after *)
(* the present one, and the clock stops at every such time.  Failures and  *)
(* repairs therefore happen when they are scheduled.                       *)
(***************************************************************************)
EXTENDS SimulationProofs

(* An index stands at the last entry that is not after a time, or at the   *)
(* first one of all.                                                       *)
Stands(schedule, i, time) ==
  /\ i > 1 => schedule[i].time <= time
  /\ \A j \in i + 1 .. Len(schedule) : schedule[j].time > time

IndicesFollowTime ==
  /\ \A c \in Loads : Stands(model.load[c], ss.loadIdx[c], t)
  /\ \A c \in Sources : Stands(model.avail[c], ss.srcIdx[c], t)

ClockInRange == t <= FinalTime /\ (pc = "advance" => t < FinalTime)

(* Where the flows of the present time have been recorded.                 *)
AfterRecord == pc \in {"advance", "done", "assertionFailed"}

RecordedInOrder ==
  /\ \A i, j \in DOMAIN timeAndFlows :
       i < j => timeAndFlows[i].time < timeAndFlows[j].time
  /\ \A i \in DOMAIN timeAndFlows :
       timeAndFlows[i].time < t \/ (AfterRecord /\ timeAndFlows[i].time = t)

PastEventsRecorded ==
  \A e \in EventTimes : e < t \/ (AfterRecord /\ e = t) => e \in Recorded

EventInv ==
  /\ model \in Models
  /\ IndicesFollowTime
  /\ ClockInRange
  /\ RecordedInOrder
  /\ PastEventsRecorded

-----------------------------------------------------------------------------
(* One schedule.                                                           *)

(* The next entry NextEvent looks at is later than the present ...         *)
LEMMA NextEntryIsLater ==
  ASSUME NEW schedule \in ScheduleOfFlows, NEW i \in 1 .. Len(schedule),
         NEW now \in Nat, Stands(schedule, i, now),
         NEW x \in NextScheduled(schedule, i)
  PROVE  x > now
<1>1. Len(schedule) \in Nat
  BY DEF ScheduleOfFlows
<1>2. i + 1 \in i + 1 .. Len(schedule) /\ x = schedule[i + 1].time
  BY <1>1 DEF NextScheduled
<1> QED
  BY <1>2 DEF Stands

(* ... and no entry that is later than the present comes before it.        *)
LEMMA NextEntryIsEarliest ==
  ASSUME NEW schedule \in ScheduleOfFlows, Increasing(schedule),
         NEW i \in 1 .. Len(schedule), NEW now \in Nat, Stands(schedule, i, now),
         NEW e \in LaterTimes(schedule), e > now
  PROVE  \E x \in NextScheduled(schedule, i) : x <= e
<1>1. PICK j \in 2 .. Len(schedule) : e = schedule[j].time
  BY DEF LaterTimes
<1>2. Len(schedule) \in Nat /\ DOMAIN schedule = 1 .. Len(schedule)
  BY DEF ScheduleOfFlows
<1>3. \A k \in 1 .. Len(schedule) : schedule[k].time \in Nat
  BY ScheduledAmount
<1>4. j > i
  <2>1. SUFFICES ASSUME j <= i PROVE FALSE
    BY <1>1, <1>2
  <2>2. i > 1 /\ schedule[i].time <= now
    BY <1>1, <1>2, <2>1 DEF Stands
  <2>3. schedule[j].time <= schedule[i].time
    <3>1. CASE j = i
      BY <1>2, <1>3, <3>1
    <3>2. CASE j < i
      <4>1. schedule[j].time < schedule[i].time
        BY <1>1, <1>2, <3>2 DEF Increasing
      <4> QED
        BY <1>1, <1>2, <1>3, <4>1
    <3> QED
      BY <1>1, <1>2, <2>1, <3>1, <3>2
  <2> QED
    BY <1>1, <1>2, <1>3, <2>2, <2>3
<1>5. i + 1 \in 1 .. Len(schedule) /\ NextScheduled(schedule, i) = {schedule[i + 1].time}
  BY <1>1, <1>2, <1>4 DEF NextScheduled
<1>6. schedule[i + 1].time <= schedule[j].time
  <2>1. CASE j = i + 1
    BY <1>3, <1>5, <2>1
  <2>2. CASE i + 1 < j
    <3>1. schedule[i + 1].time < schedule[j].time
      BY <1>1, <1>2, <1>5, <2>2 DEF Increasing
    <3> QED
      BY <1>1, <1>2, <1>3, <1>5, <3>1
  <2> QED
    BY <1>1, <1>2, <1>4, <2>1, <2>2
<1> QED
  BY <1>1, <1>5, <1>6

(* Update...NextEvent brings an index to where it has to stand when the    *)
(* clock does not pass the next entry.                                     *)
LEMMA IndexAtStands ==
  ASSUME NEW schedule \in ScheduleOfFlows, Increasing(schedule),
         NEW i \in 1 .. Len(schedule), NEW now \in Nat, Stands(schedule, i, now),
         NEW next \in Nat, next > now,
         \A x \in NextScheduled(schedule, i) : next <= x
  PROVE  Stands(schedule, IndexAt(schedule, i, next), next)
<1>1. Len(schedule) \in Nat /\ DOMAIN schedule = 1 .. Len(schedule)
  BY DEF ScheduleOfFlows
<1>2. \A k \in 1 .. Len(schedule) : schedule[k].time \in Nat
  BY ScheduledAmount
<1>3. CASE i + 1 <= Len(schedule) /\ schedule[i + 1].time = next
  <2>1. IndexAt(schedule, i, next) = i + 1
    BY <1>3 DEF IndexAt
  <2>2. schedule[i + 1].time <= next
    BY <1>3
  <2>3. \A j \in (i + 1) + 1 .. Len(schedule) : schedule[j].time > next
    <3> TAKE j \in (i + 1) + 1 .. Len(schedule)
    <3>1. i + 1 \in 1 .. Len(schedule) /\ j \in 1 .. Len(schedule) /\ i + 1 < j
      BY <1>1
    <3>2. schedule[i + 1].time < schedule[j].time
      BY <1>1, <3>1 DEF Increasing
    <3> QED
      BY <1>3, <3>2
  <2> QED
    BY <2>1, <2>2, <2>3 DEF Stands
<1>4. CASE ~ (i + 1 <= Len(schedule) /\ schedule[i + 1].time = next)
  <2>1. IndexAt(schedule, i, next) = i
    BY <1>4 DEF IndexAt
  <2>2. i > 1 => schedule[i].time <= next
    <3>1. i > 1 => schedule[i].time <= now
      BY DEF Stands
    <3> QED
      BY <1>2, <3>1
  <2>3. \A j \in i + 1 .. Len(schedule) : schedule[j].time > next
    <3> TAKE j \in i + 1 .. Len(schedule)
    <3>1. i + 1 \in 1 .. Len(schedule) /\ j \in 1 .. Len(schedule)
      BY <1>1
    <3>2. next <= schedule[i + 1].time
      BY <3>1 DEF NextScheduled
    <3>3. schedule[i + 1].time > next
      BY <1>2, <1>4, <3>1, <3>2
    <3>4. CASE j = i + 1
      BY <3>3, <3>4
    <3>5. CASE i + 1 < j
      <4>1. schedule[i + 1].time < schedule[j].time
        BY <1>1, <3>1, <3>5 DEF Increasing
      <4> QED
        BY <1>2, <3>1, <3>3, <4>1
    <3> QED
      BY <1>1, <3>1, <3>4, <3>5
  <2> QED
    BY <2>1, <2>2, <2>3 DEF Stands
<1> QED
  BY <1>3, <1>4

-----------------------------------------------------------------------------
(* All schedules.                                                          *)

LEMMA SchedulesOfModel ==
  ASSUME IInv, EventInv
  PROVE  /\ \A c \in Loads :
              /\ model.load[c] \in ScheduleOfFlows
              /\ Increasing(model.load[c])
              /\ ss.loadIdx[c] \in 1 .. Len(model.load[c])
              /\ Stands(model.load[c], ss.loadIdx[c], t)
         /\ \A c \in Sources :
              /\ model.avail[c] \in ScheduleOfFlows
              /\ Increasing(model.avail[c])
              /\ ss.srcIdx[c] \in 1 .. Len(model.avail[c])
              /\ Stands(model.avail[c], ss.srcIdx[c], t)
<1>1. SchedulesOfFlows(model) /\ IndicesInRange(model, ss) /\ IndicesFollowTime
  BY ModelSchedules DEF IInv, TypeOK, EventInv
<1>2. /\ \A c \in Loads : Increasing(model.load[c])
      /\ \A c \in Sources : Increasing(model.avail[c])
  BY SimulationAssumption DEF EventInv
<1> QED
  BY <1>1, <1>2 DEF SchedulesOfFlows, IndicesInRange, IndicesFollowTime, Loads, Sources

(* Events are at times.                                                    *)
LEMMA EventTimesType ==
  ASSUME IInv
  PROVE  EventTimes \subseteq Nat
<1> SchedulesOfFlows(model)
  BY ModelSchedules DEF IInv, TypeOK
<1>1. \A schedule \in ScheduleOfFlows : LaterTimes(schedule) \subseteq Nat
  <2> TAKE schedule \in ScheduleOfFlows
  <2>1. \A i \in 2 .. Len(schedule) : i \in 1 .. Len(schedule)
    BY DEF ScheduleOfFlows
  <2> QED
    BY <2>1, ScheduledAmount DEF LaterTimes
<1>2. \A i \in DOMAIN model.rel : \A j \in DOMAIN model.rel[i].states :
        model.rel[i].states[j].time \in Nat
  BY StateTimesType DEF IInv, TypeOK
<1> QED
  BY <1>1, <1>2 DEF EventTimes, SchedulesOfFlows, Loads, Sources

(* The clock moves on, and to nothing later than the first event to come.  *)
LEMMA NextEventIsEarliest ==
  ASSUME IInv, EventInv, pc = "advance",
         NEW next \in NextEvents \cup {FinalTime},
         \A other \in NextEvents \cup {FinalTime} : next <= other
  PROVE  /\ next > t
         /\ \A e \in EventTimes : e > t => next <= e
<1>1. /\ t \in Nat /\ t < FinalTime /\ next \in Nat
      /\ NextEvents \cup {FinalTime} \subseteq Nat
  BY NextEventsType DEF IInv, TypeOK, EventInv, ClockInRange
<1>2. next > t
  <2>1. \A c \in Loads : \A x \in NextScheduled(model.load[c], ss.loadIdx[c]) : x > t
    BY <1>1, SchedulesOfModel, NextEntryIsLater
  <2>2. \A c \in Sources : \A x \in NextScheduled(model.avail[c], ss.srcIdx[c]) : x > t
    BY <1>1, SchedulesOfModel, NextEntryIsLater
  <2> QED
    BY <1>1, <2>1, <2>2 DEF NextEvents, Upcoming
<1>3. ASSUME NEW e \in EventTimes, e > t
      PROVE  \E x \in NextEvents : x <= e
  <2>1. CASE \E c \in Loads : e \in LaterTimes(model.load[c])
    <3>1. PICK c \in Loads : e \in LaterTimes(model.load[c])
      BY <2>1
    <3>2. \E x \in NextScheduled(model.load[c], ss.loadIdx[c]) : x <= e
      BY <1>1, <1>3, <3>1, SchedulesOfModel, NextEntryIsEarliest
    <3> QED
      BY <3>2 DEF NextEvents
  <2>2. CASE \E c \in Sources : e \in LaterTimes(model.avail[c])
    <3>1. PICK c \in Sources : e \in LaterTimes(model.avail[c])
      BY <2>2
    <3>2. \E x \in NextScheduled(model.avail[c], ss.srcIdx[c]) : x <= e
      BY <1>1, <1>3, <3>1, SchedulesOfModel, NextEntryIsEarliest
    <3> QED
      BY <3>2 DEF NextEvents
  <2>3. CASE \E i \in DOMAIN model.rel : \E j \in DOMAIN model.rel[i].states :
               e = model.rel[i].states[j].time
    <3>1. e \in NextEvents
      BY <1>3, <2>3 DEF NextEvents, Upcoming
    <3>2. e \in Nat
      BY EventTimesType
    <3> QED
      BY <3>1, <3>2
  <2> QED
    BY <2>1, <2>2, <2>3 DEF EventTimes
<1>4. ASSUME NEW e \in EventTimes, e > t
      PROVE  next <= e
  <2>1. PICK x \in NextEvents : x <= e
    BY <1>3, <1>4
  <2>2. next <= x /\ x \in Nat /\ e \in Nat
    BY <1>1, <2>1, EventTimesType
  <2> QED
    BY <1>1, <2>1, <2>2
<1> QED
  BY <1>2, <1>4

(* So are the recorded flows.                                              *)
LEMMA RecordedTimesType ==
  ASSUME IInv, NEW i \in DOMAIN timeAndFlows
  PROVE  timeAndFlows[i].time \in Nat
<1>1. timeAndFlows \in Seq(Snapshot)
  BY DEF IInv, TypeOK
<1>2. timeAndFlows[i] \in Snapshot
  <2> HIDE DEF Snapshot
  <2>1. i \in 1 .. Len(timeAndFlows)
    BY <1>1
  <2> QED
    BY <1>1, <2>1, EntryType
<1> QED
  BY <1>2 DEF Snapshot

-----------------------------------------------------------------------------
(* The steps.                                                              *)

LEMMA AdvanceKeepsEventInv ==
  ASSUME IInv, EventInv, Advance
  PROVE  EventInv'
<1>1. PICK next \in NextEvents \cup {FinalTime} :
        /\ \A other \in NextEvents \cup {FinalTime} : next <= other
        /\ IF AssertionsHold(next - t)
             THEN /\ ss' = [ss EXCEPT
                       !.amount  = [c \in Stores |-> AmountAfter(c, next - t)],
                       !.loadIdx = [c \in Loads |-> IndexAt(model.load[c], @[c], next)],
                       !.srcIdx  = [c \in Sources |-> IndexAt(model.avail[c], @[c], next)]]
                  /\ t' = next
                  /\ pc' = "reliability"
             ELSE /\ pc' = "assertionFailed"
                  /\ UNCHANGED <<ss, t>>
  BY DEF Advance
<1>2. pc = "advance" /\ UNCHANGED <<model, timeAndFlows>>
  BY DEF Advance
<1>3. next > t /\ \A e \in EventTimes : e > t => next <= e
  BY <1>1, <1>2, NextEventIsEarliest
<1>4. t \in Nat /\ next \in Nat /\ FinalTime \in Nat /\ ss \in State
  BY NextEventsType DEF IInv, TypeOK
<1>5. CASE ~ AssertionsHold(next - t)
  <2>1. pc' = "assertionFailed" /\ UNCHANGED <<ss, t>>
    BY <1>1, <1>5
  <2> QED
    BY <1>2, <2>1
       DEF EventInv, IndicesFollowTime, ClockInRange, RecordedInOrder, AfterRecord,
           PastEventsRecorded, EventTimes, Recorded
<1>6. CASE AssertionsHold(next - t)
  <2>1. t' = next /\ pc' = "reliability"
    BY <1>1, <1>6
  <2>2. /\ \A c \in Loads : ss'.loadIdx[c] = IndexAt(model.load[c], ss.loadIdx[c], next)
        /\ \A c \in Sources : ss'.srcIdx[c] = IndexAt(model.avail[c], ss.srcIdx[c], next)
    <3> DEFINE amount  == [c \in Stores |-> AmountAfter(c, next - t)]
               loadIdx == [c \in Loads |-> IndexAt(model.load[c], ss.loadIdx[c], next)]
               srcIdx  == [c \in Sources |-> IndexAt(model.avail[c], ss.srcIdx[c], next)]
    <3>1. ss' = [ss EXCEPT !.amount = amount, !.loadIdx = loadIdx, !.srcIdx = srcIdx]
      BY <1>1, <1>6
    <3> HIDE DEF amount, loadIdx, srcIdx
    <3>2. ss'.loadIdx = loadIdx /\ ss'.srcIdx = srcIdx
      BY <1>4, <3>1 DEF State
    <3> QED
      BY <3>2 DEF loadIdx, srcIdx
  <2>3. /\ \A c \in Loads : \A x \in NextScheduled(model.load[c], ss.loadIdx[c]) : next <= x
        /\ \A c \in Sources : \A x \in NextScheduled(model.avail[c], ss.srcIdx[c]) : next <= x
    BY <1>1 DEF NextEvents
  <2>4. \A c \in Loads : Stands(model.load[c], ss'.loadIdx[c], next)
    BY <1>3, <1>4, <2>2, <2>3, SchedulesOfModel, IndexAtStands
  <2>5. \A c \in Sources : Stands(model.avail[c], ss'.srcIdx[c], next)
    BY <1>3, <1>4, <2>2, <2>3, SchedulesOfModel, IndexAtStands
  <2>6. IndicesFollowTime'
    BY <1>2, <2>1, <2>4, <2>5 DEF IndicesFollowTime
  <2>7. ClockInRange'
    BY <1>1, <2>1 DEF ClockInRange
  <2>8. RecordedInOrder'
    <3>1. \A i \in DOMAIN timeAndFlows : timeAndFlows[i].time \in Nat
      BY RecordedTimesType
    <3>2. \A i \in DOMAIN timeAndFlows : timeAndFlows[i].time <= t
      BY <1>4, <3>1 DEF EventInv, RecordedInOrder
    <3>3. \A i \in DOMAIN timeAndFlows : timeAndFlows[i].time < next
      BY <1>3, <1>4, <3>1, <3>2
    <3> QED
      BY <1>2, <2>1, <3>3 DEF EventInv, RecordedInOrder
  <2>9. PastEventsRecorded'
    <3>1. ASSUME NEW e \in EventTimes, e < next PROVE e \in Recorded
      <4>1. e \in Nat /\ ~ (e > t)
        BY <1>3, <1>4, <3>1, EventTimesType
      <4>2. e < t \/ (AfterRecord /\ e = t)
        BY <1>2, <1>4, <4>1 DEF AfterRecord
      <4> QED
        BY <4>2 DEF EventInv, PastEventsRecorded
    <3>2. EventTimes' = EventTimes /\ Recorded' = Recorded /\ ~ AfterRecord'
      BY <1>2, <2>1 DEF EventTimes, Recorded, AfterRecord
    <3> QED
      BY <2>1, <3>1, <3>2 DEF PastEventsRecorded
  <2> QED
    BY <1>2, <2>6, <2>7, <2>8, <2>9 DEF EventInv
<1> QED
  BY <1>5, <1>6

LEMMA RecordKeepsEventInv ==
  ASSUME IInv, EventInv, Record
  PROVE  EventInv'
<1> DEFINE entry == [time |-> t, req |-> ss.req, avail |-> ss.avail,
                     actual |-> ss.actual, amount |-> ss.amount]
           n == Len(timeAndFlows)
<1>1. /\ timeAndFlows' = Append(timeAndFlows, entry)
      /\ UNCHANGED <<model, ss, t>> /\ pc = "loop"
      /\ pc' = IF t = FinalTime THEN "done" ELSE "advance"
  BY DEF Record
<1>2. timeAndFlows \in Seq(Snapshot) /\ t \in Nat /\ FinalTime \in Nat
  BY SimulationAssumption DEF IInv, TypeOK
<1>3. entry.time = t
  OBVIOUS
<1> HIDE DEF entry
<1>4. /\ n \in Nat /\ DOMAIN timeAndFlows = 1 .. n
      /\ DOMAIN timeAndFlows' = 1 .. n + 1
      /\ \A i \in 1 .. n : timeAndFlows'[i] = timeAndFlows[i]
      /\ timeAndFlows'[n + 1] = entry
  <2> HIDE DEF Snapshot
  <2> QED
    BY <1>1, <1>2
<1> HIDE DEF n
<1>5. \A i \in 1 .. n : timeAndFlows[i].time < t
  BY <1>1, <1>4 DEF EventInv, RecordedInOrder, AfterRecord
<1>6. \A i \in 1 .. n + 1 : timeAndFlows'[i].time < t \/ timeAndFlows'[i].time = t
  <2> TAKE i \in 1 .. n + 1
  <2>1. i \in 1 .. n \/ i = n + 1
    BY <1>4
  <2> QED
    BY <1>3, <1>4, <1>5, <2>1
<1>7. \A i, j \in 1 .. n + 1 : i < j => timeAndFlows'[i].time < timeAndFlows'[j].time
  <2> TAKE i, j \in 1 .. n + 1
  <2>1. HAVE i < j
  <2>2. i \in 1 .. n /\ (j \in 1 .. n \/ j = n + 1)
    BY <1>4, <2>1
  <2>3. CASE j \in 1 .. n
    BY <1>4, <2>1, <2>2, <2>3 DEF EventInv, RecordedInOrder
  <2>4. CASE j = n + 1
    BY <1>3, <1>4, <1>5, <2>2, <2>4
  <2> QED
    BY <2>2, <2>3, <2>4
<1>8. AfterRecord' /\ t' = t /\ model' = model
  BY <1>1 DEF AfterRecord
<1>9. RecordedInOrder'
  BY <1>4, <1>6, <1>7, <1>8 DEF RecordedInOrder
<1>10. PastEventsRecorded'
  <2>1. Recorded \subseteq Recorded' /\ t \in Recorded'
    <3>1. n + 1 \in 1 .. n + 1 /\ \A i \in 1 .. n : i \in 1 .. n + 1
      BY <1>4
    <3> QED
      BY <1>3, <1>4, <3>1 DEF Recorded
  <2>2. EventTimes' = EventTimes
    BY <1>8 DEF EventTimes
  <2> QED
    BY <1>8, <2>1, <2>2 DEF EventInv, PastEventsRecorded
<1>11. IndicesFollowTime' /\ ClockInRange'
  BY <1>1, <1>2 DEF EventInv, IndicesFollowTime, ClockInRange
<1> QED
  BY <1>8, <1>9, <1>10, <1>11 DEF EventInv

(* Every other step leaves the clock, the indices and the results alone.   *)
LEMMA OtherStepsKeepEventInv ==
  ASSUME IInv, EventInv, Next, ~ Advance, ~ Record
  PROVE  EventInv'
<1>1. CASE UNCHANGED vars
  BY <1>1 DEF vars, EventInv, IndicesFollowTime, ClockInRange, RecordedInOrder,
              AfterRecord, PastEventsRecorded, EventTimes, Recorded
<1>2. CASE ~ UNCHANGED vars
  <2>1. /\ UNCHANGED <<model, t, timeAndFlows>>
        /\ ~ AfterRecord /\ ~ AfterRecord'
    BY <1>2 DEF Next, ActivateReliability, Activate, NextPhase, PhaseAfter, BeginRun,
       TakeBackward, StepBackward, EndBackward, TakeForward, StepForward, EndForward,
       Finalize, RunSwitchLogic, Terminated, AfterRecord
  <2>2. ss'.loadIdx = ss.loadIdx /\ ss'.srcIdx = ss.srcIdx
    BY OnlyAdvanceMovesIndices DEF Kept
  <2>3. EventTimes' = EventTimes /\ Recorded' = Recorded
    BY <2>1 DEF EventTimes, Recorded
  <2>4. IndicesFollowTime'
    BY <2>1, <2>2 DEF EventInv, IndicesFollowTime
  <2>5. ClockInRange'
    BY <2>1 DEF EventInv, ClockInRange, AfterRecord
  <2>6. RecordedInOrder'
    BY <2>1 DEF EventInv, RecordedInOrder
  <2>7. PastEventsRecorded'
    BY <2>1, <2>3 DEF EventInv, PastEventsRecorded
  <2> QED
    BY <2>1, <2>4, <2>5, <2>6, <2>7 DEF EventInv
<1> QED
  BY <1>1, <1>2

LEMMA InitEventInv ==
  ASSUME Init
  PROVE  EventInv
<1>1. /\ model \in Models /\ t = 0 /\ pc = "reliability" /\ timeAndFlows = <<>>
      /\ model \in ModelType
  BY SimulationAssumption DEF Init
<1>2. IInv
  BY InitIInv
<1>3. /\ \A c \in Loads : ss.loadIdx[c] = 1
      /\ \A c \in Sources : ss.srcIdx[c] = 1
  BY DEF Init, InitialState, Loads, Sources
<1>4. ASSUME NEW schedule \in ScheduleOfFlows, Len(schedule) \in Nat \ {0},
             Increasing(schedule)
      PROVE  Stands(schedule, 1, 0)
  <2>1. DOMAIN schedule = 1 .. Len(schedule)
    BY DEF ScheduleOfFlows
  <2>2. ASSUME NEW j \in 2 .. Len(schedule) PROVE schedule[j].time > 0
    <3>1. schedule[1].time < schedule[j].time
      BY <1>4, <2>1 DEF Increasing
    <3>2. 1 \in 1 .. Len(schedule) /\ j \in 1 .. Len(schedule)
      BY <1>4
    <3>3. schedule[1].time \in Nat /\ schedule[j].time \in Nat
      BY <3>2, ScheduledAmount
    <3> QED
      BY <3>1, <3>3
  <2> QED
    BY <2>2 DEF Stands
<1>5. IndicesFollowTime
  <2>1. /\ \A c \in Loads : /\ model.load[c] \in ScheduleOfFlows
                             /\ Increasing(model.load[c])
                             /\ 1 \in 1 .. Len(model.load[c])
        /\ \A c \in Sources : /\ model.avail[c] \in ScheduleOfFlows
                               /\ Increasing(model.avail[c])
                               /\ 1 \in 1 .. Len(model.avail[c])
    BY <1>1, <1>2, <1>3, ModelSchedules, SimulationAssumption
       DEF IInv, IndicesInRange, SchedulesOfFlows, Loads, Sources
  <2>2. \A schedule \in ScheduleOfFlows : 1 \in 1 .. Len(schedule) =>
          Len(schedule) \in Nat \ {0}
    BY DEF ScheduleOfFlows
  <2> QED
    BY <1>1, <1>3, <1>4, <2>1, <2>2 DEF IndicesFollowTime
<1>6. ClockInRange
  BY <1>1, SimulationAssumption DEF ClockInRange
<1>7. RecordedInOrder
  BY <1>1 DEF RecordedInOrder
<1>8. PastEventsRecorded
  <2>1. \A e \in EventTimes : e \in Nat
    BY <1>2, EventTimesType
  <2> QED
    BY <1>1, <2>1 DEF PastEventsRecorded, AfterRecord
<1> QED
  BY <1>1, <1>5, <1>6, <1>7, <1>8 DEF EventInv

LEMMA EventInvHolds == Spec => []EventInv
<1>1. Init => EventInv
  BY InitEventInv
<1>2. IInv /\ EventInv /\ [Next]_vars => EventInv'
  <2> SUFFICES ASSUME IInv, EventInv, [Next]_vars PROVE EventInv'
    OBVIOUS
  <2>1. CASE Advance
    BY <2>1, AdvanceKeepsEventInv
  <2>2. CASE Record
    BY <2>2, RecordKeepsEventInv
  <2>3. CASE Next /\ ~ Advance /\ ~ Record
    BY <2>3, OtherStepsKeepEventInv
  <2>4. CASE UNCHANGED vars
    BY <2>4 DEF vars, EventInv, IndicesFollowTime, ClockInRange, RecordedInOrder,
                AfterRecord, PastEventsRecorded, EventTimes, Recorded
  <2> QED
    BY <2>1, <2>2, <2>3, <2>4
<1> QED
  BY <1>1, <1>2, IInvHolds, PTL DEF Spec

(* In every simulation the recorded times strictly increase and every      *)
(* change of a load, a supply or the state of a component is at one of     *)
(* them: Simulate, GetNextTime and NextEvent step over nothing.            *)
THEOREM NoEventIsMissed == Spec => []EventsAreRecorded
<1>1. IInv /\ EventInv => EventsAreRecorded
  <2> SUFFICES ASSUME IInv, EventInv, Settled PROVE EventsAreRecorded
    BY DEF EventsAreRecorded
  <2>1. AfterRecord /\ t \in Nat
    BY DEF Settled, AfterRecord, IInv, TypeOK
  <2>2. \A e \in EventTimes : e <= t => e \in Recorded
    BY <2>1, EventTimesType DEF EventInv, PastEventsRecorded
  <2> QED
    BY <2>2 DEF EventsAreRecorded, EventInv, RecordedInOrder
<1> QED
  BY <1>1, IInvHolds, EventInvHolds, PTL

-----------------------------------------------------------------------------
(* The calendar: the first time recorded is 0, and each later one is the   *)
(* next time anything happens or a time before that.                       *)

LastRecorded == timeAndFlows[Len(timeAndFlows)].time

NothingIsOverdue ==
  IF timeAndFlows = <<>>
    THEN t = 0 /\ ~ AfterRecord
    ELSE /\ AfterRecord => LastRecorded = t
         /\ \A e \in EventTimes : e > LastRecorded => AfterRecord \/ t <= e

(* The recorded times as a sequence, and its last entry.                   *)
LEMMA RecordedSequence ==
  ASSUME IInv
  PROVE  /\ Len(timeAndFlows) \in Nat
         /\ DOMAIN timeAndFlows = 1 .. Len(timeAndFlows)
         /\ timeAndFlows = <<>> <=> Len(timeAndFlows) = 0
         /\ timeAndFlows # <<>> => LastRecorded \in Nat
<1>1. timeAndFlows \in Seq(Snapshot)
  BY DEF IInv, TypeOK
<1>2. /\ Len(timeAndFlows) \in Nat
      /\ DOMAIN timeAndFlows = 1 .. Len(timeAndFlows)
      /\ timeAndFlows = <<>> <=> Len(timeAndFlows) = 0
  <2> HIDE DEF Snapshot
  <2> QED
    BY <1>1
<1>3. timeAndFlows # <<>> => Len(timeAndFlows) \in DOMAIN timeAndFlows
  BY <1>2
<1> QED
  BY <1>2, <1>3, RecordedTimesType DEF LastRecorded

LEMMA RecordKeepsNothingOverdue ==
  ASSUME IInv, EventInv, NothingIsOverdue, Record
  PROVE  NothingIsOverdue'
<1> DEFINE entry == [time |-> t, req |-> ss.req, avail |-> ss.avail,
                     actual |-> ss.actual, amount |-> ss.amount]
           n == Len(timeAndFlows)
<1>1. /\ timeAndFlows' = Append(timeAndFlows, entry)
      /\ UNCHANGED <<model, ss, t>>
      /\ pc' = IF t = FinalTime THEN "done" ELSE "advance"
  BY DEF Record
<1>2. entry.time = t
  OBVIOUS
<1> HIDE DEF entry
<1>3. Len(timeAndFlows') = n + 1 /\ timeAndFlows'[n + 1] = entry /\ n \in Nat
  <2>1. timeAndFlows \in Seq(Snapshot)
    BY DEF IInv, TypeOK
  <2> HIDE DEF Snapshot
  <2> QED
    BY <1>1, <2>1
<1>4. timeAndFlows' # <<>> /\ LastRecorded' = t
  BY <1>2, <1>3 DEF LastRecorded
<1>5. AfterRecord' /\ t' = t
  BY <1>1 DEF AfterRecord
<1> QED
  BY <1>4, <1>5 DEF NothingIsOverdue

LEMMA AdvanceKeepsNothingOverdue ==
  ASSUME IInv, EventInv, NothingIsOverdue, Advance
  PROVE  NothingIsOverdue'
<1>1. PICK next \in NextEvents \cup {FinalTime} :
        /\ \A other \in NextEvents \cup {FinalTime} : next <= other
        /\ \/ t' = next /\ pc' = "reliability"
           \/ UNCHANGED t /\ pc' = "assertionFailed"
  BY DEF Advance
<1>2. pc = "advance" /\ UNCHANGED <<model, timeAndFlows>>
  BY DEF Advance
<1>3. \A e \in EventTimes : e > t => next <= e
  BY <1>1, <1>2, NextEventIsEarliest
<1>4. timeAndFlows # <<>> /\ LastRecorded = t
  BY <1>2 DEF NothingIsOverdue, AfterRecord
<1>5. EventTimes' = EventTimes /\ LastRecorded' = t /\ timeAndFlows' # <<>>
  BY <1>2, <1>4 DEF EventTimes, LastRecorded
<1> QED
  BY <1>1, <1>3, <1>5 DEF NothingIsOverdue, AfterRecord

LEMMA OtherStepsKeepNothingOverdue ==
  ASSUME NothingIsOverdue, Next, ~ Advance, ~ Record
  PROVE  NothingIsOverdue' /\ UNCHANGED <<model, timeAndFlows>>
<1>1. CASE UNCHANGED vars
  BY <1>1 DEF vars, NothingIsOverdue, LastRecorded, AfterRecord, EventTimes
<1>2. CASE ~ UNCHANGED vars
  <2>1. /\ UNCHANGED <<model, t, timeAndFlows>>
        /\ ~ AfterRecord /\ ~ AfterRecord'
    BY <1>2 DEF Next, ActivateReliability, Activate, NextPhase, PhaseAfter, BeginRun,
       TakeBackward, StepBackward, EndBackward, TakeForward, StepForward, EndForward,
       Finalize, RunSwitchLogic, Terminated, AfterRecord
  <2>2. EventTimes' = EventTimes /\ LastRecorded' = LastRecorded
    BY <2>1 DEF EventTimes, LastRecorded
  <2> QED
    BY <2>1, <2>2 DEF NothingIsOverdue
<1> QED
  BY <1>1, <1>2

(* What is recorded is the next entry of the calendar.                     *)
LEMMA RecordIsAnEntry ==
  ASSUME IInv, EventInv, NothingIsOverdue, Record
  PROVE  Calendar!Next
<1> DEFINE entry == [time |-> t, req |-> ss.req, avail |-> ss.avail,
                     actual |-> ss.actual, amount |-> ss.amount]
           n == Len(timeAndFlows)
           times == [i \in DOMAIN timeAndFlows |-> timeAndFlows[i].time]
<1>1. /\ timeAndFlows' = Append(timeAndFlows, entry)
      /\ UNCHANGED model /\ ~ AfterRecord
  BY DEF Record, AfterRecord
<1>2. entry.time = t
  OBVIOUS
<1> HIDE DEF entry
<1>3. /\ n \in Nat /\ DOMAIN timeAndFlows = 1 .. n
      /\ DOMAIN timeAndFlows' = 1 .. n + 1
      /\ \A i \in 1 .. n : timeAndFlows'[i] = timeAndFlows[i]
      /\ timeAndFlows'[n + 1] = entry
      /\ timeAndFlows = <<>> <=> n = 0
  <2>1. timeAndFlows \in Seq(Snapshot)
    BY DEF IInv, TypeOK
  <2> HIDE DEF Snapshot
  <2> QED
    BY <1>1, <2>1
<1>4. t \in Nat /\ \A i \in 1 .. n : timeAndFlows[i].time \in Nat
  BY <1>3, RecordedTimesType DEF IInv, TypeOK
<1>5. EventTimes' = EventTimes
  BY <1>1 DEF EventTimes
<1> HIDE DEF n
<1>6. times \in Seq(Nat) /\ Len(times) = n
  BY <1>3, <1>4
<1>7. times' = Append(times, t)
  <2>1. times' = [i \in 1 .. n + 1 |-> timeAndFlows'[i].time]
    BY <1>3
  <2>2. Append(times, t) = [i \in 1 .. n + 1 |-> IF i \in 1 .. n THEN times[i] ELSE t]
    BY <1>3, <1>4, <1>6
  <2>3. \A i \in 1 .. n + 1 :
          timeAndFlows'[i].time = IF i \in 1 .. n THEN times[i] ELSE t
    <3> TAKE i \in 1 .. n + 1
    <3>1. i \in 1 .. n \/ i = n + 1
      BY <1>3
    <3> QED
      BY <1>2, <1>3, <3>1
  <2> QED
    BY <2>1, <2>2, <2>3
<1>8. CASE n = 0
  <2>1. times = <<>> /\ t = 0
    BY <1>3, <1>6, <1>8 DEF NothingIsOverdue
  <2>2. times' = <<0>>
    BY <1>7, <2>1
  <2> QED
    BY <1>5, <2>1, <2>2 DEF Calendar!Next, Calendar!Start
<1>9. CASE n # 0
  <2>1. n \in 1 .. n /\ timeAndFlows # <<>>
    BY <1>3, <1>9
  <2>2. times # <<>> /\ times[Len(times)] = LastRecorded /\ LastRecorded \in Nat
    BY <1>3, <1>4, <1>6, <2>1 DEF LastRecorded, n
  <2>3. LastRecorded < t /\ t <= FinalTime /\ FinalTime \in Nat
    BY <1>1, <1>3, <2>1, SimulationAssumption
       DEF EventInv, RecordedInOrder, ClockInRange, LastRecorded, n
  <2>4. \A e \in EventTimes : e > LastRecorded => t <= e
    BY <1>1, <2>1 DEF NothingIsOverdue
  <2>5. t \in LastRecorded + 1 .. FinalTime
    BY <1>4, <2>2, <2>3
  <2>6. Calendar!Now = LastRecorded
    BY <2>2 DEF Calendar!Now
  <2>7. Calendar!GoOn
    BY <1>7, <2>2, <2>4, <2>5, <2>6 DEF Calendar!GoOn
  <2> QED
    BY <1>5, <2>7 DEF Calendar!Next
<1> QED
  BY <1>8, <1>9

(* Whatever its components do, a simulation records times as its calendar  *)
(* lets it: 0 first, then a later and a later time, none of them past the  *)
(* next event or past FinalTime, and nothing recorded is taken back.  This *)
(* is the refinement KeepsTheCalendar without its liveness.                *)
THEOREM RecordsFollowTheCalendar == Spec => Calendar!Safety
<1>1. Init => NothingIsOverdue /\ Calendar!Init
  <2> SUFFICES ASSUME Init PROVE NothingIsOverdue /\ Calendar!Init
    OBVIOUS
  <2>1. IInv
    BY InitIInv
  <2>2. timeAndFlows = <<>> /\ t = 0 /\ ~ AfterRecord
    BY DEF Init, AfterRecord
  <2>3. [i \in DOMAIN timeAndFlows |-> timeAndFlows[i].time] = <<>>
    BY <2>2
  <2> QED
    BY <2>1, <2>2, <2>3, EventTimesType DEF NothingIsOverdue, Calendar!Init
<1>2. IInv /\ EventInv /\ NothingIsOverdue /\ [Next]_vars
        => NothingIsOverdue' /\ [Calendar!Next]_(Calendar!vars)
  <2> SUFFICES ASSUME IInv, EventInv, NothingIsOverdue, [Next]_vars
               PROVE  NothingIsOverdue' /\ [Calendar!Next]_(Calendar!vars)
    OBVIOUS
  <2>0. UNCHANGED <<model, timeAndFlows>> => UNCHANGED Calendar!vars
    BY DEF Calendar!vars, EventTimes
  <2>1. CASE Advance
    <3>1. UNCHANGED <<model, timeAndFlows>>
      BY <2>1 DEF Advance
    <3> QED
      BY <2>0, <2>1, <3>1, AdvanceKeepsNothingOverdue
  <2>2. CASE Record
    BY <2>2, RecordKeepsNothingOverdue, RecordIsAnEntry
  <2>3. CASE Next /\ ~ Advance /\ ~ Record
    BY <2>0, <2>3, OtherStepsKeepNothingOverdue
  <2>4. CASE UNCHANGED vars
    BY <2>0, <2>4
       DEF vars, AfterRecord, EventTimes, NothingIsOverdue, LastRecorded
  <2> QED
    BY <2>1, <2>2, <2>3, <2>4
<1> QED
  BY <1>1, <1>2, IInvHolds, EventInvHolds, PTL DEF Spec, Calendar!Safety

-----------------------------------------------------------------------------
(* The components out of service are those whose reliability schedules say *)
(* so.  Simulate applies a schedule only at the times it names, and does   *)
(* so before anything else at that time; this is enough because the clock  *)
(* stops at each of those times, and because the solver never changes who  *)
(* is in service, although it calls what a failure calls.                  *)

(* The last of some of the states of a schedule is a failure.              *)
LastIsFailure(i, past) ==
  \E j \in past : /\ \A h \in past : h <= j
                  /\ ~ model.rel[i].states[j].state

EnteredBefore(i) ==
  {j \in DOMAIN model.rel[i].states : model.rel[i].states[j].time < t}

Entered(i) ==
  {j \in DOMAIN model.rel[i].states : model.rel[i].states[j].time <= t}

(* Whether the loop over the reliability schedules has yet to come to one. *)
Pending(i) == pc = "reliability" /\ i \in todo

(* Who is out of service while the schedules are being applied.            *)
OutagesInForce ==
  pc # "exited" =>
    /\ \A c \in ss.down : \E i \in DOMAIN model.rel : model.rel[i].comp = c
    /\ \A i \in DOMAIN model.rel :
         model.rel[i].comp \in ss.down
           <=> LastIsFailure(i, IF Pending(i) THEN EnteredBefore(i) ELSE Entered(i))

-----------------------------------------------------------------------------
(* What a schedule has entered by now.                                     *)

LEMMA SchedulesOfOutages ==
  ASSUME IInv, EventInv, NEW i \in DOMAIN model.rel
  PROVE  /\ DOMAIN model.rel[i].states \subseteq Nat
         /\ Increasing(model.rel[i].states)
         /\ \A j \in DOMAIN model.rel[i].states :
              model.rel[i].states[j].time \in Nat
<1> DEFINE Entry == [time : Nat, state : BOOLEAN]
           Rel   == [comp : Comp, states : Seq(Entry)]
<1>1. model \in ModelType
  BY DEF IInv, TypeOK
<1>2. model.rel[i] \in Rel
  <2>1. model.rel \in Seq(Rel)
    BY <1>1 DEF ModelType
  <2> HIDE DEF Rel
  <2> QED
    BY <2>1, EntryType
<1>3. model.rel[i].states \in Seq(Entry)
  BY <1>2
<1>4. DOMAIN model.rel[i].states \subseteq Nat
  <2> HIDE DEF Entry
  <2> QED
    BY <1>3
<1> QED
  BY <1>1, <1>4, StateTimesType, SimulationAssumption DEF EventInv

(* Where nothing is entered at this very time, nothing changes.            *)
LEMMA NothingEnteredNow ==
  ASSUME IInv, EventInv, NEW i \in DOMAIN model.rel, StatesNow(i) = {}
  PROVE  Entered(i) = EnteredBefore(i)
<1>1. t \in Nat
  BY DEF IInv, TypeOK
<1> QED
  BY <1>1, SchedulesOfOutages DEF Entered, EnteredBefore, StatesNow

(* A state entered at this very time is the last one.                      *)
LEMMA EnteredNow ==
  ASSUME IInv, EventInv, NEW i \in DOMAIN model.rel, NEW j \in StatesNow(i)
  PROVE  LastIsFailure(i, Entered(i)) <=> ~ model.rel[i].states[j].state
<1> DEFINE states == model.rel[i].states
<1>1. t \in Nat /\ j \in DOMAIN states /\ states[j].time = t
  BY DEF IInv, TypeOK, StatesNow
<1>2. /\ DOMAIN states \subseteq Nat
      /\ Increasing(states)
      /\ \A h \in DOMAIN states : states[h].time \in Nat
  BY SchedulesOfOutages
<1>3. j \in Entered(i)
  BY <1>1 DEF Entered
<1>4. \A h \in Entered(i) : h <= j
  <2> SUFFICES ASSUME NEW h \in Entered(i), j < h PROVE FALSE
    BY <1>1, <1>2 DEF Entered
  <2>1. h \in DOMAIN states /\ states[h].time <= t
    BY DEF Entered
  <2>2. states[j].time < states[h].time
    BY <1>1, <1>2, <2>1 DEF Increasing
  <2> QED
    BY <1>1, <1>2, <2>1, <2>2
<1>5. \A h \in Entered(i) : (\A g \in Entered(i) : g <= h) => h = j
  <2> SUFFICES ASSUME NEW h \in Entered(i), \A g \in Entered(i) : g <= h
               PROVE  h = j
    OBVIOUS
  <2>1. h <= j /\ j <= h /\ h \in Nat /\ j \in Nat
    BY <1>1, <1>2, <1>3, <1>4 DEF Entered
  <2> QED
    BY <2>1
<1> QED
  BY <1>3, <1>4, <1>5 DEF LastIsFailure

-----------------------------------------------------------------------------
(* The steps.                                                              *)

(* A component has one schedule, so applying one disturbs no other.        *)
LEMMA ActivateReliabilityKeepsOutages ==
  ASSUME IInv, EventInv, OutagesInForce, NEW i \in todo, ActivateReliability(i)
  PROVE  OutagesInForce'
<1> DEFINE c == model.rel[i].comp
<1>1. /\ i \in DOMAIN model.rel /\ c \in Comp /\ ss \in State
      /\ SchedulesOfFlows(model) /\ IndicesInRange(model, ss)
  BY VisitsOfPhases, ModelSchedules DEF ActivateReliability, IInv, TypeOK
<1>2. pc = "reliability" /\ UNCHANGED <<model, t>>
  BY DEF ActivateReliability
<1>3. \A k \in DOMAIN model.rel : model.rel[k].comp = c => k = i
  BY <1>1, SimulationAssumption DEF EventInv
<1>4. \A k : EnteredBefore(k)' = EnteredBefore(k) /\ Entered(k)' = Entered(k)
  BY <1>2 DEF EnteredBefore, Entered
<1>5. \A k, past : LastIsFailure(k, past)' <=> LastIsFailure(k, past)
  BY <1>2 DEF LastIsFailure
<1>6. CASE pc' = "exited"
  BY <1>6 DEF OutagesInForce
<1>7. ASSUME pc' = pc, todo' = todo \ {i},
             ss'.down \in {ss.down, ss.down \cup {c}, ss.down \ {c}},
             c \in ss'.down <=> LastIsFailure(i, Entered(i))
      PROVE  OutagesInForce'
  <2>1. \A d : d # c => (d \in ss'.down <=> d \in ss.down)
    BY <1>7
  <2>2. \A d \in ss'.down : \E k \in DOMAIN model.rel : model.rel[k].comp = d
    BY <1>1, <1>2, <2>1 DEF OutagesInForce
  <2>3. ASSUME NEW k \in DOMAIN model.rel, k # i
        PROVE  model.rel[k].comp \in ss'.down
                 <=> LastIsFailure(k, IF pc' = "reliability" /\ k \in todo'
                                        THEN EnteredBefore(k) ELSE Entered(k))
    BY <1>2, <1>3, <1>7, <2>1, <2>3 DEF OutagesInForce, Pending
  <2>4. i \notin todo'
    BY <1>7
  <2> QED
    BY <1>2, <1>4, <1>5, <1>7, <2>2, <2>3, <2>4 DEF OutagesInForce, Pending
<1>8. CASE StatesNow(i) = {}
  <2>1. UNCHANGED <<ss, pc>> /\ todo' = todo \ {i}
    BY <1>8 DEF ActivateReliability
  <2>2. c \in ss.down <=> LastIsFailure(i, EnteredBefore(i))
    BY <1>1, <1>2 DEF OutagesInForce, Pending
  <2>3. Entered(i) = EnteredBefore(i)
    BY <1>1, <1>8, NothingEnteredNow
  <2> QED
    BY <1>7, <2>1, <2>2, <2>3
<1>9. CASE StatesNow(i) # {} /\ pc' # "exited"
  <2>1. PICK j \in StatesNow(i) :
          /\ IF model.rel[i].states[j].state
               THEN \E k \in RepairedLoadConns(c) :
                      ss' = SetComponentToRepaired(model, ss, c, k)
               ELSE ss' = SetComponentToFailed(ss, c)
          /\ todo' = todo \ {i} /\ UNCHANGED pc
    BY <1>9 DEF ActivateReliability
  <2>2. LastIsFailure(i, Entered(i)) <=> ~ model.rel[i].states[j].state
    BY <1>1, EnteredNow
  <2>3. CASE model.rel[i].states[j].state
    <3>1. ss'.down = ss.down \ {c}
      BY <1>1, <2>1, <2>3, RepairedType
    <3> QED
      BY <1>7, <2>1, <2>2, <2>3, <3>1
  <2>4. CASE ~ model.rel[i].states[j].state
    <3>1. ss'.down = ss.down \cup {c}
      BY <1>1, <2>1, <2>4, FailedType
    <3> QED
      BY <1>7, <2>1, <2>2, <2>4, <3>1
  <2> QED
    BY <2>3, <2>4
<1> QED
  BY <1>6, <1>8, <1>9

(* Between this time and the next, no schedule enters a state.             *)
LEMMA AdvanceKeepsOutages ==
  ASSUME IInv, EventInv, OutagesInForce, Advance
  PROVE  OutagesInForce'
<1>1. PICK next \in NextEvents \cup {FinalTime} :
        /\ \A other \in NextEvents \cup {FinalTime} : next <= other
        /\ \/ /\ t' = next /\ pc' = "reliability"
              /\ ss' = [ss EXCEPT
                   !.amount  = [c \in Stores |-> AmountAfter(c, next - t)],
                   !.loadIdx = [c \in Loads |-> IndexAt(model.load[c], @[c], next)],
                   !.srcIdx  = [c \in Sources |-> IndexAt(model.avail[c], @[c], next)]]
           \/ UNCHANGED <<ss, t>> /\ pc' = "assertionFailed"
  BY DEF Advance
<1>2. pc = "advance" /\ UNCHANGED model /\ todo' = DOMAIN model.rel
  BY DEF Advance, ItemsOf
<1>3. ss'.down = ss.down
  <2>1. ss \in State
    BY DEF IInv, TypeOK
  <2> QED
    BY <1>1, <2>1 DEF State
<1>4. t \in Nat /\ next \in Nat /\ next > t /\ \A e \in EventTimes : e > t => next <= e
  BY <1>1, <1>2, NextEventIsEarliest, NextEventsType DEF IInv, TypeOK
<1>5. \A i, past : LastIsFailure(i, past)' <=> LastIsFailure(i, past)
  BY <1>2 DEF LastIsFailure
<1>6. CASE UNCHANGED t /\ pc' = "assertionFailed"
  <2>1. \A i : Entered(i)' = Entered(i)
    BY <1>2, <1>6 DEF Entered
  <2> QED
    BY <1>2, <1>3, <1>5, <1>6, <2>1 DEF OutagesInForce, Pending
<1>7. CASE t' = next /\ pc' = "reliability"
  <2>1. ASSUME NEW i \in DOMAIN model.rel
        PROVE  EnteredBefore(i)' = Entered(i)
    <3>1. \A j \in DOMAIN model.rel[i].states :
            /\ model.rel[i].states[j].time \in Nat
            /\ model.rel[i].states[j].time \in EventTimes
      BY SchedulesOfOutages DEF EventTimes
    <3>2. \A j \in DOMAIN model.rel[i].states :
            model.rel[i].states[j].time < next <=> model.rel[i].states[j].time <= t
      BY <1>4, <3>1
    <3> QED
      BY <1>2, <1>7, <3>2 DEF EnteredBefore, Entered
  <2>2. \A i \in DOMAIN model.rel : Pending(i)' /\ ~ Pending(i)
    BY <1>2, <1>7 DEF Pending
  <2> QED
    BY <1>2, <1>3, <1>5, <2>1, <2>2 DEF OutagesInForce
<1> QED
  BY <1>1, <1>6, <1>7

LEMMA OtherStepsKeepOutages ==
  ASSUME IInv, OutagesInForce, Next, ~ Advance,
         \A i \in todo : ~ ActivateReliability(i)
  PROVE  OutagesInForce'
<1>1. ss'.down = ss.down
  BY OnlyReliabilityChangesService DEF Handled
<1>2. UNCHANGED <<model, t>>
  BY DEF Next, Activate, NextPhase, BeginRun, TakeBackward, StepBackward, EndBackward,
         TakeForward, StepForward, EndForward, Finalize, RunSwitchLogic, Record,
         Terminated, vars
<1>3. /\ pc' = "exited" <=> pc = "exited"
      /\ \A i \in DOMAIN model.rel : Pending(i)' <=> Pending(i)
  BY DEF Next, Activate, NextPhase, PhaseAfter, BeginRun, TakeBackward, StepBackward,
         EndBackward, TakeForward, StepForward, EndForward, Finalize, RunSwitchLogic,
         Record, Terminated, vars, Pending
<1>4. \A i : EnteredBefore(i)' = EnteredBefore(i) /\ Entered(i)' = Entered(i)
  BY <1>2 DEF EnteredBefore, Entered
<1>5. \A i, past : LastIsFailure(i, past)' <=> LastIsFailure(i, past)
  BY <1>2 DEF LastIsFailure
<1> QED
  BY <1>1, <1>2, <1>3, <1>4, <1>5 DEF OutagesInForce

LEMMA InitOutages ==
  ASSUME Init
  PROVE  OutagesInForce
<1>1. IInv /\ EventInv
  BY InitIInv, InitEventInv
<1>2. ss.down = {} /\ t = 0 /\ pc = "reliability" /\ todo = DOMAIN model.rel
  BY DEF Init, InitialState
<1>3. \A i \in DOMAIN model.rel : Pending(i) /\ EnteredBefore(i) = {}
  BY <1>1, <1>2, SchedulesOfOutages DEF Pending, EnteredBefore
<1> QED
  BY <1>2, <1>3 DEF OutagesInForce, LastIsFailure

(* In every simulation, whenever the flows of a time are recorded, exactly *)
(* those components are out of service whose own reliability schedule last *)
(* entered a failure: SetComponentToFailed and SetComponentToRepaired are  *)
(* called once for every state a schedule enters, and for nothing else.    *)
THEOREM ServiceFollowsTheSchedules == Spec => []OutOfServiceAsScheduled
<1>1. Spec => [](IInv /\ EventInv)
  BY IInvHolds, EventInvHolds, PTL
<1>2. Init => OutagesInForce
  BY InitOutages
<1>3. IInv /\ EventInv /\ OutagesInForce /\ [Next]_vars => OutagesInForce'
  <2> SUFFICES ASSUME IInv, EventInv, OutagesInForce, [Next]_vars
               PROVE  OutagesInForce'
    OBVIOUS
  <2>1. CASE \E i \in todo : ActivateReliability(i)
    BY <2>1, ActivateReliabilityKeepsOutages
  <2>2. CASE Advance
    BY <2>2, AdvanceKeepsOutages
  <2>3. CASE Next /\ ~ Advance /\ \A i \in todo : ~ ActivateReliability(i)
    BY <2>3, OtherStepsKeepOutages
  <2>4. CASE UNCHANGED vars
    BY <2>4 DEF vars, OutagesInForce, Pending, EnteredBefore, Entered, LastIsFailure
  <2> QED
    BY <2>1, <2>2, <2>3, <2>4
<1>4. IInv /\ OutagesInForce => OutOfServiceAsScheduled
  <2> SUFFICES ASSUME IInv, OutagesInForce, Settled PROVE OutOfServiceAsScheduled
    BY DEF OutOfServiceAsScheduled
  <2>1. \A i \in DOMAIN model.rel :
          model.rel[i].comp \in ss.down <=> FailedBySchedule(i)
    BY DEF Settled, OutagesInForce, Pending, LastIsFailure, Entered, FailedBySchedule
  <2>2. \A c \in ss.down : \E i \in DOMAIN model.rel : model.rel[i].comp = c
    BY DEF Settled, OutagesInForce
  <2> QED
    BY <2>1, <2>2 DEF OutOfServiceAsScheduled
<1> QED
  BY <1>1, <1>2, <1>3, <1>4, PTL DEF Spec


-----------------------------------------------------------------------------
(* The ledgers of the stores.                                              *)

(* The energy of a flow is rounded to the nearest joule, and not at all    *)
(* when the interval is of whole seconds.                                  *)
LEMMA EnergyRounds ==
  ASSUME NEW elapsed \in Nat, NEW flow \in Nat
  PROVE  /\ Energy(elapsed, flow) \in Nat
         /\ 2 * (elapsed * flow - Energy(elapsed, flow) * TicksPerSecond)
              \in -TicksPerSecond .. TicksPerSecond
         /\ elapsed % TicksPerSecond = 0
              => elapsed * flow = Energy(elapsed, flow) * TicksPerSecond
<1> DEFINE T == TicksPerSecond
           e == Energy(elapsed, flow)
           x == elapsed * flow
<1>1. T \in Nat \ {0} /\ 2 * T \in Nat \ {0}
  BY NetworkAssumption
<1>2. x \in Nat
  OBVIOUS
<1>3. e = (2 * x + T) \div (2 * T)
  <2>1. 2 * elapsed * flow = 2 * x
    OBVIOUS
  <2> QED
    BY <2>1 DEF Energy
<1>4. 2 * x + T \in Nat
  BY <1>1, <1>2
<1> HIDE DEF T, e, x
<1>5. /\ e \in Nat
      /\ (2 * T) * e <= 2 * x + T
      /\ 2 * x + T < (2 * T) * e + 2 * T
  BY <1>1, <1>3, <1>4, DivisionBounds
<1>6. (2 * T) * e = 2 * (e * T) /\ e * T \in Nat
  BY <1>1, <1>5
<1>7. 2 * (x - e * T) \in -T .. T
  BY <1>1, <1>2, <1>5, <1>6
<1>8. ASSUME elapsed % T = 0 PROVE x = e * T
  <2> DEFINE m == elapsed \div T
  <2>1. m \in Nat /\ elapsed = T * m
    BY <1>1, <1>8
  <2> HIDE DEF m
  <2>2. x = T * (m * flow) /\ m * flow \in Nat
    <3>1. (T * m) * flow = T * (m * flow)
      BY <1>1, <2>1
    <3> QED
      BY <2>1, <3>1 DEF x
  <2> DEFINE y == m * flow
  <2>3. x = T * y /\ y \in Nat
    BY <2>2
  <2> HIDE DEF y
  <2>4. 2 * x + T = (2 * T) * y + T
    BY <1>1, <2>3
  <2>5. T \in 0 .. 2 * T - 1
    BY <1>1
  <2>6. e = y
    BY <1>1, <1>3, <2>3, <2>4, <2>5, QuotientIs
  <2> QED
    BY <1>1, <2>3, <2>6
<1> QED
  BY <1>5, <1>7, <1>8 DEF T, e, x

LEMMA StoreFlowsType ==
  ASSUME NEW flows \in [Conn -> Flow], NEW c \in Stores
  PROVE  /\ flows[Outflow[c][0]] \in Nat
         /\ HasInflow(c, 0) => flows[Inflow[c][0]] \in Nat
         /\ HasOutflow(c, WastePort(c)) => flows[Outflow[c][WastePort(c)]] \in Nat
         /\ NetInflow(c, flows) \in Int
<1>1. c \in Comp /\ HasOutflow(c, 0)
  BY KnownKind DEF Stores, OfKind, WellConnected
<1>2. /\ flows[Outflow[c][0]] \in Nat
      /\ HasInflow(c, 0) => flows[Inflow[c][0]] \in Nat
      /\ HasOutflow(c, WastePort(c)) => flows[Outflow[c][WastePort(c)]] \in Nat
  BY <1>1, InflowType, OutflowType, FlowIsNat
<1> QED
  BY <1>2 DEF NetInflow

LEMMA NetEnergyRounds ==
  ASSUME ss \in State, NEW c \in Stores, NEW elapsed \in Nat
  PROVE  /\ NetEnergyAdded(c, elapsed) \in Int
         /\ Rounding(elapsed) \in Nat
         /\ 2 * (elapsed * NetInflow(c, ss.actual)
                   - NetEnergyAdded(c, elapsed) * TicksPerSecond)
              \in -Rounding(elapsed) .. Rounding(elapsed)
<1> DEFINE T == TicksPerSecond
           in  == IF HasInflow(c, 0) THEN ss.actual[Inflow[c][0]] ELSE 0
           out == ss.actual[Outflow[c][0]]
           waste == IF HasOutflow(c, WastePort(c))
                      THEN ss.actual[Outflow[c][WastePort(c)]] ELSE 0
           E(flow) == Energy(elapsed, flow)
           Off(flow) == 2 * (elapsed * flow - E(flow) * T)
<1>1. T \in Nat \ {0}
  BY NetworkAssumption
<1>2. in \in Nat /\ out \in Nat /\ waste \in Nat
  BY StoreFlowsType DEF State
<1>3. \A flow \in Nat : /\ E(flow) \in Nat
                        /\ Off(flow) \in -T .. T
                        /\ elapsed % T = 0 => Off(flow) = 0
  <2> TAKE flow \in Nat
  <2>1. elapsed % T = 0 => elapsed * flow = E(flow) * T
    BY EnergyRounds
  <2>2. elapsed * flow \in Nat
    OBVIOUS
  <2>3. E(flow) \in Nat /\ Off(flow) \in -T .. T
    BY EnergyRounds
  <2>4. elapsed % T = 0 => elapsed * flow - E(flow) * T = 0
    BY <2>1, <2>2
  <2> QED
    BY <2>3, <2>4
<1>4. E(0) = 0
  <2>1. 2 * elapsed * 0 + T = (2 * T) * 0 + T /\ 2 * T \in Nat \ {0} /\ T \in 0 .. 2 * T - 1
    BY <1>1
  <2>2. ((2 * T) * 0 + T) \div (2 * T) = 0
    BY <2>1, QuotientIs
  <2> QED
    BY <2>1, <2>2 DEF Energy
<1>5. NetInflow(c, ss.actual) = in - out - waste
  BY DEF NetInflow
<1>6. NetEnergyAdded(c, elapsed) = E(in) - E(out) - E(waste)
  <2>1. E(in) = IF HasInflow(c, 0) THEN E(ss.actual[Inflow[c][0]]) ELSE 0
    BY <1>4
  <2>2. E(waste) = IF HasOutflow(c, WastePort(c))
                     THEN E(ss.actual[Outflow[c][WastePort(c)]]) ELSE 0
    BY <1>4
  <2> QED
    BY <2>1, <2>2 DEF NetEnergyAdded
<1> HIDE DEF in, out, waste, E, T, Off
<1>7. /\ E(in) \in Nat /\ E(out) \in Nat /\ E(waste) \in Nat
      /\ elapsed * in \in Nat /\ elapsed * out \in Nat /\ elapsed * waste \in Nat
      /\ E(in) * T \in Nat /\ E(out) * T \in Nat /\ E(waste) * T \in Nat
  BY <1>1, <1>2, <1>3
<1>8. elapsed * (in - out - waste) = elapsed * in - elapsed * out - elapsed * waste
  BY <1>2
<1>9. (E(in) - E(out) - E(waste)) * T = E(in) * T - E(out) * T - E(waste) * T
  BY <1>1, <1>7
<1>10. 2 * (elapsed * (in - out - waste) - (E(in) - E(out) - E(waste)) * T)
         = Off(in) - Off(out) - Off(waste)
  BY <1>7, <1>8, <1>9 DEF Off
<1>11. /\ Off(in) \in -T .. T /\ Off(out) \in -T .. T /\ Off(waste) \in -T .. T
       /\ elapsed % T = 0 => Off(in) = 0 /\ Off(out) = 0 /\ Off(waste) = 0
  BY <1>2, <1>3
<1>12. Rounding(elapsed) = IF elapsed % T = 0 THEN 0 ELSE 3 * T
  BY DEF Rounding, T
<1>13. Off(in) - Off(out) - Off(waste) \in -Rounding(elapsed) .. Rounding(elapsed)
  BY <1>1, <1>11, <1>12
<1>14. NetEnergyAdded(c, elapsed) \in Int /\ Rounding(elapsed) \in Nat
  BY <1>1, <1>6, <1>7, <1>12
<1> QED
  BY <1>5, <1>6, <1>10, <1>13, <1>14 DEF T


LastRow == timeAndFlows[Len(timeAndFlows)]

(* What the intervals recorded before the last row have brought a store,   *)
(* and what may have been lost or won by rounding.                         *)
ChargedBefore(c) ==
  LET n == Len(timeAndFlows) IN Prefix([i \in 1 .. n - 1 |-> Charged(c, i)], n - 1)
RoundedBefore ==
  LET n == Len(timeAndFlows) IN Prefix([i \in 1 .. n - 1 |-> Rounding(Lasted(i))], n - 1)

(* The interval since the last row is accounted for from the moment the    *)
(* clock moves.                                                            *)
Discrepancy(c) ==
  2 * (ChargedBefore(c) + (t - LastRow.time) * NetInflow(c, LastRow.actual)
         - (ss.amount[c] - Part[c].initial) * TicksPerSecond)
Tolerance == RoundedBefore + Rounding(t - LastRow.time)

LedgerInv ==
  IF timeAndFlows = <<>>
    THEN ~ Settled /\ \A c \in Stores : ss.amount[c] = Part[c].initial
    ELSE /\ Settled => LastRow.time = t /\ LastRow.actual = ss.actual
         /\ \A c \in Stores : Discrepancy(c) \in -Tolerance .. Tolerance

LEMMA LedgerTypes ==
  ASSUME IInv, timeAndFlows # <<>>
  PROVE  LET n == Len(timeAndFlows)
         IN  /\ n \in Nat \ {0} /\ DOMAIN timeAndFlows = 1 .. n
             /\ \A i \in 1 .. n : /\ timeAndFlows[i].time \in Nat
                                  /\ timeAndFlows[i].actual \in [Conn -> Flow]
             /\ \A c \in Stores : ChargedBefore(c) \in Int
             /\ RoundedBefore \in Nat
<1> DEFINE n == Len(timeAndFlows)
<1>1. n \in Nat \ {0} /\ DOMAIN timeAndFlows = 1 .. n
  BY RecordedSequence
<1>2. \A i \in 1 .. n : /\ timeAndFlows[i].time \in Nat
                        /\ timeAndFlows[i].actual \in [Conn -> Flow]
  <2> TAKE i \in 1 .. n
  <2>1. timeAndFlows[i] \in Snapshot
    BY EntryType DEF IInv, TypeOK
  <2> QED
    BY <2>1 DEF Snapshot
<1> HIDE DEF n
<1>3. \A i \in 1 .. n - 1 : Lasted(i) \in Int
  BY <1>1, <1>2 DEF Lasted
<1>4. n - 1 \in Nat
  BY <1>1
<1>5. ASSUME NEW c \in Stores PROVE ChargedBefore(c) \in Int
  <2> DEFINE charges == [i \in 1 .. n - 1 |-> Charged(c, i)]
  <2>1. \A i \in 1 .. n - 1 : charges[i] \in Int
    <3> TAKE i \in 1 .. n - 1
    <3>1. i \in 1 .. n
      BY <1>1
    <3>2. NetInflow(c, timeAndFlows[i].actual) \in Int
      BY <1>2, <3>1, StoreFlowsType
    <3> QED
      BY <1>3, <3>2 DEF Charged
  <2>2. 0 \in Int /\ \A a, b \in Int : a + b \in Int
    OBVIOUS
  <2> HIDE DEF charges
  <2>3. Prefix(charges, n - 1) \in Int
    BY <1>4, <2>1, <2>2, PrefixWithin
  <2> QED
    BY <2>3 DEF ChargedBefore, charges, n
<1>6. RoundedBefore \in Nat
  <2> DEFINE roundings == [i \in 1 .. n - 1 |-> Rounding(Lasted(i))]
  <2>1. \A i \in 1 .. n - 1 : roundings[i] \in Nat
    BY NetworkAssumption DEF Rounding
  <2> HIDE DEF roundings
  <2>2. Prefix(roundings, n - 1) \in Nat
    BY <1>4, <2>1, PrefixType
  <2> QED
    BY <2>2 DEF RoundedBefore, roundings, n
<1> QED
  BY <1>1, <1>2, <1>5, <1>6 DEF n

(* The row added to a record.                                              *)
LEMMA RowAdded ==
  ASSUME IInv, Record
  PROVE  LET n == Len(timeAndFlows)
         IN  /\ n \in Nat /\ Len(timeAndFlows') = n + 1
             /\ timeAndFlows' # <<>>
             /\ \A i \in 1 .. n : timeAndFlows'[i] = timeAndFlows[i]
             /\ timeAndFlows'[n + 1].time = t
             /\ timeAndFlows'[n + 1].actual = ss.actual
<1> DEFINE entry == [time |-> t, req |-> ss.req, avail |-> ss.avail,
                     actual |-> ss.actual, amount |-> ss.amount]
           n == Len(timeAndFlows)
<1>1. timeAndFlows' = Append(timeAndFlows, entry)
  BY DEF Record
<1>2. entry.time = t /\ entry.actual = ss.actual
  OBVIOUS
<1>3. timeAndFlows \in Seq(Snapshot)
  BY DEF IInv, TypeOK
<1> HIDE DEF entry
<1>4. /\ n \in Nat /\ Len(timeAndFlows') = n + 1
      /\ timeAndFlows' # <<>>
      /\ \A i \in 1 .. n : timeAndFlows'[i] = timeAndFlows[i]
      /\ timeAndFlows'[n + 1] = entry
  <2> HIDE DEF Snapshot
  <2> QED
    BY <1>1, <1>3
<1> QED
  BY <1>2, <1>4

LEMMA HeldType ==
  ASSUME ss \in State, NEW c \in Stores
  PROVE  /\ ss.amount[c] \in Int /\ Part[c].initial \in Int /\ TicksPerSecond \in Int
         /\ (ss.amount[c] - Part[c].initial) * TicksPerSecond \in Int
<1>1. ss.amount[c] \in Int /\ Part[c].initial \in Int /\ TicksPerSecond \in Int
  BY StoreParts, NetworkAssumption DEF State, Stores, OfKind
<1> QED
  BY <1>1

(* The sums take in the interval that the new row ends.                    *)
LEMMA RecordAddsInterval ==
  ASSUME IInv, Record, timeAndFlows # <<>>, NEW c \in Stores
  PROVE  /\ ChargedBefore(c)' = ChargedBefore(c)
                                  + (t - LastRow.time) * NetInflow(c, LastRow.actual)
         /\ RoundedBefore' = RoundedBefore + Rounding(t - LastRow.time)
<1>1. PICK n \in Nat \ {0} : n = Len(timeAndFlows)
  BY LedgerTypes
<1> DEFINE charges   == [i \in 1 .. n - 1 |-> Charged(c, i)]
           roundings == [i \in 1 .. n - 1 |-> Rounding(Lasted(i))]
<1>2. /\ Len(timeAndFlows') = n + 1
      /\ \A i \in 1 .. n : timeAndFlows'[i] = timeAndFlows[i]
      /\ timeAndFlows'[n + 1].time = t
  BY <1>1, RowAdded
<1>3. \A i \in 1 .. n - 1 : i \in 1 .. n /\ i + 1 \in 1 .. n
  BY <1>1
<1>4. \A i \in 1 .. n - 1 : Lasted(i)' = Lasted(i) /\ Charged(c, i)' = Charged(c, i)
  BY <1>2, <1>3 DEF Lasted, Charged
<1>5. Lasted(n)' = t - LastRow.time
  BY <1>1, <1>2 DEF Lasted, LastRow
<1>6. Charged(c, n)' = (t - LastRow.time) * NetInflow(c, LastRow.actual)
  BY <1>1, <1>2, <1>5 DEF Charged, LastRow
<1> DEFINE charged == [i \in 1 .. n |-> Charged(c, i)']
           rounded == [i \in 1 .. n |-> Rounding(Lasted(i)')]
<1>7. (n + 1) - 1 = n
  BY <1>1
<1>8. ChargedBefore(c)' = Prefix(charged, n) /\ RoundedBefore' = Prefix(rounded, n)
  BY <1>2, <1>7 DEF ChargedBefore, RoundedBefore
<1>9. ChargedBefore(c) = Prefix(charges, n - 1) /\ RoundedBefore = Prefix(roundings, n - 1)
  BY <1>1 DEF ChargedBefore, RoundedBefore
<1>10. /\ \A i \in 1 .. n - 1 : charged[i] = charges[i] /\ rounded[i] = roundings[i]
       /\ charged[n] = Charged(c, n)' /\ rounded[n] = Rounding(Lasted(n)')
  <2>1. n \in 1 .. n
    BY <1>1
  <2> QED
    BY <1>3, <1>4, <2>1
<1> HIDE DEF charged, rounded, charges, roundings
<1>11. n - 1 \in Nat /\ n - 1 \in 0 .. n - 1 /\ (n - 1) + 1 = n
  BY <1>1
<1>12. /\ Prefix(charged, n - 1) = Prefix(charges, n - 1)
       /\ Prefix(rounded, n - 1) = Prefix(roundings, n - 1)
  BY <1>10, <1>11, PrefixAgrees
<1>13. /\ Prefix(charged, n) = Prefix(charged, n - 1) + charged[n]
       /\ Prefix(rounded, n) = Prefix(rounded, n - 1) + rounded[n]
  <2>1. \A flows : Prefix(flows, (n - 1) + 1)
                     = Prefix(flows, n - 1) + flows[(n - 1) + 1]
    BY <1>1, <1>11, PrefixStep
  <2> QED
    BY <1>11, <2>1
<1> QED
  BY <1>5, <1>6, <1>8, <1>9, <1>10, <1>12, <1>13

LEMMA RecordKeepsLedger ==
  ASSUME IInv, LedgerInv, Record
  PROVE  LedgerInv'
<1> DEFINE n == Len(timeAndFlows)
<1>1. /\ n \in Nat /\ Len(timeAndFlows') = n + 1
      /\ timeAndFlows' # <<>>
      /\ timeAndFlows'[n + 1].time = t
      /\ timeAndFlows'[n + 1].actual = ss.actual
  BY RowAdded
<1>2. ss' = ss /\ t' = t /\ t \in Nat /\ ss \in State
  BY DEF Record, IInv, TypeOK
<1>3. LastRow'.time = t /\ LastRow'.actual = ss.actual
  BY <1>1 DEF LastRow
<1>4. t' - LastRow'.time = 0 /\ Rounding(0) = 0
  <2>1. 0 % TicksPerSecond = 0
    BY NetworkAssumption
  <2> QED
    BY <1>2, <1>3, <2>1 DEF Rounding
<1>5. ASSUME NEW c \in Stores
      PROVE  Discrepancy(c)' \in -(Tolerance') .. Tolerance'
  <2> DEFINE held == (ss.amount[c] - Part[c].initial) * TicksPerSecond
  <2>1. held \in Int
    BY <1>2, HeldType
  <2>2. NetInflow(c, ss.actual) \in Int
    BY <1>2, StoreFlowsType DEF State
  <2>3. Discrepancy(c)' = 2 * (ChargedBefore(c)' + 0 - held)
    <3>1. (t' - LastRow'.time) * NetInflow(c, LastRow'.actual) = 0
      BY <1>3, <1>4, <2>2
    <3> QED
      BY <1>2, <3>1 DEF Discrepancy
  <2>4. Tolerance' = RoundedBefore' + 0
    BY <1>4 DEF Tolerance
  <2>5. CASE timeAndFlows = <<>>
    <3>1. held = 0
      BY <1>2, <2>5, HeldType DEF LedgerInv
    <3>2. Len(timeAndFlows') = 1
      BY <1>1, <2>5, RecordedSequence
    <3>3. ChargedBefore(c)' = 0 /\ RoundedBefore' = 0
      BY <3>2, PrefixStep DEF ChargedBefore, RoundedBefore
    <3> HIDE DEF held
    <3> QED
      BY <2>3, <2>4, <3>1, <3>3
  <2>6. CASE timeAndFlows # <<>>
    <3> DEFINE brought == (t - LastRow.time) * NetInflow(c, LastRow.actual)
               slack   == Rounding(t - LastRow.time)
    <3>1. /\ ChargedBefore(c)' = ChargedBefore(c) + brought
          /\ RoundedBefore' = RoundedBefore + slack
      BY <2>6, RecordAddsInterval
    <3>2. Discrepancy(c) = 2 * (ChargedBefore(c) + brought - held)
      BY DEF Discrepancy
    <3>3. Tolerance = RoundedBefore + slack
      BY DEF Tolerance
    <3>4. Discrepancy(c) \in -Tolerance .. Tolerance
      BY <2>6 DEF LedgerInv
    <3>5. ChargedBefore(c) \in Int /\ RoundedBefore \in Nat
      BY <2>6, LedgerTypes
    <3>6. brought \in Int /\ slack \in Nat
      <4>1. LastRow.time \in Nat /\ LastRow.actual \in [Conn -> Flow]
        BY <2>6, LedgerTypes DEF LastRow
      <4>2. NetInflow(c, LastRow.actual) \in Int
        BY <4>1, StoreFlowsType
      <4>3. t - LastRow.time \in Int
        BY <1>2, <4>1
      <4> QED
        BY <4>2, <4>3, NetworkAssumption DEF Rounding
    <3> HIDE DEF brought, slack, held
    <3> QED
      BY <2>1, <2>3, <2>4, <3>1, <3>2, <3>3, <3>4, <3>5, <3>6
  <2> QED
    BY <2>5, <2>6
<1> QED
  BY <1>1, <1>2, <1>3, <1>5 DEF LedgerInv


LEMMA DownStoresCarryNothing ==
  ASSUME FailedComponentsCarryNothing, Settled, NEW c \in Stores, c \in ss.down
  PROVE  NetInflow(c, ss.actual) = 0
<1>1. c \in Comp /\ Part[c].kind = "Store" /\ HasOutflow(c, 0)
  BY KnownKind DEF Stores, OfKind, WellConnected
<1>2. \A k \in Inflows(c) \cup Outflows(c) : ss.actual[k] = 0
  BY <1>1 DEF FailedComponentsCarryNothing
<1>3. /\ Outflow[c][0] \in Outflows(c)
      /\ HasInflow(c, 0) => Inflow[c][0] \in Inflows(c)
      /\ HasOutflow(c, WastePort(c)) => Outflow[c][WastePort(c)] \in Outflows(c)
  BY <1>1, InflowType, OutflowType DEF Inflows, Outflows
<1> QED
  BY <1>2, <1>3 DEF NetInflow

LEMMA AdvanceKeepsLedger ==
  ASSUME IInv, EventInv, LedgerInv, FailedComponentsCarryNothing, Advance
  PROVE  LedgerInv'
<1>1. PICK next \in NextEvents \cup {FinalTime} :
        /\ \A other \in NextEvents \cup {FinalTime} : next <= other
        /\ IF AssertionsHold(next - t)
             THEN /\ ss' = [ss EXCEPT
                       !.amount  = [c \in Stores |-> AmountAfter(c, next - t)],
                       !.loadIdx = [c \in Loads |-> IndexAt(model.load[c], @[c], next)],
                       !.srcIdx  = [c \in Sources |-> IndexAt(model.avail[c], @[c], next)]]
                  /\ t' = next
                  /\ pc' = "reliability"
             ELSE /\ pc' = "assertionFailed"
                  /\ UNCHANGED <<ss, t>>
  BY DEF Advance
<1>2. /\ pc = "advance" /\ timeAndFlows' = timeAndFlows
      /\ pc' \in {"reliability", "assertionFailed"}
  BY <1>1 DEF Advance
<1>3. /\ Settled /\ ~ Settled' /\ timeAndFlows # <<>>
      /\ LastRow.time = t /\ LastRow.actual = ss.actual
  BY <1>2 DEF Settled, LedgerInv
<1>4. t \in Nat /\ ss \in State /\ next \in Nat /\ next > t
  BY <1>1, <1>2, NextEventsType, NextEventIsEarliest DEF IInv, TypeOK
<1>5. LastRow' = LastRow /\ RoundedBefore' = RoundedBefore
  BY <1>2 DEF LastRow, RoundedBefore, Lasted
<1>6. \A c \in Stores : ChargedBefore(c)' = ChargedBefore(c)
  BY <1>2 DEF ChargedBefore, Charged, Lasted
<1>7. CASE ~ AssertionsHold(next - t)
  <2>1. ss' = ss /\ t' = t
    BY <1>1, <1>7
  <2>2. \A c \in Stores : Discrepancy(c)' = Discrepancy(c)
    BY <1>5, <1>6, <2>1 DEF Discrepancy
  <2>3. Tolerance' = Tolerance
    BY <1>5, <2>1 DEF Tolerance
  <2> QED
    BY <1>2, <1>3, <2>2, <2>3 DEF LedgerInv
<1>8. CASE AssertionsHold(next - t)
  <2>1. t' = next /\ \A c \in Stores : ss'.amount[c] = AmountAfter(c, next - t)
    <3> DEFINE amount  == [c \in Stores |-> AmountAfter(c, next - t)]
               loadIdx == [c \in Loads |-> IndexAt(model.load[c], ss.loadIdx[c], next)]
               srcIdx  == [c \in Sources |-> IndexAt(model.avail[c], ss.srcIdx[c], next)]
    <3>1. ss' = [ss EXCEPT !.amount = amount, !.loadIdx = loadIdx, !.srcIdx = srcIdx]
      BY <1>1, <1>8
    <3> HIDE DEF amount, loadIdx, srcIdx
    <3>2. ss'.amount = amount
      BY <1>4, <3>1 DEF State
    <3> QED
      BY <1>1, <1>8, <3>2 DEF amount
  <2>2. ASSUME NEW c \in Stores
        PROVE  Discrepancy(c)' \in -(Tolerance') .. Tolerance'
    <3>1. PICK elapsed \in Nat : elapsed = next - t
      BY <1>4
    <3> DEFINE T       == TicksPerSecond
               net     == NetInflow(c, ss.actual)
               added   == IF c \in ss.down THEN 0 ELSE NetEnergyAdded(c, elapsed)
               gained  == ss.amount[c] - Part[c].initial
               charged == ChargedBefore(c)
               rounded == RoundedBefore
               slack   == Rounding(elapsed)
    <3>2. /\ T \in Nat /\ net \in Int /\ added \in Int /\ gained \in Int
          /\ charged \in Int /\ rounded \in Nat /\ slack \in Nat
      <4>1. T \in Nat
        BY NetworkAssumption
      <4>2. net \in Int
        BY <1>4, StoreFlowsType DEF State
      <4>3. added \in Int /\ slack \in Nat
        BY <1>4, NetEnergyRounds
      <4>4. gained \in Int
        BY <1>4, HeldType
      <4>5. charged \in Int /\ rounded \in Nat
        BY <1>3, LedgerTypes
      <4> QED
        BY <4>1, <4>2, <4>3, <4>4, <4>5
    <3>3. 2 * (elapsed * net - added * T) \in -slack .. slack
      <4>1. CASE c \in ss.down
        <5>1. net = 0 /\ added = 0
          BY <1>3, <4>1, DownStoresCarryNothing
        <5> HIDE DEF net, added, slack, T
        <5>2. elapsed * net = 0 /\ added * T = 0
          BY <3>2, <5>1
        <5>3. 2 * (elapsed * net - added * T) = 0
          BY <5>2
        <5> QED
          BY <3>2, <5>3
      <4>2. CASE c \notin ss.down
        BY <1>4, <4>2, NetEnergyRounds
      <4> QED
        BY <4>1, <4>2
    <3>4. 2 * (charged - gained * T) \in -rounded .. rounded
      <4>1. t - LastRow.time = 0 /\ Rounding(0) = 0
        <5>1. 0 % TicksPerSecond = 0
          BY NetworkAssumption
        <5> QED
          BY <1>3, <1>4, <5>1 DEF Rounding
      <4>2. (t - LastRow.time) * NetInflow(c, LastRow.actual) = 0
        BY <1>3, <3>2, <4>1
      <4>3. Discrepancy(c) = 2 * (charged + 0 - gained * T) /\ Tolerance = rounded + 0
        BY <4>1, <4>2 DEF Discrepancy, Tolerance
      <4>4. Discrepancy(c) \in -Tolerance .. Tolerance
        BY <1>3 DEF LedgerInv
      <4> HIDE DEF charged, gained, rounded, T
      <4> QED
        BY <3>2, <4>3, <4>4
    <3>5. t' - LastRow'.time = elapsed /\ LastRow'.actual = ss.actual
      BY <1>3, <1>5, <2>1, <3>1
    <3>6. ss'.amount[c] - Part[c].initial = gained + added
      <4>1. ss'.amount[c] = ss.amount[c] + added
        BY <2>1, <3>1 DEF AmountAfter
      <4>2. ss.amount[c] \in Int /\ Part[c].initial \in Int
        BY <1>4, HeldType
      <4> HIDE DEF added
      <4> QED
        BY <3>2, <4>1, <4>2
    <3>7. Discrepancy(c)' = 2 * (charged + elapsed * net - (gained + added) * T)
      BY <1>6, <3>5, <3>6 DEF Discrepancy
    <3>8. Tolerance' = rounded + slack
      BY <1>5, <3>5 DEF Tolerance
    <3> HIDE DEF T, net, added, gained, charged, rounded, slack
    <3>9. (gained + added) * T = gained * T + added * T
      BY <3>2
    <3>10. elapsed * net \in Int /\ added * T \in Int /\ gained * T \in Int
      BY <3>2
    <3> QED
      BY <3>2, <3>3, <3>4, <3>7, <3>8, <3>9, <3>10
  <2> QED
    BY <1>2, <1>3, <2>2 DEF LedgerInv
<1> QED
  BY <1>7, <1>8

LEMMA OtherStepsKeepLedger ==
  ASSUME IInv, LedgerInv, [Next]_vars, ~ Record, ~ Advance
  PROVE  LedgerInv'
<1>1. /\ UNCHANGED <<t, timeAndFlows>>
      /\ ss'.amount = ss.amount
      /\ Settled' => Settled /\ ss' = ss
  <2>1. CASE UNCHANGED vars
    BY <2>1 DEF vars, Settled
  <2>2. CASE Next /\ ~ UNCHANGED vars
    <3>1. /\ UNCHANGED <<t, timeAndFlows>>
          /\ pc' \notin {"advance", "done"}
      BY <2>2 DEF Next, ActivateReliability, Activate, NextPhase, PhaseAfter, BeginRun,
         TakeBackward, StepBackward, EndBackward, TakeForward, StepForward, EndForward,
         Finalize, RunSwitchLogic, Terminated
    <3>2. ss'.amount = ss.amount
      BY <2>2, OnlyAdvanceMovesIndices DEF Kept
    <3> QED
      BY <3>1, <3>2 DEF Settled
  <2> QED
    BY <2>1, <2>2
<1>2. LastRow' = LastRow /\ Tolerance' = Tolerance
  BY <1>1 DEF LastRow, Tolerance, RoundedBefore, Lasted
<1>3. \A c \in Stores : Discrepancy(c)' = Discrepancy(c)
  BY <1>1, <1>2 DEF Discrepancy, ChargedBefore, Charged, Lasted
<1> QED
  BY <1>1, <1>2, <1>3 DEF LedgerInv

(* A store holds what it held at the start and what the recorded flows     *)
(* brought it - exactly, or to the rounding of intervals that are not whole*)
(* seconds -, for every network, schedule and bound: the integration of    *)
(* UpdateStoresPerElapsedTime follows the record however flows change in   *)
(* between.  A failed store keeps its energy, so that whatever is recorded *)
(* to go through it would be lost; hence the hypothesis.                   *)
THEOREM StoresHoldWhatFlowedIn ==
  Spec /\ []FailedComponentsCarryNothing => []StoredEnergyIsAccountedFor
<1>1. Init => LedgerInv
  BY DEF Init, InitialState, LedgerInv, Settled, Stores
<1>2. IInv /\ EventInv /\ LedgerInv /\ FailedComponentsCarryNothing /\ [Next]_vars
        => LedgerInv'
  BY RecordKeepsLedger, AdvanceKeepsLedger, OtherStepsKeepLedger
<1>3. IInv /\ LedgerInv => StoredEnergyIsAccountedFor
  <2> SUFFICES ASSUME IInv, LedgerInv, Settled, NEW c \in Stores
               PROVE  2 * (ChargedBefore(c)
                             - (ss.amount[c] - Part[c].initial) * TicksPerSecond)
                        \in -RoundedBefore .. RoundedBefore
    BY DEF StoredEnergyIsAccountedFor, ChargedBefore, RoundedBefore
  <2> DEFINE held == (ss.amount[c] - Part[c].initial) * TicksPerSecond
  <2>1. timeAndFlows # <<>> /\ LastRow.time = t
    BY DEF LedgerInv
  <2>2. t - LastRow.time = 0 /\ Rounding(0) = 0
    <3>1. 0 % TicksPerSecond = 0 /\ t \in Nat
      BY NetworkAssumption DEF IInv, TypeOK
    <3> QED
      BY <2>1, <3>1 DEF Rounding
  <2>3. NetInflow(c, LastRow.actual) \in Int
    BY <2>1, LedgerTypes, StoreFlowsType DEF LastRow
  <2>4. (t - LastRow.time) * NetInflow(c, LastRow.actual) = 0
    BY <2>2, <2>3
  <2>5. Discrepancy(c) = 2 * (ChargedBefore(c) + 0 - held) /\ Tolerance = RoundedBefore + 0
    BY <2>2, <2>4 DEF Discrepancy, Tolerance
  <2>6. Discrepancy(c) \in -Tolerance .. Tolerance
    BY <2>1 DEF LedgerInv
  <2>7. ChargedBefore(c) \in Int /\ RoundedBefore \in Nat
    BY <2>1, LedgerTypes
  <2>8. held \in Int
    BY HeldType DEF IInv, TypeOK
  <2> HIDE DEF held
  <2>9. 2 * (ChargedBefore(c) - held) \in -RoundedBefore .. RoundedBefore
    BY <2>5, <2>6, <2>7, <2>8
  <2> QED
    BY <2>9 DEF held
<1> QED
  BY <1>1, <1>2, <1>3, IInvHolds, EventInvHolds, PTL DEF Spec

=============================================================================
