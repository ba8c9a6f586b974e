----------------------------- MODULE TimeStates -----------------------------
(***************************************************************************)
(* Up and down times of a component: a schedule is a sequence of states,   *)
(* each with the time it is entered and, when it is a failed one, the      *)
(* failure and fragility modes that cause it.  Before its first state, and *)
(* without any, a component is up.                                         *)
(*                                                                         *)
(* These are the algorithms on schedules; what a schedule means is in the  *)
(* operators at the end, which the algorithms are checked against.         *)
(***************************************************************************)
EXTENDS Integers, FiniteSets, Sequences, FiniteSetsExt, SequencesExt

CONSTANTS
  Cause    \* failure modes and fragility modes

TimeState == [time : Nat, state : BOOLEAN, causes : SUBSET Cause]

Down(time, causes) == [time |-> time, state |-> FALSE, causes |-> causes]
Up(time)           == [time |-> time, state |-> TRUE, causes |-> {}]

-----------------------------------------------------------------------------
(* TimeState_Combine walks both schedules at once.  The entry it makes at a*)
(* time t for the states x and y it has reached in them: a state that is   *)
(* still to come does not count.                                           *)
CombineAt(x, y, t) ==
  LET inForce == {z \in {x, y} : z.time <= t}
      failed  == {z \in inForce : ~ z.state}
  IN  [time |-> t, state |-> failed = {}, causes |-> UNION {z.causes : z \in failed}]

(* The state to be looked at after the i-th, at time t.                    *)
Following(schedule, i, t) ==
  IF schedule[i].time <= t /\ i < Len(schedule) THEN i + 1 ELSE i

Combine(a, b) ==
  LET from[at \in [a : DOMAIN a, b : DOMAIN b, time : Nat]] ==
        LET x     == Following(a, at.a, at.time)
            y     == Following(b, at.b, at.time)
            ahead == {u \in {a[x].time, b[y].time} : u > at.time}
            u     == Min(ahead)
        IN  <<CombineAt(a[at.a], b[at.b], at.time)>> \o
            (IF ahead = {} THEN <<>>
             ELSE from[[a    |-> IF a[x].time = u THEN x ELSE at.a,
                        b    |-> IF b[y].time = u THEN y ELSE at.b,
                        time |-> u]])
  IN  IF a = <<>> \/ b = <<>> THEN a \o b
      ELSE from[[a |-> 1, b |-> 1, time |-> Min({a[1].time, b[1].time})]]

(* A slip: the state in force is put before one entered at the start.      *)
ClipTwice(input, start, end) ==
  LET before == {i \in DOMAIN input : input[i].time < start}
      within == {i \in DOMAIN input : input[i].time \in start .. end}
      first  == IF before # {} THEN <<[input[Max(before)] EXCEPT !.time = start]>> ELSE <<>>
      kept   == first \o SubSeq(input, Min(within), Max(within))
  IN  IF within = {} THEN <<>>
      ELSE [i \in DOMAIN kept |-> [kept[i] EXCEPT !.time = @ - start]]

(* TimeState_Clip, with times counted from the start; a schedule never goes*)
(* back in time.  The state in force at the start is only looked for when  *)
(* one from within comes later.                                            *)
Clip(input, start, end) ==
  LET before == {i \in DOMAIN input : input[i].time < start}
      within == {i \in DOMAIN input : input[i].time \in start .. end}
      first  == IF before # {} /\ input[Min(within)].time > start
                  THEN <<[input[Max(before)] EXCEPT !.time = start]>> ELSE <<>>
      kept   == first \o SubSeq(input, Min(within), Max(within))
  IN  IF within = {} THEN <<>>
      ELSE [i \in DOMAIN kept |-> [kept[i] EXCEPT !.time = @ - start]]

(* How long the i-th state lasts; the last one until the end.              *)
Lasts(schedule, i, end) ==
  (IF i < Len(schedule) THEN schedule[i + 1].time ELSE end) - schedule[i].time

(* How long the states of a schedule last that are among the chosen ones.  *)
Together(schedule, chosen, end) ==
  LET sum[n \in 0 .. Len(schedule)] ==
        IF n = 0 THEN 0
        ELSE sum[n - 1] + (IF n \in chosen THEN Lasts(schedule, n, end) ELSE 0)
  IN  sum[Len(schedule)]

Failed(schedule) == {i \in DOMAIN schedule : ~ schedule[i].state}

(* A slip: a state that is not followed by another does not count.         *)
AvailabilityUntilLast(schedule, end) ==
  end - Together(schedule, Failed(schedule) \ {Len(schedule)}, end)

(* TimeState_CalcAvailability_s                                            *)
CalcAvailability(schedule, end) == end - Together(schedule, Failed(schedule), end)

(* TimeState_GetActiveTimeState: of several states at one time the first.  *)
GetActiveTimeState(schedule, time) ==
  LET now  == {i \in DOMAIN schedule : schedule[i].time = time}
      past == {i \in DOMAIN schedule : schedule[i].time < time}
  IN  IF now # {} THEN schedule[Min(now)]
      ELSE IF past # {} THEN schedule[Max(past)]
      ELSE Up(time)

(* TimeState_CountAndTimeFailureEvents, for one cause: the loop ends at the*)
(* first state that does not last.  An event is counted where a cause      *)
(* takes the component down, not where it joins others.                    *)
Lasting(schedule, i, end) == \A j \in 1 .. i : Lasts(schedule, j, end) > 0

Failing(schedule, cause) == {i \in Failed(schedule) : cause \in schedule[i].causes}

CountFailing(schedule, end, cause) == Cardinality(Failing(schedule, cause))   \* a slip

CountFailures(schedule, end, cause) ==
  Cardinality({i \in Failing(schedule, cause) :
                 i = 1 \/ (schedule[i - 1].state /\ Lasting(schedule, i - 1, end))})

TimeFailed(schedule, end, cause) ==
  Together(schedule, {i \in Failing(schedule, cause) : Lasting(schedule, i, end)}, end)

-----------------------------------------------------------------------------
(* What a schedule says of a time: the state entered last.                 *)
StateAt(schedule, time) ==
  LET past == {i \in DOMAIN schedule : schedule[i].time <= time}
  IN  IF past = {} THEN Up(time) ELSE schedule[Max(past)]

UpAt(schedule, time) == StateAt(schedule, time).state
CausesAt(schedule, time) == StateAt(schedule, time).causes

=============================================================================
