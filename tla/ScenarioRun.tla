---------------------------- MODULE ScenarioRun -----------------------------
(***************************************************************************)
(* Simulation_Run: every scenario of an input, in the order of their tags; *)
(* every occurrence of a scenario; and for every occurrence the failures   *)
(* and repairs of the components, made anew, under which the network is    *)
(* simulated.                                                              *)
(*                                                                         *)
(* An input is a record whose lists are indexed by the ids of the program, *)
(* counted from 1.  Times are in ticks.  Optional values are sets with at  *)
(* most one element.  Every scenario is given an offset: that the reading  *)
(* of an input leaves some without is seen in LoadingProperties.           *)
(***************************************************************************)
EXTENDS TimeStates, Distributions

CONSTANTS
  Sims,               \* the inputs
  DefaultOccurrences  \* of an unlimited scenario: 1000 in the code

(* What reading an input ensures of it, as far as proofs need it.          *)
IsInput(input) ==
  /\ \A id \in DOMAIN input.dists : IsDistribution(input.dists[id])
  /\ DOMAIN input.scenarios = 1 .. Len(input.scenarios) /\ Len(input.scenarios) \in Nat
  /\ \A id \in DOMAIN input.scenarios :
       /\ input.scenarios[id].tag \in Int
       /\ input.scenarios[id].dist \in DOMAIN input.dists
       /\ input.scenarios[id].max = {} \/ \E n \in input.scenarios[id].max :
                                            n \in Nat /\ input.scenarios[id].max = {n}
       /\ input.scenarios[id].offset \in Int /\ input.scenarios[id].duration \in Int
  /\ DOMAIN input.links \subseteq Nat
  /\ \A l \in DOMAIN input.links :
       input.links[l].comp \in DOMAIN input.age /\ input.links[l].mode \in DOMAIN input.failureModes
  /\ DOMAIN input.age = 1 .. Len(input.age) /\ Len(input.age) \in Nat
  /\ \A c \in DOMAIN input.age : input.age[c] \in Int
  /\ \A m \in DOMAIN input.failureModes :
       /\ <<"failure", m>> \in Cause
       /\ {input.failureModes[m].failure, input.failureModes[m].repair} \subseteq DOMAIN input.dists
  /\ DOMAIN input.fragilities = 1 .. Len(input.fragilities) /\ Len(input.fragilities) \in Nat
  /\ \A k \in DOMAIN input.fragilities :
       /\ input.fragilities[k].comp \in DOMAIN input.age
       /\ input.fragilities[k].mode \in DOMAIN input.fragilityModes
  /\ \A m \in DOMAIN input.fragilityModes :
       LET repair == input.fragilityModes[m].repair
       IN  /\ <<"fragility", m>> \in Cause
           /\ repair = {} \/ \E d \in DOMAIN input.dists : repair = {d}
  /\ DOMAIN input.scheduled = 1 .. Len(input.scheduled) /\ Len(input.scheduled) \in Nat
  /\ input.maxTime \in Nat

ASSUME ScenarioAssumption ==
  /\ Whole \in Nat \ {0} /\ DefaultOccurrences \in Nat \ {0}
  /\ \A input \in Sims : IsInput(input)

VARIABLES
  sim,         \* the input
  phase,       \* where Simulation_Run is
  queue,       \* the scenarios still to be run, the current one first
  assigned,    \* the load each schedule-based component was given last
  starts,      \* when the current scenario occurs
  rolled,      \* history: the advances rolled for the scenarios
  occ,         \* how many of its occurrences were begun
  schedules,   \* one for every failure mode of a component (a link)
  uncombined,  \* the links that are not part of combined yet
  combined,    \* the schedules of components
  rel,         \* TheModel.Reliabilities
  evaluated,   \* how many fragilities were evaluated
  hits,        \* history: the components that did not withstand
  rows,        \* what the events file tells of
  statistics   \* occurrenceStats

made == <<schedules, uncombined, combined, rel, evaluated, hits>>
vars == <<sim, phase, queue, assigned, starts, rolled, occ, made, rows, statistics>>

-----------------------------------------------------------------------------
The(optional) == CHOOSE value \in optional : TRUE

Put(f, x, value) == [y \in {x} \cup DOMAIN f |-> IF y = x THEN value ELSE f[y]]

Scenario == Head(queue)
Duration == sim.scenarios[Scenario].duration
Offset   == sim.scenarios[Scenario].offset
Links    == DOMAIN sim.links
DistOf(id) == sim.dists[id]

(* CalculateScenarioOrder: every scenario once, sorted by tag; as no tag is*)
(* given twice, there is one such order.                                   *)
ScenarioOrders ==
  {order \in Bijection(DOMAIN sim.scenarios, DOMAIN sim.scenarios) :
     \A i, j \in DOMAIN order :
       i < j => sim.scenarios[order[i]].tag <= sim.scenarios[order[j]].tag}

(* From a component's age at time 0 to the end of the scenario.            *)
HorizonUnaged(c) == Offset + Duration   \* a slip

Begins(c)  == sim.age[c] + Offset
Horizon(c) == Begins(c) + Duration

Init ==
  /\ sim \in Sims
  /\ phase = "open" /\ queue = <<>> /\ starts = <<>> /\ occ = 0
  /\ assigned = [i \in DOMAIN sim.scheduled |-> 0]
  /\ rolled = [id \in DOMAIN sim.scenarios |-> <<>>]
  /\ schedules = <<>> /\ uncombined = {} /\ combined = <<>> /\ rel = <<>>
  /\ evaluated = 0 /\ hits = {}
  /\ rows = <<>> /\ statistics = <<>>

-----------------------------------------------------------------------------
(* The file for the events cannot be opened, or it can.                    *)
OpenEvents ==
  /\ phase = "open"
  /\ \/ phase' = "stopped" /\ UNCHANGED queue
     \/ phase' = "scenario" /\ queue' \in ScenarioOrders
  /\ UNCHANGED <<sim, assigned, starts, rolled, occ, made, rows, statistics>>

(* SetLoadsForScenario and then SetSupplyForScenario: sim.scheduled has the*)
(* loads before the sources.  Those before the first that has nothing for  *)
(* the scenario are set, and then the run ends.                            *)
Unhandled == {i \in DOMAIN sim.scheduled : Scenario \notin DOMAIN sim.scheduled[i]}

(* A slip: the last one is left with what it had.                          *)
SetUpToBefore(last) ==
  assigned' = [i \in DOMAIN assigned |->
                 IF i < last THEN sim.scheduled[i][Scenario] ELSE assigned[i]]

SetUpTo(last) ==
  assigned' = [i \in DOMAIN assigned |->
                 IF i <= last THEN sim.scheduled[i][Scenario] ELSE assigned[i]]

BeginScenario ==
  /\ phase = "scenario" /\ queue # <<>> /\ Unhandled = {}
  /\ SetUpTo(Len(sim.scheduled))
  /\ phase' = "starts" /\ starts' = <<>> /\ occ' = 0
  /\ UNCHANGED <<sim, queue, rolled, made, rows, statistics>>

StopAtUnhandled ==
  /\ phase = "scenario" /\ queue # <<>> /\ Unhandled # {}
  /\ SetUpTo(Min(Unhandled) - 1)
  /\ phase' = "stopped"
  /\ UNCHANGED <<sim, queue, starts, rolled, occ, made, rows, statistics>>

(* DetermineScenarioOccurrenceTimes                                        *)
MaxOccurrences(id) ==
  LET max == sim.scenarios[id].max
  IN  IF max = {} THEN DefaultOccurrences ELSE The(max)

LastStart == IF starts = <<>> THEN 0 ELSE Last(starts)

TooLateAtMaxTime(dt) == LastStart + dt >= sim.maxTime   \* a slip

TooLate(dt) == LastStart + dt > sim.maxTime

RollStart ==
  /\ phase = "starts"
  /\ IF Len(starts) = MaxOccurrences(Scenario)
       THEN phase' = "occurrence" /\ UNCHANGED <<starts, rolled>>
       ELSE \E dt \in Advances(DistOf(sim.scenarios[Scenario].dist)) :
              /\ rolled' = [rolled EXCEPT ![Scenario] = Append(@, dt)]
              /\ IF TooLate(dt)
                   THEN phase' = "occurrence" /\ UNCHANGED starts
                   ELSE starts' = Append(starts, LastStart + dt) /\ UNCHANGED phase
  /\ UNCHANGED <<sim, queue, assigned, occ, made, rows, statistics>>

(* A slip: the loop waits for an occurrence.                               *)
EndOccurredScenario ==
  /\ phase = "occurrence" /\ occ = Len(starts) /\ occ > 0
  /\ queue' = Tail(queue) /\ phase' = "scenario"
  /\ UNCHANGED <<sim, assigned, starts, rolled, occ, made, rows, statistics>>

EndScenario ==
  /\ phase = "occurrence" /\ occ = Len(starts)
  /\ queue' = Tail(queue) /\ phase' = "scenario"
  /\ UNCHANGED <<sim, assigned, starts, rolled, occ, made, rows, statistics>>

BeginOccurrence ==
  /\ phase = "occurrence" /\ occ < Len(starts)
  /\ occ' = occ + 1 /\ phase' = "failures"
  /\ schedules' = [l \in Links |-> <<>>]
  /\ uncombined' = Links /\ combined' = <<>>
  /\ rel' = <<>> /\ evaluated' = 0 /\ hits' = {}
  /\ UNCHANGED <<sim, queue, assigned, starts, rolled, rows, statistics>>

-----------------------------------------------------------------------------
(* CreateFailureSchedules.  The schedule of a link is that of another one: *)
(* make_schedule_for_link is given the id of the link's failure mode where *)
(* it expects a link.                                                      *)
Rolled(l) == schedules[l] # <<>> /\ Last(schedules[l]).time >= Horizon(sim.links[l].comp)

Unrolled == {l \in Links : ~ Rolled(l)}

LinkAskedFor(l) == sim.links[l].mode

(* calc_next_event and update_single_schedule: up and down in turn.        *)
NextDist(l) ==
  LET mode == sim.failureModes[sim.links[LinkAskedFor(l)].mode]
  IN  IF Len(schedules[l]) % 2 = 0 THEN mode.failure ELSE mode.repair

NextState(l, time) ==
  IF Len(schedules[l]) % 2 = 0
    THEN Down(time, {<<"failure", sim.links[l].mode>>}) ELSE Up(time)

RollNext ==
  /\ phase = "failures" /\ Unrolled # {}
  /\ LET l    == Min(Unrolled)
         time == IF schedules[l] = <<>> THEN 0 ELSE Last(schedules[l]).time
     IN  IF LinkAskedFor(l) \in Links
           THEN /\ \E dt \in Advances(DistOf(NextDist(l))) :
                     schedules' = [schedules EXCEPT ![l] = Append(@, NextState(l, time + dt))]
                /\ UNCHANGED phase
           ELSE phase' = "failed" /\ UNCHANGED schedules
  /\ UNCHANGED <<sim, queue, assigned, starts, rolled, occ, uncombined, combined, rel,
                 evaluated, hits, rows, statistics>>

(* The links are kept in an unordered_map: they come in any order.         *)
CombineLink(l) ==
  /\ phase = "failures" /\ Unrolled = {} /\ l \in uncombined
  /\ LET c == sim.links[l].comp
     IN  combined' = Put(combined, c, IF c \in DOMAIN combined
                                        THEN Combine(schedules[l], combined[c])
                                        ELSE schedules[l])
  /\ uncombined' = uncombined \ {l}
  /\ UNCHANGED <<sim, phase, queue, assigned, starts, rolled, occ, schedules, rel,
                 evaluated, hits, rows, statistics>>

(* The first part of ApplyReliabilitiesAndFragilities.                     *)
ApplyReliabilities ==
  /\ phase = "failures" /\ Unrolled = {} /\ uncombined = {}
  /\ rel' = [c \in DOMAIN combined |-> Clip(combined[c], Begins(c), Horizon(c))]
  /\ phase' = "fragilities"
  /\ UNCHANGED <<sim, queue, assigned, starts, rolled, occ, schedules, uncombined, combined,
                 evaluated, hits, rows, statistics>>

-----------------------------------------------------------------------------
(* Fractions of failures: a numerator in 0 .. Whole and a denominator.     *)
Interpolate1d(x, x0, y0, x1, y1) ==
  IF x < x0 THEN <<y0, 1>>
  ELSE IF x > x1 THEN <<y1, 1>>
  ELSE IF x1 > x0 THEN <<y0 * (x1 - x0) + (x - x0) * (y1 - y0), x1 - x0>>
  ELSE <<0, 1>>

LinearFraction(curve, level) ==
  Interpolate1d(level, curve.lower, 0, curve.upper, Whole)

TabularFraction(curve, level) ==
  LET n     == Len(curve.xs)
      exact == {i \in 1 .. n : curve.xs[i] = level}
      below == {i \in 1 .. n - 1 : curve.xs[i] < level /\ level <= curve.xs[i + 1]}
      i     == Min(exact \cup below)
  IN  IF level <= curve.xs[1] THEN <<curve.ys[1], 1>>
      ELSE IF level >= curve.xs[n] THEN <<curve.ys[n], 1>>
      ELSE IF exact \cup below = {} THEN <<0, 1>>
      ELSE IF i \in exact THEN <<curve.ys[i], 1>>
      ELSE Interpolate1d(level, curve.xs[i], curve.ys[i], curve.xs[i + 1], curve.ys[i + 1])

(* GetIntensitiesForScenario                                               *)
OfScenario == {i \in DOMAIN sim.intensities : sim.intensities[i].scenario = Scenario}

Intensities ==
  [id \in {sim.intensities[i].intensity : i \in OfScenario} |->
     sim.intensities[Max({i \in OfScenario : sim.intensities[i].intensity = id})].level]

FailureFraction(curve) ==
  IF curve.vulnerability \notin DOMAIN Intensities THEN <<0, 1>>
  ELSE LET level == Intensities[curve.vulnerability]
       IN  IF curve.type = "Linear" THEN LinearFraction(curve, level)
                                    ELSE TabularFraction(curve, level)

(* The code rolls only where the fraction leaves a choice.                 *)
IsFailed(curve, roll) ==
  LET f == FailureFraction(curve)
  IN  f[1] > 0 /\ roll * f[2] <= f[1]

RepairTimes(mode) ==
  IF mode.repair = {} THEN {{}}
  ELSE {{dt} : dt \in Advances(DistOf(The(mode.repair)))}

ToEvaluate == DOMAIN Intensities # {} /\ evaluated < Len(sim.fragilities)

EvaluateFragility ==
  /\ phase = "fragilities" /\ ToEvaluate
  /\ evaluated' = evaluated + 1
  /\ LET fragility == sim.fragilities[evaluated + 1]
         c         == fragility.comp
         mode      == sim.fragilityModes[fragility.mode]
         cause     == <<"fragility", fragility.mode>>
     IN  \E roll \in Fraction :
           IF IsFailed(sim.curves[mode.curve], roll)
             THEN \E repair \in RepairTimes(mode) :
                    LET new == <<Down(0, {cause})>> \o SetToSeq({Up(dt) : dt \in repair})
                    IN  /\ rel' = Put(rel, c, IF c \in DOMAIN rel THEN Combine(rel[c], new)
                                                                 ELSE new)
                        /\ hits' = hits \cup {[comp |-> c, cause |-> cause, repair |-> repair]}
             ELSE UNCHANGED <<rel, hits>>
  /\ UNCHANGED <<sim, phase, queue, assigned, starts, rolled, occ, schedules, uncombined,
                 combined, rows, statistics>>

-----------------------------------------------------------------------------
(* The last part of CalculateScenarioOccurrenceStats.                      *)
ReliabilityStats(schedule) ==
  [availability |-> CalcAvailability(schedule, Duration),
   count        |-> [cause \in Cause |-> CountFailures(schedule, Duration, cause)],
   time         |-> [cause \in Cause |-> TimeFailed(schedule, Duration, cause)]]

Components == DOMAIN sim.age

RelOf(c) == IF c \in DOMAIN rel THEN rel[c] ELSE <<>>

(* All of TheModel.Reliabilities, combined one after the other.            *)
Network ==
  LET all[n \in 0 .. Len(sim.age)] ==
        IF n = 0 THEN <<>> ELSE Combine(all[n - 1], RelOf(n))
  IN  all[Len(sim.age)]

(* Simulate, WriteResultsToEventFile and the statistics of the occurrence. *)
SimulateOccurrence ==
  /\ phase = "fragilities" /\ ~ ToEvaluate
  /\ rows' = Append(rows, [scenario |-> Scenario, start |-> starts[occ], loads |-> assigned])
  /\ statistics' = Append(statistics,
       [scenario |-> Scenario, occ |-> occ,
        comp     |-> [c \in Components |-> ReliabilityStats(RelOf(c))],
        network  |-> ReliabilityStats(Network)])
  /\ phase' = "occurrence"
  /\ UNCHANGED <<sim, queue, assigned, starts, rolled, occ, made>>

(* WriteStatisticsToFile: only here does a run leave its statistics.       *)
Finish ==
  /\ phase = "scenario" /\ queue = <<>>
  /\ phase' = "done"
  /\ UNCHANGED <<sim, queue, assigned, starts, rolled, occ, made, rows, statistics>>

Next ==
  \/ OpenEvents
  \/ BeginScenario \/ StopAtUnhandled \/ RollStart \/ EndScenario \/ Finish
  \/ BeginOccurrence \/ RollNext \/ \E l \in Links : CombineLink(l)
  \/ ApplyReliabilities \/ EvaluateFragility \/ SimulateOccurrence

(* The program runs on, with no one to wait for.                           *)
Spec == Init /\ [][Next]_vars /\ WF_vars(Next)

=============================================================================
