------------------------- MODULE ScenarioProperties -------------------------
(***************************************************************************)
(* What the failures and repairs of an occurrence must be, and what a run  *)
(* must report, whatever is rolled and however links are ordered.          *)
(***************************************************************************)
EXTENDS ScenarioRun

(* The variables hold values of their kinds; every schedule is one a       *)
(* component can have.                                                     *)
TypeOK ==
  /\ sim \in Sims
  /\ phase \in {"open", "scenario", "starts", "occurrence", "failures",
                "fragilities", "done", "stopped", "failed"}
  /\ queue \in Seq(DOMAIN sim.scenarios)
  /\ DOMAIN assigned = DOMAIN sim.scheduled
  /\ \A i \in DOMAIN starts : starts[i] \in 0 .. sim.maxTime
  /\ rolled \in [DOMAIN sim.scenarios -> Seq(Nat)]
  /\ occ \in 0 .. Len(starts)
  /\ DOMAIN schedules \in {{}, Links}
  /\ uncombined \subseteq Links
  /\ DOMAIN combined \subseteq Components /\ DOMAIN rel \subseteq Components
  /\ \A schedule \in Range(schedules) \cup Range(rel) :
       schedule \in Seq(TimeState)
  /\ evaluated \in 0 .. Len(sim.fragilities)
  /\ Len(rows) = Len(statistics)

-----------------------------------------------------------------------------
Applied == phase = "fragilities" /\ ~ ToEvaluate

Ticks == 0 .. Duration - 1

(* The modes that keep a component down at a tick of the scenario: those   *)
(* of its links whose schedule, begun when the component was new, has it   *)
(* failed by then, and the fragilities it did not withstand and is not     *)
(* repaired from.                                                          *)
FailedLinks(c, t) ==
  {l \in Links : sim.links[l].comp = c /\ ~ UpAt(schedules[l], sim.age[c] + Offset + t)}

Unrepaired(c, t) ==
  {h \in hits : h.comp = c /\ \A dt \in h.repair : t < dt}

DownBecause(c, t) ==
  {<<"failure", sim.links[l].mode>> : l \in FailedLinks(c, t)}
    \cup {h.cause : h \in Unrepaired(c, t)}

(* The schedule a component is simulated with has it down at exactly the   *)
(* ticks at which one of its modes has it down, shifted by the component's *)
(* age and the scenario's offset, and names exactly those modes - in       *)
(* whatever order CreateFailureSchedules and the fragilities combine them. *)
OutagesAreApplied ==
  Applied => \A c \in Components : \A t \in Ticks :
    /\ CausesAt(RelOf(c), t) = DownBecause(c, t)
    /\ UpAt(RelOf(c), t) <=> DownBecause(c, t) = {}

(* A schedule suits the simulation's events: it only goes forward in time  *)
(* and never before the scenario's start; and a failure is not repeated.   *)
SchedulesSuitTheSimulation ==
  Applied => \A c \in DOMAIN rel :
    /\ \A i \in 2 .. Len(rel[c]) :
         /\ rel[c][i - 1].time < rel[c][i].time
         /\ rel[c][i - 1].state => ~ rel[c][i].state
    /\ \A i \in DOMAIN rel[c] :
         rel[c][i].time >= 0 /\ (rel[c][i].state <=> rel[c][i].causes = {})

(* What outages need of an input to be applied as they were rolled: that   *)
(* no time is before time 0; that failures and repairs take time; and that *)
(* a component that has failed is repaired within the time a scenario      *)
(* takes, since Clip does not look for one that lasts all of it.           *)
NothingIsBeforeTimeZero(input) ==
  /\ \A c \in DOMAIN input.age : input.age[c] >= 0
  /\ \A id \in DOMAIN input.scenarios :
       input.scenarios[id].offset >= 0 /\ input.scenarios[id].duration >= 0

FailuresTakeTime(input) ==
  /\ \A m \in DOMAIN input.failureModes :
       \A d \in {input.failureModes[m].failure, input.failureModes[m].repair} :
         \A dt \in Advances(input.dists[d]) : dt > 0
  /\ \A m \in DOMAIN input.fragilityModes : \A d \in input.fragilityModes[m].repair :
       \A dt \in Advances(input.dists[d]) : dt > 0

RepairsFitScenarios(input) ==
  \A m \in DOMAIN input.failureModes :
    \A dt \in Advances(input.dists[input.failureModes[m].repair]) :
      \A id \in DOMAIN input.scenarios : dt <= input.scenarios[id].duration

OutagesSuit(input) ==
  NothingIsBeforeTimeZero(input) /\ FailuresTakeTime(input) /\ RepairsFitScenarios(input)

(* And for the reports of them to be right, that what a fragility takes    *)
(* down is repaired by the end of the scenario, or never.                  *)
FragilitiesFitScenarios(input) ==
  \A m \in DOMAIN input.fragilityModes : \A d \in input.fragilityModes[m].repair :
    \A dt \in Advances(input.dists[d]) :
      \A id \in DOMAIN input.scenarios : dt <= input.scenarios[id].duration

(* Every time between a failure and a repair, or between a repair and the  *)
(* next failure, is one the failure mode's own distributions can give.     *)
SchedulesFollowTheirMode ==
  phase = "fragilities" => \A l \in Links :
    LET mode == sim.failureModes[sim.links[l].mode]
        from(i) == IF i = 1 THEN 0 ELSE schedules[l][i - 1].time
    IN  \A i \in DOMAIN schedules[l] :
          schedules[l][i].time - from(i) \in
            Advances(DistOf(IF schedules[l][i].state THEN mode.repair ELSE mode.failure))

-----------------------------------------------------------------------------
Reported == phase = "occurrence" /\ occ > 0

StatsOf(c) == Last(statistics).comp[c]

(* The availability reported of a component, and of all of them together,  *)
(* is how long they were up in the scenario.                               *)
AvailabilityIsTheTimeUp ==
  Reported =>
    /\ \A c \in Components :
         StatsOf(c).availability = Cardinality({t \in Ticks : UpAt(RelOf(c), t)})
    /\ Last(statistics).network.availability =
         Cardinality({t \in Ticks : \A c \in Components : UpAt(RelOf(c), t)})

(* A mode is reported for as long as it had the component down, and as     *)
(* often as it took the component down from being up, also at the moment   *)
(* the scenario ends.                                                      *)
FailuresAreCounted ==
  Reported => \A c \in Components, cause \in Cause :
    LET down == {t \in Ticks \cup {Duration} : cause \in CausesAt(RelOf(c), t)}
    IN  /\ StatsOf(c).time[cause] = Cardinality(down \cap Ticks)
        /\ StatsOf(c).count[cause] =
             Cardinality({t \in down : t = 0 \/ UpAt(RelOf(c), t - 1)})

-----------------------------------------------------------------------------
(* The loads of another scenario never stay in force: every occurrence is  *)
(* run with what each component has for its scenario.                      *)
LoadsAreTheScenarios ==
  \A i \in DOMAIN rows : \A j \in DOMAIN sim.scheduled :
    rows[i].loads[j] = sim.scheduled[j][rows[i].scenario]

(* A finished run reports the scenarios in the order of their tags and the *)
(* occurrences of each in the order they were numbered, none left out: each*)
(* begins the advance rolled for it after the one before.  It has as many  *)
(* as are allowed, or else the last advance rolled is of one that would    *)
(* have begun after the maximum time: no occurrence rolled in time is      *)
(* skipped, and none that is too late is run.                              *)
RowsOf(id) == {i \in DOMAIN rows : rows[i].scenario = id}
TagOf(id)  == sim.scenarios[id].tag
Number(i)  == statistics[i].occ

BeginsAt(id, k, time) ==
  \/ k = 0 /\ time = 0
  \/ \E i \in RowsOf(id) : Number(i) = k /\ rows[i].start = time

ScenarioIsComplete(id) ==
  LET n == Cardinality(RowsOf(id))
  IN  /\ \A i, j \in RowsOf(id) : i < j => Number(i) < Number(j)
      /\ {Number(i) : i \in RowsOf(id)} = 1 .. n
      /\ \A i \in RowsOf(id) :
           /\ rows[i].start <= sim.maxTime
           /\ BeginsAt(id, Number(i) - 1, rows[i].start - rolled[id][Number(i)])
      /\ \/ n = MaxOccurrences(id) /\ Len(rolled[id]) = n
         \/ /\ n < MaxOccurrences(id) /\ Len(rolled[id]) = n + 1
            /\ \E time \in 0 .. sim.maxTime :
                 BeginsAt(id, n, time) /\ time + rolled[id][n + 1] > sim.maxTime

OccurrencesAreComplete ==
  phase = "done" =>
    /\ \A i, j \in DOMAIN rows :
         i < j => TagOf(rows[i].scenario) <= TagOf(rows[j].scenario)
    /\ \A id \in DOMAIN sim.scenarios : ScenarioIsComplete(id)

(* A run comes to an end, where failures and repairs take time.            *)
Terminates == <>(phase \in {"done", "stopped", "failed"})

=============================================================================
