------------------------------ MODULE Results -------------------------------
(***************************************************************************)
(* What is made of the results of one run: the statistics of an occurrence,*)
(* and the rows reported at uniform time steps.  The flows of a row hold   *)
(* until the time of the next; energies are in watts times ticks.          *)
(***************************************************************************)
EXTENDS SimulationProperties, FiniteSetsExt

CONSTANTS
  TimeSteps   \* reporting intervals a user may ask for, in ticks

ASSUME ResultsAssumption == TimeSteps \subseteq Nat \ {0}

-----------------------------------------------------------------------------
(* ModelResults_CalculateScenarioOccurrenceStats                           *)
From(kinds) == {k \in Conn : Part[Connection[k].from].kind \in kinds}
Into(kinds) == {k \in Conn : Part[Connection[k].to].kind \in kinds}

SourceConns      == From({"ConstantSource", "ScheduleBasedSource"})
NothingOfEnvironment == {}   \* a slip
EnvironmentConns == From({"EnvironmentSource"})
LoadConns        == Into({"ConstantLoad", "ScheduleBasedLoad"})
WasteConns       == Into({"WasteSink"})

Intervals  == 2 .. Len(timeAndFlows)
Elapsed(i) == timeAndFlows[i].time - timeAndFlows[i - 1].time
Before(i)  == timeAndFlows[i - 1]

Over(intervals, Amount(_)) == Sum([i \in intervals |-> Amount(i)], intervals)

EnergyActual(conns) ==
  Over(Intervals, LAMBDA i : Elapsed(i) * Sum(Before(i).actual, conns))

(* Loads are accounted for all together, one by one, and by the type of    *)
(* flow they take: each time, conns are their connections.                 *)
EnergyRequested(conns) ==
  Over(Intervals, LAMBDA i : Elapsed(i) * Sum(Before(i).req, conns))

(* What a load goes without: nothing where it takes all it asked for.      *)
Unmet(row, k) == IF row.actual[k] = row.req[k] THEN 0 ELSE row.req[k] - row.actual[k]

LoadNotServed(conns) ==
  Over(Intervals, LAMBDA i :
    Elapsed(i) * Sum([k \in conns |-> Unmet(Before(i), k)], conns))

Met(conns, i)  == \A k \in conns : Before(i).actual[k] = Before(i).req[k]
AllLoadsMet(i) == Met(LoadConns, i)

Uptime(conns) == Over({i \in Intervals : Met(conns, i)}, Elapsed)
Downtime      == Over({i \in Intervals : ~ AllLoadsMet(i)}, Elapsed)

(* The single event downtime running at the end of an interval, and the    *)
(* longest one that had ended by then; the last may still be running.      *)
SEDT[i \in 1 .. Len(timeAndFlows)] ==
  IF i = 1 \/ AllLoadsMet(i) THEN 0 ELSE SEDT[i - 1] + Elapsed(i)

LongestEnded[i \in 1 .. Len(timeAndFlows)] ==
  IF i = 1 THEN 0
  ELSE IF AllLoadsMet(i) THEN Max({LongestEnded[i - 1], SEDT[i - 1]})
  ELSE LongestEnded[i - 1]

LongestEndedSEDT == LongestEnded[Len(timeAndFlows)]   \* a slip

MaxSEDT == LET n == Len(timeAndFlows) IN Max({LongestEnded[n], SEDT[n]})

(* Charges and discharges are added up store by store.                     *)
ChargeOfAnyChange ==   \* a slip
  Over(Intervals, LAMBDA i :
    Sum([c \in Stores |-> Monus(timeAndFlows[i].amount[c], Before(i).amount[c])
                             + Monus(Before(i).amount[c], timeAndFlows[i].amount[c])], Stores))

StorageCharge ==
  Over(Intervals, LAMBDA i :
    Sum([c \in Stores |-> Monus(timeAndFlows[i].amount[c], Before(i).amount[c])], Stores))

StorageDischarge ==
  Over(Intervals, LAMBDA i :
    Sum([c \in Stores |-> Monus(Before(i).amount[c], timeAndFlows[i].amount[c])], Stores))

ChangeInStorage ==
  IF Len(timeAndFlows) < 2 THEN -Sum(timeAndFlows[1].amount, Stores)
  ELSE Sum(timeAndFlows[Len(timeAndFlows)].amount, Stores) - Sum(timeAndFlows[1].amount, Stores)

(* The column "energy balance (source-(load+storage+waste))" of            *)
(* WriteStatisticsToFile.                                                  *)
Balance ==
  EnergyActual(SourceConns) + EnergyActual(EnvironmentConns)
  - (EnergyActual(LoadConns) + (StorageCharge - StorageDischarge) * TicksPerSecond
     + EnergyActual(WasteConns))

-----------------------------------------------------------------------------
(* ApplyUniformTimeStep: a row for every multiple of the step, made from   *)
(* the last result before it and the first one not before it.              *)
UniformRowOfLast(row, next, time) ==   \* a slip
  [row EXCEPT !.time = time]

UniformRow(row, next, time) ==
  LET flows == IF time = next.time THEN next ELSE row
  IN  [flows EXCEPT
         !.time = time,
         !.amount = [c \in Stores |->
            ((next.time - time) * row.amount[c] + (time - row.time) * next.amount[c])
            \div (next.time - row.time)]]

ApplyUniformTimeStep(rows, step) ==
  LET reached(time) == Min({i \in DOMAIN rows : rows[i].time >= time})
  IN  [n \in 1 .. rows[Len(rows)].time \div step + 1 |->
         IF n = 1 THEN rows[1]
         ELSE LET time == (n - 1) * step
                  i    == reached(time)
              IN  UniformRow(rows[i - 1], rows[i], time)]

-----------------------------------------------------------------------------
(* Properties of the results of a run that reached its final time.         *)

Finished == pc = "done"

(* No energy is made and none is lost: what the sources and the environment*)
(* gave is what the loads took, the stores gained and the sinks wasted,    *)
(* exactly or to the rounding of what goes in and out of every store in    *)
(* the intervals that are not whole seconds.                               *)
EnergyBalances ==
  Finished =>
    LET slack == Cardinality(Stores) * Over(Intervals, LAMBDA i : Rounding(Elapsed(i)))
    IN  2 * Balance \in -slack .. slack

(* Uptime and downtime share the whole duration of the scenario; what any  *)
(* of the loads asked for is what they got and what they went without, and *)
(* they went without only when they were not up all the time, which they   *)
(* are for at least as long as all loads together; and the longest single  *)
(* outage is that of the longest stretch of intervals with a load unserved.*)
Stretches == {s \in Intervals \X Intervals :
                s[1] <= s[2] /\ \A i \in s[1] .. s[2] : ~ AllLoadsMet(i)}

OutagesAreAccountedFor ==
  Finished =>
    /\ Uptime(LoadConns) + Downtime = FinalTime
    /\ \A conns \in SUBSET LoadConns :
         /\ EnergyRequested(conns) = EnergyActual(conns) + LoadNotServed(conns)
         /\ LoadNotServed(conns) = 0 <=> Uptime(conns) = FinalTime
         /\ Uptime(conns) >= Uptime(LoadConns)
    /\ MaxSEDT = Max({0} \cup {timeAndFlows[s[2]].time - timeAndFlows[s[1] - 1].time : s \in Stretches})

(* A uniform row shows the flows in force at its time, those of the last   *)
(* event not after it, and what the stores hold then.                      *)
UniformRowsShowTheRun ==
  Finished => \A step \in TimeSteps :
    LET rows == ApplyUniformTimeStep(timeAndFlows, step)
    IN  /\ Len(rows) = FinalTime \div step + 1
        /\ \A n \in DOMAIN rows :
             LET past == {i \in DOMAIN timeAndFlows : timeAndFlows[i].time <= rows[n].time}
                 last == timeAndFlows[Max(past)]
             IN  /\ rows[n].time = (n - 1) * step
                 /\ rows[n].actual = last.actual
                 /\ \A c \in Stores :
                      /\ rows[n].amount[c] \in 0 .. Part[c].capacity
                      /\ rows[n].time = last.time => rows[n].amount[c] = last.amount[c]

=============================================================================
