--------------------------- MODULE ScenarioProofs ---------------------------
(***************************************************************************)
(* For every set of inputs: a run gives every occurrence the loads of its  *)
(* scenario, and leaves out no scenario and no occurrence there is time    *)
(* for; its values are of their kinds; components are down when and for    *)
(* what the schedules rolled for them say, in the simulation as in what is *)
(* reported.                                                               *)
(***************************************************************************)
EXTENDS ScenarioProperties, FiniteSetTheorems, SequenceTheorems, TLAPS

-----------------------------------------------------------------------------
(* Extremes of sets of numbers.                                            *)
LEMMA LeastExists ==
  ASSUME NEW S, S \subseteq Nat, S # {}
  PROVE  \E x \in S : \A y \in S : x <= y
<1>1. PICK x \in S : \A y \in S : ~ (<<y, x>> \in OpToRel(<, Nat))
  BY WFMin, NatLessThanWellFounded
<1>2. \A y \in S : ~ (y < x)
  BY <1>1 DEF OpToRel
<1> QED
  BY <1>2

LEMMA MinOf ==
  ASSUME NEW S, S \subseteq Nat, S # {}
  PROVE  Min(S) \in S /\ \A y \in S : Min(S) <= y
BY LeastExists DEF Min

LEMMA MaxOf ==
  ASSUME NEW S, S \subseteq Nat, S # {}, NEW n \in Nat, \A x \in S : x <= n
  PROVE  Max(S) \in S /\ \A y \in S : y <= Max(S)
<1> DEFINE T == {m \in Nat : n - m \in S}
<1>1. \A x \in S : n - x \in T /\ n - (n - x) = x
  OBVIOUS
<1>2. PICK z \in T : \A y \in T : z <= y
  <2>1. T \subseteq Nat /\ T # {}
    BY <1>1
  <2> HIDE DEF T
  <2> QED
    BY <2>1, LeastExists
<1>3. n - z \in S /\ \A y \in S : y <= n - z
  BY <1>1, <1>2
<1>4. \E x \in S : \A y \in S : x >= y
  BY <1>3
<1> QED
  BY <1>4 DEF Max

(* Max, of a set that has a largest element.                               *)
LEMMA MaxIs ==
  ASSUME NEW S, S \subseteq Int, NEW x \in S, \A y \in S : y <= x
  PROVE  Max(S) = x
<1>1. x \in S /\ \A y \in S : x >= y
  OBVIOUS
<1>2. Max(S) \in S /\ \A y \in S : Max(S) >= y
  BY <1>1 DEF Max
<1>3. Max(S) >= x /\ x >= Max(S)
  BY <1>1, <1>2
<1>4. Max(S) \in Int /\ x \in Int
  BY <1>2
<1> QED
  BY <1>3, <1>4

-----------------------------------------------------------------------------
(* Whatever a distribution is made of, time only goes forward.             *)
LEMMA RoundedType ==
  ASSUME NEW num \in Int, NEW den \in Int, den > 0
  PROVE  Rounded(num, den) \in Int
BY DEF Rounded

LEMMA InTableType ==
  ASSUME NEW d, ValidQuantileTable(d.variates, d.times),
         d.variates \in Seq(Int), d.times \in Seq(Int), NEW fraction \in Nat
  PROVE  InTable(d, fraction) \in Int
<1> DEFINE found == Containing(d, fraction)
           exact == {i \in found : d.variates[i] = fraction}
           n     == Len(d.variates)
           Between(k) ==
             Rounded((d.variates[k + 1] - fraction) * d.times[k]
                       + (fraction - d.variates[k]) * d.times[k + 1],
                     d.variates[k + 1] - d.variates[k])
<1>1. n \in Nat /\ n >= 2 /\ Len(d.times) = n
  BY DEF ValidQuantileTable
<1>2. d.times[Len(d.times)] \in Int
  BY <1>1
<1>3. ASSUME NEW k \in found
      PROVE  Between(k) \in Int
  <2>1. k \in 1 .. n - 1 /\ d.variates[k] <= fraction /\ fraction < d.variates[k + 1]
    BY DEF Containing
  <2>2. k \in 1 .. n /\ k + 1 \in 1 .. n
    BY <2>1, <1>1
  <2>3. /\ d.variates[k] \in Int /\ d.variates[k + 1] \in Int
        /\ d.times[k] \in Int /\ d.times[k + 1] \in Int
    <3>1. ASSUME NEW xs \in Seq(Int), NEW i \in 1 .. Len(xs)
          PROVE  xs[i] \in Int
      OBVIOUS
    <3> QED
      BY <2>2, <1>1, <3>1
  <2> DEFINE num == (d.variates[k + 1] - fraction) * d.times[k]
                      + (fraction - d.variates[k]) * d.times[k + 1]
             den == d.variates[k + 1] - d.variates[k]
  <2>4. ASSUME NEW a \in Int, NEW b \in Int
        PROVE  a - b \in Int /\ a + b \in Int /\ a * b \in Int
    OBVIOUS
  <2>5. num \in Int /\ den \in Int /\ den > 0
    <3>1. d.variates[k + 1] - fraction \in Int /\ fraction - d.variates[k] \in Int
      BY <2>3
    <3>2. /\ (d.variates[k + 1] - fraction) * d.times[k] \in Int
          /\ (fraction - d.variates[k]) * d.times[k + 1] \in Int
      BY <3>1, <2>3, <2>4, Zenon
    <3>3. num \in Int
      BY <3>2, <2>4, Zenon
    <3>4. den \in Int /\ den > 0
      BY <2>1, <2>3
    <3> QED
      BY <3>3, <3>4
  <2>6. Between(k) = Rounded(num, den)
    OBVIOUS
  <2> HIDE DEF num, den, Between
  <2> QED
    BY <2>5, <2>6, RoundedType
<1>4. ASSUME found # {}
      PROVE  (IF exact # {} THEN Min(exact) ELSE Max(found)) \in found
  <2>1. found \subseteq Nat /\ exact \subseteq Nat /\ \A i \in found : i <= n
    BY <1>1 DEF Containing
  <2>2. CASE exact # {}
    <3>1. Min(exact) \in exact
      BY <2>1, <2>2, MinOf
    <3> QED
      BY <2>2, <3>1
  <2>3. CASE exact = {}
    BY <2>1, <2>3, <1>4, <1>1, MaxOf
  <2> QED
    BY <2>2, <2>3
<1>5. InTable(d, fraction) =
        IF fraction >= Whole THEN d.times[Len(d.times)]
        ELSE IF found = {} THEN 0
        ELSE Between(IF exact # {} THEN Min(exact) ELSE Max(found))
  BY DEF InTable
<1> HIDE DEF found, exact, Between
<1> QED
  BY <1>2, <1>3, <1>4, <1>5

LEMMA AdvanceType ==
  ASSUME NEW d, IsDistribution(d), NEW fraction \in Fraction
  PROVE  Advance(d, fraction) \in Int
<1>1. Whole \in Nat \ {0} /\ fraction \in Nat
  BY ScenarioAssumption DEF Fraction
<1>2. CASE d.type = "Fixed" /\ d.value \in Int
  BY <1>2 DEF Advance
<1>3. CASE d.type = "Uniform" /\ d.lower \in Int /\ d.upper \in Int
  <2>1. fraction * (d.upper - d.lower) \in Int
    BY <1>1, <1>3
  <2>2. ASSUME NEW a \in Int PROVE a \div Whole \in Int
    BY <1>1
  <2>3. (fraction * (d.upper - d.lower)) \div Whole \in Int
    BY <2>1, <2>2
  <2> QED
    BY <1>3, <2>3 DEF Advance
<1>4. CASE d.type = "QuantileTable" /\ d.variates \in Seq(Int) /\ d.times \in Seq(Int)
  BY <1>1, <1>4, InTableType DEF Advance, IsDistribution, ValidDistribution
<1>5. CASE d.type \in {"Normal", "Weibull"} /\ d.quantile \in [Fraction -> Int]
  BY <1>5 DEF Advance
<1> QED
  BY <1>2, <1>3, <1>4, <1>5 DEF IsDistribution

LEMMA AdvancesType ==
  ASSUME NEW d, IsDistribution(d)
  PROVE  Advances(d) \subseteq Nat
<1> SUFFICES ASSUME NEW fraction \in Fraction
             PROVE  NextTimeAdvance(d, fraction) \in Nat
  BY DEF Advances
<1>1. Advance(d, fraction) \in Int
  BY AdvanceType
<1>2. CASE Advance(d, fraction) <= 0
  BY <1>1, <1>2, MaxIs DEF NextTimeAdvance
<1>3. CASE Advance(d, fraction) > 0
  BY <1>1, <1>3, MaxIs DEF NextTimeAdvance
<1> QED
  BY <1>1, <1>2, <1>3

-----------------------------------------------------------------------------
(* The inductive invariant.  A scenario is being run in these phases; the  *)
(* occurrence begun last is reported once its failures are made.           *)
InScenario == phase \in {"starts", "occurrence", "failures", "fragilities"}

Finished == IF phase \in {"failures", "fragilities"} THEN occ - 1 ELSE occ

Ids == DOMAIN sim.scenarios

RowsAreOfScenarios ==
  /\ sim \in Sims
  /\ rows \in Seq(Range(rows))
  /\ \A i \in DOMAIN rows :
       rows[i].scenario \in Ids /\ rows[i].start \in 0 .. sim.maxTime
  /\ statistics \in Seq(Range(statistics)) /\ Len(statistics) = Len(rows)
  /\ phase = "open" => rows = <<>>

(* No scenario comes twice, and none before one with a lesser tag.         *)
QueueIsSorted ==
  /\ queue \in Seq(Ids)
  /\ \A i, j \in DOMAIN queue :
       i < j => queue[i] # queue[j] /\ TagOf(queue[i]) <= TagOf(queue[j])
  /\ \A i \in DOMAIN rows, j \in DOMAIN queue :
       TagOf(rows[i].scenario) <= TagOf(queue[j])
  /\ \A i, j \in DOMAIN rows :
       i < j => TagOf(rows[i].scenario) <= TagOf(rows[j].scenario)
  /\ InScenario => queue # <<>>
  /\ phase = "done" => queue = <<>>

LoadsInForce ==
  /\ DOMAIN assigned = DOMAIN sim.scheduled
  /\ InScenario => \A j \in DOMAIN sim.scheduled : assigned[j] = sim.scheduled[j][Scenario]

(* The occurrences of the current scenario are in order and in time, and   *)
(* all of them once they are rolled.                                       *)
StartsAreInTime ==
  InScenario =>
    /\ starts \in Seq(0 .. sim.maxTime)
    /\ \A i, j \in DOMAIN starts : i < j => starts[i] <= starts[j]
    /\ Len(starts) <= MaxOccurrences(Scenario)
    /\ occ \in 0 .. Len(starts)
    /\ phase = "starts" => occ = 0
    /\ phase \in {"failures", "fragilities"} => occ > 0

(* They are what was rolled for it; only the last roll is of one too late. *)
Before(k) == IF k = 1 THEN 0 ELSE starts[k - 1]

RollsAreKept ==
  /\ rolled \in [Ids -> Seq(Nat)]
  /\ phase = "open" => \A id \in Ids : rolled[id] = <<>>
  /\ InScenario =>
       /\ Len(rolled[Scenario]) >= Len(starts)
       /\ \A k \in DOMAIN starts : starts[k] = Before(k) + rolled[Scenario][k]
       /\ phase = "starts" => Len(rolled[Scenario]) = Len(starts)
       /\ phase # "starts" =>
            \/ /\ Len(starts) = MaxOccurrences(Scenario)
               /\ Len(rolled[Scenario]) = Len(starts)
            \/ /\ Len(starts) < MaxOccurrences(Scenario)
               /\ Len(rolled[Scenario]) = Len(starts) + 1
               /\ TooLate(rolled[Scenario][Len(starts) + 1])

(* Every scenario is still to be run, is being run or is complete.         *)
Queued(id)   == \E j \in DOMAIN queue : queue[j] = id
Awaited(id)  ==
  /\ InScenario => id # Scenario
  /\ Queued(id) /\ RowsOf(id) = {} /\ rolled[id] = <<>>
Underway(id) ==
  /\ InScenario /\ id = Scenario
  /\ Cardinality(RowsOf(id)) = Finished
  /\ \A i, j \in RowsOf(id) : i < j => Number(i) < Number(j)
  /\ {Number(i) : i \in RowsOf(id)} = 1 .. Finished
  /\ \A i \in RowsOf(id) : rows[i].start = starts[Number(i)]
Completed(id) == ~ Queued(id) /\ ScenarioIsComplete(id)

NoneIsLost ==
  phase \notin {"open", "stopped", "failed"} =>
    \A id \in Ids : Awaited(id) \/ Underway(id) \/ Completed(id)

ScenarioInv ==
  /\ RowsAreOfScenarios /\ QueueIsSorted /\ LoadsInForce
  /\ StartsAreInTime /\ RollsAreKept /\ NoneIsLost /\ LoadsAreTheScenarios

-----------------------------------------------------------------------------
LEMMA InputType ==
  ASSUME RowsAreOfScenarios
  PROVE  /\ IsInput(sim)
         /\ Ids = 1 .. Len(sim.scenarios) /\ Len(sim.scenarios) \in Nat
         /\ sim.maxTime \in Nat
         /\ \A id \in Ids : TagOf(id) \in Int /\ MaxOccurrences(id) \in Nat
         /\ \A id \in Ids : Advances(DistOf(sim.scenarios[id].dist)) \subseteq Nat
<1>1. IsInput(sim)
  BY ScenarioAssumption DEF RowsAreOfScenarios
<1>2. ASSUME NEW id \in Ids
      PROVE  MaxOccurrences(id) \in Nat
  BY <1>1, ScenarioAssumption DEF IsInput, MaxOccurrences, The, Ids
<1>3. ASSUME NEW id \in Ids
      PROVE  Advances(DistOf(sim.scenarios[id].dist)) \subseteq Nat
  BY <1>1, AdvancesType DEF IsInput, DistOf, Ids
<1> QED
  BY <1>1, <1>2, <1>3 DEF IsInput, TagOf, Ids

LEMMA RowsOfType ==
  ASSUME RowsAreOfScenarios, NEW id
  PROVE  /\ Len(rows) \in Nat /\ DOMAIN rows = 1 .. Len(rows)
         /\ RowsOf(id) \subseteq 1 .. Len(rows)
         /\ IsFiniteSet(RowsOf(id)) /\ Cardinality(RowsOf(id)) \in Nat
<1>1. Len(rows) \in Nat /\ DOMAIN rows = 1 .. Len(rows)
  BY DEF RowsAreOfScenarios
<1>2. RowsOf(id) \subseteq 1 .. Len(rows)
  BY <1>1 DEF RowsOf
<1>3. IsFiniteSet(1 .. Len(rows))
  BY <1>1, FS_Interval
<1> QED
  BY <1>1, <1>2, <1>3, FS_Subset, FS_CardinalityType

LEMMA QueueType ==
  ASSUME QueueIsSorted, queue # <<>>
  PROVE  /\ Len(queue) \in Nat \ {0} /\ DOMAIN queue = 1 .. Len(queue)
         /\ Scenario = queue[1] /\ Scenario \in Ids /\ Queued(Scenario)
         /\ Tail(queue) \in Seq(Ids) /\ Len(Tail(queue)) = Len(queue) - 1
         /\ \A i \in 1 .. Len(queue) - 1 : Tail(queue)[i] = queue[i + 1]
<1>1. queue \in Seq(Ids)
  BY DEF QueueIsSorted
<1>2. Len(queue) \in Nat \ {0} /\ DOMAIN queue = 1 .. Len(queue)
  BY <1>1
<1>3. Scenario = queue[1] /\ Scenario \in Ids
  BY <1>1, <1>2 DEF Scenario
<1>4. Queued(Scenario)
  BY <1>2, <1>3 DEF Queued
<1> QED
  BY <1>1, <1>2, <1>3, <1>4, HeadTailProperties

(* Where only the phase changes, or what has no part in the invariant.     *)
LEMMA SameRows ==
  ASSUME UNCHANGED <<sim, rows>>, NEW id
  PROVE  /\ RowsOf(id)' = RowsOf(id) /\ TagOf(id)' = TagOf(id) /\ Ids' = Ids
         /\ MaxOccurrences(id)' = MaxOccurrences(id)
BY DEF RowsOf, TagOf, Ids, MaxOccurrences

LEMMA SameCompleteness ==
  ASSUME UNCHANGED <<sim, rows, statistics>>, NEW id, rolled[id]' = rolled[id]
  PROVE  ScenarioIsComplete(id)' = ScenarioIsComplete(id)
<1>1. RowsOf(id)' = RowsOf(id) /\ MaxOccurrences(id)' = MaxOccurrences(id)
  BY SameRows
<1>2. \A i : Number(i)' = Number(i)
  BY DEF Number
<1>3. \A k, time : BeginsAt(id, k, time)' = BeginsAt(id, k, time)
  BY <1>1, <1>2 DEF BeginsAt
<1> QED
  BY <1>1, <1>2, <1>3 DEF ScenarioIsComplete

LEMMA SameRolls ==
  ASSUME RollsAreKept, UNCHANGED <<sim, queue, starts, rolled>>, phase' # "open",
         InScenario' => InScenario /\ (phase' = "starts" <=> phase = "starts")
  PROVE  RollsAreKept'
<1>1. Ids' = Ids /\ Scenario' = Scenario /\ \A dt : TooLate(dt)' = TooLate(dt)
  BY DEF Ids, Scenario, TooLate, LastStart
<1>2. /\ \A k : Before(k)' = Before(k)
      /\ MaxOccurrences(Scenario)' = MaxOccurrences(Scenario)
  BY <1>1 DEF Before, MaxOccurrences
<1> QED
  BY <1>1, <1>2 DEF RollsAreKept

LEMMA SameQueue ==
  ASSUME QueueIsSorted, UNCHANGED <<sim, rows, queue>>,
         InScenario' => InScenario, phase' # "done"
  PROVE  QueueIsSorted'
<1>1. \A id : TagOf(id)' = TagOf(id) /\ Ids' = Ids
  BY DEF TagOf, Ids
<1> QED
  BY <1>1 DEF QueueIsSorted

LEMMA SameRowsAreOfScenarios ==
  ASSUME RowsAreOfScenarios, UNCHANGED <<sim, rows, statistics>>, phase' # "open"
  PROVE  RowsAreOfScenarios'
BY DEF RowsAreOfScenarios, Ids

LEMMA SameLoads ==
  ASSUME LoadsAreTheScenarios, UNCHANGED <<sim, rows>>
  PROVE  LoadsAreTheScenarios'
BY DEF LoadsAreTheScenarios

LEMMA SameScenarios ==
  ASSUME NoneIsLost, UNCHANGED <<sim, rows, statistics, queue, starts, rolled>>,
         phase \notin {"open", "stopped", "failed"},
         InScenario' <=> InScenario, Finished' = Finished
  PROVE  NoneIsLost'
<1> SUFFICES ASSUME NEW id \in Ids
             PROVE  (Awaited(id) \/ Underway(id) \/ Completed(id))'
  BY DEF NoneIsLost, Ids
<1>1. /\ RowsOf(id)' = RowsOf(id) /\ ScenarioIsComplete(id)' = ScenarioIsComplete(id)
      /\ Queued(id)' = Queued(id) /\ Scenario' = Scenario
      /\ \A i : Number(i)' = Number(i)
  BY SameRows, SameCompleteness DEF Queued, Scenario, Number
<1>2. Awaited(id) \/ Underway(id) \/ Completed(id)
  BY DEF NoneIsLost
<1>3. Awaited(id)' = Awaited(id)
  BY <1>1 DEF Awaited
<1>4. Underway(id)' = Underway(id)
  BY <1>1 DEF Underway
<1>5. Completed(id)' = Completed(id)
  BY <1>1 DEF Completed
<1> QED
  BY <1>2, <1>3, <1>4, <1>5

-----------------------------------------------------------------------------
(* Every action keeps the invariant.                                       *)
LEMMA OpenKeeps ==
  ASSUME ScenarioInv, OpenEvents
  PROVE  ScenarioInv'
<1> USE DEF OpenEvents
<1>1. rows = <<>> /\ RowsAreOfScenarios' /\ LoadsAreTheScenarios'
  BY SameRowsAreOfScenarios, SameLoads DEF ScenarioInv, RowsAreOfScenarios
<1>2. ~ InScenario' /\ LoadsInForce' /\ StartsAreInTime' /\ RollsAreKept'
  BY DEF ScenarioInv, InScenario, LoadsInForce, StartsAreInTime, RollsAreKept, Ids
<1>3. CASE phase' = "stopped"
  BY <1>1, <1>2, <1>3, SameQueue DEF ScenarioInv, NoneIsLost
<1>4. CASE phase' = "scenario" /\ queue' \in ScenarioOrders
  <2> DEFINE n == Len(sim.scenarios)
  <2>1. n \in Nat /\ Ids = 1 .. n /\ Ids' = Ids /\ \A id : TagOf(id)' = TagOf(id)
    BY InputType DEF ScenarioInv, Ids, TagOf
  <2>2. /\ queue' \in [1 .. n -> Ids]
        /\ \A i, j \in 1 .. n : queue'[i] = queue'[j] => i = j
        /\ \A id \in Ids : \E j \in 1 .. n : queue'[j] = id
        /\ \A i, j \in 1 .. n : i < j => TagOf(queue'[i]) <= TagOf(queue'[j])
    BY <1>4, <2>1 DEF ScenarioOrders, Ids, TagOf, Bijection, Injection, Surjection, IsInjective
  <2>3. queue' \in Seq(Ids) /\ DOMAIN queue' = 1 .. n
    <3>1. ASSUME NEW S, NEW f \in [1 .. n -> S] PROVE f \in Seq(S)
      BY <2>1
    <3> QED
      BY <2>1, <2>2, <3>1
  <2>4. QueueIsSorted'
    BY <1>1, <1>2, <1>4, <2>1, <2>2, <2>3 DEF QueueIsSorted
  <2>5. ASSUME NEW id \in Ids
        PROVE  Awaited(id)'
    BY <1>1, <1>2, <2>2, <2>3 DEF Awaited, Queued, RowsOf, ScenarioInv, RollsAreKept
  <2>6. NoneIsLost'
    BY <2>1, <2>5 DEF NoneIsLost
  <2> QED
    BY <1>1, <1>2, <2>4, <2>6 DEF ScenarioInv
<1> QED
  BY <1>3, <1>4

LEMMA BeginScenarioKeeps ==
  ASSUME ScenarioInv, BeginScenario
  PROVE  ScenarioInv'
<1> USE DEF BeginScenario
<1>1. RowsAreOfScenarios' /\ QueueIsSorted' /\ LoadsAreTheScenarios'
  <2>1. QueueIsSorted'
    <3>1. \A id : TagOf(id)' = TagOf(id) /\ Ids' = Ids
      BY DEF TagOf, Ids
    <3> QED
      BY <3>1 DEF QueueIsSorted, ScenarioInv
  <2> QED
    BY <2>1, SameRowsAreOfScenarios, SameLoads DEF ScenarioInv
<1>2. /\ InScenario' /\ ~ InScenario /\ Scenario' = Scenario
      /\ Scenario \in Ids /\ Queued(Scenario)
  BY QueueType DEF InScenario, Scenario, ScenarioInv
<1>3. LoadsInForce'
  <2>1. DOMAIN sim.scheduled = 1 .. Len(sim.scheduled) /\ Len(sim.scheduled) \in Nat
    BY InputType DEF ScenarioInv, IsInput
  <2> QED
    BY <1>2, <2>1 DEF LoadsInForce, SetUpTo, ScenarioInv
<1>4. StartsAreInTime'
  <2>1. MaxOccurrences(Scenario)' \in Nat
    BY <1>2, SameRows, InputType DEF ScenarioInv
  <2> QED
    BY <1>2, <2>1 DEF StartsAreInTime
<1>5. RollsAreKept'
  <2>1. rolled[Scenario] = <<>>
    BY <1>2 DEF ScenarioInv, NoneIsLost, Awaited, Underway, Completed
  <2>2. <<>> \in Seq(Nat) /\ Len(<<>>) = 0 /\ DOMAIN <<>> = {}
    OBVIOUS
  <2>3. Ids' = Ids /\ rolled' = rolled /\ starts' = <<>> /\ phase' = "starts"
    BY DEF Ids
  <2> QED
    BY <1>2, <2>1, <2>2, <2>3 DEF RollsAreKept, ScenarioInv
<1>6. NoneIsLost'
  <2> SUFFICES ASSUME NEW id \in Ids
               PROVE  (Awaited(id) \/ Underway(id) \/ Completed(id))'
    BY DEF NoneIsLost, Ids
  <2>1. /\ RowsOf(id)' = RowsOf(id) /\ ScenarioIsComplete(id)' = ScenarioIsComplete(id)
        /\ Queued(id)' = Queued(id) /\ rolled' = rolled
    BY SameRows, SameCompleteness DEF Queued
  <2>2. Awaited(id) \/ Completed(id)
    BY <1>2 DEF ScenarioInv, NoneIsLost, Underway
  <2>3. CASE id = Scenario
    <3>1. RowsOf(id)' = {} /\ Finished' = 0
      BY <1>2, <2>1, <2>2, <2>3 DEF Awaited, Completed, Finished
    <3>2. {Number(i)' : i \in {}} = 1 .. 0
      OBVIOUS
    <3> QED
      BY <1>2, <2>3, <3>1, <3>2, FS_EmptySet DEF Underway
  <2>4. CASE id # Scenario
    BY <1>2, <2>1, <2>2, <2>4 DEF Awaited, Completed
  <2> QED
    BY <2>3, <2>4
<1> QED
  BY <1>1, <1>3, <1>4, <1>5, <1>6 DEF ScenarioInv

LEMMA StopKeeps ==
  ASSUME ScenarioInv, StopAtUnhandled
  PROVE  ScenarioInv'
<1> USE DEF StopAtUnhandled
<1>1. RowsAreOfScenarios' /\ QueueIsSorted' /\ LoadsAreTheScenarios'
  BY SameRowsAreOfScenarios, SameQueue, SameLoads DEF ScenarioInv, InScenario
<1> QED
  BY <1>1 DEF ScenarioInv, LoadsInForce, SetUpTo, StartsAreInTime, RollsAreKept, NoneIsLost,
               InScenario, Ids

LEMMA LastStartType ==
  ASSUME ScenarioInv, InScenario
  PROVE  /\ Len(starts) \in Nat /\ DOMAIN starts = 1 .. Len(starts)
         /\ LastStart \in 0 .. sim.maxTime
         /\ \A k \in 1 .. Len(starts) : starts[k] \in 0 .. sim.maxTime /\ starts[k] <= LastStart
<1>1. starts \in Seq(0 .. sim.maxTime) /\ sim.maxTime \in Nat
  BY InputType DEF ScenarioInv, StartsAreInTime
<1>2. /\ Len(starts) \in Nat /\ DOMAIN starts = 1 .. Len(starts)
      /\ \A k \in 1 .. Len(starts) : starts[k] \in 0 .. sim.maxTime
  BY <1>1
<1>3. CASE starts = <<>>
  BY <1>1, <1>2, <1>3 DEF LastStart
<1>4. CASE starts # <<>>
  <2>1. Len(starts) \in 1 .. Len(starts)
    BY <1>1, <1>4
  <2>2. LastStart = starts[Len(starts)]
    BY <1>4 DEF LastStart, Last
  <2>3. ASSUME NEW k \in 1 .. Len(starts)
        PROVE  starts[k] <= starts[Len(starts)]
    <3>1. CASE k = Len(starts)
      BY <1>2, <2>1, <3>1
    <3>2. CASE k < Len(starts)
      BY <1>2, <2>1, <3>2 DEF ScenarioInv, StartsAreInTime
    <3>3. k = Len(starts) \/ k < Len(starts)
      <4>1. Len(starts) \in Nat
        BY <1>2
      <4> QED
        BY <4>1
    <3> QED
      BY <3>1, <3>2, <3>3
  <2> QED
    BY <1>2, <2>1, <2>2, <2>3
<1> QED
  BY <1>3, <1>4

LEMMA AppendFacts ==
  ASSUME NEW S, NEW xs \in Seq(S), NEW x \in S
  PROVE  /\ Append(xs, x) \in Seq(S) /\ Len(Append(xs, x)) = Len(xs) + 1
         /\ DOMAIN Append(xs, x) = 1 .. Len(xs) + 1
         /\ \A k \in 1 .. Len(xs) : Append(xs, x)[k] = xs[k]
         /\ Append(xs, x)[Len(xs) + 1] = x
OBVIOUS

LEMMA AppendKeepsRange ==
  ASSUME NEW xs, xs \in Seq(Range(xs)), NEW x
  PROVE  LET ys == Append(xs, x)
         IN  /\ ys \in Seq(Range(ys)) /\ Len(ys) = Len(xs) + 1
             /\ \A i \in 1 .. Len(xs) : ys[i] = xs[i]
             /\ ys[Len(xs) + 1] = x
<1> DEFINE ys == Append(xs, x)
<1>1. xs \in Seq(Range(xs) \cup {x})
  BY SeqMonotonic
<1>2. /\ ys \in Seq(Range(xs) \cup {x}) /\ Len(ys) = Len(xs) + 1
      /\ DOMAIN ys = 1 .. Len(xs) + 1
      /\ \A i \in 1 .. Len(xs) : ys[i] = xs[i]
      /\ ys[Len(xs) + 1] = x
  BY <1>1, AppendFacts
<1>3. Len(xs) \in Nat /\ DOMAIN xs = 1 .. Len(xs)
  BY <1>1
<1> HIDE DEF ys
<1>4. x \in Range(ys) /\ \A i \in DOMAIN xs : xs[i] \in Range(ys)
  BY <1>2, <1>3 DEF Range
<1>5. Range(xs) \cup {x} \subseteq Range(ys)
  BY <1>4 DEF Range
<1> QED
  BY <1>2, <1>5, SeqMonotonic DEF ys

LEMMA RollStartKeeps ==
  ASSUME ScenarioInv, RollStart
  PROVE  ScenarioInv'
<1> DEFINE advances == Advances(DistOf(sim.scenarios[Scenario].dist))
           max      == MaxOccurrences(Scenario)
           roll     == rolled[Scenario]
           n        == Len(starts)
<1>1. /\ phase = "starts" /\ UNCHANGED <<sim, queue, assigned, occ, rows, statistics>>
      /\ \/ phase' = "occurrence" /\ UNCHANGED <<starts, rolled>> /\ n = max
         \/ /\ n # max
            /\ \E dt \in advances :
                 /\ rolled' = [rolled EXCEPT ![Scenario] = Append(@, dt)]
                 /\ \/ TooLate(dt) /\ phase' = "occurrence" /\ UNCHANGED starts
                    \/ /\ ~ TooLate(dt) /\ phase' = "starts"
                       /\ starts' = Append(starts, LastStart + dt)
  BY DEF RollStart
<1> HIDE DEF advances, max
<1>2. /\ InScenario /\ InScenario' /\ Scenario' = Scenario /\ Scenario \in Ids /\ Queued(Scenario)
      /\ phase' \notin {"open", "done", "failures", "fragilities"}
      /\ occ = 0 /\ occ' = 0 /\ Finished = 0 /\ Finished' = 0
  BY <1>1, QueueType DEF InScenario, Scenario, Finished, ScenarioInv, StartsAreInTime, QueueIsSorted
<1>3. RowsAreOfScenarios' /\ QueueIsSorted' /\ LoadsAreTheScenarios' /\ LoadsInForce'
  BY <1>1, <1>2, SameRowsAreOfScenarios, SameQueue, SameLoads DEF ScenarioInv, LoadsInForce
<1>4. /\ n \in Nat /\ DOMAIN starts = 1 .. n
      /\ LastStart \in 0 .. sim.maxTime /\ sim.maxTime \in Nat
      /\ \A k \in 1 .. n : starts[k] \in 0 .. sim.maxTime /\ starts[k] <= LastStart
      /\ advances \subseteq Nat /\ max \in Nat /\ n <= max
      /\ starts \in Seq(0 .. sim.maxTime)
  BY <1>2, LastStartType, InputType DEF ScenarioInv, StartsAreInTime, advances, max
<1>5. MaxOccurrences(Scenario)' = max /\ sim' = sim /\ Ids' = Ids
  BY <1>1, <1>2, SameRows DEF max, Ids
<1>6. /\ rolled \in [Ids -> Seq(Nat)] /\ roll \in Seq(Nat) /\ Len(roll) = n
      /\ \A k \in 1 .. n : starts[k] = Before(k) + roll[k]
  BY <1>1, <1>2, <1>4 DEF ScenarioInv, RollsAreKept
<1>7. CASE phase' = "occurrence" /\ UNCHANGED <<starts, rolled>> /\ n = max
  <2>1. StartsAreInTime'
    BY <1>2, <1>4, <1>5, <1>7 DEF StartsAreInTime, ScenarioInv, max
  <2>2. RollsAreKept'
    <3>1. \A k : Before(k)' = Before(k)
      BY <1>7 DEF Before
    <3>2. Len(roll) >= n
      BY <1>4, <1>6
    <3> QED
      BY <1>2, <1>4, <1>5, <1>6, <1>7, <3>1, <3>2 DEF RollsAreKept
  <2>3. NoneIsLost'
    BY <1>1, <1>2, <1>7, SameScenarios DEF ScenarioInv
  <2> QED
    BY <1>3, <2>1, <2>2, <2>3 DEF ScenarioInv
<1>8. ASSUME NEW dt \in advances, n # max,
             rolled' = [rolled EXCEPT ![Scenario] = Append(@, dt)],
             \/ TooLate(dt) /\ phase' = "occurrence" /\ UNCHANGED starts
             \/ /\ ~ TooLate(dt) /\ phase' = "starts"
                /\ starts' = Append(starts, LastStart + dt)
      PROVE  ScenarioInv'
  <2>0. n + 1 <= max /\ n < max
    <3>1. n \in Nat /\ max \in Nat /\ n <= max /\ n # max
      BY <1>4, <1>8
    <3> HIDE DEF n
    <3> QED
      BY <3>1
  <2>1. /\ rolled' \in [Ids -> Seq(Nat)]
        /\ \A id \in Ids : id # Scenario => rolled'[id] = rolled[id]
        /\ rolled'[Scenario] = Append(roll, dt)
    <3>1. dt \in Nat /\ Append(roll, dt) \in Seq(Nat)
      BY <1>4, <1>6
    <3>2. rolled' = [rolled EXCEPT ![Scenario] = Append(roll, dt)]
      BY <1>8
    <3> HIDE DEF roll
    <3> QED
      BY <1>2, <1>6, <3>1, <3>2
  <2>2. /\ Len(rolled'[Scenario]) = n + 1
        /\ \A k \in 1 .. n : rolled'[Scenario][k] = roll[k]
        /\ rolled'[Scenario][n + 1] = dt
    <3>1. dt \in Nat
      BY <1>4
    <3> HIDE DEF roll, n
    <3> QED
      BY <1>6, <2>1, <3>1, AppendFacts
  <2>3. NoneIsLost'
    <3> SUFFICES ASSUME NEW id \in Ids
                 PROVE  (Awaited(id) \/ Underway(id) \/ Completed(id))'
      BY <1>5 DEF NoneIsLost
    <3>1. /\ RowsOf(id)' = RowsOf(id) /\ Queued(id)' = Queued(id) /\ rows' = rows
          /\ \A i : Number(i)' = Number(i)
      BY <1>1, SameRows DEF Queued, Number
    <3>2. Awaited(id) \/ Underway(id) \/ Completed(id)
      BY <1>1, <1>2 DEF ScenarioInv, NoneIsLost
    <3>3. CASE id = Scenario
      <4>1. Underway(id)
        BY <1>2, <3>2, <3>3 DEF Awaited, Completed
      <4>2. RowsOf(id) = {}
        BY <1>2, <4>1 DEF Underway
      <4> QED
        BY <1>2, <3>1, <3>3, <4>1, <4>2 DEF Underway
    <3>4. CASE id # Scenario
      <4>1. rolled'[id] = rolled[id]
        BY <2>1, <3>4
      <4>2. ScenarioIsComplete(id)' = ScenarioIsComplete(id)
        BY <1>1, <4>1, SameCompleteness
      <4> QED
        BY <1>2, <3>1, <3>2, <3>4, <4>1, <4>2 DEF Awaited, Underway, Completed
    <3> QED
      BY <3>3, <3>4
  <2>4. CASE TooLate(dt) /\ phase' = "occurrence" /\ UNCHANGED starts
    <3>1. StartsAreInTime'
      BY <1>2, <1>4, <1>5, <2>4 DEF StartsAreInTime, ScenarioInv, max
    <3>2. RollsAreKept'
      <4>1. \A k : Before(k)' = Before(k)
        BY <2>4 DEF Before
      <4>2. TooLate(dt)'
        BY <1>5, <2>4 DEF TooLate, LastStart
      <4>3. n < max /\ n + 1 >= n
        BY <1>4, <2>0
      <4>4. \A k \in 1 .. n : starts'[k] = Before(k)' + rolled'[Scenario][k]
        BY <1>6, <2>2, <2>4, <4>1
      <4> QED
        BY <1>2, <1>4, <1>5, <2>1, <2>2, <2>4, <4>2, <4>3, <4>4 DEF RollsAreKept
    <3> QED
      BY <1>3, <2>3, <3>1, <3>2 DEF ScenarioInv
  <2>5. CASE /\ ~ TooLate(dt) /\ phase' = "starts"
             /\ starts' = Append(starts, LastStart + dt)
    <3> DEFINE next == LastStart + dt
    <3>1. next \in 0 .. sim.maxTime /\ LastStart <= next
      <4>1. dt \in Nat /\ LastStart \in Nat /\ sim.maxTime \in Nat
        BY <1>4
      <4>2. LastStart + dt <= sim.maxTime
        BY <2>5, <4>1 DEF TooLate
      <4> QED
        BY <4>1, <4>2
    <3>2. starts' = Append(starts, next)
      BY <2>5
    <3> HIDE DEF next
    <3>3. /\ starts' \in Seq(0 .. sim.maxTime) /\ Len(starts') = n + 1
          /\ DOMAIN starts' = 1 .. n + 1
          /\ \A k \in 1 .. n : starts'[k] = starts[k]
          /\ starts'[n + 1] = next
      BY <1>4, <3>1, <3>2, AppendFacts
    <3>4. ASSUME NEW i \in DOMAIN starts', NEW j \in DOMAIN starts', i < j
          PROVE  starts'[i] <= starts'[j]
      <4>1. i \in 1 .. n
        BY <1>4, <3>3, <3>4
      <4>2. CASE j \in 1 .. n
        BY <1>2, <1>4, <3>3, <3>4, <4>1, <4>2 DEF ScenarioInv, StartsAreInTime
      <4>3. CASE j = n + 1
        <5>1. starts[i] \in 0 .. sim.maxTime /\ starts[i] <= LastStart
          BY <1>4, <4>1
        <5> QED
          BY <1>4, <3>1, <3>3, <4>1, <4>3, <5>1
      <4> QED
        BY <1>4, <3>3, <4>2, <4>3
    <3>5. Len(starts') <= max
      BY <2>0, <3>3
    <3>6. StartsAreInTime'
      <4>1. 0 \in 0 .. Len(starts')
        BY <1>4, <3>3
      <4>2. starts' \in Seq(0 .. sim'.maxTime)
        BY <1>5, <3>3
      <4> QED
        BY <1>2, <1>5, <2>5, <3>4, <3>5, <4>1, <4>2 DEF StartsAreInTime
    <3>7. ASSUME NEW k \in 1 .. n + 1
          PROVE  starts'[k] = Before(k)' + rolled'[Scenario][k]
      <4>1. CASE k \in 1 .. n
        <5>1. Before(k)' = Before(k)
          <6>1. CASE k = 1
            BY <6>1 DEF Before
          <6>2. CASE k # 1
            <7>1. k - 1 \in 1 .. n
              BY <1>4, <4>1, <6>2
            <7> QED
              BY <3>3, <6>2, <7>1 DEF Before
          <6> QED
            BY <6>1, <6>2
        <5> QED
          BY <1>6, <2>2, <3>3, <4>1, <5>1
      <4>2. CASE k = n + 1
        <5>1. Before(k)' = LastStart
          <6>1. CASE n = 0
            BY <1>4, <4>2, <6>1 DEF Before, LastStart
          <6>2. CASE n # 0
            <7>1. n \in 1 .. n /\ k # 1 /\ k - 1 = n /\ starts # <<>>
              BY <1>4, <4>2, <6>2
            <7> QED
              BY <3>3, <7>1 DEF Before, LastStart, Last
          <6> QED
            BY <6>1, <6>2
        <5> QED
          BY <2>2, <3>3, <4>2, <5>1 DEF next
      <4> QED
        BY <1>4, <4>1, <4>2
    <3>8. RollsAreKept'
      <4>1. Len(rolled'[Scenario]) >= Len(starts')
        BY <1>4, <2>2, <3>3
      <4> QED
        BY <1>2, <1>5, <2>1, <2>2, <2>5, <3>3, <3>7, <4>1 DEF RollsAreKept
    <3> QED
      BY <1>3, <2>3, <3>6, <3>8 DEF ScenarioInv
  <2> QED
    BY <1>8, <2>4, <2>5
<1> HIDE DEF n
<1> QED
  BY <1>1, <1>7, <1>8

(* A scenario all of whose occurrences are reported is complete.           *)
LEMMA AllReportedIsComplete ==
  ASSUME ScenarioInv, phase = "occurrence", occ = Len(starts), Underway(Scenario)
  PROVE  ScenarioIsComplete(Scenario)
<1> DEFINE n    == Len(starts)
           roll == rolled[Scenario]
<1>1. InScenario /\ Finished = n
  BY DEF InScenario, Finished
<1>2. /\ n \in Nat /\ LastStart \in 0 .. sim.maxTime /\ sim.maxTime \in Nat
      /\ DOMAIN starts = 1 .. n
      /\ \A k \in 1 .. n : starts[k] \in 0 .. sim.maxTime
  BY <1>1, LastStartType, InputType DEF ScenarioInv
<1>3. /\ Cardinality(RowsOf(Scenario)) = n
      /\ \A i, j \in RowsOf(Scenario) : i < j => Number(i) < Number(j)
      /\ {Number(i) : i \in RowsOf(Scenario)} = 1 .. n
      /\ \A i \in RowsOf(Scenario) : rows[i].start = starts[Number(i)]
  BY <1>1 DEF Underway
<1>4. /\ roll \in Seq(Nat) /\ Len(roll) >= n
      /\ \A k \in 1 .. n : starts[k] = Before(k) + roll[k]
      /\ \/ n = MaxOccurrences(Scenario) /\ Len(roll) = n
         \/ n < MaxOccurrences(Scenario) /\ Len(roll) = n + 1 /\ TooLate(roll[n + 1])
  <2>1. Scenario \in Ids
    BY <1>1, QueueType DEF ScenarioInv, QueueIsSorted
  <2> QED
    BY <1>1, <1>2, <2>1 DEF ScenarioInv, RollsAreKept
<1> HIDE DEF n, roll
<1>5. ASSUME NEW k \in 1 .. n
      PROVE  BeginsAt(Scenario, k, starts[k])
  <2>1. PICK i \in RowsOf(Scenario) : Number(i) = k
    BY <1>3
  <2> QED
    BY <1>3, <2>1 DEF BeginsAt
<1>6. ASSUME NEW i \in RowsOf(Scenario)
      PROVE  /\ rows[i].start <= sim.maxTime
             /\ BeginsAt(Scenario, Number(i) - 1, rows[i].start - roll[Number(i)])
  <2>1. Number(i) \in 1 .. n /\ rows[i].start = starts[Number(i)]
    BY <1>3
  <2> DEFINE k == Number(i)
  <2>2. starts[k] \in 0 .. sim.maxTime /\ starts[k] = Before(k) + roll[k] /\ roll[k] \in Nat
    <3>1. k \in 1 .. Len(roll)
      BY <1>2, <1>4, <2>1
    <3> QED
      BY <1>2, <1>4, <2>1, <3>1
  <2> HIDE DEF k
  <2>3. BeginsAt(Scenario, k - 1, Before(k)) /\ Before(k) \in Int
    <3>1. CASE k = 1
      BY <3>1 DEF Before, BeginsAt
    <3>2. CASE k # 1
      <4>1. k - 1 \in 1 .. n
        BY <1>2, <2>1, <3>2 DEF k
      <4> QED
        BY <1>2, <1>5, <3>2, <4>1 DEF Before
    <3> QED
      BY <3>1, <3>2
  <2>4. starts[k] - roll[k] = Before(k)
    BY <1>2, <2>2, <2>3
  <2>5. starts[k] <= sim.maxTime
    BY <1>2, <2>2
  <2> QED
    BY <2>1, <2>3, <2>4, <2>5 DEF k
<1>7. \/ n = MaxOccurrences(Scenario) /\ Len(roll) = n
      \/ /\ n < MaxOccurrences(Scenario) /\ Len(roll) = n + 1
         /\ \E time \in 0 .. sim.maxTime :
              BeginsAt(Scenario, n, time) /\ time + roll[n + 1] > sim.maxTime
  <2>1. BeginsAt(Scenario, n, LastStart)
    <3>1. CASE n = 0
      <4>1. starts = <<>>
        BY <1>1, <3>1 DEF n, ScenarioInv, StartsAreInTime
      <4> QED
        BY <3>1, <4>1 DEF LastStart, BeginsAt
    <3>2. CASE n # 0
      <4>1. n \in 1 .. n /\ starts # <<>>
        BY <1>2, <3>2 DEF n
      <4>2. LastStart = starts[n]
        BY <4>1 DEF LastStart, Last, n
      <4> QED
        BY <1>5, <4>1, <4>2
    <3> QED
      BY <3>1, <3>2
  <2> QED
    BY <1>2, <1>4, <2>1 DEF TooLate
<1> QED
  BY <1>3, <1>6, <1>7 DEF ScenarioIsComplete, roll

LEMMA EndScenarioKeeps ==
  ASSUME ScenarioInv, EndScenario
  PROVE  ScenarioInv'
<1>1. /\ phase = "occurrence" /\ occ = Len(starts) /\ queue' = Tail(queue)
      /\ phase' = "scenario" /\ UNCHANGED <<sim, assigned, starts, rolled, occ, rows, statistics>>
  BY DEF EndScenario
<1>2. InScenario /\ ~ InScenario' /\ queue # <<>>
  BY <1>1 DEF InScenario, ScenarioInv, QueueIsSorted
<1>3. /\ Len(queue) \in Nat \ {0} /\ DOMAIN queue = 1 .. Len(queue)
      /\ Scenario = queue[1] /\ Scenario \in Ids
      /\ queue' \in Seq(Ids) /\ DOMAIN queue' = 1 .. Len(queue) - 1
      /\ \A i \in 1 .. Len(queue) - 1 : queue'[i] = queue[i + 1]
  BY <1>1, <1>2, QueueType DEF ScenarioInv
<1>4. ASSUME NEW i \in DOMAIN queue'
      PROVE  /\ i + 1 \in DOMAIN queue /\ 1 \in DOMAIN queue /\ 1 < i + 1
             /\ queue'[i] = queue[i + 1]
  BY <1>3
<1>5. /\ \A id : TagOf(id)' = TagOf(id) /\ RowsOf(id)' = RowsOf(id)
      /\ \A id : ScenarioIsComplete(id)' = ScenarioIsComplete(id)
      /\ Ids' = Ids
  BY <1>1, SameRows, SameCompleteness
<1>6. /\ RowsAreOfScenarios' /\ LoadsAreTheScenarios' /\ LoadsInForce'
      /\ StartsAreInTime' /\ RollsAreKept'
  BY <1>1, <1>2, SameRowsAreOfScenarios, SameLoads
    DEF ScenarioInv, LoadsInForce, StartsAreInTime, RollsAreKept, Ids
<1>7. QueueIsSorted'
  <2>1. ASSUME NEW i \in DOMAIN queue', NEW j \in DOMAIN queue', i < j
        PROVE  queue'[i] # queue'[j] /\ TagOf(queue'[i]) <= TagOf(queue'[j])
    <3>1. i + 1 < j + 1
      BY <1>3, <2>1
    <3> QED
      BY <1>4, <3>1 DEF ScenarioInv, QueueIsSorted
  <2> QED
    BY <1>1, <1>2, <1>3, <1>4, <1>5, <2>1 DEF ScenarioInv, QueueIsSorted
<1>8. NoneIsLost'
  <2> SUFFICES ASSUME NEW id \in Ids
               PROVE  (Awaited(id) \/ Underway(id) \/ Completed(id))'
    BY <1>1 DEF NoneIsLost, Ids
  <2>1. Queued(id)' => Queued(id) /\ id # Scenario
    <3> SUFFICES ASSUME NEW j \in DOMAIN queue', queue'[j] = id
                 PROVE  Queued(id) /\ id # Scenario
      BY DEF Queued
    <3> QED
      BY <1>3, <1>4 DEF Queued, ScenarioInv, QueueIsSorted
  <2>2. Queued(id) /\ id # Scenario => Queued(id)'
    <3> SUFFICES ASSUME NEW j \in DOMAIN queue, queue[j] = id, id # Scenario
                 PROVE  Queued(id)'
      BY DEF Queued
    <3>1. j # 1 /\ j \in 1 .. Len(queue)
      BY <1>3
    <3>2. j - 1 \in 1 .. Len(queue) - 1 /\ (j - 1) + 1 = j
      BY <1>3, <3>1
    <3> QED
      BY <1>3, <3>2 DEF Queued
  <2>3. Awaited(id) \/ Underway(id) \/ Completed(id)
    BY <1>1 DEF ScenarioInv, NoneIsLost
  <2>4. CASE Awaited(id)
    BY <1>1, <1>2, <1>5, <2>2, <2>4 DEF Awaited
  <2>5. CASE Underway(id)
    <3>1. id = Scenario /\ ScenarioIsComplete(id)
      BY <1>1, <2>5, AllReportedIsComplete DEF Underway
    <3> QED
      BY <1>5, <2>1, <3>1 DEF Completed
  <2>6. CASE Completed(id)
    BY <1>5, <2>1, <2>6 DEF Completed
  <2> QED
    BY <2>3, <2>4, <2>5, <2>6
<1> QED
  BY <1>6, <1>7, <1>8 DEF ScenarioInv

LEMMA BeginOccurrenceKeeps ==
  ASSUME ScenarioInv, BeginOccurrence
  PROVE  ScenarioInv'
<1>1. /\ phase = "occurrence" /\ occ < Len(starts) /\ occ' = occ + 1
      /\ phase' = "failures"
      /\ UNCHANGED <<sim, queue, assigned, starts, rolled, rows, statistics>>
  BY DEF BeginOccurrence
<1>2. /\ InScenario /\ InScenario' /\ Scenario' = Scenario /\ Scenario \in Ids
      /\ occ \in Nat /\ Len(starts) \in Nat
  BY <1>1, QueueType, LastStartType
    DEF InScenario, Scenario, ScenarioInv, StartsAreInTime, QueueIsSorted
<1>3. Finished' = Finished
  BY <1>1, <1>2 DEF Finished
<1>4. RowsAreOfScenarios' /\ QueueIsSorted' /\ LoadsAreTheScenarios' /\ LoadsInForce'
  BY <1>1, <1>2, SameRowsAreOfScenarios, SameQueue, SameLoads DEF ScenarioInv, LoadsInForce
<1>5. StartsAreInTime'
  <2>1. occ' \in 0 .. Len(starts) /\ occ' > 0
    BY <1>1, <1>2
  <2>2. MaxOccurrences(Scenario)' = MaxOccurrences(Scenario)
    BY <1>1, <1>2, SameRows
  <2> QED
    BY <1>1, <1>2, <2>1, <2>2 DEF StartsAreInTime, ScenarioInv
<1>6. NoneIsLost'
  BY <1>1, <1>2, <1>3, SameScenarios DEF ScenarioInv
<1>7. RollsAreKept'
  BY <1>1, <1>2, SameRolls DEF ScenarioInv
<1> QED
  BY <1>4, <1>5, <1>6, <1>7 DEF ScenarioInv

(* Failures, repairs and fragilities of components.                        *)
LEMMA FailuresKeep ==
  ASSUME ScenarioInv,
         \/ RollNext \/ ApplyReliabilities \/ EvaluateFragility
         \/ \E l \in Links : CombineLink(l)
  PROVE  ScenarioInv'
<1>1. /\ phase \in {"failures", "fragilities"}
      /\ phase' \in {"failures", "fragilities", "failed"}
      /\ UNCHANGED <<sim, queue, assigned, starts, rolled, occ, rows, statistics>>
  <2>1. CASE RollNext
    BY <2>1 DEF RollNext
  <2>2. CASE ApplyReliabilities
    BY <2>2 DEF ApplyReliabilities
  <2>3. CASE EvaluateFragility
    BY <2>3 DEF EvaluateFragility
  <2>4. CASE \E l \in Links : CombineLink(l)
    BY <2>4 DEF CombineLink
  <2> QED
    BY <2>1, <2>2, <2>3, <2>4
<1>2. InScenario /\ Scenario' = Scenario
  BY <1>1 DEF InScenario, Scenario
<1>3. RowsAreOfScenarios' /\ QueueIsSorted' /\ LoadsAreTheScenarios' /\ LoadsInForce'
  BY <1>1, <1>2, SameRowsAreOfScenarios, SameQueue, SameLoads DEF ScenarioInv, LoadsInForce
<1>4. RollsAreKept'
  BY <1>1, <1>2, SameRolls DEF ScenarioInv
<1>5. CASE phase' = "failed"
  BY <1>3, <1>4, <1>5 DEF ScenarioInv, StartsAreInTime, NoneIsLost, InScenario
<1>6. CASE phase' # "failed"
  <2>1. InScenario' /\ Finished' = Finished
    BY <1>1, <1>6 DEF InScenario, Finished
  <2>2. MaxOccurrences(Scenario)' = MaxOccurrences(Scenario)
    BY <1>1, <1>2, SameRows
  <2>3. StartsAreInTime'
    BY <1>1, <1>2, <1>6, <2>2 DEF StartsAreInTime, ScenarioInv
  <2>4. NoneIsLost'
    BY <1>1, <1>2, <2>1, SameScenarios DEF ScenarioInv
  <2> QED
    BY <1>3, <1>4, <2>3, <2>4 DEF ScenarioInv
<1> QED
  BY <1>5, <1>6

LEMMA FinishKeeps ==
  ASSUME ScenarioInv, Finish
  PROVE  ScenarioInv'
<1>1. /\ phase = "scenario" /\ queue = <<>> /\ phase' = "done"
      /\ UNCHANGED <<sim, queue, assigned, starts, rolled, occ, rows, statistics>>
  BY DEF Finish
<1>2. ~ InScenario /\ ~ InScenario'
  BY <1>1 DEF InScenario
<1>3. /\ \A id : TagOf(id)' = TagOf(id)
      /\ Ids' = Ids
  BY <1>1 DEF TagOf, Ids
<1>4. QueueIsSorted'
  BY <1>1, <1>2, <1>3 DEF ScenarioInv, QueueIsSorted
<1>5. NoneIsLost'
  <2>1. Finished' = Finished
    BY <1>1 DEF Finished
  <2> QED
    BY <1>1, <1>2, <2>1, SameScenarios DEF ScenarioInv
<1> QED
  BY <1>1, <1>2, <1>4, <1>5, SameRowsAreOfScenarios, SameLoads
    DEF ScenarioInv, LoadsInForce, StartsAreInTime, RollsAreKept, Ids

(* The occurrence is reported: a row is added for the current scenario.    *)
LEMMA ReportKeeps ==
  ASSUME ScenarioInv, SimulateOccurrence
  PROVE  ScenarioInv'
<1> DEFINE row == [scenario |-> Scenario, start |-> starts[occ], loads |-> assigned]
           n   == Len(rows)
<1>1. /\ phase = "fragilities" /\ phase' = "occurrence" /\ rows' = Append(rows, row)
      /\ UNCHANGED <<sim, queue, assigned, starts, rolled, occ>>
  BY DEF SimulateOccurrence
<1>2. PICK new : statistics' = Append(statistics, new) /\ new.occ = occ
  BY DEF SimulateOccurrence
<1>3. /\ InScenario /\ InScenario' /\ Scenario' = Scenario
      /\ Len(queue) \in Nat \ {0} /\ DOMAIN queue = 1 .. Len(queue)
      /\ Scenario = queue[1] /\ Scenario \in Ids /\ Queued(Scenario)
      /\ Ids' = Ids /\ \A id : TagOf(id)' = TagOf(id)
      /\ \A id \in Ids : TagOf(id) \in Int
  BY <1>1, QueueType, InputType DEF InScenario, Scenario, ScenarioInv, QueueIsSorted, Ids, TagOf
<1>4. /\ Len(starts) \in Nat /\ occ \in 1 .. Len(starts) /\ occ \in DOMAIN starts
      /\ starts[occ] \in 0 .. sim.maxTime /\ sim.maxTime \in Nat
      /\ \A k \in DOMAIN starts : starts[k] \in 0 .. sim.maxTime
  <2>1. Len(starts) \in Nat /\ occ \in 0 .. Len(starts) /\ occ > 0
    BY <1>1, <1>3, LastStartType DEF ScenarioInv, StartsAreInTime
  <2>2. occ \in 1 .. Len(starts)
    BY <2>1
  <2> QED
    BY <1>3, <2>1, <2>2, LastStartType, InputType DEF ScenarioInv
<1>5. n \in Nat /\ DOMAIN rows = 1 .. n /\ rows \in Seq(Range(rows))
  BY RowsOfType DEF ScenarioInv, RowsAreOfScenarios
<1> HIDE DEF row, n
<1>6. /\ rows' \in Seq(Range(rows) \cup {row}) /\ DOMAIN rows' = 1 .. n + 1
      /\ \A i \in 1 .. n : rows'[i] = rows[i]
      /\ rows'[n + 1] = row
  <2>1. rows \in Seq(Range(rows) \cup {row})
    BY <1>5, SeqMonotonic
  <2> QED
    BY <1>1, <2>1, AppendFacts DEF n
<1>7. row.scenario = Scenario /\ row.start = starts[occ] /\ row.loads = assigned
  BY DEF row
<1>8. /\ statistics' \in Seq(Range(statistics')) /\ Len(statistics') = Len(rows')
      /\ \A i \in 1 .. n : Number(i)' = Number(i)
      /\ \A i : i = n + 1 => Number(i)' = occ
  <2>1. statistics \in Seq(Range(statistics)) /\ Len(statistics) = n /\ Len(rows') = n + 1
    <3>1. Len(rows') = n + 1
      BY <1>1, <1>5, AppendFacts DEF n
    <3> QED
      BY <3>1 DEF ScenarioInv, RowsAreOfScenarios, n
  <2>2. /\ statistics' \in Seq(Range(statistics')) /\ Len(statistics') = n + 1
        /\ \A i \in 1 .. n : statistics'[i] = statistics[i]
        /\ statistics'[n + 1] = new
    BY <1>2, <2>1, AppendKeepsRange
  <2> QED
    BY <1>2, <2>1, <2>2 DEF Number
<1>9. ASSUME NEW i \in DOMAIN rows'
      PROVE  \/ i \in DOMAIN rows /\ i \in 1 .. n /\ rows'[i] = rows[i]
             \/ i = n + 1 /\ rows'[i] = row
  BY <1>5, <1>6
<1>10. RowsAreOfScenarios'
  <2>1. rows' \in Seq(Range(rows'))
    BY <1>1, <1>5, AppendKeepsRange
  <2>2. ASSUME NEW i \in DOMAIN rows'
        PROVE  rows'[i].scenario \in Ids /\ rows'[i].start \in 0 .. sim.maxTime
    BY <1>3, <1>4, <1>7, <1>9 DEF ScenarioInv, RowsAreOfScenarios
  <2> QED
    BY <1>1, <1>3, <1>8, <2>1, <2>2 DEF RowsAreOfScenarios, ScenarioInv
<1>11. QueueIsSorted'
  <2>1. ASSUME NEW j \in DOMAIN queue
        PROVE  TagOf(Scenario) <= TagOf(queue[j])
    <3>1. 1 \in DOMAIN queue /\ j \in DOMAIN queue /\ queue[j] \in Ids
      BY <1>3 DEF ScenarioInv, QueueIsSorted
    <3>2. j = 1 \/ 1 < j
      BY <1>3
    <3> QED
      BY <1>3, <3>1, <3>2 DEF ScenarioInv, QueueIsSorted
  <2>2. ASSUME NEW i \in DOMAIN rows', NEW j \in DOMAIN queue
        PROVE  TagOf(rows'[i].scenario) <= TagOf(queue[j])
    BY <1>7, <1>9, <2>1 DEF ScenarioInv, QueueIsSorted
  <2>3. ASSUME NEW i \in DOMAIN rows', NEW j \in DOMAIN rows', i < j
        PROVE  TagOf(rows'[i].scenario) <= TagOf(rows'[j].scenario)
    <3>1. i \in 1 .. n
      BY <1>5, <1>6, <2>3
    <3>2. i \in DOMAIN rows /\ rows'[i] = rows[i] /\ 1 \in DOMAIN queue
      BY <1>3, <1>5, <1>6, <3>1
    <3> QED
      BY <1>3, <1>7, <1>9, <2>3, <3>2 DEF ScenarioInv, QueueIsSorted
  <2> QED
    BY <1>1, <1>3, <2>2, <2>3 DEF ScenarioInv, QueueIsSorted
<1>12. LoadsInForce' /\ LoadsAreTheScenarios'
  <2>1. LoadsInForce'
    BY <1>1, <1>3 DEF ScenarioInv, LoadsInForce
  <2>2. ASSUME NEW i \in DOMAIN rows', NEW j \in DOMAIN sim.scheduled
        PROVE  rows'[i].loads[j] = sim.scheduled[j][rows'[i].scenario]
    BY <1>3, <1>7, <1>9 DEF ScenarioInv, LoadsInForce, LoadsAreTheScenarios
  <2> QED
    BY <1>1, <2>1, <2>2 DEF LoadsAreTheScenarios
<1>13. StartsAreInTime' /\ RollsAreKept'
  <2>1. MaxOccurrences(Scenario)' = MaxOccurrences(Scenario)
    BY <1>1, <1>3 DEF MaxOccurrences
  <2> QED
    BY <1>1, <1>3, <2>1, SameRolls DEF StartsAreInTime, ScenarioInv
<1>14. NoneIsLost'
  <2> SUFFICES ASSUME NEW id \in Ids
               PROVE  (Awaited(id) \/ Underway(id) \/ Completed(id))'
    BY <1>1 DEF NoneIsLost, Ids
  <2>1. Awaited(id) \/ Underway(id) \/ Completed(id)
    BY <1>1 DEF ScenarioInv, NoneIsLost
  <2>2. Queued(id)' = Queued(id)
    BY <1>1 DEF Queued
  <2>3. CASE id # Scenario
    <3>1. RowsOf(id)' = RowsOf(id) /\ \A i \in RowsOf(id) : rows'[i] = rows[i]
      BY <1>5, <1>6, <1>7, <1>9, <2>3 DEF RowsOf
    <3>2. ScenarioIsComplete(id)' = ScenarioIsComplete(id)
      <4>1. \A i \in RowsOf(id) : Number(i)' = Number(i) /\ rows'[i].start = rows[i].start
        BY <1>5, <1>8, <3>1 DEF RowsOf
      <4>2. \A k, time : BeginsAt(id, k, time)' = BeginsAt(id, k, time)
        BY <3>1, <4>1 DEF BeginsAt
      <4>3. MaxOccurrences(id)' = MaxOccurrences(id) /\ rolled' = rolled /\ sim' = sim
        BY <1>1 DEF MaxOccurrences
      <4>4. {Number(i)' : i \in RowsOf(id)} = {Number(i) : i \in RowsOf(id)}
        BY <4>1
      <4> QED
        BY <3>1, <4>1, <4>2, <4>3, <4>4 DEF ScenarioIsComplete
    <3> QED
      BY <1>1, <1>3, <2>1, <2>2, <2>3, <3>1, <3>2 DEF Awaited, Underway, Completed
  <2>4. CASE id = Scenario
    <3>1. Underway(Scenario) /\ Finished = occ - 1 /\ Finished' = occ
      BY <1>1, <1>3, <2>1, <2>4 DEF Awaited, Completed, Finished
    <3>2. /\ Cardinality(RowsOf(Scenario)) = occ - 1
          /\ \A i, j \in RowsOf(Scenario) : i < j => Number(i) < Number(j)
          /\ {Number(i) : i \in RowsOf(Scenario)} = 1 .. occ - 1
          /\ \A i \in RowsOf(Scenario) : rows[i].start = starts[Number(i)]
      BY <3>1 DEF Underway
    <3>3. /\ RowsOf(Scenario)' = RowsOf(Scenario) \cup {n + 1}
          /\ n + 1 \notin RowsOf(Scenario)
          /\ \A i \in RowsOf(Scenario) : i \in 1 .. n /\ rows'[i] = rows[i]
      BY <1>3, <1>5, <1>6, <1>7, <1>9 DEF RowsOf
    <3>4. Cardinality(RowsOf(Scenario)') = occ
      <4>1. Cardinality(RowsOf(Scenario)') = Cardinality(RowsOf(Scenario)) + 1
        BY <3>3, RowsOfType, FS_AddElement DEF ScenarioInv
      <4> QED
        BY <1>4, <3>2, <4>1
    <3>5. ASSUME NEW i \in RowsOf(Scenario)
          PROVE  Number(i)' = Number(i) /\ Number(i) \in 1 .. occ - 1
      BY <1>8, <3>2, <3>3
    <3>6. ASSUME NEW i \in RowsOf(Scenario)', NEW j \in RowsOf(Scenario)', i < j
          PROVE  Number(i)' < Number(j)'
      <4>1. i \in 1 .. n + 1 /\ j \in 1 .. n + 1
        BY <1>5, <3>3
      <4>2. i # n + 1
        BY <1>5, <3>6, <4>1
      <4>3. i \in RowsOf(Scenario)
        BY <3>3, <4>2
      <4>4. CASE j = n + 1
        <5>1. Number(i)' \in 1 .. occ - 1 /\ Number(j)' = occ
          BY <1>8, <3>5, <4>3, <4>4
        <5> QED
          BY <1>4, <5>1
      <4>5. CASE j \in RowsOf(Scenario)
        BY <3>2, <3>5, <3>6, <4>3, <4>5
      <4> QED
        BY <3>3, <4>4, <4>5
    <3>7. {Number(i)' : i \in RowsOf(Scenario)'} = 1 .. occ
      <4>1. 1 .. occ = (1 .. occ - 1) \cup {occ}
        BY <1>4
      <4>2. {Number(i)' : i \in RowsOf(Scenario)'} = {Number(i) : i \in RowsOf(Scenario)} \cup {occ}
        BY <1>8, <3>3, <3>5
      <4> QED
        BY <3>2, <4>1, <4>2
    <3>8. \A i \in RowsOf(Scenario)' : rows'[i].start = starts[Number(i)']
      BY <1>6, <1>7, <1>8, <3>2, <3>3, <3>5
    <3> QED
      BY <1>1, <1>3, <2>4, <3>1, <3>4, <3>6, <3>7, <3>8 DEF Underway
  <2> QED
    BY <2>3, <2>4
<1> QED
  BY <1>10, <1>11, <1>12, <1>13, <1>14 DEF ScenarioInv

-----------------------------------------------------------------------------
LEMMA ScenarioInvHolds == Spec => []ScenarioInv
<1>1. Init => ScenarioInv
  <2> SUFFICES ASSUME Init PROVE ScenarioInv
    OBVIOUS
  <2>1. RowsAreOfScenarios
    BY DEF Init, RowsAreOfScenarios
  <2>2. QueueIsSorted
    BY DEF Init, QueueIsSorted, InScenario
  <2> QED
    BY <2>1, <2>2 DEF Init, ScenarioInv, LoadsInForce, StartsAreInTime, RollsAreKept,
                      NoneIsLost, LoadsAreTheScenarios, InScenario, Ids
<1>2. ScenarioInv /\ [Next]_vars => ScenarioInv'
  <2> SUFFICES ASSUME ScenarioInv, [Next]_vars PROVE ScenarioInv'
    OBVIOUS
  <2>1. CASE OpenEvents
    BY <2>1, OpenKeeps
  <2>2. CASE BeginScenario
    BY <2>2, BeginScenarioKeeps
  <2>3. CASE StopAtUnhandled
    BY <2>3, StopKeeps
  <2>4. CASE RollStart
    BY <2>4, RollStartKeeps
  <2>5. CASE EndScenario
    BY <2>5, EndScenarioKeeps
  <2>6. CASE Finish
    BY <2>6, FinishKeeps
  <2>7. CASE BeginOccurrence
    BY <2>7, BeginOccurrenceKeeps
  <2>8. CASE \/ RollNext \/ ApplyReliabilities \/ EvaluateFragility
             \/ \E l \in Links : CombineLink(l)
    BY <2>8, FailuresKeep
  <2>9. CASE SimulateOccurrence
    BY <2>9, ReportKeeps
  <2>10. CASE UNCHANGED vars
    <3>1. UNCHANGED <<sim, phase, queue, assigned, starts, rolled, occ, rows, statistics>>
      BY <2>10 DEF vars
    <3>2. /\ InScenario' = InScenario /\ Finished' = Finished /\ Ids' = Ids /\ Scenario' = Scenario
          /\ \A id : /\ TagOf(id)' = TagOf(id) /\ RowsOf(id)' = RowsOf(id)
                     /\ MaxOccurrences(id)' = MaxOccurrences(id)
      BY <3>1, SameRows DEF InScenario, Finished, Scenario
    <3>3. RowsAreOfScenarios' /\ QueueIsSorted' /\ LoadsAreTheScenarios'
      BY <3>1, <3>2, SameLoads DEF ScenarioInv, RowsAreOfScenarios, QueueIsSorted
    <3>4. LoadsInForce' /\ StartsAreInTime' /\ RollsAreKept'
      <4>1. RollsAreKept'
        <5>1. /\ \A dt : TooLate(dt)' = TooLate(dt)
              /\ \A k : Before(k)' = Before(k)
          BY <3>1 DEF TooLate, LastStart, Before
        <5> QED
          BY <3>1, <3>2, <5>1 DEF ScenarioInv, RollsAreKept
      <4> QED
        BY <3>1, <3>2, <4>1 DEF ScenarioInv, LoadsInForce, StartsAreInTime
    <3>5. NoneIsLost'
      <4>1. CASE phase \in {"open", "stopped", "failed"}
        BY <3>1, <4>1 DEF NoneIsLost
      <4>2. CASE phase \notin {"open", "stopped", "failed"}
        BY <3>1, <3>2, <4>2, SameScenarios DEF ScenarioInv
      <4> QED
        BY <4>1, <4>2
    <3> QED
      BY <3>3, <3>4, <3>5 DEF ScenarioInv
  <2> QED
    BY <2>1, <2>2, <2>3, <2>4, <2>5, <2>6, <2>7, <2>8, <2>9, <2>10 DEF Next
<1> QED
  BY <1>1, <1>2, PTL DEF Spec

(* Whatever scenarios, loads and sources an input has, every occurrence is *)
(* simulated with those of its own scenario.                               *)
THEOREM OccurrencesHaveTheirLoads == Spec => []LoadsAreTheScenarios
<1>1. ScenarioInv => LoadsAreTheScenarios
  BY DEF ScenarioInv
<1> QED
  BY <1>1, ScenarioInvHolds, PTL

(* Whatever the distributions give, a run that ends well has reported the  *)
(* scenarios in the order of their tags and the occurrences of each in the *)
(* order of their numbers: all those whose time, the sum of the advances   *)
(* rolled so far, is within the maximum time, up to the number allowed.    *)
THEOREM NoOccurrenceIsLeftOut == Spec => []OccurrencesAreComplete
<1>1. ScenarioInv => OccurrencesAreComplete
  <2> SUFFICES ASSUME ScenarioInv, phase = "done" PROVE OccurrencesAreComplete
    BY DEF OccurrencesAreComplete
  <2>1. queue = <<>> /\ ~ InScenario
    BY DEF ScenarioInv, QueueIsSorted, InScenario
  <2>2. ASSUME NEW id \in Ids PROVE ScenarioIsComplete(id)
    BY <2>1 DEF ScenarioInv, NoneIsLost, Awaited, Underway, Completed, Queued
  <2> QED
    BY <2>2 DEF OccurrencesAreComplete, ScenarioInv, QueueIsSorted, Ids
<1> QED
  BY <1>1, ScenarioInvHolds, PTL


-----------------------------------------------------------------------------
(* The walk of TimeState_Combine through two schedules.                    *)
StepOf(f, a, b, at) ==
  LET x     == Following(a, at.a, at.time)
      y     == Following(b, at.b, at.time)
      ahead == {u \in {a[x].time, b[y].time} : u > at.time}
      u     == Min(ahead)
  IN  <<CombineAt(a[at.a], b[at.b], at.time)>> \o
      (IF ahead = {} THEN <<>>
       ELSE f[[a    |-> IF a[x].time = u THEN x ELSE at.a,
               b    |-> IF b[y].time = u THEN y ELSE at.b,
               time |-> u]])

Places(a, b) == [a : DOMAIN a, b : DOMAIN b, time : Nat]

Walks(f, a, b) == f = [at \in Places(a, b) |-> StepOf(f, a, b, at)]

LEMMA CombineIs ==
  ASSUME NEW a, NEW b, a # <<>>, b # <<>>
  PROVE  Combine(a, b) = (CHOOSE f : Walks(f, a, b))
                           [[a |-> 1, b |-> 1, time |-> Min({a[1].time, b[1].time})]]
BY DEF Combine, Walks, StepOf, Places

LEMMA WalksStep ==
  ASSUME NEW a, NEW b, NEW f, Walks(f, a, b), NEW at \in Places(a, b)
  PROVE  f[at] = StepOf(f, a, b, at)
BY DEF Walks

LEMMA SetInduction ==
  ASSUME NEW S, S \subseteq Nat, 0 \in S, \A n \in S : n + 1 \in S
  PROVE  S = Nat
<1> SUFFICES ASSUME Nat \ S # {} PROVE FALSE
  OBVIOUS
<1>1. PICK x \in Nat \ S : \A y \in Nat \ S : x <= y
  BY LeastExists
<1>2. x # 0 /\ x - 1 \in Nat /\ (x - 1) + 1 = x
  OBVIOUS
<1>3. x - 1 \in S
  BY <1>1, <1>2
<1> QED
  BY <1>2, <1>3

Timed(schedule) ==
  /\ Len(schedule) \in Nat /\ DOMAIN schedule = 1 .. Len(schedule)
  /\ \A i \in DOMAIN schedule : schedule[i].time \in Nat

(* Schedules whose times only go forward.                                  *)
Forward(schedule) ==
  /\ Timed(schedule)
  /\ \A i, j \in DOMAIN schedule : i < j => schedule[i].time < schedule[j].time

Ahead(a, b, at) ==
  {u \in {a[Following(a, at.a, at.time)].time, b[Following(b, at.b, at.time)].time} :
     u > at.time}

NextPlace(a, b, at) ==
  LET x == Following(a, at.a, at.time)
      y == Following(b, at.b, at.time)
      u == Min(Ahead(a, b, at))
  IN  [a    |-> IF a[x].time = u THEN x ELSE at.a,
       b    |-> IF b[y].time = u THEN y ELSE at.b,
       time |-> u]

LEMMA StepIs ==
  ASSUME NEW a, NEW b, NEW f, NEW at
  PROVE  StepOf(f, a, b, at) =
           <<CombineAt(a[at.a], b[at.b], at.time)>> \o
             (IF Ahead(a, b, at) = {} THEN <<>> ELSE f[NextPlace(a, b, at)])
BY DEF StepOf, Ahead, NextPlace

LEMMA FollowingType ==
  ASSUME NEW s, Timed(s), NEW i \in DOMAIN s, NEW t
  PROVE  /\ Following(s, i, t) \in DOMAIN s
         /\ Following(s, i, t) \in Nat
         /\ s[Following(s, i, t)].time \in Nat
<1>1. Following(s, i, t) \in DOMAIN s
  BY DEF Following, Timed
<1> QED
  BY <1>1 DEF Timed

LEMMA NextPlaceType ==
  ASSUME NEW a, Timed(a), NEW b, Timed(b), NEW at \in Places(a, b),
         Ahead(a, b, at) # {}
  PROVE  /\ NextPlace(a, b, at) \in Places(a, b)
         /\ NextPlace(a, b, at).time = Min(Ahead(a, b, at))
         /\ Min(Ahead(a, b, at)) \in Ahead(a, b, at)
         /\ Min(Ahead(a, b, at)) \in Nat
         /\ Min(Ahead(a, b, at)) > at.time
         /\ \A u \in Ahead(a, b, at) : Min(Ahead(a, b, at)) <= u
<1> DEFINE x == Following(a, at.a, at.time)
           y == Following(b, at.b, at.time)
           S == Ahead(a, b, at)
           u == Min(S)
<1>1. at.a \in DOMAIN a /\ at.b \in DOMAIN b /\ at.time \in Nat
  BY DEF Places
<1>2. /\ x \in DOMAIN a /\ y \in DOMAIN b
      /\ a[x].time \in Nat /\ b[y].time \in Nat
  BY <1>1, FollowingType
<1>3. S \subseteq Nat
  BY <1>2 DEF Ahead
<1>4. u \in S /\ \A v \in S : u <= v
  BY <1>3, MinOf
<1>5. u \in Nat /\ u > at.time
  BY <1>3, <1>4 DEF Ahead
<1>6. NextPlace(a, b, at) = [a    |-> IF a[x].time = u THEN x ELSE at.a,
                             b    |-> IF b[y].time = u THEN y ELSE at.b,
                             time |-> u]
  BY DEF NextPlace
<1> HIDE DEF x, y, S, u
<1>7. NextPlace(a, b, at) \in Places(a, b) /\ NextPlace(a, b, at).time = u
  BY <1>1, <1>2, <1>5, <1>6 DEF Places
<1> QED
  BY <1>4, <1>5, <1>7 DEF S, u

(* A step only looks at places later than its own.                         *)
LEMMA StepReads ==
  ASSUME NEW a, Timed(a), NEW b, Timed(b), NEW M,
         \A i \in DOMAIN a : a[i].time <= M, \A j \in DOMAIN b : b[j].time <= M,
         NEW f, NEW g, NEW at \in Places(a, b),
         \A p \in Places(a, b) : p.time > at.time /\ p.time <= M => f[p] = g[p]
  PROVE  StepOf(f, a, b, at) = StepOf(g, a, b, at)
<1>1. CASE Ahead(a, b, at) = {}
  BY <1>1, StepIs
<1>2. CASE Ahead(a, b, at) # {}
  <2> DEFINE p == NextPlace(a, b, at)
  <2>1. p \in Places(a, b) /\ p.time > at.time /\ p.time \in Ahead(a, b, at)
    BY <1>2, NextPlaceType
  <2>2. at.a \in DOMAIN a /\ at.b \in DOMAIN b
    BY DEF Places
  <2>3. p.time <= M
    BY <2>1, <2>2, FollowingType DEF Ahead
  <2>4. f[p] = g[p]
    BY <2>1, <2>3
  <2> QED
    BY <2>4, StepIs
<1> QED
  BY <1>1, <1>2

LEMMA LateStep ==
  ASSUME NEW a, Timed(a), NEW b, Timed(b), NEW M \in Nat,
         \A i \in DOMAIN a : a[i].time <= M, \A j \in DOMAIN b : b[j].time <= M,
         NEW f, NEW g, NEW at \in Places(a, b), at.time > M
  PROVE  StepOf(f, a, b, at) = StepOf(g, a, b, at)
<1>1. at.a \in DOMAIN a /\ at.b \in DOMAIN b /\ at.time \in Nat
  BY DEF Places
<1>2. Ahead(a, b, at) = {}
  BY <1>1, FollowingType DEF Ahead
<1> QED
  BY <1>2, StepIs

LEMMA WalkExists ==
  ASSUME NEW a, Timed(a), NEW b, Timed(b), NEW M \in Nat,
         \A i \in DOMAIN a : a[i].time <= M, \A j \in DOMAIN b : b[j].time <= M
  PROVE  \E f : Walks(f, a, b)
<1> DEFINE Ok(f, at) == f[at] = StepOf(f, a, b, at)
           E == {d \in Nat : \E f : \A at \in Places(a, b) : at.time + d > M => Ok(f, at)}
<1>1. 0 \in E
  <2> DEFINE e == <<>>
             f == [at \in Places(a, b) |-> StepOf(e, a, b, at)]
  <2>1. ASSUME NEW at \in Places(a, b), at.time > M PROVE Ok(f, at)
    <3>1. f[at] = StepOf(e, a, b, at)
      OBVIOUS
    <3> HIDE DEF e, f
    <3> QED
      BY <2>1, <3>1, LateStep
  <2> HIDE DEF f
  <2>2. \A at \in Places(a, b) : at.time + 0 > M => Ok(f, at)
    BY <2>1 DEF Places
  <2> QED
    BY <2>2
<1>2. ASSUME NEW d \in E PROVE d + 1 \in E
  <2>1. PICK f : \A at \in Places(a, b) : at.time + d > M => Ok(f, at)
    OBVIOUS
  <2> DEFINE g == [at \in Places(a, b) |->
                     IF at.time + d > M THEN f[at] ELSE StepOf(f, a, b, at)]
  <2>2. \A at \in Places(a, b) : at.time + d > M => g[at] = f[at]
    OBVIOUS
  <2>3. \A at \in Places(a, b) : g[at] = StepOf(f, a, b, at)
    BY <2>1
  <2> HIDE DEF g
  <2>4. ASSUME NEW at \in Places(a, b), at.time + (d + 1) > M PROVE Ok(g, at)
    <3>1. \A p \in Places(a, b) : p.time > at.time => p.time + d > M
      BY <2>4 DEF Places
    <3>2. \A p \in Places(a, b) : p.time > at.time /\ p.time <= M => f[p] = g[p]
      BY <2>2, <3>1
    <3>3. StepOf(f, a, b, at) = StepOf(g, a, b, at)
      BY <3>2, StepReads
    <3> QED
      BY <2>3, <3>3
  <2>5. d + 1 \in Nat /\ \A at \in Places(a, b) : at.time + (d + 1) > M => Ok(g, at)
    BY <2>4
  <2> QED
    BY <2>5
<1> HIDE DEF E
<1>3. M + 1 \in E
  <2>1. E \subseteq Nat
    BY DEF E
  <2>2. E = Nat
    BY <1>1, <1>2, <2>1, SetInduction
  <2> QED
    BY <2>2
<1>4. PICK f : \A at \in Places(a, b) : at.time + (M + 1) > M => Ok(f, at)
  BY <1>3 DEF E
<1>5. \A at \in Places(a, b) : Ok(f, at)
  BY <1>4 DEF Places
<1> DEFINE g == [at \in Places(a, b) |-> StepOf(f, a, b, at)]
<1>6. \A at \in Places(a, b) : g[at] = f[at]
  BY <1>5
<1>7. ASSUME NEW at \in Places(a, b) PROVE StepOf(f, a, b, at) = StepOf(g, a, b, at)
  <2> HIDE DEF g
  <2>1. \A p \in Places(a, b) : p.time > at.time /\ p.time <= M => f[p] = g[p]
    BY <1>6
  <2> QED
    BY <2>1, StepReads
<1>8. Walks(g, a, b)
  BY <1>7 DEF Walks
<1> QED
  BY <1>8

(* The last entry up to a time, or the first of all.                       *)
Reached(s, i, t) ==
  /\ i \in DOMAIN s
  /\ \A k \in DOMAIN s : s[k].time <= t => k <= i
  /\ s[i].time > t => i = 1

Times(s) == {s[k].time : k \in DOMAIN s}

LEMMA ReachedState ==
  ASSUME NEW s, Forward(s), NEW t \in Nat, NEW i, Reached(s, i, t)
  PROVE  StateAt(s, t) = IF s[i].time <= t THEN s[i] ELSE Up(t)
<1> DEFINE past == {k \in DOMAIN s : s[k].time <= t}
<1>1. /\ DOMAIN s \subseteq Nat /\ i \in DOMAIN s /\ i \in Nat
      /\ \A k \in DOMAIN s : s[k].time \in Nat
  BY DEF Forward, Timed, Reached
<1>2. CASE s[i].time <= t
  <2>1. i \in past /\ \A k \in past : k <= i
    BY <1>1, <1>2 DEF Reached
  <2>2. past \subseteq Int
    BY <1>1
  <2> HIDE DEF past
  <2>3. Max(past) = i
    BY <2>1, <2>2, MaxIs
  <2> QED
    BY <1>2, <2>1, <2>3 DEF StateAt, past
<1>3. CASE ~ (s[i].time <= t)
  <2>1. s[i].time > t /\ i = 1
    BY <1>1, <1>3 DEF Reached
  <2>2. past = {}
    BY <1>1, <1>3, <2>1 DEF Forward, Timed, Reached
  <2> QED
    BY <1>3, <2>2 DEF StateAt
<1> QED
  BY <1>2, <1>3

LEMMA SomethingIsReached ==
  ASSUME NEW s, Forward(s), s # <<>>, NEW t \in Nat
  PROVE  \E i \in DOMAIN s : Reached(s, i, t)
<1> DEFINE past == {k \in DOMAIN s : s[k].time <= t}
<1>1. Len(s) \in Nat \ {0} /\ DOMAIN s = 1 .. Len(s) /\ \A k \in DOMAIN s : s[k].time \in Nat
  BY DEF Forward, Timed
<1>2. CASE past = {}
  BY <1>1, <1>2 DEF Reached
<1>3. CASE past # {}
  <2>1. past \subseteq Nat /\ \A k \in past : k <= Len(s)
    BY <1>1
  <2>2. Max(past) \in past /\ \A k \in past : k <= Max(past)
    <3> HIDE DEF past
    <3> QED
      BY <1>1, <1>3, <2>1, MaxOf
  <2> QED
    BY <1>1, <2>2 DEF Reached
<1> QED
  BY <1>2, <1>3

(* Where the walk turns to next.                                           *)
LEMMA NextTime ==
  ASSUME NEW s, Forward(s), NEW t \in Nat, NEW i, Reached(s, i, t)
  PROVE  LET x == Following(s, i, t)
         IN  /\ x \in DOMAIN s /\ s[x].time \in Nat
             /\ s[x].time <= t => \A v \in Times(s) : v <= t
             /\ s[x].time > t => \A v \in Times(s) : v <= t \/ s[x].time <= v
             /\ \A u \in Nat : t < u /\ (s[x].time > t => u <= s[x].time) =>
                  Reached(s, IF s[x].time = u THEN x ELSE i, u)
<1> DEFINE x == Following(s, i, t)
           n == Len(s)
<1>1. /\ n \in Nat /\ DOMAIN s = 1 .. n /\ i \in 1 .. n
      /\ \A k \in 1 .. n : s[k].time \in Nat
      /\ \A k, m \in 1 .. n : k < m => s[k].time < s[m].time
  BY DEF Forward, Timed, Reached
<1>2. x = IF s[i].time <= t /\ i < n THEN i + 1 ELSE i
  BY DEF Following
<1>3. x \in 1 .. n /\ s[x].time \in Nat
  BY <1>1, <1>2
<1>4. \A k \in 1 .. n : k <= i \/ s[k].time > t
  BY <1>1 DEF Reached
<1>5. s[i].time > t => i = 1
  BY DEF Reached
<1> HIDE DEF x, n
<1>6. CASE s[i].time <= t /\ i < n
  <2>1. x = i + 1 /\ s[x].time > t
    BY <1>1, <1>2, <1>4, <1>6
  <2>2. \A k \in 1 .. n : s[k].time <= t \/ s[x].time <= s[k].time
    <3> TAKE k \in 1 .. n
    <3>1. CASE k <= i
      BY <1>1, <1>6, <3>1
    <3>2. CASE k > i
      <4>1. k = x \/ x < k
        BY <1>1, <2>1, <3>2
      <4> QED
        BY <1>1, <1>3, <4>1
    <3> QED
      BY <1>1, <3>1, <3>2
  <2>3. ASSUME NEW u \in Nat, t < u, u <= s[x].time
        PROVE  Reached(s, IF s[x].time = u THEN x ELSE i, u)
    <3>1. CASE s[x].time = u
      <4>1. \A k \in 1 .. n : s[k].time <= u => k <= x
        BY <1>1, <1>3, <3>1
      <4> QED
        BY <1>1, <1>3, <3>1, <4>1 DEF Reached
    <3>2. CASE s[x].time # u
      <4>1. \A k \in 1 .. n : s[k].time <= u => k <= i
        <5> TAKE k \in 1 .. n
        <5>1. k > i => k = x \/ x < k
          BY <1>1, <2>1
        <5> QED
          BY <1>1, <1>3, <2>3, <3>2, <5>1
      <4>2. s[i].time <= u
        BY <1>1, <1>6, <2>3
      <4> QED
        BY <1>1, <3>2, <4>1, <4>2 DEF Reached
    <3> QED
      BY <3>1, <3>2
  <2> QED
    BY <1>1, <1>3, <2>1, <2>2, <2>3 DEF x, Times
<1>7. CASE s[i].time <= t /\ i = n
  <2>1. x = i
    BY <1>1, <1>2, <1>7
  <2>2. \A k \in 1 .. n : s[k].time <= t
    BY <1>1, <1>4, <1>7
  <2>3. ASSUME NEW u \in Nat, t < u
        PROVE  Reached(s, IF s[x].time = u THEN x ELSE i, u)
    <3>1. \A k \in 1 .. n : k <= i
      BY <1>1, <1>7
    <3>2. s[i].time <= u
      BY <1>1, <1>7, <2>3
    <3> QED
      BY <1>1, <2>1, <3>1, <3>2 DEF Reached
  <2>4. s[x].time <= t
    BY <1>7, <2>1
  <2> QED
    BY <1>1, <1>3, <2>2, <2>3, <2>4 DEF x, Times
<1>8. CASE s[i].time > t
  <2>1. x = i /\ i = 1
    BY <1>1, <1>2, <1>5, <1>8
  <2>2. \A k \in 1 .. n : s[x].time <= s[k].time
    <3> TAKE k \in 1 .. n
    <3>1. k = 1 \/ 1 < k
      BY <1>1
    <3> QED
      BY <1>1, <2>1, <3>1
  <2>3. ASSUME NEW u \in Nat, t < u, u <= s[x].time
        PROVE  Reached(s, IF s[x].time = u THEN x ELSE i, u)
    <3>1. \A k \in 1 .. n : s[k].time <= u => k <= i
      <4> TAKE k \in 1 .. n
      <4>1. k = 1 \/ 1 < k
        BY <1>1
      <4> QED
        BY <1>1, <2>1, <2>3, <4>1
    <3> QED
      BY <1>1, <2>1, <3>1 DEF Reached
  <2> QED
    BY <1>1, <1>3, <1>8, <2>1, <2>2, <2>3 DEF x, Times
<1> QED
  BY <1>1, <1>6, <1>7, <1>8

(* Schedules whose failed states are those with a cause.                   *)
Honest(s) == \A i \in DOMAIN s : s[i] \in TimeState /\ (s[i].state <=> s[i].causes = {})

(* Out of service when one of two schedules says so, for the causes both   *)
(* name.                                                                   *)
Both(a, b, t) ==
  [time |-> t, state |-> UpAt(a, t) /\ UpAt(b, t), causes |-> CausesAt(a, t) \cup CausesAt(b, t)]

LEMMA CombineAtIs ==
  ASSUME NEW a, Forward(a), Honest(a), NEW b, Forward(b), Honest(b), NEW t \in Nat,
         NEW i, Reached(a, i, t), NEW j, Reached(b, j, t)
  PROVE  /\ CombineAt(a[i], b[j], t) = Both(a, b, t)
         /\ Both(a, b, t) \in TimeState
         /\ Both(a, b, t).state <=> Both(a, b, t).causes = {}
<1> DEFINE x == a[i]
           y == b[j]
           inForce == {z \in {x, y} : z.time <= t}
           failed  == {z \in inForce : ~ z.state}
<1>1. /\ x \in TimeState /\ (x.state <=> x.causes = {})
      /\ y \in TimeState /\ (y.state <=> y.causes = {})
  BY DEF Reached, Honest
<1>2. /\ StateAt(a, t) = IF x.time <= t THEN x ELSE Up(t)
      /\ StateAt(b, t) = IF y.time <= t THEN y ELSE Up(t)
  BY ReachedState
<1>3. CombineAt(x, y, t) = [time |-> t, state |-> failed = {}, causes |-> UNION {z.causes : z \in failed}]
  BY DEF CombineAt
<1> DEFINE p == StateAt(a, t)
           q == StateAt(b, t)
<1>4. /\ p.state \in BOOLEAN /\ p.causes \subseteq Cause /\ (p.state <=> p.causes = {})
      /\ q.state \in BOOLEAN /\ q.causes \subseteq Cause /\ (q.state <=> q.causes = {})
  <2> DEFINE Right(z) == z.state \in BOOLEAN /\ z.causes \subseteq Cause /\ (z.state <=> z.causes = {})
  <2>1. Right(Up(t))
    BY DEF Up
  <2>2. Right(x) /\ Right(y)
    BY <1>1 DEF TimeState
  <2>3. p \in {x, Up(t)} /\ q \in {y, Up(t)}
    BY <1>2
  <2> HIDE DEF x, y, p, q, Right
  <2>4. Right(p) /\ Right(q)
    BY <2>1, <2>2, <2>3
  <2> QED
    BY <2>4 DEF Right
<1>5. failed = {z \in {x, y} : z.time <= t /\ ~ z.state}
  OBVIOUS
<1>6. (failed = {}) = (p.state /\ q.state)
  <2> HIDE DEF x, y
  <2> QED
    BY <1>1, <1>2, <1>5 DEF Up, TimeState
<1>7. UNION {z.causes : z \in failed} = p.causes \cup q.causes
  <2>1. ASSUME NEW e \in UNION {z.causes : z \in failed} PROVE e \in p.causes \cup q.causes
    <3>1. PICK z \in failed : e \in z.causes
      BY <2>1
    <3>2. z.time <= t /\ (z = x \/ z = y)
      BY <3>1
    <3> HIDE DEF x, y
    <3> QED
      BY <1>2, <3>1, <3>2
  <2>2. ASSUME NEW e \in p.causes PROVE e \in UNION {z.causes : z \in failed}
    <3> HIDE DEF x, y
    <3>1. x.time <= t /\ p = x /\ ~ x.state
      BY <1>1, <1>2, <1>4, <2>2 DEF Up
    <3> QED
      BY <2>2, <3>1
  <2>3. ASSUME NEW e \in q.causes PROVE e \in UNION {z.causes : z \in failed}
    <3> HIDE DEF x, y
    <3>1. y.time <= t /\ q = y /\ ~ y.state
      BY <1>1, <1>2, <1>4, <2>3 DEF Up
    <3> QED
      BY <2>3, <3>1
  <2> HIDE DEF failed, p, q
  <2> QED
    BY <2>1, <2>2, <2>3
<1>8. Both(a, b, t) = [time |-> t, state |-> p.state /\ q.state, causes |-> p.causes \cup q.causes]
  BY DEF Both, UpAt, CausesAt
<1> HIDE DEF x, y, failed, inForce, p, q
<1>9. CombineAt(x, y, t) = Both(a, b, t)
  BY <1>3, <1>6, <1>7, <1>8
<1> QED
  BY <1>4, <1>8, <1>9 DEF x, y, TimeState

(* From here on the walk tells what both schedules say.                    *)
Covers(r, a, b, t) ==
  /\ r \in Seq(TimeState) /\ r # <<>> /\ Forward(r) /\ Honest(r)
  /\ r[1].time = t
  /\ Times(r) = {t} \cup {u \in Times(a) \cup Times(b) : u > t}
  /\ \A k \in DOMAIN r : r[k] = Both(a, b, r[k].time)

LEMMA ConsFacts ==
  ASSUME NEW S, NEW e \in S, NEW s \in Seq(S)
  PROVE  /\ <<e>> \o s \in Seq(S) /\ <<e>> \o s # <<>>
         /\ Len(s) \in Nat /\ DOMAIN s = 1 .. Len(s)
         /\ Len(<<e>> \o s) = Len(s) + 1 /\ DOMAIN (<<e>> \o s) = 1 .. Len(s) + 1
         /\ (<<e>> \o s)[1] = e
         /\ \A k \in 1 .. Len(s) : (<<e>> \o s)[k + 1] = s[k]
  OBVIOUS

LEMMA CoversOne ==
  ASSUME NEW a, NEW b, NEW t \in Nat, NEW e \in TimeState, e = Both(a, b, t),
         e.state <=> e.causes = {},
         \A u \in Times(a) \cup Times(b) : u <= t, Times(a) \cup Times(b) \subseteq Nat
  PROVE  Covers(<<e>> \o <<>>, a, b, t)
<1> DEFINE r == <<e>> \o <<>>
<1>1. /\ r \in Seq(TimeState) /\ r # <<>> /\ Len(r) = 1 /\ DOMAIN r = 1 .. 1 /\ r[1] = e
  OBVIOUS
<1>2. e.time = t
  BY DEF Both
<1> HIDE DEF r
<1>3. Forward(r) /\ Honest(r)
  <2>1. \A i \in DOMAIN r : r[i] = e
    BY <1>1
  <2>2. e.time \in Nat
    BY <1>2
  <2>3. Honest(r)
    BY <2>1 DEF Honest
  <2> QED
    BY <1>1, <2>1, <2>2, <2>3 DEF Forward, Timed
<1>4. Times(r) = {t} /\ {u \in Times(a) \cup Times(b) : u > t} = {}
  <2>1. \A k \in DOMAIN r : r[k].time = t
    BY <1>1, <1>2
  <2>2. 1 \in DOMAIN r
    BY <1>1
  <2>3. Times(r) = {t}
    BY <2>1, <2>2 DEF Times
  <2> QED
    BY <2>3
<1>5. Times(r) = {t} \cup {u \in Times(a) \cup Times(b) : u > t}
  BY <1>4
<1>6. \A k \in DOMAIN r : r[k] = Both(a, b, r[k].time)
  BY <1>1, <1>2
<1> QED
  BY <1>1, <1>2, <1>3, <1>5, <1>6 DEF Covers, r

LEMMA CoversMore ==
  ASSUME NEW a, NEW b, NEW t \in Nat, NEW e \in TimeState, e = Both(a, b, t),
         e.state <=> e.causes = {},
         Times(a) \cup Times(b) \subseteq Nat,
         NEW u \in Nat, t < u, u \in Times(a) \cup Times(b),
         \A v \in Times(a) \cup Times(b) : v <= t \/ u <= v,
         NEW rest, Covers(rest, a, b, u)
  PROVE  Covers(<<e>> \o rest, a, b, t)
<1> DEFINE r == <<e>> \o rest
           n == Len(rest)
<1>1. /\ rest \in Seq(TimeState) /\ rest # <<>> /\ Forward(rest) /\ Honest(rest)
      /\ rest[1].time = u
      /\ Times(rest) = {u} \cup {v \in Times(a) \cup Times(b) : v > u}
      /\ \A k \in DOMAIN rest : rest[k] = Both(a, b, rest[k].time)
  BY DEF Covers
<1>2. /\ r \in Seq(TimeState) /\ r # <<>>
      /\ n \in Nat /\ DOMAIN rest = 1 .. n
      /\ Len(r) = n + 1 /\ DOMAIN r = 1 .. n + 1
      /\ r[1] = e /\ \A k \in 1 .. n : r[k + 1] = rest[k]
  BY <1>1, ConsFacts
<1>3. e.time = t
  BY DEF Both
<1> HIDE DEF r, n
<1>4. \A k \in 1 .. n : rest[k].time \in Nat /\ u <= rest[k].time
  <2> TAKE k \in 1 .. n
  <2>1. rest[k].time \in Times(rest)
    BY <1>2 DEF Times
  <2> QED
    BY <1>1, <2>1
<1>5. \A k \in 1 .. n + 1 : k = 1 \/ (k - 1 \in 1 .. n /\ r[k] = rest[k - 1])
  <2> TAKE k \in 1 .. n + 1
  <2>1. k = 1 \/ (k - 1 \in 1 .. n /\ (k - 1) + 1 = k)
    BY <1>2
  <2> QED
    BY <1>2, <2>1
<1>6. Forward(r)
  <2>1. \A k \in 1 .. n + 1 : r[k].time \in Nat
    BY <1>2, <1>3, <1>4, <1>5
  <2>2. ASSUME NEW k \in 1 .. n + 1, NEW m \in 1 .. n + 1, k < m
        PROVE  r[k].time < r[m].time
    <3>1. m - 1 \in 1 .. n /\ r[m] = rest[m - 1]
      BY <1>5, <2>2
    <3>2. CASE k = 1
      BY <1>2, <1>3, <1>4, <3>1, <3>2
    <3>3. CASE k # 1
      <4>1. k - 1 \in 1 .. n /\ r[k] = rest[k - 1] /\ k - 1 < m - 1
        BY <1>2, <1>5, <2>2, <3>3
      <4> QED
        BY <1>1, <1>2, <3>1, <4>1 DEF Forward, Timed
    <3> QED
      BY <3>2, <3>3
  <2> QED
    BY <1>2, <2>1, <2>2 DEF Forward, Timed
<1>7. Honest(r)
  BY <1>1, <1>2, <1>5 DEF Honest
<1>8. \A k \in 1 .. n + 1 : r[k] = Both(a, b, r[k].time)
  BY <1>1, <1>2, <1>3, <1>5
<1>9. Times(r) = {t} \cup Times(rest)
  <2>1. ASSUME NEW k \in 1 .. n + 1 PROVE r[k].time \in {t} \cup Times(rest)
    BY <1>2, <1>3, <1>5 DEF Times
  <2>2. ASSUME NEW k \in 1 .. n PROVE rest[k].time \in Times(r)
    <3>1. k + 1 \in 1 .. n + 1 /\ r[k + 1] = rest[k]
      BY <1>2
    <3> QED
      BY <1>2, <3>1 DEF Times
  <2>3. 1 \in 1 .. n + 1
    BY <1>2
  <2>4. t \in Times(r)
    BY <1>2, <1>3, <2>3 DEF Times
  <2>5. Times(r) \subseteq {t} \cup Times(rest)
    <3> SUFFICES ASSUME NEW v \in Times(r) PROVE v \in {t} \cup Times(rest)
      OBVIOUS
    <3>1. PICK k \in DOMAIN r : v = r[k].time
      BY DEF Times
    <3> QED
      BY <1>2, <2>1, <3>1
  <2>6. Times(rest) \subseteq Times(r)
    <3> SUFFICES ASSUME NEW v \in Times(rest) PROVE v \in Times(r)
      OBVIOUS
    <3>1. PICK k \in DOMAIN rest : v = rest[k].time
      BY DEF Times
    <3> QED
      BY <1>2, <2>2, <3>1
  <2> QED
    BY <2>4, <2>5, <2>6
<1>10. Times(r) = {t} \cup {v \in Times(a) \cup Times(b) : v > t}
  BY <1>1, <1>9
<1> QED
  BY <1>2, <1>3, <1>6, <1>7, <1>8, <1>10 DEF Covers, r

(* The place the walk turns to is reached in both schedules.               *)
LEMMA NextIsReached ==
  ASSUME NEW a, Forward(a), NEW b, Forward(b), NEW at \in Places(a, b),
         Reached(a, at.a, at.time), Reached(b, at.b, at.time),
         Ahead(a, b, at) # {}
  PROVE  LET p == NextPlace(a, b, at)
         IN  /\ p \in Places(a, b) /\ p.time > at.time
             /\ p.time \in Times(a) \cup Times(b)
             /\ Reached(a, p.a, p.time) /\ Reached(b, p.b, p.time)
             /\ \A v \in Times(a) \cup Times(b) : v <= at.time \/ p.time <= v
<1> DEFINE t == at.time
           x == Following(a, at.a, t)
           y == Following(b, at.b, t)
           u == Min(Ahead(a, b, at))
           p == NextPlace(a, b, at)
<1>1. /\ p \in Places(a, b) /\ p.time = u /\ u \in Ahead(a, b, at) /\ u \in Nat /\ u > t
      /\ \A v \in Ahead(a, b, at) : u <= v
  BY NextPlaceType DEF Forward
<1>2. t \in Nat
  BY DEF Places
<1>3. /\ p.a = IF a[x].time = u THEN x ELSE at.a
      /\ p.b = IF b[y].time = u THEN y ELSE at.b
  BY DEF NextPlace
<1>4. /\ x \in DOMAIN a /\ a[x].time \in Nat
      /\ a[x].time <= t => \A v \in Times(a) : v <= t
      /\ a[x].time > t => \A v \in Times(a) : v <= t \/ a[x].time <= v
      /\ \A w \in Nat : t < w /\ (a[x].time > t => w <= a[x].time) =>
           Reached(a, IF a[x].time = w THEN x ELSE at.a, w)
  BY <1>2, NextTime
<1>5. /\ y \in DOMAIN b /\ b[y].time \in Nat
      /\ b[y].time <= t => \A v \in Times(b) : v <= t
      /\ b[y].time > t => \A v \in Times(b) : v <= t \/ b[y].time <= v
      /\ \A w \in Nat : t < w /\ (b[y].time > t => w <= b[y].time) =>
           Reached(b, IF b[y].time = w THEN y ELSE at.b, w)
  BY <1>2, NextTime
<1>6. Ahead(a, b, at) = {v \in {a[x].time, b[y].time} : v > t}
  BY DEF Ahead
<1>7. \A v \in Times(a) \cup Times(b) : v \in Nat
  BY DEF Times, Forward, Timed
<1>8. u \in Times(a) \cup Times(b)
  BY <1>1, <1>4, <1>5, <1>6 DEF Times
<1> HIDE DEF x, y, u, p, t
<1>9. (a[x].time > t => u <= a[x].time) /\ (b[y].time > t => u <= b[y].time)
  BY <1>1, <1>6
<1>10. Reached(a, p.a, u) /\ Reached(b, p.b, u)
  <2>1. t < u
    BY <1>1, <1>2
  <2>2. Reached(a, IF a[x].time = u THEN x ELSE at.a, u)
    BY <1>1, <1>4, <1>9, <2>1
  <2>3. Reached(b, IF b[y].time = u THEN y ELSE at.b, u)
    BY <1>1, <1>5, <1>9, <2>1
  <2> QED
    BY <1>3, <2>2, <2>3
<1>11. \A v \in Times(a) : v <= t \/ u <= v
  BY <1>1, <1>2, <1>4, <1>7, <1>9
<1>12. \A v \in Times(b) : v <= t \/ u <= v
  BY <1>1, <1>2, <1>5, <1>7, <1>9
<1> QED
  BY <1>1, <1>8, <1>10, <1>11, <1>12 DEF p, t

LEMMA NothingAhead ==
  ASSUME NEW a, Forward(a), NEW b, Forward(b), NEW at \in Places(a, b),
         Reached(a, at.a, at.time), Reached(b, at.b, at.time),
         Ahead(a, b, at) = {}
  PROVE  \A v \in Times(a) \cup Times(b) : v <= at.time
<1> DEFINE t == at.time
           x == Following(a, at.a, t)
           y == Following(b, at.b, t)
<1>1. t \in Nat
  BY DEF Places
<1>2. a[x].time \in Nat /\ (a[x].time <= t => \A v \in Times(a) : v <= t)
  BY <1>1, NextTime
<1>3. b[y].time \in Nat /\ (b[y].time <= t => \A v \in Times(b) : v <= t)
  BY <1>1, NextTime
<1>4. ~ (a[x].time > t) /\ ~ (b[y].time > t)
  BY DEF Ahead
<1> HIDE DEF x, y, t
<1>5. a[x].time <= t /\ b[y].time <= t
  BY <1>1, <1>2, <1>3, <1>4
<1> QED
  BY <1>2, <1>3, <1>5 DEF t

LEMMA WalkStep ==
  ASSUME NEW a, Forward(a), Honest(a), NEW b, Forward(b), Honest(b),
         NEW f, Walks(f, a, b), NEW at \in Places(a, b),
         Reached(a, at.a, at.time), Reached(b, at.b, at.time),
         Ahead(a, b, at) # {} =>
           Covers(f[NextPlace(a, b, at)], a, b, NextPlace(a, b, at).time)
  PROVE  Covers(f[at], a, b, at.time)
<1> DEFINE t == at.time
           e == CombineAt(a[at.a], b[at.b], t)
<1>1. t \in Nat
  BY DEF Places
<1>2. e = Both(a, b, t) /\ e \in TimeState /\ (e.state <=> e.causes = {})
  BY <1>1, CombineAtIs
<1>3. Times(a) \cup Times(b) \subseteq Nat
  BY DEF Times, Forward, Timed
<1>4. f[at] = <<e>> \o (IF Ahead(a, b, at) = {} THEN <<>> ELSE f[NextPlace(a, b, at)])
  BY WalksStep, StepIs
<1> HIDE DEF e, t
<1>5. CASE Ahead(a, b, at) = {}
  <2>1. \A v \in Times(a) \cup Times(b) : v <= t
    BY <1>5, NothingAhead DEF t
  <2>2. Covers(<<e>> \o <<>>, a, b, t)
    BY <1>1, <1>2, <1>3, <2>1, CoversOne
  <2> QED
    BY <1>4, <1>5, <2>2 DEF t
<1>6. CASE Ahead(a, b, at) # {}
  <2> DEFINE p == NextPlace(a, b, at)
  <2>1. /\ p \in Places(a, b) /\ p.time > t
        /\ p.time \in Times(a) \cup Times(b)
        /\ \A v \in Times(a) \cup Times(b) : v <= t \/ p.time <= v
    BY <1>6, NextIsReached DEF t
  <2>2. Covers(f[p], a, b, p.time)
    BY <1>6
  <2>3. f[at] = <<e>> \o f[p]
    BY <1>4, <1>6
  <2> HIDE DEF p
  <2>4. p.time \in Nat /\ t < p.time
    BY <1>1, <1>3, <2>1
  <2>5. Covers(<<e>> \o f[p], a, b, t)
    BY <1>1, <1>2, <1>3, <2>1, <2>2, <2>4, CoversMore
  <2> QED
    BY <2>3, <2>5 DEF t
<1> QED
  BY <1>5, <1>6

(* Every place is settled that is when the one the walk turns to is.       *)
LEMMA PlacesInduction ==
  ASSUME NEW a, Timed(a), NEW b, Timed(b), NEW M \in Nat,
         \A i \in DOMAIN a : a[i].time <= M, \A j \in DOMAIN b : b[j].time <= M,
         NEW T,
         \A p \in Places(a, b) : Ahead(a, b, p) = {} \/ NextPlace(a, b, p) \in T => p \in T
  PROVE  Places(a, b) \subseteq T
<1> DEFINE S == {d \in Nat : \A p \in Places(a, b) : p.time + d > M => p \in T}
<1>1. ASSUME NEW p \in Places(a, b),
             \A q \in Places(a, b) : q.time > p.time /\ q.time <= M => q \in T
      PROVE  p \in T
  <2>1. ASSUME Ahead(a, b, p) # {} PROVE NextPlace(a, b, p) \in T
    <3> DEFINE q == NextPlace(a, b, p)
    <3>1. q \in Places(a, b) /\ q.time > p.time /\ q.time \in Ahead(a, b, p)
      BY <2>1, NextPlaceType
    <3>2. p.a \in DOMAIN a /\ p.b \in DOMAIN b
      BY DEF Places
    <3>3. q.time <= M
      BY <3>1, <3>2, FollowingType DEF Ahead
    <3> QED
      BY <1>1, <3>1, <3>3
  <2> QED
    BY <2>1
<1>2. 0 \in S
  <2> SUFFICES ASSUME NEW p \in Places(a, b), p.time + 0 > M PROVE p \in T
    OBVIOUS
  <2>1. \A q \in Places(a, b) : ~ (q.time > p.time /\ q.time <= M)
    BY DEF Places
  <2> QED
    BY <1>1, <2>1
<1>3. ASSUME NEW d \in S PROVE d + 1 \in S
  <2>1. d \in Nat /\ \A p \in Places(a, b) : p.time + d > M => p \in T
    OBVIOUS
  <2>2. ASSUME NEW p \in Places(a, b), p.time + (d + 1) > M PROVE p \in T
    <3>1. \A q \in Places(a, b) : q.time > p.time => q.time + d > M
      BY <2>1, <2>2 DEF Places
    <3>2. \A q \in Places(a, b) : q.time > p.time /\ q.time <= M => q \in T
      BY <2>1, <3>1
    <3> QED
      BY <1>1, <3>2
  <2> QED
    BY <2>1, <2>2
<1>4. S = Nat
  <2>1. S \subseteq Nat
    OBVIOUS
  <2> HIDE DEF S
  <2> QED
    BY <1>2, <1>3, <2>1, SetInduction
<1> SUFFICES ASSUME NEW p \in Places(a, b) PROVE p \in T
  OBVIOUS
<1>5. M + 1 \in S
  BY <1>4
<1>6. p.time + (M + 1) > M
  BY DEF Places
<1> QED
  BY <1>5, <1>6

LEMMA WalkCovers ==
  ASSUME NEW a, Forward(a), Honest(a), NEW b, Forward(b), Honest(b),
         NEW M \in Nat,
         \A i \in DOMAIN a : a[i].time <= M, \A j \in DOMAIN b : b[j].time <= M,
         NEW f, Walks(f, a, b), NEW at \in Places(a, b),
         Reached(a, at.a, at.time), Reached(b, at.b, at.time)
  PROVE  Covers(f[at], a, b, at.time)
<1> DEFINE T == {p \in Places(a, b) :
                   Reached(a, p.a, p.time) /\ Reached(b, p.b, p.time) =>
                     Covers(f[p], a, b, p.time)}
<1>1. ASSUME NEW p \in Places(a, b), Ahead(a, b, p) = {} \/ NextPlace(a, b, p) \in T
      PROVE  p \in T
  <2> SUFFICES ASSUME Reached(a, p.a, p.time), Reached(b, p.b, p.time)
               PROVE  Covers(f[p], a, b, p.time)
    OBVIOUS
  <2>1. ASSUME Ahead(a, b, p) # {}
        PROVE  Covers(f[NextPlace(a, b, p)], a, b, NextPlace(a, b, p).time)
    BY <1>1, <2>1, NextIsReached
  <2> QED
    BY <2>1, WalkStep
<1>2. Timed(a) /\ Timed(b)
  BY DEF Forward
<1> HIDE DEF T
<1>3. Places(a, b) \subseteq T
  BY <1>1, <1>2, PlacesInduction
<1> QED
  BY <1>3 DEF T

LEMMA CombineAtType ==
  ASSUME NEW x \in TimeState, NEW y \in TimeState, NEW t \in Nat
  PROVE  CombineAt(x, y, t) \in TimeState
<1> DEFINE failed == {z \in {w \in {x, y} : w.time <= t} : ~ z.state}
<1>1. CombineAt(x, y, t) =
        [time |-> t, state |-> failed = {}, causes |-> UNION {z.causes : z \in failed}]
  BY DEF CombineAt
<1>2. \A z \in failed : z.causes \subseteq Cause
  BY DEF TimeState
<1> HIDE DEF failed
<1>3. UNION {z.causes : z \in failed} \subseteq Cause
  BY <1>2
<1>4. (failed = {}) \in BOOLEAN
  OBVIOUS
<1> QED
  BY <1>1, <1>3, <1>4 DEF TimeState

LEMMA SeqIsTimed ==
  ASSUME NEW s \in Seq(TimeState)
  PROVE  Timed(s) /\ \A i \in DOMAIN s : s[i] \in TimeState
<1>1. \A i \in DOMAIN s : s[i] \in TimeState
  OBVIOUS
<1>2. \A z \in TimeState : z.time \in Nat
  BY DEF TimeState
<1>3. Len(s) \in Nat /\ DOMAIN s = 1 .. Len(s)
  OBVIOUS
<1> QED
  BY <1>1, <1>2, <1>3 DEF Timed

(* Schedules that never go back in time.                                   *)
Sorted(s) == \A i, j \in DOMAIN s : i <= j => s[i].time <= s[j].time

LEMMA ConsSorted ==
  ASSUME NEW e \in TimeState, NEW s \in Seq(TimeState), Sorted(s),
         s # <<>> => e.time <= s[1].time
  PROVE  Sorted(<<e>> \o s)
<1> DEFINE r == <<e>> \o s
           n == Len(s)
<1>1. /\ n \in Nat /\ DOMAIN s = 1 .. n /\ DOMAIN r = 1 .. n + 1 /\ r[1] = e
      /\ \A k \in 1 .. n : r[k + 1] = s[k]
  BY ConsFacts
<1>2. e.time \in Nat /\ \A k \in 1 .. n : s[k].time \in Nat
  BY <1>1, SeqIsTimed DEF TimeState, Timed
<1> HIDE DEF r, n
<1>3. \A k \in 1 .. n + 1 : k = 1 \/ (k - 1 \in 1 .. n /\ r[k] = s[k - 1])
  <2> TAKE k \in 1 .. n + 1
  <2>1. k = 1 \/ (k - 1 \in 1 .. n /\ (k - 1) + 1 = k)
    BY <1>1
  <2> QED
    BY <1>1, <2>1
<1> SUFFICES ASSUME NEW i \in 1 .. n + 1, NEW j \in 1 .. n + 1, i <= j
             PROVE  r[i].time <= r[j].time
  BY <1>1 DEF Sorted, r
<1>4. CASE j = 1
  BY <1>1, <1>2, <1>4
<1>5. CASE i = 1 /\ j # 1
  <2>1. j - 1 \in 1 .. n /\ r[j] = s[j - 1]
    BY <1>3, <1>5
  <2>2. 1 \in 1 .. n /\ s # <<>> /\ 1 <= j - 1
    BY <1>1, <2>1
  <2>3. e.time <= s[1].time /\ s[1].time <= s[j - 1].time
    BY <1>1, <2>1, <2>2 DEF Sorted
  <2> QED
    BY <1>1, <1>2, <1>5, <2>1, <2>2, <2>3
<1>6. CASE i # 1 /\ j # 1
  <2>1. /\ i - 1 \in 1 .. n /\ r[i] = s[i - 1]
        /\ j - 1 \in 1 .. n /\ r[j] = s[j - 1]
    BY <1>3, <1>6
  <2>2. i - 1 <= j - 1
    BY <1>1
  <2> QED
    BY <1>1, <2>1, <2>2 DEF Sorted
<1> QED
  BY <1>4, <1>5, <1>6

(* Whatever the schedules, the walk only goes forward.                     *)
Onward(r, t) == r \in Seq(TimeState) /\ r # <<>> /\ r[1].time = t /\ Sorted(r)

LEMMA WalkType ==
  ASSUME NEW a \in Seq(TimeState), NEW b \in Seq(TimeState), NEW M \in Nat,
         \A i \in DOMAIN a : a[i].time <= M, \A j \in DOMAIN b : b[j].time <= M,
         NEW f, Walks(f, a, b), NEW at \in Places(a, b)
  PROVE  Onward(f[at], at.time)
<1> DEFINE T == {p \in Places(a, b) : Onward(f[p], p.time)}
<1>1. Timed(a) /\ Timed(b)
  BY SeqIsTimed
<1>2. ASSUME NEW p \in Places(a, b), Ahead(a, b, p) = {} \/ NextPlace(a, b, p) \in T
      PROVE  p \in T
  <2> DEFINE e == CombineAt(a[p.a], b[p.b], p.time)
             rest == IF Ahead(a, b, p) = {} THEN <<>> ELSE f[NextPlace(a, b, p)]
  <2>1. e \in TimeState /\ e.time = p.time /\ p.time \in Nat
    <3>1. a[p.a] \in TimeState /\ b[p.b] \in TimeState /\ p.time \in Nat
      BY SeqIsTimed DEF Places
    <3>2. e.time = p.time
      BY DEF CombineAt
    <3> QED
      BY <3>1, <3>2, CombineAtType
  <2>2. /\ rest \in Seq(TimeState) /\ Sorted(rest)
        /\ rest # <<>> => p.time <= rest[1].time
    <3>1. CASE Ahead(a, b, p) = {}
      BY <3>1 DEF Sorted
    <3>2. CASE Ahead(a, b, p) # {}
      <4> DEFINE q == NextPlace(a, b, p)
      <4>1. q.time > p.time /\ q.time \in Nat
        BY <1>1, <3>2, NextPlaceType DEF Places
      <4>2. Onward(f[q], q.time)
        BY <1>2, <3>2
      <4>3. rest = f[q]
        BY <3>2
      <4> HIDE DEF q, rest
      <4> QED
        BY <2>1, <4>1, <4>2, <4>3 DEF Onward
    <3> QED
      BY <3>1, <3>2
  <2>3. f[p] = <<e>> \o rest
    BY WalksStep, StepIs
  <2> HIDE DEF e, rest
  <2>4. <<e>> \o rest \in Seq(TimeState) /\ <<e>> \o rest # <<>> /\ (<<e>> \o rest)[1] = e
    BY <2>1, <2>2, ConsFacts
  <2>5. Sorted(<<e>> \o rest)
    BY <2>1, <2>2, ConsSorted
  <2>6. Onward(f[p], p.time)
    BY <2>1, <2>3, <2>4, <2>5 DEF Onward
  <2> QED
    BY <2>6
<1> HIDE DEF T
<1>3. Places(a, b) \subseteq T
  BY <1>1, <1>2, PlacesInduction
<1> QED
  BY <1>3 DEF T

(* A time after all of a schedule's.                                       *)
LEMMA TimesEnd ==
  ASSUME NEW a, Timed(a), NEW b, Timed(b)
  PROVE  \E M \in Nat : /\ \A i \in DOMAIN a : a[i].time <= M
                        /\ \A j \in DOMAIN b : b[j].time <= M
<1>1. ASSUME NEW s, Timed(s) PROVE \E m \in Nat : \A i \in DOMAIN s : s[i].time <= m
  <2> DEFINE S == {n \in Nat : \E m \in Nat : \A i \in DOMAIN s : i <= n => s[i].time <= m}
  <2>1. 0 \in S
    <3>1. \A i \in DOMAIN s : ~ (i <= 0)
      BY <1>1 DEF Timed
    <3> QED
      BY <3>1
  <2>2. ASSUME NEW n \in S PROVE n + 1 \in S
    <3>1. PICK m \in Nat : \A i \in DOMAIN s : i <= n => s[i].time <= m
      OBVIOUS
    <3>2. CASE n + 1 \notin DOMAIN s
      <4>1. \A i \in DOMAIN s : i <= n + 1 => s[i].time <= m
        BY <1>1, <3>1, <3>2 DEF Timed
      <4> QED
        BY <4>1
    <3>3. CASE n + 1 \in DOMAIN s
      <4>1. s[n + 1].time \in Nat
        BY <1>1, <3>3 DEF Timed
      <4>2. PICK w \in Nat : m <= w /\ s[n + 1].time <= w
        <5>1. m <= m + s[n + 1].time /\ s[n + 1].time <= m + s[n + 1].time
              /\ m + s[n + 1].time \in Nat
          BY <4>1
        <5> QED
          BY <5>1
      <4>3. \A i \in DOMAIN s : i <= n + 1 => s[i].time <= w
        <5> TAKE i \in DOMAIN s
        <5>1. i \in Nat /\ s[i].time \in Nat
          BY <1>1 DEF Timed
        <5>2. i <= n + 1 => i <= n \/ i = n + 1
          BY <5>1
        <5> QED
          BY <3>1, <4>1, <4>2, <5>1, <5>2
      <4> QED
        BY <4>3
    <3> QED
      BY <3>2, <3>3
  <2>3. S = Nat
    <3>1. S \subseteq Nat
      OBVIOUS
    <3> HIDE DEF S
    <3> QED
      BY <2>1, <2>2, <3>1, SetInduction
  <2>4. Len(s) \in S /\ \A i \in DOMAIN s : i <= Len(s)
    <3>1. Len(s) \in Nat /\ DOMAIN s = 1 .. Len(s)
      BY <1>1 DEF Timed
    <3> HIDE DEF S
    <3> QED
      BY <2>3, <3>1
  <2>5. PICK m \in Nat : \A i \in DOMAIN s : i <= Len(s) => s[i].time <= m
    BY <2>4
  <2> QED
    BY <2>4, <2>5
<1>2. PICK m \in Nat : \A i \in DOMAIN a : a[i].time <= m
  BY <1>1
<1>3. PICK n \in Nat : \A i \in DOMAIN b : b[i].time <= n
  BY <1>1
<1>4. m + n \in Nat /\ m <= m + n /\ n <= m + n
  OBVIOUS
<1>5. \A i \in DOMAIN a : a[i].time <= m + n
  BY <1>2, <1>4 DEF Timed
<1>6. \A i \in DOMAIN b : b[i].time <= m + n
  BY <1>3, <1>4 DEF Timed
<1> QED
  BY <1>4, <1>5, <1>6

-----------------------------------------------------------------------------
(* An entry that brings a component up ends an outage, or is there from the*)
(* beginning.                                                              *)
NotRepeated(s) ==
  \A i \in DOMAIN s :
    s[i].state => IF i = 1 THEN s[i].time = 0 ELSE ~ s[i - 1].state

Proper(s) == s \in Seq(TimeState) /\ Forward(s) /\ Honest(s) /\ NotRepeated(s)

LEMMA NoChange ==
  ASSUME NEW s, NEW t \in Nat, NEW u \in Nat, Forward(s), t <= u,
         \A v \in Times(s) : v <= t \/ u < v
  PROVE  (UpAt(s, u) <=> UpAt(s, t)) /\ CausesAt(s, u) = CausesAt(s, t)
<1>1. \A i \in DOMAIN s : s[i].time \in Nat /\ (s[i].time <= t \/ u < s[i].time)
  BY DEF Times, Forward, Timed
<1>2. {i \in DOMAIN s : s[i].time <= u} = {i \in DOMAIN s : s[i].time <= t}
  BY <1>1
<1> QED
  BY <1>2 DEF UpAt, CausesAt, StateAt, Up

LEMMA EntryIsReached ==
  ASSUME NEW s, Forward(s), NEW i \in DOMAIN s
  PROVE  /\ Reached(s, i, s[i].time) /\ StateAt(s, s[i].time) = s[i]
         /\ s[i].time \in Nat /\ s[i].time \in Times(s)
<1>1. s[i].time \in Nat /\ \A k \in DOMAIN s : s[k].time \in Nat /\ k \in Nat
  BY DEF Forward, Timed
<1>2. \A k \in DOMAIN s : s[k].time <= s[i].time => k <= i
  <2> SUFFICES ASSUME NEW k \in DOMAIN s, ~ (k <= i) PROVE ~ (s[k].time <= s[i].time)
    OBVIOUS
  <2>1. i < k
    BY <1>1
  <2>2. s[i].time < s[k].time
    BY <2>1 DEF Forward
  <2> QED
    BY <1>1, <2>2
<1>3. Reached(s, i, s[i].time)
  BY <1>1, <1>2 DEF Reached
<1> QED
  BY <1>1, <1>3, ReachedState DEF Times

LEMMA BeforeTheFirst ==
  ASSUME NEW s, NEW t \in Nat, \A v \in Times(s) : ~ (v <= t)
  PROVE  UpAt(s, t) /\ CausesAt(s, t) = {}
<1>1. {i \in DOMAIN s : s[i].time <= t} = {}
  BY DEF Times
<1> QED
  BY <1>1 DEF UpAt, CausesAt, StateAt, Up

LEMMA UpEndsAnOutage ==
  ASSUME NEW s, Proper(s), NEW i \in DOMAIN s, s[i].state,
         NEW t \in Nat, t < s[i].time,
         \A v \in Times(s) : v < s[i].time => v <= t
  PROVE  ~ UpAt(s, t)
<1>1. /\ DOMAIN s = 1 .. Len(s) /\ Len(s) \in Nat
      /\ \A k \in DOMAIN s : s[k].time \in Nat
      /\ \A k, m \in DOMAIN s : k < m => s[k].time < s[m].time
  BY DEF Proper, Forward, Timed
<1>2. i # 1 /\ ~ s[i - 1].state
  BY <1>1 DEF Proper, NotRepeated
<1>3. i - 1 \in DOMAIN s /\ i - 1 < i
  BY <1>1, <1>2
<1>4. s[i - 1].time < s[i].time
  BY <1>1, <1>3
<1>5. s[i - 1].time <= t
  BY <1>3, <1>4 DEF Times
<1>6. \A k \in DOMAIN s : s[k].time <= t => k <= i - 1
  <2> SUFFICES ASSUME NEW k \in DOMAIN s, ~ (k <= i - 1) PROVE ~ (s[k].time <= t)
    OBVIOUS
  <2>1. k = i \/ i < k
    BY <1>1
  <2>2. s[i].time <= s[k].time
    BY <1>1, <2>1
  <2> QED
    BY <1>1, <2>2
<1>7. Reached(s, i - 1, t)
  BY <1>1, <1>3, <1>5, <1>6 DEF Reached
<1>8. StateAt(s, t) = s[i - 1]
  BY <1>5, <1>7, ReachedState DEF Proper
<1> QED
  BY <1>2, <1>8 DEF UpAt

LEMMA CoversMeans ==
  ASSUME NEW a, Proper(a), NEW b, Proper(b), NEW m \in Nat, NEW r, Covers(r, a, b, m),
         m \in Times(a) \cup Times(b), \A v \in Times(a) \cup Times(b) : m <= v
  PROVE  /\ Times(r) = Times(a) \cup Times(b)
         /\ \A t \in Nat : /\ UpAt(r, t) <=> UpAt(a, t) /\ UpAt(b, t)
                          /\ CausesAt(r, t) = CausesAt(a, t) \cup CausesAt(b, t)
<1>1. /\ r # <<>> /\ Forward(r) /\ r[1].time = m
      /\ Times(r) = {m} \cup {u \in Times(a) \cup Times(b) : u > m}
      /\ \A k \in DOMAIN r : r[k] = Both(a, b, r[k].time)
  BY DEF Covers
<1>2. Forward(a) /\ Forward(b)
  BY DEF Proper
<1>3. Times(a) \cup Times(b) \subseteq Nat
  BY <1>2 DEF Times, Forward, Timed
<1>4. Times(r) = Times(a) \cup Times(b)
  BY <1>1, <1>3
<1>5. ASSUME NEW t \in Nat
      PROVE  /\ UpAt(r, t) <=> UpAt(a, t) /\ UpAt(b, t)
             /\ CausesAt(r, t) = CausesAt(a, t) \cup CausesAt(b, t)
  <2>1. CASE t < m
    <3>1. \A v \in Times(a) \cup Times(b) : ~ (v <= t)
      BY <1>3, <2>1
    <3>2. UpAt(r, t) /\ CausesAt(r, t) = {}
      BY <1>4, <3>1, BeforeTheFirst
    <3>3. UpAt(a, t) /\ CausesAt(a, t) = {}
      BY <3>1, BeforeTheFirst
    <3>4. UpAt(b, t) /\ CausesAt(b, t) = {}
      BY <3>1, BeforeTheFirst
    <3> QED
      BY <3>2, <3>3, <3>4
  <2>2. CASE m <= t
    <3>1. PICK i \in DOMAIN r : Reached(r, i, t)
      BY <1>1, SomethingIsReached
    <3> DEFINE u == r[i].time
    <3>2. u \in Nat /\ \A k \in DOMAIN r : r[k].time \in Nat
      BY <1>1 DEF Forward, Timed
    <3>3. u <= t
      BY <1>1, <2>2, <3>1, <3>2 DEF Reached
    <3>4. StateAt(r, t) = Both(a, b, u)
      BY <1>1, <3>1, <3>3, ReachedState
    <3>5. \A v \in Times(r) : v <= u \/ t < v
      <4> SUFFICES ASSUME NEW k \in DOMAIN r, r[k].time <= t PROVE r[k].time <= u
        BY <3>2 DEF Times
      <4>1. k <= i /\ k \in Nat /\ i \in Nat
        BY <1>1, <3>1 DEF Reached, Forward, Timed
      <4>2. k < i => r[k].time < u
        BY <1>1 DEF Forward
      <4> QED
        BY <3>2, <4>1, <4>2
    <3> HIDE DEF u
    <3>6. (UpAt(a, t) <=> UpAt(a, u)) /\ CausesAt(a, t) = CausesAt(a, u)
      <4>1. \A v \in Times(a) : v <= u \/ t < v
        BY <1>4, <3>5
      <4> QED
        BY <1>2, <3>2, <3>3, <4>1, NoChange
    <3>7. (UpAt(b, t) <=> UpAt(b, u)) /\ CausesAt(b, t) = CausesAt(b, u)
      <4>1. \A v \in Times(b) : v <= u \/ t < v
        BY <1>4, <3>5
      <4> QED
        BY <1>2, <3>2, <3>3, <4>1, NoChange
    <3>8. /\ UpAt(r, t) <=> UpAt(a, u) /\ UpAt(b, u)
          /\ CausesAt(r, t) = CausesAt(a, u) \cup CausesAt(b, u)
      <4>1. /\ Both(a, b, u).state = (UpAt(a, u) /\ UpAt(b, u))
            /\ Both(a, b, u).causes = CausesAt(a, u) \cup CausesAt(b, u)
        BY DEF Both
      <4>2. UpAt(r, t) = Both(a, b, u).state /\ CausesAt(r, t) = Both(a, b, u).causes
        BY <3>4 DEF UpAt, CausesAt
      <4> QED
        BY <4>1, <4>2
    <3> QED
      BY <3>6, <3>7, <3>8
  <2> QED
    BY <2>1, <2>2
<1> QED
  BY <1>4, <1>5

LEMMA CoversNotRepeated ==
  ASSUME NEW a, Proper(a), NEW b, Proper(b), NEW m \in Nat, NEW r, Covers(r, a, b, m),
         m \in Times(a) \cup Times(b), \A v \in Times(a) \cup Times(b) : m <= v
  PROVE  NotRepeated(r)
<1> SUFFICES ASSUME NEW i \in DOMAIN r, r[i].state
             PROVE  IF i = 1 THEN r[i].time = 0 ELSE ~ r[i - 1].state
  BY DEF NotRepeated
<1> DEFINE t == r[i].time
<1>1. /\ Forward(r) /\ r[1].time = m
      /\ \A k \in DOMAIN r : r[k] = Both(a, b, r[k].time)
  BY DEF Covers
<1>2. Times(r) = Times(a) \cup Times(b)
  BY CoversMeans
<1>3. /\ DOMAIN r = 1 .. Len(r) /\ Len(r) \in Nat
      /\ \A k \in DOMAIN r : r[k].time \in Nat
      /\ \A k, l \in DOMAIN r : k < l => r[k].time < r[l].time
  BY <1>1 DEF Forward, Timed
<1>4. t \in Nat /\ t \in Times(a) \cup Times(b)
  BY <1>2, <1>3 DEF Times
<1>5. \A k \in DOMAIN r : r[k].state = (UpAt(a, r[k].time) /\ UpAt(b, r[k].time))
  <2> TAKE k \in DOMAIN r
  <2>1. Both(a, b, r[k].time).state = (UpAt(a, r[k].time) /\ UpAt(b, r[k].time))
    BY DEF Both
  <2> QED
    BY <1>1, <2>1
<1>6. UpAt(a, t) /\ UpAt(b, t)
  BY <1>5
<1> HIDE DEF t
<1>7. ASSUME NEW s, Proper(s), Times(s) \subseteq Times(r), t \in Times(s), UpAt(s, t)
      PROVE  IF i = 1 THEN t = 0
             ELSE r[i - 1].time \in Nat /\ ~ UpAt(s, r[i - 1].time)
  <2>1. PICK j \in DOMAIN s : s[j].time = t
    BY <1>7 DEF Times
  <2>2. Forward(s)
    BY <1>7 DEF Proper
  <2>3. s[j].state
    BY <1>7, <2>1, <2>2, EntryIsReached DEF UpAt
  <2>4. CASE i = 1
    <3>1. \A v \in Times(s) : t <= v
      BY <1>1, <1>2, <1>7, <2>4 DEF t
    <3>2. j = 1
      <4> SUFFICES ASSUME j # 1 PROVE FALSE
        OBVIOUS
      <4>1. 1 \in DOMAIN s /\ 1 < j /\ s[1].time \in Nat /\ s[j].time \in Nat
        BY <2>2 DEF Forward, Timed
      <4>2. s[1].time < s[j].time
        BY <2>2, <4>1 DEF Forward
      <4>3. s[1].time \in Times(s)
        BY <4>1 DEF Times
      <4> QED
        BY <2>1, <3>1, <4>1, <4>2, <4>3
    <3> QED
      BY <1>7, <2>1, <2>3, <2>4, <3>2 DEF Proper, NotRepeated
  <2>5. CASE i # 1
    <3> DEFINE u == r[i - 1].time
    <3>1. i - 1 \in DOMAIN r /\ i - 1 < i
      BY <1>3, <2>5
    <3>2. u \in Nat /\ u < t
      BY <1>3, <3>1 DEF t
    <3>3. \A v \in Times(r) : v < t => v <= u
      <4> SUFFICES ASSUME NEW k \in DOMAIN r, r[k].time < t PROVE r[k].time <= u
        BY DEF Times
      <4>1. k < i
        <5> SUFFICES ASSUME ~ (k < i) PROVE FALSE
          OBVIOUS
        <5>1. k = i \/ i < k
          BY <1>3
        <5>2. t <= r[k].time
          BY <1>3, <1>4, <5>1 DEF t
        <5> QED
          BY <1>3, <1>4, <5>2
      <4>2. k = i - 1 \/ k < i - 1
        BY <1>3, <4>1
      <4> QED
        BY <1>3, <3>1, <3>2, <4>2
    <3> HIDE DEF u
    <3>4. ~ UpAt(s, u)
      BY <1>7, <2>1, <2>3, <3>2, <3>3, UpEndsAnOutage
    <3> QED
      BY <2>5, <3>2, <3>4 DEF u
  <2> QED
    BY <2>4, <2>5
<1>8. CASE t \in Times(a)
  <2>1. IF i = 1 THEN t = 0 ELSE r[i - 1].time \in Nat /\ ~ UpAt(a, r[i - 1].time)
    BY <1>2, <1>6, <1>7, <1>8
  <2>2. i # 1 => i - 1 \in DOMAIN r
    BY <1>3
  <2> QED
    BY <1>5, <2>1, <2>2 DEF t
<1>9. CASE t \in Times(b)
  <2>1. IF i = 1 THEN t = 0 ELSE r[i - 1].time \in Nat /\ ~ UpAt(b, r[i - 1].time)
    BY <1>2, <1>6, <1>7, <1>9
  <2>2. i # 1 => i - 1 \in DOMAIN r
    BY <1>3
  <2> QED
    BY <1>5, <2>1, <2>2 DEF t
<1> QED
  BY <1>4, <1>8, <1>9

LEMMA FirstPlace ==
  ASSUME NEW a, Forward(a), a # <<>>, NEW b, Forward(b), b # <<>>
  PROVE  LET m == Min({a[1].time, b[1].time})
             at == [a |-> 1, b |-> 1, time |-> m]
         IN  /\ at \in Places(a, b) /\ m \in Nat
             /\ Reached(a, 1, m) /\ Reached(b, 1, m)
             /\ m \in Times(a) \cup Times(b) /\ \A v \in Times(a) \cup Times(b) : m <= v
<1> DEFINE m == Min({a[1].time, b[1].time})
<1>1. ASSUME NEW s, Forward(s), s # <<>>
      PROVE  /\ 1 \in DOMAIN s /\ s[1].time \in Nat
             /\ \A k \in DOMAIN s : s[1].time <= s[k].time /\ (s[k].time <= s[1].time => k <= 1)
  <2>1. Len(s) \in Nat \ {0} /\ DOMAIN s = 1 .. Len(s) /\ \A k \in DOMAIN s : s[k].time \in Nat
    BY <1>1 DEF Forward, Timed
  <2>2. 1 \in DOMAIN s
    BY <2>1
  <2>3. ASSUME NEW k \in DOMAIN s
        PROVE  s[1].time <= s[k].time /\ (s[k].time <= s[1].time => k <= 1)
    <3>1. k = 1 \/ 1 < k
      BY <2>1
    <3>2. 1 < k => s[1].time < s[k].time
      BY <1>1, <2>2 DEF Forward
    <3> QED
      BY <2>1, <2>2, <3>1, <3>2
  <2> QED
    BY <2>1, <2>2, <2>3
<1>2. /\ 1 \in DOMAIN a /\ a[1].time \in Nat
      /\ \A k \in DOMAIN a : a[1].time <= a[k].time /\ (a[k].time <= a[1].time => k <= 1)
  BY <1>1
<1>3. /\ 1 \in DOMAIN b /\ b[1].time \in Nat
      /\ \A k \in DOMAIN b : b[1].time <= b[k].time /\ (b[k].time <= b[1].time => k <= 1)
  BY <1>1
<1>4. m \in {a[1].time, b[1].time} /\ m <= a[1].time /\ m <= b[1].time
  BY <1>2, <1>3, MinOf
<1> HIDE DEF m
<1>5. m \in Nat
  BY <1>2, <1>3, <1>4
<1>6. [a |-> 1, b |-> 1, time |-> m] \in Places(a, b)
  BY <1>2, <1>3, <1>5 DEF Places
<1>7. Reached(a, 1, m)
  <2>1. \A k \in DOMAIN a : a[k].time \in Nat
    BY DEF Forward, Timed
  <2> QED
    BY <1>2, <1>4, <1>5, <2>1 DEF Reached
<1>8. Reached(b, 1, m)
  <2>1. \A k \in DOMAIN b : b[k].time \in Nat
    BY DEF Forward, Timed
  <2> QED
    BY <1>3, <1>4, <1>5, <2>1 DEF Reached
<1>9. m \in Times(a) \cup Times(b)
  BY <1>2, <1>3, <1>4 DEF Times
<1>10. ASSUME NEW v \in Times(a) \cup Times(b) PROVE m <= v
  <2>1. CASE v \in Times(a)
    <3>1. PICK k \in DOMAIN a : v = a[k].time
      BY <2>1 DEF Times
    <3>2. v \in Nat /\ a[1].time <= v
      BY <1>2, <3>1 DEF Forward, Timed
    <3> QED
      BY <1>2, <1>4, <1>5, <3>2
  <2>2. CASE v \in Times(b)
    <3>1. PICK k \in DOMAIN b : v = b[k].time
      BY <2>2 DEF Times
    <3>2. v \in Nat /\ b[1].time <= v
      BY <1>3, <3>1 DEF Forward, Timed
    <3> QED
      BY <1>3, <1>4, <1>5, <3>2
  <2> QED
    BY <2>1, <2>2
<1> QED
  BY <1>5, <1>6, <1>7, <1>8, <1>9, <1>10 DEF m

(* A combination of schedules has a component down when one of them has,   *)
(* for the causes of both, and can be combined again.                      *)
LEMMA CombineMeans ==
  ASSUME NEW a, Proper(a), NEW b, Proper(b)
  PROVE  /\ Proper(Combine(a, b))
         /\ Times(Combine(a, b)) = Times(a) \cup Times(b)
         /\ \A t \in Nat :
              /\ UpAt(Combine(a, b), t) <=> UpAt(a, t) /\ UpAt(b, t)
              /\ CausesAt(Combine(a, b), t) = CausesAt(a, t) \cup CausesAt(b, t)
<1> DEFINE r == Combine(a, b)
<1>1. /\ a \in Seq(TimeState) /\ Forward(a) /\ Honest(a) /\ Timed(a)
      /\ b \in Seq(TimeState) /\ Forward(b) /\ Honest(b) /\ Timed(b)
  BY DEF Proper, Forward
<1>2. ASSUME NEW s, s = <<>>
      PROVE  /\ Times(s) = {}
             /\ \A t \in Nat : UpAt(s, t) /\ CausesAt(s, t) = {}
  <2>1. Times(s) = {}
    BY <1>2 DEF Times
  <2> QED
    BY <2>1, BeforeTheFirst
<1>3. CASE a = <<>> \/ b = <<>>
  <2>1. r = a \o b
    BY <1>3 DEF Combine
  <2>2. CASE a = <<>>
    <3>1. r = b
      BY <1>1, <2>1, <2>2
    <3> HIDE DEF r
    <3> QED
      BY <1>2, <2>2, <3>1 DEF r
  <2>3. CASE b = <<>>
    <3>1. r = a
      BY <1>1, <2>1, <2>3
    <3> HIDE DEF r
    <3> QED
      BY <1>2, <2>3, <3>1 DEF r
  <2> QED
    BY <1>3, <2>2, <2>3
<1>4. CASE a # <<>> /\ b # <<>>
  <2> DEFINE m  == Min({a[1].time, b[1].time})
             at == [a |-> 1, b |-> 1, time |-> m]
             f  == CHOOSE g : Walks(g, a, b)
  <2>1. r = f[at]
    BY <1>4, CombineIs
  <2>2. /\ at \in Places(a, b) /\ m \in Nat
        /\ Reached(a, 1, m) /\ Reached(b, 1, m)
        /\ m \in Times(a) \cup Times(b) /\ \A v \in Times(a) \cup Times(b) : m <= v
    BY <1>1, <1>4, FirstPlace
  <2>3. PICK M \in Nat : (\A i \in DOMAIN a : a[i].time <= M) /\ (\A j \in DOMAIN b : b[j].time <= M)
    BY <1>1, TimesEnd
  <2>4. \E g : Walks(g, a, b)
    BY <1>1, <2>3, WalkExists
  <2>5. Walks(f, a, b)
    BY <2>4
  <2>6. at.a = 1 /\ at.b = 1 /\ at.time = m
    OBVIOUS
  <2> HIDE DEF m, at, f, r
  <2>7. Covers(r, a, b, m)
    BY <1>1, <2>1, <2>2, <2>3, <2>5, <2>6, WalkCovers
  <2>8. r \in Seq(TimeState) /\ Forward(r) /\ Honest(r)
    BY <2>7 DEF Covers
  <2>9. NotRepeated(r)
    BY <2>2, <2>7, CoversNotRepeated
  <2>10. /\ Times(r) = Times(a) \cup Times(b)
         /\ \A t \in Nat : /\ UpAt(r, t) <=> UpAt(a, t) /\ UpAt(b, t)
                          /\ CausesAt(r, t) = CausesAt(a, t) \cup CausesAt(b, t)
    BY <2>2, <2>7, CoversMeans
  <2> QED
    BY <2>8, <2>9, <2>10 DEF Proper, r
<1> QED
  BY <1>3, <1>4

LEMMA CombineType ==
  ASSUME NEW a \in Seq(TimeState), NEW b \in Seq(TimeState)
  PROVE  /\ Combine(a, b) \in Seq(TimeState)
         /\ Sorted(a) /\ Sorted(b) => Sorted(Combine(a, b))
<1>1. Timed(a) /\ Timed(b)
  BY SeqIsTimed
<1>2. CASE a = <<>> \/ b = <<>>
  <2>1. Combine(a, b) = a \o b
    BY <1>2 DEF Combine
  <2>2. Combine(a, b) = a \/ Combine(a, b) = b
    BY <1>2, <2>1
  <2> HIDE DEF Combine
  <2> QED
    BY <2>2
<1>3. CASE a # <<>> /\ b # <<>>
  <2> DEFINE m  == Min({a[1].time, b[1].time})
             at == [a |-> 1, b |-> 1, time |-> m]
             f  == CHOOSE g : Walks(g, a, b)
  <2>1. Combine(a, b) = f[at]
    BY <1>3, CombineIs
  <2>2. at \in Places(a, b)
    <3>1. 1 \in DOMAIN a /\ 1 \in DOMAIN b
      BY <1>3
    <3>2. a[1].time \in Nat /\ b[1].time \in Nat
      BY <1>1, <3>1 DEF Timed
    <3>3. m \in Nat
      BY <3>2, MinOf
    <3> HIDE DEF m
    <3> QED
      BY <3>1, <3>3 DEF Places
  <2>3. PICK M \in Nat : (\A i \in DOMAIN a : a[i].time <= M) /\ (\A j \in DOMAIN b : b[j].time <= M)
    BY <1>1, TimesEnd
  <2>4. \E g : Walks(g, a, b)
    BY <1>1, <2>3, WalkExists
  <2>5. Walks(f, a, b)
    BY <2>4
  <2> HIDE DEF m, at, f
  <2>6. Onward(f[at], at.time)
    BY <2>2, <2>3, <2>5, WalkType
  <2> QED
    BY <2>1, <2>6 DEF Onward
<1> QED
  BY <1>2, <1>3

-----------------------------------------------------------------------------
(* What TimeState_Clip makes of an entry it keeps.                         *)
Moved(e, start) == [e EXCEPT !.time = IF e.time < start THEN 0 ELSE e.time - start]

LEMMA SubSeqFacts ==
  ASSUME NEW S, NEW s \in Seq(S), NEW m \in DOMAIN s, NEW n \in DOMAIN s, m <= n
  PROVE  /\ SubSeq(s, m, n) \in Seq(S) /\ Len(SubSeq(s, m, n)) = n - m + 1
         /\ DOMAIN SubSeq(s, m, n) = 1 .. n - m + 1
         /\ \A k \in 1 .. n - m + 1 : SubSeq(s, m, n)[k] = s[m + k - 1]
BY SubSeqProperties

LEMMA MovedType ==
  ASSUME NEW e \in TimeState, NEW start \in Int
  PROVE  /\ Moved(e, start) \in TimeState
         /\ Moved(e, start).time = IF e.time < start THEN 0 ELSE e.time - start
         /\ Moved(e, start).state = e.state /\ Moved(e, start).causes = e.causes
         /\ e.time >= start => Moved(e, start) = [e EXCEPT !.time = @ - start]
         /\ e.time < start =>
              Moved(e, start) = [[e EXCEPT !.time = start] EXCEPT !.time = @ - start]
<1>1. e.time \in Nat /\ e.state \in BOOLEAN /\ e.causes \in SUBSET Cause
  BY DEF TimeState
<1>2. \A n : [e EXCEPT !.time = n] = [time |-> n, state |-> e.state, causes |-> e.causes]
  BY DEF TimeState
<1> DEFINE n == IF e.time < start THEN 0 ELSE e.time - start
<1>3. Moved(e, start) = [time |-> n, state |-> e.state, causes |-> e.causes]
  BY <1>2 DEF Moved
<1>4. n \in Nat
  BY <1>1
<1>5. [e EXCEPT !.time = @ - start] = [time |-> e.time - start, state |-> e.state, causes |-> e.causes]
  BY <1>2
<1>6. [[e EXCEPT !.time = start] EXCEPT !.time = @ - start] =
        [time |-> 0, state |-> e.state, causes |-> e.causes]
  <2> DEFINE g == [e EXCEPT !.time = start]
  <2>1. g = [time |-> start, state |-> e.state, causes |-> e.causes]
    BY <1>2
  <2> HIDE DEF g
  <2>2. [g EXCEPT !.time = @ - start] = [time |-> start - start, state |-> e.state, causes |-> e.causes]
    BY <2>1
  <2> QED
    BY <2>2 DEF g
<1>7. /\ e.time >= start => n = e.time - start
      /\ e.time < start => n = 0
  BY <1>1
<1> HIDE DEF n
<1>8. Moved(e, start) \in TimeState
  BY <1>1, <1>3, <1>4 DEF TimeState
<1> QED
  BY <1>3, <1>5, <1>6, <1>7, <1>8 DEF n

LEMMA ClipIs ==
  ASSUME NEW s \in Seq(TimeState), Sorted(s), NEW start \in Int, NEW end \in Int,
         NEW i \in DOMAIN s, s[i].time \in start .. end
  PROVE  \E q, z \in DOMAIN s :
           /\ q <= z /\ s[z].time \in start .. end
           /\ s[q].time <= start \/ (q = 1 /\ s[q].time \in start .. end)
           /\ \A k \in DOMAIN s :
                /\ k < q => s[k].time < start
                /\ q < k /\ k <= z => s[k].time \in start .. end
                /\ k = q + 1 /\ s[q].time < start => s[k].time > start
                /\ z < k => s[k].time > end
           /\ Clip(s, start, end) \in [1 .. z - q + 1 -> TimeState]
           /\ \A k \in 1 .. z - q + 1 : Clip(s, start, end)[k] = Moved(s[q + k - 1], start)
<1> DEFINE before == {k \in DOMAIN s : s[k].time < start}
           within == {k \in DOMAIN s : s[k].time \in start .. end}
           m      == Min(within)
           z      == Max(within)
           first  == IF before # {} /\ s[m].time > start
                       THEN <<[s[Max(before)] EXCEPT !.time = start]>> ELSE <<>>
           part   == SubSeq(s, m, z)
           kept   == first \o part
<1>1. /\ Len(s) \in Nat /\ DOMAIN s = 1 .. Len(s)
      /\ \A k \in DOMAIN s : s[k] \in TimeState /\ s[k].time \in Nat
  BY SeqIsTimed DEF Timed
<1>2. i \in within /\ within \subseteq Nat /\ \A k \in within : k <= Len(s)
  BY <1>1
<1>3. m \in within /\ z \in within /\ \A k \in within : m <= k /\ k <= z
  <2> HIDE DEF within
  <2> QED
    BY <1>1, <1>2, MinOf, MaxOf
<1>4. m \in DOMAIN s /\ z \in DOMAIN s /\ m <= z /\ s[m].time \in start .. end /\ s[z].time \in start .. end
  BY <1>3
<1>5. \A k \in DOMAIN s : k \in within <=> s[k].time \in start .. end
  OBVIOUS
<1>6. Clip(s, start, end) = [k \in DOMAIN kept |-> [kept[k] EXCEPT !.time = @ - start]]
  BY <1>2 DEF Clip
<1> HIDE DEF within, m, z
<1>7. ASSUME NEW k \in DOMAIN s
      PROVE  /\ k < m => s[k].time < start
             /\ m <= k /\ k <= z => s[k].time \in start .. end
             /\ z < k => s[k].time > end
  <2>1. k < m => s[k].time < start
    <3> SUFFICES ASSUME k < m PROVE s[k].time < start
      OBVIOUS
    <3>1. s[k].time <= s[m].time
      BY <1>1, <1>4 DEF Sorted
    <3>2. k \notin within
      BY <1>1, <1>3, <1>4
    <3> QED
      BY <1>1, <1>4, <1>5, <3>1, <3>2
  <2>2. m <= k /\ k <= z => s[k].time \in start .. end
    <3> SUFFICES ASSUME m <= k, k <= z PROVE s[k].time \in start .. end
      OBVIOUS
    <3>1. s[m].time <= s[k].time /\ s[k].time <= s[z].time
      BY <1>1, <1>4 DEF Sorted
    <3> QED
      BY <1>1, <1>4, <3>1
  <2>3. z < k => s[k].time > end
    <3> SUFFICES ASSUME z < k PROVE s[k].time > end
      OBVIOUS
    <3>1. s[z].time <= s[k].time
      BY <1>1, <1>4 DEF Sorted
    <3>2. k \notin within
      BY <1>1, <1>3, <1>4
    <3> QED
      BY <1>1, <1>4, <1>5, <3>1, <3>2
  <2> QED
    BY <2>1, <2>2, <2>3
<1>8. /\ part \in Seq(TimeState) /\ Len(part) = z - m + 1
      /\ DOMAIN part = 1 .. z - m + 1
      /\ \A k \in 1 .. z - m + 1 : part[k] = s[m + k - 1]
  BY <1>4, SubSeqFacts
<1>9. /\ m \in Nat /\ z \in Nat /\ 1 <= m /\ m <= z /\ z <= Len(s)
       /\ Len(s) \in Nat /\ DOMAIN s = 1 .. Len(s)
  BY <1>1, <1>4
<1>10. CASE before # {} /\ s[m].time > start
  <2> DEFINE q == m - 1
             e == [s[q] EXCEPT !.time = start]
  <2>1. \A k \in DOMAIN s : s[k].time < start => k < m
    <3> SUFFICES ASSUME NEW k \in DOMAIN s, ~ (k < m) PROVE ~ (s[k].time < start)
      OBVIOUS
    <3>1. s[m].time <= s[k].time
      BY <1>1, <1>4 DEF Sorted
    <3> QED
      BY <1>1, <1>4, <3>1
  <2>2. PICK k \in DOMAIN s : s[k].time < start
    BY <1>10
  <2>3. q \in DOMAIN s /\ q <= z /\ q + 1 = m
    <3>1. k < m /\ k \in 1 .. Len(s)
      BY <1>9, <2>1, <2>2
    <3> QED
      BY <1>9, <3>1
  <2>4. s[q].time < start
    BY <1>1, <1>4, <1>7, <2>3
  <2>5. Max(before) = q
    <3>1. \A l \in before : l <= q
      BY <1>1, <1>4, <2>1
    <3>2. before \subseteq Int /\ q \in before
      BY <1>1, <2>3, <2>4
    <3> HIDE DEF before, q
    <3> QED
      BY <3>1, <3>2, MaxIs
  <2>6. kept = <<e>> \o part
    BY <1>10, <2>5
  <2>7. e \in TimeState
    <3>1. start \in Nat
      BY <1>1, <2>3, <2>4
    <3> QED
      BY <1>1, <2>3, <3>1 DEF TimeState
  <2> HIDE DEF e, kept, part, q
  <2>8. /\ DOMAIN kept = 1 .. z - q + 1 /\ kept[1] = e
        /\ \A l \in 1 .. z - m + 1 : kept[l + 1] = part[l]
    BY <1>1, <1>4, <1>8, <2>3, <2>6, <2>7, ConsFacts
  <2>9. ASSUME NEW l \in 1 .. z - q + 1
        PROVE  [kept[l] EXCEPT !.time = @ - start] = Moved(s[q + l - 1], start)
    <3>1. CASE l = 1
      <4>1. kept[l] = [s[q] EXCEPT !.time = start] /\ q + l - 1 = q
        BY <1>1, <2>3, <2>8, <3>1 DEF e
      <4>2. Moved(s[q], start) = [[s[q] EXCEPT !.time = start] EXCEPT !.time = @ - start]
        BY <1>1, <2>3, <2>4, MovedType
      <4> QED
        BY <4>1, <4>2
    <3>2. CASE l # 1
      <4>1. l - 1 \in 1 .. z - m + 1 /\ (l - 1) + 1 = l /\ m + (l - 1) - 1 = q + l - 1
        <5>1. q = m - 1 /\ l \in 1 .. z - (m - 1) + 1
          BY DEF q
        <5> QED
          BY <1>9, <3>2, <5>1
      <4>2. kept[l] = s[q + l - 1]
        BY <1>8, <2>8, <4>1
      <4>3. q + l - 1 \in DOMAIN s /\ m <= q + l - 1 /\ q + l - 1 <= z
        BY <1>1, <1>4, <2>3, <3>2
      <4>4. s[q + l - 1].time >= start
        BY <1>1, <1>7, <4>3
      <4>5. Moved(s[q + l - 1], start) = [s[q + l - 1] EXCEPT !.time = @ - start]
        BY <1>1, <4>3, <4>4, MovedType
      <4> QED
        BY <4>2, <4>5
    <3> QED
      BY <3>1, <3>2
  <2>10. /\ Clip(s, start, end) \in [1 .. z - q + 1 -> TimeState]
         /\ \A l \in 1 .. z - q + 1 : Clip(s, start, end)[l] = Moved(s[q + l - 1], start)
    <3> DEFINE n == z - q + 1
               g(l) == Moved(s[q + l - 1], start)
    <3>1. \A l \in 1 .. n : g(l) \in TimeState
      <4> TAKE l \in 1 .. n
      <4>1. q + l - 1 \in DOMAIN s
        BY <1>9, <2>3
      <4> QED
        BY <1>1, <4>1, MovedType
    <3>2. \A l \in 1 .. n : [kept[l] EXCEPT !.time = @ - start] = g(l)
      BY <2>9
    <3>3. DOMAIN kept = 1 .. n
      BY <2>8
    <3> HIDE DEF n, g
    <3>4. Clip(s, start, end) = [l \in 1 .. n |-> g(l)]
      BY <1>6, <3>2, <3>3
    <3>5. Clip(s, start, end) \in [1 .. n -> TimeState] /\ \A l \in 1 .. n : Clip(s, start, end)[l] = g(l)
      BY <3>1, <3>4
    <3> QED
      BY <3>5 DEF n, g
  <2>11. ASSUME NEW l \in DOMAIN s
         PROVE  /\ l < q => s[l].time < start
                /\ q < l /\ l <= z => s[l].time \in start .. end
                /\ l = q + 1 /\ s[q].time < start => s[l].time > start
                /\ z < l => s[l].time > end
    <3>1. (l < q => l < m) /\ (q < l => m <= l) /\ (l = q + 1 => l = m)
      BY <1>1, <1>4, <2>3
    <3> QED
      BY <1>7, <1>10, <3>1
  <2>12. s[q].time <= start
    BY <1>1, <2>3, <2>4
  <2> QED
    BY <1>4, <2>3, <2>10, <2>11, <2>12
<1>11. CASE ~ (before # {} /\ s[m].time > start)
  <2>1. kept = part
    <3>1. kept = <<>> \o part
      BY <1>11
    <3> HIDE DEF kept, part
    <3> QED
      BY <1>8, <3>1
  <2> HIDE DEF kept, part
  <2>2. ASSUME NEW l \in 1 .. z - m + 1
        PROVE  [kept[l] EXCEPT !.time = @ - start] = Moved(s[m + l - 1], start)
    <3>1. m + l - 1 \in DOMAIN s /\ m <= m + l - 1 /\ m + l - 1 <= z
      BY <1>1, <1>4
    <3>2. s[m + l - 1].time >= start
      BY <1>1, <1>7, <3>1
    <3>3. kept[l] = s[m + l - 1]
      BY <1>8, <2>1
    <3>4. Moved(s[m + l - 1], start) = [s[m + l - 1] EXCEPT !.time = @ - start]
      BY <1>1, <3>1, <3>2, MovedType
    <3> QED
      BY <3>3, <3>4
  <2>3. /\ Clip(s, start, end) \in [1 .. z - m + 1 -> TimeState]
         /\ \A l \in 1 .. z - m + 1 : Clip(s, start, end)[l] = Moved(s[m + l - 1], start)
    <3> DEFINE n == z - m + 1
               g(l) == Moved(s[m + l - 1], start)
    <3>1. \A l \in 1 .. n : g(l) \in TimeState
      <4> TAKE l \in 1 .. n
      <4>1. m + l - 1 \in DOMAIN s
        BY <1>9
      <4> QED
        BY <1>1, <4>1, MovedType
    <3>2. \A l \in 1 .. n : [kept[l] EXCEPT !.time = @ - start] = g(l)
      BY <2>2
    <3>3. DOMAIN kept = 1 .. n
      BY <1>8, <2>1
    <3> HIDE DEF n, g
    <3>4. Clip(s, start, end) = [l \in 1 .. n |-> g(l)]
      BY <1>6, <3>2, <3>3
    <3>5. Clip(s, start, end) \in [1 .. n -> TimeState] /\ \A l \in 1 .. n : Clip(s, start, end)[l] = g(l)
      BY <3>1, <3>4
    <3> QED
      BY <3>5 DEF n, g
  <2>4. s[m].time <= start \/ (m = 1 /\ s[m].time \in start .. end)
    <3>1. CASE s[m].time > start
      <4>1. \A k \in DOMAIN s : ~ (s[k].time < start)
        BY <1>11, <3>1
      <4>2. ~ (1 < m)
        <5> SUFFICES ASSUME 1 < m PROVE FALSE
          OBVIOUS
        <5>1. 1 \in DOMAIN s
          BY <1>1, <1>4
        <5> QED
          BY <1>7, <4>1, <5>1
      <4> QED
        BY <1>1, <1>4, <4>2
    <3>2. CASE ~ (s[m].time > start)
      BY <1>1, <1>4, <3>2
    <3> QED
      BY <3>1, <3>2
  <2>5. ASSUME NEW l \in DOMAIN s
        PROVE  /\ l < m => s[l].time < start
               /\ m < l /\ l <= z => s[l].time \in start .. end
               /\ l = m + 1 /\ s[m].time < start => s[l].time > start
               /\ z < l => s[l].time > end
    BY <1>1, <1>4, <1>7
  <2> QED
    BY <1>4, <2>3, <2>4, <2>5
<1> QED
  BY <1>10, <1>11

LEMMA ClipOfNone ==
  ASSUME NEW s, NEW start, NEW end, \A i \in DOMAIN s : ~ (s[i].time \in start .. end)
  PROVE  Clip(s, start, end) = <<>>
<1>1. {i \in DOMAIN s : s[i].time \in start .. end} = {}
  OBVIOUS
<1> QED
  BY <1>1 DEF Clip

LEMMA ArrayIsSeq ==
  ASSUME NEW S, NEW n \in Nat, NEW f \in [1 .. n -> S]
  PROVE  f \in Seq(S) /\ Len(f) = n /\ DOMAIN f = 1 .. n
<1>1. f \in Seq(S) /\ DOMAIN f = 1 .. n
  OBVIOUS
<1> QED
  BY <1>1, LenProperties

LEMMA ClipParts ==
  ASSUME NEW s \in Seq(TimeState), NEW start \in Int, NEW q \in DOMAIN s, NEW z \in DOMAIN s,
         q <= z, NEW r \in [1 .. z - q + 1 -> TimeState],
         \A k \in 1 .. z - q + 1 : r[k] = Moved(s[q + k - 1], start)
  PROVE  /\ r \in Seq(TimeState) /\ r # <<>>
         /\ Len(r) = z - q + 1 /\ DOMAIN r = 1 .. z - q + 1
         /\ Len(s) \in Nat /\ DOMAIN s = 1 .. Len(s) /\ q \in 1 .. Len(s) /\ z \in 1 .. Len(s)
         /\ \A i \in DOMAIN s : s[i] \in TimeState /\ s[i].time \in Nat
         /\ \A k \in DOMAIN r :
              /\ q + k - 1 \in DOMAIN s
              /\ r[k].time = IF s[q + k - 1].time < start THEN 0 ELSE s[q + k - 1].time - start
              /\ r[k].time \in Nat
              /\ r[k].state = s[q + k - 1].state /\ r[k].causes = s[q + k - 1].causes
<1>1. /\ Len(s) \in Nat /\ DOMAIN s = 1 .. Len(s) /\ q \in 1 .. Len(s) /\ z \in 1 .. Len(s)
      /\ \A i \in DOMAIN s : s[i] \in TimeState /\ s[i].time \in Nat
  BY SeqIsTimed DEF Timed
<1>2. z - q + 1 \in Nat \ {0}
  BY <1>1
<1>3. r \in Seq(TimeState) /\ Len(r) = z - q + 1 /\ DOMAIN r = 1 .. z - q + 1
  <2> DEFINE n == z - q + 1
  <2>1. n \in Nat /\ r \in [1 .. n -> TimeState]
    BY <1>2
  <2> HIDE DEF n
  <2>2. r \in Seq(TimeState) /\ Len(r) = n /\ DOMAIN r = 1 .. n
    BY <2>1, ArrayIsSeq
  <2> QED
    BY <2>2 DEF n
<1>4. ASSUME NEW k \in DOMAIN r
      PROVE  /\ q + k - 1 \in DOMAIN s
             /\ r[k].time = IF s[q + k - 1].time < start THEN 0 ELSE s[q + k - 1].time - start
             /\ r[k].time \in Nat
             /\ r[k].state = s[q + k - 1].state /\ r[k].causes = s[q + k - 1].causes
  <2>1. q + k - 1 \in DOMAIN s
    BY <1>1, <1>3
  <2>2. r[k] = Moved(s[q + k - 1], start)
    BY <1>3
  <2>3. \A e \in TimeState : e.time \in Nat
    BY DEF TimeState
  <2> DEFINE e == s[q + k - 1]
  <2>4. e \in TimeState
    BY <1>1, <2>1
  <2>5. r[k] = Moved(e, start)
    BY <2>2
  <2> HIDE DEF e
  <2>6. /\ Moved(e, start) \in TimeState
        /\ Moved(e, start).time = IF e.time < start THEN 0 ELSE e.time - start
        /\ Moved(e, start).state = e.state /\ Moved(e, start).causes = e.causes
    BY <2>4, MovedType
  <2> QED
    BY <2>1, <2>3, <2>5, <2>6 DEF e
<1>5. r # <<>>
  BY <1>2, <1>3
<1> QED
  BY <1>1, <1>3, <1>4, <1>5

LEMMA ClipType ==
  ASSUME NEW s \in Seq(TimeState), Sorted(s), NEW start \in Int, NEW end \in Int
  PROVE  Clip(s, start, end) \in Seq(TimeState)
<1>1. CASE \A i \in DOMAIN s : ~ (s[i].time \in start .. end)
  <2>1. Clip(s, start, end) = <<>>
    BY <1>1, ClipOfNone
  <2> QED
    BY <2>1
<1>2. CASE \E i \in DOMAIN s : s[i].time \in start .. end
  <2>1. PICK q \in DOMAIN s : \E z \in DOMAIN s :
          /\ q <= z /\ Clip(s, start, end) \in [1 .. z - q + 1 -> TimeState]
          /\ \A k \in 1 .. z - q + 1 : Clip(s, start, end)[k] = Moved(s[q + k - 1], start)
    BY <1>2, ClipIs
  <2>2. PICK z \in DOMAIN s :
          /\ q <= z /\ Clip(s, start, end) \in [1 .. z - q + 1 -> TimeState]
          /\ \A k \in 1 .. z - q + 1 : Clip(s, start, end)[k] = Moved(s[q + k - 1], start)
    BY <2>1
  <2> DEFINE n == z - q + 1
  <2>3. n \in Nat
    BY <2>2
  <2> HIDE DEF n
  <2>4. Clip(s, start, end) \in [1 .. n -> TimeState]
    BY <2>2 DEF n
  <2> QED
    BY <2>3, <2>4, ArrayIsSeq
<1> QED
  BY <1>1, <1>2

(* The part of a schedule from a time on says of every moment what the     *)
(* whole schedule said, if it is not empty or starts with being up.        *)
LEMMA ClipMeans ==
  ASSUME NEW s, Proper(s), NEW start \in Nat, NEW end \in Nat, start <= end,
         (\E i \in DOMAIN s : s[i].time \in start .. end) \/ UpAt(s, start)
  PROVE  /\ Proper(Clip(s, start, end))
         /\ \A v \in Times(Clip(s, start, end)) : v <= end - start
         /\ \A t \in 0 .. end - start :
              /\ UpAt(Clip(s, start, end), t) <=> UpAt(s, start + t)
              /\ CausesAt(Clip(s, start, end), t) = CausesAt(s, start + t)
<1> DEFINE r == Clip(s, start, end)
<1>1. s \in Seq(TimeState) /\ Forward(s) /\ Honest(s) /\ NotRepeated(s)
  BY DEF Proper
<1>2. CASE \A i \in DOMAIN s : ~ (s[i].time \in start .. end)
  <2>1. r = <<>>
    BY <1>2, ClipOfNone
  <2> HIDE DEF r
  <2>2. Proper(r) /\ Times(r) = {}
    BY <2>1 DEF Proper, Forward, Timed, Honest, NotRepeated, Times
  <2>3. ASSUME NEW t \in 0 .. end - start
        PROVE  /\ UpAt(r, t) <=> UpAt(s, start + t)
               /\ CausesAt(r, t) = CausesAt(s, start + t)
    <3>1. UpAt(r, t) /\ CausesAt(r, t) = {}
      BY <2>2, BeforeTheFirst
    <3>2. \A v \in Times(s) : v <= start \/ start + t < v
      BY <1>1, <1>2 DEF Times, Forward, Timed
    <3>3. (UpAt(s, start + t) <=> UpAt(s, start)) /\ CausesAt(s, start + t) = CausesAt(s, start)
      BY <1>1, <3>2, NoChange
    <3>4. UpAt(s, start)
      BY <1>2
    <3>5. CausesAt(s, start) = {}
      <4> DEFINE past == {i \in DOMAIN s : s[i].time <= start}
      <4>1. CASE past = {}
        BY <4>1 DEF CausesAt, StateAt, Up
      <4>2. CASE past # {}
        <5>1. past \subseteq Nat /\ Len(s) \in Nat /\ \A i \in past : i <= Len(s)
          BY <1>1 DEF Forward, Timed
        <5>2. Max(past) \in past
          <6> HIDE DEF past
          <6> QED
            BY <4>2, <5>1, MaxOf
        <5>3. StateAt(s, start) = s[Max(past)]
          BY <4>2 DEF StateAt
        <5> QED
          BY <1>1, <3>4, <5>2, <5>3 DEF UpAt, CausesAt, Honest
      <4> QED
        BY <4>1, <4>2
    <3> QED
      BY <3>1, <3>3, <3>4, <3>5
  <2> QED
    BY <2>2, <2>3 DEF r
<1>3. CASE \E i \in DOMAIN s : s[i].time \in start .. end
  <2>1. Sorted(s)
    <3> SUFFICES ASSUME NEW i \in DOMAIN s, NEW j \in DOMAIN s, i <= j
                 PROVE  s[i].time <= s[j].time
      BY DEF Sorted
    <3>1. i = j \/ i < j
      BY <1>1 DEF Forward, Timed
    <3> QED
      BY <1>1, <3>1 DEF Forward, Timed
  <2> DEFINE Parts(q, z) ==
               /\ q <= z /\ s[z].time \in start .. end
               /\ s[q].time <= start \/ (q = 1 /\ s[q].time \in start .. end)
               /\ \A k \in DOMAIN s :
                    /\ k < q => s[k].time < start
                    /\ q < k /\ k <= z => s[k].time \in start .. end
                    /\ k = q + 1 /\ s[q].time < start => s[k].time > start
                    /\ z < k => s[k].time > end
               /\ r \in [1 .. z - q + 1 -> TimeState]
               /\ \A k \in 1 .. z - q + 1 : r[k] = Moved(s[q + k - 1], start)
  <2>2. \E q, z \in DOMAIN s : Parts(q, z)
    <3>1. start \in Int /\ end \in Int
      OBVIOUS
    <3> QED
      BY <1>1, <1>3, <2>1, <3>1, ClipIs
  <2> HIDE DEF Parts, r
  <2>3. PICK q \in DOMAIN s : \E z \in DOMAIN s : Parts(q, z)
    BY <2>2
  <2>4. PICK z \in DOMAIN s : Parts(q, z)
    BY <2>3
  <2>5. /\ r \in Seq(TimeState) /\ r # <<>>
        /\ Len(r) = z - q + 1 /\ DOMAIN r = 1 .. z - q + 1
        /\ Len(s) \in Nat /\ DOMAIN s = 1 .. Len(s) /\ q \in 1 .. Len(s) /\ z \in 1 .. Len(s)
        /\ \A i \in DOMAIN s : s[i] \in TimeState /\ s[i].time \in Nat
        /\ \A k \in DOMAIN r :
             /\ q + k - 1 \in DOMAIN s
             /\ r[k].time = IF s[q + k - 1].time < start THEN 0 ELSE s[q + k - 1].time - start
             /\ r[k].time \in Nat
             /\ r[k].state = s[q + k - 1].state /\ r[k].causes = s[q + k - 1].causes
    <3>1. /\ q <= z /\ r \in [1 .. z - q + 1 -> TimeState]
          /\ \A k \in 1 .. z - q + 1 : r[k] = Moved(s[q + k - 1], start)
      BY <2>4 DEF Parts
    <3>2. start \in Int
      OBVIOUS
    <3> QED
      BY <1>1, <3>1, <3>2, ClipParts
  <2>6. /\ q <= z /\ s[z].time \in start .. end
        /\ s[q].time <= start \/ (q = 1 /\ s[q].time \in start .. end)
        /\ \A k \in DOMAIN s :
             /\ k < q => s[k].time < start
             /\ q < k /\ k <= z => s[k].time \in start .. end
             /\ k = q + 1 /\ s[q].time < start => s[k].time > start
             /\ z < k => s[k].time > end
    BY <2>4 DEF Parts
  <2>7. Forward(r)
    <3> SUFFICES ASSUME NEW k \in DOMAIN r, NEW l \in DOMAIN r, k < l
                 PROVE  r[k].time < r[l].time
      BY <2>5 DEF Forward, Timed
    <3> DEFINE i == q + k - 1
               j == q + l - 1
    <3>1. /\ i \in DOMAIN s /\ j \in DOMAIN s /\ i < j /\ q < j /\ j <= z
          /\ s[i].time \in Nat /\ s[j].time \in Nat
      BY <2>5
    <3>2. s[i].time < s[j].time
      BY <1>1, <3>1 DEF Forward
    <3>3. /\ r[k].time = IF s[i].time < start THEN 0 ELSE s[i].time - start
          /\ r[l].time = IF s[j].time < start THEN 0 ELSE s[j].time - start
      BY <2>5
    <3>4. s[j].time \in start .. end
      BY <2>6, <3>1
    <3>5. s[i].time < start => s[j].time > start
      <4> SUFFICES ASSUME s[i].time < start PROVE s[j].time > start
        OBVIOUS
      <4>1. i = q \/ (q < i /\ i <= z)
        BY <2>5, <3>1
      <4>2. i = q
        BY <2>6, <3>1, <4>1
      <4>3. q + 1 \in DOMAIN s /\ q + 1 <= j
        <5>1. q < j /\ q \in 1 .. Len(s) /\ j \in 1 .. Len(s) /\ Len(s) \in Nat /\ DOMAIN s = 1 .. Len(s)
          BY <2>5, <3>1
        <5> HIDE DEF j
        <5> QED
          BY <5>1
      <4>4. s[q + 1].time > start
        BY <2>6, <4>2, <4>3
      <4>5. s[q + 1].time <= s[j].time
        BY <2>1, <3>1, <4>3 DEF Sorted
      <4>6. s[q + 1].time \in Nat
        BY <2>5, <4>3
      <4> QED
        BY <3>1, <4>4, <4>5, <4>6
    <3> HIDE DEF i, j
    <3> QED
      BY <3>1, <3>2, <3>3, <3>4, <3>5
  <2>8. Honest(r)
    <3>1. \A k \in DOMAIN r : r[k] \in TimeState
      BY <2>5
    <3> QED
      BY <1>1, <2>5, <3>1 DEF Honest
  <2>9. NotRepeated(r)
    <3> SUFFICES ASSUME NEW k \in DOMAIN r, r[k].state
                 PROVE  IF k = 1 THEN r[k].time = 0 ELSE ~ r[k - 1].state
      BY DEF NotRepeated
    <3>1. CASE k = 1
      <4>1. q + k - 1 = q
        BY <2>5, <3>1
      <4>2. s[q].state /\ r[k].time = IF s[q].time < start THEN 0 ELSE s[q].time - start
        BY <2>5, <4>1
      <4>3. CASE s[q].time <= start
        BY <2>5, <3>1, <4>2, <4>3
      <4>4. CASE q = 1 /\ s[q].time \in start .. end
        <5>1. s[q].time = 0
          BY <1>1, <4>2, <4>4 DEF NotRepeated
        <5> QED
          BY <3>1, <4>2, <4>4, <5>1
      <4> QED
        BY <2>6, <4>3, <4>4
    <3>2. CASE k # 1
      <4> DEFINE i == q + k - 1
      <4>1. k - 1 \in DOMAIN r /\ i \in DOMAIN s /\ i # 1 /\ q + (k - 1) - 1 = i - 1
        BY <2>5, <3>2
      <4>2. s[i].state
        BY <2>5
      <4>3. ~ s[i - 1].state
        BY <1>1, <4>1, <4>2 DEF NotRepeated
      <4>4. r[k - 1].state = s[i - 1].state
        BY <2>5, <4>1
      <4> QED
        BY <3>2, <4>3, <4>4
    <3> QED
      BY <3>1, <3>2
  <2>10. ASSUME NEW v \in Times(r) PROVE v <= end - start
    <3>1. PICK k \in DOMAIN r : v = r[k].time
      BY DEF Times
    <3>2. /\ q + k - 1 \in DOMAIN s /\ s[q + k - 1].time \in Nat
          /\ q + k - 1 = q \/ (q < q + k - 1 /\ q + k - 1 <= z)
          /\ v = IF s[q + k - 1].time < start THEN 0 ELSE s[q + k - 1].time - start
      BY <2>5, <3>1
    <3>3. s[q + k - 1].time <= end
      BY <2>6, <3>2
    <3> QED
      BY <3>2, <3>3
  <2>11. ASSUME NEW t \in 0 .. end - start
         PROVE  /\ UpAt(r, t) <=> UpAt(s, start + t)
                /\ CausesAt(r, t) = CausesAt(s, start + t)
    <3> DEFINE u == start + t
    <3>1. u \in Nat /\ start <= u /\ u <= end /\ t \in Nat /\ s # <<>>
      BY <2>5
    <3>2. PICK i \in DOMAIN s : Reached(s, i, u)
      BY <1>1, <3>1, SomethingIsReached
    <3>3. StateAt(s, u) = IF s[i].time <= u THEN s[i] ELSE Up(u)
      BY <1>1, <3>1, <3>2, ReachedState
    <3>4. /\ \A k \in DOMAIN s : s[k].time <= u => k <= i
          /\ s[i].time > u => i = 1
      BY <3>2 DEF Reached
    <3>5. CASE s[i].time <= u
      <4>1. q <= i /\ i <= z
        <5>1. s[q].time \in Nat /\ s[i].time \in Nat
          BY <2>5
        <5>2. q <= i
          BY <2>5, <2>6, <3>1, <3>4, <5>1
        <5>3. ~ (z < i)
          BY <2>6, <3>1, <3>5, <5>1
        <5> QED
          BY <2>5, <5>2, <5>3
      <4> DEFINE k == i - q + 1
      <4>2. k \in DOMAIN r /\ q + k - 1 = i
        BY <2>5, <4>1
      <4>3. r[k].time = (IF s[i].time < start THEN 0 ELSE s[i].time - start)
            /\ r[k].state = s[i].state /\ r[k].causes = s[i].causes /\ r[k].time \in Nat
        BY <2>5, <4>2
      <4>4. r[k].time <= t
        BY <2>5, <3>1, <3>5, <4>3
      <4>5. ASSUME NEW l \in DOMAIN r, r[l].time <= t PROVE l <= k
        <5>1. /\ q + l - 1 \in DOMAIN s /\ s[q + l - 1].time \in Nat
              /\ r[l].time = IF s[q + l - 1].time < start THEN 0 ELSE s[q + l - 1].time - start
          BY <2>5
        <5>2. s[q + l - 1].time <= u
          BY <3>1, <4>5, <5>1
        <5>3. q + l - 1 <= i
          BY <3>4, <5>1, <5>2
        <5> QED
          BY <2>5, <5>3
      <4> HIDE DEF k
      <4>6. Reached(r, k, t)
        BY <3>1, <4>2, <4>3, <4>4, <4>5 DEF Reached
      <4>7. StateAt(r, t) = r[k]
        BY <2>7, <3>1, <4>4, <4>6, ReachedState
      <4>8. StateAt(s, u) = s[i]
        BY <3>3, <3>5
      <4> QED
        BY <4>3, <4>7, <4>8 DEF UpAt, CausesAt
    <3>6. CASE ~ (s[i].time <= u)
      <4>1. i = 1 /\ s[1].time > u
        BY <2>5, <3>1, <3>4, <3>6
      <4>2. \A k \in DOMAIN s : s[k].time > u
        <5> TAKE k \in DOMAIN s
        <5>1. s[k].time \in Nat /\ ~ (s[k].time <= u)
          BY <2>5, <3>4, <4>1
        <5> QED
          BY <3>1, <5>1
      <4>3. \A v \in Times(r) : ~ (v <= t)
        <5> SUFFICES ASSUME NEW k \in DOMAIN r PROVE ~ (r[k].time <= t)
          BY DEF Times
        <5>1. /\ q + k - 1 \in DOMAIN s /\ s[q + k - 1].time \in Nat
              /\ r[k].time = IF s[q + k - 1].time < start THEN 0 ELSE s[q + k - 1].time - start
          BY <2>5
        <5>2. s[q + k - 1].time > u
          BY <4>2, <5>1
        <5> QED
          BY <3>1, <5>1, <5>2
      <4>4. UpAt(r, t) /\ CausesAt(r, t) = {}
        BY <3>1, <4>3, BeforeTheFirst
      <4>5. \A v \in Times(s) : ~ (v <= u)
        BY <2>5, <3>1, <4>2 DEF Times
      <4>6. UpAt(s, u) /\ CausesAt(s, u) = {}
        BY <3>1, <4>5, BeforeTheFirst
      <4> QED
        BY <4>4, <4>6
    <3> QED
      BY <3>5, <3>6
  <2> QED
    BY <2>5, <2>7, <2>8, <2>9, <2>10, <2>11 DEF Proper, r
<1> QED
  BY <1>2, <1>3

-----------------------------------------------------------------------------
(* The kinds of values: what is known of the schedules whatever the        *)
(* distributions give is that they never go back in time, so that those of *)
(* an occurrence start no earlier than it does.                            *)
Phases == {"open", "scenario", "starts", "occurrence", "failures", "fragilities",
           "done", "stopped", "failed"}

StartsAreTimes == starts \in Seq(0 .. sim.maxTime) /\ occ \in 0 .. Len(starts)

SchedulesAreSorted ==
  /\ DOMAIN schedules \in {{}, Links}
  /\ phase \in {"failures", "fragilities"} => DOMAIN schedules = Links
  /\ \A l \in DOMAIN schedules : schedules[l] \in Seq(TimeState) /\ Sorted(schedules[l])

PartsAreSorted ==
  /\ uncombined \subseteq Links
  /\ DOMAIN combined \subseteq Components
  /\ \A c \in DOMAIN combined : combined[c] \in Seq(TimeState) /\ Sorted(combined[c])

ReliabilitiesAreSchedules ==
  /\ DOMAIN rel \subseteq Components
  /\ \A c \in DOMAIN rel : rel[c] \in Seq(TimeState)
  /\ evaluated \in 0 .. Len(sim.fragilities)

RowsHaveStatistics ==
  statistics \in Seq(Range(statistics)) /\ Len(rows) = Len(statistics)

KindsInv ==
  /\ phase \in Phases /\ StartsAreTimes /\ SchedulesAreSorted /\ PartsAreSorted
  /\ ReliabilitiesAreSchedules /\ RowsHaveStatistics

LEMMA StartsKeep ==
  ASSUME ScenarioInv', KindsInv, [Next]_vars
  PROVE  StartsAreTimes' /\ phase' \in Phases
<1>1. CASE InScenario'
  <2>1. StartsAreTimes'
    BY <1>1 DEF ScenarioInv, StartsAreInTime, StartsAreTimes
  <2> QED
    BY <1>1, <2>1 DEF InScenario, Phases
<1>2. CASE ~ InScenario'
  <2> SUFFICES UNCHANGED <<sim, starts, occ>> /\ phase' \in Phases
    BY DEF KindsInv, StartsAreTimes
  <2>1. CASE OpenEvents
    BY <2>1 DEF OpenEvents, Phases
  <2>2. CASE BeginScenario
    BY <1>2, <2>2 DEF BeginScenario, InScenario
  <2>3. CASE StopAtUnhandled
    BY <2>3 DEF StopAtUnhandled, Phases
  <2>4. CASE RollStart
    BY <1>2, <2>4 DEF RollStart, InScenario
  <2>5. CASE EndScenario
    BY <2>5 DEF EndScenario, Phases
  <2>6. CASE Finish
    BY <2>6 DEF Finish, Phases
  <2>7. CASE BeginOccurrence
    BY <1>2, <2>7 DEF BeginOccurrence, InScenario
  <2>8. CASE RollNext
    BY <1>2, <2>8 DEF RollNext, InScenario, Phases
  <2>9. CASE \E l \in Links : CombineLink(l)
    BY <1>2, <2>9 DEF CombineLink, InScenario
  <2>10. CASE ApplyReliabilities
    BY <1>2, <2>10 DEF ApplyReliabilities, InScenario
  <2>11. CASE EvaluateFragility
    BY <1>2, <2>11 DEF EvaluateFragility, InScenario
  <2>12. CASE SimulateOccurrence
    BY <1>2, <2>12 DEF SimulateOccurrence, InScenario
  <2>13. CASE UNCHANGED vars
    BY <2>13 DEF vars, KindsInv
  <2> QED
    BY <2>1, <2>2, <2>3, <2>4, <2>5, <2>6, <2>7, <2>8, <2>9, <2>10, <2>11, <2>12, <2>13 DEF Next
<1> QED
  BY <1>1, <1>2

(* Steps that make nothing.                                                *)
LEMMA SameMade ==
  ASSUME KindsInv, UNCHANGED <<sim, made>>,
         phase' \in {"failures", "fragilities"} => phase \in {"failures", "fragilities"}
  PROVE  SchedulesAreSorted' /\ PartsAreSorted' /\ ReliabilitiesAreSchedules'
BY DEF KindsInv, made, SchedulesAreSorted, PartsAreSorted, ReliabilitiesAreSchedules,
       Links, Components

LEMMA BeginOccurrenceSorts ==
  ASSUME ScenarioInv, KindsInv, BeginOccurrence
  PROVE  SchedulesAreSorted' /\ PartsAreSorted' /\ ReliabilitiesAreSchedules'
<1>1. /\ UNCHANGED sim /\ schedules' = [l \in Links |-> <<>>] /\ uncombined' = Links
      /\ combined' = <<>> /\ rel' = <<>> /\ evaluated' = 0
  BY DEF BeginOccurrence
<1>2. Links' = Links /\ Components' = Components
  BY <1>1 DEF Links, Components
<1>3. <<>> \in Seq(TimeState) /\ Sorted(<<>>) /\ DOMAIN <<>> = {}
  BY DEF Sorted
<1>4. Len(sim.fragilities) \in Nat
  BY InputType DEF ScenarioInv, IsInput
<1>5. SchedulesAreSorted'
  BY <1>1, <1>2, <1>3 DEF SchedulesAreSorted
<1>6. PartsAreSorted'
  <2>1. DOMAIN combined' = {}
    BY <1>1, <1>3
  <2> QED
    BY <1>1, <1>2, <2>1 DEF PartsAreSorted
<1>7. ReliabilitiesAreSchedules'
  <2>1. DOMAIN rel' = {}
    BY <1>1, <1>3
  <2> QED
    BY <1>1, <1>2, <1>4, <2>1 DEF ReliabilitiesAreSchedules
<1> QED
  BY <1>5, <1>6, <1>7

(* What a link is given next.                                              *)
LEMMA LinkType ==
  ASSUME ScenarioInv, NEW l \in Links
  PROVE  /\ sim.links[l].comp \in Components
         /\ sim.links[l].mode \in DOMAIN sim.failureModes
         /\ <<"failure", sim.links[l].mode>> \in Cause
         /\ LinkAskedFor(l) \in Links => Advances(DistOf(NextDist(l))) \subseteq Nat
<1>1. IsInput(sim)
  BY InputType DEF ScenarioInv
<1>2. /\ sim.links[l].comp \in Components
      /\ sim.links[l].mode \in DOMAIN sim.failureModes
      /\ <<"failure", sim.links[l].mode>> \in Cause
  BY <1>1 DEF IsInput, Links, Components
<1>3. ASSUME LinkAskedFor(l) \in Links PROVE Advances(DistOf(NextDist(l))) \subseteq Nat
  <2> DEFINE m == sim.links[LinkAskedFor(l)].mode
  <2>1. m \in DOMAIN sim.failureModes
    BY <1>1, <1>3 DEF IsInput, Links
  <2>2. {sim.failureModes[m].failure, sim.failureModes[m].repair} \subseteq DOMAIN sim.dists
    BY <1>1, <2>1 DEF IsInput
  <2>3. NextDist(l) \in DOMAIN sim.dists
    BY <2>2 DEF NextDist
  <2>4. IsDistribution(DistOf(NextDist(l)))
    BY <1>1, <2>3 DEF IsInput, DistOf
  <2> QED
    BY <2>4, AdvancesType
<1> QED
  BY <1>2, <1>3

LEMMA LastEntry ==
  ASSUME NEW s \in Seq(TimeState), Sorted(s)
  PROVE  LET last == IF s = <<>> THEN 0 ELSE Last(s).time
         IN  /\ last \in Nat /\ Len(s) \in Nat /\ DOMAIN s = 1 .. Len(s)
             /\ \A i \in DOMAIN s : s[i].time \in Nat /\ s[i].time <= last
             /\ s # <<>> => Len(s) \in DOMAIN s /\ Last(s) = s[Len(s)]
<1>1. Len(s) \in Nat /\ DOMAIN s = 1 .. Len(s) /\ \A i \in DOMAIN s : s[i].time \in Nat
  BY SeqIsTimed DEF Timed
<1>2. CASE s = <<>>
  BY <1>1, <1>2
<1>3. CASE s # <<>>
  <2>1. Len(s) \in DOMAIN s /\ Last(s) = s[Len(s)]
    BY <1>1, <1>3 DEF Last
  <2>2. \A i \in DOMAIN s : s[i].time <= s[Len(s)].time
    BY <1>1, <2>1 DEF Sorted
  <2> QED
    BY <1>1, <1>3, <2>1, <2>2
<1> QED
  BY <1>2, <1>3

LEMMA AppendSorted ==
  ASSUME NEW s \in Seq(TimeState), Sorted(s), NEW e \in TimeState,
         (IF s = <<>> THEN 0 ELSE Last(s).time) <= e.time
  PROVE  Append(s, e) \in Seq(TimeState) /\ Sorted(Append(s, e))
<1> DEFINE r == Append(s, e)
           n == Len(s)
<1>1. /\ n \in Nat /\ DOMAIN s = 1 .. n
      /\ \A i \in DOMAIN s : s[i].time \in Nat /\ s[i].time <= e.time
  <2>1. e.time \in Nat
    BY DEF TimeState
  <2> QED
    BY <2>1, LastEntry
<1>2. /\ r \in Seq(TimeState) /\ DOMAIN r = 1 .. n + 1
      /\ \A k \in 1 .. n : r[k] = s[k]
      /\ r[n + 1] = e
  BY AppendFacts
<1> HIDE DEF r, n
<1>3. ASSUME NEW i \in DOMAIN r, NEW j \in DOMAIN r, i <= j PROVE r[i].time <= r[j].time
  <2>0. e.time \in Nat
    BY DEF TimeState
  <2>1. CASE j \in 1 .. n
    <3>1. i \in 1 .. n
      BY <1>1, <1>2, <1>3, <2>1
    <3> QED
      BY <1>1, <1>2, <1>3, <2>1, <3>1 DEF Sorted
  <2>2. CASE j = n + 1
    <3>1. i \in 1 .. n \/ i = n + 1
      BY <1>1, <1>2
    <3> QED
      BY <1>1, <1>2, <2>0, <2>2, <3>1
  <2> QED
    BY <1>1, <1>2, <2>1, <2>2
<1> QED
  BY <1>2, <1>3 DEF Sorted, r

LEMMA NextStateType ==
  ASSUME ScenarioInv, NEW l \in Links, NEW time \in Nat
  PROVE  NextState(l, time) \in TimeState /\ NextState(l, time).time = time
<1>1. {<<"failure", sim.links[l].mode>>} \subseteq Cause
  BY LinkType
<1> QED
  BY <1>1 DEF NextState, Down, Up, TimeState

LEMMA RollNextSorts ==
  ASSUME ScenarioInv, KindsInv, RollNext
  PROVE  SchedulesAreSorted' /\ PartsAreSorted' /\ ReliabilitiesAreSchedules'
<1> DEFINE l    == Min(Unrolled)
           s    == schedules[l]
           last == IF s = <<>> THEN 0 ELSE Last(s).time
<1>1. /\ phase = "failures" /\ Unrolled # {}
      /\ UNCHANGED <<sim, uncombined, combined, rel, evaluated>>
      /\ IF LinkAskedFor(l) \in Links
           THEN /\ \E dt \in Advances(DistOf(NextDist(l))) :
                     schedules' = [schedules EXCEPT ![l] = Append(@, NextState(l, last + dt))]
                /\ UNCHANGED phase
           ELSE phase' = "failed" /\ UNCHANGED schedules
  BY DEF RollNext
<1>2. Links' = Links /\ Components' = Components /\ DOMAIN schedules = Links
  BY <1>1 DEF Links, Components, KindsInv, SchedulesAreSorted
<1>3. PartsAreSorted' /\ ReliabilitiesAreSchedules'
  BY <1>1, <1>2 DEF KindsInv, PartsAreSorted, ReliabilitiesAreSchedules
<1>4. l \in Links
  <2>1. Unrolled \subseteq Links /\ Links \subseteq Nat
    BY InputType DEF Unrolled, ScenarioInv, IsInput, Links
  <2>2. l \in Unrolled
    BY <1>1, <2>1, MinOf
  <2> QED
    BY <2>1, <2>2
<1>5. s \in Seq(TimeState) /\ Sorted(s)
  BY <1>2, <1>4 DEF KindsInv, SchedulesAreSorted
<1>6. CASE LinkAskedFor(l) \in Links
  <2>1. PICK dt \in Advances(DistOf(NextDist(l))) :
          schedules' = [schedules EXCEPT ![l] = Append(@, NextState(l, last + dt))]
    BY <1>1, <1>6
  <2>2. dt \in Nat /\ last \in Nat
    BY <1>4, <1>5, <1>6, LinkType, LastEntry
  <2> DEFINE e == NextState(l, last + dt)
  <2>3. e \in TimeState /\ e.time = last + dt
    BY <1>4, <2>2, NextStateType
  <2>4. schedules' = [schedules EXCEPT ![l] = Append(s, e)]
    BY <2>1
  <2> HIDE DEF e, l
  <2>5. last <= e.time
    BY <2>2, <2>3
  <2>6. Append(s, e) \in Seq(TimeState) /\ Sorted(Append(s, e))
    BY <1>5, <2>3, <2>5, AppendSorted
  <2> HIDE DEF s, last
  <2>7. DOMAIN schedules' = Links
    BY <1>2, <2>4
  <2>8. ASSUME NEW k \in Links
        PROVE  schedules'[k] \in Seq(TimeState) /\ Sorted(schedules'[k])
    <3>1. schedules'[k] = IF k = l THEN Append(s, e) ELSE schedules[k]
      BY <1>2, <2>4
    <3> QED
      BY <1>2, <2>6, <3>1 DEF KindsInv, SchedulesAreSorted
  <2>9. SchedulesAreSorted'
    BY <1>2, <2>7, <2>8 DEF SchedulesAreSorted
  <2> QED
    BY <1>3, <2>9
<1>7. CASE LinkAskedFor(l) \notin Links
  <2>1. SchedulesAreSorted'
    BY <1>1, <1>2, <1>7 DEF KindsInv, SchedulesAreSorted
  <2> QED
    BY <1>3, <2>1
<1> QED
  BY <1>6, <1>7

LEMMA CombineLinkSorts ==
  ASSUME ScenarioInv, KindsInv, NEW l \in Links, CombineLink(l)
  PROVE  SchedulesAreSorted' /\ PartsAreSorted' /\ ReliabilitiesAreSchedules'
<1> DEFINE c   == sim.links[l].comp
           new == IF c \in DOMAIN combined THEN Combine(schedules[l], combined[c]) ELSE schedules[l]
<1>1. /\ phase = "failures" /\ UNCHANGED <<sim, phase, schedules, rel, evaluated>>
      /\ combined' = Put(combined, c, new) /\ uncombined' = uncombined \ {l}
  BY DEF CombineLink
<1>2. Links' = Links /\ Components' = Components /\ DOMAIN schedules = Links /\ c \in Components
  BY <1>1, LinkType DEF Links, Components, KindsInv, SchedulesAreSorted
<1>3. schedules[l] \in Seq(TimeState) /\ Sorted(schedules[l])
  BY <1>2 DEF KindsInv, SchedulesAreSorted
<1>4. \A d \in DOMAIN combined : combined[d] \in Seq(TimeState) /\ Sorted(combined[d])
  BY DEF KindsInv, PartsAreSorted
<1>5. new \in Seq(TimeState) /\ Sorted(new)
  <2>1. CASE c \in DOMAIN combined
    <3>1. combined[c] \in Seq(TimeState) /\ Sorted(combined[c])
      BY <1>4, <2>1
    <3> QED
      BY <1>3, <2>1, <3>1, CombineType
  <2>2. CASE c \notin DOMAIN combined
    BY <1>3, <2>2
  <2> QED
    BY <2>1, <2>2
<1> HIDE DEF c, new
<1>6. DOMAIN combined' = {c} \cup DOMAIN combined
      /\ \A d \in DOMAIN combined' : combined'[d] = IF d = c THEN new ELSE combined[d]
  BY <1>1 DEF Put
<1>7. PartsAreSorted'
  BY <1>1, <1>2, <1>4, <1>5, <1>6 DEF KindsInv, PartsAreSorted
<1> QED
  BY <1>1, <1>2, <1>7 DEF KindsInv, SchedulesAreSorted, ReliabilitiesAreSchedules

LEMMA HorizonType ==
  ASSUME ScenarioInv, InScenario, NEW c \in Components
  PROVE  Begins(c) \in Int /\ Horizon(c) \in Int /\ Duration \in Int /\ Offset \in Int
<1>1. Scenario \in Ids
  BY QueueType DEF ScenarioInv, QueueIsSorted
<1> QED
  BY <1>1, InputType DEF ScenarioInv, IsInput, Ids, Components, Begins, Horizon, Duration, Offset

LEMMA ApplySorts ==
  ASSUME ScenarioInv, KindsInv, ApplyReliabilities
  PROVE  SchedulesAreSorted' /\ PartsAreSorted' /\ ReliabilitiesAreSchedules'
<1>1. /\ phase = "failures" /\ phase' = "fragilities"
      /\ UNCHANGED <<sim, schedules, uncombined, combined, evaluated>>
      /\ rel' = [c \in DOMAIN combined |-> Clip(combined[c], Begins(c), Horizon(c))]
  BY DEF ApplyReliabilities
<1>2. Links' = Links /\ Components' = Components
  BY <1>1 DEF Links, Components
<1>3. ASSUME NEW c \in DOMAIN combined
      PROVE  c \in Components /\ Clip(combined[c], Begins(c), Horizon(c)) \in Seq(TimeState)
  <2>1. c \in Components /\ combined[c] \in Seq(TimeState) /\ Sorted(combined[c])
    BY DEF KindsInv, PartsAreSorted
  <2>2. Begins(c) \in Int /\ Horizon(c) \in Int
    BY <1>1, <2>1, HorizonType DEF InScenario
  <2> QED
    BY <2>1, <2>2, ClipType
<1>4. DOMAIN rel' = DOMAIN combined /\ \A c \in DOMAIN combined : rel'[c] \in Seq(TimeState)
  BY <1>1, <1>3
<1>5. ReliabilitiesAreSchedules'
  BY <1>1, <1>2, <1>3, <1>4 DEF KindsInv, ReliabilitiesAreSchedules
<1> QED
  BY <1>1, <1>2, <1>5 DEF KindsInv, SchedulesAreSorted, PartsAreSorted

(* The schedule of a component a fragility takes down.                     *)
NewOutage(cause, repair) == <<Down(0, {cause})>> \o SetToSeq({Up(dt) : dt \in repair})

LEMMA OneToSeq ==
  ASSUME NEW x
  PROVE  SetToSeq({x}) = <<x>>
<1>1. Cardinality({x}) = 1
  BY FS_Singleton
<1> DEFINE F == {f \in [1 .. 1 -> {x}] : IsInjective(f)}
<1>2. \A f \in [1 .. 1 -> {x}] : f = <<x>>
  OBVIOUS
<1>3. <<x>> \in [1 .. 1 -> {x}] /\ IsInjective(<<x>>)
  BY DEF IsInjective
<1>4. SetToSeq({x}) = CHOOSE f \in [1 .. 1 -> {x}] : IsInjective(f)
  BY <1>1 DEF SetToSeq
<1> QED
  BY <1>2, <1>3, <1>4

LEMMA NoneToSeq == SetToSeq({}) = <<>>
<1>1. Cardinality({}) = 0
  BY FS_EmptySet
<1>2. \A f \in [1 .. 0 -> {}] : f = <<>>
  OBVIOUS
<1>3. <<>> \in [1 .. 0 -> {}] /\ IsInjective(<<>>)
  BY DEF IsInjective
<1>4. SetToSeq({}) = CHOOSE f \in [1 .. 0 -> {}] : IsInjective(f)
  BY <1>1 DEF SetToSeq
<1> QED
  BY <1>2, <1>3, <1>4

LEMMA NewOutageIs ==
  ASSUME NEW cause \in Cause, NEW repair, repair = {} \/ \E dt \in Nat : repair = {dt}
  PROVE  /\ NewOutage(cause, repair) \in Seq(TimeState)
         /\ NewOutage(cause, repair)[1] = Down(0, {cause})
         /\ repair = {} => Len(NewOutage(cause, repair)) = 1
         /\ \A dt \in repair : /\ Len(NewOutage(cause, repair)) = 2
                               /\ NewOutage(cause, repair)[2] = Up(dt)
<1>1. Down(0, {cause}) \in TimeState /\ \A dt \in Nat : Up(dt) \in TimeState
  BY DEF Down, Up, TimeState
<1>2. CASE repair = {}
  <2>1. {Up(dt) : dt \in repair} = {}
    BY <1>2
  <2>2. NewOutage(cause, repair) = <<Down(0, {cause})>> \o <<>>
    BY <2>1, NoneToSeq DEF NewOutage
  <2> DEFINE d == Down(0, {cause})
  <2>3. d \in TimeState
    BY <1>1
  <2> HIDE DEF d
  <2>4. <<d>> \o <<>> \in Seq(TimeState) /\ Len(<<d>> \o <<>>) = 1 /\ (<<d>> \o <<>>)[1] = d
    BY <2>3
  <2> QED
    BY <1>2, <2>2, <2>4 DEF d
<1>3. CASE \E dt \in Nat : repair = {dt}
  <2>1. PICK t \in Nat : repair = {t}
    BY <1>3
  <2>2. {Up(dt) : dt \in repair} = {Up(t)}
    BY <2>1
  <2>3. NewOutage(cause, repair) = <<Down(0, {cause})>> \o <<Up(t)>>
    BY <2>2, OneToSeq DEF NewOutage
  <2> DEFINE d == Down(0, {cause})
             u == Up(t)
  <2>4. d \in TimeState /\ u \in TimeState
    BY <1>1
  <2> HIDE DEF d, u
  <2>5. /\ <<d>> \o <<u>> \in Seq(TimeState) /\ Len(<<d>> \o <<u>>) = 2
        /\ (<<d>> \o <<u>>)[1] = d /\ (<<d>> \o <<u>>)[2] = u
    BY <2>4
  <2> QED
    BY <2>1, <2>3, <2>5 DEF d, u
<1> QED
  BY <1>2, <1>3

(* A fragility that takes its component down.                              *)
LEMMA HitIs ==
  ASSUME ScenarioInv, KindsInv, EvaluateFragility
  PROVE  LET fragility == sim.fragilities[evaluated + 1]
             c         == fragility.comp
             cause     == <<"fragility", fragility.mode>>
         IN  /\ c \in Components /\ cause \in Cause
             /\ phase = "fragilities" /\ evaluated' = evaluated + 1
             /\ evaluated' \in 0 .. Len(sim.fragilities)
             /\ fragility.mode \in DOMAIN sim.fragilityModes
             /\ UNCHANGED <<sim, phase, queue, occ, schedules, uncombined, combined>>
             /\ \/ UNCHANGED <<rel, hits>>
                \/ \E repair \in RepairTimes(sim.fragilityModes[fragility.mode]) :
                     /\ repair = {} \/ \E dt \in Nat : repair = {dt}
                     /\ rel' = Put(rel, c, IF c \in DOMAIN rel
                                             THEN Combine(rel[c], NewOutage(cause, repair))
                                             ELSE NewOutage(cause, repair))
                     /\ hits' = hits \cup {[comp |-> c, cause |-> cause, repair |-> repair]}
<1> DEFINE fragility == sim.fragilities[evaluated + 1]
           c         == fragility.comp
           mode      == sim.fragilityModes[fragility.mode]
           cause     == <<"fragility", fragility.mode>>
           Hit(repair) ==
             /\ rel' = Put(rel, c, IF c \in DOMAIN rel
                                     THEN Combine(rel[c], NewOutage(cause, repair))
                                     ELSE NewOutage(cause, repair))
             /\ hits' = hits \cup {[comp |-> c, cause |-> cause, repair |-> repair]}
<1>1. IsInput(sim)
  BY InputType DEF ScenarioInv
<1>2. /\ phase = "fragilities" /\ evaluated < Len(sim.fragilities) /\ evaluated' = evaluated + 1
      /\ UNCHANGED <<sim, phase, queue, occ, schedules, uncombined, combined>>
  BY DEF EvaluateFragility, ToEvaluate
<1>3. evaluated + 1 \in DOMAIN sim.fragilities /\ evaluated + 1 \in 0 .. Len(sim.fragilities)
  <2>1. DOMAIN sim.fragilities = 1 .. Len(sim.fragilities) /\ Len(sim.fragilities) \in Nat
    BY <1>1 DEF IsInput
  <2>2. evaluated \in 0 .. Len(sim.fragilities)
    BY DEF KindsInv, ReliabilitiesAreSchedules
  <2> QED
    BY <1>2, <2>1, <2>2
<1>4. c \in Components /\ fragility.mode \in DOMAIN sim.fragilityModes
  BY <1>1, <1>3 DEF IsInput, Components
<1>5. cause \in Cause /\ (mode.repair = {} \/ \E d \in DOMAIN sim.dists : mode.repair = {d})
  BY <1>1, <1>4 DEF IsInput
<1>6. \A repair \in RepairTimes(mode) : repair = {} \/ \E dt \in Nat : repair = {dt}
  <2> HIDE DEF mode
  <2>1. CASE mode.repair = {}
    BY <2>1 DEF RepairTimes
  <2>2. CASE \E d \in DOMAIN sim.dists : mode.repair = {d}
    <3>1. PICK d \in DOMAIN sim.dists : mode.repair = {d}
      BY <2>2
    <3>2. The(mode.repair) = d
      BY <3>1 DEF The
    <3>3. Advances(DistOf(d)) \subseteq Nat
      BY <1>1, AdvancesType DEF IsInput, DistOf
    <3> QED
      BY <3>1, <3>2, <3>3 DEF RepairTimes
  <2> QED
    BY <1>5, <2>1, <2>2
<1>7. UNCHANGED <<rel, hits>> \/ \E repair \in RepairTimes(mode) : Hit(repair)
  BY DEF EvaluateFragility, NewOutage
<1> HIDE DEF fragility, c, mode, cause
<1> QED
  BY <1>2, <1>3, <1>4, <1>5, <1>6, <1>7 DEF fragility, c, mode, cause

LEMMA EvaluateSorts ==
  ASSUME ScenarioInv, KindsInv, EvaluateFragility
  PROVE  SchedulesAreSorted' /\ PartsAreSorted' /\ ReliabilitiesAreSchedules'
<1> DEFINE fragility == sim.fragilities[evaluated + 1]
           c         == fragility.comp
           cause     == <<"fragility", fragility.mode>>
           Repaired(repair) == IF c \in DOMAIN rel THEN Combine(rel[c], NewOutage(cause, repair))
                                                   ELSE NewOutage(cause, repair)
<1>1. /\ c \in Components /\ cause \in Cause
      /\ phase = "fragilities" /\ evaluated' \in 0 .. Len(sim.fragilities)
      /\ UNCHANGED <<sim, phase, schedules, uncombined, combined>>
  BY HitIs
<1>2. \/ UNCHANGED rel
      \/ \E repair : /\ repair = {} \/ \E dt \in Nat : repair = {dt}
                     /\ rel' = Put(rel, c, Repaired(repair))
  BY HitIs
<1>3. Links' = Links /\ Components' = Components
  BY <1>1 DEF Links, Components
<1>4. DOMAIN rel \subseteq Components /\ \A d \in DOMAIN rel : rel[d] \in Seq(TimeState)
  BY DEF KindsInv, ReliabilitiesAreSchedules
<1>5. ASSUME NEW repair, repair = {} \/ \E dt \in Nat : repair = {dt}
      PROVE  Repaired(repair) \in Seq(TimeState)
  <2>1. NewOutage(cause, repair) \in Seq(TimeState)
    BY <1>1, <1>5, NewOutageIs
  <2> QED
    BY <1>4, <2>1, CombineType
<1> HIDE DEF c, cause, Repaired
<1>6. DOMAIN rel' \subseteq Components /\ \A d \in DOMAIN rel' : rel'[d] \in Seq(TimeState)
  <2>1. CASE UNCHANGED rel
    BY <1>4, <2>1
  <2>2. CASE \E repair : /\ repair = {} \/ \E dt \in Nat : repair = {dt}
                        /\ rel' = Put(rel, c, Repaired(repair))
    <3>1. PICK repair : /\ repair = {} \/ \E dt \in Nat : repair = {dt}
                        /\ rel' = Put(rel, c, Repaired(repair))
      BY <2>2
    <3>2. Repaired(repair) \in Seq(TimeState)
      BY <1>5, <3>1
    <3>3. /\ DOMAIN rel' = {c} \cup DOMAIN rel
          /\ \A d \in DOMAIN rel' : rel'[d] = IF d = c THEN Repaired(repair) ELSE rel[d]
      BY <3>1 DEF Put
    <3> QED
      BY <1>1, <1>4, <3>2, <3>3
  <2> QED
    BY <1>2, <2>1, <2>2
<1>7. ReliabilitiesAreSchedules'
  BY <1>1, <1>3, <1>6 DEF ReliabilitiesAreSchedules
<1> QED
  BY <1>1, <1>3, <1>7 DEF KindsInv, SchedulesAreSorted, PartsAreSorted

LEMMA AppendToRange ==
  ASSUME NEW xs, xs \in Seq(Range(xs)), NEW x
  PROVE  Append(xs, x) \in Seq(Range(Append(xs, x))) /\ Len(Append(xs, x)) = Len(xs) + 1
<1> DEFINE S == Range(xs) \cup {x}
           r == Append(xs, x)
<1>1. xs \in Seq(S)
  BY SeqDef
<1>2. /\ r \in Seq(S) /\ Len(r) = Len(xs) + 1
      /\ DOMAIN r = 1 .. Len(r) /\ Len(r) \in Nat
  BY <1>1, AppendFacts
<1> HIDE DEF r
<1>3. \A i \in 1 .. Len(r) : r[i] \in Range(r)
  BY <1>2 DEF Range
<1>4. r \in [1 .. Len(r) -> Range(r)]
  BY <1>2, <1>3
<1>5. r \in Seq(Range(r))
  BY <1>2, <1>4, ArrayIsSeq
<1> QED
  BY <1>2, <1>5 DEF r

LEMMA KindsKeep ==
  ASSUME ScenarioInv, ScenarioInv', KindsInv, [Next]_vars
  PROVE  KindsInv'
<1>1. StartsAreTimes' /\ phase' \in Phases
  BY StartsKeep
<1>2. SchedulesAreSorted' /\ PartsAreSorted' /\ ReliabilitiesAreSchedules'
  <2>1. CASE OpenEvents
    BY <2>1, SameMade DEF OpenEvents
  <2>2. CASE BeginScenario
    BY <2>2, SameMade DEF BeginScenario
  <2>3. CASE StopAtUnhandled
    BY <2>3, SameMade DEF StopAtUnhandled
  <2>4. CASE RollStart
    <3>1. phase' \notin {"failures", "fragilities"} /\ UNCHANGED <<sim, made>>
      BY <2>4 DEF RollStart
    <3> QED
      BY <3>1, SameMade
  <2>5. CASE EndScenario
    BY <2>5, SameMade DEF EndScenario
  <2>6. CASE Finish
    BY <2>6, SameMade DEF Finish
  <2>7. CASE BeginOccurrence
    BY <2>7, BeginOccurrenceSorts
  <2>8. CASE RollNext
    BY <2>8, RollNextSorts
  <2>9. CASE \E l \in Links : CombineLink(l)
    BY <2>9, CombineLinkSorts
  <2>10. CASE ApplyReliabilities
    BY <2>10, ApplySorts
  <2>11. CASE EvaluateFragility
    BY <2>11, EvaluateSorts
  <2>12. CASE SimulateOccurrence
    BY <2>12, SameMade DEF SimulateOccurrence
  <2>13. CASE UNCHANGED vars
    BY <2>13, SameMade DEF vars
  <2> QED
    BY <2>1, <2>2, <2>3, <2>4, <2>5, <2>6, <2>7, <2>8, <2>9, <2>10, <2>11, <2>12, <2>13 DEF Next
<1>3. RowsHaveStatistics'
  <2>1. CASE SimulateOccurrence
    <3>1. /\ \E x : rows' = Append(rows, x)
          /\ \E y : statistics' = Append(statistics, y)
      BY <2>1 DEF SimulateOccurrence
    <3>2. PICK x : rows' = Append(rows, x)
      BY <3>1
    <3>3. PICK y : statistics' = Append(statistics, y)
      BY <3>1
    <3>4. rows \in Seq(Range(rows)) /\ statistics \in Seq(Range(statistics)) /\ Len(rows) = Len(statistics)
      BY DEF ScenarioInv, RowsAreOfScenarios, KindsInv, RowsHaveStatistics
    <3> QED
      BY <3>2, <3>3, <3>4, AppendToRange DEF RowsHaveStatistics
  <2>2. CASE ~ SimulateOccurrence
    <3>1. UNCHANGED <<rows, statistics>>
      BY <2>2 DEF Next, vars, OpenEvents, BeginScenario, StopAtUnhandled, RollStart, EndScenario,
                  Finish, BeginOccurrence, RollNext, CombineLink, ApplyReliabilities,
                  EvaluateFragility
    <3> QED
      BY <3>1 DEF KindsInv, RowsHaveStatistics
  <2> QED
    BY <2>1, <2>2
<1> QED
  BY <1>1, <1>2, <1>3 DEF KindsInv

LEMMA SeqValues ==
  ASSUME NEW S, NEW s \in Seq(S)
  PROVE  \A i \in DOMAIN s : s[i] \in S
OBVIOUS

LEMMA KindsHold == Spec => []KindsInv
<1>1. Init => KindsInv
  <2> SUFFICES ASSUME Init PROVE KindsInv
    OBVIOUS
  <2>1. DOMAIN <<>> = {} /\ <<>> \in Seq(0 .. sim.maxTime) /\ Len(<<>>) = 0
    OBVIOUS
  <2>2. sim \in Sims /\ Len(sim.fragilities) \in Nat
    BY ScenarioAssumption DEF Init, IsInput
  <2>3. RowsHaveStatistics
    BY DEF Init, RowsHaveStatistics
  <2>4. StartsAreTimes
    BY <2>1 DEF Init, StartsAreTimes
  <2>5. SchedulesAreSorted
    BY <2>1 DEF Init, SchedulesAreSorted
  <2>6. PartsAreSorted /\ ReliabilitiesAreSchedules
    BY <2>1, <2>2 DEF Init, PartsAreSorted, ReliabilitiesAreSchedules
  <2> QED
    BY <2>3, <2>4, <2>5, <2>6 DEF Init, KindsInv, Phases
<1>2. ScenarioInv /\ ScenarioInv' /\ KindsInv /\ [Next]_vars => KindsInv'
  BY KindsKeep
<1> QED
  BY <1>1, <1>2, ScenarioInvHolds, PTL DEF Spec

(* Whatever the distributions give, every value is of its kind; among them *)
(* the schedules, which have no negative times, wherever the scenario and  *)
(* the component's age put the start of the part that is kept.             *)
THEOREM ScenarioTypes == Spec => []TypeOK
<1>1. ScenarioInv /\ KindsInv => TypeOK
  <2> SUFFICES ASSUME ScenarioInv, KindsInv PROVE TypeOK
    OBVIOUS
  <2>1. sim \in Sims /\ queue \in Seq(DOMAIN sim.scenarios) /\ DOMAIN assigned = DOMAIN sim.scheduled
    BY DEF ScenarioInv, RowsAreOfScenarios, QueueIsSorted, LoadsInForce, Ids
  <2>2. \A i \in DOMAIN starts : starts[i] \in 0 .. sim.maxTime
    BY SeqValues DEF KindsInv, StartsAreTimes
  <2>3. rolled \in [DOMAIN sim.scenarios -> Seq(Nat)]
    BY DEF ScenarioInv, RollsAreKept, Ids
  <2>4. \A schedule \in Range(schedules) \cup Range(rel) : schedule \in Seq(TimeState)
    BY DEF KindsInv, SchedulesAreSorted, ReliabilitiesAreSchedules, Range
  <2> QED
    BY <2>1, <2>2, <2>3, <2>4 DEF TypeOK, KindsInv, Phases, StartsAreTimes, SchedulesAreSorted,
                            PartsAreSorted, ReliabilitiesAreSchedules, RowsHaveStatistics
<1> QED
  BY <1>1, ScenarioInvHolds, KindsHold, PTL

-----------------------------------------------------------------------------
(* What is rolled for a link: failures and repairs in turn.                *)
Tells(s, cause, longest) ==
  /\ s \in Seq(TimeState) /\ Forward(s)
  /\ \A i \in DOMAIN s :
       /\ s[i].state <=> i % 2 = 0
       /\ s[i].causes = IF s[i].state THEN {} ELSE {cause}
       /\ s[i].state => s[i].time <= s[i - 1].time + longest

LEMMA TellsProper ==
  ASSUME NEW s, NEW cause, NEW longest, Tells(s, cause, longest)
  PROVE  Proper(s)
<1>1. /\ s \in Seq(TimeState) /\ Forward(s)
      /\ Len(s) \in Nat /\ DOMAIN s = 1 .. Len(s)
      /\ \A i \in DOMAIN s : s[i] \in TimeState
  BY SeqIsTimed DEF Tells, Forward, Timed
<1>2. \A i \in DOMAIN s : s[i].state <=> s[i].causes = {}
  BY DEF Tells
<1>3. ASSUME NEW i \in DOMAIN s, s[i].state
      PROVE  i # 1 /\ ~ s[i - 1].state
  <2>1. i \in Nat /\ i >= 1 /\ i % 2 = 0
    BY <1>1, <1>3 DEF Tells
  <2>2. i # 1 /\ (i - 1) % 2 # 0
    BY <2>1
  <2>3. i - 1 \in DOMAIN s
    BY <1>1, <2>1, <2>2
  <2> QED
    BY <2>2, <2>3 DEF Tells
<1> QED
  BY <1>1, <1>2, <1>3 DEF Proper, Honest, NotRepeated

LEMMA ProperSaysWhy ==
  ASSUME NEW s, Proper(s), NEW t \in Nat
  PROVE  UpAt(s, t) <=> CausesAt(s, t) = {}
<1>1. CASE s = <<>>
  <2>1. Times(s) = {}
    BY <1>1 DEF Times
  <2> QED
    BY <2>1, BeforeTheFirst
<1>2. CASE s # <<>>
  <2>1. PICK i \in DOMAIN s : Reached(s, i, t)
    BY <1>2, SomethingIsReached DEF Proper
  <2>2. StateAt(s, t) = IF s[i].time <= t THEN s[i] ELSE Up(t)
    BY <2>1, ReachedState DEF Proper
  <2>3. s[i].state <=> s[i].causes = {}
    BY DEF Proper, Honest
  <2> QED
    BY <2>2, <2>3 DEF UpAt, CausesAt, Up
<1> QED
  BY <1>1, <1>2

LEMMA TellsWhy ==
  ASSUME NEW s, NEW cause, NEW longest, Tells(s, cause, longest), NEW t \in Nat
  PROVE  CausesAt(s, t) = IF UpAt(s, t) THEN {} ELSE {cause}
<1>1. Proper(s)
  BY TellsProper
<1>2. CASE s = <<>>
  <2>1. Times(s) = {}
    BY <1>2 DEF Times
  <2> QED
    BY <2>1, BeforeTheFirst
<1>3. CASE s # <<>>
  <2>1. PICK i \in DOMAIN s : Reached(s, i, t)
    BY <1>1, <1>3, SomethingIsReached DEF Proper
  <2>2. StateAt(s, t) = IF s[i].time <= t THEN s[i] ELSE Up(t)
    BY <1>1, <2>1, ReachedState DEF Proper
  <2>3. s[i].causes = IF s[i].state THEN {} ELSE {cause}
    BY DEF Tells
  <2> QED
    BY <2>2, <2>3 DEF UpAt, CausesAt, Up
<1> QED
  BY <1>2, <1>3

LEMMA NothingTells ==
  ASSUME NEW cause, NEW longest
  PROVE  Tells(<<>>, cause, longest)
<1>1. <<>> \in Seq(TimeState) /\ Len(<<>>) = 0 /\ DOMAIN <<>> = {} /\ 1 .. 0 = {}
  OBVIOUS
<1> QED
  BY <1>1 DEF Tells, Forward, Timed

LEMMA AppendTells ==
  ASSUME NEW s, NEW cause, NEW longest, Tells(s, cause, longest), NEW e \in TimeState,
         s # <<>> => Last(s).time < e.time,
         e.state <=> Len(s) % 2 # 0,
         e.causes = IF e.state THEN {} ELSE {cause},
         e.state => e.time <= Last(s).time + longest
  PROVE  Tells(Append(s, e), cause, longest)
<1> DEFINE r == Append(s, e)
           n == Len(s)
<1>1. /\ n \in Nat /\ DOMAIN s = 1 .. n
      /\ \A i \in DOMAIN s : s[i] \in TimeState /\ s[i].time \in Nat
      /\ \A i, j \in DOMAIN s : i < j => s[i].time < s[j].time
  BY SeqIsTimed DEF Tells, Forward, Timed
<1>2. /\ r \in Seq(TimeState) /\ Len(r) = n + 1 /\ DOMAIN r = 1 .. n + 1
      /\ \A k \in 1 .. n : r[k] = s[k]
      /\ r[n + 1] = e
  BY AppendFacts DEF Tells
<1>3. n > 0 => s # <<>> /\ Last(s) = s[n]
  BY <1>1 DEF Last
<1>4. e.time \in Nat /\ (n > 0 => s[n].time < e.time)
  BY <1>3 DEF TimeState
<1>5. \A i \in 1 .. n : s[i].time < e.time
  BY <1>1, <1>4
<1>6. e.state <=> (n + 1) % 2 = 0
  BY <1>1
<1>7. e.state => n > 0 /\ e.time <= s[n].time + longest
  BY <1>1, <1>3
<1> HIDE DEF r, n
<1>8. \A i \in 1 .. n + 1 : i \in 1 .. n \/ i = n + 1
  BY <1>1
<1>9. Forward(r)
  <2>1. \A i \in DOMAIN r : r[i].time \in Nat
    BY <1>1, <1>2, <1>4, <1>8
  <2>2. ASSUME NEW i \in DOMAIN r, NEW j \in DOMAIN r, i < j
        PROVE  r[i].time < r[j].time
    <3>1. i \in 1 .. n
      BY <1>1, <1>2, <2>2
    <3>2. CASE j \in 1 .. n
      BY <1>1, <1>2, <2>2, <3>1, <3>2
    <3>3. CASE j = n + 1
      BY <1>2, <1>5, <3>1, <3>3
    <3> QED
      BY <1>2, <1>8, <3>2, <3>3
  <2> QED
    BY <1>1, <1>2, <2>1, <2>2 DEF Forward, Timed
<1>10. ASSUME NEW i \in DOMAIN r
       PROVE  /\ r[i].state <=> i % 2 = 0
              /\ r[i].causes = IF r[i].state THEN {} ELSE {cause}
              /\ r[i].state => r[i].time <= r[i - 1].time + longest
  <2>1. CASE i \in 1 .. n
    <3>1. /\ s[i].state <=> i % 2 = 0
          /\ s[i].causes = IF s[i].state THEN {} ELSE {cause}
          /\ s[i].state => s[i].time <= s[i - 1].time + longest
      BY <1>1, <2>1 DEF Tells
    <3>2. s[i].state => i - 1 \in 1 .. n
      <4>1. i % 2 = 0 => i # 1
        OBVIOUS
      <4> QED
        BY <1>1, <2>1, <3>1, <4>1
    <3> QED
      BY <1>2, <2>1, <3>1, <3>2
  <2>2. CASE i = n + 1
    <3>1. e.state => n \in 1 .. n /\ r[i - 1] = s[n]
      BY <1>1, <1>2, <1>7, <2>2
    <3> QED
      BY <1>2, <1>6, <1>7, <2>2, <3>1
  <2> QED
    BY <1>2, <1>8, <2>1, <2>2
<1> QED
  BY <1>2, <1>9, <1>10 DEF Tells, r

(* A component that is down at a time is repaired in the time an outage    *)
(* lasts at most, as long as its schedule goes on for that.                *)
LEMMA OutageIsWithin ==
  ASSUME NEW s, NEW cause, NEW longest \in Nat, Tells(s, cause, longest), s # <<>>,
         NEW begins \in Nat, Last(s).time >= begins + longest, ~ UpAt(s, begins)
  PROVE  \E v \in Times(s) : v \in begins .. begins + longest
<1>1. /\ Len(s) \in Nat /\ DOMAIN s = 1 .. Len(s) /\ Forward(s)
      /\ \A i \in DOMAIN s : s[i].time \in Nat
  BY SeqIsTimed DEF Tells, Timed
<1>2. PICK i \in DOMAIN s : Reached(s, i, begins)
  BY <1>1, SomethingIsReached
<1>3. s[i].time <= begins /\ ~ s[i].state
  <2>1. StateAt(s, begins) = IF s[i].time <= begins THEN s[i] ELSE Up(begins)
    BY <1>1, <1>2, ReachedState
  <2> QED
    BY <2>1 DEF UpAt, Up
<1>4. CASE i = Len(s)
  <2>1. Last(s) = s[i]
    BY <1>1, <1>4 DEF Last
  <2>3. s[i].time >= begins + longest
    BY <2>1
  <2>4. s[i].time \in Nat
    BY <1>1, <1>2
  <2> DEFINE v == s[i].time
  <2>5. v \in Nat /\ v >= begins + longest /\ v <= begins
    BY <1>3, <2>3, <2>4
  <2> HIDE DEF v
  <2>6. v \in begins .. begins + longest
    BY <2>5
  <2>2. s[i].time \in begins .. begins + longest
    BY <2>6 DEF v
  <2> QED
    BY <2>2 DEF Times
<1>5. CASE i < Len(s)
  <2>1. i + 1 \in DOMAIN s /\ i \in Nat
    BY <1>1, <1>5
  <2>2. s[i + 1].state
    <3>1. i % 2 # 0
      BY <1>3 DEF Tells
    <3>2. (i + 1) % 2 = 0
      BY <2>1, <3>1
    <3> QED
      BY <2>1, <3>2 DEF Tells
  <2>3. s[i + 1].time <= s[i].time + longest
    <3>1. s[i + 1].time <= s[(i + 1) - 1].time + longest
      BY <2>1, <2>2 DEF Tells
    <3> QED
      BY <2>1, <3>1
  <2>4. s[i + 1].time > begins
    BY <1>1, <1>2, <2>1 DEF Reached
  <2>5. s[i + 1].time \in begins .. begins + longest
    BY <1>1, <1>3, <2>1, <2>3, <2>4
  <2> QED
    BY <2>1, <2>5 DEF Times
<1> QED
  BY <1>1, <1>4, <1>5

LEMMA NewOutageMeans ==
  ASSUME NEW cause \in Cause, NEW repair,
         repair = {} \/ \E dt \in Nat : dt > 0 /\ repair = {dt}
  PROVE  /\ Proper(NewOutage(cause, repair))
         /\ \A t \in Nat : CausesAt(NewOutage(cause, repair), t) =
                             IF \A dt \in repair : t < dt THEN {cause} ELSE {}
<1> DEFINE s == NewOutage(cause, repair)
           d == Down(0, {cause})
<1>1. /\ s \in Seq(TimeState) /\ s[1] = d
      /\ repair = {} => Len(s) = 1
      /\ \A dt \in repair : Len(s) = 2 /\ s[2] = Up(dt)
  BY NewOutageIs
<1>2. d.time = 0 /\ d.state = FALSE /\ d.causes = {cause}
  BY DEF Down
<1>3. \A t : Up(t).time = t /\ Up(t).state = TRUE /\ Up(t).causes = {}
  BY DEF Up
<1>4. Len(s) \in Nat /\ DOMAIN s = 1 .. Len(s) /\ Timed(s) /\ \A i \in DOMAIN s : s[i] \in TimeState
  BY <1>1, SeqIsTimed DEF Timed
<1> HIDE DEF s, d
<1>5. CASE repair = {}
  <2>1. Len(s) = 1 /\ \A i \in DOMAIN s : i = 1
    BY <1>1, <1>4, <1>5
  <2>2. Proper(s)
    BY <1>1, <1>2, <1>4, <2>1 DEF Proper, Forward, Honest, NotRepeated
  <2>3. ASSUME NEW t \in Nat PROVE CausesAt(s, t) = {cause}
    <3>1. Reached(s, 1, t)
      BY <1>1, <1>2, <1>4, <2>1 DEF Reached
    <3>2. StateAt(s, t) = d
      BY <1>1, <1>2, <2>2, <3>1, ReachedState DEF Proper
    <3> QED
      BY <1>2, <3>2 DEF CausesAt
  <2> QED
    BY <1>5, <2>2, <2>3 DEF s
<1>6. CASE \E dt \in Nat : dt > 0 /\ repair = {dt}
  <2>1. PICK dt \in Nat : dt > 0 /\ repair = {dt}
    BY <1>6
  <2>2. /\ Len(s) = 2 /\ DOMAIN s = 1 .. 2 /\ s[2] = Up(dt)
        /\ \A i \in DOMAIN s : i = 1 \/ i = 2
    BY <1>1, <1>4, <2>1
  <2>3. /\ s[1].time = 0 /\ s[1].state = FALSE /\ s[1].causes = {cause}
        /\ s[2].time = dt /\ s[2].state = TRUE /\ s[2].causes = {}
    BY <1>1, <1>2, <1>3, <2>2
  <2>4. Proper(s)
    <3>1. Forward(s)
      BY <1>4, <2>1, <2>2, <2>3 DEF Forward
    <3>2. Honest(s)
      BY <1>4, <2>2, <2>3 DEF Honest
    <3>3. NotRepeated(s)
      BY <2>2, <2>3 DEF NotRepeated
    <3> QED
      BY <1>1, <3>1, <3>2, <3>3 DEF Proper
  <2>5. ASSUME NEW t \in Nat PROVE CausesAt(s, t) = IF t < dt THEN {cause} ELSE {}
    <3>1. CASE t < dt
      <4>1. Reached(s, 1, t)
        BY <2>1, <2>2, <2>3, <3>1 DEF Reached
      <4>2. StateAt(s, t) = s[1]
        BY <2>3, <2>4, <4>1, ReachedState DEF Proper
      <4> QED
        BY <2>3, <3>1, <4>2 DEF CausesAt
    <3>2. CASE ~ (t < dt)
      <4>1. Reached(s, 2, t)
        BY <2>1, <2>2, <2>3, <3>2 DEF Reached
      <4>2. StateAt(s, t) = s[2]
        BY <2>1, <2>3, <2>4, <3>2, <4>1, ReachedState DEF Proper
      <4> QED
        BY <2>3, <3>2, <4>2 DEF CausesAt
    <3> QED
      BY <3>1, <3>2
  <2>6. \A t : (\A x \in repair : t < x) <=> t < dt
    BY <2>1
  <2> QED
    BY <2>4, <2>5, <2>6 DEF s
<1> QED
  BY <1>5, <1>6

-----------------------------------------------------------------------------
(* The schedules of an occurrence, from the links' to the components'.     *)
LinksTell ==
  phase \in {"failures", "fragilities"} =>
    \A l \in Links : Tells(schedules[l], <<"failure", sim.links[l].mode>>, Duration)

RolledFirst ==
  phase = "fragilities" \/ (phase = "failures" /\ uncombined # Links) => Unrolled = {}

CombinedOf(c) == {l \in Links \ uncombined : sim.links[l].comp = c}

IsCombined(s, c) ==
  /\ Proper(s)
  /\ Times(s) = UNION {Times(schedules[l]) : l \in CombinedOf(c)}
  /\ \A t \in Nat :
       /\ UpAt(s, t) <=> \A l \in CombinedOf(c) : UpAt(schedules[l], t)
       /\ CausesAt(s, t) = UNION {CausesAt(schedules[l], t) : l \in CombinedOf(c)}

PartsTell ==
  phase = "failures" =>
    /\ rel = <<>> /\ hits = {}
    /\ \A c \in Components :
         /\ c \in DOMAIN combined <=> CombinedOf(c) # {}
         /\ c \in DOMAIN combined => IsCombined(combined[c], c)

ReliabilitiesTell ==
  phase = "fragilities" =>
    \A c \in Components :
      /\ Proper(RelOf(c))
      /\ \A t \in 0 .. Duration : CausesAt(RelOf(c), t) = DownBecause(c, t)

OutagesInv == LinksTell /\ RolledFirst /\ PartsTell /\ ReliabilitiesTell

LEMMA TimesType ==
  ASSUME ScenarioInv, InScenario, OutagesSuit(sim), NEW c \in Components
  PROVE  /\ Begins(c) \in Nat /\ Duration \in Nat /\ Begins(c) <= Horizon(c)
         /\ Horizon(c) = Begins(c) + Duration /\ Horizon(c) \in Nat
<1>1. Scenario \in DOMAIN sim.scenarios
  BY QueueType DEF ScenarioInv, QueueIsSorted, Ids
<1>2. sim.age[c] \in Int /\ Offset \in Int /\ Duration \in Int
  BY <1>1, InputType DEF ScenarioInv, IsInput, Components, Offset, Duration
<1>3. sim.age[c] >= 0 /\ Offset >= 0 /\ Duration >= 0
  BY <1>1 DEF OutagesSuit, NothingIsBeforeTimeZero, Components, Offset, Duration
<1> QED
  BY <1>2, <1>3 DEF Begins, Horizon

LEMMA LinkTakesTime ==
  ASSUME ScenarioInv, InScenario, OutagesSuit(sim), NEW l \in Links, LinkAskedFor(l) \in Links,
         NEW dt \in Advances(DistOf(NextDist(l)))
  PROVE  /\ dt \in Nat /\ dt > 0
         /\ Len(schedules[l]) % 2 # 0 => dt <= Duration
<1> DEFINE m == sim.links[LinkAskedFor(l)].mode
<1>1. Scenario \in DOMAIN sim.scenarios
  BY QueueType DEF ScenarioInv, QueueIsSorted, Ids
<1>2. m \in DOMAIN sim.failureModes
  BY LinkType
<1>3. dt \in Nat
  BY LinkType
<1>4. NextDist(l) = IF Len(schedules[l]) % 2 = 0 THEN sim.failureModes[m].failure
                                                  ELSE sim.failureModes[m].repair
  BY DEF NextDist
<1> HIDE DEF m
<1>5. dt > 0
  BY <1>2, <1>4 DEF OutagesSuit, FailuresTakeTime, DistOf
<1>6. ASSUME Len(schedules[l]) % 2 # 0 PROVE dt <= Duration
  BY <1>1, <1>2, <1>4, <1>6 DEF OutagesSuit, RepairsFitScenarios, DistOf, Duration
<1> QED
  BY <1>3, <1>5, <1>6

LEMMA SameScenario ==
  ASSUME UNCHANGED <<sim, queue>>
  PROVE  /\ Links' = Links /\ Components' = Components /\ Duration' = Duration
         /\ Offset' = Offset
         /\ \A c : Begins(c)' = Begins(c) /\ Horizon(c)' = Horizon(c)
BY DEF Links, Components, Duration, Offset, Begins, Horizon, Scenario

LEMMA NoneCombined ==
  ASSUME ScenarioInv, KindsInv, DOMAIN combined = {}, uncombined = Links, rel = <<>>, hits = {}
  PROVE  PartsTell
<1>1. \A c : CombinedOf(c) = {}
  BY DEF CombinedOf
<1> QED
  BY <1>1 DEF PartsTell

LEMMA BeginOccurrenceTells ==
  ASSUME ScenarioInv, KindsInv, ScenarioInv', KindsInv', BeginOccurrence
  PROVE  OutagesInv'
<1>1. /\ UNCHANGED <<sim, queue>> /\ schedules' = [l \in Links |-> <<>>] /\ uncombined' = Links
      /\ combined' = <<>> /\ rel' = <<>> /\ hits' = {} /\ phase' = "failures"
  BY DEF BeginOccurrence
<1>2. Links' = Links
  BY <1>1, SameScenario
<1>3. LinksTell'
  BY <1>1, <1>2, NothingTells DEF LinksTell
<1>4. RolledFirst'
  BY <1>1, <1>2 DEF RolledFirst
<1>5. PartsTell'
  <2>1. DOMAIN combined' = {}
    BY <1>1
  <2>2. \A c : CombinedOf(c)' = {}
    BY <1>1, <1>2 DEF CombinedOf
  <2> QED
    BY <1>1, <2>1, <2>2 DEF PartsTell
<1>6. ReliabilitiesTell'
  BY <1>1 DEF ReliabilitiesTell
<1> QED
  BY <1>3, <1>4, <1>5, <1>6 DEF OutagesInv

LEMMA RollNextTells ==
  ASSUME ScenarioInv, KindsInv, OutagesSuit(sim), OutagesInv, RollNext
  PROVE  OutagesInv'
<1> DEFINE l    == Min(Unrolled)
           s    == schedules[l]
           last == IF s = <<>> THEN 0 ELSE Last(s).time
           why  == <<"failure", sim.links[l].mode>>
<1>1. /\ phase = "failures" /\ Unrolled # {}
      /\ UNCHANGED <<sim, queue, uncombined, combined, rel, hits>>
      /\ phase' = "failures" \/ phase' = "failed"
      /\ phase' = "failures" =>
           /\ LinkAskedFor(l) \in Links
           /\ \E dt \in Advances(DistOf(NextDist(l))) :
                schedules' = [schedules EXCEPT ![l] = Append(@, NextState(l, last + dt))]
  BY DEF RollNext
<1>2. /\ Links' = Links /\ Components' = Components /\ Duration' = Duration
      /\ DOMAIN schedules = Links
  BY <1>1, SameScenario DEF KindsInv, SchedulesAreSorted
<1>3. uncombined = Links
  BY <1>1 DEF OutagesInv, RolledFirst
<1>4. l \in Links
  <2>1. Unrolled \subseteq Links /\ Links \subseteq Nat
    BY InputType DEF Unrolled, ScenarioInv, IsInput, Links
  <2>2. l \in Unrolled
    BY <1>1, <2>1, MinOf
  <2> QED
    BY <2>1, <2>2
<1>5. CASE phase' = "failures"
  <2>1. PICK dt \in Advances(DistOf(NextDist(l))) :
          schedules' = [schedules EXCEPT ![l] = Append(@, NextState(l, last + dt))]
    BY <1>1, <1>5
  <2>2. /\ dt \in Nat /\ dt > 0
        /\ Len(s) % 2 # 0 => dt <= Duration
    <3>1. InScenario /\ LinkAskedFor(l) \in Links
      BY <1>1, <1>5 DEF InScenario
    <3> HIDE DEF l
    <3> QED
      BY <1>4, <3>1, LinkTakesTime
  <2>3. s \in Seq(TimeState) /\ Sorted(s)
    BY <1>2, <1>4 DEF KindsInv, SchedulesAreSorted
  <2>4. last \in Nat /\ (s # <<>> => last = Last(s).time)
    BY <2>3, LastEntry
  <2> DEFINE e == NextState(l, last + dt)
  <2>5. e \in TimeState /\ e.time = last + dt
    BY <1>4, <2>2, <2>4, NextStateType
  <2>6. /\ e.state <=> Len(s) % 2 # 0
        /\ e.causes = IF e.state THEN {} ELSE {why}
    BY DEF NextState, Down, Up
  <2>7. schedules' = [schedules EXCEPT ![l] = Append(s, e)]
    BY <2>1
  <2>8. Tells(s, why, Duration)
    BY <1>1, <1>4 DEF OutagesInv, LinksTell
  <2>9. Duration \in Nat
    <3>1. sim.links[l].comp \in Components
      BY <1>4, LinkType
    <3> QED
      BY <1>1, <3>1, TimesType DEF InScenario
  <2> HIDE DEF e, s, why, l, last
  <2>10. Len(s) % 2 # 0 => s # <<>>
    OBVIOUS
  <2>11. Tells(Append(s, e), why, Duration)
    <3>1. s # <<>> => Last(s).time < e.time
      BY <2>2, <2>4, <2>5
    <3>2. e.state => e.time <= Last(s).time + Duration
      BY <2>2, <2>4, <2>5, <2>6, <2>9, <2>10
    <3> QED
      BY <2>5, <2>6, <2>8, <3>1, <3>2, AppendTells
  <2>12. \A k \in Links : schedules'[k] = IF k = l THEN Append(s, e) ELSE schedules[k]
    BY <1>2, <2>7
  <2>13. LinksTell'
    <3>1. \A k \in Links : Tells(schedules[k], <<"failure", sim.links[k].mode>>, Duration)
      BY <1>1 DEF OutagesInv, LinksTell
    <3> QED
      BY <1>1, <1>2, <2>11, <2>12, <3>1 DEF LinksTell, why
  <2>14. PartsTell'
    <3>1. \A c : CombinedOf(c) = {} /\ CombinedOf(c)' = {}
      BY <1>1, <1>2, <1>3 DEF CombinedOf
    <3>2. rel = <<>> /\ hits = {} /\ \A c \in Components : c \notin DOMAIN combined
      BY <1>1, <3>1 DEF OutagesInv, PartsTell
    <3> QED
      BY <1>1, <1>2, <3>1, <3>2 DEF PartsTell
  <2> QED
    BY <1>1, <1>2, <1>3, <1>5, <2>13, <2>14 DEF OutagesInv, RolledFirst, ReliabilitiesTell
<1>6. CASE phase' = "failed"
  BY <1>6 DEF OutagesInv, LinksTell, RolledFirst, PartsTell, ReliabilitiesTell
<1> QED
  BY <1>1, <1>5, <1>6

LEMMA SameUnrolled ==
  ASSUME UNCHANGED <<sim, queue, schedules>>
  PROVE  Unrolled' = Unrolled
BY SameScenario DEF Unrolled, Rolled

LEMMA CombineLinkTells ==
  ASSUME ScenarioInv, KindsInv, OutagesInv, NEW l \in Links, CombineLink(l)
  PROVE  OutagesInv'
<1> DEFINE c   == sim.links[l].comp
           new == IF c \in DOMAIN combined THEN Combine(schedules[l], combined[c]) ELSE schedules[l]
<1>1. /\ phase = "failures" /\ Unrolled = {} /\ l \in uncombined
      /\ UNCHANGED <<sim, queue, phase, schedules, rel, hits>>
      /\ combined' = Put(combined, c, new) /\ uncombined' = uncombined \ {l}
  BY DEF CombineLink
<1>2. Links' = Links /\ Components' = Components /\ Duration' = Duration /\ Unrolled' = Unrolled
  BY <1>1, SameScenario, SameUnrolled
<1>3. c \in Components
  BY LinkType
<1>4. Proper(schedules[l])
  BY <1>1, TellsProper DEF OutagesInv, LinksTell
<1>5. \A d : CombinedOf(d)' = IF d = c THEN CombinedOf(d) \cup {l} ELSE CombinedOf(d)
  BY <1>1, <1>2 DEF CombinedOf
<1> HIDE DEF c
<1>6. \A d \in Components : /\ d \in DOMAIN combined <=> CombinedOf(d) # {}
                            /\ d \in DOMAIN combined => IsCombined(combined[d], d)
  BY <1>1 DEF OutagesInv, PartsTell
<1>7. /\ Proper(new)
      /\ Times(new) = UNION {Times(schedules[k]) : k \in CombinedOf(c) \cup {l}}
      /\ \A t \in Nat :
           /\ UpAt(new, t) <=> \A k \in CombinedOf(c) \cup {l} : UpAt(schedules[k], t)
           /\ CausesAt(new, t) = UNION {CausesAt(schedules[k], t) : k \in CombinedOf(c) \cup {l}}
  <2>1. CASE c \in DOMAIN combined
    <3>1. IsCombined(combined[c], c)
      <4> HIDE DEF new
      <4> QED
        BY <1>3, <1>6, <2>1
    <3>2. /\ Proper(new)
          /\ Times(new) = Times(schedules[l]) \cup Times(combined[c])
          /\ \A t \in Nat :
               /\ UpAt(new, t) <=> UpAt(schedules[l], t) /\ UpAt(combined[c], t)
               /\ CausesAt(new, t) = CausesAt(schedules[l], t) \cup CausesAt(combined[c], t)
      BY <1>4, <2>1, <3>1, CombineMeans DEF IsCombined
    <3> HIDE DEF new
    <3> QED
      BY <3>1, <3>2 DEF IsCombined
  <2>2. CASE c \notin DOMAIN combined
    <3>1. CombinedOf(c) = {}
      <4> HIDE DEF new
      <4> QED
        BY <1>3, <1>6, <2>2
    <3>2. new = schedules[l] /\ CombinedOf(c) \cup {l} = {l}
      BY <2>2, <3>1
    <3> HIDE DEF new
    <3> QED
      BY <1>4, <3>2
  <2> QED
    BY <2>1, <2>2
<1> HIDE DEF c, new
<1>8. DOMAIN combined' = {c} \cup DOMAIN combined
      /\ \A d \in DOMAIN combined' : combined'[d] = IF d = c THEN new ELSE combined[d]
  BY <1>1 DEF Put
<1>9. ASSUME NEW d \in Components
      PROVE  /\ d \in DOMAIN combined' <=> CombinedOf(d)' # {}
             /\ d \in DOMAIN combined' => IsCombined(combined[d], d)'
  <2>1. CASE d = c
    <3>1. combined'[d] = new /\ d \in DOMAIN combined' /\ CombinedOf(d)' = CombinedOf(c) \cup {l}
      BY <1>5, <1>8, <2>1
    <3>2. IsCombined(combined[d], d)'
      BY <1>1, <1>7, <3>1 DEF IsCombined
    <3> QED
      BY <3>1, <3>2
  <2>2. CASE d # c
    <3>1. CombinedOf(d)' = CombinedOf(d) /\ (d \in DOMAIN combined' <=> d \in DOMAIN combined)
      BY <1>5, <1>8, <2>2
    <3>2. ASSUME d \in DOMAIN combined PROVE IsCombined(combined[d], d)'
      <4>1. combined'[d] = combined[d] /\ IsCombined(combined[d], d)
        BY <1>6, <1>8, <2>2, <3>2
      <4> QED
        BY <1>1, <3>1, <4>1 DEF IsCombined
    <3> QED
      BY <1>6, <3>1, <3>2
  <2> QED
    BY <2>1, <2>2
<1>10. PartsTell'
  BY <1>1, <1>2, <1>9 DEF OutagesInv, PartsTell
<1>11. LinksTell' /\ RolledFirst' /\ ReliabilitiesTell'
  BY <1>1, <1>2 DEF OutagesInv, LinksTell, RolledFirst, ReliabilitiesTell
<1> QED
  BY <1>10, <1>11 DEF OutagesInv

LEMMA NothingIsProper ==
  /\ Proper(<<>>)
  /\ \A t \in Nat : CausesAt(<<>>, t) = {}
<1>1. Proper(<<>>)
  BY NothingTells, TellsProper
<1>2. Times(<<>>) = {}
  BY DEF Times
<1> QED
  BY <1>1, <1>2, BeforeTheFirst

LEMMA LinksDown ==
  ASSUME ScenarioInv, LinksTell, phase = "failures", hits = {}, uncombined = {},
         NEW c \in Components, Begins(c) \in Nat, NEW t \in Nat
  PROVE  DownBecause(c, t) = UNION {CausesAt(schedules[l], Begins(c) + t) : l \in CombinedOf(c)}
<1> DEFINE at == Begins(c) + t
           why(l) == <<"failure", sim.links[l].mode>>
<1>1. at \in Nat /\ at = sim.age[c] + Offset + t
  BY DEF Begins
<1>2. FailedLinks(c, t) = {l \in CombinedOf(c) : ~ UpAt(schedules[l], at)}
  BY <1>1 DEF FailedLinks, CombinedOf
<1>3. Unrepaired(c, t) = {}
  BY DEF Unrepaired
<1>4. CombinedOf(c) \subseteq Links
  BY DEF CombinedOf
<1> HIDE DEF at
<1>5. ASSUME NEW l \in CombinedOf(c)
      PROVE  CausesAt(schedules[l], at) = IF UpAt(schedules[l], at) THEN {} ELSE {why(l)}
  <2>1. Tells(schedules[l], <<"failure", sim.links[l].mode>>, Duration)
    BY <1>4 DEF LinksTell
  <2> QED
    BY <1>1, <2>1, TellsWhy
<1>6. DownBecause(c, t) = {why(l) : l \in FailedLinks(c, t)}
  BY <1>3 DEF DownBecause
<1> HIDE DEF why
<1>7. \A x : x \in {why(l) : l \in FailedLinks(c, t)} <=>
             \E l \in CombinedOf(c) : x \in CausesAt(schedules[l], at)
  BY <1>2, <1>5
<1>8. DownBecause(c, t) = UNION {CausesAt(schedules[l], at) : l \in CombinedOf(c)}
  <2>1. \A x : x \in UNION {CausesAt(schedules[l], at) : l \in CombinedOf(c)} <=>
               \E l \in CombinedOf(c) : x \in CausesAt(schedules[l], at)
    OBVIOUS
  <2> QED
    BY <1>6, <1>7, <2>1
<1> QED
  BY <1>8 DEF at

LEMMA SameDown ==
  ASSUME UNCHANGED <<sim, queue, schedules, hits>>, NEW c, NEW t
  PROVE  DownBecause(c, t)' = DownBecause(c, t)
BY SameScenario DEF DownBecause, FailedLinks, Unrepaired

LEMMA ClipTells ==
  ASSUME ScenarioInv, KindsInv, OutagesSuit(sim), OutagesInv, phase = "failures",
         Unrolled = {}, uncombined = {}, NEW c \in Components, c \in DOMAIN combined
  PROVE  LET s == Clip(combined[c], Begins(c), Horizon(c))
         IN  /\ Proper(s) /\ \A v \in Times(s) : v <= Duration
             /\ \A t \in 0 .. Duration : CausesAt(s, t) = DownBecause(c, t)
<1>1. /\ Begins(c) \in Nat /\ Duration \in Nat /\ Begins(c) <= Horizon(c)
      /\ Horizon(c) = Begins(c) + Duration /\ Horizon(c) \in Nat
  BY TimesType DEF InScenario
<1>2. IsCombined(combined[c], c) /\ hits = {} /\ LinksTell
  BY DEF OutagesInv, PartsTell
<1> DEFINE s == combined[c]
<1>3. (\E i \in DOMAIN s : s[i].time \in Begins(c) .. Horizon(c)) \/ UpAt(s, Begins(c))
  <2> SUFFICES ASSUME ~ UpAt(s, Begins(c))
               PROVE  \E i \in DOMAIN s : s[i].time \in Begins(c) .. Horizon(c)
    OBVIOUS
  <2>1. PICK l \in CombinedOf(c) : ~ UpAt(schedules[l], Begins(c))
    BY <1>1, <1>2 DEF IsCombined
  <2>2. l \in Links /\ sim.links[l].comp = c
    BY DEF CombinedOf
  <2>3. Tells(schedules[l], <<"failure", sim.links[l].mode>>, Duration)
    BY <1>2, <2>2 DEF LinksTell
  <2>4. schedules[l] # <<>> /\ Last(schedules[l]).time >= Begins(c) + Duration
    <3>1. Rolled(l)
      BY <2>2 DEF Unrolled
    <3> QED
      BY <1>1, <2>2, <3>1 DEF Rolled
  <2>5. \E v \in Times(schedules[l]) : v \in Begins(c) .. Begins(c) + Duration
    BY <1>1, <2>1, <2>3, <2>4, OutageIsWithin
  <2>6. PICK v \in Times(schedules[l]) : v \in Begins(c) .. Begins(c) + Duration
    BY <2>5
  <2>7. v \in Times(s)
    BY <1>2, <2>6 DEF IsCombined
  <2> QED
    BY <1>1, <2>6, <2>7 DEF Times
<1>4. Proper(s)
  BY <1>2 DEF IsCombined
<1> HIDE DEF s
<1>5. /\ Proper(Clip(s, Begins(c), Horizon(c)))
      /\ \A v \in Times(Clip(s, Begins(c), Horizon(c))) : v <= Horizon(c) - Begins(c)
      /\ \A t \in 0 .. Horizon(c) - Begins(c) :
           CausesAt(Clip(s, Begins(c), Horizon(c)), t) = CausesAt(s, Begins(c) + t)
  BY <1>1, <1>3, <1>4, ClipMeans
<1>6. ASSUME NEW t \in 0 .. Duration
      PROVE  CausesAt(Clip(s, Begins(c), Horizon(c)), t) = DownBecause(c, t)
  <2>1. t \in Nat /\ t \in 0 .. Horizon(c) - Begins(c) /\ Begins(c) + t \in Nat
    BY <1>1
  <2>2. DownBecause(c, t) = UNION {CausesAt(schedules[l], Begins(c) + t) : l \in CombinedOf(c)}
    BY <1>1, <1>2, <2>1, LinksDown
  <2>3. CausesAt(s, Begins(c) + t) = UNION {CausesAt(schedules[l], Begins(c) + t) : l \in CombinedOf(c)}
    BY <1>2, <2>1 DEF IsCombined, s
  <2> QED
    BY <1>5, <2>1, <2>2, <2>3
<1>7. Horizon(c) - Begins(c) = Duration
  BY <1>1
<1> QED
  BY <1>5, <1>6, <1>7 DEF s

LEMMA ApplyTells ==
  ASSUME ScenarioInv, KindsInv, OutagesSuit(sim), OutagesInv, ApplyReliabilities
  PROVE  OutagesInv'
<1>1. /\ phase = "failures" /\ phase' = "fragilities" /\ Unrolled = {} /\ uncombined = {}
      /\ UNCHANGED <<sim, queue, schedules, hits>>
      /\ rel' = [c \in DOMAIN combined |-> Clip(combined[c], Begins(c), Horizon(c))]
  BY DEF ApplyReliabilities
<1>2. Links' = Links /\ Components' = Components /\ Duration' = Duration /\ Unrolled' = Unrolled
  BY <1>1, SameScenario, SameUnrolled
<1>3. ASSUME NEW c \in Components
      PROVE  /\ Proper(RelOf(c)')
             /\ \A t \in 0 .. Duration : CausesAt(RelOf(c)', t) = DownBecause(c, t)
  <2>1. CASE c \in DOMAIN combined
    <3>1. RelOf(c)' = Clip(combined[c], Begins(c), Horizon(c))
      BY <1>1, <2>1 DEF RelOf
    <3> QED
      BY <1>1, <2>1, <3>1, ClipTells
  <2>2. CASE c \notin DOMAIN combined
    <3>1. RelOf(c)' = <<>>
      BY <1>1, <2>2 DEF RelOf
    <3>2. CombinedOf(c) = {} /\ hits = {} /\ LinksTell
      BY <1>1, <2>2 DEF OutagesInv, PartsTell
    <3>3. Begins(c) \in Nat /\ Duration \in Nat
      BY <1>1, TimesType DEF InScenario
    <3>4. ASSUME NEW t \in 0 .. Duration PROVE DownBecause(c, t) = {} /\ t \in Nat
      <4>1. t \in Nat
        BY <3>3
      <4>2. DownBecause(c, t) = UNION {CausesAt(schedules[l], Begins(c) + t) : l \in CombinedOf(c)}
        BY <1>1, <3>2, <3>3, <4>1, LinksDown
      <4> QED
        BY <3>2, <4>1, <4>2
    <3> QED
      BY <3>1, <3>4, NothingIsProper
  <2> QED
    BY <2>1, <2>2
<1>4. \A c, t : DownBecause(c, t)' = DownBecause(c, t)
  BY <1>1, SameDown
<1>5. ReliabilitiesTell'
  BY <1>2, <1>3, <1>4 DEF ReliabilitiesTell
<1> QED
  BY <1>1, <1>2, <1>5 DEF OutagesInv, LinksTell, RolledFirst, PartsTell

LEMMA RepairsTakeTime ==
  ASSUME ScenarioInv, OutagesSuit(sim), NEW m \in DOMAIN sim.fragilityModes,
         NEW repair \in RepairTimes(sim.fragilityModes[m]),
         repair = {} \/ \E dt \in Nat : repair = {dt}
  PROVE  repair = {} \/ \E dt \in Nat : dt > 0 /\ repair = {dt}
<1> DEFINE mode == sim.fragilityModes[m]
<1>1. \A d \in mode.repair : \A dt \in Advances(DistOf(d)) : dt > 0
  BY DEF OutagesSuit, FailuresTakeTime, DistOf
<1> HIDE DEF mode
<1>2. repair \in RepairTimes(mode)
  BY DEF mode
<1>3. CASE mode.repair = {}
  BY <1>2, <1>3 DEF RepairTimes
<1>4. CASE mode.repair # {}
  <2>1. The(mode.repair) \in mode.repair
    BY <1>4 DEF The
  <2>2. PICK dt \in Advances(DistOf(The(mode.repair))) : repair = {dt}
    BY <1>2, <1>4 DEF RepairTimes
  <2> QED
    BY <1>1, <2>1, <2>2
<1> QED
  BY <1>3, <1>4

LEMMA HitTells ==
  ASSUME ScenarioInv, KindsInv, OutagesInv, phase = "fragilities",
         UNCHANGED <<sim, queue, schedules>>,
         NEW c \in Components, NEW cause \in Cause, NEW repair,
         repair = {} \/ \E dt \in Nat : dt > 0 /\ repair = {dt},
         rel' = Put(rel, c, IF c \in DOMAIN rel THEN Combine(rel[c], NewOutage(cause, repair))
                                                ELSE NewOutage(cause, repair)),
         hits' = hits \cup {[comp |-> c, cause |-> cause, repair |-> repair]},
         NEW d \in Components, Duration \in Nat
  PROVE  /\ Proper(RelOf(d)')
         /\ \A t \in 0 .. Duration : CausesAt(RelOf(d)', t) = DownBecause(d, t)'
<1> DEFINE new == NewOutage(cause, repair)
           r   == IF c \in DOMAIN rel THEN Combine(rel[c], new) ELSE new
           h   == [comp |-> c, cause |-> cause, repair |-> repair]
<1>1. /\ Proper(new)
      /\ \A t \in Nat : CausesAt(new, t) = IF \A dt \in repair : t < dt THEN {cause} ELSE {}
  BY NewOutageMeans
<1>2. /\ Proper(RelOf(d))
      /\ \A t \in 0 .. Duration : CausesAt(RelOf(d), t) = DownBecause(d, t)
  BY DEF OutagesInv, ReliabilitiesTell
<1>3. RelOf(d)' = IF d = c THEN r ELSE RelOf(d)
  BY DEF RelOf, Put
<1>4. hits' = hits \cup {h}
  OBVIOUS
<1>5. h.comp = c /\ h.cause = cause /\ h.repair = repair
  OBVIOUS
<1> HIDE DEF new, h
<1>6. ASSUME d = c
      PROVE  /\ Proper(r)
             /\ \A t \in Nat : CausesAt(r, t) = CausesAt(RelOf(d), t) \cup CausesAt(new, t)
  <2>1. CASE c \in DOMAIN rel
    <3>1. r = Combine(rel[c], new) /\ RelOf(d) = rel[c]
      BY <1>6, <2>1 DEF RelOf
    <3>2. Proper(rel[c])
      BY <1>2, <3>1
    <3> HIDE DEF r
    <3> QED
      BY <1>1, <3>1, <3>2, CombineMeans
  <2>2. CASE c \notin DOMAIN rel
    <3>1. r = new /\ RelOf(d) = <<>>
      BY <1>6, <2>2 DEF RelOf
    <3> HIDE DEF r
    <3> QED
      BY <1>1, <3>1, NothingIsProper
  <2> QED
    BY <2>1, <2>2
<1> HIDE DEF r
<1>7. ASSUME NEW t \in 0 .. Duration
      PROVE  CausesAt(RelOf(d)', t) = DownBecause(d, t)'
  <2> DEFINE F == {<<"failure", sim.links[l].mode>> : l \in FailedLinks(d, t)}
             added == IF d = c /\ (\A dt \in repair : t < dt) THEN {h} ELSE {}
  <2>1. FailedLinks(d, t)' = FailedLinks(d, t)
    BY SameScenario DEF FailedLinks
  <2>2. Unrepaired(d, t)' = Unrepaired(d, t) \cup added
    BY <1>4, <1>5 DEF Unrepaired
  <2>3. /\ DownBecause(d, t) = F \cup {x.cause : x \in Unrepaired(d, t)}
        /\ DownBecause(d, t)' = F \cup {x.cause : x \in Unrepaired(d, t) \cup added}
    BY <2>1, <2>2 DEF DownBecause
  <2> HIDE DEF F
  <2>4. t \in Nat
    OBVIOUS
  <2>5. CASE d = c
    <3>1. CausesAt(RelOf(d)', t) = DownBecause(d, t) \cup CausesAt(new, t)
      BY <1>2, <1>3, <1>6, <2>4, <2>5
    <3>2. CausesAt(new, t) = {x.cause : x \in added}
      BY <1>1, <1>5, <2>4, <2>5
    <3> HIDE DEF added
    <3> QED
      BY <2>3, <3>1, <3>2
  <2>6. CASE d # c
    <3>1. added = {}
      BY <2>6
    <3>2. CausesAt(RelOf(d)', t) = DownBecause(d, t)
      BY <1>2, <1>3, <2>6
    <3> HIDE DEF added
    <3> QED
      BY <2>3, <3>1, <3>2
  <2> QED
    BY <2>5, <2>6
<1>8. Proper(RelOf(d)')
  BY <1>2, <1>3, <1>6
<1> QED
  BY <1>7, <1>8

LEMMA EvaluateTells ==
  ASSUME ScenarioInv, KindsInv, OutagesSuit(sim), OutagesInv, EvaluateFragility
  PROVE  OutagesInv'
<1> DEFINE fragility == sim.fragilities[evaluated + 1]
           c         == fragility.comp
           cause     == <<"fragility", fragility.mode>>
           Repaired(repair) ==
             /\ repair = {} \/ \E dt \in Nat : dt > 0 /\ repair = {dt}
             /\ rel' = Put(rel, c, IF c \in DOMAIN rel THEN Combine(rel[c], NewOutage(cause, repair))
                                                      ELSE NewOutage(cause, repair))
             /\ hits' = hits \cup {[comp |-> c, cause |-> cause, repair |-> repair]}
<1>1. /\ c \in Components /\ cause \in Cause
      /\ phase = "fragilities" /\ fragility.mode \in DOMAIN sim.fragilityModes
      /\ UNCHANGED <<sim, phase, queue, schedules, uncombined>>
  BY HitIs
<1>2. UNCHANGED <<rel, hits>> \/ \E repair : Repaired(repair)
  BY HitIs, RepairsTakeTime
<1>3. Links' = Links /\ Components' = Components /\ Duration' = Duration /\ Unrolled' = Unrolled
  BY <1>1, SameScenario, SameUnrolled
<1>4. Duration \in Nat
  BY <1>1, TimesType DEF InScenario
<1> HIDE DEF c, cause
<1>5. ReliabilitiesTell'
  <2>1. CASE UNCHANGED <<rel, hits>>
    <3>1. \A d, t : DownBecause(d, t)' = DownBecause(d, t) /\ RelOf(d)' = RelOf(d)
      BY <1>1, <2>1, SameDown DEF RelOf
    <3> QED
      BY <1>1, <1>3, <3>1 DEF OutagesInv, ReliabilitiesTell
  <2>2. CASE \E repair : Repaired(repair)
    <3>1. PICK repair : Repaired(repair)
      BY <2>2
    <3>2. \A d \in Components :
            /\ Proper(RelOf(d)')
            /\ \A t \in 0 .. Duration : CausesAt(RelOf(d)', t) = DownBecause(d, t)'
      BY <1>1, <1>4, <3>1, HitTells
    <3> QED
      BY <1>3, <3>2 DEF ReliabilitiesTell
  <2> QED
    BY <1>2, <2>1, <2>2
<1> QED
  BY <1>1, <1>3, <1>5 DEF OutagesInv, LinksTell, RolledFirst, PartsTell

LEMMA OutagesKeep ==
  ASSUME \A input \in Sims : OutagesSuit(input),
         ScenarioInv, ScenarioInv', KindsInv, KindsInv', OutagesInv, [Next]_vars
  PROVE  OutagesInv'
<1>1. OutagesSuit(sim)
  BY DEF ScenarioInv, RowsAreOfScenarios
<1> DEFINE quiet == phase' \notin {"failures", "fragilities"}
<1>2. CASE quiet
  BY <1>2 DEF OutagesInv, LinksTell, RolledFirst, PartsTell, ReliabilitiesTell
<1>3. CASE OpenEvents
  BY <1>2, <1>3 DEF OpenEvents
<1>4. CASE BeginScenario
  BY <1>2, <1>4 DEF BeginScenario
<1>5. CASE StopAtUnhandled
  BY <1>2, <1>5 DEF StopAtUnhandled
<1>6. CASE RollStart
  BY <1>2, <1>6 DEF RollStart
<1>7. CASE EndScenario
  BY <1>2, <1>7 DEF EndScenario
<1>8. CASE Finish
  BY <1>2, <1>8 DEF Finish
<1>9. CASE BeginOccurrence
  BY <1>9, BeginOccurrenceTells
<1>10. CASE RollNext
  BY <1>1, <1>10, RollNextTells
<1>11. CASE \E l \in Links : CombineLink(l)
  BY <1>11, CombineLinkTells
<1>12. CASE ApplyReliabilities
  BY <1>1, <1>12, ApplyTells
<1>13. CASE EvaluateFragility
  BY <1>1, <1>13, EvaluateTells
<1>14. CASE SimulateOccurrence
  BY <1>2, <1>14 DEF SimulateOccurrence
<1>15. CASE UNCHANGED vars
  <2>1. /\ UNCHANGED <<sim, phase, queue, schedules, uncombined, combined, rel, hits>>
    BY <1>15 DEF vars, made
  <2>2. /\ Links' = Links /\ Components' = Components /\ Duration' = Duration
        /\ Unrolled' = Unrolled
        /\ \A d, t : DownBecause(d, t)' = DownBecause(d, t) /\ RelOf(d)' = RelOf(d)
        /\ \A d : CombinedOf(d)' = CombinedOf(d)
    BY <2>1, SameScenario, SameUnrolled, SameDown DEF RelOf, CombinedOf
  <2>3. LinksTell' /\ RolledFirst' /\ ReliabilitiesTell'
    BY <2>1, <2>2 DEF OutagesInv, LinksTell, RolledFirst, ReliabilitiesTell
  <2>4. PartsTell'
    BY <2>1, <2>2 DEF OutagesInv, PartsTell, IsCombined
  <2> QED
    BY <2>3, <2>4 DEF OutagesInv
<1> QED
  BY <1>3, <1>4, <1>5, <1>6, <1>7, <1>8, <1>9, <1>10, <1>11, <1>12, <1>13, <1>14, <1>15 DEF Next

LEMMA OutagesHold ==
  ASSUME \A input \in Sims : OutagesSuit(input)
  PROVE  Spec => []OutagesInv
<1>1. Init => OutagesInv
  BY DEF Init, OutagesInv, LinksTell, RolledFirst, PartsTell, ReliabilitiesTell
<1>2. ScenarioInv /\ ScenarioInv' /\ KindsInv /\ KindsInv' /\ OutagesInv /\ [Next]_vars => OutagesInv'
  BY OutagesKeep
<1> QED
  BY <1>1, <1>2, ScenarioInvHolds, KindsHold, PTL DEF Spec

(* The outages of an occurrence are applied as they were rolled: at every  *)
(* tick of a scenario a component is down in the simulation exactly when   *)
(* one of its failure modes or fragilities has it down, for those causes - *)
(* through the shift by its age and the scenario's offset, whatever the    *)
(* order in which the schedules of its modes are combined.                 *)
THEOREM OutagesApply ==
  ASSUME \A input \in Sims : OutagesSuit(input)
  PROVE  Spec => []OutagesAreApplied
<1>1. ScenarioInv /\ KindsInv /\ OutagesInv => OutagesAreApplied
  <2> SUFFICES ASSUME ScenarioInv, KindsInv, OutagesInv, Applied,
                      NEW c \in Components, NEW t \in Ticks
               PROVE  /\ CausesAt(RelOf(c), t) = DownBecause(c, t)
                      /\ UpAt(RelOf(c), t) <=> DownBecause(c, t) = {}
    BY DEF OutagesAreApplied
  <2>1. phase = "fragilities"
    BY DEF Applied
  <2>2. OutagesSuit(sim)
    BY DEF ScenarioInv, RowsAreOfScenarios
  <2>3. Duration \in Nat
    BY <2>1, <2>2, TimesType DEF InScenario
  <2>4. t \in Nat /\ t \in 0 .. Duration
    BY <2>3 DEF Ticks
  <2>5. Proper(RelOf(c)) /\ CausesAt(RelOf(c), t) = DownBecause(c, t)
    BY <2>1, <2>4 DEF OutagesInv, ReliabilitiesTell
  <2> QED
    BY <2>4, <2>5, ProperSaysWhy
<1> QED
  BY <1>1, ScenarioInvHolds, KindsHold, OutagesHold, PTL

(* The schedules a component is simulated with are ones the simulation's   *)
(* events can follow: strictly forward in time, none before the start of   *)
(* the scenario, no repair after a repair, and a cause for every failure.  *)
THEOREM SchedulesSuit ==
  ASSUME \A input \in Sims : OutagesSuit(input)
  PROVE  Spec => []SchedulesSuitTheSimulation
<1>1. ScenarioInv /\ KindsInv /\ OutagesInv => SchedulesSuitTheSimulation
  <2> SUFFICES ASSUME ScenarioInv, KindsInv, OutagesInv, Applied, NEW c \in DOMAIN rel
               PROVE  /\ \A i \in 2 .. Len(rel[c]) :
                           /\ rel[c][i - 1].time < rel[c][i].time
                           /\ rel[c][i - 1].state => ~ rel[c][i].state
                      /\ \A i \in DOMAIN rel[c] :
                           rel[c][i].time >= 0 /\ (rel[c][i].state <=> rel[c][i].causes = {})
    BY DEF SchedulesSuitTheSimulation
  <2> DEFINE s == rel[c]
  <2>1. c \in Components
    BY DEF KindsInv, ReliabilitiesAreSchedules
  <2>2. Proper(s)
    <3>1. RelOf(c) = s
      BY DEF RelOf
    <3> QED
      BY <2>1, <3>1 DEF Applied, OutagesInv, ReliabilitiesTell
  <2> HIDE DEF s
  <2>3. /\ Len(s) \in Nat /\ DOMAIN s = 1 .. Len(s)
        /\ \A i \in DOMAIN s : s[i].time \in Nat
        /\ \A i, j \in DOMAIN s : i < j => s[i].time < s[j].time
    BY <2>2 DEF Proper, Forward, Timed
  <2>4. ASSUME NEW i \in 2 .. Len(s)
        PROVE  s[i - 1].time < s[i].time /\ (s[i - 1].state => ~ s[i].state)
    <3>1. i \in DOMAIN s /\ i - 1 \in DOMAIN s /\ i - 1 < i /\ i # 1
      BY <2>3
    <3> QED
      BY <2>2, <2>3, <3>1 DEF Proper, NotRepeated
  <2>5. \A i \in DOMAIN s : s[i].time >= 0 /\ (s[i].state <=> s[i].causes = {})
    BY <2>2, <2>3 DEF Proper, Honest
  <2> QED
    BY <2>4, <2>5 DEF s
<1> QED
  BY <1>1, ScenarioInvHolds, KindsHold, OutagesHold, PTL

-----------------------------------------------------------------------------
(* How long states last together is how many ticks they take up.           *)
TotalTo(sum, n, s, chosen, end) ==
  sum = [k \in 0 .. n |->
           IF k = 0 THEN 0
           ELSE sum[k - 1] + (IF k \in chosen THEN Lasts(s, k, end) ELSE 0)]

LEMMA TotalExists ==
  ASSUME NEW s, NEW chosen, NEW end
  PROVE  \A n \in Nat : \E sum : TotalTo(sum, n, s, chosen, end)
<1> DEFINE part == [k \in Nat |-> IF k \in chosen THEN Lasts(s, k, end) ELSE 0]
           T == {n \in Nat : \E f : f = [k \in 0 .. n |-> IF k = 0 THEN 0 ELSE f[k - 1] + part[k]]}
<1>1. 0 \in T
  <2>1. [k \in 0 .. 0 |-> 0] = [k \in 0 .. 0 |-> IF k = 0 THEN 0 ELSE [j \in 0 .. 0 |-> 0][k - 1] + part[k]]
    OBVIOUS
  <2> QED
    BY <2>1
<1>2. ASSUME NEW n \in T PROVE n + 1 \in T
  <2> HIDE DEF part
  <2>1. PICK f : f = [k \in 0 .. n |-> IF k = 0 THEN 0 ELSE f[k - 1] + part[k]]
    OBVIOUS
  <2>0. n \in Nat
    OBVIOUS
  <2> DEFINE g == [k \in 0 .. n + 1 |-> IF k = n + 1 THEN f[n] + part[k] ELSE f[k]]
  <2>2. \A k \in 0 .. n : g[k] = f[k]
    BY <2>0
  <2>3. g[n + 1] = f[n] + part[n + 1]
    BY <2>0
  <2>4. g = [k \in 0 .. n + 1 |-> g[k]]
    OBVIOUS
  <2> HIDE DEF g, T
  <2>5. ASSUME NEW k \in 0 .. n + 1
        PROVE  g[k] = IF k = 0 THEN 0 ELSE g[k - 1] + part[k]
    <3>1. CASE k = n + 1
      <4>1. k # 0 /\ k - 1 = n /\ n \in 0 .. n
        BY <2>0, <3>1
      <4> QED
        BY <2>2, <2>3, <3>1, <4>1
    <3>2. CASE k \in 0 .. n
      <4>1. f[k] = IF k = 0 THEN 0 ELSE f[k - 1] + part[k]
        BY <2>1, <3>2
      <4>2. k # 0 => k - 1 \in 0 .. n
        BY <2>0, <3>2
      <4> QED
        BY <2>2, <3>2, <4>1, <4>2
    <3> QED
      BY <2>0, <3>1, <3>2
  <2>6. g = [k \in 0 .. n + 1 |-> IF k = 0 THEN 0 ELSE g[k - 1] + part[k]]
    BY <2>4, <2>5
  <2> QED
    BY <2>0, <2>6 DEF T
<1>3. T = Nat
  <2>1. T \subseteq Nat
    OBVIOUS
  <2> HIDE DEF T
  <2> QED
    BY <1>1, <1>2, <2>1, SetInduction
<1>4. ASSUME NEW n \in Nat PROVE \E sum : TotalTo(sum, n, s, chosen, end)
  <2>1. PICK f : f = [k \in 0 .. n |-> IF k = 0 THEN 0 ELSE f[k - 1] + part[k]]
    BY <1>3
  <2>2. \A k \in 0 .. n : part[k] = IF k \in chosen THEN Lasts(s, k, end) ELSE 0
    OBVIOUS
  <2> HIDE DEF part, T
  <2>3. f = [k \in 0 .. n |->
               IF k = 0 THEN 0
               ELSE f[k - 1] + (IF k \in chosen THEN Lasts(s, k, end) ELSE 0)]
    BY <2>1, <2>2
  <2> QED
    BY <2>3 DEF TotalTo
<1> QED
  BY <1>4

LEMMA TogetherIs ==
  ASSUME NEW s, Len(s) \in Nat, NEW chosen, NEW end
  PROVE  \E sum : /\ Together(s, chosen, end) = sum[Len(s)]
                  /\ sum[0] = 0
                  /\ \A n \in 1 .. Len(s) :
                       sum[n] = sum[n - 1] + (IF n \in chosen THEN Lasts(s, n, end) ELSE 0)
<1> DEFINE sum == CHOOSE f : TotalTo(f, Len(s), s, chosen, end)
<1>1. TotalTo(sum, Len(s), s, chosen, end)
  <2>1. \E f : TotalTo(f, Len(s), s, chosen, end)
    BY TotalExists
  <2> QED
    BY <2>1
<1>2. Together(s, chosen, end) = sum[Len(s)]
  BY DEF Together, TotalTo
<1> HIDE DEF sum
<1>3. sum[0] = 0
  BY <1>1 DEF TotalTo
<1>4. ASSUME NEW n \in 1 .. Len(s)
      PROVE  sum[n] = sum[n - 1] + (IF n \in chosen THEN Lasts(s, n, end) ELSE 0)
  <2>1. n \in 0 .. Len(s) /\ n # 0
    OBVIOUS
  <2> QED
    BY <1>1, <2>1 DEF TotalTo
<1> QED
  BY <1>2, <1>3, <1>4

(* The ticks at which the i-th state is in force.                          *)
Span(s, i, end) == s[i].time .. s[i].time + Lasts(s, i, end) - 1

EndsBy(s, end) == \A i \in DOMAIN s : s[i].time <= end

LEMMA LastsType ==
  ASSUME NEW s, Forward(s), NEW end \in Nat, EndsBy(s, end), NEW i \in DOMAIN s
  PROVE  /\ Lasts(s, i, end) \in Nat
         /\ i < Len(s) => /\ i + 1 \in DOMAIN s /\ Lasts(s, i, end) > 0
                          /\ s[i].time + Lasts(s, i, end) = s[i + 1].time
         /\ i = Len(s) => s[i].time + Lasts(s, i, end) = end
         /\ s[i].time + Lasts(s, i, end) <= end
         /\ s[i].time \in Nat /\ s[i].time <= end
         /\ Span(s, i, end) \subseteq Nat
<1>1. /\ Len(s) \in Nat /\ DOMAIN s = 1 .. Len(s) /\ i \in 1 .. Len(s)
      /\ s[i].time \in Nat /\ s[i].time <= end
  BY DEF Forward, Timed, EndsBy
<1>2. CASE i < Len(s)
  <2>1. i + 1 \in DOMAIN s /\ i \in DOMAIN s /\ i < i + 1
    BY <1>1, <1>2
  <2>2. s[i + 1].time \in Nat /\ s[i].time < s[i + 1].time /\ s[i + 1].time <= end
    BY <2>1 DEF Forward, Timed, EndsBy
  <2>3. Lasts(s, i, end) = s[i + 1].time - s[i].time
    BY <1>2 DEF Lasts
  <2> DEFINE a == s[i].time
             b == s[i + 1].time
  <2> HIDE DEF a, b
  <2> QED
    BY <1>1, <1>2, <2>1, <2>2, <2>3 DEF Span, a, b
<1>3. CASE i = Len(s)
  <2>1. Lasts(s, i, end) = end - s[i].time
    BY <1>1, <1>3 DEF Lasts
  <2> QED
    BY <1>1, <1>3, <2>1 DEF Span
<1> QED
  BY <1>1, <1>2, <1>3

LEMMA SpanIs ==
  ASSUME NEW s, Forward(s), NEW end \in Nat, EndsBy(s, end), NEW i \in DOMAIN s,
         NEW t \in Nat
  PROVE  t \in Span(s, i, end) <=> t < end /\ Reached(s, i, t) /\ s[i].time <= t
<1>1. /\ Len(s) \in Nat /\ DOMAIN s = 1 .. Len(s) /\ i \in 1 .. Len(s) /\ i \in Nat
      /\ \A k \in DOMAIN s : s[k].time \in Nat
      /\ \A j, k \in DOMAIN s : j < k => s[j].time < s[k].time
  BY DEF Forward, Timed
<1> DEFINE until == s[i].time + Lasts(s, i, end)
<1>2. /\ until \in Nat /\ until <= end /\ s[i].time \in Nat
      /\ i < Len(s) => i + 1 \in DOMAIN s /\ until = s[i + 1].time
      /\ i = Len(s) => until = end
  BY LastsType
<1>3. t \in Span(s, i, end) <=> s[i].time <= t /\ t < until
  <2> DEFINE a == s[i].time
             d == Lasts(s, i, end)
  <2>1. a \in Nat /\ d \in Nat
    BY LastsType
  <2>2. Span(s, i, end) = a .. a + d - 1 /\ until = a + d
    BY DEF Span
  <2> HIDE DEF a, d, until
  <2>3. t \in a .. a + d - 1 <=> a <= t /\ t < a + d
    BY <2>1
  <2> QED
    BY <2>2, <2>3 DEF a
<1> HIDE DEF until
<1>4. ASSUME s[i].time <= t, t < until PROVE t < end /\ Reached(s, i, t)
  <2>1. ASSUME NEW k \in DOMAIN s, s[k].time <= t, ~ (k <= i) PROVE FALSE
    <3>1. i < Len(s) /\ i + 1 <= k /\ k \in Nat
      BY <1>1, <2>1
    <3>2. s[i + 1].time <= s[k].time
      <4>1. CASE k = i + 1
        BY <1>1, <1>2, <3>1, <4>1
      <4>2. CASE i + 1 < k
        BY <1>1, <1>2, <3>1, <4>2
      <4> QED
        BY <3>1, <4>1, <4>2
    <3>3. s[i + 1].time \in Nat /\ s[k].time \in Nat
      BY <1>1, <1>2, <3>1
    <3> QED
      BY <1>2, <1>4, <2>1, <3>1, <3>2, <3>3
  <2>2. ~ (s[i].time > t)
    BY <1>2, <1>4
  <2> QED
    BY <1>2, <1>4, <2>1, <2>2 DEF Reached
<1>5. ASSUME t < end, Reached(s, i, t), s[i].time <= t PROVE t < until
  <2>1. CASE i < Len(s)
    <3>1. ~ (s[i + 1].time <= t)
      BY <1>1, <1>2, <1>5, <2>1 DEF Reached
    <3>2. s[i + 1].time \in Nat
      BY <1>1, <1>2, <2>1
    <3> QED
      BY <1>2, <2>1, <3>1, <3>2
  <2>2. CASE i = Len(s)
    BY <1>2, <1>5, <2>2
  <2> QED
    BY <1>1, <2>1, <2>2
<1> QED
  BY <1>3, <1>4, <1>5

LEMMA TogetherTakesUp ==
  ASSUME NEW s, Forward(s), NEW end \in Nat, EndsBy(s, end),
         NEW chosen, chosen \subseteq DOMAIN s
  PROVE  Together(s, chosen, end) = Cardinality(UNION {Span(s, i, end) : i \in chosen})
<1>1. /\ Len(s) \in Nat /\ DOMAIN s = 1 .. Len(s)
      /\ \A i \in DOMAIN s : s[i].time \in Nat
      /\ \A i, j \in DOMAIN s : i < j => s[i].time < s[j].time
  BY DEF Forward, Timed
<1>2. PICK sum : /\ Together(s, chosen, end) = sum[Len(s)]
                 /\ sum[0] = 0
                 /\ \A n \in 1 .. Len(s) :
                      sum[n] = sum[n - 1] + (IF n \in chosen THEN Lasts(s, n, end) ELSE 0)
  BY <1>1, TogetherIs
<1> DEFINE To(n) == UNION {Span(s, i, end) : i \in chosen \cap (1 .. n)}
           T == {n \in Nat : n <= Len(s) => IsFiniteSet(To(n)) /\ sum[n] = Cardinality(To(n))}
<1>3. 0 \in T
  <2>1. chosen \cap (1 .. 0) = {}
    OBVIOUS
  <2>2. To(0) = {}
    BY <2>1
  <2> HIDE DEF To
  <2> QED
    BY <1>2, <2>2, FS_EmptySet
<1>4. ASSUME NEW n \in T PROVE n + 1 \in T
  <2>0. n \in Nat
    OBVIOUS
  <2> SUFFICES ASSUME n + 1 <= Len(s)
               PROVE  IsFiniteSet(To(n + 1)) /\ sum[n + 1] = Cardinality(To(n + 1))
    BY <2>0
  <2>1. /\ n <= Len(s) /\ n + 1 \in 1 .. Len(s) /\ (n + 1) - 1 = n
        /\ IsFiniteSet(To(n)) /\ sum[n] = Cardinality(To(n))
    BY <1>1, <2>0
  <2>2. sum[n + 1] = sum[n] + (IF n + 1 \in chosen THEN Lasts(s, n + 1, end) ELSE 0)
    BY <1>2, <2>1
  <2>3. Cardinality(To(n)) \in Nat
    BY <2>1, FS_CardinalityType
  <2>4. CASE n + 1 \notin chosen
    <3>1. chosen \cap (1 .. n + 1) = chosen \cap (1 .. n)
      BY <2>0, <2>4
    <3>2. To(n + 1) = To(n)
      BY <3>1
    <3> HIDE DEF To, T
    <3> QED
      BY <2>1, <2>2, <2>3, <2>4, <3>2
  <2>5. CASE n + 1 \in chosen
    <3>1. chosen \cap (1 .. n + 1) = (chosen \cap (1 .. n)) \cup {n + 1}
      BY <2>0, <2>5
    <3>2. To(n + 1) = To(n) \cup Span(s, n + 1, end)
      BY <3>1
    <3>3. /\ Lasts(s, n + 1, end) \in Nat /\ s[n + 1].time \in Nat
      BY <1>1, <2>1, LastsType
    <3>4. /\ IsFiniteSet(Span(s, n + 1, end))
          /\ Cardinality(Span(s, n + 1, end)) = Lasts(s, n + 1, end)
      <4> DEFINE a == s[n + 1].time
                 d == Lasts(s, n + 1, end)
      <4>1. a \in Nat /\ d \in Nat
        BY <3>3
      <4>2. Span(s, n + 1, end) = a .. a + d - 1
        BY DEF Span
      <4> HIDE DEF a, d
      <4>5. a \in Int /\ a + d - 1 \in Int
        BY <4>1
      <4>3. /\ IsFiniteSet(a .. a + d - 1)
            /\ Cardinality(a .. a + d - 1) = IF a > a + d - 1 THEN 0 ELSE (a + d - 1) - a + 1
        BY <4>5, FS_Interval
      <4>4. Cardinality(a .. a + d - 1) = d
        BY <4>1, <4>3
      <4> QED
        BY <4>2, <4>3, <4>4 DEF d
    <3>5. To(n) \cap Span(s, n + 1, end) = {}
      <4> SUFFICES ASSUME NEW t, t \in To(n), t \in Span(s, n + 1, end)
                   PROVE  FALSE
        OBVIOUS
      <4>1. PICK i \in chosen \cap (1 .. n) : t \in Span(s, i, end)
        OBVIOUS
      <4>2. i \in DOMAIN s /\ n + 1 \in DOMAIN s /\ i < n + 1
        BY <1>1, <2>0, <2>1
      <4>3. t \in Nat
        BY <4>1, <4>2, LastsType
      <4>4. Reached(s, i, t) /\ s[n + 1].time <= t
        BY <4>1, <4>2, <4>3, SpanIs
      <4>5. n + 1 <= i
        BY <4>2, <4>4 DEF Reached
      <4> QED
        BY <2>0, <4>2, <4>5
    <3> HIDE DEF To, T
    <3>6. /\ IsFiniteSet(To(n) \cup Span(s, n + 1, end))
          /\ Cardinality(To(n) \cup Span(s, n + 1, end)) =
               Cardinality(To(n)) + Cardinality(Span(s, n + 1, end))
               - Cardinality(To(n) \cap Span(s, n + 1, end))
      BY <2>1, <3>4, FS_Union
    <3>7. Cardinality(To(n) \cap Span(s, n + 1, end)) = 0
      BY <3>5, FS_EmptySet
    <3>8. Cardinality(To(n + 1)) = Cardinality(To(n)) + Lasts(s, n + 1, end)
      <4> DEFINE x == Cardinality(To(n))
                 y == Lasts(s, n + 1, end)
      <4>1. x \in Nat /\ y \in Nat
        BY <2>3, <3>3
      <4>2. Cardinality(To(n + 1)) = x + y - 0
        BY <3>2, <3>4, <3>6, <3>7
      <4> HIDE DEF x, y
      <4>3. x + y - 0 = x + y
        BY <4>1
      <4> QED
        BY <4>2, <4>3 DEF x, y
    <3> QED
      BY <2>1, <2>2, <2>5, <3>2, <3>6, <3>8
  <2> QED
    BY <2>4, <2>5
<1>5. T = Nat
  <2>1. T \subseteq Nat
    OBVIOUS
  <2> HIDE DEF T
  <2> QED
    BY <1>3, <1>4, <2>1, SetInduction
<1>6. sum[Len(s)] = Cardinality(To(Len(s)))
  <2>1. Len(s) \in T
    BY <1>1, <1>5
  <2> HIDE DEF To
  <2> QED
    BY <1>1, <2>1
<1>7. To(Len(s)) = UNION {Span(s, i, end) : i \in chosen}
  <2>1. chosen \cap (1 .. Len(s)) = chosen
    BY <1>1
  <2> QED
    BY <2>1
<1> QED
  BY <1>2, <1>6, <1>7

(* At a tick before the end a component is down, or down for a cause, when *)
(* a state that says so is in force.                                       *)
LEMMA DownInSpans ==
  ASSUME NEW s, Proper(s), NEW end \in Nat, EndsBy(s, end), NEW t \in 0 .. end - 1
  PROVE  /\ ~ UpAt(s, t) <=> \E i \in Failed(s) : t \in Span(s, i, end)
         /\ \A cause : cause \in CausesAt(s, t) <=>
                         \E i \in Failing(s, cause) : t \in Span(s, i, end)
<1>1. t \in Nat /\ t < end /\ Forward(s) /\ Honest(s)
  BY DEF Proper
<1>2. ASSUME NEW i \in DOMAIN s, t \in Span(s, i, end) PROVE StateAt(s, t) = s[i]
  BY <1>1, <1>2, SpanIs, ReachedState
<1>3. \A i \in DOMAIN s : s[i].state <=> s[i].causes = {}
  BY <1>1 DEF Honest
<1>4. ASSUME ~ UpAt(s, t) \/ CausesAt(s, t) # {}
      PROVE  \E i \in DOMAIN s : t \in Span(s, i, end) /\ StateAt(s, t) = s[i]
  <2>1. s # <<>>
    <3> SUFFICES ASSUME s = <<>> PROVE FALSE
      OBVIOUS
    <3>1. Times(s) = {}
      BY DEF Times
    <3>2. UpAt(s, t) /\ CausesAt(s, t) = {}
      BY <1>1, <3>1, BeforeTheFirst
    <3> QED
      BY <1>4, <3>2
  <2>2. PICK i \in DOMAIN s : Reached(s, i, t)
    BY <1>1, <2>1, SomethingIsReached
  <2>3. StateAt(s, t) = IF s[i].time <= t THEN s[i] ELSE Up(t)
    BY <1>1, <2>2, ReachedState
  <2>4. s[i].time <= t
    BY <1>4, <2>3 DEF UpAt, CausesAt, Up
  <2> QED
    BY <1>1, <2>2, <2>3, <2>4, SpanIs
<1>5. ~ UpAt(s, t) <=> \E i \in Failed(s) : t \in Span(s, i, end)
  <2>1. ASSUME ~ UpAt(s, t) PROVE \E i \in Failed(s) : t \in Span(s, i, end)
    BY <1>4, <2>1 DEF UpAt, Failed
  <2>2. ASSUME NEW i \in Failed(s), t \in Span(s, i, end) PROVE ~ UpAt(s, t)
    BY <1>2, <2>2 DEF UpAt, Failed
  <2> QED
    BY <2>1, <2>2
<1>6. ASSUME NEW cause
      PROVE  cause \in CausesAt(s, t) <=> \E i \in Failing(s, cause) : t \in Span(s, i, end)
  <2>1. ASSUME cause \in CausesAt(s, t) PROVE \E i \in Failing(s, cause) : t \in Span(s, i, end)
    <3>1. PICK i \in DOMAIN s : t \in Span(s, i, end) /\ StateAt(s, t) = s[i]
      BY <1>4, <2>1
    <3>2. cause \in s[i].causes
      BY <2>1, <3>1 DEF CausesAt
    <3>3. ~ s[i].state
      BY <1>3, <3>2
    <3> QED
      BY <3>1, <3>2, <3>3 DEF Failing, Failed
  <2>2. ASSUME NEW i \in Failing(s, cause), t \in Span(s, i, end) PROVE cause \in CausesAt(s, t)
    BY <1>2, <2>2 DEF CausesAt, Failing, Failed
  <2> QED
    BY <2>1, <2>2
<1> QED
  BY <1>5, <1>6

LEMMA SpansAreTicks ==
  ASSUME NEW s, Forward(s), NEW end \in Nat, EndsBy(s, end), NEW i \in DOMAIN s,
         NEW t \in Span(s, i, end)
  PROVE  t \in 0 .. end - 1
<1>1. t \in Nat
  BY LastsType
<1>2. t < end
  BY <1>1, SpanIs
<1> QED
  BY <1>1, <1>2

LEMMA AvailabilityIs ==
  ASSUME NEW s, Proper(s), NEW end \in Nat, EndsBy(s, end)
  PROVE  CalcAvailability(s, end) = Cardinality({t \in 0 .. end - 1 : UpAt(s, t)})
<1> DEFINE all  == 0 .. end - 1
           down == UNION {Span(s, i, end) : i \in Failed(s)}
           up   == {t \in all : UpAt(s, t)}
<1>1. Forward(s) /\ Failed(s) \subseteq DOMAIN s
  BY DEF Proper, Failed
<1>2. IsFiniteSet(all) /\ Cardinality(all) = end
  <2>1. 0 \in Int /\ end - 1 \in Int
    OBVIOUS
  <2>2. IsFiniteSet(all) /\ Cardinality(all) = IF 0 > end - 1 THEN 0 ELSE (end - 1) - 0 + 1
    BY <2>1, FS_Interval
  <2> HIDE DEF all
  <2> QED
    BY <2>2
<1>3. down \subseteq all
  <2> SUFFICES ASSUME NEW t, t \in down PROVE t \in all
    OBVIOUS
  <2>1. PICK i \in Failed(s) : t \in Span(s, i, end)
    OBVIOUS
  <2> QED
    BY <1>1, <2>1, SpansAreTicks
<1>4. up = all \ down
  <2>1. ASSUME NEW t \in all PROVE UpAt(s, t) <=> t \notin down
    <3>1. ~ UpAt(s, t) <=> \E i \in Failed(s) : t \in Span(s, i, end)
      BY DownInSpans
    <3> QED
      BY <3>1
  <2> HIDE DEF down, all
  <2> QED
    BY <2>1
<1>5. Together(s, Failed(s), end) = Cardinality(down)
  BY <1>1, TogetherTakesUp
<1>6. Cardinality(all \ down) = Cardinality(all) - Cardinality(down)
  <2> HIDE DEF all, down
  <2>1. Cardinality(all \ down) = Cardinality(all) - Cardinality(all \cap down)
    BY <1>2, FS_Difference
  <2>2. all \cap down = down
    BY <1>3
  <2> QED
    BY <2>1, <2>2
<1> HIDE DEF all, down
<1>7. CalcAvailability(s, end) = end - Cardinality(down)
  BY <1>5 DEF CalcAvailability
<1> QED
  BY <1>2, <1>4, <1>6, <1>7 DEF all

LEMMA EachStateLasts ==
  ASSUME NEW s, Forward(s), NEW end \in Nat, EndsBy(s, end), NEW i \in DOMAIN s,
         i < Len(s) \/ s[i].time < end
  PROVE  Lasting(s, i, end)
<1>1. Len(s) \in Nat /\ DOMAIN s = 1 .. Len(s) /\ i \in 1 .. Len(s)
  BY DEF Forward, Timed
<1>2. ASSUME NEW j \in 1 .. i PROVE Lasts(s, j, end) > 0
  <2>1. j \in DOMAIN s
    BY <1>1
  <2>2. CASE j < Len(s)
    BY <2>1, <2>2, LastsType
  <2>3. CASE j = Len(s)
    <3>1. j = i
      BY <1>1, <2>3
    <3>2. s[j].time < end /\ s[j].time + Lasts(s, j, end) = end
          /\ s[j].time \in Nat /\ Lasts(s, j, end) \in Nat
      BY <1>1, <2>1, <2>3, <3>1, LastsType
    <3> DEFINE a == s[j].time
               d == Lasts(s, j, end)
    <3>3. a < end /\ a + d = end /\ a \in Nat /\ d \in Nat
      BY <3>2
    <3> HIDE DEF a, d
    <3>4. d > 0
      BY <3>3
    <3> QED
      BY <3>4 DEF d
  <2>4. j < Len(s) \/ j = Len(s)
    <3> DEFINE n == Len(s)
    <3>1. n \in Nat /\ i \in 1 .. n
      BY <1>1
    <3> HIDE DEF n
    <3>2. j \in Nat /\ i \in Nat /\ j <= i /\ i <= n
      BY <3>1
    <3>3. j < n \/ j = n
      BY <3>1, <3>2
    <3> QED
      BY <3>3 DEF n
  <2> QED
    BY <2>2, <2>3, <2>4
<1> QED
  BY <1>2 DEF Lasting

LEMMA TimeFailedIs ==
  ASSUME NEW s, Proper(s), NEW end \in Nat, EndsBy(s, end), NEW cause
  PROVE  TimeFailed(s, end, cause) = Cardinality({t \in 0 .. end - 1 : cause \in CausesAt(s, t)})
<1> DEFINE chosen == {i \in Failing(s, cause) : Lasting(s, i, end)}
           down   == UNION {Span(s, i, end) : i \in chosen}
<1>1. Forward(s) /\ Failing(s, cause) \subseteq DOMAIN s
  BY DEF Proper, Failing, Failed
<1>2. down = {t \in 0 .. end - 1 : cause \in CausesAt(s, t)}
  <2>1. ASSUME NEW t \in down PROVE t \in 0 .. end - 1 /\ cause \in CausesAt(s, t)
    <3>1. PICK i \in chosen : t \in Span(s, i, end)
      OBVIOUS
    <3>2. i \in Failing(s, cause) /\ i \in DOMAIN s
      BY <1>1
    <3> HIDE DEF chosen
    <3>3. t \in 0 .. end - 1
      BY <1>1, <3>1, <3>2, SpansAreTicks
    <3> QED
      BY <3>1, <3>2, <3>3, DownInSpans
  <2>2. ASSUME NEW t \in 0 .. end - 1, cause \in CausesAt(s, t) PROVE t \in down
    <3>1. PICK i \in Failing(s, cause) : t \in Span(s, i, end)
      BY <2>2, DownInSpans
    <3>2. i \in DOMAIN s /\ t \in Nat /\ t < end
      BY <1>1
    <3>3. s[i].time <= t /\ s[i].time \in Nat
      BY <1>1, <3>1, <3>2, SpanIs, LastsType
    <3>4. Lasting(s, i, end)
      BY <1>1, <3>2, <3>3, EachStateLasts
    <3> QED
      BY <3>1, <3>4
  <2> HIDE DEF down
  <2> QED
    BY <2>1, <2>2
<1>3. Together(s, chosen, end) = Cardinality(down)
  <2>1. chosen \subseteq DOMAIN s
    BY <1>1
  <2> HIDE DEF chosen
  <2> QED
    BY <1>1, <2>1, TogetherTakesUp
<1> QED
  BY <1>2, <1>3 DEF TimeFailed

(* A cause takes the component down where its state is entered from being  *)
(* up, and nowhere else.                                                   *)
LEMMA CountFailuresIs ==
  ASSUME NEW s, Proper(s), NEW end \in Nat, EndsBy(s, end), NEW cause
  PROVE  CountFailures(s, end, cause) =
           Cardinality({t \in 0 .. end : /\ cause \in CausesAt(s, t)
                                         /\ t = 0 \/ UpAt(s, t - 1)})
<1> DEFINE A == {i \in Failing(s, cause) :
                   i = 1 \/ (s[i - 1].state /\ Lasting(s, i - 1, end))}
           B == {t \in 0 .. end : cause \in CausesAt(s, t) /\ (t = 0 \/ UpAt(s, t - 1))}
           f == [i \in A |-> s[i].time]
<1>1. /\ Forward(s) /\ Honest(s)
      /\ Len(s) \in Nat /\ DOMAIN s = 1 .. Len(s)
      /\ \A i \in DOMAIN s : s[i].time \in 0 .. end /\ s[i].time \in Nat
      /\ \A i, j \in DOMAIN s : i < j => s[i].time < s[j].time
      /\ \A i \in DOMAIN s : s[i].state <=> s[i].causes = {}
  BY DEF Proper, Forward, Timed, EndsBy, Honest
<1>2. A \subseteq DOMAIN s
  BY DEF Failing, Failed
<1>3. \A i \in DOMAIN s : i \in A <=>
        /\ ~ s[i].state /\ cause \in s[i].causes
        /\ i = 1 \/ s[i - 1].state
  <2> TAKE i \in DOMAIN s
  <2>1. ASSUME i # 1 PROVE Lasting(s, i - 1, end)
    <3>1. i - 1 \in DOMAIN s /\ i - 1 < Len(s)
      BY <1>1, <2>1
    <3> QED
      BY <1>1, <3>1, EachStateLasts
  <2> QED
    BY <2>1 DEF Failing, Failed
<1>4. \A t \in 0 .. end : t \in B <=> cause \in CausesAt(s, t) /\ (t = 0 \/ UpAt(s, t - 1))
  OBVIOUS
<1>5. B \subseteq 0 .. end
  OBVIOUS
<1> HIDE DEF A, B
<1>6. ASSUME NEW i \in A PROVE s[i].time \in B
  <2>1. i \in DOMAIN s /\ ~ s[i].state /\ cause \in s[i].causes /\ (i = 1 \/ s[i - 1].state)
    BY <1>2, <1>3
  <2>2. StateAt(s, s[i].time) = s[i]
    BY <1>1, <2>1, EntryIsReached
  <2> DEFINE t == s[i].time
  <2>3. t \in 0 .. end /\ t \in Nat
    BY <1>1, <2>1
  <2>4. ASSUME t # 0 PROVE UpAt(s, t - 1)
    <3>1. t - 1 \in Nat /\ t - 1 < t
      BY <2>3, <2>4
    <3>2. CASE i = 1
      <4>1. \A v \in Times(s) : ~ (v <= t - 1)
        <5> SUFFICES ASSUME NEW k \in DOMAIN s PROVE ~ (s[k].time <= t - 1)
          BY DEF Times
        <5>1. k = i \/ i < k
          BY <1>1, <3>2
        <5>2. t <= s[k].time /\ s[k].time \in Nat
          BY <1>1, <2>1, <5>1
        <5> HIDE DEF t
        <5> QED
          BY <2>3, <3>1, <5>2
      <4> HIDE DEF t
      <4> QED
        BY <3>1, <4>1, BeforeTheFirst
    <3>3. CASE i # 1
      <4>1. i - 1 \in DOMAIN s /\ i - 1 < i /\ s[i - 1].state
        BY <1>1, <2>1, <3>3
      <4>2. s[i - 1].time < t /\ s[i - 1].time \in Nat
        BY <1>1, <2>1, <4>1
      <4>3. Reached(s, i - 1, t - 1)
        <5>1. ASSUME NEW k \in DOMAIN s, s[k].time <= t - 1 PROVE k <= i - 1
          <6>1. ~ (t <= s[k].time)
            <7> HIDE DEF t
            <7> QED
              BY <1>1, <2>3, <5>1
          <6>2. ~ (i <= k)
            BY <1>1, <2>1, <6>1
          <6> QED
            BY <1>1, <2>1, <6>2
        <5>2. ~ (s[i - 1].time > t - 1)
          <6> HIDE DEF t
          <6> QED
            BY <2>3, <4>2
        <5> QED
          BY <4>1, <5>1, <5>2 DEF Reached
      <4>4. s[i - 1].time <= t - 1
        <5> HIDE DEF t
        <5> QED
          BY <2>3, <4>2
      <4>5. StateAt(s, t - 1) = s[i - 1]
        <5> HIDE DEF t
        <5> QED
          BY <1>1, <3>1, <4>3, <4>4, ReachedState
      <4> QED
        BY <4>1, <4>5 DEF UpAt
    <3> QED
      BY <3>2, <3>3
  <2>5. cause \in CausesAt(s, t)
    BY <2>1, <2>2 DEF CausesAt
  <2> QED
    BY <1>4, <2>3, <2>4, <2>5
<1>7. ASSUME NEW t \in B PROVE \E i \in A : s[i].time = t
  <2>1. t \in Nat /\ t \in 0 .. end /\ cause \in CausesAt(s, t) /\ (t = 0 \/ UpAt(s, t - 1))
    BY <1>4, <1>5
  <2>2. s # <<>>
    <3> SUFFICES ASSUME s = <<>> PROVE FALSE
      OBVIOUS
    <3>1. Times(s) = {}
      BY DEF Times
    <3>2. CausesAt(s, t) = {}
      BY <2>1, <3>1, BeforeTheFirst
    <3> QED
      BY <2>1, <3>2
  <2>3. PICK i \in DOMAIN s : Reached(s, i, t)
    BY <1>1, <2>1, <2>2, SomethingIsReached
  <2>4. StateAt(s, t) = IF s[i].time <= t THEN s[i] ELSE Up(t)
    BY <1>1, <2>1, <2>3, ReachedState
  <2>5. s[i].time <= t /\ cause \in s[i].causes
    BY <2>1, <2>4 DEF CausesAt, Up
  <2>6. ~ s[i].state
    BY <1>1, <2>5
  <2>7. s[i].time = t
    <3> SUFFICES ASSUME s[i].time < t PROVE FALSE
      BY <1>1, <2>1, <2>5
    <3>1. t # 0 /\ t - 1 \in Nat /\ s[i].time <= t - 1
      BY <1>1, <2>1
    <3>2. Reached(s, i, t - 1)
      <4>1. ASSUME NEW k \in DOMAIN s, s[k].time <= t - 1 PROVE k <= i
        <5>1. s[k].time <= t
          BY <1>1, <2>1, <4>1
        <5> QED
          BY <2>3, <5>1 DEF Reached
      <4>2. ~ (s[i].time > t - 1)
        BY <1>1, <2>1, <3>1
      <4> QED
        BY <4>1, <4>2 DEF Reached
    <3>3. StateAt(s, t - 1) = s[i]
      BY <1>1, <3>1, <3>2, ReachedState
    <3> QED
      BY <2>1, <2>6, <3>1, <3>3 DEF UpAt
  <2>8. i # 1 => s[i - 1].state
    <3> SUFFICES ASSUME i # 1 PROVE s[i - 1].state
      OBVIOUS
    <3>1. i - 1 \in DOMAIN s /\ i - 1 < i /\ i \in Nat
      BY <1>1
    <3>2. s[i - 1].time < t /\ s[i - 1].time \in Nat
      BY <1>1, <2>7, <3>1
    <3>3. t # 0 /\ t - 1 \in Nat /\ s[i - 1].time <= t - 1
      BY <2>1, <3>2
    <3>4. Reached(s, i - 1, t - 1)
      <4>1. ASSUME NEW k \in DOMAIN s, s[k].time <= t - 1 PROVE k <= i - 1
        <5>1. s[k].time < s[i].time
          BY <1>1, <2>1, <2>7, <4>1
        <5>2. ~ (i <= k)
          <6> SUFFICES ASSUME i <= k PROVE FALSE
            OBVIOUS
          <6>1. i = k \/ i < k
            BY <1>1
          <6>2. s[i].time <= s[k].time
            BY <1>1, <6>1
          <6> QED
            BY <1>1, <5>1, <6>2
        <5> QED
          BY <1>1, <5>2
      <4>2. ~ (s[i - 1].time > t - 1)
        BY <3>2, <3>3
      <4> QED
        BY <3>1, <4>1, <4>2 DEF Reached
    <3>5. StateAt(s, t - 1) = s[i - 1]
      BY <1>1, <3>3, <3>4, ReachedState
    <3> QED
      BY <2>1, <3>3, <3>5 DEF UpAt
  <2>9. i \in A
    BY <1>3, <2>5, <2>6, <2>8
  <2> QED
    BY <2>7, <2>9
<1>8. f \in Bijection(A, B)
  <2>1. f \in [A -> B]
    BY <1>6
  <2>2. \A i, j \in A : f[i] = f[j] => i = j
    <3> SUFFICES ASSUME NEW i \in A, NEW j \in A, f[i] = f[j] PROVE i = j
      OBVIOUS
    <3>1. i \in 1 .. Len(s) /\ j \in 1 .. Len(s) /\ s[i].time = s[j].time
      BY <1>1, <1>2
    <3>2. s[i].time \in Nat
      BY <1>1, <3>1
    <3>3. ~ (i < j) /\ ~ (j < i)
      BY <1>1, <3>1, <3>2
    <3> QED
      BY <1>1, <3>1, <3>3
  <2>3. \A t \in B : \E i \in A : f[i] = t
    BY <1>7
  <2> HIDE DEF f
  <2> QED
    BY <2>1, <2>2, <2>3 DEF Bijection, Injection, Surjection, IsInjective
<1>9. IsFiniteSet(A)
  <2>0. 1 \in Int /\ Len(s) \in Int
    BY <1>1
  <2>1. IsFiniteSet(1 .. Len(s))
    BY <2>0, FS_Interval
  <2>2. A \in SUBSET (1 .. Len(s))
    BY <1>1, <1>2
  <2> QED
    BY <2>1, <2>2, FS_Subset
<1>10. Cardinality(A) = Cardinality(B)
  <2>1. ExistsBijection(A, B)
    BY <1>8 DEF ExistsBijection
  <2> HIDE DEF f
  <2> QED
    BY <1>9, <2>1, FS_Bijection
<1>11. CountFailures(s, end, cause) = Cardinality(A)
  BY DEF CountFailures, A
<1> QED
  BY <1>10, <1>11 DEF B

-----------------------------------------------------------------------------
(* All components together.                                                *)
Chain(f, n) ==
  f = [k \in 0 .. n |-> IF k = 0 THEN <<>> ELSE Combine(f[k - 1], RelOf(k))]

LEMMA ChainExists == \A n \in Nat : \E f : Chain(f, n)
<1> DEFINE T == {n \in Nat : \E f : Chain(f, n)}
<1>1. 0 \in T
  <2> DEFINE f == [k \in 0 .. 0 |-> <<>>]
  <2>1. f = [k \in 0 .. 0 |-> IF k = 0 THEN <<>> ELSE Combine(f[k - 1], RelOf(k))]
    OBVIOUS
  <2> HIDE DEF f
  <2>2. Chain(f, 0)
    BY <2>1 DEF Chain
  <2> QED
    BY <2>2
<1>2. ASSUME NEW n \in T PROVE n + 1 \in T
  <2>0. n \in Nat
    OBVIOUS
  <2>1. PICK f : Chain(f, n)
    OBVIOUS
  <2> DEFINE g == [k \in 0 .. n + 1 |-> IF k = n + 1 THEN Combine(f[n], RelOf(k)) ELSE f[k]]
  <2>2. \A k \in 0 .. n : g[k] = f[k]
    BY <2>0
  <2>3. g[n + 1] = Combine(f[n], RelOf(n + 1))
    BY <2>0
  <2>4. g = [k \in 0 .. n + 1 |-> g[k]]
    OBVIOUS
  <2> HIDE DEF g, T
  <2>5. ASSUME NEW k \in 0 .. n + 1
        PROVE  g[k] = IF k = 0 THEN <<>> ELSE Combine(g[k - 1], RelOf(k))
    <3>1. CASE k = n + 1
      <4>1. k # 0 /\ k - 1 = n /\ n \in 0 .. n
        BY <2>0, <3>1
      <4> QED
        BY <2>2, <2>3, <3>1, <4>1
    <3>2. CASE k \in 0 .. n
      <4>1. f[k] = IF k = 0 THEN <<>> ELSE Combine(f[k - 1], RelOf(k))
        BY <2>1, <3>2 DEF Chain
      <4>2. k # 0 => k - 1 \in 0 .. n
        BY <2>0, <3>2
      <4> QED
        BY <2>2, <3>2, <4>1, <4>2
    <3> QED
      BY <2>0, <3>1, <3>2
  <2>6. Chain(g, n + 1)
    BY <2>4, <2>5 DEF Chain
  <2> QED
    BY <2>0, <2>6 DEF T
<1>3. T = Nat
  <2>1. T \subseteq Nat
    OBVIOUS
  <2> HIDE DEF T
  <2> QED
    BY <1>1, <1>2, <2>1, SetInduction
<1> QED
  BY <1>3

LEMMA NetworkTells ==
  ASSUME Components = 1 .. Len(sim.age), Len(sim.age) \in Nat, NEW end \in Nat,
         \A c \in Components : Proper(RelOf(c)) /\ EndsBy(RelOf(c), end)
  PROVE  /\ Proper(Network) /\ EndsBy(Network, end)
         /\ \A t \in Nat : UpAt(Network, t) <=> \A c \in Components : UpAt(RelOf(c), t)
<1> DEFINE n == Len(sim.age)
           f == CHOOSE g : Chain(g, n)
           Combined(s, k) ==
             /\ Proper(s) /\ EndsBy(s, end)
             /\ \A t \in Nat : UpAt(s, t) <=> \A c \in 1 .. k : UpAt(RelOf(c), t)
           T == {k \in Nat : k <= n => Combined(f[k], k)}
<1>1. Chain(f, n)
  <2>1. \E g : Chain(g, n)
    BY ChainExists
  <2> QED
    BY <2>1
<1>2. Network = f[n]
  BY DEF Network, Chain
<1> HIDE DEF f
<1>3. f[0] = <<>>
  BY <1>1 DEF Chain
<1>4. ASSUME NEW k \in 1 .. n PROVE f[k] = Combine(f[k - 1], RelOf(k))
  <2>1. k \in 0 .. n /\ k # 0
    OBVIOUS
  <2> QED
    BY <1>1, <2>1 DEF Chain
<1>5. 0 \in T
  <2>1. 1 .. 0 = {} /\ DOMAIN <<>> = {}
    OBVIOUS
  <2>2. \A t \in Nat : UpAt(<<>>, t)
    <3>1. Times(<<>>) = {}
      BY <2>1 DEF Times
    <3> QED
      BY <3>1, BeforeTheFirst
  <2>3. Combined(<<>>, 0)
    BY <2>1, <2>2, NothingIsProper DEF EndsBy
  <2> HIDE DEF Combined
  <2> QED
    BY <1>3, <2>3
<1>6. ASSUME NEW k \in T PROVE k + 1 \in T
  <2>0. k \in Nat
    OBVIOUS
  <2> SUFFICES ASSUME k + 1 <= n PROVE Combined(f[k + 1], k + 1)
    BY <2>0
  <2> DEFINE a == f[k]
             b == RelOf(k + 1)
             r == Combine(a, b)
  <2>1. k + 1 \in 1 .. n /\ (k + 1) - 1 = k /\ k <= n
    BY <2>0
  <2>2. f[k + 1] = r
    <3>1. f[k + 1] = Combine(f[(k + 1) - 1], RelOf(k + 1))
      BY <1>4, <2>1
    <3> QED
      BY <2>1, <3>1
  <2>3. Combined(a, k)
    BY <2>1
  <2>4. Proper(b) /\ EndsBy(b, end)
    BY <2>1
  <2> HIDE DEF a, b, T
  <2>5. /\ Proper(r) /\ Times(r) = Times(a) \cup Times(b)
        /\ \A t \in Nat : UpAt(r, t) <=> UpAt(a, t) /\ UpAt(b, t)
    BY <2>3, <2>4, CombineMeans
  <2> HIDE DEF r
  <2>6. EndsBy(r, end)
    <3>1. \A v \in Times(a) \cup Times(b) : v <= end
      BY <2>3, <2>4 DEF EndsBy, Times
    <3> QED
      BY <2>5, <3>1 DEF EndsBy, Times
  <2>7. ASSUME NEW t \in Nat
        PROVE  UpAt(r, t) <=> \A c \in 1 .. k + 1 : UpAt(RelOf(c), t)
    <3>1. \A c : c \in 1 .. k + 1 <=> c \in 1 .. k \/ c = k + 1
      BY <2>0
    <3>2. UpAt(r, t) <=> (\A c \in 1 .. k : UpAt(RelOf(c), t)) /\ UpAt(RelOf(k + 1), t)
      BY <2>3, <2>5 DEF b
    <3> QED
      BY <3>1, <3>2
  <2>8. Combined(r, k + 1)
    BY <2>5, <2>6, <2>7
  <2> HIDE DEF Combined
  <2> QED
    BY <2>2, <2>8
<1>7. T = Nat
  <2>1. T \subseteq Nat
    OBVIOUS
  <2> HIDE DEF T
  <2> QED
    BY <1>5, <1>6, <2>1, SetInduction
<1>8. Combined(f[n], n)
  <2>1. n \in T /\ n <= n
    BY <1>7
  <2> HIDE DEF Combined, n
  <2> QED
    BY <2>1
<1> QED
  BY <1>2, <1>8

-----------------------------------------------------------------------------
(* What is reported of an occurrence.                                      *)
OutagesFit ==
  phase = "fragilities" => \A c \in Components : EndsBy(RelOf(c), Duration)

ReportsTell ==
  Reported =>
    /\ \A c \in Components : Proper(RelOf(c)) /\ EndsBy(RelOf(c), Duration)
    /\ Last(statistics).comp = [c \in Components |-> ReliabilityStats(RelOf(c))]
    /\ Last(statistics).network = ReliabilityStats(Network)

ReportsInv == OutagesFit /\ ReportsTell

LEMMA TimesEndBy ==
  ASSUME NEW s, NEW end, \A v \in Times(s) : v <= end
  PROVE  EndsBy(s, end)
BY DEF Times, EndsBy

LEMMA ApplyFits ==
  ASSUME ScenarioInv, KindsInv, OutagesSuit(sim), OutagesInv, ApplyReliabilities
  PROVE  OutagesFit'
<1>1. /\ phase = "failures" /\ Unrolled = {} /\ uncombined = {}
      /\ UNCHANGED <<sim, queue>>
      /\ rel' = [c \in DOMAIN combined |-> Clip(combined[c], Begins(c), Horizon(c))]
  BY DEF ApplyReliabilities
<1>2. Components' = Components /\ Duration' = Duration
  BY <1>1, SameScenario
<1>3. ASSUME NEW c \in Components PROVE EndsBy(RelOf(c)', Duration)
  <2>1. CASE c \in DOMAIN combined
    <3>1. RelOf(c)' = Clip(combined[c], Begins(c), Horizon(c))
      BY <1>1, <2>1 DEF RelOf
    <3>2. \A v \in Times(Clip(combined[c], Begins(c), Horizon(c))) : v <= Duration
      BY <1>1, <2>1, ClipTells
    <3> QED
      BY <3>1, <3>2, TimesEndBy
  <2>2. CASE c \notin DOMAIN combined
    <3>1. RelOf(c)' = <<>>
      BY <1>1, <2>2 DEF RelOf
    <3> QED
      BY <3>1 DEF EndsBy
  <2> QED
    BY <2>1, <2>2
<1> QED
  BY <1>2, <1>3 DEF OutagesFit

LEMMA NewOutageFits ==
  ASSUME NEW cause \in Cause, NEW repair, repair = {} \/ \E dt \in Nat : repair = {dt},
         NEW end \in Nat, \A dt \in repair : dt <= end
  PROVE  \A v \in Times(NewOutage(cause, repair)) : v <= end
<1> DEFINE s == NewOutage(cause, repair)
<1>1. /\ s \in Seq(TimeState) /\ s[1] = Down(0, {cause})
      /\ repair = {} => Len(s) = 1
      /\ \A dt \in repair : Len(s) = 2 /\ s[2] = Up(dt)
  BY NewOutageIs
<1>2. Down(0, {cause}).time = 0 /\ \A t : Up(t).time = t
  BY DEF Down, Up
<1>3. Len(s) \in Nat /\ DOMAIN s = 1 .. Len(s)
  BY <1>1, SeqIsTimed DEF Timed
<1> HIDE DEF s
<1>4. ASSUME NEW i \in DOMAIN s PROVE s[i].time <= end
  <2>1. CASE repair = {}
    <3>1. i = 1
      BY <1>1, <1>3, <2>1
    <3> QED
      BY <1>1, <1>2, <3>1
  <2>2. CASE \E dt \in Nat : repair = {dt}
    <3>1. PICK dt \in Nat : repair = {dt}
      BY <2>2
    <3>2. Len(s) = 2 /\ s[2] = Up(dt) /\ dt <= end
      BY <1>1, <3>1
    <3>3. i = 1 \/ i = 2
      BY <1>3, <3>2
    <3> QED
      BY <1>1, <1>2, <3>2, <3>3
  <2> QED
    BY <2>1, <2>2
<1> QED
  BY <1>4 DEF Times, s

LEMMA FragilityRepairsFit ==
  ASSUME FragilitiesFitScenarios(sim), NEW m \in DOMAIN sim.fragilityModes,
         NEW repair \in RepairTimes(sim.fragilityModes[m]), Scenario \in Ids
  PROVE  \A dt \in repair : dt <= Duration
<1> DEFINE mode == sim.fragilityModes[m]
<1>1. \A d \in mode.repair : \A dt \in Advances(DistOf(d)) : dt <= Duration
  BY DEF FragilitiesFitScenarios, DistOf, Duration, Ids
<1> HIDE DEF mode
<1>2. repair \in RepairTimes(mode)
  BY DEF mode
<1>3. CASE mode.repair = {}
  BY <1>2, <1>3 DEF RepairTimes
<1>4. CASE mode.repair # {}
  <2>1. The(mode.repair) \in mode.repair
    BY <1>4 DEF The
  <2>2. PICK dt \in Advances(DistOf(The(mode.repair))) : repair = {dt}
    BY <1>2, <1>4 DEF RepairTimes
  <2> QED
    BY <1>1, <2>1, <2>2
<1> QED
  BY <1>3, <1>4

LEMMA EvaluateFits ==
  ASSUME ScenarioInv, KindsInv, OutagesSuit(sim), FragilitiesFitScenarios(sim), OutagesInv,
         OutagesFit, EvaluateFragility
  PROVE  OutagesFit'
<1> DEFINE fragility == sim.fragilities[evaluated + 1]
           c         == fragility.comp
           cause     == <<"fragility", fragility.mode>>
           Repaired(repair) ==
             /\ repair = {} \/ \E dt \in Nat : dt > 0 /\ repair = {dt}
             /\ repair = {} \/ \E dt \in Nat : repair = {dt}
             /\ \A dt \in repair : dt <= Duration
             /\ rel' = Put(rel, c, IF c \in DOMAIN rel THEN Combine(rel[c], NewOutage(cause, repair))
                                                      ELSE NewOutage(cause, repair))
<1>1. /\ c \in Components /\ cause \in Cause
      /\ phase = "fragilities" /\ fragility.mode \in DOMAIN sim.fragilityModes
      /\ UNCHANGED <<sim, phase, queue>>
  BY HitIs
<1>2. Scenario \in Ids
  BY <1>1, QueueType DEF ScenarioInv, QueueIsSorted, InScenario
<1>3. UNCHANGED rel \/ \E repair : Repaired(repair)
  BY <1>2, HitIs, RepairsTakeTime, FragilityRepairsFit
<1>4. Components' = Components /\ Duration' = Duration
  BY <1>1, SameScenario
<1>5. Duration \in Nat
  BY <1>1, TimesType DEF InScenario
<1>6. \A d \in Components : Proper(RelOf(d)) /\ EndsBy(RelOf(d), Duration)
  BY <1>1 DEF OutagesInv, ReliabilitiesTell, OutagesFit
<1> HIDE DEF c, cause
<1>7. CASE UNCHANGED rel
  <2>1. \A d : RelOf(d)' = RelOf(d)
    BY <1>7 DEF RelOf
  <2> QED
    BY <1>4, <1>6, <2>1 DEF OutagesFit
<1>8. CASE \E repair : Repaired(repair)
  <2>1. PICK repair : Repaired(repair)
    BY <1>8
  <2> DEFINE new == NewOutage(cause, repair)
             r   == IF c \in DOMAIN rel THEN Combine(rel[c], new) ELSE new
  <2>2. Proper(new) /\ \A v \in Times(new) : v <= Duration
    BY <1>1, <1>5, <2>1, NewOutageMeans, NewOutageFits
  <2>3. \A d : RelOf(d)' = IF d = c THEN r ELSE RelOf(d)
    BY <2>1 DEF RelOf, Put
  <2> HIDE DEF new
  <2>4. EndsBy(r, Duration)
    <3>1. CASE c \in DOMAIN rel
      <4>1. r = Combine(rel[c], new) /\ RelOf(c) = rel[c]
        BY <3>1 DEF RelOf
      <4>2. Proper(rel[c]) /\ EndsBy(rel[c], Duration)
        BY <1>1, <1>6, <4>1
      <4> HIDE DEF r
      <4>3. Times(r) = Times(rel[c]) \cup Times(new)
        BY <2>2, <4>1, <4>2, CombineMeans
      <4>4. \A v \in Times(rel[c]) : v <= Duration
        BY <4>2 DEF EndsBy, Times
      <4> QED
        BY <2>2, <4>3, <4>4, TimesEndBy
    <3>2. CASE c \notin DOMAIN rel
      <4>1. r = new
        BY <3>2
      <4> HIDE DEF r
      <4> QED
        BY <2>2, <4>1, TimesEndBy
    <3> QED
      BY <3>1, <3>2
  <2> HIDE DEF r
  <2> QED
    BY <1>4, <1>6, <2>3, <2>4 DEF OutagesFit
<1> QED
  BY <1>3, <1>7, <1>8

LEMMA LastOfAppend ==
  ASSUME NEW xs, xs \in Seq(Range(xs)), NEW x
  PROVE  Last(Append(xs, x)) = x
<1> DEFINE S == Range(xs) \cup {x}
<1>1. xs \in Seq(S) /\ x \in S
  BY SeqDef
<1> HIDE DEF S
<1>2. Len(Append(xs, x)) = Len(xs) + 1 /\ Append(xs, x)[Len(xs) + 1] = x
  BY <1>1, AppendFacts
<1> QED
  BY <1>2 DEF Last

LEMMA ReportTells ==
  ASSUME ScenarioInv, KindsInv, OutagesInv, OutagesFit, SimulateOccurrence
  PROVE  ReportsTell'
<1> DEFINE new == [scenario |-> Scenario, occ |-> occ,
                   comp     |-> [c \in Components |-> ReliabilityStats(RelOf(c))],
                   network  |-> ReliabilityStats(Network)]
<1>1. /\ phase = "fragilities" /\ UNCHANGED <<sim, queue, rel>>
      /\ statistics' = Append(statistics, new)
  BY DEF SimulateOccurrence, made
<1>2. /\ Components' = Components /\ Duration' = Duration
      /\ \A c : RelOf(c)' = RelOf(c)
  BY <1>1, SameScenario DEF RelOf
<1>3. Network' = Network
  BY <1>1, <1>2 DEF Network
<1>4. \A s : ReliabilityStats(s)' = ReliabilityStats(s)
  BY <1>2 DEF ReliabilityStats
<1>5. Last(statistics') = new
  BY <1>1, LastOfAppend DEF KindsInv, RowsHaveStatistics
<1>6. /\ Last(statistics').comp = [c \in Components |-> ReliabilityStats(RelOf(c))]
      /\ Last(statistics').network = ReliabilityStats(Network)
  BY <1>5
<1>7. \A c \in Components : Proper(RelOf(c)) /\ EndsBy(RelOf(c), Duration)
  BY <1>1 DEF OutagesInv, ReliabilitiesTell, OutagesFit
<1> QED
  BY <1>2, <1>3, <1>4, <1>6, <1>7 DEF ReportsTell

LEMMA ReportsKeep ==
  ASSUME \A input \in Sims : OutagesSuit(input) /\ FragilitiesFitScenarios(input),
         ScenarioInv, ScenarioInv', KindsInv, KindsInv', OutagesInv, ReportsInv, [Next]_vars
  PROVE  ReportsInv'
<1>1. OutagesSuit(sim) /\ FragilitiesFitScenarios(sim)
  BY DEF ScenarioInv, RowsAreOfScenarios
<1> DEFINE quiet == phase' # "fragilities" /\ ~ Reported'
<1>2. CASE quiet
  BY <1>2 DEF ReportsInv, OutagesFit, ReportsTell
<1>3. CASE OpenEvents
  BY <1>2, <1>3 DEF OpenEvents, Reported
<1>4. CASE BeginScenario
  BY <1>2, <1>4 DEF BeginScenario, Reported
<1>5. CASE StopAtUnhandled
  BY <1>2, <1>5 DEF StopAtUnhandled, Reported
<1>6. CASE RollStart
  <2>1. phase = "starts" /\ occ' = occ /\ phase' \in {"starts", "occurrence"}
    BY <1>6 DEF RollStart
  <2>2. occ = 0
    BY <2>1 DEF ScenarioInv, StartsAreInTime, InScenario
  <2> QED
    BY <1>2, <2>1, <2>2 DEF Reported
<1>7. CASE EndScenario
  BY <1>2, <1>7 DEF EndScenario, Reported
<1>8. CASE Finish
  BY <1>2, <1>8 DEF Finish, Reported
<1>9. CASE BeginOccurrence
  BY <1>2, <1>9 DEF BeginOccurrence, Reported
<1>10. CASE RollNext
  BY <1>2, <1>10 DEF RollNext, Reported
<1>11. CASE \E l \in Links : CombineLink(l)
  BY <1>2, <1>11 DEF CombineLink, Reported
<1>12. CASE ApplyReliabilities
  <2>1. OutagesFit'
    BY <1>1, <1>12, ApplyFits
  <2>2. ~ Reported'
    BY <1>12 DEF ApplyReliabilities, Reported
  <2> QED
    BY <2>1, <2>2 DEF ReportsInv, ReportsTell
<1>13. CASE EvaluateFragility
  <2>1. OutagesFit'
    BY <1>1, <1>13, EvaluateFits DEF ReportsInv
  <2>2. ~ Reported'
    BY <1>13 DEF EvaluateFragility, Reported
  <2> QED
    BY <2>1, <2>2 DEF ReportsInv, ReportsTell
<1>14. CASE SimulateOccurrence
  <2>1. phase' = "occurrence"
    BY <1>14 DEF SimulateOccurrence
  <2> QED
    BY <1>14, <2>1, ReportTells DEF ReportsInv, OutagesFit
<1>15. CASE UNCHANGED vars
  <2>1. UNCHANGED <<sim, phase, queue, occ, rel, statistics>>
    BY <1>15 DEF vars, made
  <2>2. /\ Components' = Components /\ Duration' = Duration
        /\ \A c : RelOf(c)' = RelOf(c)
    BY <2>1, SameScenario DEF RelOf
  <2>3. Network' = Network /\ \A s : ReliabilityStats(s)' = ReliabilityStats(s)
    BY <2>1, <2>2 DEF Network, ReliabilityStats
  <2> QED
    BY <2>1, <2>2, <2>3 DEF ReportsInv, OutagesFit, ReportsTell, Reported
<1> QED
  BY <1>3, <1>4, <1>5, <1>6, <1>7, <1>8, <1>9, <1>10, <1>11, <1>12, <1>13, <1>14, <1>15 DEF Next

LEMMA ReportsHold ==
  ASSUME \A input \in Sims : OutagesSuit(input) /\ FragilitiesFitScenarios(input)
  PROVE  Spec => []ReportsInv
<1>1. Init => ReportsInv
  BY DEF Init, ReportsInv, OutagesFit, ReportsTell, Reported
<1>2. /\ ScenarioInv /\ ScenarioInv' /\ KindsInv /\ KindsInv' /\ OutagesInv /\ ReportsInv
      /\ [Next]_vars
      => ReportsInv'
  BY ReportsKeep
<1>3. \A input \in Sims : OutagesSuit(input)
  OBVIOUS
<1>4. Spec => []OutagesInv
  BY <1>3, OutagesHold
<1> QED
  BY <1>1, <1>2, <1>4, ScenarioInvHolds, KindsHold, PTL DEF Spec

LEMMA ReportedType ==
  ASSUME ScenarioInv, Reported, \A input \in Sims : OutagesSuit(input)
  PROVE  /\ Duration \in Nat /\ Ticks = 0 .. Duration - 1
         /\ Components = 1 .. Len(sim.age) /\ Len(sim.age) \in Nat
<1>1. sim \in Sims /\ InScenario
  BY DEF ScenarioInv, RowsAreOfScenarios, Reported, InScenario
<1>2. Scenario \in DOMAIN sim.scenarios
  BY <1>1, QueueType DEF ScenarioInv, QueueIsSorted, Ids
<1>3. Duration \in Int /\ Duration >= 0
  BY <1>1, <1>2, InputType
     DEF ScenarioInv, IsInput, Duration, OutagesSuit, NothingIsBeforeTimeZero
<1>4. Components = 1 .. Len(sim.age) /\ Len(sim.age) \in Nat
  BY InputType DEF ScenarioInv, IsInput, Components
<1> QED
  BY <1>3, <1>4 DEF Ticks

(* The availability reported of every component, and of all of them taken  *)
(* together, is for how many ticks of the scenario they were up, however   *)
(* many modes and fragilities overlapped.                                  *)
THEOREM AvailabilityIsRight ==
  ASSUME \A input \in Sims : OutagesSuit(input) /\ FragilitiesFitScenarios(input)
  PROVE  Spec => []AvailabilityIsTheTimeUp
<1>1. ScenarioInv /\ ReportsInv => AvailabilityIsTheTimeUp
  <2> SUFFICES ASSUME ScenarioInv, ReportsInv, Reported
               PROVE  /\ \A c \in Components :
                           StatsOf(c).availability = Cardinality({t \in Ticks : UpAt(RelOf(c), t)})
                      /\ Last(statistics).network.availability =
                           Cardinality({t \in Ticks : \A c \in Components : UpAt(RelOf(c), t)})
    BY DEF AvailabilityIsTheTimeUp
  <2>1. /\ Duration \in Nat /\ Ticks = 0 .. Duration - 1
        /\ Components = 1 .. Len(sim.age) /\ Len(sim.age) \in Nat
    BY ReportedType
  <2>2. /\ \A c \in Components : Proper(RelOf(c)) /\ EndsBy(RelOf(c), Duration)
        /\ Last(statistics).comp = [c \in Components |-> ReliabilityStats(RelOf(c))]
        /\ Last(statistics).network = ReliabilityStats(Network)
    BY DEF ReportsInv, ReportsTell
  <2>3. \A s : ReliabilityStats(s).availability = CalcAvailability(s, Duration)
    BY DEF ReliabilityStats
  <2>4. ASSUME NEW c \in Components
        PROVE  StatsOf(c).availability = Cardinality({t \in Ticks : UpAt(RelOf(c), t)})
    <3>1. StatsOf(c).availability = CalcAvailability(RelOf(c), Duration)
      BY <2>2, <2>3 DEF StatsOf
    <3> QED
      BY <2>1, <2>2, <3>1, AvailabilityIs
  <2>5. /\ Proper(Network) /\ EndsBy(Network, Duration)
        /\ \A t \in Nat : UpAt(Network, t) <=> \A c \in Components : UpAt(RelOf(c), t)
    BY <2>1, <2>2, NetworkTells
  <2>6. Last(statistics).network.availability =
          Cardinality({t \in Ticks : \A c \in Components : UpAt(RelOf(c), t)})
    <3>1. Last(statistics).network.availability = CalcAvailability(Network, Duration)
      BY <2>2, <2>3
    <3>2. CalcAvailability(Network, Duration) = Cardinality({t \in Ticks : UpAt(Network, t)})
      BY <2>1, <2>5, AvailabilityIs
    <3>3. {t \in Ticks : UpAt(Network, t)} = {t \in Ticks : \A c \in Components : UpAt(RelOf(c), t)}
      BY <2>1, <2>5
    <3> QED
      BY <3>1, <3>2, <3>3
  <2> QED
    BY <2>4, <2>6
<1> QED
  BY <1>1, ScenarioInvHolds, ReportsHold, PTL

(* A failure mode or fragility is reported for as many ticks as it had its *)
(* component down, and as often as it took the component down from being   *)
(* up: not again where it goes on beside another cause.                    *)
THEOREM FailuresAreReported ==
  ASSUME \A input \in Sims : OutagesSuit(input) /\ FragilitiesFitScenarios(input)
  PROVE  Spec => []FailuresAreCounted
<1>1. ScenarioInv /\ ReportsInv => FailuresAreCounted
  <2> SUFFICES ASSUME ScenarioInv, ReportsInv, Reported,
                      NEW c \in Components, NEW cause \in Cause
               PROVE  LET down == {t \in Ticks \cup {Duration} : cause \in CausesAt(RelOf(c), t)}
                      IN  /\ StatsOf(c).time[cause] = Cardinality(down \cap Ticks)
                          /\ StatsOf(c).count[cause] =
                               Cardinality({t \in down : t = 0 \/ UpAt(RelOf(c), t - 1)})
    BY DEF FailuresAreCounted
  <2> DEFINE s    == RelOf(c)
             down == {t \in Ticks \cup {Duration} : cause \in CausesAt(s, t)}
  <2>1. Duration \in Nat /\ Ticks = 0 .. Duration - 1
    BY ReportedType
  <2>2. /\ Proper(s) /\ EndsBy(s, Duration)
        /\ Last(statistics).comp = [d \in Components |-> ReliabilityStats(RelOf(d))]
    BY DEF ReportsInv, ReportsTell
  <2>3. StatsOf(c) = ReliabilityStats(s)
    BY <2>2 DEF StatsOf
  <2>4. /\ StatsOf(c).time[cause] = TimeFailed(s, Duration, cause)
        /\ StatsOf(c).count[cause] = CountFailures(s, Duration, cause)
    BY <2>3 DEF ReliabilityStats
  <2> HIDE DEF s
  <2>5. down \cap Ticks = {t \in 0 .. Duration - 1 : cause \in CausesAt(s, t)}
    BY <2>1
  <2>6. \A t : t \in Ticks \cup {Duration} <=> t \in 0 .. Duration
    BY <2>1
  <2>7. {t \in down : t = 0 \/ UpAt(s, t - 1)} =
          {t \in 0 .. Duration : cause \in CausesAt(s, t) /\ (t = 0 \/ UpAt(s, t - 1))}
    BY <2>6
  <2>8. StatsOf(c).time[cause] = Cardinality(down \cap Ticks)
    BY <2>1, <2>2, <2>4, <2>5, TimeFailedIs
  <2>9. StatsOf(c).count[cause] = Cardinality({t \in down : t = 0 \/ UpAt(s, t - 1)})
    BY <2>1, <2>2, <2>4, <2>7, CountFailuresIs
  <2> QED
    BY <2>8, <2>9 DEF s
<1> QED
  BY <1>1, ScenarioInvHolds, ReportsHold, PTL

=============================================================================
