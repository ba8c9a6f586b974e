# A verification development for ERIN

ERIN simulates networks of energy components (sources, loads, converters,
movers, muxes, stores, switches) through scenarios in which components fail and
are repaired. This directory holds TLA+ modules of what the program does between
a parsed input file and its tables of results, configurations that model-check them
with TLC, and proofs checked by TLAPS. Line numbers without a file refer to
`src/src/erin_next.cpp`.

## 1. The system

### 1.1 Components, state, operations

| Part | State it keeps | Operations | What makes it correct |
|---|---|---|---|
| Flow arithmetic, lookup tables (`erin_next.cpp`, `erin_next_lookup_table.cpp`) | none | saturating and wrapping addition, ceiling and floor conversions, interpolation, sharing out a total in order | results are flows; a total is shared out exactly once |
| Network (`Model`, `Connection`, `ComponentMap`) | components, their parameters, connections; fixed during a run | `Model_Add...`, `Model_AddConnection`, `Model_CheckNetwork` | every port a handler reads has one connection |
| Simulation state (`SimulationState`) | three values per flow (requested, available, actual), two sets of scheduled connections, unavailable components, storage amounts and event times, schedule indices, switch positions | set a request or an availability and schedule the neighbour concerned | whoever reads a changed value is scheduled |
| Component handlers (`Run...Backward`, `Run...Forward`) | none of their own | one backward and one forward step per component type | flows balance, limits hold, priorities are kept |
| Flow solver (`RunActiveConnections`) | pass counter, the set being visited | passes backward and forward, finalisation | it settles, on a fixed point, within its limits |
| Simulation loop (`Simulate`) | time, loop counter, results | activation by schedule, solver, switch logic, record, next event, advance | no event missed, late or applied twice; the final time is reached |
| Storage | amount, next event time | charge and discharge requests, event times, energy of an interval | within capacity; energy accounted for; changes of behaviour at the right time |
| Switch logic (`RunSwitchLogic`) | switch positions | choose primary or secondary | one inflow in use; a load that can be served is served |
| Failures and repairs (`Model_SetComponentToFailed/Repaired`) | unavailable components | mark, cut off, restore | a failed component carries nothing; a repaired one is as before |
| Reliability (`erin_next_reliability.cpp`), time states (`erin_next_timestate.cpp`), distributions (`erin_next_distribution.cpp`) | failure modes, links of components with modes, distributions | roll up/down schedules, combine and clip them, count failures, availability | a component is down exactly when one of its modes has it down |
| Scenarios, fragilities, runner (`erin_next_simulation.cpp`, `erin_next_scenario.cpp`) | scenarios, intensities, fragility curves and modes, occurrences | `Simulation_Run`, `CreateFailureSchedules`, `ApplyReliabilitiesAndFragilities`, loads of a scenario | each occurrence sees the loads, the schedules and the fragilities of its own scenario |
| Statistics, uniform time step, groups | results of an occurrence | totals of energy and time, availability, resampling, aggregation | totals agree with the events; no connection or event is lost or repeated |
| Reading of inputs (`erin_next_toml.cpp`, `_validation.cpp`, `_component.cpp`, `_load.cpp`, the parsers of `erin_next_simulation.cpp`), registries | tables by tag, ids given out in the order of reading | validate a table, register, resolve names | what is built is what the file declares, in whatever order its tables come |
| Building of a network and its check (`Model_Add...`, `Model_AddConnection`, `Model_CheckNetwork`) | components, slots, connections | add, connect, check | the check finds every port badly connected, and nothing else |
| Units, output, graphs, random generator, command line | none | conversion, formatting | not modelled |

Interaction is by direct calls in one thread. `Simulation_ReadFromToml` builds a
`Simulation`; `Simulation_Run` takes its scenarios one after the other and, for every
occurrence, makes failure schedules and calls `Simulate`, whose results it turns into
statistics and rows. Within `Simulate` the handlers communicate through the
`SimulationState` only: a handler changes the request on an inflow or the
availability on an outflow and puts the connection into
`ActiveConnectionsBack` or `ActiveConnectionsFront`; the solver then calls the
component at the other end. `Simulate` calls, at every time: activation by
reliability, scheduled loads, scheduled sources, stores and (at 0) constant
loads and sources; the solver, again and again until nothing is scheduled, with
the switch logic after each run of it; then records, finds the next event, and
brings stores and schedule indices up to that time.

### 1.2 What is hard here

Nothing runs concurrently, so what can go wrong goes wrong in sequences: an
update that is not passed on, or that is passed on to the wrong neighbour; an
order of visits that changes the result; a failure in the middle of a
propagation; a value judged after it was overwritten; event times computed from
flows that later change; sums of rounded energies; event indices that advance
only when the clock stops exactly at them; iteration limits; two schedules walked
at once; ids that depend on the order of an unordered table; one kind of id taken
for another; one bad entry among many. `hazards` in `PROJECT.json` lists each with its line.

## 2. The modules

| Module | Models | Correspondence |
|---|---|---|
| `FlowArithmetic` | flows, conversions, lookup tables, sharing in order | one operator per helper or per recurring expression |
| `Network` | the network as constants, `SimulationState` as the record set `State` | fields named after the struct's; `Request`, `Offer` and `Spill` are the recurring "set, and schedule if changed" idioms |
| `Components` | the backward and forward handlers and their dispatch | an operator from state to state per C++ function; constant- and variable-efficiency converters (and movers) share one, a constant being a table of one row |
| `Failures` | `Model_SetComponentToFailed`, `Model_SetComponentToRepaired` | one `CASE` arm per type |
| `Simulation` | `Simulate`, `RunActiveConnections`, `RunSwitchLogic` as a state machine | `pc` is the loop the program is in, `todo` what the innermost one has still to visit; one action per loop iteration or call |
| `EventCalendar` | what a simulation promises of time; an abstract specification, of no code of its own | `SimulationProperties` maps `Simulation` to it |
| `SimulationProperties` | type invariant, safety, liveness, refinement | |
| `Results` | the statistics of an occurrence and `ApplyUniformTimeStep`, with their properties | functions of `timeAndFlows`, the rows a run has recorded |
| `TimeStates` | `TimeState_Combine`, `TimeState_Clip`, availability, counts of failures | algorithms on schedules, and what a schedule means at a time (`UpAt`, `CausesAt`) |
| `Distributions` | what a distribution may be and the next time advance it gives | one advance for every random fraction |
| `ScenarioRun`, `ScenarioProperties` | `Simulation_Run` over all scenarios and occurrences | `phase` is where it is; an action per occurrence, rolled state, combined schedule, fragility; `rolled` is history, the advances rolled for each scenario, which no action reads |
| `NetworkBuild` | `Model_Add...`, `Model_AddConnection`, `Model_CheckNetwork`, `GetNodeConnections` | operators from model to model; an issue of the check is a tuple |
| `InputTable`, `InputFields` | `TOMLTable_ParseWithValidation` and the fields `SetupGlobalValidationInfo` declares | a value has a type; a field has a type, a default, aliases |
| `Loading`, `LoadingProperties` | `Simulation_ReadFromToml`, and the command that checks a network | an action per table of a section, in any order |
| `HandlerProofs`, `SimulationProofs`, `EventProofs`, `SolverProofs`, `DispatchProofs`, `ResultsProofs`, `ScenarioProofs`, `LoadingProofs` | theorems and their lemmas | section 5 |
| `MCNetworks`, `MCDispatch`, `MCConversion`, `MCStorage`, `MCSwitching`, `MCRepair`, `MCScenarios`, `MCLoading` | instances for TLC | section 4 |

By EXTENDS, `FlowArithmetic` < `Network` < `Components` < `Failures` < `Simulation` <
`SimulationProperties` < `Results`; `TimeStates`, `Distributions` < `ScenarioRun` <
`ScenarioProperties`; and `NetworkBuild`, `InputTable` < `InputFields`, `Distributions` <
`Loading` < `LoadingProperties`. The three chains meet where one's results are the
other's inputs: `Loading` makes the lists `ScenarioRun` takes as `Sims`, `ScenarioRun` makes
the schedules `Simulation` takes as `Models[..].rel`, and `SchedulesSuitTheSimulation`,
`CheckFindsEveryFault` and `StoresCanBeUsed` are what the next one assumes of them.
They are not one state machine: the product of their choices would be beyond TLC, and
nothing flows back. A definition whose comment is, or begins with, "a slip" is
not part of the model: it is a plausible mistake in the code that a property must
notice, used when the properties themselves are tested.

How the data is abstracted:

- `flow_t` is `0 .. MaxFlow`; additions that the code leaves unguarded wrap,
  `UtilSafeAdd` saturates, and a double too large for `flow_t` becomes
  `CastOverflow`, an arbitrary flow.
- Doubles are exact: efficiencies, COPs and table values are ratios, times are
  multiples of a tick. `TicksPerSecond` is chosen so that all the event times of
  an instance are whole. Rounding that the code does on purpose (`ceil`,
  `floor`, `llround`, conversions to integers) is kept; the rounding error of the
  doubles themselves is not.
- Load and supply schedules are strictly increasing in time, as the loop
  assumes, and those of the instances begin at 0. The instances take every
  combination of a few amounts; which one holds is chosen by `Init` from `Models`.
- Indices into schedules count from one.
- The assertions of `UpdateStoresPerElapsedTime` are modelled as in a build that
  has them: `pc = "assertionFailed"`. Exits on a failure or a repair of a type the
  code does not handle are `pc = "exited"`. The assertion that a constant-efficiency
  converter never puts out more than it takes in is not modelled.
- The index error in the repair of a schedule-based load is modelled as the code
  has it: the inflow of the constant load with the same index or, past the end of
  that table, any connection.
- `Then` applies what a later part of a handler does to what an earlier one left;
  it is a function application so that TLC evaluates its argument once.
- The order of the scenarios is any that sorts them by tag (`ScenarioOrders`).
- Random fractions are `0 .. Whole`: every advance in time a distribution can give is
  a choice. The quantiles of normal and Weibull distributions are not computed but given,
  for each fraction, as any numbers, also negative ones (the code cuts those to 0).
- In `ScenarioRun` what `Simulate` does is left to `Simulation`; the action that stands for it
  records what it is given. Inputs are lists indexed by the program's ids, from 1.
- An input file is a record of its sections with typed values; amounts are in one unit, a
  file it names is its contents, and a TOML table is a function. The tables of a section
  come in any order, because the library keeps them in an unordered map, and so do the two files a
  table of loads may name; connections come in the order of their array. A read is an exception (`crashed`), a refusal (`rejected`) or
  a new `Simulation`; messages are left out. A type that is not text is an exception,
  as the code asks for its text before anything else. An asserted size, that of a mux's
  `max_outflows`, is part of `InputsAssumption` in one direction: with more entries than outflows
  the extra ones are ignored, with fewer a released program reads past the end.
- Units convert amounts before they are kept, and are left out with their factors: that of
  `initial_age`, for which the code takes seconds where a component gives no time unit, too. So is
  what the check says of a mux slot without a connection, for whose wording it reads the
  list of connections at an index that need not exist.
- Asserts of `Model_AddStore` are not actions: a released program has none, so what
  they say is the property `StoresCanBeUsed`.

## 3. Properties

Most are about states in which the solver has finished and the flows have just
been recorded (`Settled`):

- `FlowsAreAFixedPoint`: running the handler of any connection once more would
  change nothing, so nobody was left uninformed and the order of visits does not
  matter. (Components that are down, stores, whose requests depend on their
  history, and the environment inflow of a mover, of which nobody is told, are excepted.)
  Section 5 says of which networks this is proved, and of which that flows balance, that muxes and
  converters serve in order, that schedules are followed and failed components carry nothing
  (`EveryChangeIsTold` and the hypotheses beside it).
- `FlowsBalance`: what the code itself prints "FLOW IMBALANCE!" about.
- `MuxDispatchesInOrder`, `ConversionsServeWhatTheyCan`: the priorities of a mux,
  and that rounding never costs a servable watt.
- `OutOfServiceAsScheduled`, `FailedComponentsCarryNothing`, `SchedulesAreFollowed`,
  `EventsAreRecorded`: the components that are down are those whose schedules say so,
  they carry nothing, and loads and supplies take effect when their schedules say. The last one
  is about every state of an outage and every entry of a load or a supply after
  the first: nothing makes the clock stop at a first entry that is not at 0.
- `SolverConverges`, `Terminates`: the iteration limits are never what ends the
  solver, and every run reaches its final time.
- `StoreWithinCapacity`, `StoresStopAtTheirLimits`: stores. `StoredEnergyIsAccountedFor`: each store,
  in service or not, holds what it held at first and what the recorded flows brought since: exactly
  when every interval is of whole seconds, else to half a joule for each of its
  three flows and each interval, since `UpdateNodesForTime` rounds the flows one by one.
- `SwitchesUseOneInflow`, `SwitchesServeTheLoad`: switches.
- `KeepsTheCalendar`: under the mapping that forgets everything but the events of the inputs
  and the times recorded, every run is a run of `EventCalendar`, liveness included: it
  starts at 0, goes from event to event without stepping over any, takes back nothing,
  and goes on to the final time.

Of what is reported when a run is over (`Results`): `EnergyBalances`, the column "energy
balance" is zero to the same roundings, for each interval and store; `OutagesAreAccountedFor`,
uptime, downtime, what was not served and the longest outage, accumulated in
different ways over the same rows, agree; `UniformRowsShowTheRun`, resampling neither
loses nor repeats an event.

Of a run of scenarios (`ScenarioProperties`): `OutagesAreApplied`, the schedule a component
is simulated with has it down, and names as the cause, exactly the modes and fragilities that
have it down at that tick, in whatever order schedules are combined, shifted by age
and offset: `Combine` and `Clip` against their pointwise meaning.
`SchedulesSuitTheSimulation`, what `Simulation` assumes of it. `SchedulesFollowTheirMode`, failures
and repairs take as long as the mode's own distributions say. `AvailabilityIsTheTimeUp`,
`FailuresAreCounted`, what is reported is what happened. `LoadsAreTheScenarios`, no load of
another scenario stays in force. `OccurrencesAreComplete`, scenarios are reported in the order of their
tags and their occurrences in that of their numbers, each begins the advance rolled for it after the one
before, and none that was rolled in time is skipped: a scenario has as many as it may, or the last
advance rolled for it goes past the maximum time. `Terminates`.

Of reading (`LoadingProperties`): `ComponentsAreAsDeclared`, `ModesAreAsDeclared`,
`ScenariosAreAsDeclared`, `OffsetsAreAsDeclared`, what refers to each other by names in the file
refers to each other by ids in the program, whatever came first; limits of outflows, of losses and of
the outflows of a mux and what is reported included. The maximum of a scenario is compared with
the sentence of `erin_next_scenario.cpp:139` (`MaximumDeclared`), not with the parser. `VerdictIsTheInputs`,
whether a file is accepted is decided by what it says and not by the order of its tables,
against a reference definition that goes by names alone. That definition is what the program asks of a file;
the user guide asks for more, and `GuideIsEnforced` says where (section 4). `CheckFindsEveryFault`,
`CheckPassesGoodNetworks`, the check of a network is exact. `StoresCanBeUsed`.
`NodesReportEveryConnection`, with groups every connection is reported once.

## 4. Runs

The first four take `MaxFlow` above every sum of flows that occurs, and
`MaxTimes` and `MaxLoop` (100 and 1000 in the code) small, but above what the
networks need: `SolverConverges` shows that they are.

| Run | Instance | Shows |
|---|---|---|
| `Dispatch` | 2 sources, mux 2x2 with limits, a scheduled load, a constant load behind a pass-through, failures and repairs of the constant source, the mux and the constant load | type invariant, fixed point, order of dispatch, cut-off on failure, schedules followed, no event missed, convergence, outages in the statistics, refinement of the calendar |
| `Conversion` | variable-efficiency converter with loss and waste, mover with environment, failures | fixed point, balance, rounding, reported energy balance |
| `Storage` | lossy battery behind a scheduled source, a tank nobody refills, a mux, a load, failures | capacity, stops at full and empty, energy ledger, reported energy balance, uniform rows at two steps |
| `Switching` | utility and generator behind a transfer switch with its logic, failures of the generator | fixed point, one inflow in use, termination |
| `Scenarios` | five inputs: two modes on one component of some age; fragilities of three kinds on two components; three scenarios with loads of their own that occur again; one with a load missing; one whose first failure mode is not used | what a run makes of schedules, loads and occurrences, and reports; termination |
| `Loading` | five sound inputs with every kind of component, groups and references, and 49 small ones with a single fault or oddity each | what is built is what is declared; who is refused; the check of networks; groups |
| `SwitchFlapping` | as `Switching` | the switch leaves a servable load short |
| `PassThroughRepair` | a constant and a scheduled load behind a pass-through that is repaired | the neighbours are not told of the repair |
| `LinkOfFailureMode` | two components that use two modes in the opposite order | each fails by the other's distributions |
| `ClippedOutage` | a repair that takes longer than the scenario | the component is simulated as up |
| `ForgottenStore` | a battery alone between a source and a load | a store that comes back to its charge amount while still asking for its charge is not looked at again, and discharges below nothing |
| `LostOffset` | a scenario no component names | it has no time offset |

The last six violate one property each; `findings` in `PROJECT.json` quotes the
statement of the repository that each one contradicts. The passing runs leave out
just the inputs in which these show, so that the rest of the behaviour is checked to
the end: no repair of a pass-through, no outage of a scheduled load or a mover,
in `Storage` events at whole seconds only, an efficiency of 1/2 and a battery that
shares its load with a tank, where it is never forgotten; in `Scenarios` no outage
as long as what is left of the scenario after its last state, and links and modes that
are numbered so that a link is not given another one's distributions; in `Loading` at most
one mover of a kind, no maximum of 0, and no sound input that the guide does not allow (an `ASSUME` of `MCLoading`;
two of the faulty ones have a maximum of another type). A few more disagreements were seen with instances that are
still in the modules. To see one again, give the run's configuration the constants named:

| What | Where | With |
|---|---|---|
| the repair of a scheduled load sets the request of a constant load (3835) | `PassThroughRepair.cfg` | `Models <- LoadOutages`, `SchedulesAreFollowed` |
| a scheduled load that is down is served when its schedule changes (1276) | `PassThroughRepair.cfg` | `Models <- LoadLosses`, `FailedComponentsCarryNothing` |
| a mover's failure destroys its load's request (4085) | `Conversion.cfg` | `Models <- HeatPumpOutages`, `SchedulesAreFollowed` |
| energies rounded one by one overfill a battery by a joule (2836) | `Storage.cfg` | `Part <- FourFifthsPart`, `Models <- FiveWattModels`, `StoreWithinCapacity` |
| the second mover of a kind is connected in the place of the first (3447), and the check complains of a good network | `Loading.cfg` | `Inputs <- TwoMovers`, `CheckPassesGoodNetworks` |
| a file with two settings for random numbers, which the guide forbids ("At most, one of these values can be specified", `user-guide.md:351`), or with pairs of a load but without their units, which it asks for (362), is accepted: the first setting in the order of `ParseSimulationInfo` counts, units have defaults | `Loading.cfg` | `Inputs <- Unguided`, `GuideIsEnforced` |
| a maximum of 0 occurrences is accepted and means no maximum, where the message asks for "a non-zero positive number or the string 'unlimited' or the value -1" (`erin_next_scenario.cpp:139`) | `Loading.cfg` | `Inputs <- Unguided`, `ScenariosAreAsDeclared` |
| a late repair of a fragility makes the availability less than nothing (`erin_next_timestate.cpp:306`) | `Scenarios.cfg` | `Sims <- LateRepairs`, `AvailabilityIsTheTimeUp` |

Two more need a property that is not kept, as the behaviour may be meant: an empty store
that is being charged offers only its inflow until it is activated again, although it
holds energy by then; and a store drops its charge request when it is asked again
above its charge amount, before it is full (2417).

Seen while reading, with no state to check: the fields of the input and the user guide
differ in a default (the unit of a capacity, the name of a loss flow), in fields that the code passes over as
unknown (the rate unit of switches, pass-throughs and muxes, the limit of a switch). The guide also describes an
older form of the input in places (a mover's `inflow0` and `inflow1`, a mux's `dispatch_strategy`, fragility
curves that are all linear): there the modules follow the program's fields, and `FollowsTheGuide` has none of it.

The bounds are enough for what they are chosen for: each schedule has entries
before, at and after failures and repairs, two events coincide in some
scenarios and not in others, every handler is called with scarce and with
ample supply; `Whole` = 2 gives every distribution a low, a middle and a high advance,
so that two modes fail in either order and together; every field type is met with a
value that suits, one that does not and one that is narrowed (`IntMax` = 7); and every
action and every disjunct of the next-state relations is taken in some run.
They do not cover networks with cycles, more than one mux in a row, or flows
near 2^64.

Fairness is `WF_vars(Next)` in `Simulation`, `ScenarioRun` and `Loading`: the program has one
thread that never waits, so as long as a step is possible one is taken. Without an
assumption on anything else `Terminates` holds of `Simulation` because the solver and the
loop over times are bounded. Of `ScenarioRun` it holds where failures and repairs take time,
which the instances ensure and the code does not: a schedule is rolled until it reaches
the end of its scenario, and where a failure and its repair take none it never does.

## 5. Proofs

Eight modules hold theorems. Six rest on one another (`HandlerProofs` < `SimulationProofs` <
`EventProofs` < `SolverProofs` < `DispatchProofs` < `ResultsProofs`); `ScenarioProofs` is about
`ScenarioRun`, `LoadingProofs` about `Loading`.
`PROJECT.json` lists the results, the rest are lemmas.

- `HandlerProofs`. `SharesAddUp`: the shares a mux hands out in order and what
  is left add up to the total, for any number of claims. `Prefix`, the sum of the
  first n of a sequence, is a recursive function; the proof finds it by induction
  over finite sets of indices, done by hand (`SetInduction`, from
  well-foundedness of the naturals) because the library's induction theorems take
  an operator. It also shows that the operators on flows return flows.

  Every handler, failure and repair maps a `State` to a `State` and
  leaves stored amounts and schedule indices alone (`Handled`), from
  `ValidComponents` and `WellConnected`: a handler only reads ports that exist,
  and each of its terms is a flow. One lemma per handler, one for each dispatch.
- `SimulationProofs`. `TypeCorrect`, `Spec => []TypeOK`. `TypeOK` is not inductive:
  a handler indexes a schedule (so `IndicesInRange`), a charge is computed from
  the room a store has left (so `AmountsInRange`), an action takes a component
  out of `todo` and applies the handler of the loop it is in (so `VisitsInRange`),
  and a counter is incremented only below its limit (so `PassesInRange`). `IInv` is
  their conjunction. There is one lemma per action.
- `EventProofs`. `NoEventIsMissed`, `Spec => []EventsAreRecorded`. The code moves
  an index forward only when the clock stops exactly at the next entry, so one
  event passed over would stop a schedule for good. `EventInv` says why that does not
  happen: every index stands at the last entry that is not after the clock
  (`Stands`); hence the next entry of every schedule is the earliest that is
  still to come (`NextEntryIsEarliest`), the minimum over all of them is not after
  any change to come (`NextEventIsEarliest`), and moving the clock there puts every
  index where it has to stand (`IndexAtStands`). With it go the order of the
  recorded times and that every past event is among them.

  `RecordsFollowTheCalendar`, `Spec => Calendar!Safety`, is the refinement of
  `EventCalendar` but for its fairness: the initial states map to the initial state, a
  step that records or advances maps to the calendar's, and all others stutter.

  `ServiceFollowsTheSchedules`, `Spec => []OutOfServiceAsScheduled`. A component changes hands only at an entry of its reliability schedule, so the
  inductive invariant says for every schedule whether the loop has already come to
  it: before that, its component is as the entry before now says, afterwards as the entry
  of now says. It needs `EventInv`, so that no entry is stepped over.

  `StoresHoldWhatFlowedIn`, `Spec /\ []FailedComponentsCarryNothing => []StoredEnergyIsAccountedFor`,
  for every network and schedule. The amounts move with the clock and the flows of
  the interval are recorded before that, so `LedgerInv` compares the amount of each store
  with the sums over the rows so far, and counts the last row for the time from its
  own to the clock (`ChargedBefore`, `RoundedBefore`): recording adds an interval to the sums and
  empties that time (`RecordAddsInterval`), the clock fills it (`AdvanceKeepsLedger`, from
  `EnergyRounds`: the energy of a flow is rounded by half a joule at most, and in whole
  seconds not at all). The code leaves a failed store its energy whatever its
  connections carry, hence the hypothesis; `DispatchProofs` discharges it.
- `SolverProofs`. `FlowsSettle`: where `EveryChangeIsTold`, the flows are a fixed point
  whenever the solver was not cut short by its loop limit (`CutShort`), for every
  network, with cycles or without, every order of visits and every limit. The inductive
  invariant is `SolverInv`; its main part, `EveryoneIsTold`, says of every component in
  service that it either asks, offers and spills what its handler would now
  (`AsksRight`, `OffersRight`, `SpillsRight`), or has a connection scheduled at which
  its handler will be called. A handler run for one component can only disturb what
  another one sees of a shared connection, and then it schedules that connection at
  the other's end (`ActsFor`, `OthersSee`); afterwards it is right itself (one
  lemma per handler). `EveryChangeIsTold` excludes the networks and inputs of which this is not true
  of the code, and no others that we know of: a component whose failure or repair changes a flow
  and tells nobody, or the wrong side (a failed mover, a repaired pass-through,
  a repaired load with a schedule, which may write to another component's connection, a
  repaired source with a schedule, which forgets its limit); switches, which set the request
  of the inflow not in use to 0 without a word, which matters to a switch upstream; a supply
  whose first entry is after 0. It also says that waste and environment are wired as the
  `Model_Add...` functions do. Of `Dispatch`, `Conversion` and `Storage` it is true, by an
  `ASSUME` of their MC modules; `Switching` has a switch: its fixed point remains model-checked.
- `DispatchProofs`. What the recorded flows mean, in the networks of `EveryChangeIsTold`, where
  no component writes what another one asks or offers (`ActsFor`), so that each
  invariant is a matter of single components.

  `SchedulesHold`, `Spec => []SchedulesAreFollowed`: `InputsInForce` says that every load and
  constant source in service asks for or offers the entry at its index, or its turn at
  this time is still to come; `EventInv` says that the entry is the one in force, and
  `SolverInv` has the sources with a schedule. It needs `LoadsBeginAtOnce`: `NextEvent`
  may pass over the first entry of a load that starts after time 0 (2759).

  `FailedCarryNothing`, `Spec => [](CutShort \/ FailedComponentsCarryNothing)`, has two
  invariants. `DownInv`: of each connection of a failed component what is asked or what is
  offered is 0, although its neighbours go on asking and offering. `FlowsAreFinal`: while
  nothing is scheduled, the actual flow of each connection is the lesser of the two; it fails
  only of what a source with a schedule wastes, which the code sets after the flows of a
  time are final and which no failed component takes. `ScheduledLoadsDoNotFail` is needed as a
  load with a schedule asks even when it is down (1276, section 4), and
  `ConvertersAreWired` says of converters what `Model_AddConverter` ensures, a single inflow
  port, and what `Model_CheckNetwork` asks for, one connection at a port.

  `MuxesServeInOrder`, under the same hypotheses: of a mux that asks and offers right, with
  final flows, an unmet claim takes all that is left (`UnmetClaimTakesAll`), on the side of
  its inflows as on that of its outflows. The claim that no outflow is short while an inflow
  has more to give compares the two sums, which `UtilSafeAdd` holds at `MaxFlow`;
  with both at the ceiling it is not true, hence the alternative `SuppliesOverflow`.
  `SwitchesDrawOnOneInflow`, `Spec => [](CutShort \/ SwitchesUseOneInflow)`, for networks with
  switches, of which `EveryChangeIsTold` is not true. `SwitchInv`: a switch that
  is not to be asked has taken back the request of the inflow it does not use, and from the
  next `Finalize` on nothing flows there (`SwitchIsSet`); a switch that moves is to be asked. `Spares`
  says of every handler, failure and repair that it writes to no inflow of another
  switch, unless to set its request to 0. `WasteIsDisposedOf` and
  `RepairedLoadsAreFound` exclude what else could: waste that goes into a switch, and a
  repaired load with a schedule that reads past the end of the constant loads (3835).

  `StoredEnergyAddsUp`: by `FailedCarryNothing`, in its networks, the hypothesis of
  `StoresHoldWhatFlowedIn` holds unless the solver was ever cut short.

  `FlowsAddUp`, `Spec => [](CutShort \/ RequestsOverflow \/ FlowsBalance)`. No invariant of
  its own: of a component that asks, offers and spills right (`SolverInv`) with final flows
  (`FlowsAreFinal`), the sums over its ports agree, kind by kind. A mux is the
  case that is not arithmetic on three ports: it shares out exactly what it has, on both sides
  (`SharesAddUp`). `EachPortIsWiredOnce` says that a connection is the one its ports know, which
  `Model_CheckNetwork` asks for; `NothingIsMadeOfNothing`, that a converter's tables give at most
  what they take, as its assertions do; `RequestsOverflow` is a request too large for `flow_t`,
  after which the loss is computed from another flow than the one that comes.

  `ConversionsServe`, `Spec => [](CutShort \/ ConversionsOverflow \/ ConversionsServeWhatTheyCan)`.
  The code looks up the efficiency by outflow for what it asks and by inflow for what it
  offers. `TablesAgree` says that the two fit: what a component takes in to put something
  out is enough to put that out. Nothing in the code sees to it; where both tables are
  a constant, `ConstantTablesAgree` proves it for every efficiency and every flow, from the
  ceiling of the one conversion and the floor of the other (`WouldNeed`, `WouldMake`).
- `ResultsProofs`. `UniformRowsAreTheRuns`, `Spec => []UniformRowsShowTheRun`: for every step
  there is a row at each of its multiples up to the final time, with the flows of the last event
  not after it and amounts no store could not hold. It rests on `RecordInv`: the record
  begins at 0 and reaches to the clock, the final time once the run is finished.

  `OutagesAddUp`, `Spec /\ [](~ CutShort) => []OutagesAreAccountedFor`. The statistics are folds over
  the rows; a fold over a record that grew by a row is what it was and what the row adds. The invariant,
  `LoadsTakeNoMore`, says of every recorded row that no load took more than it
  asked for. From the last row at which nothing was short on, the current outage of the
  code's loop is the time since; so the greatest one it met is that of the longest stretch.

  `EnergyAddsUp`, `Spec /\ [](~ CutShort /\ ~ RequestsOverflow) => []EnergyBalances`, for finished runs. `RowsPass`: in every
  recorded row, what is neither made, used nor stored is passed on (`FlowsAddUp`);
  `AmountsAreShown`: the first and the last row show what the stores held then. The sum of
  all flows over where they come from is the sum over where they go to (each connection has two ends); what
  passes through falls out of both, so that in each interval sources and environment give what loads, waste and
  stores take; `StoredEnergyAddsUp` turns what the stores took into the difference of their amounts.
  `IsFiniteSet(Comp)` and `IsFiniteSet(Conn)` (`FiniteAssumption`) are needed for the sums.
- `ScenarioProofs`. `OccurrencesHaveTheirLoads`: in the inductive invariant the loads in force
  are those of the scenario at hand from the moment it has begun: all its loads are set, or the run
  stops, as some component has none for it (`erin_next_simulation.cpp:2287`). `NoOccurrenceIsLeftOut`: the starts of a scenario are the
  sums of the advances rolled for it (`rolled`), one row for each, numbered in order, and one advance
  more that would go past the maximum time unless the maximum number is reached; so no occurrence
  rolled in time is skipped.

  `ScenarioTypes`, `Spec => []TypeOK`. `TypeOK` is not inductive: that a combined or clipped schedule is
  one needs the ones it is made of to be sorted. `KindsInv` says so of each
  stage (links, components, those the simulation gets), of the starts and the reports.

  `OutagesApply` and `SchedulesSuit`, of `OutagesAreApplied` and `SchedulesSuitTheSimulation`. `Combine` walks two
  schedules at once. The proof takes it one place of the walk at a time, by induction over the time that is left to
  walk: what it writes from a place on is sorted, begins at that place's
  time, and says at each later time what both schedules say (`CombineMeans`: up when both
  are, down for the causes of both, and fit to be combined again). `ClipMeans`: the part that
  is kept says of every moment what the whole schedule did, if it is not empty or begins with being
  up. The invariant `OutagesInv` follows the outages from stage to stage: a rolled schedule tells
  its mode's outages (`LinksTell`); all links are rolled before any is combined (`RolledFirst`); a component's schedule
  combines exactly the links done so far, in whatever order (`PartsTell`); after
  the clip and the fragilities it has the component down for just the causes that have it
  down (`ReliabilitiesTell`).

  `AvailabilityIsRight` and `FailuresAreReported`, of `AvailabilityIsTheTimeUp` and `FailuresAreCounted`. How long chosen states last together
  is how many ticks they take up (`TogetherTakesUp`), which needs that the schedule does not go beyond the end:
  `ReportsInv` says so of what the fragilities leave, and that the last report is of these
  schedules. For the whole network the components' schedules are combined one after the
  other; by induction over their number the combination is up when all of them are (`NetworkTells`). A
  cause is counted where a state that has it follows one that is up (`CountFailuresIs`).

  The four are proved of inputs that satisfy `OutagesSuit`: no age, offset or duration is
  negative, failures and repairs take time (else a schedule has two states of one time, or is
  rolled for ever), and a repair takes no longer than a scenario, since
  the code loses an outage that covers all of one: `ClippedOutage` shows that it
  does. The last two also need `FragilitiesFitScenarios`, that what a fragility takes down is
  repaired by the scenario's end or never: with `LateRepairs` (section 4) it is not, and the
  availability becomes negative. All instances of `Scenarios` satisfy both, by an `ASSUME` of `MCScenarios`.

- `LoadingProofs`. The tables of a section are read in any order, and much is named before it is read:
  a component is there when a connection names it, a failure mode and a scenario when a component does.
  Ids are positions, resolved at different times, so every proof has to say that registries only
  grow and keep one entry for a name (`Kept`, `KeptByReading`). There is one lemma per action.

  `LoadingTypes`, `Spec => []TypeOK`. `TypeOK` is not inductive: which part a component has depends on
  the lengths of the lists of parts, a mover having two (`MoversAlike`); the slots of a part hold connections
  or nothing yet (`SlotsHold`); an id is looked up in a registry that must have the name, which for
  distributions and scenarios is a matter of the sections done so far. `LoadInv` is their conjunction.

  `StoresCanBeUsedAlways`, `Spec => []StoresCanBeUsed`: of every fraction of every capacity, cut off as
  the code does; reading a component adds its store, and all else leaves stores alone.

  `CheckIsComplete`, `Spec => []CheckFindsEveryFault`. Of the connections at a slot, only the last is
  held by the slot, and the check goes through connections as well as slots: where two are at
  one slot, the slot does not lead back to one of them. A slot that was never connected holds the first
  connection's id, so its check reads a connection that must be there: a component is
  there only if a connection names it (`ConnsInv`).

  `GoodNetworksPass`, `Spec => []("" \notin TagsInUse /\ OneMoverOfAKind(s.model) => CheckPassesGoodNetworks)`, and
  `NodesReportAll`, `Spec => []("" \notin TagsInUse => NodesReportEveryConnection)`. `NetInv` says how a network
  is put together (`Built`): each end of a connection is at a port with a slot, or at one of the
  boundary or for waste where nothing else is (`EndsHold`); a slot leads to a connection that ends there, if
  there is one and no other component has the same part (`SlotsLead`); a name is that of one component
  (`NamesOnce`). So in a well-connected network no two connections end at one port (`EndsApart`), each slot leads
  back (`SlotsFit`), and ports and connections of a mux correspond (`MuxCounts`). For the results: connections between two
  groups are told apart by the number each gets, which is how many come before it (`NodesTell`), and these
  numbers have no gaps (`Counting`). The hypotheses are needed: movers of a kind share a part
  (section 4); and the boundary has no names, so that a connection to the empty name, which the code does not
  refuse, leads to a waste sink that has its connection already.

  `ModesAreRight` and `ScenariosAreRight`, of `ModesAreAsDeclared` and `ScenariosAreAsDeclared`. `DeclaredInv` says of the
  names of a section that are done (`Done`) that what is kept of them is what the input says,
  whatever else has been read since; that no id was taken by another name in between
  is what makes it true of the end. `ScenariosAreRight` is about inputs whose maxima are allowed
  (`MaximumAllowed`); of a maximum of 0 it is not true (section 4).

The assumptions are those of the modules and are evaluated by TLC on the
instances: `FlowAssumption` (`MaxFlow` is a natural number, `CastOverflow` a flow),
`NetworkAssumption` (parameters have their types and satisfy what the constructors
and `Model_AddConnection` ensure; a port a handler reads has one connection; a table
has the entries the assertions of `LookupTable_LookupInterp` ask for; the
round-trip efficiency of a store is at most 1), `SimulationAssumption` (schedules have
strictly increasing times, no component has two reliability schedules),
`FiniteAssumption` (components and connections are finite sets), `ScenarioAssumption` (inputs are
what `Loading` makes of a file: ids are positions in the lists or refer to one, durations, offsets
and ages are whole, distributions have parameters of their kind), `ResultsAssumption`, which bounds the
step, and `InputsAssumption` (the values of an input have the types of TOML: lists are sequences, tables
are finite, numbers are fractions; no number of a port is negative, as it is cast to an unsigned number, and
no capacity, where that cast has no defined result; `max_outflows` as above), and
`IntMaxAssumption` (`IntMax` is a natural number). Nothing is assumed about the shape of the network, so the theorems also cover
cycles, and flows that wrap.

Only model-checked, and why:

- The properties of flows without the hypotheses of `DispatchProofs`, and those of schedules without
  `OutagesSuit`: not true of every network and input the code accepts (section 4).
- `FlowsAreAFixedPoint` of networks with switches.
- `SolverConverges`: depends on the network; a cycle may not converge.
- `StoreWithinCapacity`: not true when an energy is rounded (section 4), nor of a store that is forgotten
  (`ForgottenStore`); and `StoresStopAtTheirLimits`, which rests on it.
- Of `Loading`: `ComponentsAreAsDeclared` and `VerdictIsTheInputs`, which compare records with fields that depend on the kind
  and the input with a reference definition, and of which the first is not true of two movers of a kind
  (section 4).
- Liveness under fairness (`Terminates`, the liveness half of `KeepsTheCalendar`), which this
  prover does not do.

## 6. What is not modelled, and what is left

`PROJECT.json` lists every component with its status. Not modelled, and why:

- Units, the text of CSV files, of results, graphs and messages: conversion and formatting
  without state. Ratios made of the statistics (averages, percentages) likewise; the
  totals they are made of are in `Results` and `ScenarioRun`.
- The random generator and the quantile functions of normal and Weibull distributions:
  floating-point formulas. Every fraction, and any quantiles, are allowed for.
- The command line, but for the command that checks a network. Input templates and build
  scripts are not part of the simulator.
- An input in which a distribution names a file that cannot be read: reading goes on without
  the distributions that were to come, so that `VerdictIsTheInputs` does not hold of it.

Left to do:

1. *Prove more.* That no flow goes through a failed component and a mux serves in order in
   networks with switches too, by invariants like `SwitchInv`, about what others write; that stores
   whose events are at whole seconds stay within their capacity.
2. *Larger instances.* Networks with a cycle, with muxes in a row, and one near `MaxFlow`.
3. *Events.* First entries of schedules that are not at 0 are excluded from `EventTimes`, as the code
   never stops for them; what a user is to expect of them is not written anywhere.
