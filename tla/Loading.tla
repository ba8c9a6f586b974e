------------------------------ MODULE Loading ------------------------------
(***************************************************************************)
(* Simulation_ReadFromToml: a Simulation is made of an input file, section *)
(* by section, and the network that comes of it may then be checked.       *)
(*                                                                         *)
(* The tables of a section are read in no order of the file's: the library *)
(* keeps them in an unordered_map.  So a section is a set of names left to *)
(* be read, and everything that refers to another part of the input by name*)
(* is resolved through ids that depend on the order.  The connections of   *)
(* the network are the exception: they are an array.                       *)
(*                                                                         *)
(* An input has the tables of its sections, with typed values where the    *)
(* program validates a table against its fields, and the contents of the   *)
(* files it names.  Values that the program asks to be positive numbers of *)
(* some unit are not negative, and a mux with limits has one for every     *)
(* outflow: the program asserts it, and reads past the end of fewer.       *)
(***************************************************************************)
EXTENDS NetworkBuild, InputFields, Distributions

CONSTANT Inputs

VARIABLES
  input,   \* the file
  phase,   \* the section that is read, or how reading ended
  left,    \* the names in it that are still to be read
  s,       \* the Simulation
  issues   \* what the check of the network found

vars == <<input, phase, left, s, issues>>

-----------------------------------------------------------------------------
(* Registries: sequences of records with a tag; ids are positions.         *)
Tagged(seq, tag) == {i \in DOMAIN seq : seq[i].tag = tag}
IdOf(seq, tag)   == Min(Tagged(seq, tag))

RegisterAnew(seq, record) == Append(seq, record)   \* a slip

(* A record takes the place of one with its tag, or comes last.            *)
Register(seq, record) ==
  IF Tagged(seq, record.tag) = {} THEN Append(seq, record)
  ELSE [seq EXCEPT ![IdOf(seq, record.tag)] = record]

RegisterTagAgain(seq, placeholder) == Append(seq, placeholder)   \* a slip

(* Only the tag, with what is known so far.                                *)
RegisterTag(seq, placeholder) ==
  IF Tagged(seq, placeholder.tag) = {} THEN Append(seq, placeholder) ELSE seq

RegisterTags(seq, placeholders) ==
  LET known[n \in 0 .. Len(placeholders)] ==
        IF n = 0 THEN seq ELSE RegisterTag(known[n - 1], placeholders[n])
  IN  known[Len(placeholders)]

(* Names without anything to them: flows and intensities.                  *)
RegisterName(seq, name) == IF Contains(seq, name) THEN seq ELSE Append(seq, name)
IdOfName(seq, name) == Min({i \in DOMAIN seq : seq[i] = name})

RegisterNames(seq, names) ==
  LET known[n \in 0 .. Len(names)] ==
        IF n = 0 THEN seq ELSE RegisterName(known[n - 1], names[n])
  IN  known[Len(names)]

(* Simulation_Init registers the flow without a name.                      *)
Init ==
  /\ input \in Inputs
  /\ phase = "simulation_info"
  /\ left = {"simulation_info"}
  /\ s = [info |-> <<>>, flows |-> <<"">>, loads |-> <<>>, model |-> EmptyModel,
          dists |-> <<>>, failureModes |-> <<>>, links |-> <<>>,
          fragilityModes |-> <<>>, fragilities |-> <<>>,
          scenarios |-> <<>>, offsets |-> <<>>, intensities |-> <<>>, levels |-> <<>>,
          curves |-> <<>>, linear |-> <<>>, tabular |-> <<>>]
  /\ issues = {}

(* Reading ends with no Simulation, or with an exception.                  *)
Fail(ending) == phase' = ending /\ UNCHANGED <<input, left, s, issues>>

Read(name, simulation) ==
  /\ left' = left \ {name}
  /\ s' = simulation
  /\ UNCHANGED <<input, phase, issues>>

-----------------------------------------------------------------------------
(* Simulation_ParseSimulationInfo.  Where random fractions come from:      *)
RandomType(info) ==
  CASE "fixed_random" \in DOMAIN info -> <<"FixedRandom", info.fixed_random>>
    [] "fixed_random" \notin DOMAIN info /\ "fixed_random_series" \in DOMAIN info
                                      -> <<"FixedSeries", info.fixed_random_series>>
    [] OTHER -> <<"RandomFromSeed",
                  IF info.random_seed < 0 THEN - info.random_seed ELSE info.random_seed>>

SimulationInfo(info) ==
  [timeUnit |-> info.time_unit, maxTime |-> info.max_time,
   rateUnit |-> info.rate_unit, random |-> RandomType(info)]

(* What tells the kind of a table must be a text: the program asks for no  *)
(* less, and the library answers with an exception.                        *)
TypeThrows(table) == "type" \in DOMAIN table /\ table["type"].type # "string"
TypeIsOneOf(table, types) ==
  /\ "type" \in DOMAIN table /\ table["type"].type = "string"
  /\ table["type"].value \in types

(* A table with an error ends the reading.                                 *)
FailToRead(fields, table) ==
  \/ CanThrow(fields, table) /\ Fail("crashed")
  \/ Faulty(fields, table)   /\ Fail("rejected")

Readable(fields, table) == ~ CanThrow(fields, table) /\ ~ Faulty(fields, table)

ReadInfo ==
  /\ phase = "simulation_info" /\ left # {}
  /\ \/ FailToRead(SimulationInfoFields, input.info)
     \/ /\ Readable(SimulationInfoFields, input.info)
        /\ Read("simulation_info",
             [s EXCEPT !.info = SimulationInfo(Parsed(SimulationInfoFields, input.info))])

-----------------------------------------------------------------------------
(* ParseLoads.  The pairs of a load are in its table or in a file; a file  *)
(* may have several loads.  A table with neither is passed over, as is a   *)
(* file with several loads that cannot be read, and a load with the name of*)
(* an earlier one.  One that names both files has its loads from both, in  *)
(* either order: these are the sequences that may come of a table.         *)
PartsIn(table) ==
  IF "multi_part_csv" \in DOMAIN table /\ table.multi_part_csv.value \in DOMAIN input.files
    THEN input.files[table.multi_part_csv.value] ELSE <<>>

LoadsIn(tag, table) ==
  LET single(schedule) == <<[tag |-> tag, schedule |-> schedule]>>
  IN  IF Readable(ExplicitLoadFields, table)
        THEN {single(Parsed(ExplicitLoadFields, table).time_rate_pairs)}
      ELSE IF "csv_file" \in DOMAIN table
        THEN LET whole == single(input.files[table.csv_file.value])
             IN  {whole \o PartsIn(table), PartsIn(table) \o whole}
      ELSE {PartsIn(table)}

NoSuchFile(table) ==
  /\ ~ Readable(ExplicitLoadFields, table)
  /\ "csv_file" \in DOMAIN table
  /\ \/ ~ Readable(FileLoadFields, table)
     \/ table.csv_file.value \notin DOMAIN input.files

ReadLoad(tag) ==
  /\ phase = "loads"
  /\ IF NoSuchFile(input.loads[tag]) THEN Fail("rejected")
     ELSE \E loads \in LoadsIn(tag, input.loads[tag]) :
            Read(tag, [s EXCEPT !.loads = RegisterTags(@, loads)])

-----------------------------------------------------------------------------
(* ParseComponents                                                         *)

(* Numbers are rational; as amounts they are cut off.                      *)
Amount(x)     == x[1] \div x[2]
Positive(x)   == x[1] > 0
AtMostOne(x)  == x[1] <= x[2]
UnitRange(x)  == x[1] >= 0 /\ AtMostOne(x)
Efficiency(x) == Positive(x) /\ AtMostOne(x)

Lookup(f, name) == IF name \in DOMAIN f THEN {f[name]} ELSE {}

(* TOMLTable_ParseComponentTagsInUse                                       *)
TagsInUse == UNION {{input.conns[i].from, input.conns[i].to} : i \in DOMAIN input.conns}

RegisterFlow(flows, f, field) ==
  IF field \in DOMAIN f THEN RegisterName(flows, f[field]) ELSE flows

RegisterFlows(flows, f) ==
  LET out   == RegisterFlow(flows, f, "outflow")
      inout == RegisterFlow(RegisterFlow(out, f, "inflow"), f, "flow")
  IN  RegisterFlow(inout, f, "lossflow")

FlowId(flows, f, field) ==
  CASE field # "lossflow" /\ "flow" \in DOMAIN f -> IdOfName(flows, f["flow"])
    [] field \in DOMAIN f                         -> IdOfName(flows, f[field])
    [] OTHER                                      -> NoFlow

(* What the fields of a component must satisfy besides having their types. *)
Scheduled(f) ==
  CASE "loads_by_scenario" \in DOMAIN f  -> f.loads_by_scenario
    [] "supply_by_scenario" \in DOMAIN f -> f.supply_by_scenario
    [] OTHER -> <<>>

PairsSuit(pairs, SecondSuits(_)) ==
  \A i \in DOMAIN pairs : UnitRange(pairs[i][1]) /\ SecondSuits(pairs[i][2])

Suitable(kind, f) ==
  /\ "rate_unit" \in DOMAIN f => f.rate_unit \in RateUnits
  /\ \A scenario \in DOMAIN Scheduled(f) : Tagged(s.loads, Scheduled(f)[scenario]) # {}
  /\ kind = "Mux" => f.num_inflows > 0 /\ f.num_outflows > 0
  /\ kind = "ConstantEfficiencyConverter" => Efficiency(f.constant_efficiency)
  /\ kind = "VariableEfficiencyConverter" => PairsSuit(f.efficiency_by_fraction_out, Efficiency)
  /\ kind = "VariableEfficiencyMover"     => PairsSuit(f.cop_by_fraction_out, Positive)
  /\ kind = "Store" => /\ Amount(f.capacity) # 0
                       /\ UnitRange(f.charge_at_soc) /\ UnitRange(f.init_soc)
                       /\ Efficiency(f.roundtrip_efficiency)

(* A later pair for a fraction takes the place of an earlier one.          *)
ByFraction(pairs) ==
  [x \in {pairs[i][1] : i \in DOMAIN pairs} |->
     pairs[Max({i \in DOMAIN pairs : pairs[i][1] = x})][2]]

(* A store starts to charge below its capacity.                            *)
ChargeAmountOfShare(capacity, share) == Amount(<<share[1] * capacity, share[2]>>)   \* a slip

ChargeAmount(capacity, share) ==
  LET amount == Amount(<<share[1] * capacity, share[2]>>)
  IN  IF amount = capacity THEN capacity - 1 ELSE amount

MuxLimits(f) ==
  {[i \in 1 .. f.num_outflows |-> Amount(limits[i])] : limits \in Lookup(f, "max_outflows")}

LossLimit(f) == {Amount(x) : x \in Lookup(f, "max_lossflow")}

Param(kind, f, byScenario) ==
  CASE kind = "ConstantLoad" -> [limit |-> {}, request |-> Amount(f.constant_request)]
    [] kind \in {"ScheduleBasedLoad", "ScheduleBasedSource"} ->
         [limit |-> {}, byScenario |-> byScenario]
    [] kind = "ConstantEfficiencyConverter" ->
         [limit |-> {}, lossLimit |-> LossLimit(f), efficiency |-> f.constant_efficiency]
    [] kind = "VariableEfficiencyConverter" ->
         [limit |-> {}, lossLimit |-> LossLimit(f),
          byFraction |-> ByFraction(f.efficiency_by_fraction_out)]
    [] kind = "Mover" -> [limit |-> {}, cop |-> f.cop]
    [] kind = "VariableEfficiencyMover" ->
         [limit |-> {}, byFraction |-> ByFraction(f.cop_by_fraction_out)]
    [] kind = "Mux" -> [limit |-> {}, limits |-> MuxLimits(f)]
    [] kind = "Store" ->
         LET capacity == Amount(f.capacity)
         IN  [limit |-> {}, capacity |-> capacity,
              charging  |-> Amount(f.max_charge), discharging |-> Amount(f.max_discharge),
              chargeAmount |-> ChargeAmount(capacity, f.charge_at_soc),
              initial   |-> Amount(<<f.init_soc[1] * capacity, f.init_soc[2]>>),
              roundTrip |-> f.roundtrip_efficiency]
    [] OTHER -> [limit |-> {}]

AddToModel(m, kind, f, param, flows, tag) ==
  LET in  == FlowId(flows, f, "inflow")
      out == FlowId(flows, f, "outflow")
  IN  CASE kind = "ConstantLoad"        -> AddConstantLoad(m, param, in, tag)
        [] kind = "ScheduleBasedLoad"   -> AddScheduleBasedLoad(m, param, in, tag)
        [] kind = "ConstantSource"      -> AddConstantSource(m, param, out, tag)
        [] kind = "ScheduleBasedSource" -> AddScheduleBasedSource(m, param, out, tag)
        [] kind = "Mux"    -> AddMux(m, f.num_inflows, f.num_outflows, param, out, tag)
        [] kind = "Switch" -> AddSwitch(m, param, in, tag)
        [] kind = "PassThrough"  -> AddPassThrough(m, param, in, tag)
        [] kind \in Converters   ->
             AddConverter(m, kind, param, in, out, FlowId(flows, f, "lossflow"), tag)
        [] kind \in Movers       -> AddMover(m, kind, param, in, out, tag)
        [] kind = "Store" ->
             IF param.roundTrip[1] = param.roundTrip[2] THEN AddStore(m, param, in, tag)
             ELSE AddStoreWithWasteflow(m, param, in, tag)

(* The limits are set where the index of the component leads.              *)
SetLimit(m, id, f) ==
  IF "max_outflow" \notin DOMAIN f THEN m
  ELSE [m EXCEPT !.parts[m.comps[id].kind][m.comps[id].idx].param.limit
                   = {Amount(f.max_outflow)}]

(* Reporting, age and group are taken from the table, not from the fields, *)
(* where they have defaults.  (The unit of an age is left out with those of*)
(* the other values; it is that of the table, or seconds.)                 *)
Settle(m, id, f, table) ==
  LET reported == SetReporting(m, id, f.report)
      aged     == IF "initial_age" \in DOMAIN table
                    THEN SetInitialAge(reported, id, f.initial_age) ELSE reported
  IN  IF "group" \in DOMAIN table THEN AddComponentToGroup(aged, id, f.group) ELSE aged

(* What a component names is registered with something in its place; the   *)
(* sections that follow tell what it is.                                   *)
UnknownScenario(tag)  == [tag |-> tag, dist |-> First, duration |-> 0, max |-> {0}]
UnknownFailure(tag)   == [tag |-> tag, failure |-> First, repair |-> First]
UnknownFragility(tag) == [tag |-> tag, curve |-> First, repair |-> {}]
UnknownCurve(tag)     == [tag |-> tag, type |-> "linear", idx |-> First]

RegisterAll(seq, tags, Placeholder(_)) ==
  RegisterTags(seq, [i \in DOMAIN tags |-> Placeholder(tags[i])])

(* ScenarioDict_RegisterScenario, with the tag only.                       *)
RegisterScenarioTags(simulation, tags) ==
  LET scenarios == RegisterAll(simulation.scenarios, tags, UnknownScenario)
  IN  [simulation EXCEPT
         !.scenarios = scenarios,
         !.offsets = @ \o [i \in 1 .. Len(scenarios) - Len(simulation.scenarios) |-> 0]]

Names(table, key) ==
  IF key \in DOMAIN table THEN AsArray(Required("ArrayOfString"), table[key]) ELSE {<<>>}

LinkByPosition(simulation, id, tags) ==   \* a slip
  LET modes == RegisterAll(simulation.failureModes, tags, UnknownFailure)
  IN  [simulation EXCEPT !.failureModes = modes,
                         !.links = @ \o [i \in DOMAIN tags |-> <<id, i>>]]

LinkFailureModes(simulation, id, tags) ==
  LET modes == RegisterAll(simulation.failureModes, tags, UnknownFailure)
  IN  [simulation EXCEPT !.failureModes = modes,
                         !.links = @ \o [i \in DOMAIN tags |-> <<id, IdOf(modes, tags[i])>>]]

LinkFragilities(simulation, id, tags) ==
  LET modes == RegisterAll(simulation.fragilityModes, tags, UnknownFragility)
  IN  [simulation EXCEPT !.fragilityModes = modes,
                         !.fragilities = @ \o [i \in DOMAIN tags |-> <<id, IdOf(modes, tags[i])>>]]

(* ParseSingleComponent, for a table with nothing to refuse; the scenarios *)
(* of a load or a source come in any order.                                *)
WithComponent(tag, kind, f, table, scenarioTags) ==
  LET flows   == RegisterFlows(s.flows, f)
      known   == RegisterScenarioTags(s, scenarioTags)
      byScenario == [id \in {IdOf(known.scenarios, x) : x \in DOMAIN Scheduled(f)} |->
                       IdOf(s.loads, Scheduled(f)[known.scenarios[id].tag])]
      made    == AddToModel(s.model, kind, f, Param(kind, f, byScenario), flows, tag)
      id      == IdOf(made.comps, tag)
      settled == [known EXCEPT !.flows = flows, !.model = Settle(SetLimit(made, id, f), id, f, table)]
      failing == CHOOSE tags \in Names(table, "failure_modes") : TRUE
      fragile == CHOOSE tags \in Names(table, "fragility_modes") : TRUE
  IN  LinkFragilities(LinkFailureModes(settled, id, failing), id, fragile)

ReadDeclared(tag, kind, f, table) ==
  IF ~ Suitable(kind, f) \/ Names(table, "failure_modes") = {} \/ Names(table, "fragility_modes") = {}
    THEN Fail("rejected")
  ELSE \E order \in Bijection(1 .. Cardinality(DOMAIN Scheduled(f)), DOMAIN Scheduled(f)) :
         Read(tag, WithComponent(tag, kind, f, table, order))

ReadComponent(tag) ==
  /\ phase = "components"
  /\ LET table  == input.comps[tag]
         kind   == KindOf[table["type"].value]
         fields == ComponentFields(kind)
     IN  IF tag \notin TagsInUse THEN Read(tag, s)
         ELSE IF ~ TypeIsOneOf(table, DOMAIN KindOf)
           THEN Fail(IF TypeThrows(table) THEN "crashed" ELSE "rejected")
         ELSE \/ FailToRead(fields, table)
              \/ Readable(fields, table) /\ ReadDeclared(tag, kind, Parsed(fields, table), table)

-----------------------------------------------------------------------------
(* What the types of an input's values come to: lists are sequences, tables*)
(* are finite, numbers are fractions, neither the number of a port nor the *)
(* capacity of a store is less than zero, and a mux has all its limits.    *)
FieldsHaveTheirTypes(kind, f) ==
  /\ IsFiniteSet(DOMAIN Scheduled(f))
  /\ kind = "Mux" => /\ {f.num_inflows, f.num_outflows} \subseteq Int
                     /\ \A limits \in Lookup(f, "max_outflows") : Len(limits) >= f.num_outflows
  /\ kind = "Store" => /\ f.capacity \in Nat \X (Nat \ {0})
                       /\ {f.charge_at_soc, f.init_soc} \subseteq Int \X (Nat \ {0})

ASSUME InputsAssumption ==
  \A file \in Inputs :
    /\ file.conns \in Seq(Range(file.conns))
    /\ \A conn \in Range(file.conns) : {conn.fromPort, conn.toPort} \subseteq Nat
    /\ \A content \in Range(file.files) : content \in Seq(Range(content))
    /\ \A scenario \in Range(file.scenarios) : IsFiniteSet(DOMAIN scenario.intensity)
    /\ \A table \in Range(file.comps) :
         /\ \A key \in DOMAIN table :
              table[key].type = "array" => table[key].value \in Seq(Range(table[key].value))
         /\ \A kind \in Range(KindOf) :
              Readable(ComponentFields(kind), table)
                => FieldsHaveTheirTypes(kind, Parsed(ComponentFields(kind), table))

-----------------------------------------------------------------------------
(* ParseDistributions.  What a distribution may not be is an exception.    *)
Share(x) == (x[1] * Whole) \div x[2]

QuantileTable(pairs) ==
  [type |-> "QuantileTable", variates |-> [i \in DOMAIN pairs |-> Share(pairs[i][1])],
   times |-> [i \in DOMAIN pairs |-> Amount(pairs[i][2])]]

Distribution(f) ==
  CASE f.type = "fixed"   -> [type |-> "Fixed", value |-> Amount(f.value)]
    [] f.type = "uniform" -> [type |-> "Uniform", lower |-> Amount(f.lower_bound),
                              upper |-> Amount(f.upper_bound)]
    [] f.type = "normal"  -> [type |-> "Normal", mean |-> f.mean, sd |-> f.standard_deviation]
    [] f.type = "weibull" -> [type |-> "Weibull", shape |-> f.shape[1], scale |-> f.scale[1]]
    [] f.type = "quantile_table" ->
         QuantileTable(IF "csv_file" \in DOMAIN f THEN input.files[f.csv_file]
                       ELSE f.variate_time_pairs)

(* When the file of a distribution cannot be read, the section is given up *)
(* for read: what is left of it is not.                                    *)
GiveUpSection == left' = {} /\ UNCHANGED <<input, phase, s, issues>>

AddDistribution(name, f) ==
  IF "csv_file" \in DOMAIN f /\ f.csv_file \notin DOMAIN input.files THEN GiveUpSection
  ELSE IF ~ ValidDistribution(Distribution(f)) THEN Fail("crashed")
  ELSE Read(name, [s EXCEPT !.dists = Append(@, [tag |-> name, dist |-> Distribution(f)])])

ReadDistribution(name) ==
  /\ phase = "dist"
  /\ LET table  == input.dists[name]
         fields == DistFields(table["type"].value, table)
     IN  IF ~ TypeIsOneOf(table, DistTypes)
           THEN Fail(IF TypeThrows(table) THEN "crashed" ELSE "rejected")
         ELSE \/ FailToRead(fields, table)
              \/ Readable(fields, table) /\ AddDistribution(name, Parsed(fields, table))

-----------------------------------------------------------------------------
(* ParseFailureModes, ParseFragilityModes.  A name that is not that of a   *)
(* distribution is an exception; a name of both kinds of modes is refused. *)
HasDist(name) == Tagged(s.dists, name) # {}

ReadFailureMode(name) ==
  /\ phase = "failure_mode"
  /\ LET mode == input.failureModes[name]
     IN  IF Tagged(s.fragilityModes, name) # {} THEN Fail("rejected")
         ELSE IF ~ (HasDist(mode.failure) /\ HasDist(mode.repair)) THEN Fail("crashed")
         ELSE Read(name, [s EXCEPT !.failureModes = Register(@,
                [tag |-> name, failure |-> IdOf(s.dists, mode.failure),
                 repair |-> IdOf(s.dists, mode.repair)])])

ReadFragilityMode(name) ==
  /\ phase = "fragility_mode"
  /\ LET mode   == input.fragilityModes[name]
         curves == Register(s.curves, UnknownCurve(mode.curve))
     IN  IF Tagged(s.failureModes, name) # {} THEN Fail("rejected")
         ELSE IF \E d \in mode.repair : ~ HasDist(d) THEN Fail("crashed")
         ELSE Read(name, [s EXCEPT !.curves = curves, !.fragilityModes = Register(@,
                [tag |-> name, curve |-> IdOf(curves, mode.curve),
                 repair |-> {IdOf(s.dists, d) : d \in mode.repair}])])

-----------------------------------------------------------------------------
(* ParseNetwork, one connection after the other                            *)
HasPort(flows, port, flow) == port < Len(flows) /\ flows[port + 1] = flow

ConnectionSuits(c) ==
  /\ Contains(s.flows, c.flow)
  /\ Tagged(s.model.comps, c.from) # {} /\ Tagged(s.model.comps, c.to) # {}
  /\ LET from == s.model.comps[IdOf(s.model.comps, c.from)]
         to   == s.model.comps[IdOf(s.model.comps, c.to)]
         flow == IdOfName(s.flows, c.flow)
     IN  HasPort(from.outflows, c.fromPort, flow) /\ HasPort(to.inflows, c.toPort, flow)

ReadConnection(i) ==
  /\ phase = "network" /\ i = Min(left)
  /\ LET c == input.conns[i]
     IN  IF ~ ConnectionSuits(c) THEN Fail("rejected")
         ELSE Read(i, [s EXCEPT !.model =
                AddConnection(@, IdOf(@.comps, c.from), c.fromPort, IdOf(@.comps, c.to), c.toPort,
                              IdOfName(s.flows, c.flow))])

-----------------------------------------------------------------------------
(* Simulation_ParseScenarios: all the scenarios, then their intensities    *)

(* A number that is not positive stands for no maximum, as does one text.  *)
(* Numbers pass through an int.                                            *)
MaxRefused(v) == v.type = "string" /\ v.value # "unlimited"
MaxThrows(v)  == v.type # "string" /\ ~ IsNumber(v)
MaxOccurrences(v) ==
  IF ~ IsNumber(v) THEN {}
  ELSE LET n == IF v.type = "integer" THEN Narrow(v.value) ELSE Amount(v.value)
       IN  IF n > 0 THEN {n} ELSE {}

RegisterScenarioOnce(simulation, record, offset) ==   \* a slip
  [simulation EXCEPT !.scenarios = RegisterTag(@, record)]

(* ScenarioDict_RegisterScenario with everything: one that is new gets no  *)
(* offset.                                                                 *)
RegisterScenario(simulation, record, offset) ==
  LET known == Tagged(simulation.scenarios, record.tag)
  IN  [simulation EXCEPT
         !.scenarios = Register(@, record),
         !.offsets   = [i \in DOMAIN @ |-> IF i \in known THEN offset ELSE @[i]]]

ReadScenario(tag) ==
  /\ phase = "scenarios"
  /\ LET scenario == input.scenarios[tag]
     IN  IF MaxRefused(scenario.max) THEN Fail("rejected")
         ELSE IF MaxThrows(scenario.max) \/ ~ HasDist(scenario.dist) THEN Fail("crashed")
         ELSE Read(tag, RegisterScenario(s,
                [tag |-> tag, dist |-> IdOf(s.dists, scenario.dist),
                 duration |-> scenario.duration, max |-> MaxOccurrences(scenario.max)],
                scenario.offset))

WithIntensities(tag, names) ==
  LET id    == IdOf(s.scenarios, tag)
      known == RegisterNames(s.intensities, names)
      given == {<<id, IdOfName(known, names[i])>> : i \in DOMAIN names}
  IN  [s EXCEPT
         !.intensities = known,
         !.levels = [p \in DOMAIN @ \cup given |->
                       IF p \in given THEN input.scenarios[tag].intensity[known[p[2]]]
                       ELSE @[p]]]

ReadIntensities(tag) ==
  /\ phase = "intensity"
  /\ LET named == DOMAIN input.scenarios[tag].intensity
     IN  \E names \in Bijection(1 .. Cardinality(named), named) :
           Read(tag, WithIntensities(tag, names))

-----------------------------------------------------------------------------
(* Simulation_ParseFragilityCurves                                         *)
ReadCurve(name) ==
  /\ phase = "fragility_curve"
  /\ LET curve == input.curves[name]
         list  == s[curve.type]
         new   == [intensity |-> IdOfName(s.intensities, curve.vulnerableTo), data |-> curve.data]
         known == [tag |-> name, type |-> curve.type, idx |-> Len(list) + 1]
     IN  IF curve.type \notin {"linear", "tabular"} \/ ~ Contains(s.intensities, curve.vulnerableTo)
           THEN Fail("rejected")
         ELSE Read(name, [s EXCEPT ![curve.type] = Append(list, new),
                                   !.curves = Register(@, known)])

-----------------------------------------------------------------------------
(* Simulation_ReadFromToml                                                 *)
CurvesFirst == <<"simulation_info", "loads", "components", "dist", "failure_mode",   \* a slip
                 "fragility_mode", "network", "scenarios", "fragility_curve", "intensity", "ready">>

Sections == <<"simulation_info", "loads", "components", "dist", "failure_mode",
              "fragility_mode", "network", "scenarios", "intensity", "fragility_curve", "ready">>

NamesIn(section) ==
  CASE section = "simulation_info" -> {"simulation_info"}
    [] section = "loads"           -> DOMAIN input.loads
    [] section = "components"      -> DOMAIN input.comps
    [] section = "dist"            -> DOMAIN input.dists
    [] section = "failure_mode"    -> DOMAIN input.failureModes
    [] section = "fragility_mode"  -> DOMAIN input.fragilityModes
    [] section = "network"         -> DOMAIN input.conns
    [] section \in {"scenarios", "intensity"} -> DOMAIN input.scenarios
    [] section = "fragility_curve" -> DOMAIN input.curves
    [] OTHER                       -> {}

NextSection ==
  /\ phase \in Range(Sections) \ {"ready"} /\ left = {}
  /\ IF phase = "scenarios" /\ DOMAIN input.scenarios = {} THEN Fail("rejected")
     ELSE LET i == CHOOSE j \in DOMAIN Sections : Sections[j] = phase
          IN  /\ phase' = Sections[i + 1]
              /\ left' = NamesIn(Sections[i + 1])
              /\ UNCHANGED <<input, s, issues>>

(* The command that checks a network, instead of the one that runs it.     *)
Check ==
  /\ phase = "ready"
  /\ phase' = "checked"
  /\ issues' = CheckNetwork(s.model)
  /\ UNCHANGED <<input, left, s>>

Next ==
  \/ ReadInfo
  \/ \E name \in left :
       \/ ReadLoad(name)        \/ ReadComponent(name)   \/ ReadDistribution(name)
       \/ ReadFailureMode(name) \/ ReadFragilityMode(name)
       \/ ReadConnection(name)  \/ ReadScenario(name)    \/ ReadIntensities(name)
       \/ ReadCurve(name)
  \/ NextSection
  \/ Check

Spec == Init /\ [][Next]_vars /\ WF_vars(Next)

=============================================================================
