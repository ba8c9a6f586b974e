------------------------- MODULE LoadingProperties --------------------------
(***************************************************************************)
(* What must hold of reading an input and of checking its network.         *)
(***************************************************************************)
EXTENDS Loading

Loaded == phase \in {"ready", "checked"}

UniqueTags(seq) == \A i, j \in DOMAIN seq : seq[i].tag = seq[j].tag => i = j

(* The registries of a Simulation have one entry for a name and refer to   *)
(* each other by ids that exist; every component with parameters has some  *)
(* at its index.  (Component_AddComponentReturningId and the Register...   *)
(* functions.)                                                             *)
TypeOK ==
  /\ input \in Inputs
  /\ phase \in Range(Sections) \cup {"checked", "rejected", "crashed"}
  /\ phase \in Range(Sections) => left \subseteq NamesIn(phase)
  /\ UniqueTags(s.loads) /\ UniqueTags(s.dists) /\ UniqueTags(s.failureModes)
  /\ UniqueTags(s.fragilityModes) /\ UniqueTags(s.scenarios) /\ UniqueTags(s.curves)
  /\ \A comp \in Range(s.model.comps) :
       /\ comp.kind \in WithPart => comp.idx \in DOMAIN s.model.parts[comp.kind]
       /\ Range(comp.inflows) \cup Range(comp.outflows) \subseteq DOMAIN s.flows
  /\ \A link \in Range(s.links) :
       link[1] \in DOMAIN s.model.comps /\ link[2] \in DOMAIN s.failureModes
  /\ \A link \in Range(s.fragilities) :
       link[1] \in DOMAIN s.model.comps /\ link[2] \in DOMAIN s.fragilityModes
  /\ DOMAIN s.levels \subseteq (DOMAIN s.scenarios) \X (DOMAIN s.intensities)

-----------------------------------------------------------------------------
(* What the input says of a component.                                     *)
KindDeclared(tag)   == KindOf[input.comps[tag]["type"].value]
FieldsDeclared(tag) == Parsed(ComponentFields(KindDeclared(tag)), input.comps[tag])
NamesDeclared(tag, key) ==
  UNION {Range(names) : names \in Names(input.comps[tag], key)}

NamesOfFlows(flowIds) == {s.flows[flowIds[i]] : i \in DOMAIN flowIds} \ {""}
ModesOf(links, modes, id) == {modes[link[2]].tag : link \in {l \in Range(links) : l[1] = id}}

(* Whatever the order in which the tables come, a component that is used   *)
(* is there once, with its own kind, flows, limits, settings, modes and for*)
(* a scenario its own load; components that are not used are not there.    *)
(* (ParseSingleComponent resolves every name through ids.)                 *)
IsAsDeclared(tag) ==
  LET f    == FieldsDeclared(tag)
      id   == IdOf(s.model.comps, tag)
      comp == s.model.comps[id]
      part == PartOf(s.model, id).param
      file == input.comps[tag]
  IN  /\ comp.kind = KindDeclared(tag)
      /\ NamesOfFlows(comp.inflows) = Lookup(f, "inflow") \cup Lookup(f, "flow")
      /\ NamesOfFlows(comp.outflows)
           = Lookup(f, "outflow") \cup Lookup(f, "flow") \cup Lookup(f, "lossflow")
      /\ part.limit = {Amount(x) : x \in Lookup(f, "max_outflow")}
      /\ comp.kind \in Converters => part.lossLimit = {Amount(x) : x \in Lookup(f, "max_lossflow")}
      /\ comp.kind = "Mux" =>
           part.limits = {[i \in DOMAIN xs |-> Amount(xs[i])] : xs \in Lookup(f, "max_outflows")}
      /\ \A i \in {id} \cup BoundaryOf(s.model, id) : s.model.comps[i].report = f.report
      /\ comp.age = IF "initial_age" \in DOMAIN file THEN f.initial_age ELSE 0
      /\ (id \in DOMAIN s.model.group) = ("group" \in DOMAIN file)
      /\ id \in DOMAIN s.model.group => s.model.group[id] = f.group
      /\ ModesOf(s.links, s.failureModes, id) = NamesDeclared(tag, "failure_modes")
      /\ ModesOf(s.fragilities, s.fragilityModes, id) = NamesDeclared(tag, "fragility_modes")
      /\ "byScenario" \in DOMAIN part =>
           {<<s.scenarios[i].tag, s.loads[part.byScenario[i]].tag>> : i \in DOMAIN part.byScenario}
             = {<<x, Scheduled(f)[x]>> : x \in DOMAIN Scheduled(f)}

ComponentsAreAsDeclared ==
  Loaded => /\ {comp.tag : comp \in Range(s.model.comps)} \ {""} = TagsInUse
            /\ \A tag \in TagsInUse : Cardinality(Tagged(s.model.comps, tag)) = 1
            /\ \A tag \in TagsInUse : IsAsDeclared(tag)

(* What is registered before it is known ends up with what the input says: *)
(* the distributions of a failure mode, the repair and the curve of a      *)
(* fragility mode, and for a curve its own data and intensity.             *)
CurveIsAsDeclared(id) ==
  LET curve    == s.curves[id]
      declared == input.curves[curve.tag]
      data     == s[curve.type][curve.idx]
  IN  /\ curve.type = declared.type /\ data.data = declared.data
      /\ s.intensities[data.intensity] = declared.vulnerableTo

ModesAreAsDeclared ==
  Loaded =>
    /\ \A name \in DOMAIN input.failureModes :
         LET mode == s.failureModes[IdOf(s.failureModes, name)]
         IN  /\ s.dists[mode.failure].tag = input.failureModes[name].failure
             /\ s.dists[mode.repair].tag = input.failureModes[name].repair
    /\ \A name \in DOMAIN input.fragilityModes :
         LET mode == s.fragilityModes[IdOf(s.fragilityModes, name)]
         IN  /\ {s.dists[d].tag : d \in mode.repair} = input.fragilityModes[name].repair
             /\ s.curves[mode.curve].tag = input.fragilityModes[name].curve
    /\ \A id \in DOMAIN s.curves : s.curves[id].tag \in DOMAIN input.curves => CurveIsAsDeclared(id)

(* How often a scenario may occur, as scenario.cpp:139 puts it: "a non-zero*)
(* positive number or the string 'unlimited' or the value -1 (unlimited)". *)
MaximumAllowed(v) ==
  v = [type |-> "string", value |-> "unlimited"]
  \/ (v.type = "integer" /\ (v.value = -1 \/ v.value \in 1 .. IntMax))

MaximumDeclared(v) == IF v.type = "string" \/ v.value = -1 THEN {} ELSE {v.value}

(* A scenario that a component named first is completed, not added again:  *)
(* its distribution, duration, maximum and intensities are its own.        *)
(* (ScenarioDict_RegisterScenario, Simulation_ParseScenarios.)             *)
ScenariosAreAsDeclared ==
  Loaded =>
    \A tag \in DOMAIN input.scenarios :
      LET declared == input.scenarios[tag]
          id       == IdOf(s.scenarios, tag)
      IN  /\ s.dists[s.scenarios[id].dist].tag = declared.dist
          /\ s.scenarios[id].duration = declared.duration
          /\ s.scenarios[id].max = MaximumDeclared(declared.max)
          /\ {<<s.intensities[p[2]], s.levels[p]>> : p \in {q \in DOMAIN s.levels : q[1] = id}}
               = {<<x, declared.intensity[x]>> : x \in DOMAIN declared.intensity}

(* A scenario keeps the offset that its table gives it: "what we need for  *)
(* each scenario is a time offset" (CreateFailureSchedules, which reads it *)
(* by the scenario's id).                                                  *)
OffsetsAreAsDeclared ==
  Loaded =>
    \A tag \in DOMAIN input.scenarios :
      LET id == IdOf(s.scenarios, tag)
      IN  id \in DOMAIN s.offsets /\ s.offsets[id] = input.scenarios[tag].offset

-----------------------------------------------------------------------------
(* Which files are accepted does not depend on the order of their tables:  *)
(* a reference definition of what the program asks of a file, by names     *)
(* only.  The user's guide asks for more: see GuideIsEnforced.             *)
ComponentDeclared(tag) ==
  LET table == input.comps[tag]
  IN  /\ tag \in DOMAIN input.comps
      /\ TypeIsOneOf(table, DOMAIN KindOf)
      /\ Readable(ComponentFields(KindDeclared(tag)), table)
      /\ Names(table, "failure_modes") # {} /\ Names(table, "fragility_modes") # {}

LoadsDeclared ==
  {load.tag : load \in UNION {Range(loads) :
     loads \in UNION {LoadsIn(tag, input.loads[tag]) : tag \in DOMAIN input.loads}}}

SuitsAlone(tag) ==
  LET f == FieldsDeclared(tag)
  IN  /\ Suitable(KindDeclared(tag), [x \in DOMAIN f \ {"loads_by_scenario", "supply_by_scenario"} |-> f[x]])
      /\ {Scheduled(f)[x] : x \in DOMAIN Scheduled(f)} \subseteq LoadsDeclared

(* The flows at the ports of a component, from a network with nothing else.*)
Ports(tag) ==
  LET f     == FieldsDeclared(tag)
      flows == RegisterFlows(<<"">>, f)
      alone == AddToModel(EmptyModel, KindDeclared(tag), f,
                          Param(KindDeclared(tag), f, <<>>), flows, tag)
      comp  == alone.comps[IdOf(alone.comps, tag)]
  IN  [inflows  |-> [i \in DOMAIN comp.inflows  |-> flows[comp.inflows[i]]],
       outflows |-> [i \in DOMAIN comp.outflows |-> flows[comp.outflows[i]]]]

ModesNamed(key) == UNION {NamesDeclared(tag, key) : tag \in TagsInUse}

ModesSound ==
  /\ DOMAIN input.failureModes \cap ModesNamed("fragility_modes") = {}
  /\ DOMAIN input.fragilityModes
       \cap (ModesNamed("failure_modes") \cup DOMAIN input.failureModes) = {}
  /\ \A name \in DOMAIN input.failureModes :
       {input.failureModes[name].failure, input.failureModes[name].repair} \subseteq DOMAIN input.dists
  /\ \A name \in DOMAIN input.fragilityModes :
       input.fragilityModes[name].repair \subseteq DOMAIN input.dists

DistributionsSound ==
  \A name \in DOMAIN input.dists :
    LET table  == input.dists[name]
        fields == DistFields(table["type"].value, table)
    IN  /\ TypeIsOneOf(table, DistTypes)
        /\ Readable(fields, table)
        /\ ValidDistribution(Distribution(Parsed(fields, table)))

ScenariosSound ==
  /\ DOMAIN input.scenarios # {}
  /\ \A scenario \in Range(input.scenarios) :
       /\ ~ MaxRefused(scenario.max) /\ ~ MaxThrows(scenario.max)
       /\ scenario.dist \in DOMAIN input.dists
  /\ \A curve \in Range(input.curves) :
       /\ curve.type \in {"linear", "tabular"}
       /\ \E scenario \in Range(input.scenarios) : curve.vulnerableTo \in DOMAIN scenario.intensity

Sound ==
  /\ Readable(SimulationInfoFields, input.info)
  /\ \A tag \in DOMAIN input.loads : ~ NoSuchFile(input.loads[tag])
  /\ \A tag \in TagsInUse : ComponentDeclared(tag)
  /\ \A tag \in TagsInUse : SuitsAlone(tag)
  /\ DistributionsSound
  /\ ModesSound
  /\ \A c \in Range(input.conns) :
       /\ HasPort(Ports(c.from).outflows, c.fromPort, c.flow)
       /\ HasPort(Ports(c.to).inflows, c.toPort, c.flow)
  /\ ScenariosSound

DistributionFilesAreThere ==
  \A table \in Range(input.dists) :
    "csv_file" \in DOMAIN table => table.csv_file.value \in DOMAIN input.files

VerdictIsTheInputs ==
  DistributionFilesAreThere =>
    /\ Loaded => Sound
    /\ phase \in {"rejected", "crashed"} => ~ Sound

(* What else the guide and the messages ask of a file: "At most, one of    *)
(* these values can be specified", of those for random numbers             *)
(* (user-guide.md:351); "time_rate_pairs, time_unit, and rate_unit" go     *)
(* together (362); and a maximum is one of those that are allowed.         *)
RandomSettings == {"fixed_random", "fixed_random_series", "random_seed"}

FollowsTheGuide(file) ==
  /\ Cardinality(DOMAIN file.info \cap RandomSettings) <= 1
  /\ \A table \in Range(file.loads) :
       "time_rate_pairs" \in DOMAIN table => {"time_unit", "rate_unit"} \subseteq DOMAIN table
  /\ \A scenario \in Range(file.scenarios) : MaximumAllowed(scenario.max)

(* No file is accepted that does not follow these rules.  The program does *)
(* accept such files: this is false of those in MCLoading!Unguided.        *)
GuideIsEnforced == Loaded => FollowsTheGuide(input)

-----------------------------------------------------------------------------
(* A network is well connected when every slot that must be is attached to *)
(* exactly one connection, an optional one to at most one.                 *)
At(m, id, slot) ==
  {k \in DOMAIN m.conns :
     LET c == m.conns[k]
     IN  IF slot[1] = "in" THEN <<c.to, c.toPort>> = <<id, slot[2]>>
         ELSE <<c.from, c.fromPort>> = <<id, slot[2]>>}

SlotsOf(m, id) ==
  {In(i - 1) : i \in DOMAIN m.comps[id].inflows} \cup {Out(i - 1) : i \in DOMAIN m.comps[id].outflows}

WellConnected(m) ==
  \A id \in {i \in DOMAIN m.comps : m.comps[i].kind \in WithPart} : \A slot \in SlotsOf(m, id) :
    LET n == Cardinality(At(m, id, slot))
    IN  n = 1 \/ (n = 0 /\ slot \in OptionalSlots(m.comps[id].kind))

(* Nothing that is wrong with the connections of a network escapes the     *)
(* check, whatever was connected last to a port that is used twice.        *)
CheckFindsEveryFault == phase = "checked" /\ issues = {} => WellConnected(s.model)

(* And the check has nothing to say of a network that is well connected:   *)
(* every component is the one its connections lead back to.                *)
CheckPassesGoodNetworks == phase = "checked" /\ WellConnected(s.model) => issues = {}

(* What Model_AddStore asserts, which the program that is released does not*)
(* check: a store can charge, and does not begin with more than it holds.  *)
StoresCanBeUsed ==
  \A store \in Range(s.model.parts["Store"]) :
    /\ store.param.chargeAmount < store.param.capacity
    /\ store.param.initial <= store.param.capacity

(* With groups, a well-connected network loses no flow in the results: a   *)
(* connection is inside a group or is reported as one of its own, which    *)
(* AggregateGroups needs as it takes one flow only; and the ports of a     *)
(* group are numbered without gaps.                                        *)
ConnectionsAt(m, side, node) == {k \in External(m) : NodeOf(m, m.conns[k][side]) = node}

NodesReportEveryConnection ==
  Loaded /\ WellConnected(s.model) =>
    LET m     == s.model
        nodes == NodeConnections(m)
    IN  /\ \A nc \in DOMAIN nodes : Cardinality(nodes[nc]) = 1
        /\ {ReportedBy(m, nc) : nc \in DOMAIN nodes} = External(m)
        /\ \A name \in Range(m.group) : \A end \in {<<"from", "fromPort">>, <<"to", "toPort">>} :
             LET at == ConnectionsAt(m, end[1], <<"group", name>>)
             IN  {NodeConnection(m, k)[end[2]] : k \in at} = 0 .. Cardinality(at) - 1

=============================================================================
