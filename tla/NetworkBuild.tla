---------------------------- MODULE NetworkBuild ----------------------------
(***************************************************************************)
(* How a Model is put together: the Model_Add... functions,                *)
(* Model_AddConnection, the check of the finished network, and the groups  *)
(* its connections are reported by.                                        *)
(*                                                                         *)
(* A model is a record: comps is the ComponentMap; parts has, for every    *)
(* kind, the parameters of its components and, for each of their slots, the*)
(* id of the connection that is there; conns are the Connections.  Ids are *)
(* counted from 1.  A slot that is not connected holds the id of the first *)
(* connection, an optional one holds None.                                 *)
(***************************************************************************)
EXTENDS Integers, FiniteSets, Sequences, FiniteSetsExt, SequencesExt, Functions

First == 1
None  == 0

NoFlow == 1   \* the flow without a name, that waste is made of, is registered first

Converters   == {"ConstantEfficiencyConverter", "VariableEfficiencyConverter"}
Movers       == {"Mover", "VariableEfficiencyMover"}
Boundary     == {"WasteSink", "EnvironmentSource"}
WithPart     == Converters \cup Movers \cup
  {"ConstantLoad", "ScheduleBasedLoad", "ConstantSource", "ScheduleBasedSource",
   "Mux", "PassThrough", "Switch", "Store"}

In(port)  == <<"in", port>>
Out(port) == <<"out", port>>

EmptyModel == [comps |-> <<>>, parts |-> [kind \in WithPart |-> <<>>],
               conns |-> <<>>, group |-> <<>>]

-----------------------------------------------------------------------------
(* Component_AddComponentReturningId: the id is that of the last component.*)
AddComponent(m, kind, idx, inflows, outflows, tag) ==
  [m EXCEPT !.comps = Append(@,
     [kind |-> kind, idx |-> idx, inflows |-> inflows, outflows |-> outflows,
      tag |-> tag, age |-> 0, report |-> TRUE])]

LastId(m) == Len(m.comps)

(* The slots of a component: one for every port that has a flow, and those *)
(* for waste that have none.                                               *)
Slots(kind, inflows, outflows) ==
  {In(i - 1) : i \in DOMAIN inflows} \cup {Out(i - 1) : i \in DOMAIN outflows}
  \cup (IF kind \in {"ScheduleBasedSource", "Store"} THEN {Out(1)} ELSE {})

OptionalSlots(kind) ==
  IF kind \in Converters THEN {Out(1)}
  ELSE IF kind = "Store" THEN {In(0), Out(1)} ELSE {}

(* Movers are given the index of the first one of their kind.              *)
IndexIn(m, kind) == IF kind \in Movers THEN 1 ELSE Len(m.parts[kind]) + 1

AddPart(m, kind, inflows, outflows, tag, param) ==
  AddComponent(
    [m EXCEPT !.parts[kind] = Append(@,
       [param |-> param,
        conn  |-> [slot \in Slots(kind, inflows, outflows) |->
                     IF slot \in OptionalSlots(kind) THEN None ELSE First]])],
    kind, IndexIn(m, kind), inflows, outflows, tag)

AddConstantLoad(m, param, inflow, tag) ==
  AddPart(m, "ConstantLoad", <<inflow>>, <<>>, tag, param)
AddScheduleBasedLoad(m, param, inflow, tag) ==
  AddPart(m, "ScheduleBasedLoad", <<inflow>>, <<>>, tag, param)
AddConstantSource(m, param, outflow, tag) ==
  AddPart(m, "ConstantSource", <<>>, <<outflow>>, tag, param)
AddPassThrough(m, param, flow, tag) ==
  AddPart(m, "PassThrough", <<flow>>, <<flow>>, tag, param)
AddSwitch(m, param, flow, tag) ==
  AddPart(m, "Switch", <<flow, flow>>, <<flow>>, tag, param)
AddStore(m, param, flow, tag) ==
  AddPart(m, "Store", <<flow>>, <<flow>>, tag, param)
AddMux(m, numInports, numOutports, param, flow, tag) ==
  AddPart(m, "Mux", [i \in 1 .. numInports |-> flow], [i \in 1 .. numOutports |-> flow],
          tag, param)

-----------------------------------------------------------------------------
(* Model_AddConnection, for ports the two components have.  The boundary of*)
(* the network has no slots.                                               *)
PutLastOne(parts, comp, slot, id) ==   \* a slip
  IF comp.kind \in Boundary THEN parts
  ELSE [parts EXCEPT ![comp.kind][comp.idx].conn[slot] = id - 1]

Put(parts, comp, slot, id) ==
  IF comp.kind \in Boundary THEN parts
  ELSE [parts EXCEPT ![comp.kind][comp.idx].conn[slot] = id]

AddConnection(m, from, fromPort, to, toPort, flow) ==
  LET f  == m.comps[from]
      t  == m.comps[to]
      id == Len(m.conns) + 1
      c  == [from |-> from, fromKind |-> f.kind, fromIdx |-> f.idx, fromPort |-> fromPort,
             to |-> to, toKind |-> t.kind, toIdx |-> t.idx, toPort |-> toPort, flow |-> flow]
  IN  [m EXCEPT !.conns = Append(@, c),
                !.parts = Put(Put(@, f, Out(fromPort), id), t, In(toPort), id)]

(* The kinds that come with a sink for their waste, and movers with a      *)
(* source for what they take from the environment.  A converter, a mover   *)
(* and a source are added after their boundary, a store before it.         *)
AddWasteSink(m, inflows) ==
  AddComponent(m, "WasteSink", First, inflows, <<>>, "")

AddConverter(m, kind, param, inflow, outflow, lossflow, tag) ==
  LET sink == AddWasteSink(m, <<NoFlow>>)
      made == AddPart(sink, kind, <<inflow>>, <<outflow, lossflow, NoFlow>>, tag, param)
  IN  AddConnection(made, LastId(made), 2, LastId(sink), 0, NoFlow)

AddScheduleBasedSource(m, param, outflow, tag) ==
  LET sink == AddWasteSink(m, <<>>)
      made == AddPart(sink, "ScheduleBasedSource", <<>>, <<outflow>>, tag, param)
  IN  AddConnection(made, LastId(made), 1, LastId(sink), 0, NoFlow)

AddStoreWithWasteflow(m, param, flow, tag) ==
  LET made == AddStore(m, param, flow, tag)
      sink == AddWasteSink(made, <<NoFlow>>)
  IN  AddConnection(sink, LastId(made), 1, LastId(sink), 0, NoFlow)

AddMover(m, kind, param, inflow, outflow, tag) ==
  LET sink == AddWasteSink(m, <<NoFlow>>)
      env  == AddComponent(sink, "EnvironmentSource", First, <<>>, <<NoFlow>>, "")
      made == AddPart(env, kind, <<inflow, NoFlow>>, <<outflow, NoFlow>>, tag, param)
  IN  AddConnection(AddConnection(made, LastId(made), 1, LastId(sink), 0, NoFlow),
                    LastId(env), 0, LastId(made), 1, NoFlow)

(* Further settings of the component that was added last.  The boundary of *)
(* a converter or a mover is reported when it is; others' always.          *)
BoundaryOf(m, id) ==
  IF m.comps[id].kind \in Converters THEN {id - 1}
  ELSE IF m.comps[id].kind \in Movers THEN {id - 2, id - 1} ELSE {}

SetReporting(m, id, report) ==
  [m EXCEPT !.comps = [i \in DOMAIN m.comps |->
     IF i \in {id} \cup BoundaryOf(m, id) THEN [m.comps[i] EXCEPT !.report = report]
     ELSE m.comps[i]]]

SetInitialAge(m, id, age)    == [m EXCEPT !.comps[id].age = age]
AddComponentToGroup(m, id, group) ==
  [m EXCEPT !.group = [i \in DOMAIN @ \cup {id} |-> IF i \in DOMAIN @ THEN @[i] ELSE group]]

PartOf(m, id) == m.parts[m.comps[id].kind][m.comps[id].idx]

-----------------------------------------------------------------------------
(* Model_CheckNetwork.  An issue is a component or a connection, what is   *)
(* wrong about it and at which port.                                       *)
Fits(m, id, slot, k) ==
  LET c == m.conns[k]
      comp == m.comps[id]
  IN  IF slot[1] = "in"
        THEN <<c.toKind, c.to, c.toIdx, c.toPort>> = <<comp.kind, id, comp.idx, slot[2]>>
        ELSE <<c.fromKind, c.from, c.fromIdx, c.fromPort>>
               = <<comp.kind, id, comp.idx, slot[2]>>

IssuesOf(m, kinds) ==
  UNION {LET conn == PartOf(m, id).conn
         IN  {<<id, slot[1], slot[2]>> : slot \in {x \in DOMAIN conn :
                /\ conn[x] # None
                /\ ~ Fits(m, id, x, conn[x])}}
         : id \in {i \in DOMAIN m.comps : m.comps[i].kind \in kinds}}

ConverterIssues(m)    == IssuesOf(m, Converters)
LoadAndSourceIssues(m) == IssuesOf(m, {"ConstantLoad", "ConstantSource"})
MoverIssues(m)        == IssuesOf(m, Movers)
MuxPortIssues(m)      == IssuesOf(m, {"Mux"})
PassingIssues(m)      == IssuesOf(m, {"PassThrough", "Switch"})
ScheduleBasedIssues(m) == IssuesOf(m, {"ScheduleBasedLoad", "ScheduleBasedSource"})
StoreIssues(m)        == IssuesOf(m, {"Store"})

NameIssues(m) ==
  {<<id, "name", 0>> : id \in {i \in DOMAIN m.comps :
     /\ m.comps[i].tag # ""
     /\ \E j \in 1 .. i - 1 : m.comps[j].tag = m.comps[i].tag}}

(* The connections of a mux refer to each other.  (For the wording of an   *)
(* issue with an inflow the program looks at the outflow with that number, *)
(* which there may not be.)                                                *)
MuxBackIssues(m) ==
  {<<k, "outflow", m.conns[k].fromPort>> : k \in {j \in DOMAIN m.conns :
     LET c == m.conns[j]
     IN  c.fromKind = "Mux" /\ m.parts["Mux"][c.fromIdx].conn[Out(c.fromPort)] # j}}
  \cup
  {<<k, "inflow", m.conns[k].toPort>> : k \in {j \in DOMAIN m.conns :
     LET c == m.conns[j]
     IN  c.toKind = "Mux" /\ m.parts["Mux"][c.toIdx].conn[In(c.toPort)] # j}}

NoneMultiplyConnected(m) == {}   \* a slip

MultiplyConnected(m) ==
  {<<k, "port", 0>> : k \in {j \in DOMAIN m.conns : \E i \in 1 .. j - 1 :
     LET a == m.conns[i]
         b == m.conns[j]
     IN  \/ <<a.from, a.fromPort>> = <<b.from, b.fromPort>>
         \/ <<a.to, a.toPort>> = <<b.to, b.toPort>>}}

Into(m, id)  == {k \in DOMAIN m.conns : m.conns[k].to = id}
OutOf(m, id) == {k \in DOMAIN m.conns : m.conns[k].from = id}

MuxCountIssues(m) ==
  {<<id, "count", 0>> : id \in {i \in DOMAIN m.comps :
     /\ m.comps[i].kind = "Mux"
     /\ \/ Cardinality(Into(m, i)) # Len(m.comps[i].inflows)
        \/ Cardinality(OutOf(m, i)) # Len(m.comps[i].outflows)}}

CheckNetwork(m) ==
  NameIssues(m) \cup ConverterIssues(m) \cup LoadAndSourceIssues(m) \cup MoverIssues(m)
  \cup MuxPortIssues(m) \cup PassingIssues(m) \cup ScheduleBasedIssues(m)
  \cup StoreIssues(m) \cup MuxBackIssues(m) \cup MultiplyConnected(m) \cup MuxCountIssues(m)

-----------------------------------------------------------------------------
(* GetNodeConnections, with the connections in the order of their ids: the *)
(* program's is that of their names, on which nothing but the numbers of   *)
(* the ports of a group depends.                                           *)
NodeOf(m, id) == IF id \in DOMAIN m.group THEN <<"group", m.group[id]>> ELSE <<"component", id>>

External(m) == {k \in DOMAIN m.conns :
  ~ /\ {m.conns[k].from, m.conns[k].to} \subseteq DOMAIN m.group
    /\ m.group[m.conns[k].from] = m.group[m.conns[k].to]}

FromPortOfConnection(m, k) == m.conns[k].fromPort   \* a slip

(* The ports of a group are counted, those of a component keep their number.*)
NodeFromPort(m, k) ==
  LET node == NodeOf(m, m.conns[k].from)
  IN  IF node[1] = "component" THEN m.conns[k].fromPort
      ELSE Cardinality({j \in External(m) : j < k /\ NodeOf(m, m.conns[j].from) = node})

NodeToPort(m, k) ==
  LET node == NodeOf(m, m.conns[k].to)
  IN  IF node[1] = "component" THEN m.conns[k].toPort
      ELSE Cardinality({j \in External(m) : j < k /\ NodeOf(m, m.conns[j].to) = node})

NodeConnection(m, k) ==
  [from |-> NodeOf(m, m.conns[k].from), fromPort |-> NodeFromPort(m, k),
   to   |-> NodeOf(m, m.conns[k].to),   toPort   |-> NodeToPort(m, k)]

(* Node connections, each with the connections it stands for.              *)
NodeConnections(m) ==
  [nc \in {NodeConnection(m, k) : k \in External(m)} |->
     {k \in External(m) : NodeConnection(m, k) = nc}]

(* AggregateGroups: of those, the flow of the first one is reported.       *)
ReportedBy(m, nc) == Min(NodeConnections(m)[nc])

(* CalculateComponentsToReport, CalculateConnectionsToReport and what      *)
(* Simulation_Run makes of them: a node connection is reported when the    *)
(* connection it was made for is.                                          *)
CompsToReport(m) == {id \in DOMAIN m.comps : m.comps[id].report}
ConnsToReport(m) ==
  {k \in DOMAIN m.conns : {m.conns[k].from, m.conns[k].to} \cap CompsToReport(m) # {}}
NodeConnsToReport(m) ==
  {nc \in DOMAIN NodeConnections(m) : Min(NodeConnections(m)[nc]) \in ConnsToReport(m)}

=============================================================================
