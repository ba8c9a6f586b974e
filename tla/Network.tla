------------------------------ MODULE Network ------------------------------
(***************************************************************************)
(* A network of components and the state a simulation keeps for it.        *)
(*                                                                         *)
(* The network itself (ComponentMap, Connections and the parameters of     *)
(* every component) never changes while a simulation runs: it is a set of  *)
(* constants.  SimulationState is one record, s, that the handlers of the  *)
(* components transform; the operators here are its two idioms.            *)
(***************************************************************************)
EXTENDS FlowArithmetic, FiniteSets

CONSTANTS
  Comp,        \* component ids, in the order they were added
  Part,        \* Part[c]: the kind and the parameters of component c
  Conn,        \* connection ids
  Connection,  \* Connection[k]: [from, fromPort, to, toPort]
  TicksPerSecond

Kinds == {"ConstantLoad", "ScheduleBasedLoad", "ConstantSource",
          "ScheduleBasedSource", "PassThrough", "Converter", "Mux", "Store",
          "Mover", "Switch", "WasteSink", "EnvironmentSource"}

Infinity == -1

OfKind(kind) == {c \in Comp : Part[c].kind = kind}

(* The position of c among the components of its kind (its "Idx").         *)
PeersBefore(c) == {d \in OfKind(Part[c].kind) : d < c}

-----------------------------------------------------------------------------
(* The connections into and out of a component, and the one at each port.  *)
Inflows(c)  == {k \in Conn : Connection[k].to = c}
Outflows(c) == {k \in Conn : Connection[k].from = c}

Inflow ==
  [c \in Comp |-> [port \in {Connection[k].toPort : k \in Inflows(c)} |->
     CHOOSE k \in Inflows(c) : Connection[k].toPort = port]]
Outflow ==
  [c \in Comp |-> [port \in {Connection[k].fromPort : k \in Outflows(c)} |->
     CHOOSE k \in Outflows(c) : Connection[k].fromPort = port]]

HasInflow(c, port)  == port \in DOMAIN Inflow[c]
HasOutflow(c, port) == port \in DOMAIN Outflow[c]

(* The ports each kind of component gives a meaning to.                    *)
LossPort(c) == 1
WastePort(c) == IF Part[c].kind = "Converter" THEN 2 ELSE 1
EnvironmentPort == 1

InPorts(c) == 0 .. Part[c].inports - 1
OutPorts(c) == 0 .. Part[c].outports - 1

-----------------------------------------------------------------------------
(* The parameters of a component of each kind.  A table holds the          *)
(* efficiency of a converter, or the COP of a mover, by outflow and by     *)
(* inflow; LookupTable_LookupInterp asserts that it has rows and as many   *)
(* values as it has of either.                                             *)
Table == {table \in [xs : Seq(Nat), ys : Seq(Nat \ {0}), den : Nat \ {0}] :
            table.xs # <<>> /\ Len(table.xs) = Len(table.ys)}

ConversionPart(kind) ==
  [kind : {kind}, byOutflow : Table, byInflow : Table, maxOutflow : Flow,
   maxLossflow : Flow]

PartOfKind == [
  ConstantLoad        |-> [kind : {"ConstantLoad"}, load : Flow],
  ScheduleBasedLoad   |-> [kind : {"ScheduleBasedLoad"}],
  ConstantSource      |-> [kind : {"ConstantSource"}, available : Flow],
  ScheduleBasedSource |-> [kind : {"ScheduleBasedSource"}, maxOutflow : Flow],
  PassThrough         |-> [kind : {"PassThrough"}, maxOutflow : Flow],
  Converter           |-> ConversionPart("Converter"),
  Mover               |-> ConversionPart("Mover"),
  Mux                 |-> [kind : {"Mux"}, inports : Nat \ {0},
                           outports : Nat \ {0}, maxOutflows : Seq(Flow)],
  Store               |-> [kind : {"Store"}, capacity : Nat, initial : Nat,
                           chargeAmount : Nat, maxCharge : Flow,
                           maxDischarge : Flow, maxOutflow : Flow,
                           roundTrip : Ratio],
  Switch              |-> [kind : {"Switch"}],
  WasteSink           |-> [kind : {"WasteSink"}],
  EnvironmentSource   |-> [kind : {"EnvironmentSource"}]]

(* What Model_AddConnection and the Model_Add... functions establish: each *)
(* component has the parameters of its kind, and a connection at each port *)
(* its handlers use (the optional ones are tested with HasInflow and       *)
(* HasOutflow).                                                            *)
WellConnected(c) ==
  LET kind == Part[c].kind IN
  /\ kind \in {"ConstantLoad", "ScheduleBasedLoad", "PassThrough",
               "Converter", "Mover", "Switch"} => HasInflow(c, 0)
  /\ kind \in {"ConstantSource", "ScheduleBasedSource", "PassThrough",
               "Converter", "Mover", "Store", "Switch"} => HasOutflow(c, 0)
  /\ kind \in {"ScheduleBasedSource", "Converter", "Mover"} =>
       HasOutflow(c, WastePort(c))
  /\ kind = "Mover" => HasInflow(c, EnvironmentPort)
  /\ kind = "Switch" => HasInflow(c, 1)
  /\ kind = "Mux" =>
       /\ \A p \in InPorts(c) : HasInflow(c, p)
       /\ \A p \in OutPorts(c) : HasOutflow(c, p)
       /\ Len(Part[c].maxOutflows) = Part[c].outports

(* The assertions of Model_AddStore.                                       *)
ValidStore(c) ==
  /\ Part[c].chargeAmount < Part[c].capacity
  /\ Part[c].initial <= Part[c].capacity
  /\ Part[c].roundTrip.num <= Part[c].roundTrip.den

ASSUME NetworkAssumption ==
  /\ Comp \subseteq Nat
  /\ Conn \subseteq Nat
  /\ TicksPerSecond \in Nat \ {0}
  /\ Connection \in [Conn -> [from : Comp, fromPort : Nat,
                              to : Comp, toPort : Nat]]
  /\ \A c \in Comp :
       /\ Part[c].kind \in Kinds
       /\ Part[c] \in PartOfKind[Part[c].kind]
       /\ WellConnected(c)
       /\ Part[c].kind = "Store" => ValidStore(c)

(* Components and connections are the entries of vectors.                  *)
ASSUME FiniteAssumption == IsFiniteSet(Comp) /\ IsFiniteSet(Conn)

-----------------------------------------------------------------------------
(* SimulationState.                                                        *)
State == [
  req     : [Conn -> Flow],            \* Flows[k].Requested_W
  avail   : [Conn -> Flow],            \* Flows[k].Available_W
  actual  : [Conn -> Flow],            \* Flows[k].Actual_W
  back    : SUBSET Conn,               \* ActiveConnectionsBack
  front   : SUBSET Conn,               \* ActiveConnectionsFront
  down    : SUBSET Comp,               \* UnavailableComponents
  amount  : [OfKind("Store") -> Int],  \* StorageAmounts_J
  event   : [OfKind("Store") -> Nat \cup {Infinity}], \* StorageNextEventTimes
  loadIdx : [OfKind("ScheduleBasedLoad") -> Nat \ {0}],
  srcIdx  : [OfKind("ScheduleBasedSource") -> Nat \ {0}],
  switch  : [OfKind("Switch") -> {"Primary", "Secondary"}]]

(* Model_SetupSimulationState; indices into schedules count from one.      *)
InitialState == [
  req     |-> [k \in Conn |-> 0],
  avail   |-> [k \in Conn |-> 0],
  actual  |-> [k \in Conn |-> 0],
  back    |-> {},
  front   |-> {},
  down    |-> {},
  amount  |-> [c \in OfKind("Store") |-> Part[c].initial],
  event   |-> [c \in OfKind("Store") |-> 0],
  loadIdx |-> [c \in OfKind("ScheduleBasedLoad") |-> 1],
  srcIdx  |-> [c \in OfKind("ScheduleBasedSource") |-> 1],
  switch  |-> [c \in OfKind("Switch") |-> "Primary"]]

(* Set the requests of the connections in the domain of f; the upstream    *)
(* component of each one that changes is scheduled for a backward step.    *)
RequestEach(s, f) ==
  [s EXCEPT
     !.req  = [k \in Conn |-> IF k \in DOMAIN f THEN f[k] ELSE s.req[k]],
     !.back = @ \cup {k \in DOMAIN f : s.req[k] # f[k]}]

(* The same for what is available, which concerns the downstream component.*)
OfferEach(s, f) ==
  [s EXCEPT
     !.avail = [k \in Conn |-> IF k \in DOMAIN f THEN f[k] ELSE s.avail[k]],
     !.front = @ \cup {k \in DOMAIN f : s.avail[k] # f[k]}]

(* Slips: the upstream, or the downstream, component is not scheduled.     *)
RequestQuietly(s, k, v) == [s EXCEPT !.req[k] = v]
OfferQuietly(s, k, v) == [s EXCEPT !.avail[k] = v]

Request(s, k, v) ==
  [s EXCEPT !.req[k] = v, !.back = IF s.req[k] # v THEN @ \cup {k} ELSE @]
Offer(s, k, v) ==
  [s EXCEPT !.avail[k] = v, !.front = IF s.avail[k] # v THEN @ \cup {k} ELSE @]

(* What a later part of a handler makes of what an earlier part left.  (An *)
(* application of a function, so that TLC evaluates s once and no more.)   *)
Then(s, Later(_)) == [earlier \in {s} |-> Later(earlier)][s]

(* Set both sides of a flow nobody is told about (waste, environment).     *)
Spill(s, k, v) == [s EXCEPT !.req[k] = v, !.avail[k] = v]

=============================================================================
