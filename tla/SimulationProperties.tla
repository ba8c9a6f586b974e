------------------------ MODULE SimulationProperties ------------------------
(***************************************************************************)
(* What a simulation must satisfy.  Most properties are about the states   *)
(* in which the solver has finished with a time and its flows have just    *)
(* been recorded.                                                          *)
(***************************************************************************)
EXTENDS Simulation

Settled == pc \in {"advance", "done"}

(* What is recorded of a time.                                             *)
Snapshot ==
  [time : Nat, req : [Conn -> Flow], avail : [Conn -> Flow],
   actual : [Conn -> Flow], amount : [Stores -> Int]]

(* Every variable has its type: in particular no arithmetic on flows leaves*)
(* the range of flow_t, indices into schedules start at their first entry  *)
(* and the iteration counters stay within their limits.                    *)
TypeOK ==
  /\ model \in ModelType
  /\ ss \in State
  /\ t \in Nat
  /\ pc \in DOMAIN PhaseAfter \cup
            {"loop", "backward", "forward", "finalize", "switches", "advance",
             "done", "exited", "assertionFailed"}
  /\ todo \subseteq Nat
  /\ numTimes \in 0 .. MaxTimes
  /\ rerun \in BOOLEAN
  /\ loopIter \in 0 .. MaxLoop
  /\ timeAndFlows \in Seq(Snapshot)

-----------------------------------------------------------------------------
(* The sum of f over a set of numbers, in their order.                     *)
Place(k, S) == Cardinality({j \in S : j < k}) + 1
Nth(S, n)   == CHOOSE k \in S : Place(k, S) = n

Sum(f, S) ==
  Prefix([n \in 1 .. Cardinality(S) |-> f[Nth(S, n)]], Cardinality(S))

SameFlows(s1, s2) == s1.req = s2.req /\ s1.avail = s2.avail

(* Running the handler of any connection again would change no request and *)
(* no availability: the flows recorded are a fixed point of the whole      *)
(* network, whatever order the connections were visited in.  (What a store *)
(* asks for depends on its history, so the connections of a store are      *)
(* judged by its own properties; and nobody is told of what a mover takes  *)
(* from its environment.)                                                  *)
FlowsAreAFixedPoint ==
  Settled => \A k \in Conn :
    /\ \/ Connection[k].from \in ss.down
       \/ Part[Connection[k].from].kind = "Store"
       \/ SameFlows(RunBackward(model, ss, k), ss)
    /\ \/ Connection[k].to \in ss.down
       \/ Part[Connection[k].to].kind = "Store"
       \/ Part[Connection[k].from].kind = "EnvironmentSource"
       \/ SameFlows(RunForward(ss, k), ss)

(* The networks and inputs in which no handler keeps a change to itself,   *)
(* so that the flows are a fixed point whenever nothing is scheduled.  The *)
(* Model_Add... functions wire waste and environment like this; a change   *)
(* that nobody is told of comes with a switch (RunSwitchBackward), with the*)
(* failure of a mover, with the repair of a pass-through or of a component *)
(* with a schedule, and with a supply that begins after time 0.            *)
WasteIsDisposedOf ==
  \A k \in Conn :
    LET from == Connection[k].from
    IN  /\ Part[from].kind \in {"ScheduleBasedSource", "Converter", "Mover", "Store"}
        /\ Connection[k].fromPort = WastePort(from)
        => Part[Connection[k].to].kind = "WasteSink"

MoversAreFed ==
  \A k \in Conn :
    LET c == Connection[k].to
        FromOutside == Part[Connection[k].from].kind = "EnvironmentSource"
    IN  Part[c].kind = "Mover" =>
          \/ k = Inflow[c][0] /\ ~ FromOutside
          \/ k = Inflow[c][EnvironmentPort] /\ FromOutside

ChangesAreTold(m) ==
  /\ \A c \in Sources : m.avail[c][1].time = 0
  /\ \A i \in DOMAIN m.rel : \A j \in DOMAIN m.rel[i].states :
       LET kind == Part[m.rel[i].comp].kind
       IN  IF m.rel[i].states[j].state
             THEN kind \notin {"PassThrough", "ScheduleBasedLoad", "ScheduleBasedSource"}
             ELSE kind # "Mover"

EveryChangeIsTold ==
  /\ OfKind("Switch") = {}
  /\ WasteIsDisposedOf
  /\ MoversAreFed
  /\ \A m \in Models : ChangesAreTold(m)

(* The inputs whose loads with a schedule are asked for at its times: a    *)
(* load that begins after time 0 may be missed, and one that is out of     *)
(* service asks for its amount all the same.                               *)
LoadsBeginAtOnce == \A m \in Models : \A c \in Loads : m.load[c][1].time = 0

ScheduledLoadsDoNotFail ==
  \A m \in Models : \A i \in DOMAIN m.rel : \A j \in DOMAIN m.rel[i].states :
    Part[m.rel[i].comp].kind = "ScheduleBasedLoad" => m.rel[i].states[j].state

(* The inputs in which the repair of a load with a schedule, which looks   *)
(* for the load among the constant ones, finds one there.                  *)
RepairedLoadsAreFound ==
  \A m \in Models : \A i \in DOMAIN m.rel : \A j \in DOMAIN m.rel[i].states :
    LET c == m.rel[i].comp
    IN  Part[c].kind = "ScheduleBasedLoad" /\ m.rel[i].states[j].state =>
          \E d \in OfKind("ConstantLoad") :
            Cardinality(PeersBefore(d)) = Cardinality(PeersBefore(c))

(* A converter has one inflow, and at most one connection at each port.    *)
ConvertersAreWired ==
  \A k \in Conn :
    LET from == Connection[k].from
        to   == Connection[k].to
    IN  /\ Part[to].kind = "Converter" => k = Inflow[to][0]
        /\ Part[from].kind = "Converter" /\ Connection[k].fromPort = WastePort(from)
             => k = Outflow[from][WastePort(from)]

(* The networks whose connections all stand at ports that their components *)
(* give a meaning to, no two of them at the same one.                      *)
PortsIn(c) ==
  CASE Part[c].kind \in {"ConstantLoad", "ScheduleBasedLoad", "PassThrough",
                         "Converter", "Store", "WasteSink"} -> {0}
    [] Part[c].kind = "Mover" -> {0, EnvironmentPort}
    [] Part[c].kind = "Switch" -> {0, 1}
    [] Part[c].kind = "Mux" -> InPorts(c)
    [] OTHER -> {}

PortsOut(c) ==
  CASE Part[c].kind \in {"ConstantSource", "EnvironmentSource", "PassThrough",
                         "Switch"} -> {0}
    [] Part[c].kind \in {"ScheduleBasedSource", "Mover", "Store"} -> {0, WastePort(c)}
    [] Part[c].kind = "Converter" -> {0, LossPort(c), WastePort(c)}
    [] Part[c].kind = "Mux" -> OutPorts(c)
    [] OTHER -> {}

EachPortIsWiredOnce ==
  \A k \in Conn :
    LET from == Connection[k].from
        to   == Connection[k].to
    IN  /\ Connection[k].fromPort \in PortsOut(from)
        /\ k = Outflow[from][Connection[k].fromPort]
        /\ Connection[k].toPort \in PortsIn(to)
        /\ k = Inflow[to][Connection[k].toPort]

(* No converter's efficiency is above one: the assertions of its handlers  *)
(* (of a constant efficiency, that of Model_Add... as well).               *)
NothingIsMadeOfNothing ==
  \A c \in OfKind("Converter") :
    \A table \in {Part[c].byOutflow, Part[c].byInflow} :
      \A i \in DOMAIN table.ys : table.ys[i] <= table.den

(* What a converter or a mover takes in to put something out and what it   *)
(* puts out of something taken in, before the casts to flow_t.             *)
Conversions == OfKind("Converter") \cup OfKind("Mover")

WouldNeed(c, wanted) ==
  LET eff == LookupInterp(Part[c].byOutflow, wanted)
  IN  (wanted * eff.den + eff.num - 1) \div eff.num

WouldMake(c, given) ==
  LET eff == LookupInterp(Part[c].byInflow, given)
  IN  (given * eff.num) \div eff.den

(* The two tables agree: given what it takes to put something out, or more,*)
(* a component puts that much out.  With a constant efficiency they do.    *)
TablesAgree ==
  \A c \in Conversions : \A wanted \in 0 .. Part[c].maxOutflow : \A given \in Flow :
    given >= WouldNeed(c, wanted) => WouldMake(c, given) >= wanted

(* A converter asks for more than a flow can carry, which the cast of the  *)
(* quotient to flow_t does not survive; a conversion asks for or makes     *)
(* more than one can.                                                      *)
RequestsOverflow ==
  \E c \in OfKind("Converter") :
    WouldNeed(c, AtMost(ss.req[Outflow[c][0]], Part[c].maxOutflow)) \notin Flow

ConversionsOverflow ==
  \E c \in Conversions :
    \/ WouldNeed(c, AtMost(ss.req[Outflow[c][0]], Part[c].maxOutflow)) \notin Flow
    \/ WouldMake(c, ss.avail[Inflow[c][0]]) \notin Flow
    \/ WouldMake(c, ss.actual[Inflow[c][0]]) \notin Flow

(* Every component that neither makes, uses nor stores energy passes on    *)
(* exactly what it takes in: the check that prints "FLOW IMBALANCE!".      *)
FlowsBalance ==
  Settled => \A c \in Comp :
    Part[c].kind \in {"PassThrough", "Converter", "Mover", "Mux", "Switch"} =>
      Sum(ss.actual, Inflows(c)) = Sum(ss.actual, Outflows(c))

(* The last state a reliability schedule has entered.                      *)
FailedBySchedule(i) ==
  LET past == {j \in DOMAIN model.rel[i].states : model.rel[i].states[j].time <= t}
  IN  /\ past # {}
      /\ \E j \in past : /\ \A h \in past : h <= j
                         /\ ~ model.rel[i].states[j].state

(* The components out of service are those their reliability schedules     *)
(* say: a failure or a repair is not missed, applied twice, or applied to  *)
(* another component, and the solver puts nobody out of service.           *)
OutOfServiceAsScheduled ==
  Settled =>
    ss.down = {model.rel[i].comp : i \in {j \in DOMAIN model.rel : FailedBySchedule(j)}}

(* No energy flows through a component out of service.                     *)
FailedComponentsCarryNothing ==
  Settled =>
    \A c \in ss.down : \A k \in Inflows(c) \cup Outflows(c) : ss.actual[k] = 0

(* The value a schedule has at a time.                                     *)
ValueAt(schedule, time) ==
  LET past == {i \in DOMAIN schedule : schedule[i].time <= time}
  IN  IF past = {} THEN 0
      ELSE schedule[CHOOSE i \in past : \A j \in past : j <= i].amount

(* At every recorded time each load in service requests, and each source   *)
(* in service offers, what its schedule says for that time: no event is    *)
(* skipped, applied late or applied twice.                                 *)
SchedulesAreFollowed ==
  Settled =>
    /\ \A c \in Loads \ ss.down :
         ss.req[Inflow[c][0]] = ValueAt(model.load[c], t)
    /\ \A c \in Sources \ ss.down :
         ss.avail[Outflow[c][0]] = AtMost(ValueAt(model.avail[c], t), Part[c].maxOutflow)
    /\ \A c \in OfKind("ConstantLoad") \ ss.down :
         ss.req[Inflow[c][0]] = Part[c].load
    /\ \A c \in OfKind("ConstantSource") \ ss.down :
         ss.avail[Outflow[c][0]] = Part[c].available

(* The solver settles before either of its iteration limits: flows are     *)
(* never recorded while connections are still scheduled.                   *)
SolverConverges ==
  /\ pc = "finalize" => numTimes < MaxTimes
  /\ Settled => loopIter < MaxLoop /\ ss.back \cup ss.front = {}

(* The times at which an input of the run changes.  The first entry of a   *)
(* schedule is looked at from the start: nothing waits for it.             *)
LaterTimes(schedule) == {schedule[i].time : i \in 2 .. Len(schedule)}

EventTimes ==
  (UNION {LaterTimes(model.load[c]) : c \in Loads})
  \cup (UNION {LaterTimes(model.avail[c]) : c \in Sources})
  \cup (UNION {{model.rel[i].states[j].time : j \in DOMAIN model.rel[i].states}
                : i \in DOMAIN model.rel})

Recorded == {timeAndFlows[i].time : i \in DOMAIN timeAndFlows}

(* The recorded times strictly increase and no event is stepped over: every*)
(* time at which a load, a supply or the state of a component changes and  *)
(* that is not in the future is among them.                                *)
EventsAreRecorded ==
  Settled =>
    /\ \A i, j \in DOMAIN timeAndFlows :
         i < j => timeAndFlows[i].time < timeAndFlows[j].time
    /\ \A e \in EventTimes : e <= t => e \in Recorded

(* Dispatch in order: a mux takes from an inflow only when the earlier     *)
(* ones give all they have, leaves an outflow short only when nothing is   *)
(* left for the later ones, and leaves one short only when every inflow    *)
(* gives all it has.                                                       *)
MuxDispatchesInOrder ==
  Settled => \A c \in OfKind("Mux") \ ss.down :
    LET Spare(p) == ss.actual[Inflow[c][p]] < ss.avail[Inflow[c][p]]
        Short(p) == ss.actual[Outflow[c][p]] <
                    AtMost(ss.req[Outflow[c][p]], Part[c].maxOutflows[p + 1])
    IN  /\ \A p, q \in InPorts(c) :
             p < q /\ Spare(p) => ss.actual[Inflow[c][q]] = 0
        /\ \A p, q \in OutPorts(c) :
             p < q /\ Short(p) => ss.actual[Outflow[c][q]] = 0
        /\ (\E p \in OutPorts(c) : Short(p)) => \A p \in InPorts(c) : ~ Spare(p)

(* A converter or a mover puts out no more than its table makes of what it *)
(* takes in, and leaves its outflow short of what it may carry only when it*)
(* takes all its inflow can give: the rounding up of what is asked and the *)
(* rounding down of what is made, each by its own table, neither make a    *)
(* watt nor lose one that could have been served.                          *)
ConversionsServeWhatTheyCan ==
  Settled => \A c \in Conversions \ ss.down :
    LET in   == Inflow[c][0]
        out  == Outflow[c][0]
        made == FloorMul(ss.actual[in], LookupInterp(Part[c].byInflow, ss.actual[in]))
    IN  /\ ss.actual[out] <= made
        /\ ss.actual[out] < AtMost(ss.req[out], Part[c].maxOutflow)
             => ss.actual[in] = ss.avail[in]

-----------------------------------------------------------------------------
(* Stores.                                                                 *)

(* No store ever holds more than its capacity or less than nothing: the    *)
(* two assertions of UpdateStoresPerElapsedTime.                           *)
StoreWithinCapacity ==
  /\ pc # "assertionFailed"
  /\ \A c \in Stores : ss.amount[c] \in 0 .. Part[c].capacity

(* A full store takes in no more than it gives and an empty one gives no   *)
(* more than it takes in: the event at which a store becomes full or empty *)
(* is at the right time and changes the flows in time.                     *)
StoresStopAtTheirLimits ==
  Settled => \A c \in Stores :
    /\ ss.amount[c] = Part[c].capacity => NetCharge(ss, c) <= 0
    /\ ss.amount[c] = 0 => NetCharge(ss, c) >= 0

(* What flows into a store, and the energy a recorded interval brings it.  *)
NetInflow(c, flows) ==
  (IF HasInflow(c, 0) THEN flows[Inflow[c][0]] ELSE 0)
  - flows[Outflow[c][0]]
  - (IF HasOutflow(c, WastePort(c)) THEN flows[Outflow[c][WastePort(c)]] ELSE 0)

Lasted(i)     == timeAndFlows[i + 1].time - timeAndFlows[i].time
Charged(c, i) == Lasted(i) * NetInflow(c, timeAndFlows[i].actual)

(* Twice what the rounding of the energy of each of a store's three flows  *)
(* to joules can amount to: nothing in an interval of whole seconds.       *)
Rounding(elapsed) == IF elapsed % TicksPerSecond = 0 THEN 0 ELSE 3 * TicksPerSecond

(* What a store holds is what it held at the start and what the recorded   *)
(* flows have brought it since, whether or not it was in service all the   *)
(* time: exactly, if events are whole seconds apart, and to half a joule   *)
(* of rounding for each of its flows in every other interval.              *)
StoredEnergyIsAccountedFor ==
  Settled => \A c \in Stores :
    LET n       == Len(timeAndFlows)
        charged == Prefix([i \in 1 .. n - 1 |-> Charged(c, i)], n - 1)
        rounded == Prefix([i \in 1 .. n - 1 |-> Rounding(Lasted(i))], n - 1)
        held    == (ss.amount[c] - Part[c].initial) * TicksPerSecond
    IN  2 * (charged - held) \in -rounded .. rounded

-----------------------------------------------------------------------------
(* Switches.                                                               *)

(* A switch draws on one inflow at a time.                                 *)
SwitchesUseOneInflow ==
  Settled => \A c \in OfKind("Switch") :
    \E p \in {0, 1} : ss.actual[Inflow[c][p]] = 0 /\ ss.req[Inflow[c][p]] = 0

(* A load behind a switch is served whenever one of the inflows can serve  *)
(* it alone.                                                               *)
SwitchesServeTheLoad ==
  Settled => \A c \in OfKind("Switch") :
    (\E p \in {0, 1} : ss.avail[Inflow[c][p]] >= ss.req[Outflow[c][0]])
      => ss.actual[Outflow[c][0]] = ss.req[Outflow[c][0]]

-----------------------------------------------------------------------------
(* Every run ends by reaching its final time.                              *)
Terminates == <>(pc = "done")

(* The simulation implements the calendar of its events: the times it      *)
(* records are those of a run of EventCalendar, to their end.              *)
Calendar == INSTANCE EventCalendar WITH
  events   <- EventTimes,
  recorded <- [i \in DOMAIN timeAndFlows |-> timeAndFlows[i].time]

KeepsTheCalendar == Calendar!Spec

=============================================================================
