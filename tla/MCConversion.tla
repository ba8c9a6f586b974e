---------------------------- MODULE MCConversion ----------------------------
(***************************************************************************)
(* A scheduled source feeds a generator whose efficiency varies with its   *)
(* load; the generator's loss is recovered by a load of its own and its    *)
(* outflow drives a heat pump for a scheduled load.                        *)
(***************************************************************************)
EXTENDS Results, MCNetworks

MCComp == 1 .. 9

(* Half of what goes in up to 2 W out, all of it from 6 W on.              *)
Generator ==
  [kind |-> "Converter",
   byOutflow |-> [xs |-> <<2, 6>>, ys |-> <<1, 2>>, den |-> 2],
   byInflow  |-> [xs |-> <<4, 6>>, ys |-> <<1, 2>>, den |-> 2],
   maxOutflow |-> 5, maxLossflow |-> 2]

(* Three out for every two in.                                             *)
HeatPump ==
  [kind |-> "Mover", byOutflow |-> Constant(3, 2), byInflow |-> Constant(3, 2),
   maxOutflow |-> 6, maxLossflow |-> 0]

MCPart == <<
  [kind |-> "ScheduleBasedSource", maxOutflow |-> 9],
  [kind |-> "WasteSink"],
  Generator,
  HeatPump,
  [kind |-> "ScheduleBasedLoad"],
  [kind |-> "ConstantLoad", load |-> 1],
  [kind |-> "WasteSink"],
  [kind |-> "EnvironmentSource"],
  [kind |-> "WasteSink"] >>

MCConn == 1 .. 8

MCConnection == <<
  Link(1, 0, 3, 0), Link(1, 1, 2, 0), Link(3, 0, 4, 0), Link(3, 1, 6, 0),
  Link(3, 2, 7, 0), Link(8, 0, 4, 1), Link(4, 0, 5, 0), Link(4, 1, 9, 0) >>

Scenarios(loads, supplies, outages) ==
  {[load  |-> [c \in {5} |-> <<At(0, a), At(2, b)>>],
    avail |-> [c \in {1} |-> <<At(0, x), At(1, y)>>],
    rel   |-> r] : a \in loads, b \in loads, x \in supplies, y \in supplies,
                   r \in outages}

MCModels ==
  Scenarios({0, 2, 5}, {0, 3, 8},
            {<<>>} \cup {<<o>> : o \in Outages(3) \cup Outages(6)}
            \cup {<<o, p>> : o \in Outages(3), p \in Outages(6)})

(* Those in which the heat pump is out of service for a while.             *)
HeatPumpOutages == Scenarios({0, 2, 5}, {3, 8}, {<<o>> : o \in Outages(4)})

MCFinalTime == 4 * TicksPerSecond

(* The hypotheses of the theorems about the solver are those of this       *)
(* network and its scenarios.                                              *)
ASSUME
  /\ EveryChangeIsTold
  /\ EachPortIsWiredOnce
  /\ NothingIsMadeOfNothing
  /\ TablesAgree
  /\ ConvertersAreWired
  /\ LoadsBeginAtOnce
  /\ ScheduledLoadsDoNotFail

=============================================================================
