----------------------------- MODULE MCDispatch -----------------------------
(***************************************************************************)
(* Two sources, a scheduled one before a constant one, feed two loads      *)
(* through a mux; a pass-through stands between the mux and the second.    *)
(***************************************************************************)
EXTENDS Results, MCNetworks

MCComp == 1 .. 8

MCPart == <<
  [kind |-> "ScheduleBasedSource", maxOutflow |-> 4],
  [kind |-> "WasteSink"],
  [kind |-> "ConstantSource", available |-> 3],
  [kind |-> "Mux", inports |-> 2, outports |-> 2, maxOutflows |-> <<4, 5>>],
  [kind |-> "ScheduleBasedLoad"],
  [kind |-> "PassThrough", maxOutflow |-> 3],
  [kind |-> "ConstantLoad", load |-> 2],
  [kind |-> "WasteSink"] >>

MCConn == 1 .. 6

MCConnection == <<
  Link(1, 1, 2, 0), Link(1, 0, 4, 0), Link(3, 0, 4, 1), Link(4, 0, 5, 0),
  Link(4, 1, 6, 0), Link(6, 0, 7, 0) >>

MCModels ==
  {[load |-> [c \in {5} |-> <<At(0, a), At(1, b), At(3, d)>>],
    avail |-> [c \in {1} |-> <<At(0, x), At(2, y)>>],
    rel |-> r] : a \in {0, 3, 6}, b \in {1, 4}, d \in {0, 2},
                 x \in {1, 5}, y \in {0, 4},
                 r \in {<<>>} \cup {<<o>> : o \in Outages(3) \cup Outages(4) \cup Outages(7)}
                       \cup {<<o, p>> : o \in Outages(3), p \in Outages(4)}}

MCFinalTime == 4 * TicksPerSecond

(* The hypotheses of the theorems about the solver are those of this       *)
(* network and its scenarios.                                              *)
ASSUME
  /\ EveryChangeIsTold
  /\ EachPortIsWiredOnce
  /\ NothingIsMadeOfNothing
  /\ TablesAgree
  /\ ConvertersAreWired
  /\ LoadsBeginAtOnce
  /\ ScheduledLoadsDoNotFail

=============================================================================
