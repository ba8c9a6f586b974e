------------------------------ MODULE MCRepair ------------------------------
(***************************************************************************)
(* A generator feeds a scheduled and a constant load through a power line  *)
(* (a pass-through) and a mux; the line and the scheduled load fail and    *)
(* are repaired.                                                           *)
(***************************************************************************)
EXTENDS Results, MCNetworks

MCComp == 1 .. 8

MCPart == <<
  [kind |-> "ScheduleBasedSource", maxOutflow |-> 9],
  [kind |-> "WasteSink"],
  [kind |-> "Converter", byOutflow |-> Constant(1, 2),
   byInflow |-> Constant(1, 2), maxOutflow |-> 4, maxLossflow |-> 9],
  [kind |-> "WasteSink"],
  [kind |-> "PassThrough", maxOutflow |-> 4],
  [kind |-> "Mux", inports |-> 1, outports |-> 2, maxOutflows |-> <<9, 9>>],
  [kind |-> "ScheduleBasedLoad"],
  [kind |-> "ConstantLoad", load |-> 1] >>

MCConn == 1 .. 7

MCConnection == <<
  Link(1, 1, 2, 0), Link(1, 0, 3, 0), Link(3, 2, 4, 0), Link(3, 0, 5, 0),
  Link(5, 0, 6, 0), Link(6, 0, 7, 0), Link(6, 1, 8, 0) >>

Scenarios(outages) ==
  {[load  |-> [c \in {7} |-> <<At(0, a), At(2, b)>>],
    avail |-> [c \in {1} |-> <<At(0, x)>>],
    rel   |-> <<o>>] : a \in {0, 2, 3}, b \in {1, 2}, x \in {4, 8}, o \in outages}

LineOutages == Scenarios(Outages(5))
LoadOutages == Scenarios(Outages(7))

(* The scheduled load fails before its schedule changes and stays down.    *)
LoadLosses == Scenarios({[comp |-> 7, states |-> <<Down(1)>>]})

MCFinalTime == 4 * TicksPerSecond

=============================================================================
