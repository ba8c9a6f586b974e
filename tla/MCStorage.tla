----------------------------- MODULE MCStorage ------------------------------
(***************************************************************************)
(* A scheduled source charges a battery that loses some of what it is      *)
(* charged with; the battery and a tank nobody refills serve a scheduled   *)
(* load through a mux.  A sixtieth of a second divides the time any energy *)
(* takes at a rate of 1 to 6 W.                                            *)
(***************************************************************************)
EXTENDS Results, MCNetworks

MCComp == 1 .. 7

Battery(initial, charge, efficiency) ==
  [kind |-> "Store", capacity |-> 6, initial |-> initial, chargeAmount |-> 3,
   maxCharge |-> charge, maxDischarge |-> 3, maxOutflow |-> 5,
   roundTrip |-> efficiency]

Tank ==
  [kind |-> "Store", capacity |-> 7, initial |-> 7, chargeAmount |-> 0,
   maxCharge |-> 0, maxDischarge |-> 4, maxOutflow |-> 4,
   roundTrip |-> [num |-> 1, den |-> 1]]

Parts(battery) == <<
  [kind |-> "ScheduleBasedSource", maxOutflow |-> 6],
  [kind |-> "WasteSink"],
  battery,
  [kind |-> "WasteSink"],
  Tank,
  [kind |-> "Mux", inports |-> 2, outports |-> 1, maxOutflows |-> <<10>>],
  [kind |-> "ScheduleBasedLoad"] >>

MCPart == Parts(Battery(4, 2, [num |-> 1, den |-> 2]))

MCConn == 1 .. 6

MCConnection == <<
  Link(1, 1, 2, 0), Link(1, 0, 3, 0), Link(3, 1, 4, 0), Link(3, 0, 6, 0),
  Link(5, 0, 6, 1), Link(6, 0, 7, 0) >>

Scenarios(loads, supplies, outages) ==
  {[load  |-> [c \in {7} |-> <<At(0, a), At(2, b), At(5, d)>>],
    avail |-> [c \in {1} |-> <<At(0, x), At(3, y)>>],
    rel   |-> r] : a \in loads, b \in loads, d \in loads, x \in supplies,
                   y \in supplies, r \in outages}

(* Every entry of a schedule differs from the one before it.               *)
Changing(models) ==
  {m \in models : /\ m.load[7][1].amount # m.load[7][2].amount
                  /\ m.load[7][2].amount # m.load[7][3].amount
                  /\ m.avail[1][1].amount # m.avail[1][2].amount}

NoOutage == {<<>>}

MCModels ==
  Changing(Scenarios({0, 1, 3, 6}, {0, 1, 4, 6},
                     {<<>>, <<[comp |-> 3, states |-> <<Down(4)>>]>>,
                      <<[comp |-> 3, states |-> <<Down(1), Up(3)>>]>>}))

(* A battery that starts with 1 J, charges at 5 W and keeps four fifths.   *)
FourFifthsPart == Parts(Battery(1, 5, [num |-> 4, den |-> 5]))
FiveWattModels == Changing(Scenarios({0, 1, 3}, {0, 4, 6}, NoOutage))

MCFinalTime == 8 * TicksPerSecond

-----------------------------------------------------------------------------
(* The battery between the source and the load, losing nothing.            *)
ChainComp == 1 .. 5

ChainPart == <<
  [kind |-> "ScheduleBasedSource", maxOutflow |-> 6],
  [kind |-> "WasteSink"],
  Battery(4, 2, [num |-> 1, den |-> 1]),
  [kind |-> "WasteSink"],
  [kind |-> "ScheduleBasedLoad"] >>

ChainConn == 1 .. 4

ChainConnection == <<
  Link(1, 1, 2, 0), Link(1, 0, 3, 0), Link(3, 1, 4, 0), Link(3, 0, 5, 0) >>

ChainModels ==
  {[load  |-> [c \in {5} |-> <<At(0, a), At(2, b)>>],
    avail |-> [c \in {1} |-> <<At(0, x), At(3, y)>>],
    rel   |-> <<>>] : a, b \in {0, 1, 3, 6}, x, y \in {0, 1, 4, 6}}

ChainFinalTime == 12 * TicksPerSecond

-----------------------------------------------------------------------------
(* The hypotheses of the theorems about the solver are those of this       *)
(* network and its scenarios.                                              *)
ASSUME
  /\ EveryChangeIsTold
  /\ EachPortIsWiredOnce
  /\ NothingIsMadeOfNothing
  /\ TablesAgree
  /\ ConvertersAreWired
  /\ LoadsBeginAtOnce
  /\ ScheduledLoadsDoNotFail

=============================================================================
