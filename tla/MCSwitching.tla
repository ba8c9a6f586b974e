---------------------------- MODULE MCSwitching -----------------------------
(***************************************************************************)
(* A transfer switch.  The utility, whose supply varies, is the primary of *)
(* a switch and a generator that is always there the secondary; the switch *)
(* feeds a scheduled load through a pass-through.  The generator may fail. *)
(***************************************************************************)
EXTENDS Results, MCNetworks

MCComp == 1 .. 6
MCPart == <<
  [kind |-> "ScheduleBasedSource", maxOutflow |-> 6],
  [kind |-> "WasteSink"],
  [kind |-> "ConstantSource", available |-> 5],
  [kind |-> "Switch"],
  [kind |-> "PassThrough", maxOutflow |-> 6],
  [kind |-> "ScheduleBasedLoad"] >>
MCConn == 1 .. 5
MCConnection == <<
  Link(1, 0, 4, 0), Link(1, 1, 2, 0), Link(3, 0, 4, 1), Link(4, 0, 5, 0),
  Link(5, 0, 6, 0) >>

MCModels ==
  {[load  |-> [c \in {6} |-> <<At(0, a), At(1, b), At(3, d)>>],
    avail |-> [c \in {1} |-> <<At(0, x), At(2, y), At(3, z)>>],
    rel   |-> r] : a \in {0, 2, 6}, b \in {2, 4}, d \in {0, 3},
                   x \in {0, 3}, y \in {3, 6}, z \in {0, 3},
                   r \in {<<>>} \cup {<<o>> : o \in Outages(3)}}

MCFinalTime == 4 * TicksPerSecond

(* The hypotheses of the theorem about switches are those of this network. *)
ASSUME WasteIsDisposedOf /\ RepairedLoadsAreFound

=============================================================================
