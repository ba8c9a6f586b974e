----------------------------- MODULE MCNetworks -----------------------------
(***************************************************************************)
(* Notation the model-checking instances share for networks and schedules; *)
(* times are given in seconds.                                             *)
(***************************************************************************)
EXTENDS Network

Link(from, fromPort, to, toPort) ==
  [from |-> from, fromPort |-> fromPort, to |-> to, toPort |-> toPort]

At(time, amount) == [time |-> time * TicksPerSecond, amount |-> amount]

Up(time)   == [time |-> time * TicksPerSecond, state |-> TRUE]
Down(time) == [time |-> time * TicksPerSecond, state |-> FALSE]

(* A repair after two seconds, no repair, an outage between two schedule   *)
(* entries.                                                                *)
Outages(c) == {[comp |-> c, states |-> s] :
                 s \in {<<Down(0), Up(2)>>, <<Down(2)>>, <<Down(1), Up(3)>>}}

(* Reports at every second, and at steps that fall between the events.     *)
MCTimeSteps == {TicksPerSecond, 3 * TicksPerSecond}

=============================================================================
