----------------------------- MODULE Simulation -----------------------------
(***************************************************************************)
(* One run of Simulate: an event loop over times at which something        *)
(* changes and, at each of them, a solver that passes requests upstream    *)
(* and availabilities downstream until no connection is scheduled.         *)
(*                                                                         *)
(* The program has one thread; pc names the loop it is in and todo holds   *)
(* what the innermost loop still has to visit, in ascending order.  Every  *)
(* step is determined; what varies is the model: the load and source       *)
(* schedules and the failures and repairs of a scenario, any of Models.    *)
(***************************************************************************)
EXTENDS Failures

CONSTANTS
  Models,             \* the inputs: [load, avail, rel], see ModelType
  FinalTime,          \* FinalTime, in ticks
  MaxTimes,           \* max_times of RunActiveConnections
  MaxLoop,            \* maxLoop of Simulate
  EnableSwitchLogic   \* enableSwitchLogic

VARIABLES
  model,         \* the schedules of this run
  ss,            \* SimulationState
  t,             \* the current time
  pc, todo,
  numTimes,      \* num_times of RunActiveConnections
  rerun,         \* this RunActiveConnections is the one after a switch moved
  loopIter,      \* loopIter of Simulate
  timeAndFlows   \* the results so far

vars == <<model, ss, t, pc, todo, numTimes, rerun, loopIter, timeAndFlows>>

Loads   == OfKind("ScheduleBasedLoad")
Sources == OfKind("ScheduleBasedSource")
Stores  == OfKind("Store")

Schedule == Seq([time : Nat, amount : Flow]) \ {<<>>}

ModelType == [
  load  : [Loads -> Schedule],                  \* TimesAndLoads
  avail : [Sources -> Schedule],                \* TimeAndAvails
  rel   : Seq([comp : Comp,                     \* Reliabilities
               states : Seq([time : Nat, state : BOOLEAN])])]

Increasing(schedule) ==
  \A i, j \in DOMAIN schedule : i < j => schedule[i].time < schedule[j].time

ASSUME SimulationAssumption ==
  /\ Models \subseteq ModelType
  /\ \A m \in Models :
       /\ \A c \in Loads : Increasing(m.load[c])
       /\ \A c \in Sources : Increasing(m.avail[c])
       /\ \A i \in DOMAIN m.rel : Increasing(m.rel[i].states)
       /\ \A i, j \in DOMAIN m.rel : m.rel[i].comp = m.rel[j].comp => i = j
  /\ FinalTime \in Nat
  /\ MaxTimes \in Nat \ {0}
  /\ MaxLoop \in Nat
  /\ EnableSwitchLogic \in BOOLEAN

(* The element a loop over todo visits next.                               *)
IsNext(i) == i \in todo /\ \A j \in todo : i <= j

-----------------------------------------------------------------------------
(* Activation: the first thing done at each time.                          *)

ScheduledNow(schedule, i) == i <= Len(schedule) /\ schedule[i].time = t

ScheduledLoadAt(c) ==
  IF ScheduledNow(model.load[c], ss.loadIdx[c])
    THEN Request(ss, Inflow[c][0], model.load[c][ss.loadIdx[c]].amount)
    ELSE ss

ScheduledSourceAt(c) ==
  LET out       == Outflow[c][0]
      available == AtMost(model.avail[c][ss.srcIdx[c]].amount,
                          Part[c].maxOutflow)
  IN  IF c \in ss.down THEN Offer(ss, out, 0)
      ELSE IF ScheduledNow(model.avail[c], ss.srcIdx[c])
        THEN Spill(Offer(ss, out, available), Outflow[c][WastePort(c)],
                   Monus(available, ss.req[out]))
        ELSE ss

(* A slip: whether the store is in service is not looked at.               *)
StoreAtEvenDown(c) ==
  IF ss.event[c] = t \/ ~ HasInflow(c, 0)
    THEN RunStoreBackward(Offer(ss, Outflow[c][0], StoreAvailable(ss, c)), c)
    ELSE ss

StoreAt(c) ==
  LET out   == Outflow[c][0]
      inZero == IF HasInflow(c, 0) THEN Request(ss, Inflow[c][0], 0) ELSE ss
      offered == Offer(ss, out, StoreAvailable(ss, c))
  IN  IF c \in ss.down THEN Offer(inZero, out, 0)
      ELSE IF ss.event[c] = t \/ ~ HasInflow(c, 0)
        THEN RunStoreBackward(offered, c)
        ELSE ss

ConstantSourceAt(c) ==
  Offer(ss, Outflow[c][0], IF c \in ss.down THEN 0 ELSE Part[c].available)

(* A slip: a state is entered again at every event that follows.           *)
StatesSoFar(i) ==
  {j \in DOMAIN model.rel[i].states : model.rel[i].states[j].time <= t}

(* The states a reliability schedule enters at this very time.             *)
StatesNow(i) ==
  {j \in DOMAIN model.rel[i].states : model.rel[i].states[j].time = t}

(* The phases in the order Simulate calls them.                            *)
ItemsOf(phase, now) ==
  CASE phase = "reliability"     -> DOMAIN model.rel
    [] phase = "loads"           -> Loads
    [] phase = "sources"         -> Sources
    [] phase = "stores"          -> Stores
    [] phase = "constantLoads"   -> IF now = 0 THEN OfKind("ConstantLoad") ELSE {}
    [] phase = "constantSources" -> IF now = 0 THEN OfKind("ConstantSource") ELSE {}
    [] OTHER -> {}

PhaseAfter == [reliability |-> "loads", loads |-> "sources",
               sources |-> "stores", stores |-> "constantLoads",
               constantLoads |-> "constantSources", constantSources |-> "loop"]

ActivateReliability(i) ==
  /\ pc = "reliability" /\ IsNext(i)
  /\ IF StatesNow(i) = {}
       THEN UNCHANGED <<ss, pc>> /\ todo' = todo \ {i}
       ELSE \E j \in StatesNow(i) :
         LET c  == model.rel[i].comp
             up == model.rel[i].states[j].state
         IN  \/ /\ IF up THEN CanBeRepaired(c) ELSE CanFail(c)
                /\ IF up
                     THEN \E k \in RepairedLoadConns(c) :
                            ss' = SetComponentToRepaired(model, ss, c, k)
                     ELSE ss' = SetComponentToFailed(ss, c)
                /\ todo' = todo \ {i}
                /\ UNCHANGED pc
             \/ /\ IF up THEN ~ CanBeRepaired(c) ELSE ~ CanFail(c)
                /\ pc' = "exited"
                /\ UNCHANGED <<ss, todo>>
  /\ UNCHANGED <<model, t, numTimes, rerun, loopIter, timeAndFlows>>

Activate(c) ==
  /\ IsNext(c)
  /\ \/ pc = "loads" /\ ss' = ScheduledLoadAt(c)
     \/ pc = "sources" /\ ss' = ScheduledSourceAt(c)
     \/ pc = "stores" /\ ss' = StoreAt(c)
     \/ pc = "constantLoads" /\ ss' = Request(ss, Inflow[c][0], Part[c].load)
     \/ pc = "constantSources" /\ ss' = ConstantSourceAt(c)
  /\ todo' = todo \ {c}
  /\ UNCHANGED <<model, t, pc, numTimes, rerun, loopIter, timeAndFlows>>

NextPhase ==
  /\ pc \in DOMAIN PhaseAfter
  /\ todo = {}
  /\ pc' = PhaseAfter[pc]
  /\ todo' = ItemsOf(PhaseAfter[pc], t)
  /\ UNCHANGED <<model, ss, t, numTimes, rerun, loopIter, timeAndFlows>>

-----------------------------------------------------------------------------
(* RunActiveConnections: the passes over the scheduled connections.        *)

(* When the loop of Simulate around it ends; a slip: the connections       *)
(* scheduled forward are forgotten.                                        *)
LoopEndsEarly == loopIter = MaxLoop \/ ss.back = {}
LoopEnds == loopIter = MaxLoop \/ ss.back \cup ss.front = {}

BeginRun ==
  /\ pc = "loop"
  /\ ~ LoopEnds
  /\ pc' = "backward"
  /\ numTimes' = 0
  /\ rerun' = FALSE
  /\ UNCHANGED <<model, ss, t, todo, loopIter, timeAndFlows>>

(* The inner while loops copy the set of scheduled connections, empty it,  *)
(* and visit the copy.                                                     *)
TakeBackward ==
  /\ pc = "backward" /\ todo = {} /\ ss.back # {}
  /\ todo' = ss.back
  /\ ss' = [ss EXCEPT !.back = {}]
  /\ UNCHANGED <<model, t, pc, numTimes, rerun, loopIter, timeAndFlows>>

StepBackward(k) ==
  /\ pc = "backward" /\ IsNext(k)
  /\ ss' = IF Connection[k].from \in ss.down
             THEN SetComponentToFailed(ss, Connection[k].from)
             ELSE RunBackward(model, ss, k)
  /\ todo' = todo \ {k}
  /\ UNCHANGED <<model, t, pc, numTimes, rerun, loopIter, timeAndFlows>>

EndBackward ==
  /\ pc = "backward" /\ todo = {} /\ ss.back = {}
  /\ pc' = "forward"
  /\ UNCHANGED <<model, ss, t, todo, numTimes, rerun, loopIter, timeAndFlows>>

TakeForward ==
  /\ pc = "forward" /\ todo = {} /\ ss.front # {}
  /\ todo' = ss.front
  /\ ss' = [ss EXCEPT !.front = {}]
  /\ UNCHANGED <<model, t, pc, numTimes, rerun, loopIter, timeAndFlows>>

StepForward(k) ==
  /\ pc = "forward" /\ IsNext(k)
  /\ ss' = IF Connection[k].to \in ss.down
             THEN SetComponentToFailed(ss, Connection[k].to)
             ELSE RunForward(ss, k)
  /\ todo' = todo \ {k}
  /\ UNCHANGED <<model, t, pc, numTimes, rerun, loopIter, timeAndFlows>>

EndForward ==
  /\ pc = "forward" /\ todo = {} /\ ss.front = {}
  /\ numTimes' = numTimes + 1
  /\ pc' = IF numTimes + 1 < MaxTimes /\ ss.back # {} THEN "backward"
           ELSE "finalize"
  /\ UNCHANGED <<model, ss, t, todo, rerun, loopIter, timeAndFlows>>

-----------------------------------------------------------------------------
(* FinalizeFlows and RunStorePostFinalization.                             *)

FinalizeFlows(s) ==
  [s EXCEPT !.actual =
     [k \in Conn |-> FinalizeFlowValue(s.req[k], s.avail[k])]]

NetCharge(s, c) ==
  (IF HasInflow(c, 0) THEN s.actual[Inflow[c][0]] ELSE 0)
  - s.actual[Outflow[c][0]]

(* What of a positive net charge is stored; the rest is waste.             *)
Stored(c, net) ==
  IF HasOutflow(c, WastePort(c))
    THEN (net * Part[c].roundTrip.num) \div Part[c].roundTrip.den
    ELSE net

(* How long a store takes for an energy at a rate; never, at no rate.      *)
After(energy, rate) ==
  IF rate = 0 THEN Infinity ELSE t + (energy * TicksPerSecond) \div rate

StoreEventTime(s, c) ==
  LET net    == NetCharge(s, c)
      amount == s.amount[c]
      charge == Part[c].chargeAmount
  IN  IF net > 0 THEN After(Part[c].capacity - amount, Stored(c, net))
      ELSE IF net < 0 /\ HasInflow(c, 0) /\ amount > charge
        THEN After(amount - charge, -net)
      ELSE IF net < 0 THEN After(amount, -net)
      ELSE Infinity

StoreWaste(s, c) ==
  LET net == NetCharge(s, c)
  IN  IF net > 0 THEN net - Stored(c, net) ELSE 0

RunStoresPostFinalization(s) ==
  LET Wasted(k) == StoreWaste(s, Connection[k].from)
      IsWaste(k) == /\ Connection[k].from \in Stores
                    /\ Connection[k].fromPort = WastePort(Connection[k].from)
      With(f) == [k \in Conn |-> IF IsWaste(k) THEN Wasted(k) ELSE f[k]]
  IN  [s EXCEPT !.req = With(s.req), !.avail = With(s.avail),
                !.actual = With(s.actual),
                !.event = [c \in Stores |-> StoreEventTime(s, c)]]

Finalize ==
  /\ pc = "finalize"
  /\ ss' = RunStoresPostFinalization(FinalizeFlows(ss))
  /\ IF EnableSwitchLogic /\ ~ rerun
       THEN pc' = "switches" /\ UNCHANGED loopIter
       ELSE pc' = "loop" /\ loopIter' = loopIter + 1
  /\ UNCHANGED <<model, t, todo, numTimes, rerun, timeAndFlows>>

-----------------------------------------------------------------------------
(* RunSwitchLogic: every switch at once, for each looks only at its own    *)
(* primary inflow.                                                         *)
PrimaryIsSufficient(c) == ss.avail[Inflow[c][0]] >= ss.req[Inflow[c][0]]

SwitchPosition(c) == IF PrimaryIsSufficient(c) THEN "Primary" ELSE "Secondary"

RunSwitchLogic ==
  LET moved == {c \in OfKind("Switch") : SwitchPosition(c) # ss.switch[c]}
  IN  /\ pc = "switches"
      /\ ss' = [ss EXCEPT
                  !.switch = [c \in OfKind("Switch") |-> SwitchPosition(c)],
                  !.back   = @ \cup {Outflow[c][0] : c \in moved},
                  !.front  = @ \cup {Inflow[c][p] : c \in moved, p \in {0, 1}}]
      /\ IF moved = {}
           THEN /\ pc' = "loop" /\ loopIter' = loopIter + 1
                /\ UNCHANGED <<numTimes, rerun>>
           ELSE /\ pc' = "backward" /\ rerun' = TRUE /\ numTimes' = 0
                /\ UNCHANGED loopIter
      /\ UNCHANGED <<model, t, todo, timeAndFlows>>

-----------------------------------------------------------------------------
(* The end of a time: the flows are recorded and the clock advances.       *)

Record ==
  /\ pc = "loop"
  /\ LoopEnds
  /\ timeAndFlows' =
       Append(timeAndFlows, [time |-> t, req |-> ss.req, avail |-> ss.avail,
                             actual |-> ss.actual, amount |-> ss.amount])
  /\ pc' = IF t = FinalTime THEN "done" ELSE "advance"
  /\ UNCHANGED <<model, ss, t, todo, numTimes, rerun, loopIter>>

(* A slip: the last entry is never reached.                                *)
NextScheduledButLast(schedule, i) ==
  IF i + 1 < Len(schedule) THEN {schedule[i + 1].time} ELSE {}

NextScheduled(schedule, i) ==
  IF i + 1 <= Len(schedule) THEN {schedule[i + 1].time} ELSE {}

Upcoming(i) ==
  {j \in DOMAIN model.rel[i].states : model.rel[i].states[j].time > t}

NextEvents ==
  (UNION {NextScheduled(model.load[c], ss.loadIdx[c]) : c \in Loads})
  \cup (UNION {NextScheduled(model.avail[c], ss.srcIdx[c]) : c \in Sources})
  \cup {ss.event[c] : c \in {d \in Stores : ss.event[d] > t}}
  \cup (UNION {{model.rel[i].states[j].time : j \in Upcoming(i)}
                : i \in DOMAIN model.rel})

(* llround of an elapsed time, in ticks, times a flow.                     *)
Energy(elapsed, flow) ==
  (2 * elapsed * flow + TicksPerSecond) \div (2 * TicksPerSecond)

(* A slip: what is wasted is stored as well.                               *)
NetEnergyAddedWithWaste(c, elapsed) ==
  (IF HasInflow(c, 0) THEN Energy(elapsed, ss.actual[Inflow[c][0]]) ELSE 0)
  - Energy(elapsed, ss.actual[Outflow[c][0]])

NetEnergyAdded(c, elapsed) ==
  (IF HasInflow(c, 0) THEN Energy(elapsed, ss.actual[Inflow[c][0]]) ELSE 0)
  - Energy(elapsed, ss.actual[Outflow[c][0]])
  - (IF HasOutflow(c, WastePort(c))
       THEN Energy(elapsed, ss.actual[Outflow[c][WastePort(c)]]) ELSE 0)

(* UpdateStoresPerElapsedTime; an unavailable store keeps what it holds.   *)
AmountAfter(c, elapsed) ==
  ss.amount[c] + (IF c \in ss.down THEN 0 ELSE NetEnergyAdded(c, elapsed))

(* The two assertions on the energy added, in a build that has them.       *)
AssertionsHold(elapsed) ==
  \A c \in Stores : AmountAfter(c, elapsed) \in 0 .. Part[c].capacity

(* A slip: the time of the current entry is looked at, not the next one's. *)
IndexAtCurrent(schedule, i, time) ==
  IF i + 1 <= Len(schedule) /\ schedule[i].time = time THEN i + 1 ELSE i

IndexAt(schedule, i, time) ==
  IF i + 1 <= Len(schedule) /\ schedule[i + 1].time = time THEN i + 1 ELSE i

Advance ==
  /\ pc = "advance"
  /\ \E next \in NextEvents \cup {FinalTime} :
       /\ \A other \in NextEvents \cup {FinalTime} : next <= other
       /\ IF AssertionsHold(next - t)
            THEN /\ ss' = [ss EXCEPT
                      !.amount  = [c \in Stores |-> AmountAfter(c, next - t)],
                      !.loadIdx = [c \in Loads |-> IndexAt(model.load[c], @[c], next)],
                      !.srcIdx  = [c \in Sources |-> IndexAt(model.avail[c], @[c], next)]]
                 /\ t' = next
                 /\ pc' = "reliability"
            ELSE /\ pc' = "assertionFailed"
                 /\ UNCHANGED <<ss, t>>
  /\ todo' = ItemsOf("reliability", t)
  /\ loopIter' = 0
  /\ UNCHANGED <<model, numTimes, rerun, timeAndFlows>>

-----------------------------------------------------------------------------
Init ==
  /\ model \in Models
  /\ ss = InitialState
  /\ t = 0
  /\ pc = "reliability"
  /\ todo = DOMAIN model.rel
  /\ numTimes = 0
  /\ rerun = FALSE
  /\ loopIter = 0
  /\ timeAndFlows = <<>>

Ended == pc \in {"done", "exited", "assertionFailed"}

Terminated == Ended /\ UNCHANGED vars

Next ==
  \/ \E i \in todo : ActivateReliability(i)
  \/ \E c \in todo : Activate(c)
  \/ NextPhase
  \/ BeginRun
  \/ TakeBackward \/ (\E k \in todo : StepBackward(k)) \/ EndBackward
  \/ TakeForward \/ (\E k \in todo : StepForward(k)) \/ EndForward
  \/ Finalize
  \/ RunSwitchLogic
  \/ Record
  \/ Advance
  \/ Terminated

(* Nothing can hold the program's only thread up.                          *)
Spec == Init /\ [][Next]_vars /\ WF_vars(Next)

=============================================================================
