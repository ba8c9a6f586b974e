-------------------------- MODULE SimulationProofs --------------------------
(***************************************************************************)
(* Type correctness of a simulation, for every network, every scenario and *)
(* every limit.  The handlers keep their types by HandlerProofs; what is   *)
(* left is that the loops of Simulate call them with arguments in range.   *)
(***************************************************************************)
EXTENDS SimulationProperties, HandlerProofs, FiniteSetTheorems, TLAPS

AmountsInRange == \A c \in Stores : ss.amount[c] \in 0 .. Part[c].capacity

(* What the loop in progress may still visit.                              *)
Visits ==
  IF pc \in {"backward", "forward"} THEN Conn ELSE ItemsOf(pc, 0)

VisitsInRange == pc \notin {"exited", "assertionFailed"} => todo \subseteq Visits

(* A pass that has begun is below its limit.                               *)
PassesInRange ==
  /\ pc \in {"backward", "forward"} => numTimes < MaxTimes
  /\ pc \in {"backward", "forward", "finalize", "switches"} => loopIter < MaxLoop

(* The inductive invariant: a type error in one handler would need an index*)
(* past the end of a schedule, an overfull store, or a component of the    *)
(* wrong kind to start from.                                               *)
IInv ==
  /\ TypeOK
  /\ IndicesInRange(model, ss)
  /\ AmountsInRange
  /\ VisitsInRange
  /\ PassesInRange

-----------------------------------------------------------------------------
(* What the invariant says of the parts the actions read.                  *)

(* The schedules of the model are ones the handlers can index.             *)
LEMMA ModelSchedules ==
  ASSUME model \in ModelType
  PROVE  /\ SchedulesOfFlows(model)
         /\ DOMAIN model.rel \subseteq Nat
         /\ \A i \in DOMAIN model.rel : model.rel[i].comp \in Comp
<1> DEFINE Entry  == [time : Nat, amount : Flow]
           States == Seq([time : Nat, state : BOOLEAN])
           Rel    == [comp : Comp, states : States]
<1>1. /\ model.load \in [Loads -> Schedule]
      /\ model.avail \in [Sources -> Schedule]
      /\ model.rel \in Seq(Rel)
  BY DEF ModelType
<1>2. Schedule \subseteq ScheduleOfFlows
  BY DEF Schedule, ScheduleOfFlows
<1>3. SchedulesOfFlows(model)
  BY <1>1, <1>2 DEF SchedulesOfFlows, Loads, Sources
<1>4. DOMAIN model.rel = 1 .. Len(model.rel) /\ DOMAIN model.rel \subseteq Nat
  <2> HIDE DEF Rel
  <2> QED
    BY <1>1
<1>5. \A i \in DOMAIN model.rel : model.rel[i] \in Rel
  <2> HIDE DEF Rel
  <2> QED
    BY <1>1, <1>4, EntryType
<1> QED
  BY <1>3, <1>4, <1>5

LEMMA StateTimesType ==
  ASSUME model \in ModelType, NEW i \in DOMAIN model.rel,
         NEW j \in DOMAIN model.rel[i].states
  PROVE  model.rel[i].states[j].time \in Nat
<1> DEFINE Entry == [time : Nat, state : BOOLEAN]
           Rel   == [comp : Comp, states : Seq(Entry)]
<1>1. model.rel \in Seq(Rel)
  BY DEF ModelType
<1>2. model.rel[i] \in Rel
  <2> HIDE DEF Rel
  <2> QED
    BY <1>1, EntryType
<1>3. model.rel[i].states \in Seq(Entry)
  BY <1>2
<1>4. model.rel[i].states[j] \in Entry
  <2> HIDE DEF Entry
  <2> QED
    BY <1>3, EntryType
<1> QED
  BY <1>4

(* Whatever a handler makes of the simulation state is in range again.     *)
LEMMA HandledInRange ==
  ASSUME IndicesInRange(model, ss), AmountsInRange, NEW r \in Kept(ss)
  PROVE  /\ r \in State
         /\ IndicesInRange(model, r)
         /\ \A c \in Stores : r.amount[c] \in 0 .. Part[c].capacity
  BY DEF Kept, IndicesInRange, AmountsInRange

(* A step of a loop: a handler runs and one item fewer is left to visit.   *)
LEMMA LoopStep ==
  ASSUME IInv, ss' \in Kept(ss), todo' \subseteq todo, pc' = pc,
         UNCHANGED <<model, t, numTimes, rerun, loopIter, timeAndFlows>>
  PROVE  IInv'
<1>1. /\ ss' \in State
      /\ IndicesInRange(model, ss')
      /\ \A c \in Stores : ss'.amount[c] \in 0 .. Part[c].capacity
  BY HandledInRange DEF IInv
<1>2. TypeOK'
  BY <1>1 DEF IInv, TypeOK
<1>3. IndicesInRange(model, ss)'
  BY <1>1 DEF IndicesInRange
<1>4. AmountsInRange'
  BY <1>1 DEF AmountsInRange
<1>5. VisitsInRange'
  BY DEF IInv, VisitsInRange, Visits, ItemsOf
<1>6. PassesInRange'
  BY DEF IInv, PassesInRange
<1> QED
  BY <1>2, <1>3, <1>4, <1>5, <1>6 DEF IInv

(* Where a loop may go from one place to another.                          *)
LEMMA VisitsOfPhases ==
  ASSUME IInv
  PROVE  /\ pc = "reliability" => todo \subseteq DOMAIN model.rel
         /\ pc = "loads" => todo \subseteq Loads
         /\ pc = "sources" => todo \subseteq Sources
         /\ pc = "stores" => todo \subseteq Stores
         /\ pc = "constantLoads" => todo \subseteq OfKind("ConstantLoad")
         /\ pc = "constantSources" => todo \subseteq OfKind("ConstantSource")
         /\ pc \in {"backward", "forward"} => todo \subseteq Conn
         /\ pc \in {"loop", "finalize", "switches", "advance", "done"}
              => todo = {}
  BY DEF IInv, VisitsInRange, Visits, ItemsOf

LEMMA ItemsInRange ==
  ASSUME model \in ModelType, NEW phase, NEW now
  PROVE  /\ ItemsOf(phase, now) \subseteq ItemsOf(phase, 0)
         /\ ItemsOf(phase, now) \subseteq Nat
<1>1. DOMAIN model.rel \subseteq Nat
  BY ModelSchedules
<1>2. \A kind : OfKind(kind) \subseteq Nat
  BY NetworkAssumption DEF OfKind
<1> QED
  BY <1>1, <1>2 DEF ItemsOf, Loads, Sources, Stores

-----------------------------------------------------------------------------
(* Activation.                                                             *)

LEMMA ScheduledLoadType ==
  ASSUME IInv, NEW c \in Loads
  PROVE  ScheduledLoadAt(c) \in Handled(ss)
<1>1. ss \in State /\ c \in Comp /\ Inflow[c][0] \in Conn
  BY KnownKind, InflowType DEF IInv, TypeOK, Loads, OfKind, WellConnected
<1>2. model.load[c] \in ScheduleOfFlows /\ ss.loadIdx[c] \in 1 .. Len(model.load[c])
  BY ModelSchedules DEF IInv, TypeOK, IndicesInRange, SchedulesOfFlows, Loads
<1>3. model.load[c][ss.loadIdx[c]].amount \in Flow
  BY <1>2, ScheduledAmount
<1>4. Request(ss, Inflow[c][0], model.load[c][ss.loadIdx[c]].amount) \in Handled(ss)
  BY <1>1, <1>3, RequestType
<1> QED
  BY <1>1, <1>4, HandledSelf DEF ScheduledLoadAt

LEMMA ScheduledSourceType ==
  ASSUME IInv, NEW c \in Sources
  PROVE  ScheduledSourceAt(c) \in Handled(ss)
<1> DEFINE available == AtMost(model.avail[c][ss.srcIdx[c]].amount,
                               Part[c].maxOutflow)
           out == Outflow[c][0]
<1>1. /\ ss \in State /\ c \in Comp /\ out \in Conn
      /\ Part[c].kind = "ScheduleBasedSource"
  BY KnownKind, OutflowType DEF IInv, TypeOK, Sources, OfKind, WellConnected
<1>2. model.avail[c] \in ScheduleOfFlows /\ ss.srcIdx[c] \in 1 .. Len(model.avail[c])
  BY ModelSchedules DEF IInv, TypeOK, IndicesInRange, SchedulesOfFlows, Sources
<1>3. available \in Flow
  <2>1. model.avail[c][ss.srcIdx[c]].amount \in Nat
    BY <1>2, ScheduledAmount, FlowIsNat
  <2>2. Part[c].maxOutflow \in Flow
    BY <1>1, LoadAndSourceParts
  <2> QED
    BY <2>1, <2>2, AtMostFlow
<1> HIDE DEF available
<1>4. Offer(ss, out, 0) \in Handled(ss)
  BY <1>1, FlowIsNat, OfferType
<1>5. Spill(Offer(ss, out, available), Outflow[c][WastePort(c)],
            Monus(available, ss.req[out])) \in Handled(ss)
  BY <1>1, <1>3, SupplyType
<1> QED
  BY <1>1, <1>4, <1>5, HandledSelf DEF ScheduledSourceAt, available

LEMMA StoreAtType ==
  ASSUME IInv, NEW c \in Stores
  PROVE  StoreAt(c) \in Handled(ss)
<1> DEFINE out     == Outflow[c][0]
           inZero  == IF HasInflow(c, 0) THEN Request(ss, Inflow[c][0], 0) ELSE ss
           offered == Offer(ss, out, StoreAvailable(ss, c))
<1>1. /\ ss \in State /\ c \in Comp /\ out \in Conn
      /\ Part[c].kind = "Store"
  BY KnownKind, OutflowType DEF IInv, TypeOK, Stores, OfKind, WellConnected
<1>2. inZero \in State /\ inZero \in Handled(ss)
  <2>1. HasInflow(c, 0) => Request(ss, Inflow[c][0], 0) \in Handled(ss)
    BY <1>1, InflowType, FlowIsNat, RequestType
  <2> QED
    BY <1>1, <2>1, HandledSelf DEF Handled
<1>3. offered \in State /\ offered \in Handled(ss)
  BY <1>1, StoreAvailableType, OfferType DEF Handled
<1> HIDE DEF inZero, offered, out
<1>4. Offer(inZero, out, 0) \in Handled(ss)
  BY <1>1, <1>2, FlowIsNat, OfferType, HandledTwice
<1>5. RunStoreBackward(offered, c) \in Handled(ss)
  BY <1>1, <1>3, StoreType, HandledTwice
<1>6. StoreAt(c) = IF c \in ss.down THEN Offer(inZero, out, 0)
                   ELSE IF ss.event[c] = t \/ ~ HasInflow(c, 0)
                     THEN RunStoreBackward(offered, c)
                     ELSE ss
  BY DEF StoreAt, inZero, offered, out
<1> QED
  BY <1>1, <1>4, <1>5, <1>6, HandledSelf

LEMMA ConstantSourceType ==
  ASSUME IInv, NEW c \in OfKind("ConstantSource")
  PROVE  ConstantSourceAt(c) \in Handled(ss)
<1>1. ss \in State /\ c \in Comp /\ Outflow[c][0] \in Conn
  BY KnownKind, OutflowType DEF IInv, TypeOK, OfKind, WellConnected
<1>2. Part[c].available \in Flow
  BY LoadAndSourceParts DEF OfKind
<1> QED
  BY <1>1, <1>2, FlowIsNat, OfferType DEF ConstantSourceAt

LEMMA ActivateHandles ==
  ASSUME IInv, NEW c \in todo, Activate(c)
  PROVE  ss' \in Handled(ss)
<1>1. CASE pc = "loads" /\ ss' = ScheduledLoadAt(c)
  BY <1>1, VisitsOfPhases, ScheduledLoadType
<1>2. CASE pc = "sources" /\ ss' = ScheduledSourceAt(c)
  BY <1>2, VisitsOfPhases, ScheduledSourceType
<1>3. CASE pc = "stores" /\ ss' = StoreAt(c)
  BY <1>3, VisitsOfPhases, StoreAtType
<1>4. CASE pc = "constantLoads" /\ ss' = Request(ss, Inflow[c][0], Part[c].load)
  <2>1. c \in OfKind("ConstantLoad")
    BY <1>4, VisitsOfPhases
  <2>2. ss \in State /\ Inflow[c][0] \in Conn /\ Part[c].load \in Flow
    BY <2>1, KnownKind, InflowType, LoadAndSourceParts
       DEF IInv, TypeOK, OfKind, WellConnected
  <2> QED
    BY <1>4, <2>2, RequestType
<1>5. CASE pc = "constantSources" /\ ss' = ConstantSourceAt(c)
  BY <1>5, VisitsOfPhases, ConstantSourceType
<1> QED
  BY <1>1, <1>2, <1>3, <1>4, <1>5 DEF Activate

LEMMA ActivateKeepsIInv ==
  ASSUME IInv, NEW c \in todo, Activate(c)
  PROVE  IInv'
  BY ActivateHandles, HandledIsKept, LoopStep DEF Activate

LEMMA ActivateReliabilityKeeps ==
  ASSUME IInv, NEW i \in todo, ActivateReliability(i)
  PROVE  ss' \in Kept(ss)
<1>1. /\ i \in DOMAIN model.rel /\ model.rel[i].comp \in Comp /\ ss \in State
      /\ SchedulesOfFlows(model) /\ IndicesInRange(model, ss)
  BY VisitsOfPhases, ModelSchedules DEF ActivateReliability, IInv, TypeOK
<1>2. CASE UNCHANGED ss
  BY <1>1, <1>2 DEF Kept
<1>3. CASE ss' = SetComponentToFailed(ss, model.rel[i].comp)
  BY <1>1, <1>3, FailedType
<1>4. CASE \E k \in RepairedLoadConns(model.rel[i].comp) :
             ss' = SetComponentToRepaired(model, ss, model.rel[i].comp, k)
  BY <1>1, <1>4, RepairedType
<1> QED
  BY <1>2, <1>3, <1>4 DEF ActivateReliability

LEMMA ActivateReliabilityKeepsIInv ==
  ASSUME IInv, NEW i \in todo, ActivateReliability(i)
  PROVE  IInv'
<1>1. ss' \in Kept(ss)
  BY ActivateReliabilityKeeps
<1>2. /\ UNCHANGED <<model, t, numTimes, rerun, loopIter, timeAndFlows>>
      /\ \/ todo' = todo \ {i} /\ UNCHANGED pc
         \/ pc' = "exited" /\ UNCHANGED <<ss, todo>>
  BY DEF ActivateReliability
<1>3. CASE todo' = todo \ {i} /\ UNCHANGED pc
  BY <1>1, <1>2, <1>3, LoopStep
<1>4. CASE pc' = "exited" /\ UNCHANGED <<ss, todo>>
  BY <1>2, <1>4 DEF IInv, TypeOK, IndicesInRange, AmountsInRange, VisitsInRange,
                    PassesInRange
<1> QED
  BY <1>2, <1>3, <1>4

(* A step that goes from one place of Simulate to another and changes at   *)
(* most the counters of the solver.                                        *)
LEMMA MoveOn ==
  ASSUME IInv, UNCHANGED <<model, ss, t, timeAndFlows>>,
         pc' \in DOMAIN PhaseAfter \cup {"loop", "backward", "forward", "finalize"},
         rerun' \in BOOLEAN, numTimes' \in 0 .. MaxTimes, loopIter' \in 0 .. MaxLoop,
         VisitsInRange', PassesInRange', todo' \subseteq Nat
  PROVE  IInv'
  BY DEF IInv, TypeOK, IndicesInRange, AmountsInRange

LEMMA NextPhaseKeepsIInv ==
  ASSUME IInv, NextPhase
  PROVE  IInv'
<1>1. pc' \in DOMAIN PhaseAfter \cup {"loop"} /\ pc' \notin {"backward", "forward"}
  BY DEF NextPhase, PhaseAfter
<1>2. todo' \subseteq ItemsOf(pc', 0) /\ todo' \subseteq Nat
  BY ItemsInRange DEF NextPhase, IInv, TypeOK
<1>3. VisitsInRange'
  BY <1>1, <1>2 DEF VisitsInRange, Visits, ItemsOf, NextPhase
<1>4. PassesInRange'
  BY <1>1 DEF PassesInRange, PhaseAfter
<1> QED
  BY <1>1, <1>2, <1>3, <1>4, MoveOn DEF NextPhase, IInv, TypeOK

-----------------------------------------------------------------------------
(* The passes.                                                             *)

LEMMA BeginRunKeepsIInv ==
  ASSUME IInv, BeginRun
  PROVE  IInv'
<1>1. todo' = {} /\ pc' = "backward" /\ rerun' \in BOOLEAN
  BY VisitsOfPhases DEF BeginRun
<1>2. VisitsInRange'
  BY <1>1 DEF VisitsInRange
<1>3. MaxTimes \in Nat \ {0} /\ MaxLoop \in Nat
  BY SimulationAssumption
<1>4. PassesInRange'
  BY <1>3 DEF BeginRun, LoopEnds, PassesInRange, IInv, TypeOK
<1>5. numTimes' \in 0 .. MaxTimes /\ loopIter' \in 0 .. MaxLoop
  BY <1>3 DEF BeginRun, IInv, TypeOK
<1> QED
  BY <1>1, <1>2, <1>4, <1>5, MoveOn DEF BeginRun

LEMMA TakeHandles ==
  ASSUME IInv, TakeBackward \/ TakeForward
  PROVE  ss' \in Handled(ss) /\ todo' \subseteq Conn
  BY DEF IInv, TypeOK, TakeBackward, TakeForward, Handled, State

LEMMA TakeKeepsIInv ==
  ASSUME IInv, TakeBackward \/ TakeForward
  PROVE  IInv'
<1>1. ss' \in Handled(ss) /\ todo' \subseteq Conn
  BY TakeHandles
<1>2. /\ ss' \in State
      /\ IndicesInRange(model, ss')
      /\ \A c \in Stores : ss'.amount[c] \in 0 .. Part[c].capacity
  BY <1>1, HandledIsKept, HandledInRange DEF IInv
<1>3. /\ UNCHANGED <<model, t, pc, numTimes, rerun, loopIter, timeAndFlows>>
      /\ pc \in {"backward", "forward"}
  BY DEF TakeBackward, TakeForward
<1>4. todo' \subseteq Nat
  BY <1>1, NetworkAssumption
<1>5. TypeOK'
  BY <1>2, <1>3, <1>4 DEF IInv, TypeOK
<1>6. IndicesInRange(model, ss)' /\ AmountsInRange'
  BY <1>2, <1>3 DEF IndicesInRange, AmountsInRange
<1>7. VisitsInRange' /\ PassesInRange'
  BY <1>1, <1>3 DEF IInv, VisitsInRange, Visits, PassesInRange
<1> QED
  BY <1>5, <1>6, <1>7 DEF IInv

LEMMA StepHandles ==
  ASSUME IInv, NEW k \in todo, StepBackward(k) \/ StepForward(k)
  PROVE  ss' \in Handled(ss)
<1>1. k \in Conn
  BY VisitsOfPhases DEF StepBackward, StepForward
<1>2. Connection[k].from \in Comp /\ Connection[k].to \in Comp
  BY <1>1, ConnectionEnds
<1>3. ss \in State /\ SchedulesOfFlows(model) /\ IndicesInRange(model, ss)
  BY ModelSchedules DEF IInv, TypeOK
<1>4. RunBackward(model, ss, k) \in Handled(ss) /\ RunForward(ss, k) \in Handled(ss)
  BY <1>1, <1>3, RunBackwardType, RunForwardType
<1>5. \A c \in Comp : c \in ss.down => SetComponentToFailed(ss, c) \in Handled(ss)
  <2> SUFFICES ASSUME NEW c \in Comp, c \in ss.down
               PROVE  SetComponentToFailed(ss, c) \in Handled(ss)
    OBVIOUS
  <2>1. /\ SetComponentToFailed(ss, c) \in Kept(ss)
        /\ SetComponentToFailed(ss, c).down = ss.down \cup {c}
    BY <1>3, FailedType
  <2>2. ss.down \cup {c} = ss.down
    OBVIOUS
  <2> QED
    BY <2>1, <2>2 DEF Kept, Handled
<1> QED
  BY <1>2, <1>4, <1>5 DEF StepBackward, StepForward

LEMMA StepKeepsIInv ==
  ASSUME IInv, NEW k \in todo, StepBackward(k) \/ StepForward(k)
  PROVE  IInv'
  BY StepHandles, HandledIsKept, LoopStep DEF StepBackward, StepForward

LEMMA EndKeepsIInv ==
  ASSUME IInv, EndBackward \/ EndForward
  PROVE  IInv'
<1>1. todo' = {} /\ UNCHANGED <<model, ss, t, rerun, loopIter, timeAndFlows>>
  BY DEF EndBackward, EndForward
<1> rerun' \in BOOLEAN
  BY <1>1 DEF IInv, TypeOK
<1>2. VisitsInRange'
  BY <1>1 DEF VisitsInRange
<1>3. MaxTimes \in Nat \ {0} /\ MaxLoop \in Nat
  BY SimulationAssumption
<1>4. /\ numTimes \in 0 .. MaxTimes /\ numTimes < MaxTimes
      /\ loopIter \in 0 .. MaxLoop /\ loopIter < MaxLoop
  BY DEF IInv, TypeOK, PassesInRange, EndBackward, EndForward
<1>5. /\ pc' \in {"forward", "backward", "finalize"}
      /\ pc' # "finalize" => numTimes' < MaxTimes
      /\ numTimes' \in 0 .. MaxTimes
  BY <1>3, <1>4 DEF EndBackward, EndForward
<1>6. PassesInRange'
  BY <1>1, <1>4, <1>5 DEF PassesInRange
<1> QED
  BY <1>1, <1>2, <1>4, <1>5, <1>6, MoveOn

-----------------------------------------------------------------------------
(* FinalizeFlows and RunStorePostFinalization.                             *)

LEMMA FinalizeFlowsType ==
  ASSUME NEW s \in State
  PROVE  FinalizeFlows(s) \in Handled(s)
<1> DEFINE actual == [k \in Conn |-> FinalizeFlowValue(s.req[k], s.avail[k])]
<1>1. actual \in [Conn -> Flow]
  BY FlowsOfState, FinalizeFlowValueFlow
<1>2. FinalizeFlows(s) = [s EXCEPT !.actual = actual]
  BY DEF FinalizeFlows
<1> HIDE DEF actual
<1>3. [s EXCEPT !.actual = actual] \in Handled(s)
  BY <1>1 DEF Handled, State
<1> QED
  BY <1>2, <1>3

(* The net charge of a store never exceeds its inflow, so what is stored   *)
(* and what is wasted of it are flows.                                     *)
LEMMA NetChargeType ==
  ASSUME NEW s \in State, NEW c \in Stores
  PROVE  /\ NetCharge(s, c) \in Int
         /\ NetCharge(s, c) > 0 => NetCharge(s, c) \in Flow
<1> DEFINE in  == IF HasInflow(c, 0) THEN s.actual[Inflow[c][0]] ELSE 0
           out == s.actual[Outflow[c][0]]
<1>1. c \in Comp /\ Outflow[c][0] \in Conn
  BY KnownKind, OutflowType DEF Stores, OfKind, WellConnected
<1>2. out \in Flow
  BY <1>1, FlowsOfState
<1>3. in \in Flow
  BY <1>1, InflowType, FlowsOfState, FlowIsNat
<1>4. NetCharge(s, c) = in - out
  BY DEF NetCharge
<1> HIDE DEF in, out
<1> QED
  BY <1>2, <1>3, <1>4, FlowAssumption DEF Flow

LEMMA StoredType ==
  ASSUME NEW c \in Stores, NEW net \in Nat
  PROVE  Stored(c, net) \in 0 .. net
<1> DEFINE num == Part[c].roundTrip.num
           den == Part[c].roundTrip.den
<1>1. num \in Nat \ {0} /\ den \in Nat \ {0} /\ num <= den
  <2>1. c \in Comp /\ Part[c].kind = "Store" /\ Part[c] \in PartOfKind["Store"]
    BY NetworkAssumption DEF Stores, OfKind
  <2>2. Part[c].roundTrip \in Ratio
    BY <2>1 DEF PartOfKind
  <2>3. ValidStore(c)
    BY <2>1, NetworkAssumption
  <2> QED
    BY <2>2, <2>3 DEF Ratio, ValidStore
<1>2. Stored(c, net) = net \/ Stored(c, net) = (net * num) \div den
  BY DEF Stored
<1> HIDE DEF num, den
<1>3. (net * num) \div den \in 0 .. net
  <2>1. net * num \in Nat /\ net * num <= net * den
    BY <1>1
  <2>2. (net * num) \div den <= (net * den) \div den
    BY <1>1, <2>1
  <2>3. (net * den) \div den = net
    BY <1>1
  <2>4. (net * num) \div den \in Nat
    BY <1>1, <2>1, DivNat
  <2> QED
    BY <2>2, <2>3, <2>4
<1> QED
  BY <1>2, <1>3

LEMMA AfterType ==
  ASSUME t \in Nat, NEW energy \in Nat, NEW rate \in Nat
  PROVE  After(energy, rate) \in Nat \cup {Infinity}
<1>1. TicksPerSecond \in Nat
  BY NetworkAssumption
<1>2. CASE rate = 0
  BY <1>2 DEF After
<1>3. CASE rate # 0
  <2>1. energy * TicksPerSecond \in Nat
    BY <1>1
  <2>2. (energy * TicksPerSecond) \div rate \in Nat
    BY <1>3, <2>1, DivNat
  <2> QED
    BY <1>3, <2>2 DEF After
<1> QED
  BY <1>2, <1>3

LEMMA StoreEventType ==
  ASSUME t \in Nat, NEW s \in State, NEW c \in Stores,
         s.amount[c] \in 0 .. Part[c].capacity
  PROVE  StoreEventTime(s, c) \in Nat \cup {Infinity}
<1> DEFINE net      == NetCharge(s, c)
           amount   == s.amount[c]
           charge   == Part[c].chargeAmount
           capacity == Part[c].capacity
<1>1. capacity \in Nat /\ charge \in Nat
  BY StoreParts DEF Stores, OfKind
<1>2. net \in Int /\ amount \in 0 .. capacity
  BY NetChargeType
<1>3. net > 0 => After(capacity - amount, Stored(c, net)) \in Nat \cup {Infinity}
  <2>1. SUFFICES ASSUME net > 0
        PROVE  After(capacity - amount, Stored(c, net)) \in Nat \cup {Infinity}
    OBVIOUS
  <2> HIDE DEF net, amount, capacity
  <2>2. Stored(c, net) \in 0 .. net
    BY <1>2, <2>1, StoredType
  <2>3. capacity - amount \in Nat /\ Stored(c, net) \in Nat
    BY <1>1, <1>2, <2>1, <2>2
  <2> QED
    BY <2>3, AfterType
<1>4. net < 0 /\ amount > charge =>
        After(amount - charge, -net) \in Nat \cup {Infinity}
  <2>1. SUFFICES ASSUME net < 0, amount > charge
        PROVE  After(amount - charge, -net) \in Nat \cup {Infinity}
    OBVIOUS
  <2> HIDE DEF net, amount, charge, capacity
  <2>2. amount - charge \in Nat /\ -net \in Nat
    BY <1>1, <1>2, <2>1
  <2> QED
    BY <2>2, AfterType
<1>5. net < 0 => After(amount, -net) \in Nat \cup {Infinity}
  <2>1. SUFFICES ASSUME net < 0
        PROVE  After(amount, -net) \in Nat \cup {Infinity}
    OBVIOUS
  <2> HIDE DEF net, amount, capacity
  <2>2. amount \in Nat /\ -net \in Nat
    BY <1>1, <1>2, <2>1
  <2> QED
    BY <2>2, AfterType
<1>6. StoreEventTime(s, c) =
        IF net > 0 THEN After(capacity - amount, Stored(c, net))
        ELSE IF net < 0 /\ HasInflow(c, 0) /\ amount > charge
          THEN After(amount - charge, -net)
        ELSE IF net < 0 THEN After(amount, -net)
        ELSE Infinity
  BY DEF StoreEventTime
<1> HIDE DEF net, amount, charge, capacity
<1> QED
  BY <1>3, <1>4, <1>5, <1>6

LEMMA StoreWasteType ==
  ASSUME NEW s \in State, NEW c \in Stores
  PROVE  StoreWaste(s, c) \in Flow
<1> DEFINE net == NetCharge(s, c)
<1>1. CASE net > 0
  <2>1. net \in Flow /\ net \in Nat
    BY <1>1, NetChargeType, FlowIsNat
  <2>2. Stored(c, net) \in 0 .. net
    BY <2>1, StoredType
  <2>3. StoreWaste(s, c) = net - Stored(c, net)
    BY <1>1 DEF StoreWaste
  <2> HIDE DEF net
  <2> QED
    BY <2>1, <2>2, <2>3, FlowAssumption DEF Flow
<1>2. CASE ~ (net > 0)
  BY <1>2, FlowIsNat DEF StoreWaste
<1> QED
  BY <1>1, <1>2

LEMMA PostFinalizationType ==
  ASSUME t \in Nat, NEW s \in State,
         \A c \in Stores : s.amount[c] \in 0 .. Part[c].capacity
  PROVE  RunStoresPostFinalization(s) \in Handled(s)
<1> DEFINE Wasted(k) == StoreWaste(s, Connection[k].from)
           IsWaste(k) == /\ Connection[k].from \in Stores
                         /\ Connection[k].fromPort = WastePort(Connection[k].from)
           With(f) == [k \in Conn |-> IF IsWaste(k) THEN Wasted(k) ELSE f[k]]
           req    == With(s.req)
           avail  == With(s.avail)
           actual == With(s.actual)
           event  == [c \in Stores |-> StoreEventTime(s, c)]
<1>1. \A k \in Conn : IsWaste(k) => Wasted(k) \in Flow
  BY StoreWasteType
<1> HIDE DEF Wasted, IsWaste
<1>2. req \in [Conn -> Flow] /\ avail \in [Conn -> Flow] /\ actual \in [Conn -> Flow]
  BY <1>1, FlowsOfState
<1>3. event \in [Stores -> Nat \cup {Infinity}]
  BY StoreEventType
<1>4. RunStoresPostFinalization(s) =
        [s EXCEPT !.req = req, !.avail = avail, !.actual = actual, !.event = event]
  BY DEF RunStoresPostFinalization, Wasted, IsWaste
<1> HIDE DEF req, avail, actual, event
<1>5. [s EXCEPT !.req = req, !.avail = avail, !.actual = actual, !.event = event]
        \in Handled(s)
  BY <1>2, <1>3 DEF Handled, State, Stores
<1> QED
  BY <1>4, <1>5

(* A step that leaves the indices and the amounts alone, with nothing left *)
(* to visit.                                                               *)
LEMMA HandledStep ==
  ASSUME IInv, ss' \in Handled(ss), todo' = {}, UNCHANGED <<model, t>>,
         pc' \in {"loop", "backward", "switches", "advance", "done"},
         numTimes' \in 0 .. MaxTimes, rerun' \in BOOLEAN,
         loopIter' \in 0 .. MaxLoop, timeAndFlows' \in Seq(Snapshot),
         PassesInRange'
  PROVE  IInv'
<1>1. /\ ss' \in State
      /\ IndicesInRange(model, ss')
      /\ \A c \in Stores : ss'.amount[c] \in 0 .. Part[c].capacity
  BY HandledIsKept, HandledInRange DEF IInv
<1>2. TypeOK'
  BY <1>1 DEF IInv, TypeOK
<1>3. IndicesInRange(model, ss)' /\ AmountsInRange'
  BY <1>1 DEF IndicesInRange, AmountsInRange
<1>4. VisitsInRange'
  BY DEF VisitsInRange
<1> QED
  BY <1>2, <1>3, <1>4 DEF IInv

LEMMA FinalizeHandles ==
  ASSUME IInv, Finalize
  PROVE  ss' \in Handled(ss)
<1> DEFINE f == FinalizeFlows(ss)
<1>1. ss \in State /\ t \in Nat
  BY DEF IInv, TypeOK
<1>2. f \in State /\ f \in Handled(ss)
  BY <1>1, FinalizeFlowsType DEF Handled
<1>3. \A c \in Stores : f.amount[c] \in 0 .. Part[c].capacity
  BY <1>2 DEF Handled, IInv, AmountsInRange
<1> HIDE DEF f
<1>4. RunStoresPostFinalization(f) \in Handled(f)
  BY <1>1, <1>2, <1>3, PostFinalizationType
<1> QED
  BY <1>2, <1>4, HandledTwice DEF Finalize, f

LEMMA FinalizeKeepsIInv ==
  ASSUME IInv, Finalize
  PROVE  IInv'
<1>1. ss' \in Handled(ss)
  BY FinalizeHandles
<1>2. MaxLoop \in Nat
  BY SimulationAssumption
<1>3. loopIter \in 0 .. MaxLoop /\ loopIter < MaxLoop
  BY DEF Finalize, IInv, TypeOK, PassesInRange
<1>4. /\ loopIter' \in 0 .. MaxLoop
      /\ pc' \in {"loop", "switches"}
      /\ pc' = "switches" => loopIter' < MaxLoop
  BY <1>2, <1>3 DEF Finalize
<1>5. todo' = {}
  BY VisitsOfPhases DEF Finalize
<1>6. PassesInRange'
  BY <1>4 DEF PassesInRange
<1>7. /\ UNCHANGED <<model, t>> /\ numTimes' \in 0 .. MaxTimes
      /\ rerun' \in BOOLEAN /\ timeAndFlows' \in Seq(Snapshot)
  BY DEF Finalize, IInv, TypeOK
<1> QED
  BY <1>1, <1>4, <1>5, <1>6, <1>7, HandledStep

-----------------------------------------------------------------------------
(* Switches and the end of a time.                                         *)

LEMMA RunSwitchLogicHandles ==
  ASSUME IInv, RunSwitchLogic
  PROVE  ss' \in Handled(ss)
<1> DEFINE moved  == {c \in OfKind("Switch") : SwitchPosition(c) # ss.switch[c]}
           switch == [c \in OfKind("Switch") |-> SwitchPosition(c)]
           back   == ss.back \cup {Outflow[c][0] : c \in moved}
           front  == ss.front \cup {Inflow[c][p] : c \in moved, p \in {0, 1}}
<1>1. ss \in State
  BY DEF IInv, TypeOK
<1>2. switch \in [OfKind("Switch") -> {"Primary", "Secondary"}]
  BY DEF SwitchPosition
<1>3. \A c \in moved : /\ Outflow[c][0] \in Conn
                       /\ Inflow[c][0] \in Conn /\ Inflow[c][1] \in Conn
  BY KnownKind, OutflowType, InflowType DEF OfKind, WellConnected
<1>4. back \subseteq Conn /\ front \subseteq Conn
  BY <1>1, <1>3 DEF State
<1>5. ss' = [ss EXCEPT !.switch = switch, !.back = back, !.front = front]
  BY DEF RunSwitchLogic
<1> HIDE DEF switch, back, front
<1>6. [ss EXCEPT !.switch = switch, !.back = back, !.front = front] \in Handled(ss)
  BY <1>1, <1>2, <1>4 DEF Handled, State
<1> QED
  BY <1>5, <1>6

LEMMA RunSwitchLogicKeepsIInv ==
  ASSUME IInv, RunSwitchLogic
  PROVE  IInv'
<1>1. ss' \in Handled(ss)
  BY RunSwitchLogicHandles
<1>2. MaxLoop \in Nat /\ MaxTimes \in Nat \ {0}
  BY SimulationAssumption
<1>3. /\ loopIter \in 0 .. MaxLoop /\ loopIter < MaxLoop
      /\ numTimes \in 0 .. MaxTimes /\ rerun \in BOOLEAN
  BY DEF RunSwitchLogic, IInv, TypeOK, PassesInRange
<1>4. \/ pc' = "loop" /\ loopIter' = loopIter + 1 /\ UNCHANGED <<numTimes, rerun>>
      \/ /\ pc' = "backward" /\ rerun' = TRUE /\ numTimes' = 0
         /\ UNCHANGED loopIter
  BY DEF RunSwitchLogic
<1>5. /\ loopIter' \in 0 .. MaxLoop /\ numTimes' \in 0 .. MaxTimes
      /\ pc' \in {"loop", "backward"}
      /\ pc' = "backward" => loopIter' < MaxLoop /\ numTimes' < MaxTimes
  BY <1>2, <1>3, <1>4
<1>6. rerun' \in BOOLEAN
  BY <1>3, <1>4
<1>7. PassesInRange'
  BY <1>5 DEF PassesInRange
<1>8. todo' = {}
  BY VisitsOfPhases DEF RunSwitchLogic
<1>9. UNCHANGED <<model, t>> /\ timeAndFlows' \in Seq(Snapshot)
  BY DEF RunSwitchLogic, IInv, TypeOK
<1> QED
  BY <1>1, <1>5, <1>6, <1>7, <1>8, <1>9, HandledStep

LEMMA RecordKeepsIInv ==
  ASSUME IInv, Record
  PROVE  IInv'
<1> DEFINE entry == [time |-> t, req |-> ss.req, avail |-> ss.avail,
                     actual |-> ss.actual, amount |-> ss.amount]
<1>1. ss \in State /\ t \in Nat
  BY DEF IInv, TypeOK
<1>2. entry \in Snapshot
  BY <1>1 DEF Snapshot, State, Stores
<1>3. timeAndFlows' = Append(timeAndFlows, entry)
  BY DEF Record
<1> HIDE DEF entry
<1>4. timeAndFlows' \in Seq(Snapshot)
  <2> HIDE DEF Snapshot
  <2> QED
    BY <1>2, <1>3 DEF IInv, TypeOK
<1>5. ss' \in Handled(ss)
  BY <1>1, HandledSelf DEF Record
<1>6. todo' = {}
  BY VisitsOfPhases DEF Record
<1>7. PassesInRange' /\ pc' \in {"advance", "done"}
  BY DEF Record, PassesInRange
<1>8. /\ UNCHANGED <<model, t>> /\ numTimes' \in 0 .. MaxTimes
      /\ rerun' \in BOOLEAN /\ loopIter' \in 0 .. MaxLoop
  BY DEF Record, IInv, TypeOK
<1> QED
  BY <1>4, <1>5, <1>6, <1>7, <1>8, HandledStep

(* Every time something is due at is a time: a store that is due never is  *)
(* not among them.                                                         *)
LEMMA NextEventsType ==
  ASSUME IInv
  PROVE  NextEvents \cup {FinalTime} \subseteq Nat
<1>1. \A c \in Loads : NextScheduled(model.load[c], ss.loadIdx[c]) \subseteq Nat
  <2> TAKE c \in Loads
  <2>1. model.load[c] \in ScheduleOfFlows /\ ss.loadIdx[c] \in Nat
    BY ModelSchedules DEF IInv, TypeOK, IndicesInRange, SchedulesOfFlows, Loads
  <2>2. ss.loadIdx[c] + 1 <= Len(model.load[c]) =>
          model.load[c][ss.loadIdx[c] + 1].time \in Nat
    <3>1. Len(model.load[c]) \in Nat
      BY <2>1 DEF ScheduleOfFlows
    <3> QED
      BY <2>1, <3>1, ScheduledAmount
  <2> QED
    BY <2>2 DEF NextScheduled
<1>2. \A c \in Sources : NextScheduled(model.avail[c], ss.srcIdx[c]) \subseteq Nat
  <2> TAKE c \in Sources
  <2>1. model.avail[c] \in ScheduleOfFlows /\ ss.srcIdx[c] \in Nat
    BY ModelSchedules DEF IInv, TypeOK, IndicesInRange, SchedulesOfFlows, Sources
  <2>2. ss.srcIdx[c] + 1 <= Len(model.avail[c]) =>
          model.avail[c][ss.srcIdx[c] + 1].time \in Nat
    <3>1. Len(model.avail[c]) \in Nat
      BY <2>1 DEF ScheduleOfFlows
    <3> QED
      BY <2>1, <3>1, ScheduledAmount
  <2> QED
    BY <2>2 DEF NextScheduled
<1>3. \A c \in Stores : ss.event[c] > t => ss.event[c] \in Nat
  BY DEF IInv, TypeOK, State, Stores, Infinity
<1>4. \A i \in DOMAIN model.rel : \A j \in DOMAIN model.rel[i].states :
        model.rel[i].states[j].time \in Nat
  BY StateTimesType DEF IInv, TypeOK
<1>5. FinalTime \in Nat
  BY SimulationAssumption
<1> QED
  BY <1>1, <1>2, <1>3, <1>4, <1>5 DEF NextEvents, Upcoming

LEMMA IndexAtType ==
  ASSUME NEW schedule \in ScheduleOfFlows, NEW i \in 1 .. Len(schedule), NEW time
  PROVE  IndexAt(schedule, i, time) \in 1 .. Len(schedule)
<1>1. Len(schedule) \in Nat
  BY DEF ScheduleOfFlows
<1> QED
  BY <1>1 DEF IndexAt

LEMMA AdvanceKeepsIInv ==
  ASSUME IInv, Advance
  PROVE  IInv'
<1>1. PICK next \in NextEvents \cup {FinalTime} :
        IF AssertionsHold(next - t)
          THEN /\ ss' = [ss EXCEPT
                    !.amount  = [c \in Stores |-> AmountAfter(c, next - t)],
                    !.loadIdx = [c \in Loads |-> IndexAt(model.load[c], @[c], next)],
                    !.srcIdx  = [c \in Sources |-> IndexAt(model.avail[c], @[c], next)]]
               /\ t' = next
               /\ pc' = "reliability"
          ELSE /\ pc' = "assertionFailed"
               /\ UNCHANGED <<ss, t>>
  BY DEF Advance
<1>2. next \in Nat
  BY NextEventsType
<1>3. /\ ss \in State /\ t \in Nat /\ model \in ModelType /\ IndicesInRange(model, ss)
      /\ SchedulesOfFlows(model)
  BY ModelSchedules DEF IInv, TypeOK
<1>4. /\ UNCHANGED <<model, numTimes, rerun, timeAndFlows>>
      /\ todo' = ItemsOf("reliability", t) /\ loopIter' = 0
  BY DEF Advance
<1>5. todo' \subseteq Nat /\ todo' = DOMAIN model.rel
  BY <1>3, <1>4, ModelSchedules DEF ItemsOf
<1>6. loopIter' \in 0 .. MaxLoop
  BY <1>4, SimulationAssumption
<1>7. CASE AssertionsHold(next - t)
  <2> DEFINE amount  == [c \in Stores |-> AmountAfter(c, next - t)]
             loadIdx == [c \in Loads |-> IndexAt(model.load[c], ss.loadIdx[c], next)]
             srcIdx  == [c \in Sources |-> IndexAt(model.avail[c], ss.srcIdx[c], next)]
  <2>1. ss' = [ss EXCEPT !.amount = amount, !.loadIdx = loadIdx, !.srcIdx = srcIdx]
    BY <1>1, <1>7
  <2>2. \A c \in Stores : amount[c] \in 0 .. Part[c].capacity
    BY <1>7 DEF AssertionsHold
  <2>3. amount \in [Stores -> Int]
    <3>1. \A c \in Stores : Part[c].capacity \in Nat
      BY StoreParts DEF Stores, OfKind
    <3>2. \A c \in Stores : amount[c] \in Int
      BY <2>2, <3>1
    <3>3. \A c \in Stores : AmountAfter(c, next - t) \in Int
      BY <3>2
    <3> QED
      BY <3>3
  <2>4. \A c \in Loads : loadIdx[c] \in 1 .. Len(model.load[c])
    <3> TAKE c \in Loads
    <3>1. /\ model.load[c] \in ScheduleOfFlows
          /\ ss.loadIdx[c] \in 1 .. Len(model.load[c])
      BY <1>3 DEF IndicesInRange, SchedulesOfFlows, Loads
    <3> QED
      BY <3>1, IndexAtType
  <2>5. \A c \in Sources : srcIdx[c] \in 1 .. Len(model.avail[c])
    <3> TAKE c \in Sources
    <3>1. /\ model.avail[c] \in ScheduleOfFlows
          /\ ss.srcIdx[c] \in 1 .. Len(model.avail[c])
      BY <1>3 DEF IndicesInRange, SchedulesOfFlows, Sources
    <3> QED
      BY <3>1, IndexAtType
  <2>6. loadIdx \in [Loads -> Nat \ {0}] /\ srcIdx \in [Sources -> Nat \ {0}]
    <3>1. /\ \A c \in Loads : Len(model.load[c]) \in Nat
          /\ \A c \in Sources : Len(model.avail[c]) \in Nat
      BY <1>3 DEF SchedulesOfFlows, ScheduleOfFlows, Loads, Sources
    <3>2. \A c \in Loads : loadIdx[c] \in Nat \ {0}
      BY <2>4, <3>1
    <3>3. \A c \in Sources : srcIdx[c] \in Nat \ {0}
      BY <2>5, <3>1
    <3>4. /\ loadIdx = [c \in Loads |-> loadIdx[c]]
          /\ srcIdx = [c \in Sources |-> srcIdx[c]]
      OBVIOUS
    <3> HIDE DEF loadIdx, srcIdx
    <3> QED
      BY <3>2, <3>3, <3>4
  <2> HIDE DEF amount, loadIdx, srcIdx
  <2>7. ss' \in State /\ ss'.amount = amount /\ ss'.loadIdx = loadIdx /\ ss'.srcIdx = srcIdx
    BY <1>3, <2>1, <2>3, <2>6 DEF State, Stores, Loads, Sources
  <2>8. t' \in Nat /\ pc' = "reliability"
    BY <1>1, <1>2, <1>7
  <2>9. TypeOK'
    BY <1>4, <1>5, <1>6, <2>7, <2>8 DEF IInv, TypeOK, PhaseAfter
  <2>10. IndicesInRange(model, ss)' /\ AmountsInRange'
    BY <1>4, <2>2, <2>4, <2>5, <2>7 DEF IndicesInRange, AmountsInRange, Loads, Sources
  <2>11. VisitsInRange' /\ PassesInRange'
    BY <1>4, <1>5, <2>8 DEF VisitsInRange, Visits, ItemsOf, PassesInRange
  <2> QED
    BY <2>9, <2>10, <2>11 DEF IInv
<1>8. CASE ~ AssertionsHold(next - t)
  <2>1. pc' = "assertionFailed" /\ UNCHANGED <<ss, t>>
    BY <1>1, <1>8
  <2> QED
    BY <1>4, <1>5, <1>6, <2>1 DEF IInv, TypeOK, IndicesInRange, AmountsInRange,
                                  VisitsInRange, PassesInRange
<1> QED
  BY <1>7, <1>8

-----------------------------------------------------------------------------
LEMMA InitialStateType == InitialState \in State
<1>1. \A c \in OfKind("Store") : Part[c].initial \in Int
  <2>1. \A c \in OfKind("Store") :
          Part[c].capacity \in Nat /\ Part[c].initial \in 0 .. Part[c].capacity
    BY StoreParts DEF OfKind
  <2> QED
    BY <2>1
<1>2. 0 \in Flow
  BY FlowIsNat
<1> QED
  BY <1>1, <1>2 DEF InitialState, State

LEMMA InitIInv ==
  ASSUME Init
  PROVE  IInv
<1>1. model \in ModelType
  BY SimulationAssumption DEF Init
<1>2. ss \in State
  BY InitialStateType DEF Init
<1>3. todo = DOMAIN model.rel /\ todo \subseteq Nat
  BY <1>1, ModelSchedules DEF Init
<1>4. numTimes \in 0 .. MaxTimes /\ loopIter \in 0 .. MaxLoop
  BY SimulationAssumption DEF Init
<1>5. timeAndFlows \in Seq(Snapshot)
  BY DEF Init
<1>6. TypeOK
  BY <1>1, <1>2, <1>3, <1>4, <1>5 DEF Init, TypeOK, PhaseAfter
<1>7. IndicesInRange(model, ss)
  <2>1. /\ \A c \in Loads : model.load[c] \in Schedule
        /\ \A c \in Sources : model.avail[c] \in Schedule
    BY <1>1 DEF ModelType
  <2>2. ASSUME NEW schedule \in Schedule PROVE 1 \in 1 .. Len(schedule)
    <3> DEFINE Entry == [time : Nat, amount : Flow]
    <3>1. schedule \in Seq(Entry) /\ schedule # <<>>
      BY DEF Schedule
    <3> HIDE DEF Entry
    <3> QED
      BY <3>1
  <2>3. /\ \A c \in OfKind("ScheduleBasedLoad") : ss.loadIdx[c] = 1
        /\ \A c \in OfKind("ScheduleBasedSource") : ss.srcIdx[c] = 1
    BY DEF Init, InitialState
  <2> QED
    BY <2>1, <2>2, <2>3 DEF IndicesInRange, Loads, Sources
<1>8. AmountsInRange
  BY StoreParts DEF Init, InitialState, AmountsInRange, Stores, OfKind
<1>9. VisitsInRange /\ PassesInRange
  BY DEF Init, VisitsInRange, Visits, ItemsOf, PassesInRange
<1> QED
  BY <1>6, <1>7, <1>8, <1>9 DEF IInv

LEMMA NextKeepsIInv ==
  ASSUME IInv, [Next]_vars
  PROVE  IInv'
<1>1. CASE \E i \in todo : ActivateReliability(i)
  BY <1>1, ActivateReliabilityKeepsIInv
<1>2. CASE \E c \in todo : Activate(c)
  BY <1>2, ActivateKeepsIInv
<1>3. CASE NextPhase
  BY <1>3, NextPhaseKeepsIInv
<1>4. CASE BeginRun
  BY <1>4, BeginRunKeepsIInv
<1>5. CASE TakeBackward \/ TakeForward
  BY <1>5, TakeKeepsIInv
<1>6. CASE \E k \in todo : StepBackward(k) \/ StepForward(k)
  BY <1>6, StepKeepsIInv
<1>7. CASE EndBackward \/ EndForward
  BY <1>7, EndKeepsIInv
<1>8. CASE Finalize
  BY <1>8, FinalizeKeepsIInv
<1>9. CASE RunSwitchLogic
  BY <1>9, RunSwitchLogicKeepsIInv
<1>10. CASE Record
  BY <1>10, RecordKeepsIInv
<1>11. CASE Advance
  BY <1>11, AdvanceKeepsIInv
<1>12. CASE UNCHANGED vars
  BY <1>12 DEF vars, IInv, TypeOK, IndicesInRange, AmountsInRange, VisitsInRange,
               Visits, ItemsOf, PassesInRange
<1> QED
  BY <1>1, <1>2, <1>3, <1>4, <1>5, <1>6, <1>7, <1>8, <1>9, <1>10, <1>11, <1>12
     DEF Next, Terminated

LEMMA IInvHolds == Spec => []IInv
<1>1. Init => IInv
  BY InitIInv
<1>2. IInv /\ [Next]_vars => IInv'
  BY NextKeepsIInv
<1> QED
  BY <1>1, <1>2, PTL DEF Spec

(* Every variable has its type in every state of every simulation: no      *)
(* arithmetic of Simulate on flows or times leaves its range, and no       *)
(* schedule is read past its end.                                          *)
THEOREM TypeCorrect == Spec => []TypeOK
<1>1. IInv => TypeOK
  BY DEF IInv
<1> QED
  BY <1>1, IInvHolds, PTL

(* Only the schedules put a component out of service or back into it ...   *)
LEMMA OnlyReliabilityChangesService ==
  ASSUME IInv, Next, ~ Advance, \A i \in todo : ~ ActivateReliability(i)
  PROVE  ss' \in Handled(ss)
<1>1. ss \in Handled(ss)
  BY HandledSelf DEF IInv, TypeOK
<1>2. CASE UNCHANGED ss
  BY <1>1, <1>2
<1>3. CASE \E c \in todo : Activate(c)
  BY <1>3, ActivateHandles
<1>4. CASE TakeBackward \/ TakeForward
  BY <1>4, TakeHandles
<1>5. CASE \E k \in todo : StepBackward(k) \/ StepForward(k)
  BY <1>5, StepHandles
<1>6. CASE Finalize
  BY <1>6, FinalizeHandles
<1>7. CASE RunSwitchLogic
  BY <1>7, RunSwitchLogicHandles
<1> QED
  BY <1>2, <1>3, <1>4, <1>5, <1>6, <1>7
     DEF Next, NextPhase, BeginRun, EndBackward, EndForward, Record, Terminated, vars

(* ... and only Advance moves the indices into the schedules.              *)
LEMMA OnlyAdvanceMovesIndices ==
  ASSUME IInv, Next, ~ Advance
  PROVE  ss' \in Kept(ss)
  BY ActivateReliabilityKeeps, OnlyReliabilityChangesService, HandledIsKept

-----------------------------------------------------------------------------
(* Sums over sets of components, connections or ports.                     *)
NatSet(S) == S \subseteq Nat /\ IsFiniteSet(S)

(* The elements below the new greatest one keep their places.              *)
LEMMA NthBelow ==
  ASSUME NEW S, NatSet(S), NEW m \in Nat, \A j \in S : j < m
  PROVE  /\ \A n \in 1 .. Cardinality(S) : Nth(S \cup {m}, n) = Nth(S, n)
         /\ Nth(S \cup {m}, Cardinality(S) + 1) = m
<1> DEFINE T == S \cup {m}
           n == Cardinality(S)
<1>1. m \notin S /\ n \in Nat /\ S \subseteq Nat
  BY FS_CardinalityType DEF NatSet
<1>2. ASSUME NEW k \in S
      PROVE  Place(k, T) = Place(k, S) /\ Place(k, S) \in 1 .. n
  <2> DEFINE Below  == {j \in S : j < k}
             BelowT == {j \in T : j < k}
  <2>1. BelowT = Below
    BY <1>1
  <2>2. Below \in SUBSET S /\ Below # S
    BY <1>1
  <2>3. Cardinality(Below) \in Nat /\ Cardinality(Below) < n
    BY <1>1, <2>2, FS_Subset, FS_CardinalityType DEF NatSet
  <2>4. Place(k, S) = Cardinality(Below) + 1
    BY DEF Place
  <2> HIDE DEF T
  <2>5. Place(k, T) = Cardinality(BelowT) + 1
    BY DEF Place
  <2> HIDE DEF Below, BelowT, n
  <2> QED
    BY <1>1, <2>1, <2>3, <2>4, <2>5
<1>3. Place(m, T) = n + 1
  <2>1. {j \in T : j < m} = S
    OBVIOUS
  <2> QED
    BY <2>1 DEF Place
<1> HIDE DEF n
<1>4. ASSUME NEW i \in 1 .. n PROVE Nth(T, i) = Nth(S, i)
  <2>1. \A k : k \in T <=> k \in S \/ k = m
    OBVIOUS
  <2>2. i # n + 1
    BY <1>1
  <2> HIDE DEF T
  <2>3. \A k : k \in T /\ Place(k, T) = i <=> k \in S /\ Place(k, S) = i
    BY <1>2, <1>3, <2>1, <2>2
  <2> QED
    BY <2>3 DEF Nth
<1>5. Nth(T, n + 1) = m
  <2>1. m \in T /\ \A k \in T : k \in S \/ k = m
    OBVIOUS
  <2> HIDE DEF T
  <2>2. \A k \in T : Place(k, T) = n + 1 => k = m
    BY <1>1, <1>2, <2>1
  <2> DEFINE top == Nth(T, n + 1)
  <2>3. top \in T /\ Place(top, T) = n + 1
    BY <1>3, <2>1 DEF Nth
  <2> QED
    BY <2>2, <2>3
<1> QED
  BY <1>4, <1>5 DEF n

LEMMA SumEmpty ==
  ASSUME NEW f
  PROVE  Sum(f, {}) = 0
BY FS_EmptySet, PrefixStep DEF Sum

LEMMA SumTop ==
  ASSUME NEW S, NatSet(S), NEW m \in Nat, \A j \in S : j < m, NEW f
  PROVE  Sum(f, S \cup {m}) = Sum(f, S) + f[m]
<1> DEFINE n == Cardinality(S)
           T == S \cup {m}
           fS == [i \in 1 .. n |-> f[Nth(S, i)]]
           fT == [i \in 1 .. n + 1 |-> f[Nth(T, i)]]
<1>1. n \in Nat /\ Cardinality(T) = n + 1
  BY FS_CardinalityType, FS_AddElement DEF NatSet
<1>2. Sum(f, T) = Prefix(fT, n + 1) /\ Sum(f, S) = Prefix(fS, n)
  BY <1>1 DEF Sum
<1>3. \A i \in 1 .. n : fT[i] = fS[i]
  BY <1>1, NthBelow
<1>4. fT[n + 1] = f[m]
  BY <1>1, NthBelow
<1> HIDE DEF n, fS, fT
<1>5. Prefix(fT, n) = Prefix(fS, n)
  BY <1>1, <1>3, PrefixAgrees
<1>6. n \in 0 .. (n + 1) - 1
  BY <1>1
<1>7. Prefix(fT, n + 1) = Prefix(fT, n) + fT[n + 1]
  BY <1>1, <1>6, PrefixStep
<1> QED
  BY <1>2, <1>4, <1>5, <1>7

(* Every finite set of numbers that is not empty has a greatest one.       *)
LEMMA Greatest ==
  ASSUME NEW S, NatSet(S), S # {}
  PROVE  \E m \in S : NatSet(S \ {m}) /\ \A j \in S \ {m} : j < m
<1> DEFINE P == {n \in Nat : \A T \in SUBSET S :
                   Cardinality(T) = n /\ T # {} => \E m \in T : \A j \in T \ {m} : j < m}
<1>1. \A T \in SUBSET S : NatSet(T) /\ Cardinality(T) \in Nat
  BY FS_Subset, FS_CardinalityType DEF NatSet
<1>2. 0 \in P
  BY <1>1, FS_EmptySet DEF NatSet
<1>3. ASSUME NEW n \in P PROVE n + 1 \in P
  <2>1. SUFFICES ASSUME NEW T \in SUBSET S, Cardinality(T) = n + 1
                 PROVE  \E m \in T : \A j \in T \ {m} : j < m
    OBVIOUS
  <2>2. T # {}
    BY <2>1, FS_EmptySet
  <2>3. PICK x \in T : TRUE
    BY <2>2
  <2> DEFINE U == T \ {x}
  <2>4. U \in SUBSET S /\ Cardinality(U) = n /\ x \in Nat
    BY <1>1, <2>1, FS_RemoveElement DEF NatSet
  <2>5. CASE U = {}
    BY <2>5
  <2>6. CASE U # {}
    <3>1. PICK m \in U : \A j \in U \ {m} : j < m
      BY <2>4, <2>6
    <3>2. U \subseteq Nat
      BY <1>1, <2>4 DEF NatSet
    <3>3. CASE m < x
      BY <3>1, <3>2, <3>3, <2>4
    <3>4. CASE ~ (m < x)
      BY <3>1, <3>2, <3>4, <2>4
    <3> QED
      BY <3>3, <3>4
  <2> QED
    BY <2>5, <2>6
<1>4. P = Nat
  <2>1. P \subseteq Nat
    OBVIOUS
  <2> HIDE DEF P
  <2> QED
    BY <1>2, <1>3, <2>1, SetInduction
<1>5. PICK m \in S : \A j \in S \ {m} : j < m
  BY <1>1, <1>4
<1> QED
  BY <1>1, <1>5

(* To show something of all finite sets of numbers, let them grow upwards. *)
LEMMA SetsGrow ==
  ASSUME NEW S, NatSet(S), NEW P, {} \in P,
         \A T \in SUBSET S : \A m \in S \ T :
           T \in P /\ (\A j \in T : j < m) => T \cup {m} \in P
  PROVE  S \in P
<1> DEFINE N == {n \in Nat : \A T \in SUBSET S : Cardinality(T) = n => T \in P}
<1>1. \A T \in SUBSET S : NatSet(T) /\ Cardinality(T) \in Nat
  BY FS_Subset, FS_CardinalityType DEF NatSet
<1>2. 0 \in N
  BY <1>1, FS_EmptySet DEF NatSet
<1>3. ASSUME NEW n \in N PROVE n + 1 \in N
  <2>1. SUFFICES ASSUME NEW T \in SUBSET S, Cardinality(T) = n + 1
                 PROVE  T \in P
    OBVIOUS
  <2>2. T # {}
    BY <2>1, FS_EmptySet
  <2>3. PICK m \in T : \A j \in T \ {m} : j < m
    BY <1>1, <2>2, Greatest
  <2>4. T \ {m} \in SUBSET S /\ Cardinality(T \ {m}) = n /\ m \in S \ (T \ {m})
    BY <1>1, <2>1, FS_RemoveElement DEF NatSet
  <2>5. T \ {m} \in P
    BY <2>4
  <2>6. T = (T \ {m}) \cup {m}
    OBVIOUS
  <2> QED
    BY <2>3, <2>4, <2>5, <2>6
<1>4. N = Nat
  <2>1. N \subseteq Nat
    OBVIOUS
  <2> HIDE DEF N
  <2> QED
    BY <1>2, <1>3, <2>1, SetInduction
<1> QED
  BY <1>1, <1>4

(* Facts about sums are shown as sets grow.                                *)
LEMMA SumWithin ==
  ASSUME NEW V, 0 \in V, \A a, b \in V : a + b \in V,
         NEW S, NatSet(S), NEW f, \A k \in S : f[k] \in V
  PROVE  Sum(f, S) \in V
<1> DEFINE P == {T \in SUBSET S : Sum(f, T) \in V}
<1>1. {} \in P
  BY SumEmpty
<1>2. ASSUME NEW T \in SUBSET S, NEW m \in S \ T, T \in P, \A j \in T : j < m
      PROVE  T \cup {m} \in P
  <2>1. NatSet(T) /\ m \in Nat
    BY FS_Subset DEF NatSet
  <2> QED
    BY <1>2, <2>1, SumTop
<1> HIDE DEF P
<1>3. S \in P
  BY <1>1, <1>2, SetsGrow
<1> QED
  BY <1>3 DEF P

LEMMA SumType ==
  ASSUME NEW S, NatSet(S), NEW f
  PROVE  /\ (\A k \in S : f[k] \in Int) => Sum(f, S) \in Int
         /\ (\A k \in S : f[k] \in Nat) => Sum(f, S) \in Nat
<1>1. 0 \in Int /\ \A a, b \in Int : a + b \in Int
  OBVIOUS
<1>2. 0 \in Nat /\ \A a, b \in Nat : a + b \in Nat
  OBVIOUS
<1> QED
  BY <1>1, <1>2, SumWithin

LEMMA SumAgrees ==
  ASSUME NEW S, NatSet(S), NEW f, NEW g, \A k \in S : f[k] = g[k]
  PROVE  Sum(f, S) = Sum(g, S)
<1> DEFINE P == {T \in SUBSET S : Sum(f, T) = Sum(g, T)}
<1>1. {} \in P
  BY SumEmpty
<1>2. ASSUME NEW T \in SUBSET S, NEW m \in S \ T, T \in P, \A j \in T : j < m
      PROVE  T \cup {m} \in P
  <2>1. NatSet(T) /\ m \in Nat
    BY FS_Subset DEF NatSet
  <2>2. f[m] = g[m] /\ Sum(f, T) = Sum(g, T)
    BY <1>2
  <2>3. /\ Sum(f, T \cup {m}) = Sum(f, T) + f[m]
        /\ Sum(g, T \cup {m}) = Sum(g, T) + g[m]
    BY <1>2, <2>1, SumTop
  <2> QED
    BY <2>2, <2>3
<1> HIDE DEF P
<1>3. S \in P
  BY <1>1, <1>2, SetsGrow
<1> QED
  BY <1>3 DEF P

(* One more element, wherever it stands among the others.                  *)
LEMMA SumAdd ==
  ASSUME NEW S, NatSet(S), NEW x \in Nat, x \notin S,
         NEW f, \A k \in S \cup {x} : f[k] \in Int
  PROVE  Sum(f, S \cup {x}) = Sum(f, S) + f[x]
<1> DEFINE P == {T \in SUBSET S : Sum(f, T \cup {x}) = Sum(f, T) + f[x]}
<1>1. {} \in P
  <2>1. NatSet({})
    BY FS_EmptySet DEF NatSet
  <2> QED
    BY <2>1, SumTop
<1>2. ASSUME NEW T \in SUBSET S, NEW m \in S \ T, T \in P, \A j \in T : j < m
      PROVE  T \cup {m} \in P
  <2>1. NatSet(T) /\ m \in Nat /\ NatSet(T \cup {m}) /\ NatSet(T \cup {x}) /\ m # x
    BY FS_Subset, FS_AddElement DEF NatSet
  <2>2. Sum(f, T) \in Int /\ f[m] \in Int /\ f[x] \in Int
    BY <2>1, SumType
  <2>3. Sum(f, T \cup {m}) = Sum(f, T) + f[m]
    BY <1>2, <2>1, SumTop
  <2>4. CASE x < m
    <3>1. \A j \in T \cup {x} : j < m
      BY <1>2, <2>4
    <3>2. Sum(f, (T \cup {x}) \cup {m}) = Sum(f, T \cup {x}) + f[m]
      BY <2>1, <3>1, SumTop
    <3>3. (T \cup {x}) \cup {m} = (T \cup {m}) \cup {x}
      OBVIOUS
    <3>4. Sum(f, T \cup {x}) = Sum(f, T) + f[x]
      BY <1>2
    <3>5. Sum(f, (T \cup {m}) \cup {x}) = Sum(f, T \cup {x}) + f[m]
      BY <3>2, <3>3
    <3>6. Sum(f, T \cup {x}) + f[m] = Sum(f, T \cup {m}) + f[x]
      BY <2>2, <2>3, <3>4
    <3>7. Sum(f, (T \cup {m}) \cup {x}) = Sum(f, T \cup {m}) + f[x]
      BY <3>5, <3>6
    <3> QED
      BY <3>7
  <2>5. CASE m < x
    <3>1. \A j \in T \cup {m} : j < x
      BY <1>2, <2>1, <2>5 DEF NatSet
    <3> QED
      BY <2>1, <3>1, SumTop
  <2> QED
    BY <2>1, <2>4, <2>5
<1> HIDE DEF P
<1>3. S \in P
  BY <1>1, <1>2, SetsGrow
<1> QED
  BY <1>3 DEF P

LEMMA SumOfOne ==
  ASSUME NEW x \in Nat, NEW f, f[x] \in Int
  PROVE  Sum(f, {x}) = f[x]
<1>1. NatSet({})
  BY FS_EmptySet DEF NatSet
<1>2. Sum(f, {} \cup {x}) = Sum(f, {}) + f[x]
  BY <1>1, SumTop
<1>3. {} \cup {x} = {x}
  OBVIOUS
<1> QED
  BY <1>2, <1>3, SumEmpty

LEMMA SumOfNothing ==
  ASSUME NEW S, NatSet(S), NEW f, \A k \in S : f[k] = 0
  PROVE  Sum(f, S) = 0
<1>1. 0 \in {0} /\ (\A a, b \in {0} : a + b \in {0}) /\ (\A k \in S : f[k] \in {0})
  OBVIOUS
<1>2. Sum(f, S) \in {0}
  BY <1>1, SumWithin
<1> QED
  BY <1>2

(* Sums of disjoint sets add up, as do sums of two functions.              *)
LEMMA SumOfUnion ==
  ASSUME NEW R, NatSet(R), NEW S, NatSet(S), R \cap S = {},
         NEW f, \A k \in R \cup S : f[k] \in Int
  PROVE  Sum(f, R \cup S) = Sum(f, R) + Sum(f, S)
<1> DEFINE P == {T \in SUBSET S : Sum(f, R \cup T) = Sum(f, R) + Sum(f, T)}
<1>0. Sum(f, R) \in Int
  BY SumType
<1>1. {} \in P
  <2>1. R \cup {} = R
    OBVIOUS
  <2> QED
    BY <1>0, <2>1, SumEmpty
<1>2. ASSUME NEW T \in SUBSET S, NEW m \in S \ T, T \in P, \A j \in T : j < m
      PROVE  T \cup {m} \in P
  <2>1. NatSet(T) /\ m \in Nat /\ NatSet(R \cup T) /\ m \notin R \cup T
    BY FS_Subset, FS_Union DEF NatSet
  <2>2. Sum(f, T) \in Int /\ f[m] \in Int
    BY <2>1, SumType
  <2>3. Sum(f, T \cup {m}) = Sum(f, T) + f[m]
    BY <1>2, <2>1, SumTop
  <2>4. Sum(f, (R \cup T) \cup {m}) = Sum(f, R \cup T) + f[m]
    BY <2>1, SumAdd
  <2>5. (R \cup T) \cup {m} = R \cup (T \cup {m})
    OBVIOUS
  <2>6. Sum(f, R \cup T) = Sum(f, R) + Sum(f, T)
    BY <1>2
  <2>7. Sum(f, R \cup (T \cup {m})) = Sum(f, R \cup T) + f[m]
    BY <2>4, <2>5
  <2>8. Sum(f, R \cup T) + f[m] = Sum(f, R) + Sum(f, T \cup {m})
    BY <1>0, <2>2, <2>3, <2>6
  <2>9. Sum(f, R \cup (T \cup {m})) = Sum(f, R) + Sum(f, T \cup {m})
    BY <2>7, <2>8
  <2> QED
    BY <2>9
<1> HIDE DEF P
<1>3. S \in P
  BY <1>1, <1>2, SetsGrow
<1> QED
  BY <1>3 DEF P

LEMMA SumOfSums ==
  ASSUME NEW S, NatSet(S), NEW f, NEW g, NEW h,
         \A k \in S : f[k] \in Int /\ g[k] \in Int /\ h[k] = f[k] + g[k]
  PROVE  Sum(h, S) = Sum(f, S) + Sum(g, S)
<1> DEFINE P == {T \in SUBSET S : Sum(h, T) = Sum(f, T) + Sum(g, T)}
<1>1. {} \in P
  BY SumEmpty
<1>2. ASSUME NEW T \in SUBSET S, NEW m \in S \ T, T \in P, \A j \in T : j < m
      PROVE  T \cup {m} \in P
  <2>1. NatSet(T) /\ m \in Nat
    BY FS_Subset DEF NatSet
  <2>2. Sum(f, T) \in Int /\ Sum(g, T) \in Int /\ f[m] \in Int /\ g[m] \in Int
    BY <2>1, SumType
  <2>3. /\ Sum(f, T \cup {m}) = Sum(f, T) + f[m]
        /\ Sum(g, T \cup {m}) = Sum(g, T) + g[m]
        /\ Sum(h, T \cup {m}) = Sum(h, T) + h[m]
    BY <1>2, <2>1, SumTop
  <2>4. Sum(h, T) = Sum(f, T) + Sum(g, T) /\ h[m] = f[m] + g[m]
    BY <1>2
  <2> QED
    BY <2>2, <2>3, <2>4
<1> HIDE DEF P
<1>3. S \in P
  BY <1>1, <1>2, SetsGrow
<1> QED
  BY <1>3 DEF P

LEMMA SumScaled ==
  ASSUME NEW S, NatSet(S), NEW x \in Int, NEW f, NEW h,
         \A k \in S : f[k] \in Int /\ h[k] = x * f[k]
  PROVE  Sum(h, S) = x * Sum(f, S)
<1> DEFINE P == {T \in SUBSET S : Sum(h, T) = x * Sum(f, T)}
<1>1. {} \in P
  BY SumEmpty
<1>2. ASSUME NEW T \in SUBSET S, NEW m \in S \ T, T \in P, \A j \in T : j < m
      PROVE  T \cup {m} \in P
  <2>1. NatSet(T) /\ m \in Nat
    BY FS_Subset DEF NatSet
  <2>2. Sum(f, T) \in Int /\ f[m] \in Int
    BY <2>1, SumType
  <2>3. /\ Sum(f, T \cup {m}) = Sum(f, T) + f[m]
        /\ Sum(h, T \cup {m}) = Sum(h, T) + h[m]
    BY <1>2, <2>1, SumTop
  <2>4. Sum(h, T) = x * Sum(f, T) /\ h[m] = x * f[m]
    BY <1>2
  <2>5. \A a, b \in Int : x * (a + b) = x * a + x * b
    OBVIOUS
  <2> QED
    BY <2>2, <2>3, <2>4, <2>5
<1> HIDE DEF P
<1>3. S \in P
  BY <1>1, <1>2, SetsGrow
<1> QED
  BY <1>3 DEF P

LEMMA SumGrows ==
  ASSUME NEW S, NatSet(S), NEW f, NEW g,
         \A k \in S : f[k] \in Int /\ g[k] \in Int /\ f[k] <= g[k]
  PROVE  Sum(f, S) <= Sum(g, S)
<1> DEFINE P == {T \in SUBSET S : Sum(f, T) <= Sum(g, T)}
<1>1. {} \in P
  BY SumEmpty
<1>2. ASSUME NEW T \in SUBSET S, NEW m \in S \ T, T \in P, \A j \in T : j < m
      PROVE  T \cup {m} \in P
  <2>1. NatSet(T) /\ m \in Nat
    BY FS_Subset DEF NatSet
  <2>2. Sum(f, T) \in Int /\ Sum(g, T) \in Int /\ f[m] \in Int /\ g[m] \in Int
    BY <2>1, SumType
  <2>3. /\ Sum(f, T \cup {m}) = Sum(f, T) + f[m]
        /\ Sum(g, T \cup {m}) = Sum(g, T) + g[m]
    BY <1>2, <2>1, SumTop
  <2>4. Sum(f, T) <= Sum(g, T) /\ f[m] <= g[m]
    BY <1>2
  <2> QED
    BY <2>2, <2>3, <2>4
<1> HIDE DEF P
<1>3. S \in P
  BY <1>1, <1>2, SetsGrow
<1> QED
  BY <1>3 DEF P

(* A sum of numbers that are not negative is no less than any of them.     *)
LEMMA SumAtLeast ==
  ASSUME NEW S, NatSet(S), NEW f, \A k \in S : f[k] \in Nat, NEW x \in S
  PROVE  Sum(f, S) >= f[x]
<1>1. S = (S \ {x}) \cup {x} /\ NatSet(S \ {x}) /\ x \in Nat
  BY FS_Subset DEF NatSet
<1>2. Sum(f, S \ {x}) \in Nat
  BY <1>1, SumType
<1>3. \A k \in (S \ {x}) \cup {x} : f[k] \in Int
  OBVIOUS
<1>4. Sum(f, (S \ {x}) \cup {x}) = Sum(f, S \ {x}) + f[x]
  BY <1>1, <1>3, SumAdd
<1> QED
  BY <1>1, <1>2, <1>4

(* The sum over a set of numbers that a sequence lists.                    *)
LEMMA SumOfList ==
  ASSUME NEW n \in Nat, NEW list, \A i \in 1 .. n : list[i] \in Nat,
         \A i, j \in 1 .. n : list[i] = list[j] => i = j,
         NEW f, NEW terms, \A i \in 1 .. n : f[list[i]] \in Int /\ terms[i] = f[list[i]]
  PROVE  Sum(f, {list[i] : i \in 1 .. n}) = Prefix(terms, n)
<1> DEFINE R(m) == {list[i] : i \in 1 .. m}
           T == {m \in Nat : m <= n => NatSet(R(m)) /\ Sum(f, R(m)) = Prefix(terms, m)}
<1>1. 0 \in T
  <2>1. R(0) = {}
    OBVIOUS
  <2> QED
    BY <2>1, SumEmpty, FS_EmptySet, PrefixStep DEF NatSet
<1>2. ASSUME NEW m \in T PROVE m + 1 \in T
  <2>1. SUFFICES ASSUME m + 1 <= n
                 PROVE  NatSet(R(m + 1)) /\ Sum(f, R(m + 1)) = Prefix(terms, m + 1)
    OBVIOUS
  <2>2. m \in 0 .. n - 1 /\ m + 1 \in 1 .. n /\ m <= n /\ 1 .. m \subseteq 1 .. n
    BY <2>1
  <2>3. R(m + 1) = R(m) \cup {list[m + 1]}
    <3>1. 1 .. m + 1 = (1 .. m) \cup {m + 1}
      OBVIOUS
    <3> QED
      BY <3>1
  <2>4. list[m + 1] \notin R(m) /\ list[m + 1] \in Nat
    BY <2>2
  <2>5. NatSet(R(m)) /\ Sum(f, R(m)) = Prefix(terms, m)
    BY <2>2
  <2>6. \A k \in R(m) \cup {list[m + 1]} : f[k] \in Int
    BY <2>2
  <2> HIDE DEF R
  <2>7. Sum(f, R(m) \cup {list[m + 1]}) = Sum(f, R(m)) + f[list[m + 1]]
    BY <2>4, <2>5, <2>6, SumAdd
  <2>8. Prefix(terms, m + 1) = Prefix(terms, m) + terms[m + 1]
    BY <2>2, PrefixStep
  <2>9. NatSet(R(m) \cup {list[m + 1]})
    BY <2>4, <2>5, FS_AddElement DEF NatSet
  <2> QED
    BY <2>2, <2>3, <2>5, <2>7, <2>8, <2>9
<1>3. T = Nat
  <2>1. T \subseteq Nat
    OBVIOUS
  <2> HIDE DEF T
  <2> QED
    BY <1>1, <1>2, <2>1, SetInduction
<1> QED
  BY <1>3

=============================================================================
