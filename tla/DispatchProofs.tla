--------------------------- MODULE DispatchProofs ---------------------------
(***************************************************************************)
(* What the flows are when they are recorded: loads ask and sources offer  *)
(* what their schedules say, a mux serves in order, a component out of     *)
(* service carries nothing.  In the networks where every change is told    *)
(* each of these is a matter of single components, because no component    *)
(* changes what another one asks or offers; with switches, of what writes  *)
(* to their inflows.                                                       *)
(***************************************************************************)
EXTENDS SolverProofs

-----------------------------------------------------------------------------
(* Loads and constant sources: what they ask and offer.                    *)

(* A change of a load that has yet to be acted on, and the first request or*)
(* offer of a constant one, which has a turn at time 0 only.               *)
LoadIsDue(c) ==
  /\ pc = "reliability" \/ (pc = "loads" /\ c \in todo)
  /\ ScheduledNow(model.load[c], ss.loadIdx[c])

ConstantLoadIsDue(c) ==
  /\ t = 0
  /\ \/ pc \in {"reliability", "loads", "sources", "stores"}
     \/ pc = "constantLoads" /\ c \in todo

ConstantSourceIsDue(c) ==
  /\ t = 0
  /\ \/ pc \in {"reliability", "loads", "sources", "stores", "constantLoads"}
     \/ pc = "constantSources" /\ c \in todo

LoadIsAsked(c) == ss.req[Inflow[c][0]] = model.load[c][ss.loadIdx[c]].amount
ConstantLoadIsAsked(c) == ss.req[Inflow[c][0]] = Part[c].load
ConstantSourceOffers(c) == ss.avail[Outflow[c][0]] = Part[c].available

InputsInForce ==
  Running =>
    /\ \A c \in Loads \ ss.down : LoadIsAsked(c) \/ LoadIsDue(c)
    /\ \A c \in OfKind("ConstantLoad") \ ss.down :
         ConstantLoadIsAsked(c) \/ ConstantLoadIsDue(c)
    /\ \A c \in OfKind("ConstantSource") \ ss.down :
         ConstantSourceOffers(c) \/ ConstantSourceIsDue(c)

EndKinds == {"ScheduleBasedLoad", "ConstantLoad", "ConstantSource"}

(* From s to r, what a load asks and what a constant source offers stay.   *)
OwnFlowsKept(s, r, d) ==
  /\ Part[d].kind \in {"ScheduleBasedLoad", "ConstantLoad"} =>
       r.req[Inflow[d][0]] = s.req[Inflow[d][0]]
  /\ Part[d].kind = "ConstantSource" =>
       r.avail[Outflow[d][0]] = s.avail[Outflow[d][0]]

LEMMA EndsOfEnds ==
  ASSUME NEW d \in Comp
  PROVE  /\ Part[d].kind \in {"ScheduleBasedLoad", "ConstantLoad"} =>
              Inflow[d][0] \in Conn /\ Inflow[d][0] \in Inflows(d)
         /\ Part[d].kind = "ConstantSource" =>
              Outflow[d][0] \in Conn /\ Outflow[d][0] \in Outflows(d)
  BY KnownKind, InflowType, OutflowType DEF WellConnected, Inflows, Outflows

LEMMA OthersKeepOwnFlows ==
  ASSUME NEW c, NEW s, NEW r, ActsFor(c, s, r), NEW d \in Comp, d # c
  PROVE  OwnFlowsKept(s, r, d)
<1>1. CASE Part[d].kind \in EndKinds
  <2>1. Part[d].kind \notin Passive
    BY <1>1 DEF EndKinds, Passive
  <2>2. HasBeenTold(d, s, r)
    BY <2>1, OthersHaveBeenTold
  <2> QED
    BY <2>2, EndsOfEnds DEF HasBeenTold, OwnFlowsKept
<1>2. CASE Part[d].kind \notin EndKinds
  BY <1>2 DEF EndKinds, OwnFlowsKept
<1> QED
  BY <1>1, <1>2

(* A step of a pass is a component's own doing.                            *)
LEMMA StepsAct ==
  ASSUME EveryChangeIsTold, IInv, SolverInv, NEW k \in todo,
         StepBackward(k) \/ StepForward(k)
  PROVE  LET c == IF pc = "backward" THEN Connection[k].from ELSE Connection[k].to
         IN  /\ k \in Conn /\ c \in Comp /\ ActsFor(c, ss, ss')
             /\ c \in ss.down => ss' = SetComponentToFailed(ss, c)
             /\ c \notin ss.down =>
                  ss' = IF pc = "backward" THEN RunBackward(model, ss, k)
                        ELSE RunForward(ss, k)
<1>1. pc \in {"backward", "forward"} /\ k \in Conn
  BY VisitsOfPhases DEF StepBackward, StepForward
<1>2. /\ ss \in State /\ SchedulesOfFlows(model) /\ IndicesInRange(model, ss)
      /\ Connection[k].from \in Comp /\ Connection[k].to \in Comp
  BY <1>1, ModelSchedules, ConnectionEnds DEF IInv, TypeOK
<1> DEFINE c == IF pc = "backward" THEN Connection[k].from ELSE Connection[k].to
<1>3. /\ c \in ss.down => ss' = SetComponentToFailed(ss, c)
      /\ c \notin ss.down =>
           ss' = IF pc = "backward" THEN RunBackward(model, ss, k) ELSE RunForward(ss, k)
  BY DEF StepBackward, StepForward
<1>4. CASE c \in ss.down
  <2>1. Part[c].kind # "Mover" /\ ss' = SetComponentToFailed(ss, c) /\ c \in Comp
    BY <1>2, <1>3, <1>4 DEF SolverInv, MoversAreInService
  <2> HIDE DEF c
  <2>2. ActsFor(c, ss, ss')
    BY <1>2, <1>4, <2>1, FailureActs
  <2> QED
    BY <1>1, <1>3, <2>1, <2>2 DEF c
<1>5. CASE c \notin ss.down /\ pc = "backward"
  <2>1. ActsFor(c, ss, ss')
    BY <1>1, <1>2, <1>3, <1>5, BackwardSees
  <2> QED
    BY <1>1, <1>2, <1>3, <2>1
<1>6. CASE c \notin ss.down /\ pc = "forward"
  <2>1. k \in PendingFront
    BY <1>6 DEF PendingFront
  <2>2. ~ /\ Part[Connection[k].to].kind = "Mover"
          /\ Part[Connection[k].from].kind = "EnvironmentSource"
    BY <2>1 DEF SolverInv, NobodyAsksOutside
  <2>3. ActsFor(c, ss, ss')
    BY <1>1, <1>2, <1>3, <1>6, <2>2, ForwardSees
  <2> QED
    BY <1>1, <1>2, <1>3, <2>3
<1> QED
  BY <1>1, <1>4, <1>5, <1>6


(* What may keep the inputs in force: every load and every constant source *)
(* in service asks or offers what it did, and is due if it was, or asks or *)
(* offers what it should.                                                  *)
LEMMA InputsStayInForce ==
  ASSUME InputsInForce, Running,
         \A d \in Comp \ ss'.down :
           \/ /\ d \notin ss.down
              /\ UNCHANGED <<model, ss.loadIdx>>
              /\ OwnFlowsKept(ss, ss', d)
              /\ d \in Loads /\ LoadIsDue(d) => LoadIsDue(d)' \/ LoadIsAsked(d)'
              /\ d \in OfKind("ConstantLoad") /\ ConstantLoadIsDue(d) =>
                   ConstantLoadIsDue(d)' \/ ConstantLoadIsAsked(d)'
              /\ d \in OfKind("ConstantSource") /\ ConstantSourceIsDue(d) =>
                   ConstantSourceIsDue(d)' \/ ConstantSourceOffers(d)'
           \/ /\ d \in Loads => LoadIsAsked(d)' \/ LoadIsDue(d)'
              /\ d \in OfKind("ConstantLoad") => ConstantLoadIsAsked(d)'
              /\ d \in OfKind("ConstantSource") => ConstantSourceOffers(d)'
  PROVE  InputsInForce'
<1>1. ASSUME NEW d \in Loads \ ss'.down PROVE LoadIsAsked(d)' \/ LoadIsDue(d)'
  <2>1. d \in Comp \ ss'.down /\ Part[d].kind = "ScheduleBasedLoad"
    BY DEF Loads, OfKind
  <2>2. CASE d \notin ss.down /\ LoadIsAsked(d) /\ OwnFlowsKept(ss, ss', d)
             /\ UNCHANGED <<model, ss.loadIdx>>
    BY <2>1, <2>2 DEF OwnFlowsKept, LoadIsAsked
  <2>3. d \notin ss.down => LoadIsAsked(d) \/ LoadIsDue(d)
    BY DEF InputsInForce
  <2> QED
    BY <2>1, <2>2, <2>3
<1>2. ASSUME NEW d \in OfKind("ConstantLoad") \ ss'.down
      PROVE  ConstantLoadIsAsked(d)' \/ ConstantLoadIsDue(d)'
  <2>1. d \in Comp \ ss'.down /\ Part[d].kind = "ConstantLoad"
    BY DEF OfKind
  <2>2. CASE d \notin ss.down /\ ConstantLoadIsAsked(d) /\ OwnFlowsKept(ss, ss', d)
    BY <2>1, <2>2 DEF OwnFlowsKept, ConstantLoadIsAsked
  <2>3. d \notin ss.down => ConstantLoadIsAsked(d) \/ ConstantLoadIsDue(d)
    BY DEF InputsInForce
  <2> QED
    BY <2>1, <2>2, <2>3
<1>3. ASSUME NEW d \in OfKind("ConstantSource") \ ss'.down
      PROVE  ConstantSourceOffers(d)' \/ ConstantSourceIsDue(d)'
  <2>1. d \in Comp \ ss'.down /\ Part[d].kind = "ConstantSource"
    BY DEF OfKind
  <2>2. CASE d \notin ss.down /\ ConstantSourceOffers(d) /\ OwnFlowsKept(ss, ss', d)
    BY <2>1, <2>2 DEF OwnFlowsKept, ConstantSourceOffers
  <2>3. d \notin ss.down => ConstantSourceOffers(d) \/ ConstantSourceIsDue(d)
    BY DEF InputsInForce
  <2> QED
    BY <2>1, <2>2, <2>3
<1> QED
  BY <1>1, <1>2, <1>3 DEF InputsInForce

LEMMA StepsKeepInputs ==
  ASSUME EveryChangeIsTold, IInv, SolverInv, InputsInForce, NEW k \in todo,
         StepBackward(k) \/ StepForward(k)
  PROVE  InputsInForce'
<1> DEFINE c == IF pc = "backward" THEN Connection[k].from ELSE Connection[k].to
<1>1. /\ k \in Conn /\ c \in Comp /\ ActsFor(c, ss, ss')
      /\ c \notin ss.down =>
           ss' = IF pc = "backward" THEN RunBackward(model, ss, k) ELSE RunForward(ss, k)
  BY StepsAct
<1>2. /\ Running /\ pc \in {"backward", "forward"} /\ UNCHANGED <<model, t, pc>>
      /\ ss'.down = ss.down /\ ss'.loadIdx = ss.loadIdx
  BY StepHandles DEF StepBackward, StepForward, Running, Handled
<1>3. \A d : ~ LoadIsDue(d) /\ ~ ConstantLoadIsDue(d) /\ ~ ConstantSourceIsDue(d)
  BY <1>2 DEF LoadIsDue, ConstantLoadIsDue, ConstantSourceIsDue
<1>4. ASSUME NEW d \in Comp \ ss.down PROVE OwnFlowsKept(ss, ss', d)
  <2>1. CASE d # c
    BY <1>1, <2>1, OthersKeepOwnFlows
  <2>2. CASE d = c /\ Part[c].kind \in EndKinds
    <3>1. ss' = ss
      BY <1>1, <2>2 DEF RunBackward, RunForward, EndKinds
    <3> QED
      BY <3>1 DEF OwnFlowsKept
  <2>3. CASE Part[d].kind \notin EndKinds
    BY <2>3 DEF EndKinds, OwnFlowsKept
  <2> QED
    BY <2>1, <2>2, <2>3
<1> HIDE DEF c
<1> QED
  BY <1>2, <1>3, <1>4, InputsStayInForce

LEMMA ActivateReliabilityKeepsInputs ==
  ASSUME EveryChangeIsTold, IInv, model \in Models, InputsInForce,
         NEW i \in todo, ActivateReliability(i)
  PROVE  InputsInForce'
<1>1. PICK c \in Comp :
        /\ c = model.rel[i].comp
        /\ pc = "reliability" /\ Running /\ UNCHANGED <<model, t>>
        /\ i \in DOMAIN model.rel /\ ss \in State
        /\ SchedulesOfFlows(model) /\ IndicesInRange(model, ss)
  BY VisitsOfPhases, ModelSchedules DEF ActivateReliability, Running, IInv, TypeOK
<1>2. \/ UNCHANGED <<ss, pc>>
      \/ pc' = "exited" /\ UNCHANGED ss
      \/ \E j \in StatesNow(i) :
           /\ UNCHANGED pc
           /\ ~ model.rel[i].states[j].state
           /\ ss' = SetComponentToFailed(ss, c)
      \/ \E j \in StatesNow(i) :
           /\ UNCHANGED pc
           /\ model.rel[i].states[j].state
           /\ \E k \in RepairedLoadConns(c) : ss' = SetComponentToRepaired(model, ss, c, k)
  BY <1>1 DEF ActivateReliability
<1>3. ASSUME UNCHANGED pc, ss'.loadIdx = ss.loadIdx, NEW d
      PROVE  /\ LoadIsDue(d) => LoadIsDue(d)'
             /\ ConstantLoadIsDue(d) => ConstantLoadIsDue(d)'
             /\ ConstantSourceIsDue(d) => ConstantSourceIsDue(d)'
  BY <1>1, <1>3 DEF LoadIsDue, ConstantLoadIsDue, ConstantSourceIsDue, ScheduledNow
<1>4. CASE UNCHANGED <<ss, pc>>
  <2>1. \A d : OwnFlowsKept(ss, ss', d)
    BY <1>4 DEF OwnFlowsKept
  <2> QED
    BY <1>1, <1>3, <1>4, <2>1, InputsStayInForce
<1>5. CASE pc' = "exited"
  BY <1>5 DEF InputsInForce, Running
<1>6. ASSUME NEW j \in StatesNow(i), UNCHANGED pc, ~ model.rel[i].states[j].state,
             ss' = SetComponentToFailed(ss, c)
      PROVE  InputsInForce'
  <2>1. Part[c].kind # "Mover"
    <3>1. j \in DOMAIN model.rel[i].states
      BY DEF StatesNow
    <3> QED
      BY <1>1, <1>6, <3>1 DEF EveryChangeIsTold, ChangesAreTold
  <2>2. ss'.loadIdx = ss.loadIdx /\ ss'.down = ss.down \cup {c}
    BY <1>1, <1>6, FailedType DEF Kept
  <2>3. ActsFor(c, ss, ss')
    BY <1>1, <1>6, <2>1, FailureActs
  <2>4. \A d \in Comp \ ss'.down : d \notin ss.down /\ OwnFlowsKept(ss, ss', d)
    BY <2>2, <2>3, OthersKeepOwnFlows
  <2> QED
    BY <1>1, <1>3, <1>6, <2>2, <2>4, InputsStayInForce
<1>7. ASSUME NEW j \in StatesNow(i), UNCHANGED pc, model.rel[i].states[j].state,
             NEW k \in RepairedLoadConns(c),
             ss' = SetComponentToRepaired(model, ss, c, k)
      PROVE  InputsInForce'
  <2>1. Part[c].kind \notin {"PassThrough", "ScheduleBasedLoad", "ScheduleBasedSource"}
    <3>1. j \in DOMAIN model.rel[i].states
      BY DEF StatesNow
    <3> QED
      BY <1>1, <1>7, <3>1 DEF EveryChangeIsTold, ChangesAreTold
  <2>2. ss'.loadIdx = ss.loadIdx /\ ss'.down = ss.down \ {c}
    BY <1>1, <1>7, RepairedType DEF Kept
  <2>3. ActsFor(c, ss, ss')
    BY <1>1, <1>7, <2>1, RepairSees
  <2>4. /\ Part[c].kind = "ConstantLoad" => ConstantLoadIsAsked(c)'
        /\ Part[c].kind = "ConstantSource" => ConstantSourceOffers(c)'
    <3> DEFINE r == [ss EXCEPT !.down = @ \ {c}]
    <3>1. r \in State
      BY <1>1, MarkDownType DEF Kept
    <3>2. CASE Part[c].kind = "ConstantLoad"
      <4>1. ss' = Request(r, Inflow[c][0], Part[c].load) /\ Inflow[c][0] \in Conn
        BY <1>1, <1>7, <3>2, EndsOfEnds DEF SetComponentToRepaired
      <4> HIDE DEF r
      <4>2. ss'.req[Inflow[c][0]] = Part[c].load
        BY <3>1, <4>1, RequestGives
      <4> QED
        BY <3>2, <4>2 DEF ConstantLoadIsAsked
    <3>3. CASE Part[c].kind = "ConstantSource"
      <4>1. ss' = Offer(r, Outflow[c][0], Part[c].available) /\ Outflow[c][0] \in Conn
        BY <1>1, <1>7, <3>3, EndsOfEnds DEF SetComponentToRepaired
      <4> HIDE DEF r
      <4>2. ss'.avail[Outflow[c][0]] = Part[c].available
        BY <3>1, <4>1, OfferGives
      <4> QED
        BY <3>3, <4>2 DEF ConstantSourceOffers
    <3> QED
      BY <3>2, <3>3
  <2>5. \A d \in Comp \ ss'.down : d # c => d \notin ss.down /\ OwnFlowsKept(ss, ss', d)
    BY <2>2, <2>3, OthersKeepOwnFlows
  <2>6. /\ c \in Loads => FALSE
        /\ c \in OfKind("ConstantLoad") => ConstantLoadIsAsked(c)'
        /\ c \in OfKind("ConstantSource") => ConstantSourceOffers(c)'
    BY <2>1, <2>4 DEF Loads, OfKind
  <2> QED
    BY <1>1, <1>3, <1>7, <2>2, <2>5, <2>6, InputsStayInForce
<1> QED
  BY <1>2, <1>4, <1>5, <1>6, <1>7


LEMMA ActivateKeepsInputs ==
  ASSUME EveryChangeIsTold, IInv, InputsInForce, NEW c \in todo, Activate(c)
  PROVE  InputsInForce'
<1>1. /\ pc \in {"loads", "sources", "stores", "constantLoads", "constantSources"}
      /\ UNCHANGED <<model, t, pc>> /\ todo' = todo \ {c} /\ Running /\ ss \in State
  BY DEF Activate, Running, IInv, TypeOK
<1>2. /\ ss'.down = ss.down /\ ss'.loadIdx = ss.loadIdx
      /\ c \in Comp /\ ActsFor(c, ss, ss')
  BY ActivateHandles, ActivateActs DEF Handled
<1>3. ASSUME NEW d, d # c
      PROVE  /\ LoadIsDue(d) => LoadIsDue(d)'
             /\ ConstantLoadIsDue(d) => ConstantLoadIsDue(d)'
             /\ ConstantSourceIsDue(d) => ConstantSourceIsDue(d)'
  BY <1>1, <1>2, <1>3 DEF LoadIsDue, ConstantLoadIsDue, ConstantSourceIsDue, ScheduledNow
<1>4. \A d \in Comp \ ss.down : d # c => OwnFlowsKept(ss, ss', d)
  BY <1>2, OthersKeepOwnFlows
<1>5. ASSUME c \notin ss.down, c \in Loads
      PROVE  LoadIsAsked(c)'
  <2>1. pc = "loads" /\ ss' = ScheduledLoadAt(c)
    BY <1>1, <1>5, VisitsOfPhases DEF Activate, Loads, Sources, Stores, OfKind
  <2>2. Inflow[c][0] \in Conn
    BY <1>2, <1>5, EndsOfEnds DEF Loads, OfKind
  <2>3. CASE ScheduledNow(model.load[c], ss.loadIdx[c])
    <3>1. ss' = Request(ss, Inflow[c][0], model.load[c][ss.loadIdx[c]].amount)
      BY <2>1, <2>3 DEF ScheduledLoadAt
    <3>2. ss'.req[Inflow[c][0]] = model.load[c][ss.loadIdx[c]].amount
      BY <1>1, <2>2, <3>1, RequestGives
    <3> QED
      BY <1>1, <1>2, <3>2 DEF LoadIsAsked
  <2>4. CASE ~ ScheduledNow(model.load[c], ss.loadIdx[c])
    <3>1. ss' = ss /\ ~ LoadIsDue(c)
      BY <2>1, <2>4 DEF ScheduledLoadAt, LoadIsDue
    <3> QED
      BY <1>1, <1>5, <3>1 DEF InputsInForce, LoadIsAsked
  <2> QED
    BY <2>3, <2>4
<1>6. ASSUME c \in OfKind("ConstantLoad")
      PROVE  ConstantLoadIsAsked(c)'
  <2>1. ss' = Request(ss, Inflow[c][0], Part[c].load)
    BY <1>1, <1>6, VisitsOfPhases DEF Activate, Loads, Sources, Stores, OfKind
  <2>2. Inflow[c][0] \in Conn
    BY <1>2, <1>6, EndsOfEnds DEF OfKind
  <2> QED
    BY <1>1, <2>1, <2>2, RequestGives DEF ConstantLoadIsAsked
<1>7. ASSUME c \notin ss.down, c \in OfKind("ConstantSource")
      PROVE  ConstantSourceOffers(c)'
  <2>1. ss' = ConstantSourceAt(c)
    BY <1>1, <1>7, VisitsOfPhases DEF Activate, Loads, Sources, Stores, OfKind
  <2>2. Outflow[c][0] \in Conn
    BY <1>2, <1>7, EndsOfEnds DEF OfKind
  <2>3. ss' = Offer(ss, Outflow[c][0], Part[c].available)
    BY <1>7, <2>1 DEF ConstantSourceAt
  <2> QED
    BY <1>1, <2>2, <2>3, OfferGives DEF ConstantSourceOffers
<1> QED
  BY <1>1, <1>2, <1>3, <1>4, <1>5, <1>6, <1>7, InputsStayInForce

LEMMA FinalizeKeepsInputs ==
  ASSUME EveryChangeIsTold, IInv, InputsInForce, Finalize
  PROVE  InputsInForce'
<1>1. /\ ss \in State /\ Running /\ pc = "finalize" /\ UNCHANGED model
  BY DEF Finalize, IInv, TypeOK, Running
<1>2. ss'.down = ss.down /\ ss'.loadIdx = ss.loadIdx
  BY FinalizeHandles DEF Handled
<1> DEFINE IsWaste(k) == /\ Connection[k].from \in Stores
                         /\ Connection[k].fromPort = WastePort(Connection[k].from)
<1>3. \A k \in Conn : ~ IsWaste(k) => ss'.req[k] = ss.req[k] /\ ss'.avail[k] = ss.avail[k]
  <2> DEFINE f == FinalizeFlows(ss)
  <2>1. f.req = ss.req /\ f.avail = ss.avail /\ f \in State
    BY <1>1, FinalizeFlowsType DEF FinalizeFlows, Handled, State
  <2>2. ss' = RunStoresPostFinalization(f)
    BY DEF Finalize
  <2> HIDE DEF f
  <2> QED
    BY <2>1, <2>2 DEF RunStoresPostFinalization, State
<1>4. ASSUME NEW d \in Comp
      PROVE  OwnFlowsKept(ss, ss', d)
  <2>1. CASE Part[d].kind \in {"ScheduleBasedLoad", "ConstantLoad"}
    <3>1. Inflow[d][0] \in Conn /\ Connection[Inflow[d][0]].to = d
      BY <2>1, EndsOfEnds DEF Inflows
    <3>2. ~ IsWaste(Inflow[d][0])
      BY <2>1, <3>1 DEF Stores, OfKind, EveryChangeIsTold, WasteIsDisposedOf
    <3> QED
      BY <1>3, <2>1, <3>1, <3>2 DEF OwnFlowsKept
  <2>2. CASE Part[d].kind = "ConstantSource"
    <3>1. Outflow[d][0] \in Conn /\ Connection[Outflow[d][0]].from = d
      BY <2>2, EndsOfEnds DEF Outflows
    <3>2. ~ IsWaste(Outflow[d][0])
      BY <2>2, <3>1 DEF Stores, OfKind
    <3> QED
      BY <1>3, <2>2, <3>1, <3>2 DEF OwnFlowsKept
  <2>3. CASE Part[d].kind \notin EndKinds
    BY <2>3 DEF EndKinds, OwnFlowsKept
  <2> QED
    BY <2>1, <2>2, <2>3 DEF EndKinds
<1>5. \A d : ~ LoadIsDue(d) /\ ~ ConstantLoadIsDue(d) /\ ~ ConstantSourceIsDue(d)
  BY <1>1 DEF LoadIsDue, ConstantLoadIsDue, ConstantSourceIsDue
<1>6. \A d \in Comp \ ss'.down : d \notin ss.down /\ OwnFlowsKept(ss, ss', d)
  BY <1>2, <1>4
<1> HIDE DEF IsWaste
<1> QED
  BY <1>1, <1>2, <1>5, <1>6, InputsStayInForce

(* Where the loops of Simulate only move on, those still due are so after  *)
(* the step as well: a phase is left when it has come to all of them.      *)
LEMMA MovingOnKeepsInputs ==
  ASSUME EveryChangeIsTold, IInv, InputsInForce, Running,
         NextPhase \/ BeginRun \/ TakeBackward \/ TakeForward \/ EndBackward
           \/ EndForward \/ RunSwitchLogic \/ Record \/ UNCHANGED vars
  PROVE  InputsInForce'
<1>1. ss \in State
  BY DEF IInv, TypeOK
<1>2. /\ UNCHANGED <<model, t>> /\ ss'.down = ss.down /\ ss'.loadIdx = ss.loadIdx
      /\ ss'.req = ss.req /\ ss'.avail = ss.avail
  <2>1. CASE NextPhase \/ BeginRun \/ EndBackward \/ EndForward \/ Record
             \/ UNCHANGED vars
    BY <2>1 DEF NextPhase, BeginRun, EndBackward, EndForward, Record, vars
  <2>2. CASE TakeBackward \/ TakeForward
    BY <1>1, <2>2 DEF TakeBackward, TakeForward, State
  <2>3. CASE RunSwitchLogic
    BY <1>1, <2>3 DEF RunSwitchLogic, State
  <2> QED
    BY <2>1, <2>2, <2>3
<1>3. \A d : OwnFlowsKept(ss, ss', d)
  BY <1>2 DEF OwnFlowsKept
<1>4. CASE pc \notin DOMAIN PhaseAfter
  <2>1. \A d : ~ LoadIsDue(d) /\ ~ ConstantLoadIsDue(d) /\ ~ ConstantSourceIsDue(d)
    BY <1>4 DEF PhaseAfter, LoadIsDue, ConstantLoadIsDue, ConstantSourceIsDue
  <2> QED
    BY <1>2, <1>3, <2>1, InputsStayInForce
<1>5. CASE NextPhase
  <2>1. /\ todo = {} /\ pc \in DOMAIN PhaseAfter
        /\ pc' = PhaseAfter[pc] /\ todo' = ItemsOf(PhaseAfter[pc], t)
    BY <1>5 DEF NextPhase
  <2>2. ASSUME NEW d \in Loads, LoadIsDue(d) PROVE LoadIsDue(d)'
    <3>1. pc = "reliability"
      BY <2>1, <2>2 DEF LoadIsDue
    <3>2. pc' = "loads" /\ todo' = Loads
      BY <2>1, <3>1 DEF PhaseAfter, ItemsOf
    <3> QED
      BY <1>2, <2>2, <3>2 DEF LoadIsDue, ScheduledNow
  <2>3. ASSUME NEW d \in OfKind("ConstantLoad"), ConstantLoadIsDue(d)
        PROVE  ConstantLoadIsDue(d)'
    <3>1. t = 0 /\ pc \in {"reliability", "loads", "sources", "stores"}
      BY <2>1, <2>3 DEF ConstantLoadIsDue
    <3>2. \/ pc' \in {"loads", "sources", "stores"}
          \/ pc' = "constantLoads" /\ todo' = OfKind("ConstantLoad")
      BY <2>1, <3>1 DEF PhaseAfter, ItemsOf
    <3> QED
      BY <1>2, <3>1, <3>2 DEF ConstantLoadIsDue
  <2>4. ASSUME NEW d \in OfKind("ConstantSource"), ConstantSourceIsDue(d)
        PROVE  ConstantSourceIsDue(d)'
    <3>1. t = 0 /\ pc \in {"reliability", "loads", "sources", "stores", "constantLoads"}
      BY <2>1, <2>4 DEF ConstantSourceIsDue
    <3>2. \/ pc' \in {"loads", "sources", "stores", "constantLoads"}
          \/ pc' = "constantSources" /\ todo' = OfKind("ConstantSource")
      BY <2>1, <3>1 DEF PhaseAfter, ItemsOf
    <3> QED
      BY <1>2, <3>1, <3>2 DEF ConstantSourceIsDue
  <2> QED
    BY <1>2, <1>3, <2>2, <2>3, <2>4, InputsStayInForce
<1>6. CASE UNCHANGED vars
  BY <1>6 DEF vars, InputsInForce, LoadIsAsked, LoadIsDue, ConstantLoadIsAsked,
              ConstantLoadIsDue, ConstantSourceOffers, ConstantSourceIsDue,
              ScheduledNow, Running
<1>7. pc \in DOMAIN PhaseAfter => NextPhase \/ UNCHANGED vars
  BY DEF BeginRun, TakeBackward, TakeForward, EndBackward, EndForward,
         RunSwitchLogic, Record, PhaseAfter
<1> QED
  BY <1>4, <1>5, <1>6, <1>7

LEMMA AdvanceKeepsInputs ==
  ASSUME IInv, InputsInForce, Advance
  PROVE  InputsInForce'
<1>1. /\ ss \in State /\ Running /\ pc = "advance" /\ UNCHANGED model
      /\ pc' \in {"reliability", "assertionFailed"}
  BY DEF Advance, IInv, TypeOK, Running
<1>2. /\ ss'.req = ss.req /\ ss'.avail = ss.avail /\ ss'.down = ss.down
  BY <1>1 DEF Advance, State
<1>3. \A d : ~ LoadIsDue(d) /\ ~ ConstantLoadIsDue(d) /\ ~ ConstantSourceIsDue(d)
  BY <1>1 DEF LoadIsDue, ConstantLoadIsDue, ConstantSourceIsDue
<1>4. CASE pc' = "assertionFailed"
  BY <1>4 DEF InputsInForce, Running
<1>5. CASE pc' = "reliability"
  <2>1. PICK next \in NextEvents \cup {FinalTime} :
          /\ ss'.loadIdx = [c \in Loads |-> IndexAt(model.load[c], ss.loadIdx[c], next)]
          /\ t' = next
    BY <1>1, <1>5 DEF Advance, State
  <2>2. ASSUME NEW d \in Loads \ ss'.down PROVE LoadIsAsked(d)' \/ LoadIsDue(d)'
    <3>1. LoadIsAsked(d) /\ ss'.loadIdx[d] = IndexAt(model.load[d], ss.loadIdx[d], next)
      BY <1>1, <1>2, <1>3, <2>1 DEF InputsInForce
    <3>2. CASE ss'.loadIdx[d] = ss.loadIdx[d]
      BY <1>1, <1>2, <3>1, <3>2 DEF LoadIsAsked
    <3>3. CASE ss'.loadIdx[d] # ss.loadIdx[d]
      <4>1. /\ ss'.loadIdx[d] = ss.loadIdx[d] + 1
            /\ ss.loadIdx[d] + 1 <= Len(model.load[d])
            /\ model.load[d][ss.loadIdx[d] + 1].time = next
        BY <3>1, <3>3 DEF IndexAt
      <4> QED
        BY <1>1, <1>5, <2>1, <4>1 DEF LoadIsDue, ScheduledNow
    <3> QED
      BY <3>2, <3>3
  <2>3. /\ \A d \in OfKind("ConstantLoad") \ ss'.down : ConstantLoadIsAsked(d)'
        /\ \A d \in OfKind("ConstantSource") \ ss'.down : ConstantSourceOffers(d)'
    BY <1>1, <1>2, <1>3 DEF InputsInForce, ConstantLoadIsAsked, ConstantSourceOffers
  <2> QED
    BY <2>2, <2>3 DEF InputsInForce
<1> QED
  BY <1>1, <1>4, <1>5

LEMMA InputsInForceHolds ==
  ASSUME EveryChangeIsTold, LoadsBeginAtOnce
  PROVE  Spec => []InputsInForce
<1>1. Init => InputsInForce
  <2> SUFFICES ASSUME Init PROVE InputsInForce
    OBVIOUS
  <2>1. /\ model \in Models /\ pc = "reliability" /\ t = 0
        /\ ss.loadIdx = [c \in OfKind("ScheduleBasedLoad") |-> 1]
    BY DEF Init, InitialState
  <2>2. \A c \in Loads : LoadIsDue(c)
    <3>1. model \in ModelType
      BY <2>1, SimulationAssumption
    <3>2. \A c \in Loads : 1 <= Len(model.load[c])
      <4>1. \A c \in Loads : model.load[c] \in Seq([time : Nat, amount : Flow]) \ {<<>>}
        BY <3>1 DEF ModelType, Schedule
      <4> QED
        BY <4>1
    <3> QED
      BY <2>1, <3>2 DEF LoadsBeginAtOnce, LoadIsDue, ScheduledNow, Loads
  <2>3. \A c : ConstantLoadIsDue(c) /\ ConstantSourceIsDue(c)
    BY <2>1 DEF ConstantLoadIsDue, ConstantSourceIsDue
  <2> QED
    BY <2>2, <2>3 DEF InputsInForce
<1>2. IInv /\ EventInv /\ SolverInv /\ InputsInForce /\ [Next]_vars => InputsInForce'
  <2> SUFFICES ASSUME IInv, model \in Models, SolverInv, InputsInForce, [Next]_vars
               PROVE  InputsInForce'
    BY DEF EventInv
  <2>1. CASE ~ Running /\ UNCHANGED vars
    BY <2>1 DEF vars, InputsInForce, Running
  <2>2. CASE \E i \in todo : ActivateReliability(i)
    BY <2>2, ActivateReliabilityKeepsInputs
  <2>3. CASE \E c \in todo : Activate(c)
    BY <2>3, ActivateKeepsInputs
  <2>4. CASE \E k \in todo : StepBackward(k) \/ StepForward(k)
    BY <2>4, StepsKeepInputs
  <2>5. CASE Finalize
    BY <2>5, FinalizeKeepsInputs
  <2>6. CASE Advance
    BY <2>6, AdvanceKeepsInputs
  <2>7. CASE Running /\ (NextPhase \/ BeginRun \/ TakeBackward \/ TakeForward
               \/ EndBackward \/ EndForward \/ RunSwitchLogic \/ Record \/ UNCHANGED vars)
    BY <2>7, MovingOnKeepsInputs
  <2>8. NextPhase \/ BeginRun \/ TakeBackward \/ TakeForward \/ EndBackward
          \/ EndForward \/ RunSwitchLogic \/ Record => Running
    BY DEF NextPhase, BeginRun, TakeBackward, TakeForward, EndBackward, EndForward,
           RunSwitchLogic, Record, Running, PhaseAfter
  <2> QED
    BY <2>1, <2>2, <2>3, <2>4, <2>5, <2>6, <2>7, <2>8 DEF Next, Terminated
<1> QED
  BY <1>1, <1>2, IInvHolds, EventInvHolds, SolverInvHolds, PTL DEF Spec


LEMMA ValueStands ==
  ASSUME NEW schedule \in ScheduleOfFlows, Increasing(schedule), NEW now \in Nat,
         NEW i \in 1 .. Len(schedule), Stands(schedule, i, now),
         schedule[1].time <= now
  PROVE  ValueAt(schedule, now) = schedule[i].amount
<1> DEFINE past == {j \in DOMAIN schedule : schedule[j].time <= now}
<1>1. DOMAIN schedule = 1 .. Len(schedule) /\ Len(schedule) \in Nat
  BY DEF ScheduleOfFlows
<1>2. \A k \in 1 .. Len(schedule) : schedule[k].time \in Nat
  BY ScheduledAmount
<1>3. i \in past /\ past \subseteq 1 .. Len(schedule)
  <2>1. schedule[i].time <= now
    BY DEF Stands
  <2> QED
    BY <1>1, <2>1
<1>4. \A j \in past : j <= i
  <2> SUFFICES ASSUME NEW j \in past, j > i PROVE FALSE
    BY <1>1
  <2>1. j \in i + 1 .. Len(schedule) /\ schedule[j].time <= now
    BY <1>1
  <2>2. schedule[j].time > now
    BY <2>1 DEF Stands
  <2> QED
    BY <1>1, <1>2, <2>1, <2>2
<1> HIDE DEF past
<1>5. \A j \in past : (\A h \in past : h <= j) => j = i
  <2> SUFFICES ASSUME NEW j \in past, \A h \in past : h <= j PROVE j = i
    OBVIOUS
  <2>1. j <= i /\ i <= j /\ i \in Nat /\ j \in Nat
    BY <1>1, <1>3, <1>4
  <2> QED
    BY <2>1
<1>6. (CHOOSE j \in past : \A h \in past : h <= j) = i
  BY <1>3, <1>4, <1>5
<1> QED
  BY <1>3, <1>6 DEF ValueAt, past

(* At every recorded time the loads and the sources in service ask and     *)
(* offer what their schedules say for that time: in every network where    *)
(* every change is told, and whatever fails, no event of a load or a supply*)
(* is skipped, applied late or overwritten by a neighbour.                 *)
THEOREM SchedulesHold ==
  ASSUME EveryChangeIsTold, LoadsBeginAtOnce
  PROVE  Spec => []SchedulesAreFollowed
<1>1. IInv /\ EventInv /\ SolverInv /\ InputsInForce => SchedulesAreFollowed
  <2> SUFFICES ASSUME IInv, EventInv, SolverInv, InputsInForce, Settled
               PROVE  /\ \A c \in Loads \ ss.down :
                           ss.req[Inflow[c][0]] = ValueAt(model.load[c], t)
                      /\ \A c \in Sources \ ss.down :
                           ss.avail[Outflow[c][0]] =
                             AtMost(ValueAt(model.avail[c], t), Part[c].maxOutflow)
                      /\ \A c \in OfKind("ConstantLoad") \ ss.down :
                           ss.req[Inflow[c][0]] = Part[c].load
                      /\ \A c \in OfKind("ConstantSource") \ ss.down :
                           ss.avail[Outflow[c][0]] = Part[c].available
    BY DEF SchedulesAreFollowed
  <2>1. /\ SchedulesOfFlows(model) /\ IndicesInRange(model, ss) /\ t \in Nat
        /\ model \in Models /\ IndicesFollowTime /\ Running
    BY ModelSchedules DEF IInv, TypeOK, EventInv, Settled, Running
  <2>2. \A d : ~ LoadIsDue(d) /\ ~ ConstantLoadIsDue(d) /\ ~ ConstantSourceIsDue(d)
               /\ ~ SupplyIsDue(d)
    BY DEF Settled, LoadIsDue, ConstantLoadIsDue, ConstantSourceIsDue, SupplyIsDue
  <2>3. ASSUME NEW c \in Loads \ ss.down
        PROVE  ss.req[Inflow[c][0]] = ValueAt(model.load[c], t)
    <3>1. /\ model.load[c] \in ScheduleOfFlows /\ Increasing(model.load[c])
          /\ ss.loadIdx[c] \in 1 .. Len(model.load[c])
          /\ Stands(model.load[c], ss.loadIdx[c], t)
          /\ model.load[c][1].time <= t
      BY <2>1, SimulationAssumption
         DEF SchedulesOfFlows, IndicesInRange, IndicesFollowTime, LoadsBeginAtOnce, Loads
    <3>2. ValueAt(model.load[c], t) = model.load[c][ss.loadIdx[c]].amount
      BY <2>1, <3>1, ValueStands
    <3> QED
      BY <2>1, <2>2, <3>2 DEF InputsInForce, LoadIsAsked
  <2>4. ASSUME NEW c \in Sources \ ss.down
        PROVE  ss.avail[Outflow[c][0]] =
                 AtMost(ValueAt(model.avail[c], t), Part[c].maxOutflow)
    <3>1. /\ model.avail[c] \in ScheduleOfFlows /\ Increasing(model.avail[c])
          /\ ss.srcIdx[c] \in 1 .. Len(model.avail[c])
          /\ Stands(model.avail[c], ss.srcIdx[c], t)
          /\ model.avail[c][1].time <= t
      BY <2>1, SimulationAssumption
         DEF SchedulesOfFlows, IndicesInRange, IndicesFollowTime, EveryChangeIsTold,
             ChangesAreTold, Sources
    <3>2. ValueAt(model.avail[c], t) = model.avail[c][ss.srcIdx[c]].amount
      BY <2>1, <3>1, ValueStands
    <3>3. c \in Comp \ ss.down /\ Part[c].kind = "ScheduleBasedSource"
      BY DEF Sources, OfKind
    <3>4. UpToDate(model, ss, c, PendingBack, PendingFront)
      BY <2>1, <2>2, <3>3 DEF SolverInv, EveryoneIsTold, Running
    <3>5. OffersRight(model, ss, c)
      BY <3>3, <3>4 DEF UpToDate, OfferBack, OfferFront, Awaits
    <3> QED
      BY <3>2, <3>3, <3>5 DEF OffersRight, Supplied
  <2>5. \A c \in OfKind("ConstantLoad") \ ss.down : ss.req[Inflow[c][0]] = Part[c].load
    BY <2>1, <2>2 DEF InputsInForce, ConstantLoadIsAsked
  <2>6. \A c \in OfKind("ConstantSource") \ ss.down :
          ss.avail[Outflow[c][0]] = Part[c].available
    BY <2>1, <2>2 DEF InputsInForce, ConstantSourceOffers
  <2> QED
    BY <2>3, <2>4, <2>5, <2>6
<1> QED
  BY <1>1, IInvHolds, EventInvHolds, SolverInvHolds, InputsInForceHolds, PTL



-----------------------------------------------------------------------------
(* Components out of service carry nothing.                                *)

(* A component out of service asks for nothing and offers nothing, save    *)
(* for a constant load, which may still ask where nothing is available or  *)
(* where it is about to be called.                                         *)
TakesNothing(c) ==
  \A k \in Inflows(c) :
    \/ ss.req[k] = 0
    \/ Part[c].kind = "ConstantLoad" /\ (ss.avail[k] = 0 \/ k \in PendingFront)

GivesNothing(c) == \A k \in Outflows(c) : ss.avail[k] = 0

CarriesNothing(c) == TakesNothing(c) /\ GivesNothing(c)

(* Before the solver runs for the first time no constant load is offered   *)
(* anything that it will not be told of.                                   *)
NothingComesYet ==
  t = 0 /\ pc \in DOMAIN PhaseAfter =>
    \A k \in Conn : Part[Connection[k].to].kind = "ConstantLoad" =>
      ss.avail[k] = 0 \/ k \in ss.front

ConstantLoadsAtOnce == pc = "constantLoads" /\ todo # {} => t = 0

CanBeDown(c) == CanFail(c) /\ Part[c].kind \notin {"ScheduleBasedLoad", "Mover"}

DownInv ==
  /\ \A c \in ss.down : CanBeDown(c) /\ CarriesNothing(c)
  /\ NothingComesYet
  /\ ConstantLoadsAtOnce

LEMMA KindsDown ==
  ASSUME NEW c, CanBeDown(c)
  PROVE  Part[c].kind \in {"ConstantLoad", "ConstantSource", "Converter", "Mux",
                           "Store", "PassThrough"}
  BY DEF CanBeDown, CanFail

(* Whatever another component does, and whether or not the step belongs to *)
(* a pass, a component that carries nothing still carries nothing.         *)
LEMMA OthersStillCarryNothing ==
  ASSUME NEW c, ActsFor(c, ss, ss'), NEW d \in Comp, d # c, CanBeDown(d),
         CarriesNothing(d),
         \A k \in Inflows(d) : k \in PendingFront \cup ss'.front => k \in PendingFront'
  PROVE  CarriesNothing(d)'
<1>1. HasBeenTold(d, ss, ss')
  BY KindsDown, OthersHaveBeenTold DEF Passive
<1>2. ASSUME NEW k \in Inflows(d)
      PROVE  \/ ss'.req[k] = 0
             \/ Part[d].kind = "ConstantLoad" /\ (ss'.avail[k] = 0 \/ k \in PendingFront')
  BY <1>1 DEF HasBeenTold, CarriesNothing, TakesNothing
<1>3. \A k \in Outflows(d) : ss'.avail[k] = 0
  BY <1>1 DEF HasBeenTold, CarriesNothing, GivesNothing
<1> QED
  BY <1>2, <1>3 DEF CarriesNothing, TakesNothing, GivesNothing

LEMMA FailureStops ==
  ASSUME EveryChangeIsTold, ConvertersAreWired, NEW s \in State, NEW c \in Comp,
         CanBeDown(c)
  PROVE  LET r == SetComponentToFailed(s, c)
         IN  /\ \A k \in Inflows(c) : r.req[k] = 0
             /\ \A k \in Outflows(c) : r.avail[k] = 0
<1> DEFINE f     == [s EXCEPT !.down = @ \cup {c}]
           ins   == Inflows(c)
           outs  == Outflows(c)
           waste == {k \in outs : Connection[k].fromPort = WastePort(c)}
<1>1. f \in State /\ ins \subseteq Conn /\ outs \subseteq Conn
  BY MarkDownType, EndsAreConnections DEF Kept
<1>2. /\ \A S : DOMAIN ZeroAt(S) = S
      /\ \A S : \A k \in S : ZeroAt(S)[k] = 0
  BY DEF ZeroAt
<1>3. CASE Part[c].kind \in {"ConstantLoad", "ConstantSource", "Mux", "PassThrough"}
  <2>1. SetComponentToFailed(s, c) = OfferEach(RequestEach(f, ZeroAt(ins)), ZeroAt(outs))
    BY <1>3 DEF SetComponentToFailed
  <2> HIDE DEF f, ins, outs
  <2> DEFINE q == RequestEach(f, ZeroAt(ins))
  <2>2. q \in State /\ \A k \in ins : q.req[k] = 0
    <3>1. q \in State
      BY <1>1, RequestEachType, ZeroAtType DEF Handled
    <3> QED
      BY <1>1, <1>2, <3>1, RequestEachGives
  <2> HIDE DEF q
  <2>3. LET r == OfferEach(q, ZeroAt(outs)) IN
        r.req = q.req /\ \A k \in outs : r.avail[k] = 0
    BY <1>1, <1>2, <2>2, OfferEachGives
  <2> QED
    BY <2>1, <2>2, <2>3 DEF q, ins, outs
<1>4. CASE Part[c].kind = "Converter"
  <2> DEFINE in  == Inflow[c][0]
             w   == Outflow[c][WastePort(c)]
  <2>1. SetComponentToFailed(s, c) =
          Spill(OfferEach(Request(f, in, 0), ZeroAt(outs \ waste)), w, 0)
    BY <1>4 DEF SetComponentToFailed
  <2>2. in \in Conn /\ w \in Conn /\ ins \subseteq {in} /\ waste \subseteq {w}
    <3>1. in \in Conn /\ w \in Conn
      BY <1>4, FirstEnds, WasteEnd DEF EveryChangeIsTold
    <3>2. \A k \in ins : k = in
      BY <1>4 DEF ConvertersAreWired, Inflows
    <3>3. \A k \in waste : k = w
      BY <1>4 DEF ConvertersAreWired, Outflows
    <3> QED
      BY <3>1, <3>2, <3>3
  <2>3. w \notin ins
    BY <1>4, <2>2, WasteEnd DEF EveryChangeIsTold, Inflows
  <2>4. DOMAIN ZeroAt(outs \ waste) \subseteq Conn /\ outs \ waste \subseteq Conn
    BY <1>1, ZeroAtType
  <2> HIDE DEF f, ins, outs, waste, in, w
  <2> DEFINE q == Request(f, in, 0)
             p == OfferEach(q, ZeroAt(outs \ waste))
  <2>5. q \in State /\ q.req[in] = 0
    <3>1. q \in State
      BY <1>1, <2>2, RequestType, FlowIsNat DEF Handled
    <3> QED
      BY <1>1, <2>2, <3>1, RequestGives
  <2> HIDE DEF q
  <2>6. p \in State /\ p.req = q.req /\ \A k \in outs \ waste : p.avail[k] = 0
    <3>1. p \in State
      BY <1>1, <2>4, <2>5, OfferEachType, ZeroAtType DEF Handled
    <3> QED
      BY <1>2, <2>4, <2>5, <3>1, OfferEachGives
  <2> HIDE DEF p
  <2>7. LET r == Spill(p, w, 0) IN
        \A j \in Conn : /\ r.req[j] = IF j = w THEN 0 ELSE p.req[j]
                        /\ r.avail[j] = IF j = w THEN 0 ELSE p.avail[j]
    BY <2>2, <2>6, SpillGives
  <2>8. LET r == Spill(p, w, 0) IN
        /\ \A k \in ins : r.req[k] = 0
        /\ \A k \in outs : r.avail[k] = 0
    BY <1>1, <2>2, <2>5, <2>6, <2>7
  <2> QED
    BY <2>1, <2>8 DEF p, q, ins, outs
<1>5. CASE Part[c].kind = "Store"
  <2>1. SetComponentToFailed(s, c) =
          ClearFlows(OfferEach(RequestEach(f, ZeroAt(ins)), ZeroAt(outs \ waste)), waste)
    BY <1>5 DEF SetComponentToFailed
  <2>2. outs \ waste \subseteq Conn
    BY <1>1
  <2> HIDE DEF f, ins, outs, waste
  <2> DEFINE q == RequestEach(f, ZeroAt(ins))
             p == OfferEach(q, ZeroAt(outs \ waste))
  <2>3. q \in State /\ \A k \in ins : q.req[k] = 0
    <3>1. q \in State
      BY <1>1, RequestEachType, ZeroAtType DEF Handled
    <3> QED
      BY <1>1, <1>2, <3>1, RequestEachGives
  <2> HIDE DEF q
  <2>4. p.req = q.req /\ \A k \in outs \ waste : p.avail[k] = 0
    BY <1>2, <2>2, <2>3, OfferEachGives
  <2>5. p \in State
    BY <2>2, <2>3, OfferEachType, ZeroAtType DEF Handled
  <2> HIDE DEF p
  <2>6. LET r == ClearFlows(p, waste) IN
        \A k \in Conn : /\ r.req[k] = IF k \in waste THEN 0 ELSE p.req[k]
                        /\ r.avail[k] = IF k \in waste THEN 0 ELSE p.avail[k]
    BY <2>5 DEF ClearFlows, State
  <2>7. LET r == ClearFlows(p, waste) IN
        /\ \A k \in ins : r.req[k] = 0
        /\ \A k \in outs : r.avail[k] = 0
    BY <1>1, <2>3, <2>4, <2>6
  <2> QED
    BY <2>1, <2>7 DEF p, q, ins, outs
<1> QED
  BY <1>3, <1>4, <1>5, KindsDown



LEMMA StillNothingComes ==
  ASSUME NothingComesYet, pc \in DOMAIN PhaseAfter, UNCHANGED t,
         NEW c, ActsFor(c, ss, ss')
  PROVE  NothingComesYet'
<1> SUFFICES ASSUME t = 0, NEW k \in Conn, Part[Connection[k].to].kind = "ConstantLoad"
             PROVE  ss'.avail[k] = 0 \/ k \in ss'.front
  BY DEF NothingComesYet
<1>1. ~ Private(c, k)
  BY DEF Private
<1>2. ss'.avail[k] = ss.avail[k] \/ k \in ss'.front
  BY <1>1 DEF ActsFor
<1>3. ss.avail[k] = 0 \/ k \in ss'.front
  BY DEF NothingComesYet, ActsFor
<1> QED
  BY <1>2, <1>3

LEMMA ActivateReliabilityKeepsDownInv ==
  ASSUME EveryChangeIsTold, ConvertersAreWired, ScheduledLoadsDoNotFail,
         IInv, model \in Models, DownInv, NEW i \in todo, ActivateReliability(i)
  PROVE  DownInv'
<1>1. PICK c \in Comp :
        /\ c = model.rel[i].comp
        /\ pc = "reliability" /\ UNCHANGED <<model, t>>
        /\ i \in DOMAIN model.rel /\ ss \in State /\ ss.down \subseteq Comp
        /\ SchedulesOfFlows(model) /\ IndicesInRange(model, ss)
  BY VisitsOfPhases, ModelSchedules DEF ActivateReliability, IInv, TypeOK, State
<1>2. \/ UNCHANGED <<ss, pc>>
      \/ pc' = "exited" /\ UNCHANGED <<ss, todo>>
      \/ \E j \in StatesNow(i) :
           /\ UNCHANGED pc /\ CanFail(c)
           /\ ~ model.rel[i].states[j].state
           /\ ss' = SetComponentToFailed(ss, c)
      \/ \E j \in StatesNow(i) :
           /\ UNCHANGED pc
           /\ model.rel[i].states[j].state
           /\ \E k \in RepairedLoadConns(c) : ss' = SetComponentToRepaired(model, ss, c, k)
  BY <1>1 DEF ActivateReliability
<1>3. CASE UNCHANGED ss
  <2>1. NothingComesYet'
    BY <1>1, <1>2, <1>3 DEF DownInv, NothingComesYet, PhaseAfter
  <2>2. pc' \in {"reliability", "exited"}
    BY <1>1, <1>2
  <2>3. PendingFront' = PendingFront
    BY <1>1, <1>3, <2>2 DEF PendingFront
  <2> QED
    BY <1>3, <2>1, <2>2, <2>3
       DEF DownInv, CarriesNothing, TakesNothing, GivesNothing, ConstantLoadsAtOnce
<1>4. ASSUME UNCHANGED pc, ActsFor(c, ss, ss'), ss'.down \subseteq ss.down \cup {c},
             c \in ss'.down => /\ CanBeDown(c)
                               /\ \A k \in Inflows(c) : ss'.req[k] = 0
                               /\ \A k \in Outflows(c) : ss'.avail[k] = 0
      PROVE  DownInv'
  <2>1. PendingFront = ss.front /\ PendingFront' = ss'.front
    BY <1>1, <1>4 DEF PendingFront
  <2>2. NothingComesYet' /\ ConstantLoadsAtOnce'
    BY <1>1, <1>4, StillNothingComes DEF DownInv, ConstantLoadsAtOnce, PhaseAfter
  <2>3. ASSUME NEW d \in ss'.down, d # c PROVE CanBeDown(d) /\ CarriesNothing(d)'
    <3>1. d \in ss.down /\ d \in Comp /\ CanBeDown(d) /\ CarriesNothing(d)
      BY <1>1, <1>4, <2>3 DEF DownInv
    <3>2. PendingFront \cup ss'.front \subseteq PendingFront'
      BY <1>4, <2>1 DEF ActsFor
    <3> QED
      BY <1>4, <2>3, <3>1, <3>2, OthersStillCarryNothing
  <2>4. c \in ss'.down => CanBeDown(c) /\ CarriesNothing(c)'
    BY <1>4 DEF CarriesNothing, TakesNothing, GivesNothing
  <2> QED
    BY <2>2, <2>3, <2>4 DEF DownInv, CanBeDown
<1>5. ASSUME NEW j \in StatesNow(i), UNCHANGED pc, CanFail(c),
             ~ model.rel[i].states[j].state, ss' = SetComponentToFailed(ss, c)
      PROVE  DownInv'
  <2>1. j \in DOMAIN model.rel[i].states
    BY DEF StatesNow
  <2>2. CanBeDown(c)
    BY <1>1, <1>5, <2>1
       DEF CanBeDown, EveryChangeIsTold, ChangesAreTold, ScheduledLoadsDoNotFail
  <2>3. ActsFor(c, ss, ss')
    BY <1>1, <1>5, <2>2, FailureActs DEF CanBeDown
  <2>4. ss'.down = ss.down \cup {c}
    BY <1>1, <1>5, FailedType
  <2>5. /\ \A k \in Inflows(c) : ss'.req[k] = 0
        /\ \A k \in Outflows(c) : ss'.avail[k] = 0
    BY <1>1, <1>5, <2>2, FailureStops
  <2> QED
    BY <1>4, <1>5, <2>2, <2>3, <2>4, <2>5
<1>6. ASSUME NEW j \in StatesNow(i), UNCHANGED pc, model.rel[i].states[j].state,
             NEW k \in RepairedLoadConns(c),
             ss' = SetComponentToRepaired(model, ss, c, k)
      PROVE  DownInv'
  <2>1. j \in DOMAIN model.rel[i].states
    BY DEF StatesNow
  <2>2. Part[c].kind \notin {"PassThrough", "ScheduleBasedLoad", "ScheduleBasedSource"}
    BY <1>1, <1>6, <2>1 DEF EveryChangeIsTold, ChangesAreTold
  <2>3. ActsFor(c, ss, ss')
    BY <1>1, <1>6, <2>2, RepairSees
  <2>4. ss'.down = ss.down \ {c}
    BY <1>1, <1>6, RepairedType
  <2> QED
    BY <1>4, <1>6, <2>3, <2>4
<1> QED
  BY <1>2, <1>3, <1>5, <1>6

(* The activation of a component that is out of service.                   *)
LEMMA ActivatedOutOfService ==
  ASSUME IInv, DownInv, NEW c \in todo, Activate(c), c \in ss.down
  PROVE  CarriesNothing(c)'
<1>1. /\ ss \in State /\ ss.down \subseteq Comp /\ UNCHANGED pc
      /\ pc \in {"loads", "sources", "stores", "constantLoads", "constantSources"}
  BY DEF Activate, IInv, TypeOK, State
<1>2. /\ c \in Comp /\ CanBeDown(c) /\ CarriesNothing(c)
      /\ PendingFront = ss.front /\ PendingFront' = ss'.front
  BY <1>1 DEF DownInv, PendingFront
<1>3. CASE pc = "stores" /\ Part[c].kind = "Store"
  <2> DEFINE out == Outflow[c][0]
             q   == IF HasInflow(c, 0) THEN Request(ss, Inflow[c][0], 0) ELSE ss
  <2>1. ss' = Offer(q, out, 0)
    BY <1>3 DEF Activate, StoreAt
  <2>2. out \in Conn /\ (HasInflow(c, 0) => Inflow[c][0] \in Conn)
    BY <1>2, <1>3, KnownKind, InflowType, OutflowType DEF WellConnected
  <2>3. /\ \A k \in Conn : q.req[k] = 0 \/ q.req[k] = ss.req[k]
        /\ q.avail = ss.avail /\ q \in State
    BY <1>1, <2>2, RequestGives, RequestType, FlowIsNat DEF Handled
  <2> HIDE DEF out, q
  <2>4. /\ ss'.req = q.req
        /\ \A k \in Conn : ss'.avail[k] = 0 \/ ss'.avail[k] = q.avail[k]
    BY <2>1, <2>2, <2>3, OfferGives
  <2>5. \A k \in Inflows(c) : ss'.req[k] = 0
    BY <1>2, <1>3, <2>3, <2>4 DEF CarriesNothing, TakesNothing, Inflows
  <2>6. \A k \in Outflows(c) : ss'.avail[k] = 0
    BY <1>2, <2>3, <2>4 DEF CarriesNothing, GivesNothing, Outflows
  <2> QED
    BY <2>5, <2>6 DEF CarriesNothing, TakesNothing, GivesNothing
<1>4. CASE pc = "constantLoads" /\ Part[c].kind = "ConstantLoad"
  <2>1. ss' = Request(ss, Inflow[c][0], Part[c].load)
    BY <1>4 DEF Activate
  <2>2. Inflow[c][0] \in Conn
    BY <1>2, <1>4, KnownKind, InflowType DEF WellConnected
  <2>3. ss'.avail = ss.avail /\ ss'.front = ss.front
    BY <1>1, <2>1, <2>2, RequestGives
  <2>4. t = 0
    BY <1>4 DEF DownInv, ConstantLoadsAtOnce
  <2>5. \A k \in Inflows(c) : ss.avail[k] = 0 \/ k \in ss.front
    BY <1>4, <2>4 DEF DownInv, NothingComesYet, PhaseAfter, Inflows
  <2> QED
    BY <1>2, <1>4, <2>3, <2>5 DEF CarriesNothing, TakesNothing, GivesNothing
<1>5. CASE pc = "constantSources" /\ Part[c].kind = "ConstantSource"
  <2>1. ss' = Offer(ss, Outflow[c][0], 0)
    BY <1>5 DEF Activate, ConstantSourceAt
  <2>2. Outflow[c][0] \in Conn
    BY <1>2, <1>5, KnownKind, OutflowType DEF WellConnected
  <2>3. /\ ss'.req = ss.req
        /\ \A k \in Conn : ss'.avail[k] = 0 \/ ss'.avail[k] = ss.avail[k]
    BY <1>1, <2>1, <2>2, OfferGives
  <2>4. \A k \in Inflows(c) : ss'.req[k] = 0
    BY <1>2, <1>5, <2>3 DEF CarriesNothing, TakesNothing
  <2>5. \A k \in Outflows(c) : ss'.avail[k] = 0
    BY <1>2, <2>3 DEF CarriesNothing, GivesNothing, Outflows
  <2> QED
    BY <2>4, <2>5 DEF CarriesNothing, TakesNothing, GivesNothing
<1> QED
  BY <1>1, <1>2, <1>3, <1>4, <1>5, KindsDown, VisitsOfPhases
     DEF Loads, Sources, Stores, OfKind


LEMMA ActivateKeepsDownInv ==
  ASSUME EveryChangeIsTold, IInv, DownInv, NEW c \in todo, Activate(c)
  PROVE  DownInv'
<1>1. /\ UNCHANGED <<t, pc>> /\ todo' = todo \ {c} /\ ss.down \subseteq Comp
      /\ pc \in {"loads", "sources", "stores", "constantLoads", "constantSources"}
      /\ ss'.down = ss.down /\ ActsFor(c, ss, ss')
  BY ActivateHandles, ActivateActs DEF Activate, Handled, IInv, TypeOK, State
<1>2. PendingFront = ss.front /\ PendingFront' = ss'.front
  BY <1>1 DEF PendingFront
<1>3. NothingComesYet' /\ ConstantLoadsAtOnce'
  BY <1>1, StillNothingComes DEF DownInv, ConstantLoadsAtOnce, PhaseAfter
<1>4. ASSUME NEW d \in ss.down, d # c PROVE CarriesNothing(d)'
  <2>1. d \in Comp /\ CanBeDown(d) /\ CarriesNothing(d)
    BY <1>1 DEF DownInv
  <2>2. PendingFront \cup ss'.front \subseteq PendingFront'
    BY <1>1, <1>2 DEF ActsFor
  <2> QED
    BY <1>1, <1>4, <2>1, <2>2, OthersStillCarryNothing
<1>5. c \in ss.down => CarriesNothing(c)'
  BY ActivatedOutOfService
<1> QED
  BY <1>1, <1>3, <1>4, <1>5 DEF DownInv, CanBeDown

LEMMA StepsKeepDownInv ==
  ASSUME EveryChangeIsTold, ConvertersAreWired, IInv, SolverInv, DownInv,
         NEW k \in todo, StepBackward(k) \/ StepForward(k)
  PROVE  DownInv'
<1>1. PICK c \in Comp :
        /\ c = IF pc = "backward" THEN Connection[k].from ELSE Connection[k].to
        /\ k \in Conn /\ ActsFor(c, ss, ss')
        /\ c \in ss.down => ss' = SetComponentToFailed(ss, c)
  BY StepsAct
<1>2. /\ pc \in {"backward", "forward"} /\ UNCHANGED pc /\ todo' = todo \ {k}
      /\ ss'.down = ss.down /\ ss.down \subseteq Comp /\ ss \in State
      /\ pc = "forward" => c = Connection[k].to
  BY <1>1, StepHandles DEF StepBackward, StepForward, Handled, IInv, TypeOK, State
<1>3. ASSUME NEW d \in ss.down, d # c PROVE CarriesNothing(d)'
  <2>1. d \in Comp /\ CanBeDown(d) /\ CarriesNothing(d)
    BY <1>2 DEF DownInv
  <2>2. ASSUME NEW j \in Inflows(d), j \in PendingFront \cup ss'.front
        PROVE  j \in PendingFront'
    <3>1. pc = "forward" => j # k
      BY <1>2, <1>3 DEF Inflows
    <3> QED
      BY <1>1, <1>2, <2>2, <3>1 DEF PendingFront, ActsFor
  <2> QED
    BY <1>1, <1>3, <2>1, <2>2, OthersStillCarryNothing
<1>4. c \in ss.down => CarriesNothing(c)'
  <2> SUFFICES ASSUME c \in ss.down PROVE CarriesNothing(c)'
    OBVIOUS
  <2>1. CanBeDown(c) /\ ss' = SetComponentToFailed(ss, c)
    BY <1>1 DEF DownInv
  <2>2. /\ \A j \in Inflows(c) : ss'.req[j] = 0
        /\ \A j \in Outflows(c) : ss'.avail[j] = 0
    BY <1>1, <1>2, <2>1, FailureStops
  <2> QED
    BY <2>2 DEF CarriesNothing, TakesNothing, GivesNothing
<1>5. NothingComesYet' /\ ConstantLoadsAtOnce'
  BY <1>2 DEF NothingComesYet, ConstantLoadsAtOnce, PhaseAfter
<1> QED
  BY <1>2, <1>3, <1>4, <1>5 DEF DownInv, CanBeDown

(* What RunStorePostFinalization writes to the waste of a store is nothing *)
(* when the store takes nothing.                                           *)
LEMMA FinalizeChanges ==
  ASSUME IInv, Finalize
  PROVE  LET IsWaste(k) == /\ Connection[k].from \in Stores
                           /\ Connection[k].fromPort = WastePort(Connection[k].from)
             wasted(k)  == StoreWaste(FinalizeFlows(ss), Connection[k].from)
         IN  \A k \in Conn :
               /\ IsWaste(k) => /\ ss'.req[k] = wasted(k) /\ ss'.avail[k] = wasted(k)
                                /\ ss'.actual[k] = wasted(k)
               /\ ~ IsWaste(k) =>
                    /\ ss'.req[k] = ss.req[k] /\ ss'.avail[k] = ss.avail[k]
                    /\ ss'.actual[k] = FinalizeFlowValue(ss.req[k], ss.avail[k])
<1>1. ss \in State
  BY DEF IInv, TypeOK
<1> DEFINE f == FinalizeFlows(ss)
<1>2. /\ f.req = ss.req /\ f.avail = ss.avail /\ f \in State
      /\ \A k \in Conn : f.actual[k] = FinalizeFlowValue(ss.req[k], ss.avail[k])
  BY <1>1, FinalizeFlowsType DEF FinalizeFlows, Handled, State
<1>3. ss' = RunStoresPostFinalization(f)
  BY DEF Finalize
<1> HIDE DEF f
<1> QED
  BY <1>2, <1>3 DEF RunStoresPostFinalization, State, f

LEMMA NothingTakenNothingWasted ==
  ASSUME NEW s \in State, NEW c \in Stores, \A k \in Inflows(c) : s.req[k] = 0
  PROVE  StoreWaste(FinalizeFlows(s), c) = 0
<1> DEFINE f == FinalizeFlows(s)
<1>1. f \in State /\ \A k \in Conn : f.actual[k] = FinalizeFlowValue(s.req[k], s.avail[k])
  BY FinalizeFlowsType DEF FinalizeFlows, Handled, State
<1> HIDE DEF f
<1>2. c \in Comp /\ Part[c].kind = "Store"
  BY DEF Stores, OfKind
<1>3. HasInflow(c, 0) => f.actual[Inflow[c][0]] = 0
  <2> SUFFICES ASSUME HasInflow(c, 0) PROVE f.actual[Inflow[c][0]] = 0
    OBVIOUS
  <2>1. Inflow[c][0] \in Conn /\ Inflow[c][0] \in Inflows(c)
    BY <1>2, InflowType DEF Inflows
  <2>2. s.req[Inflow[c][0]] = 0 /\ s.avail[Inflow[c][0]] \in Nat
    BY <2>1, FlowIsNat DEF State
  <2> QED
    BY <1>1, <2>1, <2>2 DEF FinalizeFlowValue
<1>4. f.actual[Outflow[c][0]] \in Nat
  <2>1. Outflow[c][0] \in Conn
    BY <1>2, KnownKind, OutflowType DEF WellConnected
  <2> QED
    BY <1>1, <2>1, FlowIsNat DEF State
<1>5. ~ NetCharge(f, c) > 0
  BY <1>3, <1>4 DEF NetCharge
<1> QED
  BY <1>5 DEF StoreWaste, f

LEMMA FinalizeKeepsDownInv ==
  ASSUME EveryChangeIsTold, IInv, DownInv, Finalize
  PROVE  DownInv'
<1>1. /\ pc = "finalize" /\ pc' \in {"switches", "loop"}
      /\ ss \in State /\ ss.down \subseteq Comp
      /\ ss'.down = ss.down /\ ss'.front = ss.front
  <2>1. pc = "finalize" /\ pc' \in {"switches", "loop"} /\ ss \in State
    BY DEF Finalize, IInv, TypeOK
  <2>2. ss'.down = ss.down
    BY FinalizeHandles DEF Handled
  <2>3. ss'.front = ss.front
    BY <2>1 DEF Finalize, RunStoresPostFinalization, FinalizeFlows, State
  <2> QED
    BY <2>1, <2>2, <2>3 DEF State
<1>2. PendingFront = ss.front /\ PendingFront' = ss.front
  BY <1>1 DEF PendingFront
<1>3. ASSUME NEW d \in ss.down PROVE CarriesNothing(d)'
  <2>1. d \in Comp /\ CanBeDown(d) /\ CarriesNothing(d)
    BY <1>1 DEF DownInv
  <2>2. Part[d].kind # "WasteSink"
    BY <2>1, KindsDown
  <2> DEFINE IsWaste(k) == /\ Connection[k].from \in Stores
                           /\ Connection[k].fromPort = WastePort(Connection[k].from)
  <2>3. \A k \in Inflows(d) : ~ IsWaste(k)
    BY <2>2 DEF Inflows, Stores, OfKind, EveryChangeIsTold, WasteIsDisposedOf
  <2>4. \A k \in Inflows(d) : ss'.req[k] = ss.req[k] /\ ss'.avail[k] = ss.avail[k]
    BY <2>3, FinalizeChanges DEF Inflows
  <2>5. TakesNothing(d)'
    BY <1>2, <2>1, <2>4 DEF CarriesNothing, TakesNothing
  <2>6. ASSUME NEW k \in Outflows(d) PROVE ss'.avail[k] = 0
    <3>1. k \in Conn /\ Connection[k].from = d
      BY DEF Outflows
    <3>2. CASE ~ IsWaste(k)
      BY <2>1, <3>1, <3>2, FinalizeChanges DEF CarriesNothing, GivesNothing
    <3>3. CASE IsWaste(k)
      <4>1. d \in Stores /\ ss'.avail[k] = StoreWaste(FinalizeFlows(ss), d)
        BY <3>1, <3>3, FinalizeChanges
      <4>2. \A j \in Inflows(d) : ss.req[j] = 0
        BY <2>1, <4>1 DEF CarriesNothing, TakesNothing, Stores, OfKind
      <4> QED
        BY <1>1, <4>1, <4>2, NothingTakenNothingWasted
    <3> QED
      BY <3>2, <3>3
  <2> QED
    BY <2>5, <2>6 DEF CarriesNothing, GivesNothing
<1>4. NothingComesYet' /\ ConstantLoadsAtOnce'
  BY <1>1 DEF NothingComesYet, ConstantLoadsAtOnce, PhaseAfter
<1> QED
  BY <1>1, <1>3, <1>4 DEF DownInv, CanBeDown

LEMMA MovingOnKeepsDownInv ==
  ASSUME IInv, EventInv, DownInv,
         NextPhase \/ BeginRun \/ TakeBackward \/ TakeForward \/ EndBackward
           \/ EndForward \/ RunSwitchLogic \/ Record \/ Advance \/ UNCHANGED vars
  PROVE  DownInv'
<1>1. ss \in State
  BY DEF IInv, TypeOK
<1>2. /\ ss'.down = ss.down /\ ss'.req = ss.req /\ ss'.avail = ss.avail
      /\ PendingFront \subseteq PendingFront'
  <2>1. CASE NextPhase \/ BeginRun \/ EndBackward \/ Record \/ UNCHANGED vars
    <3>1. ss' = ss /\ (pc = "forward" => UNCHANGED <<pc, todo>>)
      BY <2>1 DEF NextPhase, BeginRun, EndBackward, Record, vars, PhaseAfter
    <3> QED
      BY <3>1 DEF PendingFront
  <2>2. CASE EndForward
    BY <2>2 DEF EndForward, PendingFront
  <2>3. CASE TakeBackward \/ TakeForward
    BY <1>1, <2>3 DEF TakeBackward, TakeForward, State, PendingFront
  <2>4. CASE RunSwitchLogic
    BY <1>1, <2>4 DEF RunSwitchLogic, State, PendingFront
  <2>5. CASE Advance
    BY <1>1, <2>5 DEF Advance, State, PendingFront
  <2> QED
    BY <2>1, <2>2, <2>3, <2>4, <2>5
<1>3. NothingComesYet' /\ ConstantLoadsAtOnce'
  <2>1. CASE NextPhase
    <3>1. /\ pc \in DOMAIN PhaseAfter /\ UNCHANGED <<ss, t>>
          /\ pc' = PhaseAfter[pc] /\ todo' = ItemsOf(PhaseAfter[pc], t)
      BY <2>1 DEF NextPhase
    <3>2. NothingComesYet'
      BY <3>1 DEF DownInv, NothingComesYet
    <3>3. pc' = "constantLoads" /\ todo' # {} => t' = 0
      BY <3>1 DEF ItemsOf
    <3> QED
      BY <3>2, <3>3 DEF ConstantLoadsAtOnce
  <2>2. CASE Advance
    <3>1. pc' # "constantLoads" /\ (pc' \in DOMAIN PhaseAfter => t' > t)
      <4>1. /\ pc = "advance" /\ pc' \in {"reliability", "assertionFailed"}
            /\ pc' = "reliability" =>
                 \E next \in NextEvents \cup {FinalTime} :
                   /\ \A other \in NextEvents \cup {FinalTime} : next <= other
                   /\ t' = next
        BY <2>2 DEF Advance
      <4> QED
        BY <4>1, NextEventIsEarliest DEF PhaseAfter
    <3>2. t \in Nat
      BY DEF IInv, TypeOK
    <3>3. ~ (t' = 0 /\ pc' \in DOMAIN PhaseAfter)
      BY <3>1, <3>2
    <3> QED
      BY <3>1, <3>3 DEF NothingComesYet, ConstantLoadsAtOnce
  <2>3. CASE UNCHANGED vars
    BY <2>3 DEF vars, DownInv, NothingComesYet, ConstantLoadsAtOnce
  <2>4. CASE BeginRun \/ TakeBackward \/ TakeForward \/ EndBackward \/ EndForward
             \/ RunSwitchLogic \/ Record
    <3>1. pc' \notin DOMAIN PhaseAfter /\ pc' # "constantLoads"
      BY <2>4 DEF BeginRun, TakeBackward, TakeForward, EndBackward, EndForward,
                  RunSwitchLogic, Record, PhaseAfter
    <3> QED
      BY <3>1 DEF NothingComesYet, ConstantLoadsAtOnce
  <2> QED
    BY <2>1, <2>2, <2>3, <2>4
<1> QED
  BY <1>2, <1>3 DEF DownInv, CanBeDown, CarriesNothing, TakesNothing, GivesNothing

LEMMA DownInvHolds ==
  ASSUME EveryChangeIsTold, ConvertersAreWired, ScheduledLoadsDoNotFail
  PROVE  Spec => []DownInv
<1>1. Init => DownInv
  BY DEF Init, InitialState, DownInv, NothingComesYet, ConstantLoadsAtOnce
<1>2. IInv /\ EventInv /\ SolverInv /\ DownInv /\ [Next]_vars => DownInv'
  <2> SUFFICES ASSUME IInv, EventInv, model \in Models, SolverInv, DownInv, [Next]_vars
               PROVE  DownInv'
    BY DEF EventInv
  <2>1. CASE \E i \in todo : ActivateReliability(i)
    BY <2>1, ActivateReliabilityKeepsDownInv
  <2>2. CASE \E c \in todo : Activate(c)
    BY <2>2, ActivateKeepsDownInv
  <2>3. CASE \E k \in todo : StepBackward(k) \/ StepForward(k)
    BY <2>3, StepsKeepDownInv
  <2>4. CASE Finalize
    BY <2>4, FinalizeKeepsDownInv
  <2>5. CASE NextPhase \/ BeginRun \/ TakeBackward \/ TakeForward \/ EndBackward
               \/ EndForward \/ RunSwitchLogic \/ Record \/ Advance \/ UNCHANGED vars
    BY <2>5, MovingOnKeepsDownInv
  <2> QED
    BY <2>1, <2>2, <2>3, <2>4, <2>5 DEF Next, Terminated
<1> QED
  BY <1>1, <1>2, IInvHolds, EventInvHolds, SolverInvHolds, PTL DEF Spec



-----------------------------------------------------------------------------
(* The flow values recorded are final: what FinalizeFlowValue makes of the *)
(* request and the availability recorded with them, although they may have *)
(* been computed at an earlier time.                                       *)

IsFinal(s, k) == s.actual[k] = FinalizeFlowValue(s.req[k], s.avail[k])

(* What a source with a schedule wastes is brought up to date when the     *)
(* source is activated, and its actual value by the next solver run only.  *)
SourceWaste(k) ==
  /\ Part[Connection[k].from].kind = "ScheduleBasedSource"
  /\ Connection[k].fromPort = WastePort(Connection[k].from)

Quiet(s) == s.back = {} /\ s.front = {}

FlowsAreFinal ==
  pc \notin {"backward", "forward", "finalize"} /\ Quiet(ss) =>
    \A k \in Conn : SourceWaste(k) \/ IsFinal(ss, k)

(* The three values of a flow have stayed the same.                        *)
Unmoved(s, r, k) ==
  /\ r.req[k] = s.req[k]
  /\ r.avail[k] = s.avail[k]
  /\ r.actual[k] = s.actual[k]

LEMMA FlowsStayFinal ==
  ASSUME FlowsAreFinal, pc \notin {"backward", "forward", "finalize"},
         Quiet(ss') => /\ Quiet(ss)
                       /\ \A k \in Conn : \/ SourceWaste(k)
                                          \/ IsFinal(ss', k)
                                          \/ Unmoved(ss, ss', k)
  PROVE  FlowsAreFinal'
<1> SUFFICES ASSUME Quiet(ss'), NEW k \in Conn PROVE SourceWaste(k) \/ IsFinal(ss', k)
  BY DEF FlowsAreFinal, Quiet, IsFinal
<1>1. SourceWaste(k) \/ IsFinal(ss, k)
  BY DEF FlowsAreFinal
<1> QED
  BY <1>1 DEF IsFinal, Unmoved

(* A handler that has scheduled nobody has changed nothing: every idiom but*)
(* Spill schedules the connection whose value it changes.                  *)
LEMMA QuietIdioms ==
  ASSUME NEW s \in State, NEW k \in Conn, NEW v
  PROVE  /\ Quiet(Request(s, k, v)) => Request(s, k, v) = s
         /\ Quiet(Offer(s, k, v)) => Offer(s, k, v) = s
<1>1. Quiet(Request(s, k, v)) => s.req[k] = v
  BY RequestGives DEF Quiet
<1>2. Quiet(Offer(s, k, v)) => s.avail[k] = v
  BY OfferGives DEF Quiet
<1> QED
  BY <1>1, <1>2, SetAgain

LEMMA QuietIdiomsForEach ==
  ASSUME NEW s \in State, NEW f
  PROVE  /\ Quiet(RequestEach(s, f)) => RequestEach(s, f) = s
         /\ Quiet(OfferEach(s, f)) => OfferEach(s, f) = s
<1>1. Quiet(RequestEach(s, f)) => \A k \in DOMAIN f : s.req[k] = f[k]
  BY RequestEachGives DEF Quiet
<1>2. Quiet(OfferEach(s, f)) => \A k \in DOMAIN f : s.avail[k] = f[k]
  BY OfferEachGives DEF Quiet
<1> QED
  BY <1>1, <1>2, SetEachAgain

LEMMA QuietActivation ==
  ASSUME IInv, NEW c \in todo, Activate(c), Quiet(ss')
  PROVE  /\ Quiet(ss)
         /\ \A k \in Conn : SourceWaste(k) \/ Unmoved(ss, ss', k)
<1>1. ss \in State /\ \A k \in Conn : Unmoved(ss, ss, k)
  BY DEF IInv, TypeOK, Unmoved
<1>2. SUFFICES \/ ss' = ss
               \/ /\ Quiet(ss)
                  /\ \E w \in Conn : SourceWaste(w) /\ \E v : ss' = Spill(ss, w, v)
  <2> SUFFICES ASSUME Quiet(ss), NEW w \in Conn, SourceWaste(w), NEW v,
                      ss' = Spill(ss, w, v)
               PROVE  \A k \in Conn : k # w => Unmoved(ss, ss', k)
    BY <1>1
  <2>1. ss'.actual = ss.actual
    BY <1>1 DEF Spill, State
  <2> QED
    BY <1>1, <2>1, SpillGives DEF Unmoved
<1>3. CASE pc = "loads" /\ ss' = ScheduledLoadAt(c)
  <2>1. Inflow[c][0] \in Conn
    BY <1>3, VisitsOfPhases, KnownKind, InflowType DEF Loads, OfKind, WellConnected
  <2> QED
    BY <1>1, <1>3, <2>1, QuietIdioms DEF ScheduledLoadAt
<1>4. CASE pc = "sources" /\ ss' = ScheduledSourceAt(c)
  <2> DEFINE out   == Outflow[c][0]
             waste == Outflow[c][WastePort(c)]
  <2>1. c \in Comp /\ Part[c].kind = "ScheduleBasedSource"
    BY <1>4, VisitsOfPhases DEF Sources, OfKind
  <2>2. out \in Conn /\ waste \in Conn /\ SourceWaste(waste)
    BY <2>1, KnownKind, OutflowType DEF WellConnected, SourceWaste
  <2>3. PICK v, u :
          \/ ss' = ss
          \/ ss' = Offer(ss, out, v)
          \/ ss' = Spill(Offer(ss, out, v), waste, u)
    BY <1>4 DEF ScheduledSourceAt
  <2> HIDE DEF out, waste
  <2>4. CASE ss' = Offer(ss, out, v)
    BY <1>1, <2>2, <2>4, QuietIdioms
  <2>5. CASE ss' = Spill(Offer(ss, out, v), waste, u)
    <3> DEFINE q == Offer(ss, out, v)
    <3>1. ss'.back = q.back /\ ss'.front = q.front
      BY <1>1, <2>5 DEF Spill, Offer, State
    <3>2. Quiet(q)
      BY <3>1 DEF Quiet
    <3>3. q = ss
      BY <1>1, <2>2, <3>2, QuietIdioms
    <3> HIDE DEF q
    <3> QED
      BY <2>2, <2>5, <3>2, <3>3 DEF q
  <2> QED
    BY <2>3, <2>4, <2>5
<1>5. CASE pc = "stores" /\ ss' = StoreAt(c)
  <2> DEFINE out == Outflow[c][0]
             in  == Inflow[c][0]
  <2>1. /\ out \in Conn /\ (HasInflow(c, 0) => in \in Conn)
        /\ StoreAvailable(ss, c) \in Flow
    BY <1>1, <1>5, VisitsOfPhases, KnownKind, InflowType, OutflowType, StoreAvailableType
       DEF Stores, OfKind, WellConnected
  <2>2. CASE c \in ss.down
    <3> DEFINE q == IF HasInflow(c, 0) THEN Request(ss, in, 0) ELSE ss
    <3>1. ss' = Offer(q, out, 0)
      BY <1>5, <2>2 DEF StoreAt
    <3>2. q \in State
      BY <1>1, <2>1, RequestType, FlowIsNat DEF Handled
    <3> HIDE DEF q
    <3>3. ss' = q
      BY <2>1, <3>1, <3>2, QuietIdioms
    <3>4. q = ss
      BY <1>1, <2>1, <3>3, QuietIdioms DEF q
    <3> QED
      BY <3>3, <3>4
  <2>3. CASE c \notin ss.down
    <3> DEFINE q == Offer(ss, out, StoreAvailable(ss, c))
    <3>1. \/ ss' = ss
          \/ ss' = q
          \/ HasInflow(c, 0) /\ \E v : ss' = Request(q, in, v)
      BY <1>5, <2>3 DEF StoreAt, RunStoreBackward
    <3>2. q \in State
      BY <1>1, <2>1, OfferType DEF Handled
    <3> HIDE DEF q
    <3>3. ss' = ss \/ ss' = q
      BY <2>1, <3>1, <3>2, QuietIdioms
    <3>4. ss' = q => q = ss
      BY <1>1, <2>1, <3>3, QuietIdioms DEF q
    <3> QED
      BY <3>3, <3>4
  <2> QED
    BY <2>2, <2>3
<1>6. CASE pc = "constantLoads" /\ ss' = Request(ss, Inflow[c][0], Part[c].load)
  <2>1. Inflow[c][0] \in Conn
    BY <1>6, VisitsOfPhases, KnownKind, InflowType DEF OfKind, WellConnected
  <2> QED
    BY <1>1, <1>6, <2>1, QuietIdioms
<1>7. CASE pc = "constantSources" /\ ss' = ConstantSourceAt(c)
  <2>1. Outflow[c][0] \in Conn
    BY <1>7, VisitsOfPhases, KnownKind, OutflowType DEF OfKind, WellConnected
  <2> QED
    BY <1>1, <1>7, <2>1, QuietIdioms DEF ConstantSourceAt
<1> QED
  BY <1>3, <1>4, <1>5, <1>6, <1>7 DEF Activate



(* What a converter or a mover does quietly, it does to its waste (and to  *)
(* what it takes from its environment) only.                               *)
LEMMA QuietSpilling ==
  ASSUME WasteIsDisposedOf, MoversAreFed, NEW s \in State, NEW c \in Comp,
         Part[c].kind \in {"Converter", "Mover"}, Quiet(AfterSpilling(s, c))
  PROVE  LET r     == AfterSpilling(s, c)
             waste == Outflow[c][WastePort(c)]
             env   == Inflow[c][EnvironmentPort]
         IN  /\ Quiet(s)
             /\ Part[c].kind = "Converter" =>
                  \A k \in Conn : IF k = waste THEN r.actual[k] = s.actual[k]
                                  ELSE Unmoved(s, r, k)
             /\ Part[c].kind = "Mover" =>
                  \A k \in Conn : IF k \in {waste, env} THEN IsFinal(r, k)
                                  ELSE Unmoved(s, r, k)
<1> DEFINE r     == AfterSpilling(s, c)
           waste == Outflow[c][WastePort(c)]
           env   == Inflow[c][EnvironmentPort]
           rest  == Monus(Taken(s, c), PutOut(s, c))
<1>1. waste \in Conn
  BY WasteEnd
<1>2. CASE Part[c].kind = "Converter"
  <2> DEFINE loss == Outflow[c][LossPort(c)]
             v    == AtMost(rest, Part[c].maxLossflow)
             left == Monus(rest, LossTaken(s, c, loss))
             q    == IF HasOutflow(c, LossPort(c)) THEN Offer(s, loss, v) ELSE s
             u    == IF HasOutflow(c, LossPort(c)) THEN left ELSE rest
  <2>1. r = Spill(q, waste, u)
    BY <1>2 DEF AfterSpilling, UpdateConverterLossflowAndWasteflow, Taken, PutOut
  <2>2. HasOutflow(c, LossPort(c)) => loss \in Conn
    BY <1>2, LossEnd
  <2>3. HasOutflow(c, LossPort(c)) /\ Quiet(Offer(s, loss, v)) => q = s
    BY <2>2, QuietIdioms
  <2>4. q.back = r.back /\ q.front = r.front
    <3> HIDE DEF v, u, rest, waste, loss
    <3> QED
      BY <2>1 DEF Spill, Offer, State
  <2>5. Quiet(q)
    BY <2>4 DEF Quiet
  <2>6. q = s /\ Quiet(s)
    BY <2>3, <2>5
  <2> HIDE DEF q, u, waste, r
  <2>7. r = Spill(s, waste, u)
    BY <2>1, <2>6
  <2>8. r.actual = s.actual
    BY <2>7 DEF Spill, State
  <2>9. \A k \in Conn : k # waste => Unmoved(s, r, k)
    BY <1>1, <2>7, <2>8, SpillGives DEF Unmoved
  <2> QED
    BY <1>2, <2>6, <2>8, <2>9 DEF r, waste
<1>3. CASE Part[c].kind = "Mover"
  <2> DEFINE fromEnv == Monus(PutOut(s, c), Taken(s, c))
             p       == Spill(s, env, fromEnv)
             q       == Spill(p, waste, rest)
  <2>1. r = [q EXCEPT !.actual[env] = fromEnv, !.actual[waste] = rest]
    BY <1>3 DEF AfterSpilling, UpdateEnvironmentFlowForAllMovers, Taken, PutOut
  <2>2. env \in Conn /\ env # waste
    BY <1>3, EnvironmentEnd, WasteEnd
  <2>3. rest \in Flow /\ fromEnv \in Flow
    BY <1>3, ConversionTerms
  <2> HIDE DEF env, waste, rest, fromEnv, p, q, r
  <2>4. p \in State /\ p.actual = s.actual /\ p.back = s.back /\ p.front = s.front
    BY <2>2, <2>3 DEF p, Spill, State
  <2>5. \A k \in Conn : /\ p.req[k] = IF k = env THEN fromEnv ELSE s.req[k]
                        /\ p.avail[k] = IF k = env THEN fromEnv ELSE s.avail[k]
    BY <2>2, SpillGives DEF p
  <2>6. q \in State /\ q.actual = s.actual /\ q.back = s.back /\ q.front = s.front
    BY <1>1, <2>3, <2>4 DEF q, Spill, State
  <2>7. \A k \in Conn : /\ q.req[k] = IF k = waste THEN rest ELSE p.req[k]
                        /\ q.avail[k] = IF k = waste THEN rest ELSE p.avail[k]
    BY <1>1, <2>4, SpillGives DEF q
  <2>8. /\ r.req = q.req /\ r.avail = q.avail
        /\ r.back = q.back /\ r.front = q.front
        /\ \A k \in Conn : r.actual[k] = IF k = waste THEN rest
                                         ELSE IF k = env THEN fromEnv ELSE q.actual[k]
    BY <1>1, <2>1, <2>2, <2>6 DEF State
  <2>9. Quiet(s)
    BY <2>4, <2>6, <2>8 DEF Quiet, r
  <2>10. \A k \in Conn : k \notin {waste, env} => Unmoved(s, r, k)
    BY <2>5, <2>6, <2>7, <2>8 DEF Unmoved
  <2>11. IsFinal(r, waste)
    BY <1>1, <2>7, <2>8 DEF IsFinal, FinalizeFlowValue
  <2>12. IsFinal(r, env)
    BY <2>2, <2>5, <2>7, <2>8 DEF IsFinal, FinalizeFlowValue
  <2> QED
    BY <1>3, <2>9, <2>10, <2>11, <2>12 DEF r, waste, env
<1> QED
  BY <1>2, <1>3

(* A converter that takes nothing wastes nothing.                          *)
LEMMA ConverterWastesNothing ==
  ASSUME NEW s \in State, NEW c \in Comp, Part[c].kind = "Converter",
         s.req[Inflow[c][0]] = 0, ConverterSpillsRight(s, c)
  PROVE  Carries(s, Outflow[c][WastePort(c)], 0)
<1>1. Taken(s, c) = 0
  <2>1. s.avail[Inflow[c][0]] \in Nat
    BY FirstEnds, FlowIsNat DEF State
  <2> QED
    BY <2>1 DEF Taken, FinalizeFlowValue
<1>2. PutOut(s, c) \in Nat
  BY ConversionTerms, FlowIsNat
<1>3. Monus(Taken(s, c), PutOut(s, c)) = 0
  BY <1>1, <1>2 DEF Monus
<1>4. HasOutflow(c, LossPort(c)) => LossTaken(s, c, Outflow[c][LossPort(c)]) \in Nat
  <2> SUFFICES ASSUME HasOutflow(c, LossPort(c))
               PROVE  LossTaken(s, c, Outflow[c][LossPort(c)]) \in Nat
    OBVIOUS
  <2>1. s.req[Outflow[c][LossPort(c)]] \in Nat
    BY LossEnd, FlowIsNat DEF State
  <2>2. Part[c].maxLossflow \in Nat
    BY ConversionParts, FlowIsNat
  <2> QED
    BY <2>1, <2>2 DEF LossTaken, AtMost
<1>5. HasOutflow(c, LossPort(c)) =>
        Monus(0, LossTaken(s, c, Outflow[c][LossPort(c)])) = 0
  BY <1>4 DEF Monus
<1> QED
  BY <1>3, <1>5 DEF ConverterSpillsRight

LEMMA QuietFailure ==
  ASSUME EveryChangeIsTold, NEW s \in State, NEW c \in Comp, CanBeDown(c),
         Quiet(SetComponentToFailed(s, c))
  PROVE  LET r     == SetComponentToFailed(s, c)
             waste == Outflow[c][WastePort(c)]
         IN  /\ Quiet(s)
             /\ \A k \in Conn :
                  \/ Unmoved(s, r, k)
                  \/ IsFinal(r, k)
                  \/ /\ Part[c].kind = "Converter" /\ k = waste
                     /\ s.req[Inflow[c][0]] = 0
                     /\ Carries(r, k, 0) /\ r.actual[k] = s.actual[k]
<1> DEFINE f     == [s EXCEPT !.down = @ \cup {c}]
           r     == SetComponentToFailed(s, c)
           ins   == Inflows(c)
           outs  == Outflows(c)
           wastes == {k \in outs : Connection[k].fromPort = WastePort(c)}
<1>1. /\ f \in State /\ ins \subseteq Conn /\ outs \subseteq Conn
      /\ Quiet(f) => Quiet(s)
      /\ \A k \in Conn : Unmoved(s, f, k)
      /\ f.req = s.req /\ f.actual = s.actual
  <2>1. f \in State /\ ins \subseteq Conn /\ outs \subseteq Conn
    BY MarkDownType, EndsAreConnections DEF Kept
  <2>2. /\ f.req = s.req /\ f.avail = s.avail /\ f.actual = s.actual
        /\ f.back = s.back /\ f.front = s.front
    BY DEF State
  <2> QED
    BY <2>1, <2>2 DEF Quiet, Unmoved
<1>2. \A S : S \subseteq Conn =>
        DOMAIN ZeroAt(S) \subseteq Conn /\ \A k \in DOMAIN ZeroAt(S) : ZeroAt(S)[k] \in Flow
  BY ZeroAtType
<1>3. CASE Part[c].kind \in {"ConstantLoad", "ConstantSource", "Mux", "PassThrough"}
  <2>1. r = OfferEach(RequestEach(f, ZeroAt(ins)), ZeroAt(outs))
    BY <1>3 DEF SetComponentToFailed
  <2> DEFINE q == RequestEach(f, ZeroAt(ins))
  <2> HIDE DEF f, ins, outs, r
  <2>2. q \in State
    BY <1>1, <1>2, RequestEachType DEF Handled
  <2> HIDE DEF q
  <2>3. r = q
    BY <2>1, <2>2, QuietIdiomsForEach DEF r, q
  <2>4. q = f
    BY <1>1, <2>3, QuietIdiomsForEach DEF r, q
  <2> QED
    BY <1>1, <2>3, <2>4 DEF r
<1>4. CASE Part[c].kind = "Converter"
  <2> DEFINE in == Inflow[c][0]
             w  == Outflow[c][WastePort(c)]
             q  == Request(f, in, 0)
             p  == OfferEach(q, ZeroAt(outs \ wastes))
  <2>1. r = Spill(p, w, 0)
    BY <1>4 DEF SetComponentToFailed
  <2>2. in \in Conn /\ w \in Conn /\ outs \ wastes \subseteq Conn
    BY <1>1, <1>4, FirstEnds, WasteEnd DEF EveryChangeIsTold
  <2> HIDE DEF f, ins, outs, wastes, in, w, r
  <2>3. q \in State
    BY <1>1, <2>2, RequestType, FlowIsNat DEF Handled
  <2> HIDE DEF q
  <2>4. p \in State
    BY <1>2, <2>2, <2>3, OfferEachType DEF Handled
  <2> HIDE DEF p
  <2>5. r.back = p.back /\ r.front = p.front /\ r.actual = p.actual
    BY <2>1, <2>4 DEF Spill, State
  <2>6. p = q
    <3>1. Quiet(p)
      BY <2>5 DEF Quiet, r
    <3> QED
      BY <2>3, <3>1, QuietIdiomsForEach DEF p
  <2>7. q = f /\ s.req[in] = 0
    <3>1. Quiet(q)
      BY <2>5, <2>6 DEF Quiet, r
    <3>2. q = f
      BY <1>1, <2>2, <3>1, QuietIdioms DEF q
    <3>3. q.req[in] = 0
      BY <1>1, <2>2, RequestGives DEF q
    <3> QED
      BY <1>1, <3>2, <3>3
  <2>8. \A j \in Conn : /\ r.req[j] = IF j = w THEN 0 ELSE f.req[j]
                        /\ r.avail[j] = IF j = w THEN 0 ELSE f.avail[j]
                        /\ r.actual[j] = f.actual[j]
    BY <1>1, <2>1, <2>2, <2>5, <2>6, <2>7, SpillGives
  <2>9. Quiet(f)
    BY <2>5, <2>6, <2>7 DEF Quiet, r
  <2>10. \A k \in Conn : IF k = w THEN Carries(r, k, 0) /\ r.actual[k] = s.actual[k]
                         ELSE Unmoved(s, r, k)
    BY <1>1, <2>8 DEF Unmoved, Carries
  <2> QED
    BY <1>1, <1>4, <2>7, <2>9, <2>10 DEF r, w, in
<1>5. CASE Part[c].kind = "Store"
  <2> DEFINE q == RequestEach(f, ZeroAt(ins))
             p == OfferEach(q, ZeroAt(outs \ wastes))
  <2>1. r = ClearFlows(p, wastes)
    BY <1>5 DEF SetComponentToFailed
  <2>2. outs \ wastes \subseteq Conn
    BY <1>1
  <2> HIDE DEF f, ins, outs, wastes, r
  <2>3. q \in State
    BY <1>1, <1>2, RequestEachType DEF Handled
  <2> HIDE DEF q
  <2>4. p \in State
    BY <1>2, <2>2, <2>3, OfferEachType DEF Handled
  <2> HIDE DEF p
  <2>5. /\ r.back = p.back /\ r.front = p.front
        /\ \A k \in Conn :
             /\ r.req[k] = IF k \in wastes THEN 0 ELSE p.req[k]
             /\ r.avail[k] = IF k \in wastes THEN 0 ELSE p.avail[k]
             /\ r.actual[k] = IF k \in wastes THEN 0 ELSE p.actual[k]
    BY <2>1, <2>4 DEF ClearFlows, State
  <2>6. p = q
    <3>1. Quiet(p)
      BY <2>5 DEF Quiet, r
    <3> QED
      BY <2>3, <3>1, QuietIdiomsForEach DEF p
  <2>7. q = f /\ Quiet(f)
    <3>1. Quiet(q)
      BY <2>5, <2>6 DEF Quiet, r
    <3> QED
      BY <1>1, <3>1, QuietIdiomsForEach DEF q
  <2>8. \A k \in Conn : IF k \in wastes THEN IsFinal(r, k) ELSE Unmoved(s, r, k)
    BY <1>1, <2>5, <2>6, <2>7 DEF Unmoved, IsFinal, FinalizeFlowValue
  <2> QED
    BY <1>1, <2>7, <2>8 DEF r
<1> QED
  BY <1>3, <1>4, <1>5, KindsDown



LEMMA QuietRepair ==
  ASSUME EveryChangeIsTold, NEW sch, NEW s \in State, NEW c \in Comp, NEW k,
         Part[c].kind \notin {"PassThrough", "ScheduleBasedLoad", "ScheduleBasedSource"},
         Quiet(SetComponentToRepaired(sch, s, c, k))
  PROVE  LET r     == SetComponentToRepaired(sch, s, c, k)
             waste == Outflow[c][WastePort(c)]
         IN  /\ Quiet(s)
             /\ \/ \A j \in Conn : Unmoved(s, r, j) \/ IsFinal(r, j)
                \/ /\ Part[c].kind = "Converter"
                   /\ \A j \in Conn : IF j = waste THEN r.actual[j] = s.actual[j]
                                      ELSE Unmoved(s, r, j)
<1> DEFINE f     == [s EXCEPT !.down = @ \ {c}]
           r     == SetComponentToRepaired(sch, s, c, k)
           waste == Outflow[c][WastePort(c)]
<1>1. /\ f \in State
      /\ Quiet(f) => Quiet(s)
      /\ \A j \in Conn : Unmoved(s, f, j)
      /\ f.actual = s.actual
  <2>1. f \in State
    BY MarkDownType DEF Kept
  <2>2. /\ f.req = s.req /\ f.avail = s.avail /\ f.actual = s.actual
        /\ f.back = s.back /\ f.front = s.front
    BY DEF State
  <2> QED
    BY <2>1, <2>2 DEF Quiet, Unmoved
<1>2. CASE Part[c].kind = "ConstantLoad"
  <2>1. r = Request(f, Inflow[c][0], Part[c].load) /\ Inflow[c][0] \in Conn
    BY <1>2, EndsOfEnds DEF SetComponentToRepaired
  <2>2. r = f
    <3> HIDE DEF f, r
    <3> QED
      BY <1>1, <2>1, QuietIdioms DEF r
  <2> QED
    BY <1>1, <2>2
<1>3. CASE Part[c].kind = "ConstantSource"
  <2>1. r = Offer(f, Outflow[c][0], Part[c].available) /\ Outflow[c][0] \in Conn
    BY <1>3, EndsOfEnds DEF SetComponentToRepaired
  <2>2. r = f
    <3> HIDE DEF f, r
    <3> QED
      BY <1>1, <2>1, QuietIdioms DEF r
  <2> QED
    BY <1>1, <2>2
<1>4. CASE Part[c].kind \in {"Converter", "Mover"}
  <2> DEFINE in  == Inflow[c][0]
             out == Outflow[c][0]
             env == Inflow[c][EnvironmentPort]
             p   == Request(f, in, Needed(f, c))
             b   == AfterSpilling(p, c)
             q   == Offer(b, out, Made(b, c))
  <2>1. b \in State
    BY <1>1, <1>4, ConversionAsks DEF EveryChangeIsTold
  <2>2. r = AfterSpilling(q, c)
    <3>1. CASE Part[c].kind = "Converter"
      <4>1. r = RunConverterForward(RunConverterBackward(f, c), c)
        BY <3>1 DEF SetComponentToRepaired, Then
      <4> QED
        BY <3>1, <4>1, ConversionHandlers
    <3>2. CASE Part[c].kind = "Mover"
      <4>1. r = RunMoverForward(RunMoverBackward(f, c), in, c)
        BY <3>2 DEF SetComponentToRepaired, Then
      <4> QED
        BY <3>2, <4>1, ConversionHandlers
    <3> QED
      BY <1>4, <3>1, <3>2
  <2>3. /\ in \in Conn /\ out \in Conn
        /\ Needed(f, c) \in Flow /\ Made(b, c) \in Flow
    <3>1. Needed(f, c) \in Flow
      BY ConversionFlow DEF Needed
    <3>2. Made(b, c) \in Flow
      BY <1>4, ConversionFlow, ConversionParts, AtMostFlow, FlowIsNat DEF Made
    <3> QED
      BY <1>4, <3>1, <3>2, FirstEnds
  <2> HIDE DEF f, r, in, out, b, p, q
  <2>4. p \in State
    BY <1>1, <2>3, RequestType DEF Handled, p, in
  <2>5. q \in State
    BY <2>1, <2>3, OfferType DEF Handled, q, out
  <2>6. /\ Quiet(q)
        /\ Part[c].kind = "Converter" =>
             \A j \in Conn : IF j = waste THEN r.actual[j] = q.actual[j]
                             ELSE Unmoved(q, r, j)
        /\ Part[c].kind = "Mover" =>
             \A j \in Conn : IF j \in {waste, env} THEN IsFinal(r, j)
                             ELSE Unmoved(q, r, j)
    BY <1>4, <2>2, <2>5, QuietSpilling DEF EveryChangeIsTold, r
  <2>7. q = b
    BY <2>1, <2>3, <2>6, QuietIdioms DEF q
  <2>8. /\ Quiet(p)
        /\ Part[c].kind = "Converter" =>
             \A j \in Conn : IF j = waste THEN b.actual[j] = p.actual[j]
                             ELSE Unmoved(p, b, j)
        /\ Part[c].kind = "Mover" =>
             \A j \in Conn : j \notin {waste, env} => Unmoved(p, b, j)
    <3>1. Quiet(AfterSpilling(p, c))
      BY <2>6, <2>7 DEF b
    <3> QED
      BY <1>4, <2>4, <3>1, QuietSpilling DEF EveryChangeIsTold, b
  <2>9. p = f /\ Quiet(f)
    BY <1>1, <2>3, <2>8, QuietIdioms DEF p
  <2>10. CASE Part[c].kind = "Converter"
    BY <1>1, <2>6, <2>7, <2>8, <2>9, <2>10 DEF Unmoved, r
  <2>11. CASE Part[c].kind = "Mover"
    BY <1>1, <2>6, <2>7, <2>8, <2>9, <2>11 DEF Unmoved, r
  <2> QED
    BY <1>4, <2>10, <2>11
<1>5. CASE Part[c].kind = "Mux"
  <2>1. r.front = f.front \cup {Inflow[c][p] : p \in InPorts(c)}
    BY <1>1, <1>5 DEF SetComponentToRepaired, State
  <2>2. 0 \in InPorts(c)
    BY <1>5, MuxParts DEF InPorts
  <2>3. r.front # {}
    BY <2>1, <2>2
  <2> QED
    BY <2>3 DEF Quiet
<1>6. CASE Part[c].kind \notin {"ConstantLoad", "ConstantSource", "Converter", "Mover", "Mux"}
  <2>1. r = f
    BY <1>6 DEF SetComponentToRepaired
  <2> QED
    BY <1>1, <2>1
<1> QED
  BY <1>2, <1>3, <1>4, <1>5, <1>6

(* A converter in service that is up to date and not about to be called:   *)
(* its waste is what its other flows make it.                              *)
LEMMA IdleConverterSpillsRight ==
  ASSUME EveryChangeIsTold, SolverInv, Running, Quiet(ss), pc = "reliability",
         NEW c \in Comp \ ss.down, Part[c].kind = "Converter"
  PROVE  ConverterSpillsRight(ss, c)
<1>1. PendingBack = {} /\ PendingFront = {}
  BY DEF PendingBack, PendingFront, Quiet
<1>2. UpToDate(model, ss, c, {}, {})
  BY <1>1 DEF SolverInv, EveryoneIsTold, SupplyIsDue, Sources, OfKind, Running
<1> QED
  BY <1>2 DEF UpToDate, Awaits, SpillsRight

LEMMA SameWaste ==
  ASSUME EveryChangeIsTold, NEW s \in State, NEW r \in State, NEW c \in Comp,
         Part[c].kind = "Converter", ConverterSpillsRight(s, c), ConverterSpillsRight(r, c),
         \A k \in Conn : k # Outflow[c][WastePort(c)] => Unmoved(s, r, k)
  PROVE  LET waste == Outflow[c][WastePort(c)]
         IN  r.req[waste] = s.req[waste] /\ r.avail[waste] = s.avail[waste]
<1> DEFINE in    == Inflow[c][0]
           out   == Outflow[c][0]
           waste == Outflow[c][WastePort(c)]
           loss  == Outflow[c][LossPort(c)]
<1>1. in # waste /\ out # waste /\ in \in Conn /\ out \in Conn
  BY FirstEnds, WasteEnd DEF EveryChangeIsTold, Inflows
<1>2. HasOutflow(c, LossPort(c)) => loss \in Conn /\ loss # waste
  BY LossEnd
<1>3. Taken(r, c) = Taken(s, c) /\ PutOut(r, c) = PutOut(s, c)
  BY <1>1 DEF Taken, PutOut, Unmoved
<1>4. HasOutflow(c, LossPort(c)) => LossTaken(r, c, loss) = LossTaken(s, c, loss)
  BY <1>2 DEF LossTaken, Unmoved
<1> QED
  BY <1>3, <1>4 DEF ConverterSpillsRight, Carries

LEMMA ActivateReliabilityKeepsFinal ==
  ASSUME EveryChangeIsTold, ScheduledLoadsDoNotFail, IInv, model \in Models,
         SolverInv, DownInv, FlowsAreFinal, NEW i \in todo, ActivateReliability(i)
  PROVE  FlowsAreFinal'
<1>1. PICK c \in Comp :
        /\ c = model.rel[i].comp
        /\ pc = "reliability" /\ Running
        /\ i \in DOMAIN model.rel /\ ss \in State
        /\ SchedulesOfFlows(model) /\ IndicesInRange(model, ss)
  BY VisitsOfPhases, ModelSchedules DEF ActivateReliability, IInv, TypeOK, Running
<1>2. \/ UNCHANGED ss
      \/ \E j \in StatesNow(i) :
           /\ CanFail(c)
           /\ ~ model.rel[i].states[j].state
           /\ ss' = SetComponentToFailed(ss, c)
      \/ \E j \in StatesNow(i) :
           /\ model.rel[i].states[j].state
           /\ \E k \in RepairedLoadConns(c) : ss' = SetComponentToRepaired(model, ss, c, k)
  BY <1>1 DEF ActivateReliability
<1>3. CASE UNCHANGED ss
  BY <1>1, <1>3, FlowsStayFinal DEF Unmoved
<1> DEFINE waste == Outflow[c][WastePort(c)]
<1>4. ASSUME Part[c].kind = "Converter", Quiet(ss)
      PROVE  /\ waste \in Conn /\ Inflow[c][0] \in Conn /\ Inflow[c][0] # waste
             /\ IsFinal(ss, waste)
             /\ c \in ss.down => ss.req[Inflow[c][0]] = 0 /\ ss.avail[waste] = 0
  <2>1. /\ waste \in Conn /\ Inflow[c][0] \in Conn /\ Inflow[c][0] # waste
        /\ waste \in Outflows(c) /\ Connection[waste].from = c
        /\ Inflow[c][0] \in Inflows(c)
    BY <1>1, <1>4, FirstEnds, WasteEnd DEF EveryChangeIsTold, Inflows, Outflows
  <2>2. IsFinal(ss, waste)
    BY <1>1, <1>4, <2>1 DEF FlowsAreFinal, SourceWaste
  <2>3. c \in ss.down => ss.req[Inflow[c][0]] = 0 /\ ss.avail[waste] = 0
    BY <1>4, <2>1 DEF DownInv, CarriesNothing, TakesNothing, GivesNothing
  <2> QED
    BY <2>1, <2>2, <2>3
<1>5. ASSUME NEW v \in Flow
      PROVE  FinalizeFlowValue(v, 0) = 0 /\ FinalizeFlowValue(0, v) = 0
  BY FlowIsNat DEF FinalizeFlowValue
<1>6. ASSUME NEW j \in StatesNow(i), CanFail(c), ~ model.rel[i].states[j].state,
             ss' = SetComponentToFailed(ss, c), Quiet(ss')
      PROVE  /\ Quiet(ss)
             /\ \A k \in Conn : IsFinal(ss', k) \/ Unmoved(ss, ss', k)
  <2>1. CanBeDown(c)
    <3>1. j \in DOMAIN model.rel[i].states
      BY DEF StatesNow
    <3> QED
      BY <1>1, <1>6, <3>1
         DEF CanBeDown, EveryChangeIsTold, ChangesAreTold, ScheduledLoadsDoNotFail
  <2>2. /\ Quiet(ss)
        /\ \A k \in Conn :
             \/ Unmoved(ss, ss', k)
             \/ IsFinal(ss', k)
             \/ /\ Part[c].kind = "Converter" /\ k = waste
                /\ ss.req[Inflow[c][0]] = 0
                /\ Carries(ss', k, 0) /\ ss'.actual[k] = ss.actual[k]
    BY <1>1, <1>6, <2>1, QuietFailure
  <2>3. ASSUME Part[c].kind = "Converter", ss.req[Inflow[c][0]] = 0,
               Carries(ss', waste, 0), ss'.actual[waste] = ss.actual[waste]
        PROVE  IsFinal(ss', waste)
    <3>1. ss.avail[waste] = 0
      <4>1. CASE c \in ss.down
        BY <1>4, <2>2, <2>3, <4>1
      <4>2. CASE c \notin ss.down
        <5>1. ConverterSpillsRight(ss, c)
          BY <1>1, <2>2, <2>3, <4>2, IdleConverterSpillsRight
        <5> QED
          BY <1>1, <2>3, <5>1, ConverterWastesNothing DEF Carries
      <4> QED
        BY <4>1, <4>2
    <3>2. ss.req[waste] \in Flow /\ 0 \in Flow
      BY <1>1, <1>4, <2>2, <2>3, FlowIsNat DEF State
    <3>3. ss.actual[waste] = 0
      BY <1>4, <1>5, <2>2, <2>3, <3>1, <3>2 DEF IsFinal
    <3> QED
      BY <1>5, <2>3, <3>2, <3>3 DEF IsFinal, Carries
  <2> QED
    BY <2>2, <2>3
<1>7. ASSUME NEW j \in StatesNow(i), model.rel[i].states[j].state,
             NEW k \in RepairedLoadConns(c),
             ss' = SetComponentToRepaired(model, ss, c, k), Quiet(ss')
      PROVE  /\ Quiet(ss)
             /\ \A n \in Conn : IsFinal(ss', n) \/ Unmoved(ss, ss', n)
  <2>1. Part[c].kind \notin {"PassThrough", "ScheduleBasedLoad", "ScheduleBasedSource"}
    <3>1. j \in DOMAIN model.rel[i].states
      BY DEF StatesNow
    <3> QED
      BY <1>1, <1>7, <3>1 DEF EveryChangeIsTold, ChangesAreTold
  <2>2. /\ Quiet(ss)
        /\ \/ \A n \in Conn : Unmoved(ss, ss', n) \/ IsFinal(ss', n)
           \/ /\ Part[c].kind = "Converter"
              /\ \A n \in Conn : IF n = waste THEN ss'.actual[n] = ss.actual[n]
                                 ELSE Unmoved(ss, ss', n)
    <3> DEFINE r == SetComponentToRepaired(model, ss, c, k)
    <3>1. ss' = r /\ Quiet(r)
      BY <1>7
    <3>2. /\ Quiet(ss)
          /\ \/ \A n \in Conn : Unmoved(ss, r, n) \/ IsFinal(r, n)
             \/ /\ Part[c].kind = "Converter"
                /\ \A n \in Conn : IF n = waste THEN r.actual[n] = ss.actual[n]
                                   ELSE Unmoved(ss, r, n)
      BY <1>1, <2>1, <3>1, QuietRepair
    <3> QED
      BY <3>1, <3>2
  <2>3. ASSUME Part[c].kind = "Converter",
               \A n \in Conn : IF n = waste THEN ss'.actual[n] = ss.actual[n]
                              ELSE Unmoved(ss, ss', n)
        PROVE  IsFinal(ss', waste) \/ Unmoved(ss, ss', waste)
    <3>1. ss' \in State /\ ConverterSpillsRight(ss', c)
      <4>1. ss' \in State
        BY <1>1, <1>7, RepairedType DEF Kept
      <4>2. UpToDate(model, ss', c, ss'.back, ss'.front)
        BY <1>1, <1>7, <2>1, RepairSees
      <4> QED
        BY <1>7, <2>3, <4>1, <4>2 DEF UpToDate, Awaits, Quiet, SpillsRight
    <3>2. CASE c \notin ss.down
      <4>1. ConverterSpillsRight(ss, c)
        BY <1>1, <2>2, <2>3, <3>2, IdleConverterSpillsRight
      <4>2. ss'.req[waste] = ss.req[waste] /\ ss'.avail[waste] = ss.avail[waste]
        BY <1>1, <2>3, <3>1, <4>1, SameWaste
      <4> QED
        BY <1>4, <2>2, <2>3, <4>2 DEF Unmoved
    <3>3. CASE c \in ss.down
      <4>1. /\ waste \in Conn /\ Inflow[c][0] \in Conn /\ Inflow[c][0] # waste
            /\ IsFinal(ss, waste) /\ ss.req[Inflow[c][0]] = 0 /\ ss.avail[waste] = 0
        BY <1>4, <2>2, <2>3, <3>3
      <4>2. ss'.req[Inflow[c][0]] = 0
        BY <2>3, <4>1 DEF Unmoved
      <4>3. Carries(ss', waste, 0)
        BY <1>1, <2>3, <3>1, <4>2, ConverterWastesNothing
      <4>4. ss.req[waste] \in Flow /\ 0 \in Flow
        BY <1>1, <4>1, FlowIsNat DEF State
      <4>5. ss'.actual[waste] = 0
        BY <1>5, <2>3, <4>1, <4>4 DEF IsFinal
      <4> QED
        BY <1>5, <4>3, <4>4, <4>5 DEF IsFinal, Carries
    <3> QED
      BY <3>2, <3>3
  <2> QED
    BY <2>2, <2>3
<1> HIDE DEF waste
<1> QED
  BY <1>1, <1>2, <1>3, <1>6, <1>7, FlowsStayFinal



LEMMA FinalizeMakesFinal ==
  ASSUME IInv, Finalize
  PROVE  \A k \in Conn : IsFinal(ss', k)
<1> TAKE k \in Conn
<1> DEFINE IsWaste == /\ Connection[k].from \in Stores
                      /\ Connection[k].fromPort = WastePort(Connection[k].from)
           wasted  == StoreWaste(FinalizeFlows(ss), Connection[k].from)
<1>1. CASE IsWaste
  <2>1. ss'.req[k] = wasted /\ ss'.avail[k] = wasted /\ ss'.actual[k] = wasted
    BY <1>1, FinalizeChanges
  <2> QED
    BY <2>1 DEF IsFinal, FinalizeFlowValue
<1>2. CASE ~ IsWaste
  BY <1>2, FinalizeChanges DEF IsFinal
<1> QED
  BY <1>1, <1>2

LEMMA MovingOnKeepsFinal ==
  ASSUME IInv, FlowsAreFinal,
         NextPhase \/ BeginRun \/ TakeBackward \/ TakeForward \/ EndBackward
           \/ EndForward \/ RunSwitchLogic \/ Record \/ Advance \/ UNCHANGED vars
  PROVE  FlowsAreFinal'
<1>1. ss \in State
  BY DEF IInv, TypeOK
<1>2. CASE UNCHANGED vars
  BY <1>2 DEF vars, FlowsAreFinal, IsFinal, Quiet
<1>3. CASE BeginRun \/ TakeBackward \/ TakeForward \/ EndBackward \/ EndForward
  <2>1. pc' \in {"backward", "forward", "finalize"}
    BY <1>3 DEF BeginRun, TakeBackward, TakeForward, EndBackward, EndForward
  <2> QED
    BY <2>1 DEF FlowsAreFinal
<1>4. CASE NextPhase \/ RunSwitchLogic \/ Record \/ Advance
  <2>1. pc \notin {"backward", "forward", "finalize"}
    <3>1. CASE NextPhase
      BY <3>1 DEF NextPhase, PhaseAfter
    <3>2. CASE RunSwitchLogic
      BY <3>2 DEF RunSwitchLogic
    <3>3. CASE Record \/ Advance
      BY <3>3 DEF Record, Advance
    <3> QED
      BY <1>4, <3>1, <3>2, <3>3
  <2>2. /\ ss'.req = ss.req /\ ss'.avail = ss.avail /\ ss'.actual = ss.actual
        /\ ss.back \subseteq ss'.back /\ ss.front \subseteq ss'.front
    <3>1. CASE NextPhase \/ Record
      BY <3>1 DEF NextPhase, Record
    <3>2. CASE RunSwitchLogic
      BY <1>1, <3>2 DEF RunSwitchLogic, State
    <3>3. CASE Advance
      BY <1>1, <3>3 DEF Advance, State
    <3> QED
      BY <1>4, <3>1, <3>2, <3>3
  <2> QED
    BY <2>1, <2>2, FlowsStayFinal DEF Quiet, Unmoved
<1> QED
  BY <1>2, <1>3, <1>4

LEMMA FlowsAreFinalHolds ==
  ASSUME EveryChangeIsTold, ConvertersAreWired, ScheduledLoadsDoNotFail
  PROVE  Spec => []FlowsAreFinal
<1>1. Init => FlowsAreFinal
  BY DEF Init, InitialState, FlowsAreFinal, IsFinal, FinalizeFlowValue
<1>2. IInv /\ EventInv /\ SolverInv /\ DownInv /\ FlowsAreFinal /\ [Next]_vars
        => FlowsAreFinal'
  <2> SUFFICES ASSUME IInv, model \in Models, SolverInv, DownInv, FlowsAreFinal,
                      [Next]_vars
               PROVE  FlowsAreFinal'
    BY DEF EventInv
  <2>1. CASE \E i \in todo : ActivateReliability(i)
    BY <2>1, ActivateReliabilityKeepsFinal
  <2>2. ASSUME NEW c \in todo, Activate(c) PROVE FlowsAreFinal'
    <3>1. pc \notin {"backward", "forward", "finalize"}
      BY <2>2 DEF Activate
    <3>2. Quiet(ss') => /\ Quiet(ss)
                        /\ \A k \in Conn : SourceWaste(k) \/ Unmoved(ss, ss', k)
      BY <2>2, QuietActivation
    <3> QED
      BY <3>1, <3>2, FlowsStayFinal
  <2>3. ASSUME NEW k \in todo, StepBackward(k) \/ StepForward(k) PROVE FlowsAreFinal'
    <3>1. pc' \in {"backward", "forward"}
      BY <2>3 DEF StepBackward, StepForward
    <3> QED
      BY <3>1 DEF FlowsAreFinal
  <2>4. CASE Finalize
    BY <2>4, FinalizeMakesFinal DEF FlowsAreFinal, IsFinal
  <2>5. CASE NextPhase \/ BeginRun \/ TakeBackward \/ TakeForward \/ EndBackward
               \/ EndForward \/ RunSwitchLogic \/ Record \/ Advance \/ UNCHANGED vars
    BY <2>5, MovingOnKeepsFinal
  <2> QED
    BY <2>1, <2>2, <2>3, <2>4, <2>5 DEF Next, Terminated
<1> QED
  BY <1>1, <1>2, IInvHolds, EventInvHolds, SolverInvHolds, DownInvHolds, PTL DEF Spec

LEMMA SettledIsQuiet ==
  ASSUME NothingIsLeft, ~ CutShort, Settled
  PROVE  Quiet(ss) /\ PendingBack = {} /\ PendingFront = {}
<1>1. Quiet(ss)
  BY DEF NothingIsLeft, CutShort, Quiet
<1> QED
  BY <1>1 DEF Quiet, PendingBack, PendingFront, Settled

(* No flow recorded goes through a component out of service: whatever has  *)
(* failed, in whatever order the passes of RunActiveConnections called the *)
(* neighbours that went on asking and offering, and although a failed      *)
(* component is never told what became of the flows it cleared - in every  *)
(* network where every change is told, unless the limit on the iterations  *)
(* cut the loop short.  A load with a schedule is left out: it asks for its*)
(* amount even when it is out of service.                                  *)
THEOREM FailedCarryNothing ==
  ASSUME EveryChangeIsTold, ConvertersAreWired, ScheduledLoadsDoNotFail
  PROVE  Spec => [](CutShort \/ FailedComponentsCarryNothing)
<1>1. IInv /\ NothingIsLeft /\ DownInv /\ FlowsAreFinal
        => CutShort \/ FailedComponentsCarryNothing
  <2> SUFFICES ASSUME IInv, NothingIsLeft, DownInv, FlowsAreFinal, ~ CutShort, Settled,
                      NEW c \in ss.down, NEW k \in Inflows(c) \cup Outflows(c)
               PROVE  ss.actual[k] = 0
    BY DEF FailedComponentsCarryNothing
  <2>1. /\ Quiet(ss) /\ PendingFront = {}
        /\ pc \notin {"backward", "forward", "finalize"}
    BY SettledIsQuiet DEF Settled
  <2>2. /\ k \in Conn /\ CarriesNothing(c)
        /\ Part[c].kind \notin {"WasteSink", "ScheduleBasedSource"}
    BY KindsDown DEF DownInv, Inflows, Outflows
  <2>3. IsFinal(ss, k)
    <3>1. Connection[k].to = c \/ Connection[k].from = c
      BY DEF Inflows, Outflows
    <3>2. ~ SourceWaste(k)
      BY <2>2, <3>1 DEF SourceWaste, EveryChangeIsTold, WasteIsDisposedOf
    <3> QED
      BY <2>1, <2>2, <3>2 DEF FlowsAreFinal
  <2>4. ss.req[k] = 0 \/ ss.avail[k] = 0
    BY <2>1, <2>2 DEF CarriesNothing, TakesNothing, GivesNothing
  <2>5. ss.req[k] \in Nat /\ ss.avail[k] \in Nat
    BY <2>2, FlowIsNat DEF IInv, TypeOK, State
  <2> QED
    BY <2>3, <2>4, <2>5 DEF IsFinal, FinalizeFlowValue
<1> QED
  BY <1>1, IInvHolds, NothingIsLeftHolds, DownInvHolds, FlowsAreFinalHolds, PTL


-----------------------------------------------------------------------------
(* What a mux takes and gives when its flows are final.                    *)

MuxTotal(s, c)  == SafeTotal(MuxRequests(s, c), Part[c].outports)
MuxSupply(s, c) == SafeTotal(MuxSupplies(s, c), Part[c].inports)

LEMMA MuxTotalsType ==
  ASSUME NEW s \in State, NEW c \in Comp, Part[c].kind = "Mux"
  PROVE  /\ MuxTotal(s, c) \in Nat /\ MuxSupply(s, c) \in Nat
         /\ Part[c].inports \in Nat \ {0} /\ Part[c].outports \in Nat \ {0}
         /\ \A i \in 1 .. Part[c].inports : MuxSupplies(s, c)[i] \in Nat
         /\ \A i \in 1 .. Part[c].outports : MuxRequests(s, c)[i] \in Nat
<1>1. /\ Part[c].inports \in Nat \ {0} /\ Part[c].outports \in Nat \ {0}
      /\ \A i \in 1 .. Part[c].inports : MuxSupplies(s, c)[i] \in Nat
      /\ \A i \in 1 .. Part[c].outports : MuxRequests(s, c)[i] \in Nat
  BY MuxParts, MuxTerms, FlowIsNat
<1>2. MuxTotal(s, c) \in Flow /\ MuxSupply(s, c) \in Flow
  BY <1>1, SafeTotalFlow DEF MuxTotal, MuxSupply
<1> QED
  BY <1>1, <1>2, FlowIsNat

(* An inflow is asked for what the earlier ones leave unserved.            *)
LEMMA MuxTakes ==
  ASSUME NEW s \in State, NEW c \in Comp, Part[c].kind = "Mux", AsksRight(s, c),
         NEW p \in InPorts(c), IsFinal(s, Inflow[c][p])
  PROVE  LET in     == Inflow[c][p]
             unmet  == LeftAfter(MuxSupplies(s, c), MuxTotal(s, c), p)
             supply == MuxSupplies(s, c)[p + 1]
         IN  /\ s.avail[in] = supply
             /\ s.actual[in] = FinalizeFlowValue(unmet, supply)
<1> DEFINE in == Inflow[c][p]
<1>1. in \in MuxIns(c) /\ Connection[in].toPort = p
  BY MuxEnds
<1>2. s.req[in] = MuxDemands(s, c)[in]
  BY <1>1, MuxDomains DEF AsksRight
<1>3. MuxDemands(s, c) = [k \in MuxIns(c) |->
        LeftAfter(MuxSupplies(s, c), MuxTotal(s, c), Connection[k].toPort)]
  BY DEF MuxDemands, MuxIns, MuxTotal
<1>4. s.req[in] = LeftAfter(MuxSupplies(s, c), MuxTotal(s, c), p)
  BY <1>1, <1>2, <1>3
<1>5. p + 1 \in 1 .. Part[c].inports /\ (p + 1) - 1 = p
  BY MuxParts DEF InPorts
<1>6. MuxSupplies(s, c)[p + 1] = s.avail[in]
  BY <1>5 DEF MuxSupplies
<1> QED
  BY <1>4, <1>6 DEF IsFinal

(* An outflow is offered at least its share of what is taken in, and no    *)
(* more than that when nothing is left.                                    *)
LEMMA MuxGives ==
  ASSUME NEW s \in State, NEW c \in Comp, Part[c].kind = "Mux",
         OffersRight(model, s, c),
         NEW p \in OutPorts(c), IsFinal(s, Outflow[c][p])
  PROVE  LET out    == Outflow[c][p]
             wanted == MuxRequests(s, c)
             share  == Given(wanted, MuxSupply(s, c), p + 1)
         IN  /\ wanted[p + 1] = AtMost(s.req[out], Part[c].maxOutflows[p + 1])
             /\ s.actual[out] = FinalizeFlowValue(s.req[out], s.avail[out])
             /\ s.req[out] \in Nat /\ s.avail[out] \in Nat
             /\ share <= s.avail[out]
             /\ LeftAfter(wanted, MuxSupply(s, c), Part[c].outports) = 0
                  => s.avail[out] = share
<1> DEFINE out    == Outflow[c][p]
           wanted == MuxRequests(s, c)
           supply == MuxSupply(s, c)
           served == [i \in 1 .. Part[c].outports |-> Given(wanted, supply, i)]
           room   == [i \in 1 .. Part[c].outports |->
                        Part[c].maxOutflows[i] - served[i]]
           left   == LeftAfter(wanted, supply, Part[c].outports)
<1>1. out \in MuxOuts(c) /\ out \in Conn /\ Connection[out].fromPort = p
  BY MuxEnds
<1>2. s.avail[out] = MuxOffers(s, c)[out]
  BY <1>1, MuxDomains DEF OffersRight
<1>3. MuxOffers(s, c) = [k \in MuxOuts(c) |->
        served[Connection[k].fromPort + 1]
          + Given(room, left, Connection[k].fromPort + 1)]
  BY DEF MuxOffers, MuxOuts, MuxSupply
<1>4. p + 1 \in 1 .. Part[c].outports /\ (p + 1) - 1 = p
  BY MuxParts DEF OutPorts
<1>5. s.avail[out] = served[p + 1] + Given(room, left, p + 1)
  BY <1>1, <1>2, <1>3
<1>6. /\ supply \in Nat
      /\ Part[c].outports \in Nat
      /\ \A i \in 1 .. Part[c].outports : wanted[i] \in Nat
  BY MuxTotalsType
<1>7. wanted[p + 1] = AtMost(s.req[out], Part[c].maxOutflows[p + 1])
  BY <1>4 DEF MuxRequests
<1>8. left \in Nat
  <2> HIDE DEF wanted, supply, served, room
  <2>1. LeftAfter(wanted, supply, Part[c].outports) \in 0 .. supply
    BY <1>6, LeftAfterType
  <2> QED
    BY <2>1
<1>9. \A i \in 1 .. Part[c].outports : served[i] \in 0 .. wanted[i]
  <2> TAKE i \in 1 .. Part[c].outports
  <2> HIDE DEF wanted, supply
  <2>1. i \in Nat \ {0} /\ \A j \in 1 .. i : wanted[j] \in Nat
    BY <1>6
  <2>2. Given(wanted, supply, i) \in 0 .. wanted[i]
    BY <1>6, <2>1, GivenType
  <2> QED
    BY <2>2
<1>10. \A i \in 1 .. Part[c].outports : room[i] \in Nat
  <2> TAKE i \in 1 .. Part[c].outports
  <2>1. Part[c].maxOutflows[i] \in Nat /\ wanted[i] <= Part[c].maxOutflows[i]
    BY MuxParts, MuxTerms, FlowIsNat
  <2>2. served[i] \in 0 .. wanted[i] /\ wanted[i] \in Nat
    BY <1>6, <1>9
  <2>3. room[i] = Part[c].maxOutflows[i] - served[i]
    OBVIOUS
  <2> HIDE DEF room, served, wanted
  <2> QED
    BY <2>1, <2>2, <2>3
<1>11. served[p + 1] = Given(wanted, supply, p + 1)
  BY <1>4
<1>12. served[p + 1] \in Nat
  <2> HIDE DEF served, wanted
  <2> QED
    BY <1>4, <1>6, <1>9
<1>13. Given(room, left, p + 1) \in Nat /\ (left = 0 => Given(room, left, p + 1) = 0)
  <2> HIDE DEF room, left
  <2>1. p + 1 \in Nat \ {0} /\ \A j \in 1 .. p + 1 : room[j] \in Nat
    BY <1>4, <1>6, <1>10
  <2>2. Given(room, left, p + 1) \in 0 .. room[p + 1] /\ room[p + 1] \in Nat
    BY <1>8, <2>1, GivenType
  <2>3. p \in Nat /\ \A j \in 1 .. p : room[j] \in Nat
    BY <1>4, <2>1
  <2>4. LeftAfter(room, left, p) \in 0 .. left
    BY <1>8, <2>3, LeftAfterType
  <2>5. left = 0 => LeftAfter(room, left, p) = 0
    BY <2>4
  <2> QED
    BY <1>4, <2>2, <2>5 DEF Given, AtMost
<1>14. s.req[out] \in Nat
  BY <1>1, FlowIsNat DEF State
<1>15. s.actual[out] = FinalizeFlowValue(s.req[out], s.avail[out])
  BY DEF IsFinal
<1> HIDE DEF out, wanted, supply, served, room, left
<1>16. s.avail[out] \in Nat /\ served[p + 1] <= s.avail[out]
       /\ (left = 0 => s.avail[out] = served[p + 1])
  BY <1>5, <1>12, <1>13
<1> QED
  BY <1>7, <1>11, <1>14, <1>15, <1>16 DEF out, wanted, supply, left


(* An inflow that could give more leaves the later ones unasked, and the   *)
(* whole demand below what the inflows could give together.                *)
LEMMA SpareInflow ==
  ASSUME NEW s \in State, NEW c \in Comp, Part[c].kind = "Mux", AsksRight(s, c),
         \A p \in InPorts(c) : IsFinal(s, Inflow[c][p]),
         NEW p \in InPorts(c), s.actual[Inflow[c][p]] < s.avail[Inflow[c][p]]
  PROVE  /\ MuxTotal(s, c) < Prefix(MuxSupplies(s, c), Part[c].inports)
         /\ \A q \in InPorts(c) : p < q => s.actual[Inflow[c][q]] = 0
<1> DEFINE supplies == MuxSupplies(s, c)
           total    == MuxTotal(s, c)
           n        == Part[c].inports
<1>1. /\ n \in Nat /\ total \in Nat
      /\ \A i \in 1 .. n : supplies[i] \in Nat
  BY MuxTotalsType
<1>2. \A q \in InPorts(c) :
        /\ s.avail[Inflow[c][q]] = supplies[q + 1]
        /\ s.actual[Inflow[c][q]] =
             FinalizeFlowValue(LeftAfter(supplies, total, q), supplies[q + 1])
  BY MuxTakes
<1>3. \A q \in InPorts(c) : q \in Nat /\ q + 1 \in 1 .. n /\ (q + 1) - 1 = q
  BY MuxParts DEF InPorts
<1> HIDE DEF supplies, total, n
<1>4. LeftAfter(supplies, total, p) < supplies[p + 1]
  <2>1. FinalizeFlowValue(LeftAfter(supplies, total, p), supplies[p + 1])
          < supplies[p + 1]
    BY <1>2
  <2>2. supplies[p + 1] \in Nat
    BY <1>1, <1>3
  <2> QED
    BY <2>1, <2>2 DEF FinalizeFlowValue
<1>5. /\ total < Prefix(supplies, n)
      /\ \A j \in p + 1 .. n : LeftAfter(supplies, total, j) = 0
  <2>1. p + 1 \in 1 .. n /\ LeftAfter(supplies, total, (p + 1) - 1) < supplies[p + 1]
    BY <1>3, <1>4
  <2> QED
    BY <1>1, <2>1, UnmetClaimTakesAll
<1>6. ASSUME NEW q \in InPorts(c), p < q PROVE s.actual[Inflow[c][q]] = 0
  <2>1. q \in p + 1 .. n
    BY <1>1, <1>3, <1>6
  <2>2. LeftAfter(supplies, total, q) = 0 /\ supplies[q + 1] \in Nat
    BY <1>1, <1>3, <1>5, <2>1
  <2> QED
    BY <1>2, <2>2 DEF FinalizeFlowValue
<1> QED
  BY <1>5, <1>6 DEF supplies, total, n

(* An outflow given less than it wants leaves nothing for the later ones,  *)
(* and all that is taken in below what the outflows want together.         *)
LEMMA ShortOutflow ==
  ASSUME NEW s \in State, NEW c \in Comp, Part[c].kind = "Mux",
         OffersRight(model, s, c),
         \A p \in OutPorts(c) : IsFinal(s, Outflow[c][p]),
         NEW p \in OutPorts(c),
         s.actual[Outflow[c][p]] <
           AtMost(s.req[Outflow[c][p]], Part[c].maxOutflows[p + 1])
  PROVE  /\ MuxSupply(s, c) < Prefix(MuxRequests(s, c), Part[c].outports)
         /\ \A q \in OutPorts(c) : p < q => s.actual[Outflow[c][q]] = 0
<1> DEFINE wanted == MuxRequests(s, c)
           supply == MuxSupply(s, c)
           n      == Part[c].outports
<1>1. /\ n \in Nat /\ supply \in Nat
      /\ \A i \in 1 .. n : wanted[i] \in Nat
  BY MuxTotalsType
<1>2. \A q \in OutPorts(c) :
        LET out   == Outflow[c][q]
            share == Given(wanted, supply, q + 1)
        IN  /\ wanted[q + 1] = AtMost(s.req[out], Part[c].maxOutflows[q + 1])
            /\ s.actual[out] = FinalizeFlowValue(s.req[out], s.avail[out])
            /\ s.req[out] \in Nat /\ s.avail[out] \in Nat
            /\ share <= s.avail[out]
            /\ LeftAfter(wanted, supply, n) = 0 => s.avail[out] = share
  BY MuxGives
<1>3. \A q \in OutPorts(c) : q \in Nat /\ q + 1 \in 1 .. n /\ (q + 1) - 1 = q
  BY MuxParts DEF OutPorts
<1>4. \A i \in 1 .. n : LeftAfter(wanted, supply, i - 1) \in Nat
  <2> HIDE DEF wanted, supply, n
  <2> TAKE i \in 1 .. n
  <2>1. i - 1 \in Nat /\ \A j \in 1 .. i - 1 : wanted[j] \in Nat
    BY <1>1
  <2>2. LeftAfter(wanted, supply, i - 1) \in 0 .. supply
    BY <1>1, <2>1, LeftAfterType
  <2> QED
    BY <2>2
<1>5. s.actual[Outflow[c][p]] < wanted[p + 1]
  BY <1>2
<1> HIDE DEF wanted, supply, n
<1>6. Given(wanted, supply, p + 1) < wanted[p + 1]
  <2> DEFINE out == Outflow[c][p]
             share == Given(wanted, supply, p + 1)
  <2>1. wanted[p + 1] <= s.req[out]
    <3>1. MuxRequests(s, c)[p + 1] \in Nat /\ s.req[out] \in Nat
      BY <1>1, <1>2, <1>3 DEF wanted
    <3>2. Part[c].maxOutflows[p + 1] \in Nat
      BY <1>3, MuxParts, FlowIsNat DEF n
    <3> QED
      BY <1>2, <3>1, <3>2 DEF AtMost
  <2>2. /\ s.actual[out] = FinalizeFlowValue(s.req[out], s.avail[out])
        /\ s.req[out] \in Nat /\ s.avail[out] \in Nat /\ share <= s.avail[out]
    BY <1>2
  <2>3. share \in Nat /\ wanted[p + 1] \in Nat
    <3>1. /\ wanted[p + 1] \in Nat
          /\ LeftAfter(wanted, supply, (p + 1) - 1) \in Nat
      BY <1>1, <1>3, <1>4
    <3> QED
      BY <3>1 DEF Given, AtMost
  <2>4. s.actual[out] < wanted[p + 1]
    BY <1>5
  <2> HIDE DEF out, share
  <2>5. share < wanted[p + 1]
    BY <2>1, <2>2, <2>3, <2>4 DEF FinalizeFlowValue
  <2> QED
    BY <2>5 DEF share
<1>7. LeftAfter(wanted, supply, (p + 1) - 1) < wanted[p + 1]
  <2>1. wanted[p + 1] \in Nat /\ LeftAfter(wanted, supply, (p + 1) - 1) \in Nat
    BY <1>1, <1>3, <1>4
  <2> QED
    BY <1>6, <2>1 DEF Given, AtMost
<1>8. /\ supply < Prefix(wanted, n)
      /\ \A j \in p + 1 .. n : LeftAfter(wanted, supply, j) = 0
  BY <1>1, <1>3, <1>7, UnmetClaimTakesAll
<1>9. ASSUME NEW q \in OutPorts(c), p < q PROVE s.actual[Outflow[c][q]] = 0
  <2>1. q \in p + 1 .. n /\ n \in p + 1 .. n
    BY <1>1, <1>3, <1>9
  <2>2. LeftAfter(wanted, supply, (q + 1) - 1) = 0 /\ LeftAfter(wanted, supply, n) = 0
    BY <1>3, <1>8, <2>1
  <2>3. wanted[q + 1] \in Nat
    BY <1>1, <1>3
  <2>4. Given(wanted, supply, q + 1) = 0
    BY <2>2, <2>3 DEF Given, AtMost
  <2>5. s.avail[Outflow[c][q]] = 0
    BY <1>2, <2>2, <2>4
  <2> QED
    BY <1>2, <2>5 DEF FinalizeFlowValue
<1> QED
  BY <1>8, <1>9 DEF wanted, supply, n

(* The inflows of a mux could give together more than a flow can hold.     *)
SuppliesOverflow ==
  \E c \in OfKind("Mux") : Prefix(MuxSupplies(ss, c), Part[c].inports) > MaxFlow

(* A mux serves in order: whatever the numbers of its ports, it takes from *)
(* an inflow only when the earlier ones give all they have, leaves nothing *)
(* to an outflow when an earlier one is short, and leaves none short while *)
(* an inflow could give more - in every network where every change is told,*)
(* unless the limit on the iterations cut the loop short.  The sums that   *)
(* UtilSafeAdd holds at the ceiling are left out: with both at the ceiling *)
(* outflows are left short while inflows have more to give.                *)
THEOREM MuxesServeInOrder ==
  ASSUME EveryChangeIsTold, ConvertersAreWired, ScheduledLoadsDoNotFail
  PROVE  Spec => [](CutShort \/ SuppliesOverflow \/ MuxDispatchesInOrder)
<1>1. IInv /\ SolverInv /\ NothingIsLeft /\ FlowsAreFinal
        => CutShort \/ SuppliesOverflow \/ MuxDispatchesInOrder
  <2> SUFFICES ASSUME IInv, SolverInv, NothingIsLeft, FlowsAreFinal,
                      ~ CutShort, ~ SuppliesOverflow, Settled,
                      NEW c \in OfKind("Mux") \ ss.down
               PROVE  LET Spare(p) == ss.actual[Inflow[c][p]] < ss.avail[Inflow[c][p]]
                          Short(p) == ss.actual[Outflow[c][p]] <
                                      AtMost(ss.req[Outflow[c][p]],
                                             Part[c].maxOutflows[p + 1])
                      IN  /\ \A p, q \in InPorts(c) :
                               p < q /\ Spare(p) => ss.actual[Inflow[c][q]] = 0
                          /\ \A p, q \in OutPorts(c) :
                               p < q /\ Short(p) => ss.actual[Outflow[c][q]] = 0
                          /\ (\E p \in OutPorts(c) : Short(p))
                               => \A p \in InPorts(c) : ~ Spare(p)
    BY DEF MuxDispatchesInOrder
  <2>1. ss \in State /\ c \in Comp /\ Part[c].kind = "Mux"
    BY DEF IInv, TypeOK, OfKind
  <2>2. /\ Quiet(ss) /\ PendingBack = {} /\ PendingFront = {}
        /\ pc \notin {"backward", "forward", "finalize"}
    BY SettledIsQuiet DEF Settled
  <2>3. AsksRight(ss, c) /\ OffersRight(model, ss, c)
    <3>1. UpToDate(model, ss, c, {}, {})
      BY <2>1, <2>2 DEF SolverInv, EveryoneIsTold, SupplyIsDue, Settled
    <3> QED
      BY <3>1 DEF UpToDate, Awaits
  <2>4. /\ \A p \in InPorts(c) : IsFinal(ss, Inflow[c][p])
        /\ \A p \in OutPorts(c) : IsFinal(ss, Outflow[c][p])
    <3>1. ASSUME NEW k \in Inflows(c) \cup Outflows(c) PROVE IsFinal(ss, k)
      <4>1. k \in Conn /\ (Connection[k].to = c \/ Connection[k].from = c)
        BY DEF Inflows, Outflows
      <4>2. ~ SourceWaste(k)
        BY <2>1, <4>1 DEF SourceWaste, EveryChangeIsTold, WasteIsDisposedOf
      <4> QED
        BY <2>2, <4>1, <4>2 DEF FlowsAreFinal
    <3> QED
      BY <2>1, <3>1, MuxEnds
  <2>5. ASSUME NEW p \in InPorts(c), ss.actual[Inflow[c][p]] < ss.avail[Inflow[c][p]]
        PROVE  /\ MuxTotal(ss, c) < Prefix(MuxSupplies(ss, c), Part[c].inports)
               /\ \A q \in InPorts(c) : p < q => ss.actual[Inflow[c][q]] = 0
    BY <2>1, <2>3, <2>4, <2>5, SpareInflow
  <2>6. ASSUME NEW p \in OutPorts(c),
               ss.actual[Outflow[c][p]] <
                 AtMost(ss.req[Outflow[c][p]], Part[c].maxOutflows[p + 1])
        PROVE  /\ MuxSupply(ss, c) < Prefix(MuxRequests(ss, c), Part[c].outports)
               /\ \A q \in OutPorts(c) : p < q => ss.actual[Outflow[c][q]] = 0
    BY <2>1, <2>3, <2>4, <2>6, ShortOutflow
  <2>7. ~ /\ MuxTotal(ss, c) < Prefix(MuxSupplies(ss, c), Part[c].inports)
          /\ MuxSupply(ss, c) < Prefix(MuxRequests(ss, c), Part[c].outports)
    <3> DEFINE supplied  == Prefix(MuxSupplies(ss, c), Part[c].inports)
               requested == Prefix(MuxRequests(ss, c), Part[c].outports)
    <3>1. supplied \in Nat /\ requested \in Nat
      BY <2>1, MuxTotalsType, PrefixType
    <3>2. ~ (supplied > MaxFlow)
      BY <2>1 DEF SuppliesOverflow
    <3>3. /\ MuxTotal(ss, c) = AtMost(requested, MaxFlow)
          /\ MuxSupply(ss, c) = AtMost(supplied, MaxFlow)
      BY DEF MuxTotal, MuxSupply, SafeTotal
    <3> HIDE DEF supplied, requested
    <3>4. ~ (MuxTotal(ss, c) < supplied /\ MuxSupply(ss, c) < requested)
      BY <3>1, <3>2, <3>3, FlowAssumption DEF AtMost
    <3> QED
      BY <3>4 DEF supplied, requested
  <2> QED
    BY <2>5, <2>6, <2>7
<1> QED
  BY <1>1, IInvHolds, SolverInvHolds, NothingIsLeftHolds, FlowsAreFinalHolds, PTL


(* So does each store in the networks in which no flow goes through a      *)
(* component out of service, unless the solver is ever cut short.          *)
THEOREM StoredEnergyAddsUp ==
  ASSUME EveryChangeIsTold, ConvertersAreWired, ScheduledLoadsDoNotFail
  PROVE  Spec /\ [](~ CutShort) => []StoredEnergyIsAccountedFor
  BY FailedCarryNothing, StoresHoldWhatFlowedIn, PTL


-----------------------------------------------------------------------------
(* Switches.  None of this needs EveryChangeIsTold, which no network with a*)
(* switch satisfies.                                                       *)

(* A flow that is no switch's inflow but c's.                              *)
Elsewhere(c, k) ==
  k \in Conn /\ (Part[Connection[k].to].kind = "Switch" => Connection[k].to = c)

(* What a handler of c may make of a state without concern to the other    *)
(* switches: at most it takes back what they ask.                          *)
Spares(c, s) ==
  {r \in Handled(s) :
     /\ \A k \in Conn :
          \/ Elsewhere(c, k)
          \/ r.req[k] \in {s.req[k], 0} /\ r.actual[k] \in {s.actual[k], 0}
     /\ r.switch = s.switch
     /\ s.back \subseteq r.back}

LEMMA SparesSelf ==
  ASSUME NEW c, NEW s \in State
  PROVE  s \in Spares(c, s)
  BY HandledSelf DEF Spares

LEMMA SparesTwice ==
  ASSUME NEW c, NEW s, NEW r \in Spares(c, s), NEW q \in Spares(c, r)
  PROVE  r \in State /\ q \in State /\ q \in Spares(c, s)
<1>1. r \in State /\ q \in State /\ q \in Handled(s)
  BY HandledTwice DEF Spares
<1> QED
  BY <1>1 DEF Spares

LEMMA RequestSpares ==
  ASSUME NEW c, NEW s \in State, NEW k \in Conn, Elsewhere(c, k), NEW v \in Flow
  PROVE  Request(s, k, v) \in Spares(c, s)
<1>1. Request(s, k, v) \in Handled(s)
  BY RequestType
<1> QED
  BY <1>1 DEF Spares, Request, State

LEMMA OfferSpares ==
  ASSUME NEW c, NEW s \in State, NEW k \in Conn, NEW v \in Flow
  PROVE  Offer(s, k, v) \in Spares(c, s)
<1>1. Offer(s, k, v) \in Handled(s)
  BY OfferType
<1> QED
  BY <1>1 DEF Spares, Offer, State

LEMMA SpillSpares ==
  ASSUME NEW c, NEW s \in State, NEW k \in Conn, Elsewhere(c, k), NEW v \in Flow
  PROVE  Spill(s, k, v) \in Spares(c, s)
<1>1. Spill(s, k, v) \in Handled(s)
  BY SpillType
<1> QED
  BY <1>1 DEF Spares, Spill, State

LEMMA RequestEachSpares ==
  ASSUME NEW c, NEW s \in State, NEW f, DOMAIN f \subseteq Conn,
         \A k \in DOMAIN f : Elsewhere(c, k) /\ f[k] \in Flow
  PROVE  RequestEach(s, f) \in Spares(c, s)
<1>1. RequestEach(s, f) \in Handled(s)
  BY RequestEachType
<1> QED
  BY <1>1 DEF Spares, RequestEach, State

LEMMA OfferEachSpares ==
  ASSUME NEW c, NEW s \in State, NEW f, DOMAIN f \subseteq Conn,
         \A k \in DOMAIN f : f[k] \in Flow
  PROVE  OfferEach(s, f) \in Spares(c, s)
<1>1. OfferEach(s, f) \in Handled(s)
  BY OfferEachType
<1> QED
  BY <1>1 DEF Spares, OfferEach, State

LEMMA ClearFlowsSpares ==
  ASSUME NEW c, NEW s \in State, NEW conns
  PROVE  ClearFlows(s, conns) \in Spares(c, s)
<1>1. ClearFlows(s, conns) \in Handled(s)
  BY ClearFlowsType
<1> QED
  BY <1>1 DEF Spares, ClearFlows, State

LEMMA InflowElsewhere ==
  ASSUME NEW c, NEW k \in Inflows(c)
  PROVE  Elsewhere(c, k)
  BY DEF Elsewhere, Inflows

LEMMA WasteElsewhere ==
  ASSUME WasteIsDisposedOf, NEW c \in Comp, HasOutflow(c, WastePort(c)),
         Part[c].kind \in {"ScheduleBasedSource", "Converter", "Mover", "Store"}
  PROVE  \A d : Elsewhere(d, Outflow[c][WastePort(c)])
  BY OutflowType DEF WasteIsDisposedOf, Elsewhere

-----------------------------------------------------------------------------
(* The handlers.                                                           *)

LEMMA ConverterLossSpares ==
  ASSUME WasteIsDisposedOf, NEW s \in State, NEW c \in Comp, Part[c].kind = "Converter"
  PROVE  UpdateConverterLossflowAndWasteflow(s, c) \in Spares(c, s)
<1> DEFINE in      == Inflow[c][0]
           out     == Outflow[c][0]
           loss    == Outflow[c][LossPort(c)]
           waste   == Outflow[c][WastePort(c)]
           inflow  == FinalizeFlowValue(s.req[in], s.avail[in])
           outflow == FinalizeFlowValue(s.req[out],
                                        AtMost(s.avail[out], Part[c].maxOutflow))
           nonOut  == Monus(inflow, outflow)
           offered == Offer(s, loss, AtMost(nonOut, Part[c].maxLossflow))
           wasted  == Monus(nonOut, LossTaken(s, c, loss))
<1>1. HasInflow(c, 0) /\ HasOutflow(c, 0) /\ HasOutflow(c, WastePort(c))
  BY KnownKind DEF WellConnected
<1>2. in \in Conn /\ out \in Conn /\ waste \in Conn /\ Elsewhere(c, waste)
  BY <1>1, InflowType, OutflowType, WasteElsewhere
<1>3. Part[c].maxOutflow \in Flow /\ Part[c].maxLossflow \in Flow
  BY ConversionParts
<1>4. inflow \in Flow /\ outflow \in Flow
  BY <1>2, <1>3, FlowsOfState, FinalizeFlowValueFlow, LimitedOutflow
<1> HIDE DEF inflow, outflow
<1>5. nonOut \in Flow
  BY <1>4, MonusFlow, FlowIsNat
<1> HIDE DEF in, out, waste, nonOut
<1>6. CASE HasOutflow(c, LossPort(c))
  <2>1. loss \in Conn
    BY <1>6, OutflowType
  <2>2. AtMost(nonOut, Part[c].maxLossflow) \in Flow
    BY <1>3, <1>5, AtMostFlow, FlowIsNat
  <2>3. offered \in Spares(c, s) /\ offered \in State
    BY <2>1, <2>2, OfferSpares DEF Spares, Handled
  <2>4. wasted \in Flow
    <3>1. LossTaken(s, c, loss) \in Nat
      BY <1>3, <2>1, FlowsOfState, AtMostFlow, FlowIsNat DEF LossTaken
    <3> QED
      BY <1>5, <3>1, MonusFlow
  <2>5. UpdateConverterLossflowAndWasteflow(s, c) = Spill(offered, waste, wasted)
    BY <1>6 DEF UpdateConverterLossflowAndWasteflow, in, out, waste, inflow,
                outflow, nonOut
  <2> HIDE DEF offered, wasted
  <2>6. Spill(offered, waste, wasted) \in Spares(c, offered)
    BY <1>2, <2>3, <2>4, SpillSpares
  <2> QED
    BY <2>3, <2>5, <2>6, SparesTwice
<1>7. CASE ~ HasOutflow(c, LossPort(c))
  <2>1. UpdateConverterLossflowAndWasteflow(s, c) = Spill(s, waste, nonOut)
    BY <1>7 DEF UpdateConverterLossflowAndWasteflow, in, out, waste, inflow,
                outflow, nonOut
  <2> QED
    BY <1>2, <1>5, <2>1, SpillSpares
<1> QED
  BY <1>6, <1>7

LEMMA MoverEnvironmentSpares ==
  ASSUME WasteIsDisposedOf, NEW s \in State, NEW c \in Comp, Part[c].kind = "Mover"
  PROVE  UpdateEnvironmentFlowForAllMovers(s, c) \in Spares(c, s)
<1> DEFINE in      == Inflow[c][0]
           out     == Outflow[c][0]
           env     == Inflow[c][EnvironmentPort]
           waste   == Outflow[c][WastePort(c)]
           inflow  == FinalizeFlowValue(s.req[in], s.avail[in])
           outflow == FinalizeFlowValue(s.req[out],
                                        AtMost(s.avail[out], Part[c].maxOutflow))
           fromEnv == Monus(outflow, inflow)
           wasted  == Monus(inflow, outflow)
           taken   == Spill(s, env, fromEnv)
           spilled == Spill(taken, waste, wasted)
           result  == [spilled EXCEPT !.actual[env] = fromEnv, !.actual[waste] = wasted]
<1>1. /\ in \in Conn /\ out \in Conn /\ env \in Conn /\ waste \in Conn
      /\ Elsewhere(c, env) /\ Elsewhere(c, waste)
  <2>1. /\ HasInflow(c, 0) /\ HasOutflow(c, 0) /\ HasInflow(c, EnvironmentPort)
        /\ HasOutflow(c, WastePort(c))
    BY KnownKind DEF WellConnected
  <2>2. env \in Conn /\ env \in Inflows(c)
    BY <2>1, InflowType DEF Inflows
  <2> QED
    BY <2>1, <2>2, InflowType, OutflowType, InflowElsewhere, WasteElsewhere
<1>2. inflow \in Flow
  BY <1>1, FlowsOfState, FinalizeFlowValueFlow
<1>3. outflow \in Flow
  BY <1>1, ConversionParts, LimitedOutflow
<1>4. fromEnv \in Flow /\ wasted \in Flow
  BY <1>2, <1>3, MonusFlow, FlowIsNat
<1>5. UpdateEnvironmentFlowForAllMovers(s, c) = result
  BY DEF UpdateEnvironmentFlowForAllMovers
<1> HIDE DEF in, out, env, waste, inflow, outflow, fromEnv, wasted
<1>6. taken \in Spares(c, s) /\ taken \in State
  BY <1>1, <1>4, SpillSpares DEF Spares, Handled
<1> HIDE DEF taken
<1>7. spilled \in Spares(c, s) /\ spilled \in State
  BY <1>1, <1>4, <1>6, SpillSpares, SparesTwice
<1> HIDE DEF spilled
<1>8. result \in Handled(spilled)
  BY <1>1, <1>4, <1>7 DEF Handled, State
<1>9. result \in Spares(c, spilled)
  BY <1>1, <1>7, <1>8 DEF Spares, State
<1> QED
  BY <1>5, <1>7, <1>9, SparesTwice

LEMMA ConversionSpares ==
  ASSUME WasteIsDisposedOf, NEW s \in State, NEW c \in Comp,
         Part[c].kind \in {"Converter", "Mover"}
  PROVE  /\ Part[c].kind = "Converter" =>
              /\ RunConverterBackward(s, c) \in Spares(c, s)
              /\ RunConverterForward(s, c) \in Spares(c, s)
         /\ Part[c].kind = "Mover" =>
              /\ RunMoverBackward(s, c) \in Spares(c, s)
              /\ \A k : RunMoverForward(s, k, c) \in Spares(c, s)
<1> DEFINE wanted == AtMost(s.req[Outflow[c][0]], Part[c].maxOutflow)
           needed == CeilDiv(wanted, LookupInterp(Part[c].byOutflow, wanted))
           asked  == Request(s, Inflow[c][0], needed)
           made(given) == AtMost(FloorMul(given, LookupInterp(Part[c].byInflow, given)),
                                 Part[c].maxOutflow)
           offered(given) == Offer(s, Outflow[c][0], made(given))
<1>1. Inflow[c][0] \in Conn /\ Elsewhere(c, Inflow[c][0]) /\ Outflow[c][0] \in Conn
  BY KnownKind, InflowType, OutflowType DEF WellConnected, Elsewhere
<1>2. needed \in Flow
  BY ConversionFlow
<1>3. \A given : made(given) \in Flow
  BY ConversionFlow, ConversionParts, AtMostFlow, FlowIsNat
<1>4. asked \in Spares(c, s) /\ asked \in State
  BY <1>1, <1>2, RequestSpares DEF Spares, Handled
<1>5. \A given : offered(given) \in Spares(c, s) /\ offered(given) \in State
  BY <1>1, <1>3, OfferSpares DEF Spares, Handled
<1>6. /\ RunConverterBackward(s, c) = UpdateConverterLossflowAndWasteflow(asked, c)
      /\ RunMoverBackward(s, c) = UpdateEnvironmentFlowForAllMovers(asked, c)
  BY DEF RunConverterBackward, RunMoverBackward, Then
<1>7. /\ RunConverterForward(s, c)
           = UpdateConverterLossflowAndWasteflow(offered(s.avail[Inflow[c][0]]), c)
      /\ \A k : RunMoverForward(s, k, c)
           = UpdateEnvironmentFlowForAllMovers(offered(s.avail[k]), c)
  BY DEF RunConverterForward, RunMoverForward, Then
<1> HIDE DEF asked, offered
<1>8. CASE Part[c].kind = "Converter"
  BY <1>4, <1>5, <1>6, <1>7, <1>8, ConverterLossSpares, SparesTwice
<1>9. CASE Part[c].kind = "Mover"
  BY <1>4, <1>5, <1>6, <1>7, <1>9, MoverEnvironmentSpares, SparesTwice
<1> QED
  BY <1>8, <1>9

LEMMA MuxSpares ==
  ASSUME NEW s \in State, NEW c \in Comp, Part[c].kind = "Mux"
  PROVE  /\ RunMuxBackward(s, c) \in Spares(c, s)
         /\ RunMuxForward(s, c) \in Spares(c, s)
         /\ RunMuxBothWays(s, c) \in Spares(c, s)
<1> DEFINE asked == RequestEach(s, MuxDemands(s, c))
<1>1. \A k \in DOMAIN MuxDemands(s, c) : Elsewhere(c, k)
  <2>1. DOMAIN MuxDemands(s, c) = {Inflow[c][p] : p \in InPorts(c)}
    BY DEF MuxDemands
  <2>2. \A p \in InPorts(c) : Inflow[c][p] \in Inflows(c)
    BY KnownKind, InflowType DEF WellConnected, Inflows
  <2> QED
    BY <2>1, <2>2, InflowElsewhere
<1>2. asked \in Spares(c, s) /\ asked \in State
  BY <1>1, MuxDemandsType, RequestEachSpares DEF Spares, Handled
<1>3. RunMuxBothWays(s, c) = OfferEach(asked, MuxOffers(s, c)) /\ RunMuxBackward(s, c) = asked
  BY DEF RunMuxBothWays, RunMuxBackward
<1> HIDE DEF asked
<1>4. OfferEach(asked, MuxOffers(s, c)) \in Spares(c, asked)
  BY <1>2, MuxOffersType, OfferEachSpares
<1>5. RunMuxForward(s, c) \in Spares(c, s)
  BY MuxOffersType, OfferEachSpares DEF RunMuxForward
<1> QED
  BY <1>2, <1>3, <1>4, <1>5, SparesTwice

LEMMA StoreSpares ==
  ASSUME NEW s \in State, NEW c \in Comp, Part[c].kind = "Store"
  PROVE  RunStoreBackward(s, c) \in Spares(c, s) /\ RunStoreForward(s, c) \in Spares(c, s)
<1>1. HasInflow(c, 0) => Inflow[c][0] \in Conn /\ Elsewhere(c, Inflow[c][0])
  BY InflowType DEF Elsewhere
<1>2. Outflow[c][0] \in Conn
  BY KnownKind, OutflowType DEF WellConnected
<1> QED
  BY <1>1, <1>2, StoreRequestType, StoreAvailableType, RequestSpares, OfferSpares, SparesSelf
     DEF RunStoreBackward, RunStoreForward

LEMMA SupplySpares ==
  ASSUME WasteIsDisposedOf, NEW s \in State, NEW c \in Comp,
         Part[c].kind = "ScheduleBasedSource", NEW available \in Flow
  PROVE  Spill(Offer(s, Outflow[c][0], available), Outflow[c][WastePort(c)],
               Monus(available, s.req[Outflow[c][0]])) \in Spares(c, s)
<1> DEFINE out     == Outflow[c][0]
           waste   == Outflow[c][WastePort(c)]
           offered == Offer(s, out, available)
<1>1. out \in Conn /\ waste \in Conn /\ Elsewhere(c, waste)
  BY KnownKind, OutflowType, WasteElsewhere DEF WellConnected
<1>2. Monus(available, s.req[out]) \in Flow
  BY <1>1, FlowsOfState, FlowIsNat, MonusFlow
<1>3. offered \in State /\ offered \in Spares(c, s)
  BY <1>1, OfferSpares DEF Spares, Handled
<1> HIDE DEF offered, out, waste
<1>4. Spill(offered, waste, Monus(available, s.req[out])) \in Spares(c, s)
  BY <1>1, <1>2, <1>3, SpillSpares, SparesTwice
<1> QED
  BY <1>4 DEF offered, out, waste

LEMMA PassthroughSpares ==
  ASSUME NEW s \in State, NEW c \in Comp, Part[c].kind = "PassThrough"
  PROVE  /\ RunPassthroughBackward(s, c) \in Spares(c, s)
         /\ RunPassthroughForward(s, c) \in Spares(c, s)
<1>1. Inflow[c][0] \in Conn /\ Elsewhere(c, Inflow[c][0]) /\ Outflow[c][0] \in Conn
  BY KnownKind, InflowType, OutflowType DEF WellConnected, Elsewhere
<1>2. s.req[Outflow[c][0]] \in Nat /\ s.avail[Inflow[c][0]] \in Nat
  BY <1>1, FlowsOfState, FlowIsNat
<1>3. /\ AtMost(s.req[Outflow[c][0]], Part[c].maxOutflow) \in Flow
      /\ AtMost(s.avail[Inflow[c][0]], Part[c].maxOutflow) \in Flow
  BY <1>2, LoadAndSourceParts, AtMostFlow
<1> QED
  BY <1>1, <1>3, FlowIsNat, RequestSpares, OfferSpares
     DEF RunPassthroughBackward, RunPassthroughForward

LEMMA SwitchForwardSpares ==
  ASSUME NEW s \in State, NEW c \in Comp, Part[c].kind = "Switch", NEW k \in Conn
  PROVE  RunSwitchForward(s, k, c) \in Spares(c, s)
<1>1. Outflow[c][0] \in Conn
  BY KnownKind, OutflowType DEF WellConnected
<1>2. Offer(s, Outflow[c][0], s.avail[k]) \in Spares(c, s)
  BY <1>1, FlowsOfState, OfferSpares
<1> QED
  BY <1>2, SparesSelf DEF RunSwitchForward

(* The inflow a switch does not use in its position.                       *)
Unused(s, c) == Inflow[c][IF s.switch[c] = "Primary" THEN 1 ELSE 0]

(* A switch that is asked takes back what it asked of that inflow.         *)
LEMMA SwitchBackwardSpares ==
  ASSUME NEW s \in State, NEW c \in Comp, Part[c].kind = "Switch"
  PROVE  LET r == RunSwitchBackward(s, c)
         IN  r \in Spares(c, s) /\ r.req[Unused(s, c)] = 0
<1> DEFINE in0   == Inflow[c][0]
           in1   == Inflow[c][1]
           want  == s.req[Outflow[c][0]]
           asked == Request(s, in0, want)
           freed == Request(s, in0, 0)
           r     == RunSwitchBackward(s, c)
<1>1. /\ in0 \in Conn /\ in1 \in Conn /\ Outflow[c][0] \in Conn /\ in0 # in1
      /\ Elsewhere(c, in0) /\ Elsewhere(c, in1)
  BY KnownKind, InflowType, OutflowType DEF WellConnected, Elsewhere
<1>2. want \in Flow
  BY <1>1, FlowsOfState
<1>3. Unused(s, c) = IF s.switch[c] = "Primary" THEN in1 ELSE in0
  BY DEF Unused
<1> HIDE DEF in0, in1, want
<1>4. CASE s.switch[c] = "Primary"
  <2>1. asked \in State /\ asked \in Spares(c, s)
    BY <1>1, <1>2, RequestSpares DEF Spares, Handled
  <2> DEFINE scheduled ==
               IF asked.req[in0] # 0 THEN asked.back \cup {in1} ELSE asked.back
  <2>2. r = [asked EXCEPT !.req[in1] = 0, !.back = scheduled]
    BY <1>4 DEF RunSwitchBackward, in0, in1, want
  <2> HIDE DEF asked, r
  <2>3. scheduled \in SUBSET Conn /\ asked.back \subseteq scheduled
    BY <1>1, <2>1 DEF State
  <2> HIDE DEF scheduled
  <2>4. r \in Handled(asked)
    BY <1>1, <2>1, <2>2, <2>3, FlowIsNat DEF Handled, State
  <2>5. r \in Spares(c, asked) /\ r.req[in1] = 0
    BY <1>1, <2>1, <2>2, <2>3, <2>4 DEF Spares, State
  <2> QED
    BY <1>3, <1>4, <2>1, <2>5, SparesTwice DEF r
<1>5. CASE s.switch[c] # "Primary"
  <2>1. freed \in State /\ freed \in Spares(c, s)
    BY <1>1, FlowIsNat, RequestSpares DEF Spares, Handled
  <2>2. r = Request(freed, in1, want)
    BY <1>5 DEF RunSwitchBackward, in0, in1, want
  <2>3. freed.req[in0] = 0
    BY <1>1 DEF Request, State
  <2> HIDE DEF freed, r
  <2>4. r \in Spares(c, freed)
    BY <1>1, <1>2, <2>1, <2>2, RequestSpares
  <2>5. r.req[in0] = 0
    BY <1>1, <2>1, <2>2, <2>3 DEF Request, State
  <2> QED
    BY <1>3, <1>5, <2>1, <2>4, <2>5, SparesTwice DEF r
<1> QED
  BY <1>4, <1>5

LEMMA BackwardSpares ==
  ASSUME WasteIsDisposedOf, NEW sch, SchedulesOfFlows(sch), NEW s \in State,
         IndicesInRange(sch, s), NEW k \in Conn
  PROVE  RunBackward(sch, s, k) \in Spares(Connection[k].from, s)
<1> DEFINE c == Connection[k].from
<1>1. c \in Comp
  BY ConnectionEnds
<1> HIDE DEF c
<1>2. CASE Part[c].kind = "PassThrough"
  BY <1>1, <1>2, PassthroughSpares DEF RunBackward, c
<1>3. CASE Part[c].kind = "ScheduleBasedSource"
  <2>1. c \in OfKind("ScheduleBasedSource")
    BY <1>1, <1>3 DEF OfKind
  <2>2. sch.avail[c] \in ScheduleOfFlows /\ s.srcIdx[c] \in 1 .. Len(sch.avail[c])
    BY <2>1 DEF SchedulesOfFlows, IndicesInRange
  <2> DEFINE available == AtMost(sch.avail[c][s.srcIdx[c]].amount, Part[c].maxOutflow)
  <2>3. available \in Flow
    BY <1>1, <1>3, <2>2, ScheduledAmount, FlowIsNat, LoadAndSourceParts, AtMostFlow
  <2>4. RunBackward(sch, s, k) =
          Spill(Offer(s, Outflow[c][0], available), Outflow[c][WastePort(c)],
                Monus(available, s.req[Outflow[c][0]]))
    BY <1>3 DEF RunBackward, RunScheduleBasedSourceBackward, c
  <2> HIDE DEF available
  <2>5. RunBackward(sch, s, k) \in Spares(c, s)
    BY <1>1, <1>3, <2>3, <2>4, SupplySpares
  <2> QED
    BY <2>5 DEF c
<1>4. CASE Part[c].kind = "Converter"
  BY <1>1, <1>4, ConversionSpares, ConverterLossSpares DEF RunBackward, c
<1>5. CASE Part[c].kind = "Mux"
  BY <1>1, <1>5, MuxSpares DEF RunBackward, c
<1>6. CASE Part[c].kind = "Store"
  BY <1>1, <1>6, StoreSpares DEF RunBackward, c
<1>7. CASE Part[c].kind = "Mover"
  BY <1>1, <1>7, ConversionSpares, MoverEnvironmentSpares DEF RunBackward, c
<1>8. CASE Part[c].kind = "Switch"
  BY <1>1, <1>8, SwitchBackwardSpares DEF RunBackward, c
<1>9. CASE Part[c].kind \notin {"PassThrough", "ScheduleBasedSource", "Converter",
                               "Mux", "Store", "Mover", "Switch"}
  BY <1>9, SparesSelf DEF RunBackward, c
<1> QED
  BY <1>2, <1>3, <1>4, <1>5, <1>6, <1>7, <1>8, <1>9

LEMMA ForwardSpares ==
  ASSUME WasteIsDisposedOf, NEW s \in State, NEW k \in Conn
  PROVE  RunForward(s, k) \in Spares(Connection[k].to, s)
<1> DEFINE c == Connection[k].to
<1>1. c \in Comp
  BY ConnectionEnds
<1> HIDE DEF c
<1>2. CASE Part[c].kind = "PassThrough"
  BY <1>1, <1>2, PassthroughSpares DEF RunForward, c
<1>3. CASE Part[c].kind \in {"Converter", "Mover"}
  BY <1>1, <1>3, ConversionSpares DEF RunForward, c
<1>4. CASE Part[c].kind = "Mux"
  BY <1>1, <1>4, MuxSpares DEF RunForward, c
<1>5. CASE Part[c].kind = "Store"
  BY <1>1, <1>5, StoreSpares DEF RunForward, c
<1>6. CASE Part[c].kind = "Switch"
  BY <1>1, <1>6, SwitchForwardSpares DEF RunForward, c
<1>7. CASE Part[c].kind \notin {"PassThrough", "Converter", "Mover", "Mux",
                               "Store", "Switch"}
  BY <1>7, SparesSelf DEF RunForward, c
<1> QED
  BY <1>2, <1>3, <1>4, <1>5, <1>6, <1>7

-----------------------------------------------------------------------------
(* Failures and repairs.                                                   *)

LEMMA CutOffSpares ==
  ASSUME NEW s \in State, NEW c, NEW outs, outs \subseteq Conn
  PROVE  OfferEach(RequestEach(s, ZeroAt(Inflows(c))), ZeroAt(outs)) \in Spares(c, s)
<1> DEFINE asked == RequestEach(s, ZeroAt(Inflows(c)))
<1>1. \A k \in DOMAIN ZeroAt(Inflows(c)) : Elsewhere(c, k)
  BY InflowElsewhere DEF ZeroAt
<1>2. asked \in State /\ asked \in Spares(c, s)
  BY <1>1, EndsAreConnections, ZeroAtType, RequestEachSpares DEF Spares, Handled
<1> HIDE DEF asked
<1>3. OfferEach(asked, ZeroAt(outs)) \in Spares(c, s)
  BY <1>2, ZeroAtType, OfferEachSpares, SparesTwice
<1> QED
  BY <1>3 DEF asked

LEMMA FailureSpares ==
  ASSUME WasteIsDisposedOf, NEW s \in State, NEW c \in Comp
  PROVE  SetComponentToFailed(s, c) \in Spares(c, [s EXCEPT !.down = @ \cup {c}])
<1> DEFINE f      == [s EXCEPT !.down = @ \cup {c}]
           ins    == Inflows(c)
           outs   == Outflows(c)
           waste  == {k \in outs : Connection[k].fromPort = WastePort(c)}
           others == outs \ waste
           result == SetComponentToFailed(s, c)
<1>1. f \in State
  BY MarkDownType DEF Kept
<1>2. outs \subseteq Conn /\ others \subseteq Conn
  BY EndsAreConnections
<1> HIDE DEF f, outs, waste, others
<1>3. CASE Part[c].kind \in {"ConstantLoad", "ScheduleBasedLoad",
                             "ConstantSource", "Mux", "PassThrough"}
  <2>1. result = OfferEach(RequestEach(f, ZeroAt(ins)), ZeroAt(outs))
    BY <1>3 DEF SetComponentToFailed, f, outs
  <2>2. result \in Spares(c, f)
    BY <1>1, <1>2, <2>1, CutOffSpares
  <2> QED
    BY <2>2 DEF f
<1>4. CASE Part[c].kind = "Converter"
  <2> DEFINE asked   == Request(f, Inflow[c][0], 0)
             offered == OfferEach(asked, ZeroAt(others))
             wasteOf == Outflow[c][WastePort(c)]
  <2>1. result = Spill(offered, wasteOf, 0)
    BY <1>4 DEF SetComponentToFailed, f, outs, waste, others
  <2>2. /\ Inflow[c][0] \in Conn /\ Elsewhere(c, Inflow[c][0])
        /\ wasteOf \in Conn /\ Elsewhere(c, wasteOf)
    BY <1>4, KnownKind, InflowType, OutflowType, WasteElsewhere DEF WellConnected, Elsewhere
  <2>3. asked \in State /\ asked \in Spares(c, f)
    BY <1>1, <2>2, RequestSpares, FlowIsNat DEF Spares, Handled
  <2> HIDE DEF asked, wasteOf
  <2>4. offered \in State /\ offered \in Spares(c, f)
    BY <1>2, <2>3, ZeroAtType, OfferEachSpares, SparesTwice
  <2> HIDE DEF offered
  <2>5. result \in Spares(c, f)
    BY <2>1, <2>2, <2>4, SpillSpares, FlowIsNat, SparesTwice
  <2> QED
    BY <2>5 DEF f
<1>5. CASE Part[c].kind = "Mover"
  <2>1. result = ClearFlows(f, ins \cup outs)
    BY <1>5 DEF SetComponentToFailed, f, outs
  <2>2. result \in Spares(c, f)
    BY <1>1, <2>1, ClearFlowsSpares
  <2> QED
    BY <2>2 DEF f
<1>6. CASE Part[c].kind = "Store"
  <2> DEFINE cut == OfferEach(RequestEach(f, ZeroAt(ins)), ZeroAt(others))
  <2>1. result = ClearFlows(cut, waste)
    BY <1>6 DEF SetComponentToFailed, f, outs, waste, others
  <2>2. cut \in State /\ cut \in Spares(c, f)
    BY <1>1, <1>2, CutOffSpares DEF Spares, Handled
  <2> HIDE DEF cut
  <2>3. result \in Spares(c, f)
    BY <2>1, <2>2, ClearFlowsSpares, SparesTwice
  <2> QED
    BY <2>3 DEF f
<1>7. CASE Part[c].kind \notin {"ConstantLoad", "ScheduleBasedLoad",
             "ConstantSource", "Mux", "PassThrough", "Converter", "Mover", "Store"}
  <2>1. result = f
    BY <1>7 DEF SetComponentToFailed, f
  <2>2. result \in Spares(c, f)
    BY <1>1, <2>1, SparesSelf
  <2> QED
    BY <2>2 DEF f
<1> QED
  BY <1>3, <1>4, <1>5, <1>6, <1>7

LEMMA RepairSpares ==
  ASSUME WasteIsDisposedOf, NEW sch, SchedulesOfFlows(sch), NEW s \in State,
         IndicesInRange(sch, s), NEW c \in Comp, NEW k \in RepairedLoadConns(c),
         Part[c].kind = "ScheduleBasedLoad" =>
           \E d \in OfKind("ConstantLoad") :
             Cardinality(PeersBefore(d)) = Cardinality(PeersBefore(c))
  PROVE  SetComponentToRepaired(sch, s, c, k) \in Spares(c, [s EXCEPT !.down = @ \ {c}])
<1> DEFINE r      == [s EXCEPT !.down = @ \ {c}]
           result == SetComponentToRepaired(sch, s, c, k)
<1>1. r \in State
  BY MarkDownType DEF Kept
<1>2. /\ r.srcIdx = s.srcIdx /\ r.loadIdx = s.loadIdx
      /\ r.req = s.req /\ r.avail = s.avail
  BY DEF State
<1> HIDE DEF r
<1>3. result \in Spares(c, r)
  <2>1. CASE Part[c].kind = "ConstantLoad"
    <3>1. Inflow[c][0] \in Conn /\ Elsewhere(c, Inflow[c][0])
      BY <2>1, KnownKind, InflowType DEF WellConnected, Elsewhere
    <3>2. result = Request(r, Inflow[c][0], Part[c].load)
      BY <2>1 DEF SetComponentToRepaired, r
    <3> QED
      BY <1>1, <2>1, <3>1, <3>2, LoadAndSourceParts, RequestSpares
  <2>2. CASE Part[c].kind = "ScheduleBasedLoad"
    <3>1. k \in {Inflow[d][0] : d \in OfKind("ConstantLoad")}
      BY <2>2 DEF RepairedLoadConns
    <3>2. k \in Conn /\ Elsewhere(c, k)
      BY <3>1, KnownKind, InflowType DEF OfKind, WellConnected, Elsewhere
    <3>3. c \in OfKind("ScheduleBasedLoad")
      BY <2>2 DEF OfKind
    <3>4. sch.load[c] \in ScheduleOfFlows /\ s.loadIdx[c] \in 1 .. Len(sch.load[c])
      BY <3>3 DEF SchedulesOfFlows, IndicesInRange
    <3>5. sch.load[c][s.loadIdx[c]].amount \in Flow
      BY <3>4, ScheduledAmount
    <3>6. result = Request(r, k, sch.load[c][s.loadIdx[c]].amount)
      BY <2>2 DEF SetComponentToRepaired, r
    <3> QED
      BY <1>1, <3>2, <3>5, <3>6, RequestSpares
  <2>3. CASE Part[c].kind \in {"ConstantSource", "ScheduleBasedSource"}
    <3> DEFINE amount == IF Part[c].kind = "ConstantSource" THEN Part[c].available
                         ELSE sch.avail[c][s.srcIdx[c]].amount
    <3>1. Outflow[c][0] \in Conn
      BY <2>3, KnownKind, OutflowType DEF WellConnected
    <3>2. amount \in Flow
      <4>1. CASE Part[c].kind = "ConstantSource"
        BY <4>1, LoadAndSourceParts
      <4>2. CASE Part[c].kind = "ScheduleBasedSource"
        <5>1. c \in OfKind("ScheduleBasedSource")
          BY <4>2 DEF OfKind
        <5>2. /\ sch.avail[c] \in ScheduleOfFlows
              /\ s.srcIdx[c] \in 1 .. Len(sch.avail[c])
          BY <5>1 DEF SchedulesOfFlows, IndicesInRange
        <5> QED
          BY <4>2, <5>2, ScheduledAmount
      <4> QED
        BY <2>3, <4>1, <4>2
    <3>3. result = Offer(r, Outflow[c][0], amount)
      BY <2>3 DEF SetComponentToRepaired, r
    <3> QED
      BY <1>1, <3>1, <3>2, <3>3, OfferSpares
  <2>4. CASE Part[c].kind = "Converter"
    <3> DEFINE b == RunConverterBackward(r, c)
    <3>1. result = RunConverterForward(b, c)
      BY <2>4 DEF SetComponentToRepaired, Then, r
    <3>2. b \in State /\ b \in Spares(c, r)
      BY <1>1, <2>4, ConversionSpares DEF Spares, Handled
    <3> HIDE DEF b
    <3> QED
      BY <2>4, <3>1, <3>2, ConversionSpares, SparesTwice
  <2>5. CASE Part[c].kind = "Mover"
    <3> DEFINE b == RunMoverBackward(r, c)
    <3>1. result = RunMoverForward(b, Inflow[c][0], c)
      BY <2>5 DEF SetComponentToRepaired, Then, r
    <3>2. b \in State /\ b \in Spares(c, r)
      BY <1>1, <2>5, ConversionSpares DEF Spares, Handled
    <3> HIDE DEF b
    <3> QED
      BY <2>5, <3>1, <3>2, ConversionSpares, SparesTwice
  <2>6. CASE Part[c].kind = "Mux"
    <3> DEFINE front == r.front \cup {Inflow[c][p] : p \in InPorts(c)}
               back  == r.back \cup {Outflow[c][p] : p \in OutPorts(c)}
    <3>1. result = [r EXCEPT !.front = front, !.back = back]
      BY <2>6 DEF SetComponentToRepaired, r
    <3>2. front \in SUBSET Conn /\ back \in SUBSET Conn /\ r.back \subseteq back
      BY <1>1, <2>6, MuxParts, InflowType, OutflowType DEF State
    <3> HIDE DEF front, back, result
    <3>3. result \in Handled(r)
      BY <1>1, <3>1, <3>2, ScheduleConnectionsType
    <3>4. /\ result.req = r.req /\ result.actual = r.actual
          /\ result.switch = r.switch /\ result.back = back
      BY <1>1, <3>1 DEF State
    <3>5. result \in Spares(c, r)
      BY <3>2, <3>3, <3>4 DEF Spares
    <3> QED
      BY <3>5
  <2>7. CASE Part[c].kind = "PassThrough"
    <3> DEFINE in    == Inflow[c][0]
               out   == Outflow[c][0]
               req   == [r.req EXCEPT ![in] = s.req[out]]
               avail == [r.avail EXCEPT ![out] = s.avail[in]]
               back  == IF s.req[out] # s.req[in] THEN r.back \cup {out} ELSE r.back
               front == IF s.avail[in] # s.avail[out] THEN r.front \cup {in}
                        ELSE r.front
    <3>1. result = [r EXCEPT !.req = req, !.avail = avail, !.back = back, !.front = front]
      BY <2>7 DEF SetComponentToRepaired, r
    <3>2. in \in Conn /\ out \in Conn /\ Elsewhere(c, in)
      BY <2>7, KnownKind, InflowType, OutflowType DEF WellConnected, Elsewhere
    <3>3. s.req[out] \in Flow /\ s.avail[in] \in Flow
      BY <3>2, FlowsOfState
    <3>4. back \in SUBSET Conn /\ front \in SUBSET Conn /\ r.back \subseteq back
      BY <1>1, <3>2 DEF State
    <3> HIDE DEF in, out, back, front
    <3>5. req \in [Conn -> Flow] /\ avail \in [Conn -> Flow]
      BY <1>1, <3>2, <3>3 DEF State
    <3>6. \A j \in Conn : Elsewhere(c, j) \/ req[j] = r.req[j]
      BY <1>1, <3>2 DEF State
    <3> HIDE DEF req, avail, result
    <3>7. result \in Handled(r)
      BY <1>1, <3>1, <3>4, <3>5, UpdateType
    <3>8. /\ result.req = req /\ result.actual = r.actual
          /\ result.switch = r.switch /\ result.back = back
      BY <1>1, <3>1 DEF State
    <3>9. result \in Spares(c, r)
      BY <3>4, <3>6, <3>7, <3>8 DEF Spares
    <3> QED
      BY <3>9
  <2>8. CASE Part[c].kind \notin {"ConstantLoad", "ScheduleBasedLoad",
               "ConstantSource", "ScheduleBasedSource", "Converter", "Mover",
               "Mux", "PassThrough"}
    <3>1. result = r
      BY <2>8 DEF SetComponentToRepaired, r
    <3> QED
      BY <1>1, <3>1, SparesSelf
  <2> QED
    BY <2>1, <2>2, <2>3, <2>4, <2>5, <2>6, <2>7, <2>8
<1> QED
  BY <1>3 DEF r

LEMMA ActivateSpares ==
  ASSUME WasteIsDisposedOf, IInv, NEW c \in todo, Activate(c)
  PROVE  /\ ss' \in Spares(c, ss)
         /\ c \in Comp /\ Part[c].kind # "Switch"
<1>1. ss \in State
  BY DEF IInv, TypeOK
<1>2. CASE pc = "loads" /\ ss' = ScheduledLoadAt(c)
  <2>1. c \in Loads
    BY <1>2, VisitsOfPhases
  <2>2. /\ c \in Comp /\ Part[c].kind # "Switch"
        /\ Inflow[c][0] \in Conn /\ Elsewhere(c, Inflow[c][0])
    BY <2>1, KnownKind, InflowType DEF Loads, OfKind, WellConnected, Elsewhere
  <2>3. model.load[c] \in ScheduleOfFlows /\ ss.loadIdx[c] \in 1 .. Len(model.load[c])
    BY <2>1, ModelSchedules DEF IInv, TypeOK, IndicesInRange, SchedulesOfFlows, Loads
  <2>4. model.load[c][ss.loadIdx[c]].amount \in Flow
    BY <2>3, ScheduledAmount
  <2> QED
    BY <1>1, <1>2, <2>2, <2>4, RequestSpares, SparesSelf DEF ScheduledLoadAt
<1>3. CASE pc = "sources" /\ ss' = ScheduledSourceAt(c)
  <2> DEFINE available == AtMost(model.avail[c][ss.srcIdx[c]].amount, Part[c].maxOutflow)
  <2>1. c \in Sources
    BY <1>3, VisitsOfPhases
  <2>2. c \in Comp /\ Part[c].kind = "ScheduleBasedSource" /\ Outflow[c][0] \in Conn
    BY <2>1, KnownKind, OutflowType DEF Sources, OfKind, WellConnected
  <2>3. model.avail[c] \in ScheduleOfFlows /\ ss.srcIdx[c] \in 1 .. Len(model.avail[c])
    BY <2>1, ModelSchedules DEF IInv, TypeOK, IndicesInRange, SchedulesOfFlows, Sources
  <2>4. available \in Flow
    BY <2>2, <2>3, ScheduledAmount, FlowIsNat, LoadAndSourceParts, AtMostFlow
  <2> HIDE DEF available
  <2>5. Offer(ss, Outflow[c][0], 0) \in Spares(c, ss)
    BY <1>1, <2>2, FlowIsNat, OfferSpares
  <2>6. Spill(Offer(ss, Outflow[c][0], available), Outflow[c][WastePort(c)],
              Monus(available, ss.req[Outflow[c][0]])) \in Spares(c, ss)
    BY <1>1, <2>2, <2>4, SupplySpares
  <2> QED
    BY <1>1, <1>3, <2>2, <2>5, <2>6, SparesSelf DEF ScheduledSourceAt, available
<1>4. CASE pc = "stores" /\ ss' = StoreAt(c)
  <2> DEFINE out     == Outflow[c][0]
             inZero  == IF HasInflow(c, 0) THEN Request(ss, Inflow[c][0], 0) ELSE ss
             offered == Offer(ss, out, StoreAvailable(ss, c))
  <2>1. c \in Stores
    BY <1>4, VisitsOfPhases
  <2>2. c \in Comp /\ Part[c].kind = "Store" /\ out \in Conn
    BY <2>1, KnownKind, OutflowType DEF Stores, OfKind, WellConnected
  <2>3. inZero \in State /\ inZero \in Spares(c, ss)
    <3>1. HasInflow(c, 0) => Inflow[c][0] \in Conn /\ Elsewhere(c, Inflow[c][0])
      BY <2>2, InflowType DEF Elsewhere
    <3> QED
      BY <1>1, <3>1, FlowIsNat, RequestSpares, SparesSelf DEF Spares, Handled
  <2>4. offered \in State /\ offered \in Spares(c, ss)
    BY <1>1, <2>2, StoreAvailableType, OfferSpares DEF Spares, Handled
  <2>5. StoreAt(c) = IF c \in ss.down THEN Offer(inZero, out, 0)
                     ELSE IF ss.event[c] = t \/ ~ HasInflow(c, 0)
                       THEN RunStoreBackward(offered, c)
                       ELSE ss
    BY DEF StoreAt
  <2> HIDE DEF inZero, offered, out
  <2>6. Offer(inZero, out, 0) \in Spares(c, ss)
    BY <2>2, <2>3, FlowIsNat, OfferSpares, SparesTwice
  <2>7. RunStoreBackward(offered, c) \in Spares(c, ss)
    BY <2>2, <2>4, StoreSpares, SparesTwice
  <2> QED
    BY <1>1, <1>4, <2>2, <2>5, <2>6, <2>7, SparesSelf
<1>5. CASE pc = "constantLoads" /\ ss' = Request(ss, Inflow[c][0], Part[c].load)
  <2>1. c \in Comp /\ Part[c].kind = "ConstantLoad"
    BY <1>5, VisitsOfPhases DEF OfKind
  <2>2. Inflow[c][0] \in Conn /\ Elsewhere(c, Inflow[c][0])
    BY <2>1, KnownKind, InflowType DEF WellConnected, Elsewhere
  <2> QED
    BY <1>1, <1>5, <2>1, <2>2, LoadAndSourceParts, RequestSpares
<1>6. CASE pc = "constantSources" /\ ss' = ConstantSourceAt(c)
  <2>1. c \in Comp /\ Part[c].kind = "ConstantSource"
    BY <1>6, VisitsOfPhases DEF OfKind
  <2>2. Outflow[c][0] \in Conn
    BY <2>1, KnownKind, OutflowType DEF WellConnected
  <2> QED
    BY <1>1, <1>6, <2>1, <2>2, FlowIsNat, LoadAndSourceParts, OfferSpares
       DEF ConstantSourceAt
<1> QED
  BY <1>2, <1>3, <1>4, <1>5, <1>6 DEF Activate

-----------------------------------------------------------------------------
(* A switch that is set for its position asks nothing of the inflow it does*)
(* not use, and from the next Finalize on nothing flows through it.  A     *)
(* switch that is not set will be asked, which sets it.                    *)
SwitchIsSet(c) ==
  /\ ss.req[Unused(ss, c)] = 0
  /\ pc \notin {"backward", "forward", "finalize"} => ss.actual[Unused(ss, c)] = 0

SwitchInv ==
  /\ \A c \in ss.down : Part[c].kind # "Switch"
  /\ \A c \in OfKind("Switch") : Outflow[c][0] \in PendingBack \/ SwitchIsSet(c)

LEMMA SwitchEnds ==
  ASSUME NEW s \in State, NEW d \in OfKind("Switch")
  PROVE  /\ d \in Comp /\ Part[d].kind = "Switch"
         /\ Inflow[d][0] \in Conn /\ Connection[Inflow[d][0]].to = d
         /\ Inflow[d][1] \in Conn /\ Connection[Inflow[d][1]].to = d
         /\ Outflow[d][0] \in Conn /\ Connection[Outflow[d][0]].from = d
         /\ Unused(s, d) \in Conn /\ Connection[Unused(s, d)].to = d
  BY KnownKind, InflowType, OutflowType DEF OfKind, WellConnected, Unused

LEMMA OthersStaySet ==
  ASSUME IInv, SwitchInv, NEW d \in OfKind("Switch"), NEW c, d # c, NEW s \in State,
         s.req = ss.req, s.actual = ss.actual, s.switch = ss.switch, s.back = ss.back,
         ss' \in Spares(c, s), pc' = pc,
         pc = "backward" => \A k \in todo : k \in todo' \/ Connection[k].from # d
  PROVE  Outflow[d][0] \in PendingBack' \/ SwitchIsSet(d)'
<1>1. ss \in State /\ ss' \in State
  BY DEF IInv, TypeOK, Spares, Handled
<1>2. CASE Outflow[d][0] \in PendingBack
  <2>1. Connection[Outflow[d][0]].from = d
    BY <1>1, SwitchEnds
  <2> QED
    BY <1>2, <2>1 DEF PendingBack, Spares
<1>3. CASE SwitchIsSet(d)
  <2>1. Unused(ss', d) = Unused(ss, d)
    BY DEF Unused, Spares
  <2>2. Unused(ss, d) \in Conn /\ ~ Elsewhere(c, Unused(ss, d))
    BY <1>1, SwitchEnds DEF Elsewhere
  <2>3. /\ ss'.req[Unused(ss, d)] \in {ss.req[Unused(ss, d)], 0}
        /\ ss'.actual[Unused(ss, d)] \in {ss.actual[Unused(ss, d)], 0}
    BY <2>2 DEF Spares
  <2> QED
    BY <1>3, <2>1, <2>3 DEF SwitchIsSet
<1> QED
  BY <1>2, <1>3 DEF SwitchInv

LEMMA ActivateReliabilityKeepsSwitchInv ==
  ASSUME WasteIsDisposedOf, RepairedLoadsAreFound, IInv, SwitchInv, model \in Models,
         NEW i \in todo, ActivateReliability(i)
  PROVE  SwitchInv'
<1> DEFINE c == model.rel[i].comp
<1>1. /\ pc = "reliability" /\ i \in DOMAIN model.rel /\ c \in Comp /\ ss \in State
      /\ SchedulesOfFlows(model) /\ IndicesInRange(model, ss)
  BY VisitsOfPhases, ModelSchedules DEF ActivateReliability, IInv, TypeOK
<1>2. CASE UNCHANGED ss
  <2>1. pc' # "backward" /\ pc' \notin {"backward", "forward", "finalize"}
    BY <1>1 DEF ActivateReliability
  <2> QED
    BY <1>1, <1>2, <2>1 DEF SwitchInv, SwitchIsSet, PendingBack
<1>3. CASE ~ UNCHANGED ss
  <2> PICK j \in StatesNow(i) :
        LET up == model.rel[i].states[j].state
        IN  /\ IF up THEN CanBeRepaired(c) ELSE CanFail(c)
            /\ IF up
                 THEN \E k \in RepairedLoadConns(c) :
                        ss' = SetComponentToRepaired(model, ss, c, k)
                 ELSE ss' = SetComponentToFailed(ss, c)
            /\ UNCHANGED pc
    BY <1>3 DEF ActivateReliability
  <2>1. Part[c].kind # "Switch" /\ pc' = pc
    BY DEF CanFail, CanBeRepaired
  <2>2. j \in DOMAIN model.rel[i].states
    BY DEF StatesNow
  <2> HIDE DEF c
  <2> DEFINE failed   == [ss EXCEPT !.down = @ \cup {c}]
             repaired == [ss EXCEPT !.down = @ \ {c}]
  <2>3. /\ failed \in State /\ repaired \in State
        /\ failed.down = ss.down \cup {c} /\ repaired.down = ss.down \ {c}
        /\ \A s \in {failed, repaired} : /\ s.req = ss.req /\ s.actual = ss.actual
                                         /\ s.switch = ss.switch /\ s.back = ss.back
    BY <1>1, MarkDownType DEF Kept, State
  <2>4. \E s \in {failed, repaired} : ss' \in Spares(c, s)
    <3>1. CASE ss' = SetComponentToFailed(ss, c)
      BY <1>1, <3>1, FailureSpares
    <3>2. CASE /\ model.rel[i].states[j].state
               /\ \E k \in RepairedLoadConns(c) :
                    ss' = SetComponentToRepaired(model, ss, c, k)
      <4>1. Part[c].kind = "ScheduleBasedLoad" =>
              \E d \in OfKind("ConstantLoad") :
                Cardinality(PeersBefore(d)) = Cardinality(PeersBefore(c))
        BY <1>1, <2>2, <3>2 DEF RepairedLoadsAreFound, c
      <4> QED
        BY <1>1, <3>2, <4>1, RepairSpares
    <3> QED
      BY <3>1, <3>2
  <2> HIDE DEF failed, repaired
  <2> PICK s \in {failed, repaired} : ss' \in Spares(c, s)
    BY <2>4
  <2>5. /\ s \in State /\ s.req = ss.req /\ s.actual = ss.actual
        /\ s.switch = ss.switch /\ s.back = ss.back
        /\ s.down \subseteq ss.down \cup {c}
    BY <2>3
  <2>6. ss'.down = s.down
    BY DEF Spares, Handled
  <2>7. \A d \in OfKind("Switch") : Outflow[d][0] \in PendingBack' \/ SwitchIsSet(d)'
    <3> SUFFICES ASSUME NEW d \in OfKind("Switch")
                 PROVE  Outflow[d][0] \in PendingBack' \/ SwitchIsSet(d)'
      OBVIOUS
    <3>1. d # c
      BY <2>1 DEF OfKind
    <3> QED
      BY <1>1, <2>1, <2>5, <3>1, OthersStaySet
  <2> QED
    BY <2>1, <2>5, <2>6, <2>7 DEF SwitchInv
<1> QED
  BY <1>2, <1>3

LEMMA ActivateKeepsSwitchInv ==
  ASSUME WasteIsDisposedOf, IInv, SwitchInv, NEW c \in todo, Activate(c)
  PROVE  SwitchInv'
<1>1. ss \in State /\ ss' \in Spares(c, ss) /\ c \in Comp /\ Part[c].kind # "Switch"
  BY ActivateSpares DEF IInv, TypeOK
<1>2. pc' = pc /\ pc # "backward"
  BY DEF Activate
<1>3. ss'.down = ss.down
  BY <1>1 DEF Spares, Handled
<1>4. \A d \in OfKind("Switch") : Outflow[d][0] \in PendingBack' \/ SwitchIsSet(d)'
  <2> SUFFICES ASSUME NEW d \in OfKind("Switch")
               PROVE  Outflow[d][0] \in PendingBack' \/ SwitchIsSet(d)'
    OBVIOUS
  <2>1. d # c
    BY <1>1 DEF OfKind
  <2> QED
    BY <1>1, <1>2, <2>1, OthersStaySet
<1> QED
  BY <1>3, <1>4 DEF SwitchInv

LEMMA StepsKeepSwitchInv ==
  ASSUME WasteIsDisposedOf, IInv, SwitchInv, NEW k \in todo,
         StepBackward(k) \/ StepForward(k)
  PROVE  SwitchInv'
<1> DEFINE c == IF pc = "backward" THEN Connection[k].from ELSE Connection[k].to
           s == [ss EXCEPT !.down = @ \cup {c}]
<1>1. pc \in {"backward", "forward"} /\ k \in Conn
  BY VisitsOfPhases DEF StepBackward, StepForward
<1>2. /\ ss \in State /\ SchedulesOfFlows(model) /\ IndicesInRange(model, ss)
      /\ c \in Comp
  BY <1>1, ModelSchedules, ConnectionEnds DEF IInv, TypeOK
<1>3. /\ pc' = pc /\ todo' = todo \ {k}
      /\ c \in ss.down => ss' = SetComponentToFailed(ss, c)
      /\ c \notin ss.down =>
           ss' = IF pc = "backward" THEN RunBackward(model, ss, k) ELSE RunForward(ss, k)
  BY DEF StepBackward, StepForward
<1>4. c \in ss.down => s = ss
  BY <1>2 DEF State
<1>5. ss' \in Spares(c, ss)
  <2>1. CASE c \in ss.down
    <3>1. SetComponentToFailed(ss, c) \in Spares(c, s)
      BY <1>2, FailureSpares
    <3> QED
      BY <1>3, <1>4, <2>1, <3>1
  <2>2. CASE c \notin ss.down /\ pc = "backward"
    BY <1>1, <1>2, <1>3, <2>2, BackwardSpares
  <2>3. CASE c \notin ss.down /\ pc = "forward"
    BY <1>1, <1>3, <1>2, <2>3, ForwardSpares
  <2> QED
    BY <1>1, <2>1, <2>2, <2>3
<1>6. ss'.down = ss.down
  BY <1>5 DEF Spares, Handled
<1>7. \A d \in OfKind("Switch") : Outflow[d][0] \in PendingBack' \/ SwitchIsSet(d)'
  <2> SUFFICES ASSUME NEW d \in OfKind("Switch")
               PROVE  Outflow[d][0] \in PendingBack' \/ SwitchIsSet(d)'
    OBVIOUS
  <2>1. CASE d # c
    <3>1. pc = "backward" => \A j \in todo : j \in todo' \/ Connection[j].from # d
      BY <1>3, <2>1
    <3> HIDE DEF c
    <3> QED
      BY <1>2, <1>3, <1>5, <2>1, <3>1, OthersStaySet
  <2>2. CASE d = c /\ pc = "backward"
    <3>1. Part[c].kind = "Switch" /\ c \notin ss.down
      BY <2>2 DEF OfKind, SwitchInv
    <3>2. ss' = RunSwitchBackward(ss, c)
      BY <1>3, <2>2, <3>1 DEF RunBackward
    <3> HIDE DEF c
    <3>3. ss'.req[Unused(ss, c)] = 0 /\ ss'.switch = ss.switch
      BY <1>2, <1>5, <3>1, <3>2, SwitchBackwardSpares DEF Spares
    <3> QED
      BY <1>3, <2>2, <3>3 DEF SwitchIsSet, Unused
  <2>3. CASE d = c /\ pc = "forward"
    <3>1. Part[c].kind = "Switch" /\ c \notin ss.down /\ Connection[k].to = c
      BY <2>3 DEF OfKind, SwitchInv
    <3>2. ss' = RunSwitchForward(ss, k, c)
      BY <1>3, <2>3, <3>1 DEF RunForward
    <3>3. Outflow[d][0] \in Conn
      BY <1>2, SwitchEnds
    <3> HIDE DEF c
    <3>4. ss'.req = ss.req /\ ss'.switch = ss.switch /\ ss'.back = ss.back
      BY <1>2, <3>2 DEF RunSwitchForward, Offer, State
    <3>5. Outflow[d][0] \in PendingBack => Outflow[d][0] \in PendingBack'
      BY <1>3, <2>3, <3>4 DEF PendingBack
    <3>6. SwitchIsSet(d) => SwitchIsSet(d)'
      BY <1>3, <2>3, <3>4 DEF SwitchIsSet, Unused
    <3> QED
      BY <3>5, <3>6 DEF SwitchInv
  <2> QED
    BY <1>1, <2>1, <2>2, <2>3
<1> QED
  BY <1>6, <1>7 DEF SwitchInv

LEMMA FinalizeKeepsSwitchInv ==
  ASSUME WasteIsDisposedOf, IInv, SwitchInv, Finalize
  PROVE  SwitchInv'
<1>1. ss \in State /\ pc = "finalize" /\ pc' \in {"switches", "loop"}
  BY DEF IInv, TypeOK, Finalize
<1>2. ss'.back = ss.back /\ ss'.switch = ss.switch /\ ss'.down = ss.down
  BY <1>1 DEF Finalize, RunStoresPostFinalization, FinalizeFlows, State
<1>3. \A d \in OfKind("Switch") : Outflow[d][0] \in PendingBack' \/ SwitchIsSet(d)'
  <2> SUFFICES ASSUME NEW d \in OfKind("Switch"), Outflow[d][0] \notin PendingBack'
               PROVE  SwitchIsSet(d)'
    OBVIOUS
  <2> DEFINE k == Unused(ss, d)
  <2>1. k \in Conn /\ Part[Connection[k].to].kind = "Switch"
    BY <1>1, SwitchEnds
  <2>2. SwitchIsSet(d) /\ Unused(ss', d) = k
    BY <1>1, <1>2 DEF SwitchInv, PendingBack, Unused
  <2>3. ss.req[k] = 0 /\ ss.avail[k] \in Nat
    BY <1>1, <2>1, <2>2, FlowIsNat DEF SwitchIsSet, State
  <2> HIDE DEF k
  <2>4. ~ /\ Connection[k].from \in Stores
          /\ Connection[k].fromPort = WastePort(Connection[k].from)
    BY <2>1 DEF WasteIsDisposedOf, Stores, OfKind
  <2>5. ss'.req[k] = 0 /\ ss'.actual[k] = FinalizeFlowValue(0, ss.avail[k])
    BY <2>1, <2>3, <2>4, FinalizeChanges
  <2>6. ss'.actual[k] = 0
    BY <2>3, <2>5 DEF FinalizeFlowValue
  <2> QED
    BY <2>2, <2>5, <2>6 DEF SwitchIsSet
<1> QED
  BY <1>2, <1>3 DEF SwitchInv

LEMMA RunSwitchLogicKeepsSwitchInv ==
  ASSUME IInv, SwitchInv, RunSwitchLogic
  PROVE  SwitchInv'
<1> DEFINE moved == {c \in OfKind("Switch") : SwitchPosition(c) # ss.switch[c]}
<1>1. ss \in State /\ pc = "switches" /\ pc' \in {"backward", "loop"}
  BY DEF IInv, TypeOK, RunSwitchLogic
<1>2. /\ ss'.req = ss.req /\ ss'.actual = ss.actual /\ ss'.down = ss.down
      /\ ss'.switch = [c \in OfKind("Switch") |-> SwitchPosition(c)]
      /\ ss'.back = ss.back \cup {Outflow[c][0] : c \in moved}
  BY <1>1 DEF RunSwitchLogic, State
<1>3. \A d \in OfKind("Switch") : Outflow[d][0] \in PendingBack' \/ SwitchIsSet(d)'
  <2> SUFFICES ASSUME NEW d \in OfKind("Switch"), Outflow[d][0] \notin PendingBack'
               PROVE  SwitchIsSet(d)'
    OBVIOUS
  <2>1. d \notin moved /\ Outflow[d][0] \notin PendingBack
    BY <1>1, <1>2 DEF PendingBack
  <2>2. ss'.switch[d] = ss.switch[d]
    BY <1>2, <2>1
  <2> QED
    BY <1>1, <1>2, <2>1, <2>2 DEF SwitchInv, SwitchIsSet, Unused
<1> QED
  BY <1>2, <1>3 DEF SwitchInv

(* No other step moves a switch or changes a flow, and none forgets what is*)
(* scheduled backward.                                                     *)
LEMMA MovingOnKeepsSwitchInv ==
  ASSUME IInv, SwitchInv,
         NextPhase \/ BeginRun \/ TakeBackward \/ TakeForward \/ EndBackward
           \/ EndForward \/ Record \/ Advance \/ UNCHANGED vars
  PROVE  SwitchInv'
<1>1. ss \in State
  BY DEF IInv, TypeOK
<1>2. /\ ss'.req = ss.req /\ ss'.actual = ss.actual /\ ss'.switch = ss.switch
      /\ ss'.down = ss.down
  <2>1. CASE Advance
    <3>1. \/ ss' = ss
          \/ \E amount, loadIdx, srcIdx :
               ss' = [ss EXCEPT !.amount = amount, !.loadIdx = loadIdx, !.srcIdx = srcIdx]
      BY <2>1 DEF Advance
    <3> QED
      BY <1>1, <3>1 DEF State
  <2>2. CASE ~ Advance
    BY <1>1, <2>2 DEF NextPhase, BeginRun, TakeBackward, TakeForward, EndBackward,
                      EndForward, Record, vars, State
  <2> QED
    BY <2>1, <2>2
<1>3. PendingBack \subseteq PendingBack'
  <2>1. CASE Advance
    BY <1>1, <2>1 DEF Advance, PendingBack, State
  <2>2. CASE TakeBackward \/ TakeForward
    BY <1>1, <2>2 DEF TakeBackward, TakeForward, PendingBack, State
  <2>3. CASE ~ Advance /\ ~ TakeBackward /\ ~ TakeForward
    BY <2>3 DEF NextPhase, PhaseAfter, BeginRun, EndBackward, EndForward, Record, vars, PendingBack
  <2> QED
    BY <2>1, <2>2, <2>3
<1>4. pc \in {"backward", "forward", "finalize"} => pc' \in {"backward", "forward", "finalize"}
  BY DEF NextPhase, PhaseAfter, BeginRun, TakeBackward, TakeForward, EndBackward, EndForward,
         Record, Advance, vars
<1> QED
  BY <1>2, <1>3, <1>4 DEF SwitchInv, SwitchIsSet, Unused

LEMMA InitSwitchInv ==
  ASSUME Init
  PROVE  SwitchInv
<1>1. ss = InitialState /\ InitialState \in State
  BY InitialStateType DEF Init
<1>2. \A d \in OfKind("Switch") : Unused(ss, d) \in Conn
  BY <1>1, SwitchEnds
<1>3. ss.down = {} /\ \A k \in Conn : ss.req[k] = 0 /\ ss.actual[k] = 0
  BY <1>1 DEF InitialState
<1> QED
  BY <1>2, <1>3 DEF SwitchInv, SwitchIsSet

LEMMA SwitchInvHolds ==
  ASSUME WasteIsDisposedOf, RepairedLoadsAreFound
  PROVE  Spec => []SwitchInv
<1>1. Init => SwitchInv
  BY InitSwitchInv
<1>2. IInv /\ EventInv /\ SwitchInv /\ [Next]_vars => SwitchInv'
  <2> SUFFICES ASSUME IInv, model \in Models, SwitchInv, [Next]_vars PROVE SwitchInv'
    BY DEF EventInv
  <2>1. CASE \E i \in todo : ActivateReliability(i)
    BY <2>1, ActivateReliabilityKeepsSwitchInv
  <2>2. CASE \E c \in todo : Activate(c)
    BY <2>2, ActivateKeepsSwitchInv
  <2>3. CASE \E k \in todo : StepBackward(k) \/ StepForward(k)
    BY <2>3, StepsKeepSwitchInv
  <2>4. CASE Finalize
    BY <2>4, FinalizeKeepsSwitchInv
  <2>5. CASE RunSwitchLogic
    BY <2>5, RunSwitchLogicKeepsSwitchInv
  <2>6. CASE NextPhase \/ BeginRun \/ TakeBackward \/ TakeForward \/ EndBackward
               \/ EndForward \/ Record \/ Advance \/ UNCHANGED vars
    BY <2>6, MovingOnKeepsSwitchInv
  <2> QED
    BY <2>1, <2>2, <2>3, <2>4, <2>5, <2>6 DEF Next, Terminated
<1> QED
  BY <1>1, <1>2, IInvHolds, EventInvHolds, PTL DEF Spec

(* A transfer switch never draws on both its inflows in what is recorded:  *)
(* of the inflow not in use it asks nothing and takes nothing, however     *)
(* often RunSwitchLogic has moved it at that time, whatever has failed     *)
(* around it, and although the handlers of a switch tell nobody that they  *)
(* took a request back - in every network, cycles of switches included,    *)
(* whose waste goes to waste sinks, unless the limit on the iterations cut *)
(* the loop short while connections were scheduled.                        *)
THEOREM SwitchesDrawOnOneInflow ==
  ASSUME WasteIsDisposedOf, RepairedLoadsAreFound
  PROVE  Spec => [](CutShort \/ SwitchesUseOneInflow)
<1>1. IInv /\ NothingIsLeft /\ SwitchInv => CutShort \/ SwitchesUseOneInflow
  <2> SUFFICES ASSUME IInv, NothingIsLeft, SwitchInv, ~ CutShort, Settled,
                      NEW c \in OfKind("Switch")
               PROVE  \E p \in {0, 1} : ss.actual[Inflow[c][p]] = 0 /\ ss.req[Inflow[c][p]] = 0
    BY DEF SwitchesUseOneInflow
  <2>1. PendingBack = {} /\ pc \notin {"backward", "forward", "finalize"}
    BY SettledIsQuiet DEF Settled
  <2>2. SwitchIsSet(c)
    BY <2>1 DEF SwitchInv
  <2> QED
    BY <2>1, <2>2 DEF SwitchIsSet, Unused
<1> QED
  BY <1>1, IInvHolds, NothingIsLeftHolds, SwitchInvHolds, PTL


-----------------------------------------------------------------------------
(* Conversions.  Between two rows of a table the value is a mean of theirs.*)

(* A value between the first and the last row lies between two rows.       *)
LEMMA RowsAround ==
  ASSUME NEW xs \in Seq(Nat), NEW x \in Nat, xs # <<>>,
         ~ (x <= xs[1]), ~ (x >= xs[Len(xs)])
  PROVE  \E j \in 2 .. Len(xs) : xs[j - 1] <= x /\ x < xs[j]
<1> DEFINE n == Len(xs)
           S == {m \in Nat : m + 1 \in 1 .. n => xs[m + 1] <= x}
<1>1. n \in Nat \ {0} /\ \A i \in 1 .. n : xs[i] \in Nat
  OBVIOUS
<1> SUFFICES ASSUME ~ \E j \in 2 .. n : xs[j - 1] <= x /\ x < xs[j]
             PROVE  FALSE
  OBVIOUS
<1>2. 0 \in S
  BY <1>1
<1>3. ASSUME NEW m \in S PROVE m + 1 \in S
  <2>1. SUFFICES ASSUME m + 2 \in 1 .. n PROVE xs[m + 2] <= x
    OBVIOUS
  <2>2. m + 1 \in 1 .. n /\ m + 2 \in 2 .. n /\ (m + 2) - 1 = m + 1
    BY <2>1
  <2>3. xs[m + 1] <= x
    BY <2>2
  <2> QED
    BY <1>1, <2>2, <2>3
<1>4. S = Nat
  <2>1. S \subseteq Nat
    OBVIOUS
  <2> HIDE DEF S
  <2> QED
    BY <1>2, <1>3, <2>1, SetInduction
<1>5. xs[n] <= x
  <2>1. n - 1 \in S
    <3> HIDE DEF S, n
    <3> QED
      BY <1>1, <1>4
  <2>2. n \in Nat /\ (n - 1) + 1 = n /\ n \in 1 .. n
    BY <1>1
  <2> HIDE DEF n
  <2> QED
    BY <2>1, <2>2
<1>6. xs[n] \in Nat /\ ~ (x >= xs[n])
  BY <1>1
<1> QED
  BY <1>5, <1>6

(* A mean of two values lies where both lie.                               *)
LEMMA MeanOfTwo ==
  ASSUME NEW dx \in Nat \ {0}, NEW a \in 0 .. dx - 1,
         NEW y \in Nat \ {0}, NEW z \in Nat \ {0}, NEW den \in Nat
  PROVE  LET num == y * dx + a * (z - y)
         IN  /\ num \in Nat \ {0}
             /\ y <= den /\ z <= den => num <= den * dx
<1>1. PICK b \in Nat \ {0} : dx = a + b
  <2>1. dx - a \in Nat \ {0} /\ dx = a + (dx - a)
    OBVIOUS
  <2> QED
    BY <2>1
<1>2. y * dx + a * (z - y) = y * b + a * z
  <2>1. y * dx = y * a + y * b
    BY <1>1
  <2>2. a * (z - y) = a * z - a * y
    OBVIOUS
  <2>3. a * y = y * a
    OBVIOUS
  <2>4. y * a \in Nat /\ y * b \in Nat /\ a * z \in Nat
    BY <1>1
  <2> QED
    BY <2>1, <2>2, <2>3, <2>4
<1>3. y * b \in Nat \ {0} /\ a * z \in Nat
  BY <1>1
<1>4. ASSUME y <= den, z <= den
      PROVE  y * b + a * z <= den * dx
  <2>1. den * dx = den * a + den * b
    BY <1>1
  <2>2. y * b <= den * b
    BY <1>1, <1>4
  <2>3. a * z <= a * den /\ a * den = den * a
    BY <1>4
  <2>4. den * a \in Nat /\ den * b \in Nat
    BY <1>1
  <2> QED
    BY <1>3, <2>1, <2>2, <2>3, <2>4
<1> QED
  BY <1>2, <1>3, <1>4

LEMMA LookupType ==
  ASSUME NEW table \in Table, NEW x \in Nat
  PROVE  LET r == LookupInterp(table, x)
         IN  /\ r.num \in Nat \ {0} /\ r.den \in Nat \ {0}
             /\ (\A i \in DOMAIN table.ys : table.ys[i] <= table.den)
                  => r.num <= r.den
<1> DEFINE n == Len(table.xs)
           Value(y) == [num |-> y, den |-> table.den]
<1>1. /\ table.xs \in Seq(Nat) /\ table.xs # <<>>
      /\ table.ys \in Seq(Nat \ {0}) /\ Len(table.ys) = n
      /\ table.den \in Nat \ {0}
  BY DEF Table
<1>2. /\ n \in Nat \ {0} /\ DOMAIN table.ys = 1 .. n
      /\ \A i \in 1 .. n : table.xs[i] \in Nat /\ table.ys[i] \in Nat \ {0}
  BY <1>1
<1>3. CASE x <= table.xs[1]
  <2>1. LookupInterp(table, x) = Value(table.ys[1])
    BY <1>3 DEF LookupInterp
  <2> QED
    BY <1>1, <1>2, <2>1
<1>4. CASE ~ (x <= table.xs[1]) /\ x >= table.xs[n]
  <2>1. LookupInterp(table, x) = Value(table.ys[n])
    BY <1>4 DEF LookupInterp
  <2>2. n \in 1 .. n
    BY <1>2
  <2>3. table.ys[n] \in Nat \ {0}
    BY <1>2, <2>2
  <2>4. /\ LookupInterp(table, x).num = table.ys[n]
        /\ LookupInterp(table, x).den = table.den
    BY <2>1
  <2>5. (\A i \in DOMAIN table.ys : table.ys[i] <= table.den)
          => table.ys[n] <= table.den
    BY <1>2, <2>2
  <2> HIDE DEF n
  <2> QED
    BY <1>1, <2>3, <2>4, <2>5
<1>5. CASE ~ (x <= table.xs[1]) /\ ~ (x >= table.xs[n])
  <2> DEFINE i  == CHOOSE j \in 2 .. n : table.xs[j - 1] <= x /\ x < table.xs[j]
             dx == table.xs[i] - table.xs[i - 1]
             a  == x - table.xs[i - 1]
             y  == table.ys[i - 1]
             z  == table.ys[i]
  <2>1. LookupInterp(table, x) = [num |-> y * dx + a * (z - y), den |-> table.den * dx]
    BY <1>5 DEF LookupInterp
  <2>2. i \in 2 .. n /\ table.xs[i - 1] <= x /\ x < table.xs[i]
    BY <1>1, <1>5, RowsAround
  <2> HIDE DEF i
  <2>3. i \in 1 .. n /\ i - 1 \in 1 .. n
    BY <2>2
  <2>4. dx \in Nat \ {0} /\ a \in 0 .. dx - 1 /\ y \in Nat \ {0} /\ z \in Nat \ {0}
    BY <1>2, <2>2, <2>3
  <2>5. (\A j \in DOMAIN table.ys : table.ys[j] <= table.den)
          => y <= table.den /\ z <= table.den
    BY <1>2, <2>3
  <2> HIDE DEF dx, a, y, z
  <2>6. table.den * dx \in Nat \ {0}
    BY <1>1, <2>4
  <2>7. /\ y * dx + a * (z - y) \in Nat \ {0}
        /\ y <= table.den /\ z <= table.den => y * dx + a * (z - y) <= table.den * dx
    BY <1>1, <2>4, MeanOfTwo
  <2>8. /\ LookupInterp(table, x).num = y * dx + a * (z - y)
        /\ LookupInterp(table, x).den = table.den * dx
    BY <2>1
  <2> QED
    BY <2>5, <2>6, <2>7, <2>8
<1> QED
  BY <1>3, <1>4, <1>5

(* What is rounded down is no more, and what is rounded up no less, than   *)
(* what an efficiency of at most one is applied to.                        *)
LEMMA EfficiencyBounds ==
  ASSUME NEW v \in Flow, NEW r, r.num \in Nat \ {0}, r.den \in Nat \ {0}, r.num <= r.den
  PROVE  /\ FloorMul(v, r) <= v
         /\ (v * r.den + r.num - 1) \div r.num \in Flow => v <= CeilDiv(v, r)
<1> DEFINE num == r.num
           den == r.den
           low == (v * num) \div den
           up  == (v * den + num - 1) \div num
<1>1. v \in Nat /\ num \in Nat \ {0} /\ den \in Nat \ {0} /\ num <= den
  BY FlowIsNat
<1>2. FloorMul(v, r) = ToFlow(low) /\ CeilDiv(v, r) = ToFlow(up)
  BY DEF FloorMul, CeilDiv
<1> HIDE DEF num, den
<1>3. v * num \in Nat /\ v * den \in Nat /\ v * num <= v * den /\ num * v = v * num
      /\ v * den + num - 1 \in Nat /\ v * den = den * v
  BY <1>1
<1>4. low \in Nat /\ den * low <= v * num
  BY <1>1, <1>3, DivisionBounds
<1>5. up \in Nat /\ v * den + num - 1 < num * up + num
  BY <1>1, <1>3, DivisionBounds
<1> HIDE DEF low, up
<1>6. low <= v
  <2> SUFFICES ASSUME low >= v + 1 PROVE FALSE
    BY <1>1, <1>4
  <2>1. den * low >= den * (v + 1)
    BY <1>1, <1>4
  <2>2. den * (v + 1) = den * v + den
    BY <1>1
  <2>3. den * low \in Nat /\ den * v \in Nat
    BY <1>1, <1>4
  <2> QED
    BY <1>1, <1>3, <1>4, <2>1, <2>2, <2>3
<1>7. v <= up
  <2> SUFFICES ASSUME up + 1 <= v PROVE FALSE
    BY <1>1, <1>5
  <2>1. num * (up + 1) <= num * v
    BY <1>1, <1>5
  <2>2. num * (up + 1) = num * up + num
    BY <1>1, <1>5
  <2>3. num * up \in Nat /\ num * v \in Nat
    BY <1>1, <1>5
  <2> QED
    BY <1>1, <1>3, <1>5, <2>1, <2>2, <2>3
<1>8. low \in Flow
  BY <1>1, <1>4, <1>6, FlowAssumption DEF Flow
<1>9. FloorMul(v, r) = low
  BY <1>2, <1>8 DEF ToFlow
<1>10. up \in Flow => CeilDiv(v, r) = up
  BY <1>2 DEF ToFlow
<1> QED
  BY <1>6, <1>7, <1>9, <1>10 DEF up, num, den

-----------------------------------------------------------------------------
(* Each kind of component passes on what it takes in when its flows are up *)
(* to date and final.                                                      *)

LEMMA PassThroughBalances ==
  ASSUME NEW s \in State, NEW c \in Comp, Part[c].kind = "PassThrough",
         AsksRight(s, c), OffersRight(model, s, c),
         IsFinal(s, Inflow[c][0]), IsFinal(s, Outflow[c][0])
  PROVE  s.actual[Inflow[c][0]] = s.actual[Outflow[c][0]]
<1> DEFINE in  == Inflow[c][0]
           out == Outflow[c][0]
           limit == Part[c].maxOutflow
<1>1. in \in Conn /\ out \in Conn /\ limit \in Nat
  BY FirstEnds, LoadAndSourceParts, FlowIsNat
<1>2. /\ s.req[in] \in Nat /\ s.avail[in] \in Nat
      /\ s.req[out] \in Nat /\ s.avail[out] \in Nat
  BY <1>1, FlowsOfState, FlowIsNat
<1>3. s.req[in] = AtMost(s.req[out], limit) /\ s.avail[out] = AtMost(s.avail[in], limit)
  BY DEF AsksRight, OffersRight, Wanted
<1>4. /\ s.actual[in] = FinalizeFlowValue(s.req[in], s.avail[in])
      /\ s.actual[out] = FinalizeFlowValue(s.req[out], s.avail[out])
  BY DEF IsFinal
<1> HIDE DEF in, out, limit
<1>5. s.actual[in] = s.actual[out]
  BY <1>1, <1>2, <1>3, <1>4 DEF AtMost, FinalizeFlowValue
<1> QED
  BY <1>5 DEF in, out

(* The flow a conversion puts out is that of its outflow.                  *)
LEMMA ConversionFinal ==
  ASSUME NEW s \in State, NEW c \in Comp, Part[c].kind \in {"Converter", "Mover"},
         OffersRight(model, s, c), IsFinal(s, Inflow[c][0]), IsFinal(s, Outflow[c][0])
  PROVE  s.actual[Inflow[c][0]] = Taken(s, c) /\ s.actual[Outflow[c][0]] = PutOut(s, c)
<1>1. s.avail[Outflow[c][0]] = Made(s, c)
  BY DEF OffersRight
<1>2. AtMost(Made(s, c), Part[c].maxOutflow) = Made(s, c)
  BY ConversionParts, ConversionFlow, FlowIsNat DEF Made, AtMost
<1> QED
  BY <1>1, <1>2 DEF IsFinal, Taken, PutOut

LEMMA MoverBalances ==
  ASSUME NEW s \in State, NEW c \in Comp, Part[c].kind = "Mover",
         OffersRight(model, s, c), SpillsRight(model, s, c),
         IsFinal(s, Inflow[c][0]), IsFinal(s, Outflow[c][0]),
         IsFinal(s, Inflow[c][EnvironmentPort]), IsFinal(s, Outflow[c][WastePort(c)])
  PROVE  s.actual[Inflow[c][0]] + s.actual[Inflow[c][EnvironmentPort]]
           = s.actual[Outflow[c][0]] + s.actual[Outflow[c][WastePort(c)]]
<1> DEFINE taken == Taken(s, c)
           out   == PutOut(s, c)
<1>1. s.actual[Inflow[c][0]] = taken /\ s.actual[Outflow[c][0]] = out
  BY ConversionFinal
<1>2. taken \in Nat /\ out \in Nat
  BY ConversionTerms, FlowIsNat
<1>3. /\ Carries(s, Outflow[c][WastePort(c)], Monus(taken, out))
      /\ Carries(s, Inflow[c][EnvironmentPort], Monus(out, taken))
  BY DEF SpillsRight, MoverSpillsRight
<1> HIDE DEF taken, out
<1>4. /\ s.actual[Outflow[c][WastePort(c)]] = Monus(taken, out)
      /\ s.actual[Inflow[c][EnvironmentPort]] = Monus(out, taken)
  BY <1>3 DEF IsFinal, Carries, FinalizeFlowValue
<1> QED
  BY <1>1, <1>2, <1>4 DEF Monus

LEMMA ConversionTables ==
  ASSUME NEW c \in Comp, Part[c].kind \in {"Converter", "Mover"}
  PROVE  Part[c].byOutflow \in Table /\ Part[c].byInflow \in Table
<1>1. Part[c] \in PartOfKind[Part[c].kind]
  BY NetworkAssumption
<1>2. PartOfKind[Part[c].kind] = ConversionPart(Part[c].kind)
  BY DEF PartOfKind
<1> QED
  BY <1>1, <1>2 DEF ConversionPart

(* A converter puts out no more than it takes in.                          *)
LEMMA ConverterLoses ==
  ASSUME NothingIsMadeOfNothing,
         NEW s \in State, NEW c \in Comp, Part[c].kind = "Converter",
         AsksRight(s, c), OffersRight(model, s, c),
         LET eff == LookupInterp(Part[c].byOutflow, Wanted(s, c))
         IN  (Wanted(s, c) * eff.den + eff.num - 1) \div eff.num \in Flow
  PROVE  PutOut(s, c) <= Taken(s, c)
<1> DEFINE wanted == Wanted(s, c)
           given  == s.avail[Inflow[c][0]]
           req    == s.req[Outflow[c][0]]
           limit  == Part[c].maxOutflow
           eff    == LookupInterp(Part[c].byOutflow, wanted)
           eff2   == LookupInterp(Part[c].byInflow, given)
<1>1. Part[c].byOutflow \in Table /\ Part[c].byInflow \in Table /\ limit \in Flow
  BY ConversionTables, ConversionParts
<1>2. given \in Flow /\ req \in Flow
  BY FirstEnds, FlowsOfState
<1>3. wanted = AtMost(req, limit) /\ wanted \in Flow
  BY <1>1, <1>2, AtMostFlow, FlowIsNat DEF Wanted
<1>4. /\ \A i \in DOMAIN Part[c].byOutflow.ys :
           Part[c].byOutflow.ys[i] <= Part[c].byOutflow.den
      /\ \A i \in DOMAIN Part[c].byInflow.ys :
           Part[c].byInflow.ys[i] <= Part[c].byInflow.den
  BY DEF NothingIsMadeOfNothing, OfKind
<1>5. /\ eff.num \in Nat \ {0} /\ eff.den \in Nat \ {0} /\ eff.num <= eff.den
      /\ eff2.num \in Nat \ {0} /\ eff2.den \in Nat \ {0} /\ eff2.num <= eff2.den
  <2> HIDE DEF wanted, given
  <2> QED
    BY <1>1, <1>2, <1>3, <1>4, LookupType, FlowIsNat
<1>6. s.req[Inflow[c][0]] = CeilDiv(wanted, eff)
  BY DEF AsksRight, Needed
<1>7. s.avail[Outflow[c][0]] = AtMost(FloorMul(given, eff2), limit)
  BY DEF OffersRight, Made
<1>8. (wanted * eff.den + eff.num - 1) \div eff.num \in Flow
  OBVIOUS
<1>9. /\ Taken(s, c) = FinalizeFlowValue(CeilDiv(wanted, eff), given)
      /\ PutOut(s, c) = FinalizeFlowValue(req, AtMost(AtMost(FloorMul(given, eff2), limit), limit))
  BY <1>6, <1>7 DEF Taken, PutOut
<1> HIDE DEF wanted, given, req, limit, eff, eff2
<1>10. FloorMul(given, eff2) <= given /\ wanted <= CeilDiv(wanted, eff)
  BY <1>2, <1>3, <1>5, <1>8, EfficiencyBounds
<1>11. FloorMul(given, eff2) \in Nat /\ CeilDiv(wanted, eff) \in Nat
       /\ given \in Nat /\ req \in Nat /\ limit \in Nat /\ wanted \in Nat
  BY <1>1, <1>2, <1>3, ConversionFlow, FlowIsNat
<1> QED
  BY <1>3, <1>9, <1>10, <1>11 DEF AtMost, FinalizeFlowValue

LEMMA ConverterBalances ==
  ASSUME NEW s \in State, NEW c \in Comp, Part[c].kind = "Converter",
         OffersRight(model, s, c), SpillsRight(model, s, c),
         PutOut(s, c) <= Taken(s, c),
         IsFinal(s, Inflow[c][0]), IsFinal(s, Outflow[c][0]),
         IsFinal(s, Outflow[c][WastePort(c)]),
         HasOutflow(c, LossPort(c)) => IsFinal(s, Outflow[c][LossPort(c)])
  PROVE  s.actual[Inflow[c][0]] =
           s.actual[Outflow[c][0]] + s.actual[Outflow[c][WastePort(c)]]
             + (IF HasOutflow(c, LossPort(c))
                  THEN s.actual[Outflow[c][LossPort(c)]] ELSE 0)
<1> DEFINE taken == Taken(s, c)
           out   == PutOut(s, c)
           rest  == Monus(taken, out)
           loss  == Outflow[c][LossPort(c)]
           waste == Outflow[c][WastePort(c)]
           limit == Part[c].maxLossflow
<1>1. s.actual[Inflow[c][0]] = taken /\ s.actual[Outflow[c][0]] = out
  BY ConversionFinal
<1>2. taken \in Nat /\ out \in Nat /\ out <= taken /\ limit \in Nat
  BY ConversionTerms, ConversionParts, FlowIsNat
<1>3. rest \in Nat /\ taken = out + rest
  <2> HIDE DEF taken, out
  <2> QED
    BY <1>2 DEF Monus
<1>4. ConverterSpillsRight(s, c)
  BY DEF SpillsRight
<1>5. CASE HasOutflow(c, LossPort(c))
  <2>1. loss \in Conn
    BY <1>5, LossEnd
  <2>2. s.req[loss] \in Nat
    BY <2>1, FlowsOfState, FlowIsNat
  <2>3. /\ s.avail[loss] = AtMost(rest, limit)
        /\ Carries(s, waste, Monus(rest, AtMost(s.req[loss], limit)))
    BY <1>4, <1>5 DEF ConverterSpillsRight, LossTaken
  <2> HIDE DEF taken, out, rest, loss, waste, limit
  <2>4. s.actual[waste] = Monus(rest, AtMost(s.req[loss], limit))
    BY <2>3 DEF IsFinal, Carries, FinalizeFlowValue, waste
  <2>5. s.actual[loss] = FinalizeFlowValue(s.req[loss], AtMost(rest, limit))
    BY <1>5, <2>3 DEF IsFinal, loss
  <2>6. s.actual[waste] + s.actual[loss] = rest /\ s.actual[waste] \in Nat /\ s.actual[loss] \in Nat
    BY <1>2, <1>3, <2>2, <2>4, <2>5 DEF Monus, AtMost, FinalizeFlowValue
  <2>7. taken = out + s.actual[waste] + s.actual[loss]
    BY <1>2, <1>3, <2>6
  <2> QED
    BY <1>1, <1>5, <2>7 DEF waste, loss
<1>6. CASE ~ HasOutflow(c, LossPort(c))
  <2>1. Carries(s, waste, rest)
    BY <1>4, <1>6 DEF ConverterSpillsRight
  <2> HIDE DEF taken, out, rest, loss, waste, limit
  <2>2. s.actual[waste] = rest
    BY <2>1 DEF IsFinal, Carries, FinalizeFlowValue, waste
  <2>3. taken = out + s.actual[waste] + 0
    BY <1>2, <1>3, <2>2
  <2> QED
    BY <1>1, <1>6, <2>3 DEF waste
<1> QED
  BY <1>5, <1>6

(* An outflow of a mux is offered no more than its limit.                  *)
LEMMA MuxOffersWithin ==
  ASSUME NEW s \in State, NEW c \in Comp, Part[c].kind = "Mux",
         OffersRight(model, s, c), NEW p \in OutPorts(c)
  PROVE  /\ Part[c].maxOutflows[p + 1] \in Nat
         /\ s.avail[Outflow[c][p]] <= Part[c].maxOutflows[p + 1]
<1> DEFINE out == Outflow[c][p]
<1>1. out \in MuxOuts(c) /\ Connection[out].fromPort = p
  BY MuxEnds
<1>2. s.avail[out] = MuxOffers(s, c)[out] /\ out \in DOMAIN MuxOffers(s, c)
  BY <1>1, MuxDomains DEF OffersRight
<1>3. p + 1 \in 1 .. Part[c].outports
  BY MuxParts DEF OutPorts
<1>4. Part[c].maxOutflows[p + 1] \in Nat
  BY <1>3, MuxParts, FlowIsNat
<1>5. MuxOffers(s, c)[out] <= Part[c].maxOutflows[Connection[out].fromPort + 1]
  BY <1>2, MuxOffersType
<1> QED
  BY <1>1, <1>2, <1>4, <1>5

(* The inflows of a mux carry together what its outflows do.               *)
LEMMA MuxBalances ==
  ASSUME NEW s \in State, NEW c \in Comp, Part[c].kind = "Mux",
         AsksRight(s, c), OffersRight(model, s, c),
         \A p \in InPorts(c) : IsFinal(s, Inflow[c][p]),
         \A p \in OutPorts(c) : IsFinal(s, Outflow[c][p])
  PROVE  Prefix([i \in 1 .. Part[c].inports |-> s.actual[Inflow[c][i - 1]]],
                Part[c].inports)
           = Prefix([i \in 1 .. Part[c].outports |-> s.actual[Outflow[c][i - 1]]],
                    Part[c].outports)
<1> DEFINE ins      == Part[c].inports
           outs     == Part[c].outports
           supplies == MuxSupplies(s, c)
           wanted   == MuxRequests(s, c)
           total    == MuxTotal(s, c)
           supply   == MuxSupply(s, c)
           taken    == [i \in 1 .. ins |-> s.actual[Inflow[c][i - 1]]]
           given    == [i \in 1 .. outs |-> s.actual[Outflow[c][i - 1]]]
           shares   == [i \in 1 .. ins |-> Given(supplies, total, i)]
           served   == [i \in 1 .. outs |-> Given(wanted, supply, i)]
<1>1. /\ ins \in Nat /\ outs \in Nat /\ total \in Nat /\ supply \in Nat
      /\ \A i \in 1 .. ins : supplies[i] \in Nat
      /\ \A i \in 1 .. outs : wanted[i] \in Nat
  BY MuxTotalsType
<1>2. ASSUME NEW i \in 1 .. ins PROVE taken[i] = shares[i]
  <2> DEFINE p == i - 1
  <2>1. p \in InPorts(c) /\ p + 1 = i /\ i \in Nat \ {0}
    BY <1>1 DEF InPorts
  <2>2. s.actual[Inflow[c][p]] = FinalizeFlowValue(LeftAfter(supplies, total, p), supplies[p + 1])
    BY <2>1, MuxTakes
  <2>3. taken[i] = s.actual[Inflow[c][p]] /\ shares[i] = AtMost(supplies[i], LeftAfter(supplies, total, p))
    BY DEF Given
  <2>4. LeftAfter(supplies, total, p) \in Nat /\ supplies[i] \in Nat
    <3> HIDE DEF supplies, total, ins
    <3>1. p \in Nat /\ \A j \in 1 .. p : supplies[j] \in Nat
      BY <1>1, <2>1
    <3>2. LeftAfter(supplies, total, p) \in 0 .. total
      BY <1>1, <3>1, LeftAfterType
    <3> QED
      BY <1>1, <3>2
  <2> HIDE DEF p, taken, shares, supplies, total
  <2>5. FinalizeFlowValue(LeftAfter(supplies, total, p), supplies[i])
          = AtMost(supplies[i], LeftAfter(supplies, total, p))
    BY <2>4 DEF FinalizeFlowValue, AtMost
  <2> QED
    BY <2>1, <2>2, <2>3, <2>5
<1>3. ASSUME NEW i \in 1 .. outs PROVE given[i] = served[i]
  <2> DEFINE p     == i - 1
             out   == Outflow[c][p]
             limit == Part[c].maxOutflows[p + 1]
             share == Given(wanted, supply, p + 1)
             left  == LeftAfter(wanted, supply, outs)
  <2>1. p \in OutPorts(c) /\ p + 1 = i
    BY <1>1 DEF OutPorts
  <2>2. given[i] = s.actual[out] /\ served[i] = share
    BY <2>1
  <2>3. /\ wanted[p + 1] = AtMost(s.req[out], limit)
        /\ s.actual[out] = FinalizeFlowValue(s.req[out], s.avail[out])
        /\ s.req[out] \in Nat /\ s.avail[out] \in Nat
        /\ share <= s.avail[out]
        /\ left = 0 => s.avail[out] = share
    BY <2>1, MuxGives
  <2>4. s.avail[out] <= limit /\ limit \in Nat
    BY <2>1, MuxOffersWithin
  <2>5. share \in 0 .. wanted[p + 1] /\ wanted[p + 1] \in Nat
    <3> HIDE DEF wanted, supply
    <3>1. i \in Nat \ {0} /\ \A j \in 1 .. i : wanted[j] \in Nat
      BY <1>1
    <3>2. Given(wanted, supply, i) \in 0 .. wanted[i]
      BY <1>1, <3>1, GivenType
    <3> QED
      BY <2>1, <3>1, <3>2
  <2>6. left # 0 => share = wanted[p + 1]
    <3> HIDE DEF wanted, supply, outs
    <3>1. LeftAfter(wanted, supply, i - 1) < wanted[i]
            => \A j \in i .. outs : LeftAfter(wanted, supply, j) = 0
      BY <1>1, UnmetClaimTakesAll
    <3>2. outs \in i .. outs
      BY <1>1
    <3>3. LeftAfter(wanted, supply, i - 1) \in Nat
      <4>1. i - 1 \in Nat /\ \A j \in 1 .. i - 1 : wanted[j] \in Nat
        BY <1>1
      <4>2. LeftAfter(wanted, supply, i - 1) \in 0 .. supply
        BY <1>1, <4>1, LeftAfterType
      <4> QED
        BY <1>1, <4>2
    <3>4. share = AtMost(wanted[i], LeftAfter(wanted, supply, i - 1))
      BY <2>1 DEF Given
    <3> HIDE DEF share
    <3> QED
      BY <1>1, <2>1, <3>1, <3>2, <3>3, <3>4 DEF AtMost
  <2> HIDE DEF p, out, limit, share, left, wanted, given, served
  <2>7. FinalizeFlowValue(s.req[out], s.avail[out]) = share
    <3>1. CASE left = 0
      BY <2>3, <2>5, <3>1 DEF AtMost, FinalizeFlowValue
    <3>2. CASE left # 0
      BY <2>3, <2>4, <2>5, <2>6, <3>2 DEF AtMost, FinalizeFlowValue
    <3> QED
      BY <3>1, <3>2
  <2> QED
    BY <2>2, <2>3, <2>7
<1>4. Prefix(taken, ins) = Prefix(shares, ins)
  <2> HIDE DEF taken, shares
  <2> QED
    BY <1>1, <1>2, PrefixAgrees
<1>5. Prefix(given, outs) = Prefix(served, outs)
  <2> HIDE DEF given, served
  <2> QED
    BY <1>1, <1>3, PrefixAgrees
<1>6. /\ Prefix(shares, ins) + LeftAfter(supplies, total, ins) = total
      /\ Prefix(served, outs) + LeftAfter(wanted, supply, outs) = supply
  <2> HIDE DEF supplies, wanted, total, supply, ins, outs
  <2> QED
    BY <1>1, SharesAddUp
<1>7. /\ Prefix(supplies, ins) \in Nat /\ Prefix(wanted, outs) \in Nat
      /\ Prefix(shares, ins) \in Int /\ Prefix(served, outs) \in Int
  <2>1. \A i \in 1 .. ins : shares[i] \in Nat
    <3> TAKE i \in 1 .. ins
    <3> HIDE DEF supplies, total, ins
    <3>1. i \in Nat \ {0} /\ \A j \in 1 .. i : supplies[j] \in Nat
      BY <1>1
    <3> QED
      BY <1>1, <3>1, GivenType
  <2>2. \A i \in 1 .. outs : served[i] \in Nat
    <3> TAKE i \in 1 .. outs
    <3> HIDE DEF wanted, supply, outs
    <3>1. i \in Nat \ {0} /\ \A j \in 1 .. i : wanted[j] \in Nat
      BY <1>1
    <3> QED
      BY <1>1, <3>1, GivenType
  <2> HIDE DEF supplies, wanted, shares, served, ins, outs
  <2> QED
    BY <1>1, <2>1, <2>2, PrefixType
<1>8. /\ total = AtMost(Prefix(wanted, outs), MaxFlow)
      /\ supply = AtMost(Prefix(supplies, ins), MaxFlow)
  BY DEF MuxTotal, MuxSupply, SafeTotal
<1> HIDE DEF supplies, wanted, shares, served, ins, outs, total, supply
<1>9. Prefix(shares, ins) = Prefix(served, outs)
  BY <1>1, <1>6, <1>7, <1>8, FlowAssumption DEF LeftAfter, Monus, AtMost
<1> QED
  BY <1>4, <1>5, <1>9 DEF ins, outs


-----------------------------------------------------------------------------
(* The connections at the ports of a component are all it has.             *)
LEMMA ConnectionsAreFinite ==
  ASSUME NEW c
  PROVE  NatSet(Inflows(c)) /\ NatSet(Outflows(c))
<1>1. Inflows(c) \in SUBSET Conn /\ Outflows(c) \in SUBSET Conn
  BY EndsAreConnections
<1> QED
  BY <1>1, NetworkAssumption, FiniteAssumption, FS_Subset DEF NatSet

LEMMA WiredEnds ==
  ASSUME EachPortIsWiredOnce, NEW c
  PROVE  /\ \A k \in Inflows(c) : /\ Connection[k].toPort \in PortsIn(c)
                                  /\ k = Inflow[c][Connection[k].toPort]
         /\ \A k \in Outflows(c) : /\ Connection[k].fromPort \in PortsOut(c)
                                   /\ k = Outflow[c][Connection[k].fromPort]
  BY DEF EachPortIsWiredOnce, Inflows, Outflows

LEMMA WiredConverters ==
  EachPortIsWiredOnce => ConvertersAreWired
<1> SUFFICES ASSUME EachPortIsWiredOnce, NEW k \in Conn
             PROVE  /\ Part[Connection[k].to].kind = "Converter"
                         => k = Inflow[Connection[k].to][0]
                    /\ /\ Part[Connection[k].from].kind = "Converter"
                       /\ Connection[k].fromPort = WastePort(Connection[k].from)
                       => k = Outflow[Connection[k].from][WastePort(Connection[k].from)]
  BY DEF ConvertersAreWired
<1>1. k \in Inflows(Connection[k].to) /\ k \in Outflows(Connection[k].from)
  BY DEF Inflows, Outflows
<1> QED
  BY <1>1, WiredEnds DEF PortsIn

LEMMA EndsOfOneInOneOut ==
  ASSUME EachPortIsWiredOnce, NEW c \in Comp
  PROVE  /\ Part[c].kind \in {"PassThrough", "Converter"} => Inflows(c) = {Inflow[c][0]}
         /\ Part[c].kind = "PassThrough" => Outflows(c) = {Outflow[c][0]}
         /\ Part[c].kind = "Mover" =>
              /\ Inflows(c) = {Inflow[c][0], Inflow[c][EnvironmentPort]}
              /\ Outflows(c) = {Outflow[c][0], Outflow[c][WastePort(c)]}
         /\ Part[c].kind = "Converter" =>
              Outflows(c) = {Outflow[c][0], Outflow[c][WastePort(c)]}
                 \cup (IF HasOutflow(c, LossPort(c)) THEN {Outflow[c][LossPort(c)]} ELSE {})
<1>1. \A k \in Inflows(c) : /\ Connection[k].toPort \in PortsIn(c)
                            /\ k = Inflow[c][Connection[k].toPort]
                            /\ HasInflow(c, Connection[k].toPort)
  BY WiredEnds DEF HasInflow, Inflow
<1>2. \A k \in Outflows(c) : /\ Connection[k].fromPort \in PortsOut(c)
                             /\ k = Outflow[c][Connection[k].fromPort]
                             /\ HasOutflow(c, Connection[k].fromPort)
  BY WiredEnds DEF HasOutflow, Outflow
<1>3. \A p : /\ HasInflow(c, p) => Inflow[c][p] \in Inflows(c)
             /\ HasOutflow(c, p) => Outflow[c][p] \in Outflows(c)
  BY InflowType, OutflowType DEF Inflows, Outflows
<1>4. /\ Part[c].kind \in {"PassThrough", "Converter", "Mover"} =>
           HasInflow(c, 0) /\ HasOutflow(c, 0)
      /\ Part[c].kind \in {"Converter", "Mover"} => HasOutflow(c, WastePort(c))
      /\ Part[c].kind = "Mover" => HasInflow(c, EnvironmentPort)
  BY KnownKind DEF WellConnected
<1>5. CASE Part[c].kind = "PassThrough"
  <2>1. PortsIn(c) = {0} /\ PortsOut(c) = {0}
    BY <1>5 DEF PortsIn, PortsOut
  <2> QED
    BY <1>1, <1>2, <1>3, <1>4, <1>5, <2>1
<1>6. CASE Part[c].kind = "Converter"
  <2>1. PortsIn(c) = {0} /\ PortsOut(c) = {0, LossPort(c), WastePort(c)}
    BY <1>6 DEF PortsIn, PortsOut
  <2> QED
    BY <1>1, <1>2, <1>3, <1>4, <1>6, <2>1
<1>7. CASE Part[c].kind = "Mover"
  <2>1. PortsIn(c) = {0, EnvironmentPort} /\ PortsOut(c) = {0, WastePort(c)}
    BY <1>7 DEF PortsIn, PortsOut
  <2> QED
    BY <1>1, <1>2, <1>3, <1>4, <1>7, <2>1
<1> QED
  BY <1>5, <1>6, <1>7

LEMMA EndsOfMux ==
  ASSUME EachPortIsWiredOnce, NEW c \in Comp, Part[c].kind = "Mux"
  PROVE  /\ Inflows(c) = {Inflow[c][i - 1] : i \in 1 .. Part[c].inports}
         /\ Outflows(c) = {Outflow[c][i - 1] : i \in 1 .. Part[c].outports}
         /\ \A i \in 1 .. Part[c].inports :
              Inflow[c][i - 1] \in Conn /\ Connection[Inflow[c][i - 1]].toPort = i - 1
         /\ \A i \in 1 .. Part[c].outports :
              Outflow[c][i - 1] \in Conn /\ Connection[Outflow[c][i - 1]].fromPort = i - 1
<1>1. /\ \A i \in 1 .. Part[c].inports : i - 1 \in InPorts(c)
      /\ \A i \in 1 .. Part[c].outports : i - 1 \in OutPorts(c)
  BY MuxParts DEF InPorts, OutPorts
<1>2. /\ \A p \in InPorts(c) : p + 1 \in 1 .. Part[c].inports /\ (p + 1) - 1 = p
      /\ \A p \in OutPorts(c) : p + 1 \in 1 .. Part[c].outports /\ (p + 1) - 1 = p
  BY MuxParts DEF InPorts, OutPorts
<1>3. PortsIn(c) = InPorts(c) /\ PortsOut(c) = OutPorts(c)
  BY DEF PortsIn, PortsOut
<1>4. ASSUME NEW k \in Inflows(c)
      PROVE  k \in {Inflow[c][i - 1] : i \in 1 .. Part[c].inports}
  <2>1. PICK p \in InPorts(c) : k = Inflow[c][p]
    BY <1>3, WiredEnds
  <2> QED
    BY <1>2, <2>1
<1>5. ASSUME NEW k \in Outflows(c)
      PROVE  k \in {Outflow[c][i - 1] : i \in 1 .. Part[c].outports}
  <2>1. PICK p \in OutPorts(c) : k = Outflow[c][p]
    BY <1>3, WiredEnds
  <2> QED
    BY <1>2, <2>1
<1>6. \A i \in 1 .. Part[c].inports :
        /\ Inflow[c][i - 1] \in Inflows(c) /\ Inflow[c][i - 1] \in Conn
        /\ Connection[Inflow[c][i - 1]].toPort = i - 1
  BY <1>1, MuxEnds
<1>7. \A i \in 1 .. Part[c].outports :
        /\ Outflow[c][i - 1] \in Outflows(c) /\ Outflow[c][i - 1] \in Conn
        /\ Connection[Outflow[c][i - 1]].fromPort = i - 1
  BY <1>1, MuxEnds
<1> QED
  BY <1>4, <1>5, <1>6, <1>7

(* The sums over two and three connections.                                *)
LEMMA SumOfTwo ==
  ASSUME NEW x \in Nat, NEW y \in Nat, x # y, NEW f, f[x] \in Int, f[y] \in Int
  PROVE  Sum(f, {x, y}) = f[x] + f[y]
<1>1. NatSet({x}) /\ {x} \cup {y} = {x, y}
  BY FS_Singleton DEF NatSet
<1>2. Sum(f, {x} \cup {y}) = Sum(f, {x}) + f[y]
  BY <1>1, SumAdd
<1> QED
  BY <1>1, <1>2, SumOfOne

LEMMA SumOfThree ==
  ASSUME NEW x \in Nat, NEW y \in Nat, NEW z \in Nat, x # y, z # x, z # y,
         NEW f, f[x] \in Int, f[y] \in Int, f[z] \in Int
  PROVE  Sum(f, {x, y} \cup {z}) = f[x] + f[y] + f[z]
<1>1. NatSet({x, y})
  <2>1. IsFiniteSet({x} \cup {y}) /\ {x} \cup {y} = {x, y}
    BY FS_Singleton, FS_AddElement
  <2> QED
    BY <2>1 DEF NatSet
<1>2. Sum(f, {x, y} \cup {z}) = Sum(f, {x, y}) + f[z]
  BY <1>1, SumAdd
<1> QED
  BY <1>2, SumOfTwo

LEMMA BalancedWhenFinal ==
  ASSUME EveryChangeIsTold, EachPortIsWiredOnce, NothingIsMadeOfNothing,
         ss \in State, ~ RequestsOverflow, NEW c \in Comp,
         Part[c].kind \in {"PassThrough", "Converter", "Mover", "Mux"},
         AsksRight(ss, c), OffersRight(model, ss, c), SpillsRight(model, ss, c),
         \A k \in Inflows(c) \cup Outflows(c) : IsFinal(ss, k)
  PROVE  Sum(ss.actual, Inflows(c)) = Sum(ss.actual, Outflows(c))
<1>1. \A k \in Inflows(c) \cup Outflows(c) : k \in Nat /\ ss.actual[k] \in Int
  <2> TAKE k \in Inflows(c) \cup Outflows(c)
  <2>1. k \in Conn
    BY EndsAreConnections
  <2>2. k \in Nat
    BY <2>1, NetworkAssumption
  <2>3. ss.actual[k] \in Flow
    BY <2>1, FlowsOfState
  <2>4. ss.actual[k] \in Nat
    BY <2>3, FlowIsNat
  <2> QED
    BY <2>2, <2>4
<1>2. CASE Part[c].kind = "PassThrough"
  <2>1. Inflows(c) = {Inflow[c][0]} /\ Outflows(c) = {Outflow[c][0]}
    BY <1>2, EndsOfOneInOneOut
  <2>2. ss.actual[Inflow[c][0]] = ss.actual[Outflow[c][0]]
    BY <1>2, <2>1, PassThroughBalances
  <2> QED
    BY <1>1, <2>1, <2>2, SumOfOne
<1>3. CASE Part[c].kind = "Mover"
  <2> DEFINE in    == Inflow[c][0]
             env   == Inflow[c][EnvironmentPort]
             out   == Outflow[c][0]
             waste == Outflow[c][WastePort(c)]
  <2>1. Inflows(c) = {in, env} /\ Outflows(c) = {out, waste}
    BY <1>3, EndsOfOneInOneOut
  <2>2. in # env /\ out # waste
    BY <1>3, EnvironmentEnd, WasteEnd DEF EveryChangeIsTold
  <2>3. ss.actual[in] + ss.actual[env] = ss.actual[out] + ss.actual[waste]
    BY <1>3, <2>1, MoverBalances
  <2>4. /\ in \in Nat /\ env \in Nat /\ out \in Nat /\ waste \in Nat
        /\ ss.actual[in] \in Int /\ ss.actual[env] \in Int
        /\ ss.actual[out] \in Int /\ ss.actual[waste] \in Int
    BY <1>1, <2>1
  <2> HIDE DEF in, env, out, waste
  <2>5. /\ Sum(ss.actual, Inflows(c)) = ss.actual[in] + ss.actual[env]
        /\ Sum(ss.actual, Outflows(c)) = ss.actual[out] + ss.actual[waste]
    BY <2>1, <2>2, <2>4, SumOfTwo
  <2> QED
    BY <2>3, <2>5
<1>4. CASE Part[c].kind = "Converter"
  <2> DEFINE in    == Inflow[c][0]
             out   == Outflow[c][0]
             waste == Outflow[c][WastePort(c)]
             loss  == Outflow[c][LossPort(c)]
  <2>1. /\ Inflows(c) = {in}
        /\ HasOutflow(c, LossPort(c)) => Outflows(c) = {out, waste} \cup {loss}
        /\ ~ HasOutflow(c, LossPort(c)) => Outflows(c) = {out, waste}
    BY <1>4, EndsOfOneInOneOut
  <2>2. /\ out # waste
        /\ HasOutflow(c, LossPort(c)) => loss # out /\ loss # waste
    BY <1>4, WasteEnd, LossEnd DEF EveryChangeIsTold
  <2>3. (Wanted(ss, c) * LookupInterp(Part[c].byOutflow, Wanted(ss, c)).den
           + LookupInterp(Part[c].byOutflow, Wanted(ss, c)).num - 1)
          \div LookupInterp(Part[c].byOutflow, Wanted(ss, c)).num \in Flow
    BY <1>4 DEF RequestsOverflow, OfKind, Wanted, WouldNeed
  <2>4. PutOut(ss, c) <= Taken(ss, c)
    BY <1>4, <2>3, ConverterLoses
  <2>5. /\ IsFinal(ss, in) /\ IsFinal(ss, out) /\ IsFinal(ss, waste)
        /\ HasOutflow(c, LossPort(c)) => IsFinal(ss, loss)
    BY <2>1
  <2>6. ss.actual[in] = ss.actual[out] + ss.actual[waste]
                          + (IF HasOutflow(c, LossPort(c)) THEN ss.actual[loss] ELSE 0)
    BY <1>4, <2>4, <2>5, ConverterBalances
  <2>7. /\ in \in Nat /\ out \in Nat /\ waste \in Nat
        /\ ss.actual[in] \in Int /\ ss.actual[out] \in Int /\ ss.actual[waste] \in Int
        /\ HasOutflow(c, LossPort(c)) => loss \in Nat /\ ss.actual[loss] \in Int
    BY <1>1, <2>1
  <2> HIDE DEF in, out, waste, loss
  <2>8. Sum(ss.actual, Inflows(c)) = ss.actual[in]
    BY <2>1, <2>7, SumOfOne
  <2>9. CASE HasOutflow(c, LossPort(c))
    <3>1. Sum(ss.actual, {out, waste} \cup {loss})
            = ss.actual[out] + ss.actual[waste] + ss.actual[loss]
      BY <2>2, <2>7, <2>9, SumOfThree
    <3> QED
      BY <2>1, <2>6, <2>8, <2>9, <3>1
  <2>10. CASE ~ HasOutflow(c, LossPort(c))
    <3>1. Sum(ss.actual, {out, waste}) = ss.actual[out] + ss.actual[waste]
      BY <2>2, <2>7, SumOfTwo
    <3>2. ss.actual[in] = ss.actual[out] + ss.actual[waste]
      BY <2>6, <2>7, <2>10
    <3> QED
      BY <2>1, <2>8, <2>10, <3>1, <3>2
  <2> QED
    BY <2>9, <2>10
<1>5. CASE Part[c].kind = "Mux"
  <2> DEFINE n    == Part[c].inports
             m    == Part[c].outports
             ins  == [i \in 1 .. n |-> Inflow[c][i - 1]]
             outs == [i \in 1 .. m |-> Outflow[c][i - 1]]
             inFlows  == [i \in 1 .. n |-> ss.actual[Inflow[c][i - 1]]]
             outFlows == [i \in 1 .. m |-> ss.actual[Outflow[c][i - 1]]]
  <2>1. n \in Nat /\ m \in Nat
    BY <1>5, MuxParts
  <2>2. /\ Inflows(c) = {ins[i] : i \in 1 .. n}
        /\ Outflows(c) = {outs[i] : i \in 1 .. m}
    BY <1>5, EndsOfMux
  <2>3. /\ \A i, j \in 1 .. n : ins[i] = ins[j] => i = j
        /\ \A i, j \in 1 .. m : outs[i] = outs[j] => i = j
    <3>1. \A i \in 1 .. n : Connection[ins[i]].toPort = i - 1
      BY <1>5, EndsOfMux
    <3>2. \A i \in 1 .. m : Connection[outs[i]].fromPort = i - 1
      BY <1>5, EndsOfMux
    <3> HIDE DEF ins, outs, n, m
    <3> QED
      BY <2>1, <3>1, <3>2
  <2>4. /\ \A i \in 1 .. n : inFlows[i] = ss.actual[ins[i]]
        /\ \A i \in 1 .. m : outFlows[i] = ss.actual[outs[i]]
    OBVIOUS
  <2>5. Prefix(inFlows, n) = Prefix(outFlows, m)
    BY <1>5, MuxEnds, MuxBalances
  <2> HIDE DEF n, m, ins, outs, inFlows, outFlows
  <2>6. /\ \A i \in 1 .. n : ins[i] \in Nat /\ ss.actual[ins[i]] \in Int
        /\ \A i \in 1 .. m : outs[i] \in Nat /\ ss.actual[outs[i]] \in Int
    BY <1>1, <2>2
  <2>7. Sum(ss.actual, {ins[i] : i \in 1 .. n}) = Prefix(inFlows, n)
    BY <2>1, <2>3, <2>4, <2>6, SumOfList
  <2>8. Sum(ss.actual, {outs[i] : i \in 1 .. m}) = Prefix(outFlows, m)
    BY <2>1, <2>3, <2>4, <2>6, SumOfList
  <2> QED
    BY <2>2, <2>5, <2>7, <2>8
<1> QED
  BY <1>2, <1>3, <1>4, <1>5

(* No energy is made or lost between the sources, the loads and the stores:*)
(* a pass-through, a converter, a mover or a mux passes on exactly what it *)
(* takes in at every recorded time, in service or not, however the shares  *)
(* of a mux, the losses of a converter and the environment of a mover were *)
(* brought up to date one at a time.  The check that prints "FLOW          *)
(* IMBALANCE!" cannot fire in these networks, unless the solver is cut     *)
(* short or a converter asks for more than a flow can carry.               *)
THEOREM FlowsAddUp ==
  ASSUME EveryChangeIsTold, EachPortIsWiredOnce, NothingIsMadeOfNothing,
         ScheduledLoadsDoNotFail
  PROVE  Spec => [](CutShort \/ RequestsOverflow \/ FlowsBalance)
<1>1. IInv /\ SolverInv /\ NothingIsLeft /\ FlowsAreFinal
        /\ (CutShort \/ FailedComponentsCarryNothing)
        => CutShort \/ RequestsOverflow \/ FlowsBalance
  <2> SUFFICES ASSUME IInv, SolverInv, NothingIsLeft, FlowsAreFinal,
                      FailedComponentsCarryNothing,
                      ~ CutShort, ~ RequestsOverflow, Settled, NEW c \in Comp,
                      Part[c].kind \in {"PassThrough", "Converter", "Mover", "Mux", "Switch"}
               PROVE  Sum(ss.actual, Inflows(c)) = Sum(ss.actual, Outflows(c))
    BY DEF FlowsBalance
  <2>1. ss \in State
    BY DEF IInv, TypeOK
  <2>2. /\ Quiet(ss) /\ PendingBack = {} /\ PendingFront = {}
        /\ pc \notin {"backward", "forward", "finalize"}
    BY SettledIsQuiet DEF Settled
  <2>3. Part[c].kind \in {"PassThrough", "Converter", "Mover", "Mux"}
    BY DEF EveryChangeIsTold, OfKind
  <2>4. CASE c \in ss.down
    <3>1. \A k \in Inflows(c) \cup Outflows(c) : ss.actual[k] = 0
      BY <2>4 DEF FailedComponentsCarryNothing
    <3> QED
      BY <3>1, ConnectionsAreFinite, SumOfNothing
  <2>5. CASE c \notin ss.down
    <3>1. UpToDate(model, ss, c, {}, {})
      BY <2>2, <2>5 DEF SolverInv, EveryoneIsTold, SupplyIsDue, Settled
    <3>2. AsksRight(ss, c) /\ OffersRight(model, ss, c) /\ SpillsRight(model, ss, c)
      BY <3>1 DEF UpToDate, Awaits
    <3>3. ASSUME NEW k \in Inflows(c) \cup Outflows(c) PROVE IsFinal(ss, k)
      <4>1. k \in Conn /\ (Connection[k].to = c \/ Connection[k].from = c)
        BY DEF Inflows, Outflows
      <4>2. ~ SourceWaste(k)
        BY <2>3, <4>1 DEF SourceWaste, EveryChangeIsTold, WasteIsDisposedOf
      <4> QED
        BY <2>2, <4>1, <4>2 DEF FlowsAreFinal
    <3> QED
      BY <2>1, <2>3, <3>2, <3>3, BalancedWhenFinal
  <2> QED
    BY <2>4, <2>5
<1>2. ConvertersAreWired
  BY WiredConverters
<1> QED
  BY <1>1, <1>2, IInvHolds, SolverInvHolds, NothingIsLeftHolds, FlowsAreFinalHolds,
     FailedCarryNothing, PTL


-----------------------------------------------------------------------------
(* What conversions serve.                                                 *)

LEMMA ProductsGrow ==
  ASSUME NEW a \in Nat, NEW b \in Nat, NEW f \in Nat, a <= b
  PROVE  a * f \in Nat /\ b * f \in Nat /\ a * f <= b * f
<1>1. PICK d \in Nat : b = a + d
  <2> WITNESS b - a \in Nat
  <2> QED
    OBVIOUS
<1>2. a * f \in Nat /\ b * f \in Nat /\ d * f \in Nat
  OBVIOUS
<1>3. b * f = a * f + d * f
  BY <1>1
<1> QED
  BY <1>2, <1>3

(* Rounding up what is needed and down what is made cancel.                *)
LEMMA RoundingUpAndDown ==
  ASSUME NEW wanted \in Nat, NEW given \in Nat,
         NEW num \in Nat \ {0}, NEW den \in Nat \ {0},
         given >= (wanted * den + num - 1) \div num
  PROVE  (given * num) \div den >= wanted
<1> DEFINE total == wanted * den + num - 1
           q     == total \div num
           made  == given * num
           p     == made \div den
<1>1. total \in Nat /\ made \in Nat /\ wanted * den \in Nat
  OBVIOUS
<1>2. q \in Nat /\ total < num * q + num
  BY <1>1, DivisionBounds
<1>3. p \in Nat /\ made < den * p + den
  BY <1>1, DivisionBounds
<1>4. wanted * den <= q * num
  BY <1>1, <1>2
<1>5. q * num <= made
  BY <1>2, ProductsGrow
<1>6. wanted * den < (p + 1) * den
  BY <1>1, <1>2, <1>3, <1>4, <1>5
<1>7. ASSUME p + 1 <= wanted PROVE FALSE
  <2>1. (p + 1) * den <= wanted * den
    BY <1>3, <1>7, ProductsGrow
  <2> QED
    BY <1>1, <1>3, <1>6, <2>1
<1> QED
  BY <1>3, <1>7

(* A converter or a mover with one efficiency for all flows, the same both *)
(* ways, has tables that agree: given what it takes to put something out,  *)
(* it puts that much out.                                                  *)
THEOREM ConstantTablesAgree ==
  ASSUME \A c \in Conversions :
           \E num, den \in Nat \ {0} :
             Part[c].byOutflow = Constant(num, den) /\ Part[c].byInflow = Constant(num, den)
  PROVE  TablesAgree
<1> SUFFICES ASSUME NEW c \in Conversions, NEW wanted \in 0 .. Part[c].maxOutflow,
                    NEW given \in Flow, given >= WouldNeed(c, wanted)
             PROVE  WouldMake(c, given) >= wanted
  BY DEF TablesAgree
<1>1. PICK num \in Nat \ {0}, den \in Nat \ {0} :
        Part[c].byOutflow = Constant(num, den) /\ Part[c].byInflow = Constant(num, den)
  OBVIOUS
<1>2. given \in Nat /\ wanted \in Nat
  BY FlowIsNat, ConversionParts DEF Conversions, OfKind
<1>3. \A x \in Nat : /\ LookupInterp(Constant(num, den), x).num = num
                     /\ LookupInterp(Constant(num, den), x).den = den
  BY DEF LookupInterp, Constant
<1>4. /\ WouldNeed(c, wanted) = (wanted * den + num - 1) \div num
      /\ WouldMake(c, given) = (given * num) \div den
  BY <1>1, <1>2, <1>3 DEF WouldNeed, WouldMake
<1> QED
  BY <1>2, <1>4, RoundingUpAndDown

(* A conversion up to date serves what it can, unless a cast overflows.    *)
LEMMA ServesWhenFinal ==
  ASSUME TablesAgree, ss \in State, NEW c \in Conversions,
         WouldNeed(c, AtMost(ss.req[Outflow[c][0]], Part[c].maxOutflow)) \in Flow,
         WouldMake(c, ss.avail[Inflow[c][0]]) \in Flow,
         WouldMake(c, ss.actual[Inflow[c][0]]) \in Flow,
         AsksRight(ss, c), OffersRight(model, ss, c),
         IsFinal(ss, Inflow[c][0]), IsFinal(ss, Outflow[c][0])
  PROVE  LET in   == Inflow[c][0]
             out  == Outflow[c][0]
             made == FloorMul(ss.actual[in], LookupInterp(Part[c].byInflow, ss.actual[in]))
         IN  /\ ss.actual[out] <= made
             /\ ss.actual[out] < AtMost(ss.req[out], Part[c].maxOutflow)
                  => ss.actual[in] = ss.avail[in]
<1> DEFINE wanted == Wanted(ss, c)
           req    == ss.req[Outflow[c][0]]
           given  == ss.avail[Inflow[c][0]]
           taken  == ss.actual[Inflow[c][0]]
           limit  == Part[c].maxOutflow
           needed == WouldNeed(c, wanted)
           made   == WouldMake(c, given)
           turned == WouldMake(c, taken)
<1>1. c \in Comp /\ Part[c].kind \in {"Converter", "Mover"}
  BY DEF Conversions, OfKind
<1>2. /\ given \in Flow /\ req \in Flow /\ limit \in Flow
      /\ taken \in Flow
  BY <1>1, FirstEnds, FlowsOfState, ConversionParts
<1>3. wanted = AtMost(req, limit) /\ wanted \in 0 .. limit
  <2>1. wanted = AtMost(req, limit)
    BY DEF Wanted
  <2>2. req \in Nat /\ limit \in Nat
    BY <1>2, FlowIsNat
  <2> HIDE DEF wanted, req, limit
  <2> QED
    BY <2>1, <2>2 DEF AtMost
<1>4. needed \in Flow /\ made \in Flow /\ turned \in Flow
  <2> USE DEF Wanted
  <2>1. needed \in Flow
    OBVIOUS
  <2>2. made \in Flow /\ turned \in Flow
    OBVIOUS
  <2> QED
    BY <2>1, <2>2
<1>5. ss.req[Inflow[c][0]] = needed
  BY <1>1, <1>4 DEF AsksRight, Needed, CeilDiv, ToFlow, WouldNeed
<1>6. ss.avail[Outflow[c][0]] = AtMost(made, limit)
  BY <1>1, <1>4 DEF OffersRight, Made, FloorMul, ToFlow, WouldMake
<1>7. FloorMul(taken, LookupInterp(Part[c].byInflow, taken)) = turned
  BY <1>4 DEF FloorMul, ToFlow, WouldMake
<1>8. taken = IF given >= needed THEN needed ELSE given
  BY <1>5 DEF IsFinal, FinalizeFlowValue
<1>9. ss.actual[Outflow[c][0]] = FinalizeFlowValue(req, AtMost(made, limit))
  BY <1>6 DEF IsFinal
<1>10. /\ given >= needed => made >= wanted
       /\ taken >= needed => turned >= wanted
  BY <1>2, <1>3 DEF TablesAgree
<1>11. given < needed => turned = made
  <2>1. given \in Nat /\ needed \in Nat
    BY <1>2, <1>4, FlowIsNat
  <2>2. SUFFICES ASSUME given < needed PROVE taken = given
    OBVIOUS
  <2> HIDE DEF given, needed, taken
  <2> QED
    BY <1>8, <2>1, <2>2
<1>12. given \in Nat /\ req \in Nat /\ limit \in Nat /\ taken \in Nat /\ wanted \in Nat
         /\ needed \in Nat /\ made \in Nat /\ turned \in Nat
  <2>1. given \in Nat /\ req \in Nat /\ limit \in Nat /\ taken \in Nat
    BY <1>2, FlowIsNat
  <2>2. needed \in Nat /\ made \in Nat /\ turned \in Nat
    BY <1>4, FlowIsNat
  <2>3. wanted \in Nat
    BY <1>3, <2>1
  <2> QED
    BY <2>1, <2>2, <2>3
<1>13. ss.actual[Outflow[c][0]] <= turned
         /\ (ss.actual[Outflow[c][0]] < AtMost(req, limit) => taken = given)
  <2> HIDE DEF wanted, req, given, taken, limit, needed, made, turned
  <2> QED
    BY <1>3, <1>8, <1>9, <1>10, <1>11, <1>12 DEF FinalizeFlowValue, AtMost
<1> QED
  BY <1>7, <1>13

(* A converter or a mover puts out no more than it can make of what it     *)
(* takes in, and leaves its outflow short only when it takes all it is     *)
(* given: although the request is rounded up by one table in the backward  *)
(* pass and the supply down by the other in the forward pass, at every     *)
(* recorded time the two meet, unless the solver is cut short or a         *)
(* conversion overflows.                                                   *)
THEOREM ConversionsServe ==
  ASSUME EveryChangeIsTold, ConvertersAreWired, TablesAgree, ScheduledLoadsDoNotFail
  PROVE  Spec => [](CutShort \/ ConversionsOverflow \/ ConversionsServeWhatTheyCan)
<1>1. IInv /\ SolverInv /\ NothingIsLeft /\ FlowsAreFinal
        => CutShort \/ ConversionsOverflow \/ ConversionsServeWhatTheyCan
  <2> SUFFICES ASSUME IInv, SolverInv, NothingIsLeft, FlowsAreFinal,
                      ~ CutShort, ~ ConversionsOverflow, Settled,
                      NEW c \in Conversions, c \notin ss.down
               PROVE  LET in   == Inflow[c][0]
                          out  == Outflow[c][0]
                          made == FloorMul(ss.actual[in],
                                     LookupInterp(Part[c].byInflow, ss.actual[in]))
                      IN  /\ ss.actual[out] <= made
                          /\ ss.actual[out] < AtMost(ss.req[out], Part[c].maxOutflow)
                               => ss.actual[in] = ss.avail[in]
    BY DEF ConversionsServeWhatTheyCan
  <2>1. ss \in State
    BY DEF IInv, TypeOK
  <2>2. /\ Quiet(ss) /\ PendingBack = {} /\ PendingFront = {}
        /\ pc \notin {"backward", "forward", "finalize"}
    BY SettledIsQuiet DEF Settled
  <2>3. c \in Comp /\ Part[c].kind \in {"Converter", "Mover"}
    BY DEF Conversions, OfKind
  <2>4. UpToDate(model, ss, c, {}, {})
    BY <2>2, <2>3 DEF SolverInv, EveryoneIsTold, SupplyIsDue, Settled
  <2>5. AsksRight(ss, c) /\ OffersRight(model, ss, c)
    BY <2>4 DEF UpToDate, Awaits
  <2>6. IsFinal(ss, Inflow[c][0])
    <3>1. Inflow[c][0] \in Conn /\ Connection[Inflow[c][0]].to = c
      BY <2>3, FirstEnds DEF Inflows, Outflows
    <3>2. ~ SourceWaste(Inflow[c][0])
      BY <2>3, <3>1 DEF SourceWaste, EveryChangeIsTold, WasteIsDisposedOf
    <3> QED
      BY <2>2, <3>1, <3>2 DEF FlowsAreFinal
  <2>7. IsFinal(ss, Outflow[c][0])
    <3>1. Outflow[c][0] \in Conn /\ Connection[Outflow[c][0]].from = c
      BY <2>3, FirstEnds DEF Inflows, Outflows
    <3>2. ~ SourceWaste(Outflow[c][0])
      BY <2>3, <3>1 DEF SourceWaste
    <3> QED
      BY <2>2, <3>1, <3>2 DEF FlowsAreFinal
  <2>8. /\ WouldNeed(c, AtMost(ss.req[Outflow[c][0]], Part[c].maxOutflow)) \in Flow
        /\ WouldMake(c, ss.avail[Inflow[c][0]]) \in Flow
        /\ WouldMake(c, ss.actual[Inflow[c][0]]) \in Flow
    BY DEF ConversionsOverflow
  <2> QED
    BY <2>1, <2>5, <2>6, <2>7, <2>8, ServesWhenFinal
<1> QED
  BY <1>1, IInvHolds, SolverInvHolds, NothingIsLeftHolds, FlowsAreFinalHolds, PTL

=============================================================================
