---------------------------- MODULE SolverProofs ----------------------------
(***************************************************************************)
(* The flows are a fixed point of the handlers whenever no connection is   *)
(* scheduled.  A component that is wrong about a neighbour (it asks for    *)
(* something else than it would now, or offers or spills something else)   *)
(* always has a connection scheduled at which its handler will look again: *)
(* whoever changes a flow either schedules the other end of it, or is the  *)
(* only component that looks at it.                                        *)
(***************************************************************************)
EXTENDS EventProofs

Passive == {"WasteSink", "EnvironmentSource"}

-----------------------------------------------------------------------------
(* What a component asks of its inflow, offers its outflow and spills when *)
(* its handlers have seen all there is to see.                             *)
Wanted(s, c) == AtMost(s.req[Outflow[c][0]], Part[c].maxOutflow)
Needed(s, c) ==
  CeilDiv(Wanted(s, c), LookupInterp(Part[c].byOutflow, Wanted(s, c)))
Made(s, c) ==
  LET given == s.avail[Inflow[c][0]]
  IN  AtMost(FloorMul(given, LookupInterp(Part[c].byInflow, given)),
             Part[c].maxOutflow)

Taken(s, c) == FinalizeFlowValue(s.req[Inflow[c][0]], s.avail[Inflow[c][0]])
PutOut(s, c) ==
  FinalizeFlowValue(s.req[Outflow[c][0]],
                    AtMost(s.avail[Outflow[c][0]], Part[c].maxOutflow))

Supplied(sch, s, c) == AtMost(sch.avail[c][s.srcIdx[c]].amount, Part[c].maxOutflow)

Carries(s, k, v) == s.req[k] = v /\ s.avail[k] = v

AsksRight(s, c) ==
  LET in == Inflow[c][0]
  IN  CASE Part[c].kind = "PassThrough" -> s.req[in] = Wanted(s, c)
        [] Part[c].kind \in {"Converter", "Mover"} -> s.req[in] = Needed(s, c)
        [] Part[c].kind = "Mux" ->
             \A k \in DOMAIN MuxDemands(s, c) : s.req[k] = MuxDemands(s, c)[k]
        [] OTHER -> TRUE

OffersRight(sch, s, c) ==
  LET in  == Inflow[c][0]
      out == Outflow[c][0]
  IN  CASE Part[c].kind = "PassThrough" ->
             s.avail[out] = AtMost(s.avail[in], Part[c].maxOutflow)
        [] Part[c].kind \in {"Converter", "Mover"} -> s.avail[out] = Made(s, c)
        [] Part[c].kind = "Mux" ->
             \A k \in DOMAIN MuxOffers(s, c) : s.avail[k] = MuxOffers(s, c)[k]
        [] Part[c].kind = "ScheduleBasedSource" -> s.avail[out] = Supplied(sch, s, c)
        [] OTHER -> TRUE

ConverterSpillsRight(s, c) ==
  LET loss  == Outflow[c][LossPort(c)]
      waste == Outflow[c][WastePort(c)]
      rest  == Monus(Taken(s, c), PutOut(s, c))
  IN  IF HasOutflow(c, LossPort(c))
        THEN /\ s.avail[loss] = AtMost(rest, Part[c].maxLossflow)
             /\ Carries(s, waste, Monus(rest, LossTaken(s, c, loss)))
        ELSE Carries(s, waste, rest)

MoverSpillsRight(s, c) ==
  /\ Carries(s, Outflow[c][WastePort(c)], Monus(Taken(s, c), PutOut(s, c)))
  /\ Carries(s, Inflow[c][EnvironmentPort], Monus(PutOut(s, c), Taken(s, c)))

SourceSpillsRight(sch, s, c) ==
  Carries(s, Outflow[c][WastePort(c)],
          Monus(Supplied(sch, s, c), s.req[Outflow[c][0]]))

SpillsRight(sch, s, c) ==
  CASE Part[c].kind = "Converter" -> ConverterSpillsRight(s, c)
    [] Part[c].kind = "Mover" -> MoverSpillsRight(s, c)
    [] Part[c].kind = "ScheduleBasedSource" -> SourceSpillsRight(sch, s, c)
    [] OTHER -> TRUE

-----------------------------------------------------------------------------
(* The connections whose scheduling makes the handlers look again, in the  *)
(* backward and in the forward pass.                                       *)
MuxIns(c)  == {Inflow[c][p] : p \in InPorts(c)}
MuxOuts(c) == {Outflow[c][p] : p \in OutPorts(c)}

AskBack(c) ==
  CASE Part[c].kind \in {"PassThrough", "Converter", "Mover"} -> {Outflow[c][0]}
    [] Part[c].kind = "Mux" -> MuxOuts(c)
    [] OTHER -> {}
AskFront(c) ==
  IF Part[c].kind = "Mux" THEN IF Part[c].inports > 1 THEN MuxIns(c) ELSE {} ELSE {}

OfferFront(c) ==
  CASE Part[c].kind \in {"PassThrough", "Converter", "Mover"} -> {Inflow[c][0]}
    [] Part[c].kind = "Mux" -> MuxIns(c)
    [] OTHER -> {}
OfferBack(c) ==
  IF Part[c].kind = "Mux" THEN IF Part[c].outports > 1 THEN MuxOuts(c) ELSE {} ELSE {}

SpillBack(c) ==
  CASE Part[c].kind \in {"Mover", "ScheduleBasedSource"} -> {Outflow[c][0]}
    [] Part[c].kind = "Converter" ->
         {Outflow[c][0]} \cup (IF HasOutflow(c, LossPort(c))
                                 THEN {Outflow[c][LossPort(c)]} ELSE {})
    [] OTHER -> {}
SpillFront(c) ==
  IF Part[c].kind \in {"Converter", "Mover"} THEN {Inflow[c][0]} ELSE {}

Awaits(back, front, B, F) == back \cap B # {} \/ front \cap F # {}

(* A component has nothing to change, or will be called: B and F are what  *)
(* is scheduled for the two passes.                                        *)
UpToDate(sch, s, c, B, F) ==
  /\ AsksRight(s, c) \/ Awaits(AskBack(c), AskFront(c), B, F)
  /\ OffersRight(sch, s, c) \/ Awaits(OfferBack(c), OfferFront(c), B, F)
  /\ SpillsRight(sch, s, c) \/ Awaits(SpillBack(c), SpillFront(c), B, F)

PendingBack  == ss.back \cup (IF pc = "backward" THEN todo ELSE {})
PendingFront == ss.front \cup (IF pc = "forward" THEN todo ELSE {})

(* A change of a schedule that has yet to be acted on.                     *)
SupplyIsDue(c) ==
  /\ pc \in {"reliability", "loads"} \/ (pc = "sources" /\ c \in todo)
  /\ c \in Sources
  /\ ScheduledNow(model.avail[c], ss.srcIdx[c])

EveryoneIsTold ==
  pc \notin {"exited", "assertionFailed"} =>
    \A c \in Comp \ ss.down :
      UpToDate(model, ss, c, PendingBack, PendingFront) \/ SupplyIsDue(c)

(* No mover is called for what it takes from its environment.              *)
NobodyAsksOutside ==
  \A k \in PendingFront :
    ~ /\ Part[Connection[k].to].kind = "Mover"
      /\ Part[Connection[k].from].kind = "EnvironmentSource"

MoversAreInService == \A c \in ss.down : Part[c].kind # "Mover"

SolverInv == EveryoneIsTold /\ NobodyAsksOutside /\ MoversAreInService

-----------------------------------------------------------------------------
(* What a component may do to the flows ...                                *)

(* A connection whose other end has no handler.                            *)
Private(c, k) ==
  \/ Connection[k].from = c /\ Part[Connection[k].to].kind = "WasteSink"
  \/ /\ Connection[k].to = c /\ Part[c].kind = "Mover"
     /\ Part[Connection[k].from].kind = "EnvironmentSource"

(* From s to r, component c has changed requests only of its inflows and   *)
(* availabilities only of its outflows, and has scheduled each one, but    *)
(* for the connections that concern nobody else.                           *)
ActsFor(c, s, r) ==
  /\ r.srcIdx = s.srcIdx
  /\ s.back \subseteq r.back /\ s.front \subseteq r.front
  /\ \A k \in Conn : r.req[k] # s.req[k] =>
       Private(c, k) \/ (Connection[k].to = c /\ k \in r.back)
  /\ \A k \in Conn : r.avail[k] # s.avail[k] =>
       Private(c, k) \/ (Connection[k].from = c /\ k \in r.front)
  /\ \A k \in r.front \ s.front :
       Connection[k].from = c \/ Part[Connection[k].to].kind = "Mux"
  /\ Part[c].kind \in Passive =>
       r.req = s.req /\ r.avail = s.avail /\ r.front = s.front

(* ... and what is then true of the connections of any other: only what    *)
(* its neighbours ask and offer has changed, and it has been told.         *)
HasBeenTold(d, s, r) ==
  /\ r.srcIdx = s.srcIdx
  /\ \A k \in Inflows(d) :
       /\ r.req[k] = s.req[k]
       /\ \/ r.avail[k] = s.avail[k]
          \/ k \in r.front /\ Part[Connection[k].from].kind # "EnvironmentSource"
  /\ \A k \in Outflows(d) :
       /\ r.avail[k] = s.avail[k]
       /\ \/ r.req[k] = s.req[k]
          \/ k \in r.back /\ Part[Connection[k].to].kind # "WasteSink"

(* From s to r nothing became wrong about d without its being scheduled,   *)
(* and whatever it was called about (B and F) has been put right.          *)
Sees(sch, d, s, r, B, F) ==
  /\ \/ AsksRight(r, d)
     \/ Awaits(AskBack(d), AskFront(d), r.back, r.front)
     \/ ~ AsksRight(s, d) /\ ~ Awaits(AskBack(d), AskFront(d), B, F)
  /\ \/ OffersRight(sch, r, d)
     \/ Awaits(OfferBack(d), OfferFront(d), r.back, r.front)
     \/ ~ OffersRight(sch, s, d) /\ ~ Awaits(OfferBack(d), OfferFront(d), B, F)
  /\ \/ SpillsRight(sch, r, d)
     \/ Awaits(SpillBack(d), SpillFront(d), r.back, r.front)
     \/ ~ SpillsRight(sch, s, d) /\ ~ Awaits(SpillBack(d), SpillFront(d), B, F)

LEMMA StillUpToDate ==
  ASSUME NEW sch, NEW d, NEW s, NEW r, NEW B, NEW F, Sees(sch, d, s, r, B, F),
         NEW B0, NEW F0, UpToDate(sch, s, d, B0, F0),
         NEW B1, B0 \ B \subseteq B1, r.back \subseteq B1,
         NEW F1, F0 \ F \subseteq F1, r.front \subseteq F1
  PROVE  UpToDate(sch, r, d, B1, F1)
<1>1. \A back, front :
        /\ Awaits(back, front, r.back, r.front) => Awaits(back, front, B1, F1)
        /\ ~ Awaits(back, front, B, F) /\ Awaits(back, front, B0, F0)
             => Awaits(back, front, B1, F1)
  BY DEF Awaits
<1> QED
  BY <1>1 DEF Sees, UpToDate

LEMMA ActsForTwice ==
  ASSUME NEW c, NEW s, NEW q, NEW r, ActsFor(c, s, q), ActsFor(c, q, r)
  PROVE  ActsFor(c, s, r)
<1>1. r.srcIdx = s.srcIdx /\ s.back \subseteq r.back /\ s.front \subseteq r.front
  BY DEF ActsFor
<1>2. \A k \in Conn : r.req[k] # s.req[k] =>
        Private(c, k) \/ (Connection[k].to = c /\ k \in r.back)
  BY DEF ActsFor
<1>3. \A k \in Conn : r.avail[k] # s.avail[k] =>
        Private(c, k) \/ (Connection[k].from = c /\ k \in r.front)
  BY DEF ActsFor
<1>4. \A k \in r.front \ s.front :
        Connection[k].from = c \/ Part[Connection[k].to].kind = "Mux"
  BY DEF ActsFor
<1> QED
  BY <1>1, <1>2, <1>3, <1>4 DEF ActsFor

LEMMA OthersHaveBeenTold ==
  ASSUME NEW c, NEW s, NEW r, ActsFor(c, s, r),
         NEW d \in Comp, d # c, Part[d].kind \notin Passive
  PROVE  HasBeenTold(d, s, r)
<1>1. ASSUME NEW k \in Inflows(d)
      PROVE  /\ r.req[k] = s.req[k]
             /\ \/ r.avail[k] = s.avail[k]
                \/ k \in r.front /\ Part[Connection[k].from].kind # "EnvironmentSource"
  <2>1. k \in Conn /\ Connection[k].to = d
    BY DEF Inflows
  <2>2. ~ Private(c, k)
    BY <2>1 DEF Private, Passive
  <2> QED
    BY <2>1, <2>2 DEF ActsFor, Passive
<1>2. ASSUME NEW k \in Outflows(d)
      PROVE  /\ r.avail[k] = s.avail[k]
             /\ \/ r.req[k] = s.req[k]
                \/ k \in r.back /\ Part[Connection[k].to].kind # "WasteSink"
  <2>1. k \in Conn /\ Connection[k].from = d
    BY DEF Outflows
  <2>2. ~ Private(c, k)
    BY <2>1 DEF Private, Passive
  <2> QED
    BY <2>1, <2>2 DEF ActsFor, Passive
<1> QED
  BY <1>1, <1>2 DEF HasBeenTold, ActsFor

-----------------------------------------------------------------------------
(* The connections of a component.                                         *)

LEMMA FirstEnds ==
  ASSUME NEW c \in Comp, Part[c].kind \in {"PassThrough", "Converter", "Mover"}
  PROVE  /\ Inflow[c][0] \in Conn /\ Inflow[c][0] \in Inflows(c)
         /\ Outflow[c][0] \in Conn /\ Outflow[c][0] \in Outflows(c)
         /\ Connection[Outflow[c][0]].fromPort = 0
         /\ Connection[Inflow[c][0]].toPort = 0
  BY KnownKind, InflowType, OutflowType DEF WellConnected, Inflows, Outflows

(* Waste leaves at a port of its own, for a sink.                          *)
LEMMA WasteEnd ==
  ASSUME WasteIsDisposedOf, NEW c \in Comp,
         Part[c].kind \in {"ScheduleBasedSource", "Converter", "Mover"}
  PROVE  LET waste == Outflow[c][WastePort(c)] IN
         /\ waste \in Conn /\ waste \in Outflows(c)
         /\ Part[Connection[waste].to].kind = "WasteSink"
         /\ Connection[waste].fromPort = WastePort(c)
         /\ Outflow[c][0] \in Conn /\ Outflow[c][0] \in Outflows(c)
         /\ Connection[Outflow[c][0]].fromPort = 0
         /\ Outflow[c][0] # waste
<1> DEFINE waste == Outflow[c][WastePort(c)]
<1>1. HasOutflow(c, WastePort(c)) /\ HasOutflow(c, 0)
  BY KnownKind DEF WellConnected
<1>2. /\ waste \in Conn /\ Connection[waste].from = c
      /\ Connection[waste].fromPort = WastePort(c)
      /\ Outflow[c][0] \in Conn /\ Connection[Outflow[c][0]].from = c
      /\ Connection[Outflow[c][0]].fromPort = 0
  BY <1>1, OutflowType
<1>3. WastePort(c) # 0
  BY DEF WastePort
<1>4. Part[Connection[waste].to].kind = "WasteSink"
  BY <1>2 DEF WasteIsDisposedOf
<1> QED
  BY <1>2, <1>3, <1>4 DEF Outflows

LEMMA LossEnd ==
  ASSUME NEW c \in Comp, Part[c].kind = "Converter", HasOutflow(c, LossPort(c))
  PROVE  LET loss == Outflow[c][LossPort(c)] IN
         /\ loss \in Conn /\ loss \in Outflows(c)
         /\ loss # Outflow[c][0] /\ loss # Outflow[c][WastePort(c)]
<1>1. HasOutflow(c, 0) /\ HasOutflow(c, WastePort(c))
  BY KnownKind DEF WellConnected
<1>2. LossPort(c) = 1 /\ WastePort(c) = 2
  BY DEF LossPort, WastePort
<1> QED
  BY <1>1, <1>2, OutflowType DEF Outflows

LEMMA EnvironmentEnd ==
  ASSUME MoversAreFed, NEW c \in Comp, Part[c].kind = "Mover"
  PROVE  LET env == Inflow[c][EnvironmentPort] IN
         /\ env \in Conn /\ env \in Inflows(c)
         /\ Part[Connection[env].from].kind = "EnvironmentSource"
         /\ env # Inflow[c][0]
         /\ env \notin Outflows(c)
<1> DEFINE env == Inflow[c][EnvironmentPort]
<1>1. HasInflow(c, EnvironmentPort) /\ HasInflow(c, 0)
  BY KnownKind DEF WellConnected
<1>2. /\ env \in Conn /\ Connection[env].to = c
      /\ Connection[env].toPort = 1 /\ Connection[Inflow[c][0]].toPort = 0
  BY <1>1, InflowType DEF EnvironmentPort
<1>3. env # Inflow[c][0]
  BY <1>2
<1>4. Part[Connection[env].from].kind = "EnvironmentSource"
  BY <1>2, <1>3 DEF MoversAreFed
<1> QED
  BY <1>2, <1>3, <1>4 DEF Inflows, Outflows

LEMMA MuxEnds ==
  ASSUME NEW c \in Comp, Part[c].kind = "Mux"
  PROVE  /\ \A p \in InPorts(c) : /\ Inflow[c][p] \in Conn
                                  /\ Inflow[c][p] \in Inflows(c)
                                  /\ Inflow[c][p] \in MuxIns(c)
                                  /\ Connection[Inflow[c][p]].toPort = p
         /\ \A p \in OutPorts(c) : /\ Outflow[c][p] \in Conn
                                   /\ Outflow[c][p] \in Outflows(c)
                                   /\ Outflow[c][p] \in MuxOuts(c)
                                   /\ Connection[Outflow[c][p]].fromPort = p
         /\ MuxIns(c) \subseteq Inflows(c) /\ MuxIns(c) \subseteq Conn
         /\ MuxOuts(c) \subseteq Outflows(c) /\ MuxOuts(c) \subseteq Conn
<1>1. \A p \in InPorts(c) : /\ Inflow[c][p] \in Conn
                            /\ Inflow[c][p] \in Inflows(c)
                            /\ Connection[Inflow[c][p]].toPort = p
  BY MuxParts, InflowType DEF Inflows
<1>2. \A p \in OutPorts(c) : /\ Outflow[c][p] \in Conn
                             /\ Outflow[c][p] \in Outflows(c)
                             /\ Connection[Outflow[c][p]].fromPort = p
  BY MuxParts, OutflowType DEF Outflows
<1> QED
  BY <1>1, <1>2 DEF MuxIns, MuxOuts, MuxDemands

(* The domains of what a mux asks for and offers.                          *)
LEMMA MuxDomains ==
  ASSUME NEW s, NEW c
  PROVE  DOMAIN MuxDemands(s, c) = MuxIns(c) /\ DOMAIN MuxOffers(s, c) = MuxOuts(c)
  BY DEF MuxDemands, MuxOffers, MuxIns, MuxOuts

-----------------------------------------------------------------------------
(* What a mux asks for depends on what its outflows request and, when it   *)
(* has several inflows, on what those offer; and conversely.               *)

LEMMA MuxDemandsDependOn ==
  ASSUME NEW s \in State, NEW r \in State, NEW c \in Comp, Part[c].kind = "Mux",
         \A k \in MuxOuts(c) : r.req[k] = s.req[k],
         Part[c].inports = 1 \/ \A k \in MuxIns(c) : r.avail[k] = s.avail[k]
  PROVE  MuxDemands(r, c) = MuxDemands(s, c)
<1>1. MuxRequests(r, c) = MuxRequests(s, c)
  <2>1. \A i \in 1 .. Part[c].outports : i - 1 \in OutPorts(c)
    BY MuxParts DEF OutPorts
  <2>2. \A i \in 1 .. Part[c].outports :
          r.req[Outflow[c][i - 1]] = s.req[Outflow[c][i - 1]]
    BY <2>1, MuxEnds
  <2> QED
    BY <2>2 DEF MuxRequests
<1> DEFINE total == SafeTotal(MuxRequests(s, c), Part[c].outports)
<1>2. \A q \in {s, r} :
        MuxDemands(q, c) = [k \in MuxIns(c) |->
           LeftAfter(MuxSupplies(q, c), total, Connection[k].toPort)]
  BY <1>1 DEF MuxDemands, MuxIns
<1> HIDE DEF total
<1>3. CASE \A k \in MuxIns(c) : r.avail[k] = s.avail[k]
  <2>1. \A i \in 1 .. Part[c].inports : i - 1 \in InPorts(c)
    BY MuxParts DEF InPorts
  <2>2. \A i \in 1 .. Part[c].inports :
          r.avail[Inflow[c][i - 1]] = s.avail[Inflow[c][i - 1]]
    BY <1>3, <2>1, MuxEnds
  <2>3. MuxSupplies(r, c) = MuxSupplies(s, c)
    BY <2>2 DEF MuxSupplies
  <2> QED
    BY <1>2, <2>3
<1>4. CASE Part[c].inports = 1
  <2>1. \A k \in MuxIns(c) : Connection[k].toPort = 0
    BY <1>4, MuxEnds DEF MuxIns, InPorts
  <2>2. \A flows : Prefix(flows, 0) = 0
    BY PrefixStep
  <2>3. \A q \in {s, r} : \A k \in MuxIns(c) :
          LeftAfter(MuxSupplies(q, c), total, Connection[k].toPort) = Monus(total, 0)
    BY <2>1, <2>2 DEF LeftAfter
  <2> QED
    BY <1>2, <2>3
<1> QED
  BY <1>3, <1>4

(* A single outflow is offered all there is, up to its limit.              *)
LEMMA OnlyOutflowIsOffered ==
  ASSUME NEW s \in State, NEW c \in Comp, Part[c].kind = "Mux",
         Part[c].outports = 1
  PROVE  MuxOffers(s, c) =
           [k \in MuxOuts(c) |->
              AtMost(SafeTotal(MuxSupplies(s, c), Part[c].inports),
                     Part[c].maxOutflows[1])]
<1> DEFINE wanted == MuxRequests(s, c)
           limit  == Part[c].maxOutflows
           total  == SafeTotal(MuxSupplies(s, c), Part[c].inports)
           served == [i \in 1 .. 1 |-> Given(wanted, total, i)]
           room   == [i \in 1 .. 1 |-> limit[i] - served[i]]
           left   == LeftAfter(wanted, total, 1)
<1>1. MuxOffers(s, c) = [k \in MuxOuts(c) |->
                           LET n == Connection[k].fromPort + 1
                           IN  served[n] + Given(room, left, n)]
  BY DEF MuxOffers, MuxOuts
<1>2. \A k \in MuxOuts(c) : Connection[k].fromPort + 1 = 1
  BY MuxEnds DEF MuxOuts, OutPorts
<1>3. total \in Nat /\ wanted[1] \in Nat /\ limit[1] \in Nat /\ wanted[1] <= limit[1]
  <2>1. total \in Nat
    BY MuxTerms, MuxParts, SafeTotalFlow, FlowIsNat
  <2>2. 1 \in 1 .. Part[c].outports
    OBVIOUS
  <2>3. wanted[1] \in Flow /\ wanted[1] <= limit[1] /\ limit[1] \in Flow
    BY <2>2, MuxTerms, MuxParts
  <2> HIDE DEF total, wanted, limit
  <2> QED
    BY <2>1, <2>3, FlowIsNat
<1> HIDE DEF total, wanted, limit
<1>4. \A flows : Prefix(flows, 0) = 0
  BY PrefixStep
<1>5. Prefix(wanted, 1) = wanted[1]
  <2>1. \A i \in 1 .. 1 : wanted[i] \in Nat
    BY <1>3
  <2>2. Prefix(wanted, 0 + 1) = Prefix(wanted, 0) + wanted[0 + 1]
    BY <2>1, PrefixStep
  <2> QED
    BY <1>3, <1>4, <2>2
<1>6. served[1] = AtMost(wanted[1], total)
  BY <1>3, <1>4 DEF Given, LeftAfter, Monus
<1>7. left = Monus(total, wanted[1])
  BY <1>5 DEF LeftAfter
<1>8. room[1] = limit[1] - AtMost(wanted[1], total)
  BY <1>6
<1> HIDE DEF served, left, room
<1>9. Given(room, left, 1) = AtMost(room[1], left)
  <2>1. left \in Nat
    BY <1>3, <1>7 DEF Monus
  <2> QED
    BY <1>4, <2>1 DEF Given, LeftAfter, Monus
<1>10. served[1] + Given(room, left, 1) = AtMost(total, limit[1])
  BY <1>3, <1>6, <1>7, <1>8, <1>9 DEF AtMost, Monus
<1> QED
  BY <1>1, <1>2, <1>10 DEF total, limit

LEMMA MuxOffersDependOn ==
  ASSUME NEW s \in State, NEW r \in State, NEW c \in Comp, Part[c].kind = "Mux",
         \A k \in MuxIns(c) : r.avail[k] = s.avail[k],
         Part[c].outports = 1 \/ \A k \in MuxOuts(c) : r.req[k] = s.req[k]
  PROVE  MuxOffers(r, c) = MuxOffers(s, c)
<1>1. MuxSupplies(r, c) = MuxSupplies(s, c)
  <2>1. \A i \in 1 .. Part[c].inports : i - 1 \in InPorts(c)
    BY MuxParts DEF InPorts
  <2>2. \A i \in 1 .. Part[c].inports :
          r.avail[Inflow[c][i - 1]] = s.avail[Inflow[c][i - 1]]
    BY <2>1, MuxEnds
  <2> QED
    BY <2>2 DEF MuxSupplies
<1>2. CASE Part[c].outports = 1
  BY <1>1, <1>2, OnlyOutflowIsOffered
<1>3. CASE \A k \in MuxOuts(c) : r.req[k] = s.req[k]
  <2>1. \A i \in 1 .. Part[c].outports : i - 1 \in OutPorts(c)
    BY MuxParts DEF OutPorts
  <2>2. \A i \in 1 .. Part[c].outports :
          r.req[Outflow[c][i - 1]] = s.req[Outflow[c][i - 1]]
    BY <1>3, <2>1, MuxEnds
  <2>3. MuxRequests(r, c) = MuxRequests(s, c)
    BY <2>2 DEF MuxRequests
  <2> QED
    BY <1>1, <2>3 DEF MuxOffers
<1> QED
  BY <1>2, <1>3

-----------------------------------------------------------------------------
(* Whoever has been told of what its neighbours did is still right, or is  *)
(* scheduled.                                                              *)

LEMMA ToldOfRequests ==
  ASSUME NEW s \in State, NEW r \in State, NEW d \in Comp, HasBeenTold(d, s, r),
         AsksRight(s, d)
  PROVE  AsksRight(r, d) \/ Awaits(AskBack(d), AskFront(d), r.back, r.front)
<1>1. CASE Part[d].kind \in {"PassThrough", "Converter", "Mover"}
  <2> DEFINE in == Inflow[d][0]
             out == Outflow[d][0]
  <2>1. in \in Inflows(d) /\ out \in Outflows(d)
    BY <1>1, FirstEnds
  <2>2. r.req[in] = s.req[in] /\ (r.req[out] = s.req[out] \/ out \in r.back)
    BY <2>1 DEF HasBeenTold
  <2>3. AskBack(d) = {out}
    BY <1>1 DEF AskBack
  <2>4. CASE out \in r.back
    BY <2>3, <2>4 DEF Awaits
  <2>5. CASE r.req[out] = s.req[out]
    BY <1>1, <2>2, <2>5 DEF AsksRight, Needed, Wanted
  <2> QED
    BY <2>2, <2>4, <2>5
<1>2. CASE Part[d].kind = "Mux"
  <2>1. \A k \in MuxIns(d) : /\ r.req[k] = s.req[k]
                             /\ r.avail[k] = s.avail[k] \/ k \in r.front
    BY <1>2, MuxEnds DEF HasBeenTold
  <2>2. \A k \in MuxOuts(d) : r.req[k] = s.req[k] \/ k \in r.back
    BY <1>2, MuxEnds DEF HasBeenTold
  <2>3. AskBack(d) = MuxOuts(d)
    BY <1>2 DEF AskBack
  <2>4. Part[d].inports = 1 \/ AskFront(d) = MuxIns(d)
    BY <1>2, MuxParts DEF AskFront
  <2>5. CASE MuxOuts(d) \cap r.back # {}
    BY <2>3, <2>5 DEF Awaits
  <2>6. CASE Part[d].inports # 1 /\ MuxIns(d) \cap r.front # {}
    BY <2>4, <2>6 DEF Awaits
  <2>7. CASE /\ MuxOuts(d) \cap r.back = {}
             /\ Part[d].inports = 1 \/ MuxIns(d) \cap r.front = {}
    <3>1. MuxDemands(r, d) = MuxDemands(s, d)
      BY <1>2, <2>1, <2>2, <2>7, MuxDemandsDependOn
    <3> QED
      BY <1>2, <2>1, <3>1, MuxDomains DEF AsksRight
  <2> QED
    BY <2>5, <2>6, <2>7
<1>3. CASE Part[d].kind \notin {"PassThrough", "Converter", "Mover", "Mux"}
  BY <1>3 DEF AsksRight
<1> QED
  BY <1>1, <1>2, <1>3

LEMMA ToldOfSupplies ==
  ASSUME NEW sch, NEW s \in State, NEW r \in State, NEW d \in Comp,
         HasBeenTold(d, s, r), OffersRight(sch, s, d)
  PROVE  OffersRight(sch, r, d) \/ Awaits(OfferBack(d), OfferFront(d), r.back, r.front)
<1>1. CASE Part[d].kind \in {"PassThrough", "Converter", "Mover"}
  <2> DEFINE in == Inflow[d][0]
             out == Outflow[d][0]
  <2>1. in \in Inflows(d) /\ out \in Outflows(d)
    BY <1>1, FirstEnds
  <2>2. r.avail[out] = s.avail[out] /\ (r.avail[in] = s.avail[in] \/ in \in r.front)
    BY <2>1 DEF HasBeenTold
  <2>3. OfferFront(d) = {in}
    BY <1>1 DEF OfferFront
  <2>4. CASE in \in r.front
    BY <2>3, <2>4 DEF Awaits
  <2>5. CASE r.avail[in] = s.avail[in]
    BY <1>1, <2>2, <2>5 DEF OffersRight, Made
  <2> QED
    BY <2>2, <2>4, <2>5
<1>2. CASE Part[d].kind = "Mux"
  <2>1. \A k \in MuxOuts(d) : /\ r.avail[k] = s.avail[k]
                              /\ r.req[k] = s.req[k] \/ k \in r.back
    BY <1>2, MuxEnds DEF HasBeenTold
  <2>2. \A k \in MuxIns(d) : r.avail[k] = s.avail[k] \/ k \in r.front
    BY <1>2, MuxEnds DEF HasBeenTold
  <2>3. OfferFront(d) = MuxIns(d)
    BY <1>2 DEF OfferFront
  <2>4. Part[d].outports = 1 \/ OfferBack(d) = MuxOuts(d)
    BY <1>2, MuxParts DEF OfferBack
  <2>5. CASE MuxIns(d) \cap r.front # {}
    BY <2>3, <2>5 DEF Awaits
  <2>6. CASE Part[d].outports # 1 /\ MuxOuts(d) \cap r.back # {}
    BY <2>4, <2>6 DEF Awaits
  <2>7. CASE /\ MuxIns(d) \cap r.front = {}
             /\ Part[d].outports = 1 \/ MuxOuts(d) \cap r.back = {}
    <3>1. MuxOffers(r, d) = MuxOffers(s, d)
      BY <1>2, <2>1, <2>2, <2>7, MuxOffersDependOn
    <3> QED
      BY <1>2, <2>1, <3>1, MuxDomains DEF OffersRight
  <2> QED
    BY <2>5, <2>6, <2>7
<1>3. CASE Part[d].kind = "ScheduleBasedSource"
  <2>1. Outflow[d][0] \in Outflows(d)
    BY <1>3, KnownKind, OutflowType DEF WellConnected, Outflows
  <2> QED
    BY <1>3, <2>1 DEF OffersRight, Supplied, HasBeenTold
<1>4. CASE Part[d].kind \notin {"PassThrough", "Converter", "Mover", "Mux",
                               "ScheduleBasedSource"}
  BY <1>4 DEF OffersRight
<1> QED
  BY <1>1, <1>2, <1>3, <1>4

LEMMA ToldOfSpills ==
  ASSUME WasteIsDisposedOf, MoversAreFed,
         NEW sch, NEW s \in State, NEW r \in State, NEW d \in Comp,
         HasBeenTold(d, s, r), SpillsRight(sch, s, d)
  PROVE  SpillsRight(sch, r, d) \/ Awaits(SpillBack(d), SpillFront(d), r.back, r.front)
<1> DEFINE in    == Inflow[d][0]
           out   == Outflow[d][0]
           waste == Outflow[d][WastePort(d)]
<1>1. Part[d].kind \in {"ScheduleBasedSource", "Converter", "Mover"} =>
        /\ r.req[waste] = s.req[waste] /\ r.avail[waste] = s.avail[waste]
        /\ r.avail[out] = s.avail[out] /\ (r.req[out] = s.req[out] \/ out \in r.back)
  BY WasteEnd DEF HasBeenTold
<1>2. Part[d].kind \in {"Converter", "Mover"} =>
        r.req[in] = s.req[in] /\ (r.avail[in] = s.avail[in] \/ in \in r.front)
  BY FirstEnds DEF HasBeenTold
<1>3. CASE Part[d].kind = "Converter"
  <2>1. /\ SpillBack(d) = {out} \cup (IF HasOutflow(d, LossPort(d))
                                        THEN {Outflow[d][LossPort(d)]} ELSE {})
        /\ SpillFront(d) = {in}
    BY <1>3 DEF SpillBack, SpillFront
  <2>2. CASE out \in r.back \/ in \in r.front
    BY <2>1, <2>2 DEF Awaits
  <2>3. CASE r.req[out] = s.req[out] /\ r.avail[in] = s.avail[in]
    <3>1. Taken(r, d) = Taken(s, d) /\ PutOut(r, d) = PutOut(s, d)
      BY <1>1, <1>2, <1>3, <2>3 DEF Taken, PutOut
    <3>2. CASE HasOutflow(d, LossPort(d))
      <4> DEFINE loss == Outflow[d][LossPort(d)]
      <4>1. r.avail[loss] = s.avail[loss] /\ (r.req[loss] = s.req[loss] \/ loss \in r.back)
        BY <1>3, <3>2, LossEnd DEF HasBeenTold
      <4>2. CASE loss \in r.back
        BY <2>1, <3>2, <4>2 DEF Awaits
      <4>3. CASE r.req[loss] = s.req[loss]
        BY <1>1, <1>3, <3>1, <3>2, <4>1, <4>3
           DEF SpillsRight, ConverterSpillsRight, LossTaken, Carries
      <4> QED
        BY <4>1, <4>2, <4>3
    <3>3. CASE ~ HasOutflow(d, LossPort(d))
      BY <1>1, <1>3, <3>1, <3>3 DEF SpillsRight, ConverterSpillsRight, Carries
    <3> QED
      BY <3>2, <3>3
  <2> QED
    BY <1>1, <1>2, <1>3, <2>2, <2>3
<1>4. CASE Part[d].kind = "Mover"
  <2> DEFINE env == Inflow[d][EnvironmentPort]
  <2>1. SpillBack(d) = {out} /\ SpillFront(d) = {in}
    BY <1>4 DEF SpillBack, SpillFront
  <2>2. CASE out \in r.back \/ in \in r.front
    BY <2>1, <2>2 DEF Awaits
  <2>3. CASE r.req[out] = s.req[out] /\ r.avail[in] = s.avail[in]
    <3>1. Taken(r, d) = Taken(s, d) /\ PutOut(r, d) = PutOut(s, d)
      BY <1>1, <1>2, <1>4, <2>3 DEF Taken, PutOut
    <3>2. r.req[env] = s.req[env] /\ r.avail[env] = s.avail[env]
      BY <1>4, EnvironmentEnd DEF HasBeenTold
    <3> QED
      BY <1>1, <1>4, <3>1, <3>2 DEF SpillsRight, MoverSpillsRight, Carries
  <2> QED
    BY <1>1, <1>2, <1>4, <2>2, <2>3
<1>5. CASE Part[d].kind = "ScheduleBasedSource"
  <2>1. SpillBack(d) = {out}
    BY <1>5 DEF SpillBack
  <2>2. CASE out \in r.back
    BY <2>1, <2>2 DEF Awaits
  <2>3. CASE r.req[out] = s.req[out]
    <3>1. Supplied(sch, r, d) = Supplied(sch, s, d)
      BY DEF Supplied, HasBeenTold
    <3> QED
      BY <1>1, <1>5, <2>3, <3>1 DEF SpillsRight, SourceSpillsRight, Carries
  <2> QED
    BY <1>1, <1>5, <2>2, <2>3
<1>6. CASE Part[d].kind \notin {"Converter", "Mover", "ScheduleBasedSource"}
  BY <1>6 DEF SpillsRight
<1> QED
  BY <1>3, <1>4, <1>5, <1>6

LEMMA OthersSee ==
  ASSUME EveryChangeIsTold, NEW sch, NEW s \in State, NEW r \in State, NEW c,
         ActsFor(c, s, r), NEW d \in Comp, d # c
  PROVE  Sees(sch, d, s, r, {}, {})
<1>1. WasteIsDisposedOf /\ MoversAreFed
  BY DEF EveryChangeIsTold
<1>2. CASE Part[d].kind \notin Passive
  <2>1. HasBeenTold(d, s, r)
    BY <1>2, OthersHaveBeenTold
  <2>2. \A back, front : ~ Awaits(back, front, {}, {})
    BY DEF Awaits
  <2> QED
    BY <1>1, <2>1, <2>2, ToldOfRequests, ToldOfSupplies, ToldOfSpills DEF Sees
<1>3. CASE Part[d].kind \in Passive
  BY <1>3 DEF Sees, AsksRight, OffersRight, SpillsRight, Passive
<1> QED
  BY <1>2, <1>3

-----------------------------------------------------------------------------
(* The idioms of the handlers, connection by connection.                   *)

LEMMA RequestGives ==
  ASSUME NEW s \in State, NEW k \in Conn, NEW v
  PROVE  LET r == Request(s, k, v) IN
         /\ \A j \in Conn : r.req[j] = IF j = k THEN v ELSE s.req[j]
         /\ s.req[k] # v => k \in r.back
         /\ s.back \subseteq r.back /\ r.back \subseteq s.back \cup {k}
         /\ r.avail = s.avail /\ r.front = s.front
         /\ r.srcIdx = s.srcIdx /\ r.down = s.down
  BY DEF Request, State

LEMMA OfferGives ==
  ASSUME NEW s \in State, NEW k \in Conn, NEW v
  PROVE  LET r == Offer(s, k, v) IN
         /\ \A j \in Conn : r.avail[j] = IF j = k THEN v ELSE s.avail[j]
         /\ s.avail[k] # v => k \in r.front
         /\ s.front \subseteq r.front /\ r.front \subseteq s.front \cup {k}
         /\ r.req = s.req /\ r.back = s.back
         /\ r.srcIdx = s.srcIdx /\ r.down = s.down
  BY DEF Offer, State

LEMMA SpillGives ==
  ASSUME NEW s \in State, NEW k \in Conn, NEW v
  PROVE  LET r == Spill(s, k, v) IN
         /\ \A j \in Conn : /\ r.req[j] = IF j = k THEN v ELSE s.req[j]
                            /\ r.avail[j] = IF j = k THEN v ELSE s.avail[j]
         /\ r.back = s.back /\ r.front = s.front
         /\ r.srcIdx = s.srcIdx /\ r.down = s.down
  BY DEF Spill, State

LEMMA RequestEachGives ==
  ASSUME NEW s \in State, NEW f
  PROVE  LET r == RequestEach(s, f) IN
         /\ \A j \in Conn : r.req[j] = IF j \in DOMAIN f THEN f[j] ELSE s.req[j]
         /\ \A k \in DOMAIN f : s.req[k] # f[k] => k \in r.back
         /\ s.back \subseteq r.back
         /\ r.avail = s.avail /\ r.front = s.front
         /\ r.srcIdx = s.srcIdx /\ r.down = s.down
  BY DEF RequestEach, State

LEMMA OfferEachGives ==
  ASSUME NEW s \in State, NEW f
  PROVE  LET r == OfferEach(s, f) IN
         /\ \A j \in Conn : r.avail[j] = IF j \in DOMAIN f THEN f[j] ELSE s.avail[j]
         /\ \A k \in DOMAIN f : s.avail[k] # f[k] => k \in r.front
         /\ s.front \subseteq r.front /\ r.front \subseteq s.front \cup DOMAIN f
         /\ r.req = s.req /\ r.back = s.back
         /\ r.srcIdx = s.srcIdx /\ r.down = s.down
  BY DEF OfferEach, State

-----------------------------------------------------------------------------
(* Each of them is something a component may do.                           *)

LEMMA NothingActs ==
  ASSUME NEW c, NEW s, NEW r, r.req = s.req, r.avail = s.avail,
         r.back = s.back, r.front = s.front, r.srcIdx = s.srcIdx
  PROVE  ActsFor(c, s, r)
  BY DEF ActsFor

LEMMA RequestActs ==
  ASSUME NEW s \in State, NEW c, Part[c].kind \notin Passive,
         NEW k \in Conn, Connection[k].to = c, NEW v
  PROVE  ActsFor(c, s, Request(s, k, v))
<1> DEFINE r == Request(s, k, v)
<1>1. /\ \A j \in Conn : r.req[j] = IF j = k THEN v ELSE s.req[j]
      /\ s.req[k] # v => k \in r.back
      /\ s.back \subseteq r.back
      /\ r.avail = s.avail /\ r.front = s.front /\ r.srcIdx = s.srcIdx
  BY RequestGives
<1> HIDE DEF r
<1> QED
  BY <1>1 DEF ActsFor, r

LEMMA OfferActs ==
  ASSUME NEW s \in State, NEW c, Part[c].kind \notin Passive,
         NEW k \in Conn, Connection[k].from = c, NEW v
  PROVE  ActsFor(c, s, Offer(s, k, v))
<1> DEFINE r == Offer(s, k, v)
<1>1. /\ \A j \in Conn : r.avail[j] = IF j = k THEN v ELSE s.avail[j]
      /\ s.avail[k] # v => k \in r.front
      /\ s.front \subseteq r.front /\ r.front \subseteq s.front \cup {k}
      /\ r.req = s.req /\ r.back = s.back /\ r.srcIdx = s.srcIdx
  BY OfferGives
<1> HIDE DEF r
<1> QED
  BY <1>1 DEF ActsFor, r

LEMMA SpillActs ==
  ASSUME NEW s \in State, NEW c, Part[c].kind \notin Passive,
         NEW k \in Conn, Private(c, k), NEW v
  PROVE  ActsFor(c, s, Spill(s, k, v))
<1> DEFINE r == Spill(s, k, v)
<1>1. /\ \A j \in Conn : /\ r.req[j] = IF j = k THEN v ELSE s.req[j]
                         /\ r.avail[j] = IF j = k THEN v ELSE s.avail[j]
      /\ r.back = s.back /\ r.front = s.front /\ r.srcIdx = s.srcIdx
  BY SpillGives
<1> HIDE DEF r
<1> QED
  BY <1>1 DEF ActsFor, r

LEMMA RequestEachActs ==
  ASSUME NEW s \in State, NEW c, Part[c].kind \notin Passive,
         NEW f, DOMAIN f \subseteq Inflows(c)
  PROVE  ActsFor(c, s, RequestEach(s, f))
<1> DEFINE r == RequestEach(s, f)
<1>1. /\ \A j \in Conn : r.req[j] = IF j \in DOMAIN f THEN f[j] ELSE s.req[j]
      /\ \A k \in DOMAIN f : s.req[k] # f[k] => k \in r.back
      /\ s.back \subseteq r.back
      /\ r.avail = s.avail /\ r.front = s.front /\ r.srcIdx = s.srcIdx
  BY RequestEachGives
<1>2. \A k \in DOMAIN f : Connection[k].to = c
  BY DEF Inflows
<1> HIDE DEF r
<1> QED
  BY <1>1, <1>2 DEF ActsFor, r

LEMMA OfferEachActs ==
  ASSUME NEW s \in State, NEW c, Part[c].kind \notin Passive,
         NEW f, DOMAIN f \subseteq Outflows(c)
  PROVE  ActsFor(c, s, OfferEach(s, f))
<1> DEFINE r == OfferEach(s, f)
<1>1. /\ \A j \in Conn : r.avail[j] = IF j \in DOMAIN f THEN f[j] ELSE s.avail[j]
      /\ \A k \in DOMAIN f : s.avail[k] # f[k] => k \in r.front
      /\ s.front \subseteq r.front /\ r.front \subseteq s.front \cup DOMAIN f
      /\ r.req = s.req /\ r.back = s.back /\ r.srcIdx = s.srcIdx
  BY OfferEachGives
<1>2. \A k \in DOMAIN f : Connection[k].from = c
  BY DEF Outflows
<1> HIDE DEF r
<1> QED
  BY <1>1, <1>2 DEF ActsFor, r

(* Waste, and what is taken from the environment, concern nobody else.     *)
LEMMA WasteIsPrivate ==
  ASSUME WasteIsDisposedOf, NEW c \in Comp,
         Part[c].kind \in {"ScheduleBasedSource", "Converter", "Mover"}
  PROVE  Private(c, Outflow[c][WastePort(c)])
  BY WasteEnd DEF Private, Outflows

LEMMA EnvironmentIsPrivate ==
  ASSUME MoversAreFed, NEW c \in Comp, Part[c].kind = "Mover"
  PROVE  Private(c, Inflow[c][EnvironmentPort])
  BY EnvironmentEnd DEF Private, Inflows

(* A component without rules is never wrong.                               *)
LEMMA NothingToSee ==
  ASSUME NEW sch, NEW c, NEW s, NEW r, NEW B, NEW F,
         Part[c].kind \notin {"PassThrough", "Converter", "Mover", "Mux",
                              "ScheduleBasedSource"}
  PROVE  Sees(sch, c, s, r, B, F)
  BY DEF Sees, AsksRight, OffersRight, SpillsRight

-----------------------------------------------------------------------------
(* Converters and movers: after each request and each offer they settle    *)
(* what they spill.                                                        *)
AfterSpilling(s, c) ==
  IF Part[c].kind = "Converter" THEN UpdateConverterLossflowAndWasteflow(s, c)
  ELSE UpdateEnvironmentFlowForAllMovers(s, c)

(* It may be itself that the loss flows back to.                           *)
SpillsSeen(sch, c, s, r) ==
  /\ r \in State
  /\ ActsFor(c, s, r)
  /\ SpillsRight(sch, r, c) \/ Inflow[c][0] \in r.front
  /\ AsksRight(s, c) => AsksRight(r, c)
  /\ OffersRight(sch, s, c) => OffersRight(sch, r, c) \/ Inflow[c][0] \in r.front

LEMMA ConversionTerms ==
  ASSUME NEW s \in State, NEW c \in Comp, Part[c].kind \in {"Converter", "Mover"}
  PROVE  /\ Taken(s, c) \in Flow /\ PutOut(s, c) \in Flow
         /\ Monus(Taken(s, c), PutOut(s, c)) \in Flow
         /\ Monus(PutOut(s, c), Taken(s, c)) \in Flow
<1>1. Taken(s, c) \in Flow
  BY FirstEnds, FlowsOfState, FinalizeFlowValueFlow DEF Taken
<1>2. PutOut(s, c) \in Flow
  BY FirstEnds, ConversionParts, LimitedOutflow DEF PutOut
<1> QED
  BY <1>1, <1>2, MonusFlow, FlowIsNat

(* What is enough for the rules about the inflow and the outflow.          *)
LEMMA ConversionRulesKept ==
  ASSUME NEW sch, NEW c \in Comp, Part[c].kind \in {"Converter", "Mover"},
         NEW s \in State, NEW r \in State,
         r.req[Inflow[c][0]] = s.req[Inflow[c][0]],
         r.req[Outflow[c][0]] = s.req[Outflow[c][0]],
         r.avail[Outflow[c][0]] = s.avail[Outflow[c][0]]
  PROVE  /\ AsksRight(s, c) => AsksRight(r, c)
         /\ r.avail[Inflow[c][0]] = s.avail[Inflow[c][0]] =>
              /\ OffersRight(sch, s, c) => OffersRight(sch, r, c)
              /\ Taken(r, c) = Taken(s, c) /\ PutOut(r, c) = PutOut(s, c)
  BY DEF AsksRight, OffersRight, Needed, Wanted, Made, Taken, PutOut

LEMMA ConverterSpillsSeen ==
  ASSUME WasteIsDisposedOf, NEW sch, NEW s \in State, NEW c \in Comp,
         Part[c].kind = "Converter"
  PROVE  SpillsSeen(sch, c, s, UpdateConverterLossflowAndWasteflow(s, c))
<1> DEFINE r     == UpdateConverterLossflowAndWasteflow(s, c)
           in    == Inflow[c][0]
           out   == Outflow[c][0]
           loss  == Outflow[c][LossPort(c)]
           waste == Outflow[c][WastePort(c)]
           rest  == Monus(Taken(s, c), PutOut(s, c))
           q     == Offer(s, loss, AtMost(rest, Part[c].maxLossflow))
           left  == Monus(rest, LossTaken(s, c, loss))
<1>1. r \in State
  BY ConverterLossType DEF Handled
<1>2. /\ in \in Conn /\ out \in Conn /\ waste \in Conn
      /\ in # waste /\ out # waste
      /\ Private(c, waste) /\ Part[c].kind \notin Passive
  BY FirstEnds, WasteEnd, WasteIsPrivate DEF Inflows, Passive
<1>3. rest \in Flow
  BY ConversionTerms
<1>4. CASE HasOutflow(c, LossPort(c))
  <2>1. loss \in Conn /\ Connection[loss].from = c /\ loss # out /\ loss # waste
    BY <1>4, LossEnd DEF Outflows
  <2>2. AtMost(rest, Part[c].maxLossflow) \in Flow
    BY <1>3, ConversionParts, AtMostFlow, FlowIsNat
  <2>3. q \in State
    BY <2>1, <2>2, OfferType DEF Handled
  <2>4. r = Spill(q, waste, left)
    BY <1>4 DEF UpdateConverterLossflowAndWasteflow, Taken, PutOut
  <2>5. ActsFor(c, s, q)
    BY <1>2, <2>1, OfferActs
  <2>6. /\ \A j \in Conn : q.avail[j] = IF j = loss THEN AtMost(rest, Part[c].maxLossflow)
                                        ELSE s.avail[j]
        /\ s.avail[loss] # AtMost(rest, Part[c].maxLossflow) => loss \in q.front
        /\ q.req = s.req
    BY <2>1, OfferGives
  <2> HIDE DEF q, r, left, rest, in, out, loss, waste
  <2>7. ActsFor(c, s, r)
    BY <1>2, <2>3, <2>4, <2>5, SpillActs, ActsForTwice
  <2>8. /\ \A j \in Conn : /\ r.req[j] = IF j = waste THEN left ELSE q.req[j]
                           /\ r.avail[j] = IF j = waste THEN left ELSE q.avail[j]
        /\ r.front = q.front
    BY <1>2, <2>3, <2>4, SpillGives
  <2>9. /\ r.req[in] = s.req[in] /\ r.req[out] = s.req[out] /\ r.req[loss] = s.req[loss]
        /\ r.avail[out] = s.avail[out]
        /\ r.avail[loss] = AtMost(rest, Part[c].maxLossflow)
        /\ r.req[waste] = left /\ r.avail[waste] = left
    BY <1>2, <2>1, <2>6, <2>8
  <2>10. r.avail[in] = s.avail[in] \/ in \in r.front
    BY <1>2, <2>6, <2>8
  <2>11. CASE r.avail[in] = s.avail[in]
    <3>1. /\ AsksRight(s, c) => AsksRight(r, c)
          /\ OffersRight(sch, s, c) => OffersRight(sch, r, c)
          /\ Taken(r, c) = Taken(s, c) /\ PutOut(r, c) = PutOut(s, c)
      BY <1>1, <2>9, <2>11, ConversionRulesKept DEF in, out
    <3>2. LossTaken(r, c, loss) = LossTaken(s, c, loss)
      BY <2>9 DEF LossTaken
    <3>3. ConverterSpillsRight(r, c)
      BY <1>4, <2>9, <3>1, <3>2 DEF ConverterSpillsRight, Carries, rest, left, loss, waste
    <3> QED
      BY <1>1, <2>7, <3>1, <3>3 DEF SpillsSeen, SpillsRight, r
  <2>12. CASE in \in r.front
    <3>1. AsksRight(s, c) => AsksRight(r, c)
      BY <1>1, <2>9, ConversionRulesKept DEF in, out
    <3> QED
      BY <1>1, <2>7, <2>12, <3>1 DEF SpillsSeen, r, in
  <2> QED
    BY <2>10, <2>11, <2>12
<1>5. CASE ~ HasOutflow(c, LossPort(c))
  <2>1. r = Spill(s, waste, rest)
    BY <1>5 DEF UpdateConverterLossflowAndWasteflow, Taken, PutOut
  <2> HIDE DEF r, rest, in, out, waste
  <2>2. ActsFor(c, s, r)
    BY <1>2, <2>1, SpillActs
  <2>3. \A j \in Conn : /\ r.req[j] = IF j = waste THEN rest ELSE s.req[j]
                        /\ r.avail[j] = IF j = waste THEN rest ELSE s.avail[j]
    BY <1>2, <2>1, SpillGives
  <2>4. /\ r.req[in] = s.req[in] /\ r.req[out] = s.req[out]
        /\ r.avail[out] = s.avail[out] /\ r.avail[in] = s.avail[in]
        /\ r.req[waste] = rest /\ r.avail[waste] = rest
    BY <1>2, <2>3
  <2>5. /\ AsksRight(s, c) => AsksRight(r, c)
        /\ OffersRight(sch, s, c) => OffersRight(sch, r, c)
        /\ Taken(r, c) = Taken(s, c) /\ PutOut(r, c) = PutOut(s, c)
    BY <1>1, <2>4, ConversionRulesKept DEF in, out
  <2>6. ConverterSpillsRight(r, c)
    BY <1>5, <2>4, <2>5 DEF ConverterSpillsRight, Carries, rest, waste
  <2> QED
    BY <1>1, <2>2, <2>5, <2>6 DEF SpillsSeen, SpillsRight, r
<1> QED
  BY <1>4, <1>5

LEMMA MoverSpillsSeen ==
  ASSUME WasteIsDisposedOf, MoversAreFed, NEW sch, NEW s \in State, NEW c \in Comp,
         Part[c].kind = "Mover"
  PROVE  SpillsSeen(sch, c, s, UpdateEnvironmentFlowForAllMovers(s, c))
<1> DEFINE r       == UpdateEnvironmentFlowForAllMovers(s, c)
           in      == Inflow[c][0]
           out     == Outflow[c][0]
           env     == Inflow[c][EnvironmentPort]
           waste   == Outflow[c][WastePort(c)]
           fromEnv == Monus(PutOut(s, c), Taken(s, c))
           wasted  == Monus(Taken(s, c), PutOut(s, c))
           taken   == Spill(s, env, fromEnv)
           spilled == Spill(taken, waste, wasted)
<1>1. r \in State
  BY MoverEnvironmentType DEF Handled
<1>2. /\ in \in Conn /\ out \in Conn /\ waste \in Conn /\ env \in Conn
      /\ in # waste /\ out # waste /\ env # in /\ env # out /\ env # waste
      /\ Private(c, waste) /\ Private(c, env) /\ Part[c].kind \notin Passive
  BY FirstEnds, WasteEnd, EnvironmentEnd, WasteIsPrivate, EnvironmentIsPrivate
     DEF Inflows, Passive
<1>3. fromEnv \in Flow /\ wasted \in Flow
  BY ConversionTerms
<1>4. r = [spilled EXCEPT !.actual[env] = fromEnv, !.actual[waste] = wasted]
  BY DEF UpdateEnvironmentFlowForAllMovers, Taken, PutOut
<1> HIDE DEF r, in, out, env, waste, fromEnv, wasted
<1>5. taken \in State /\ ActsFor(c, s, taken)
  BY <1>2, <1>3, SpillType, SpillActs DEF Handled
<1>6. \A j \in Conn : /\ taken.req[j] = IF j = env THEN fromEnv ELSE s.req[j]
                      /\ taken.avail[j] = IF j = env THEN fromEnv ELSE s.avail[j]
  BY <1>2, SpillGives
<1> HIDE DEF taken
<1>7. spilled \in State /\ ActsFor(c, taken, spilled)
  BY <1>2, <1>3, <1>5, SpillType, SpillActs DEF Handled
<1>8. \A j \in Conn : /\ spilled.req[j] = IF j = waste THEN wasted ELSE taken.req[j]
                      /\ spilled.avail[j] = IF j = waste THEN wasted ELSE taken.avail[j]
  BY <1>2, <1>5, SpillGives
<1> HIDE DEF spilled
<1>9. /\ r.req = spilled.req /\ r.avail = spilled.avail /\ r.srcIdx = spilled.srcIdx
      /\ r.back = spilled.back /\ r.front = spilled.front
  BY <1>4, <1>7 DEF State
<1>10. ActsFor(c, s, r)
  <2>1. ActsFor(c, s, spilled)
    BY <1>5, <1>7, ActsForTwice
  <2>2. ActsFor(c, spilled, r)
    BY <1>9, NothingActs
  <2> QED
    BY <2>1, <2>2, ActsForTwice
<1>11. /\ r.req[in] = s.req[in] /\ r.req[out] = s.req[out]
       /\ r.avail[out] = s.avail[out] /\ r.avail[in] = s.avail[in]
       /\ r.req[waste] = wasted /\ r.avail[waste] = wasted
       /\ r.req[env] = fromEnv /\ r.avail[env] = fromEnv
  BY <1>2, <1>6, <1>8, <1>9
<1>12. /\ AsksRight(s, c) => AsksRight(r, c)
       /\ OffersRight(sch, s, c) => OffersRight(sch, r, c)
       /\ Taken(r, c) = Taken(s, c) /\ PutOut(r, c) = PutOut(s, c)
  BY <1>1, <1>11, ConversionRulesKept DEF in, out
<1>13. MoverSpillsRight(r, c)
  BY <1>11, <1>12 DEF MoverSpillsRight, Carries, fromEnv, wasted, env, waste
<1> QED
  BY <1>1, <1>10, <1>12, <1>13 DEF SpillsSeen, SpillsRight, r

LEMMA ConversionSpillsSeen ==
  ASSUME WasteIsDisposedOf, MoversAreFed, NEW sch, NEW s \in State, NEW c \in Comp,
         Part[c].kind \in {"Converter", "Mover"}
  PROVE  SpillsSeen(sch, c, s, AfterSpilling(s, c))
  BY ConverterSpillsSeen, MoverSpillsSeen DEF AfterSpilling

LEMMA ConversionAsks ==
  ASSUME WasteIsDisposedOf, MoversAreFed, NEW sch, NEW s \in State, NEW c \in Comp,
         Part[c].kind \in {"Converter", "Mover"}
  PROVE  LET r == AfterSpilling(Request(s, Inflow[c][0], Needed(s, c)), c) IN
         /\ r \in State /\ ActsFor(c, s, r)
         /\ AsksRight(r, c) \/ Outflow[c][0] \in r.back
         /\ OffersRight(sch, s, c) => OffersRight(sch, r, c) \/ Inflow[c][0] \in r.front
         /\ SpillsRight(sch, r, c) \/ Inflow[c][0] \in r.front
<1> DEFINE in  == Inflow[c][0]
           out == Outflow[c][0]
           q   == Request(s, in, Needed(s, c))
           r   == AfterSpilling(q, c)
<1>1. in \in Conn /\ out \in Conn /\ Connection[in].to = c /\ Part[c].kind \notin Passive
  BY FirstEnds DEF Inflows, Passive
<1>2. q \in State
  BY <1>1, ConversionFlow, RequestType DEF Handled, Needed
<1>3. ActsFor(c, s, q)
  BY <1>1, RequestActs
<1>4. /\ \A j \in Conn : q.req[j] = IF j = in THEN Needed(s, c) ELSE s.req[j]
      /\ s.req[in] # Needed(s, c) => in \in q.back
      /\ q.avail = s.avail
  BY <1>1, RequestGives
<1> HIDE DEF q, in, out
<1>5. AsksRight(q, c) \/ out \in q.back
  <2>1. CASE q.req[out] = s.req[out]
    <3>1. Needed(q, c) = Needed(s, c)
      BY <2>1 DEF Needed, Wanted, out
    <3> QED
      BY <1>1, <1>4, <3>1 DEF AsksRight, in
  <2>2. CASE q.req[out] # s.req[out]
    BY <1>1, <1>4, <2>2
  <2> QED
    BY <2>1, <2>2
<1>6. OffersRight(sch, s, c) => OffersRight(sch, q, c)
  BY <1>4 DEF OffersRight, Made
<1>7. SpillsSeen(sch, c, q, r)
  BY <1>2, ConversionSpillsSeen
<1> HIDE DEF r
<1>8. q.back \subseteq r.back
  BY <1>7 DEF SpillsSeen, ActsFor
<1>9. ActsFor(c, s, r)
  BY <1>3, <1>7, ActsForTwice DEF SpillsSeen
<1>10. r \in State /\ ActsFor(c, s, r)
       /\ (AsksRight(r, c) \/ out \in r.back)
       /\ (OffersRight(sch, s, c) => OffersRight(sch, r, c) \/ in \in r.front)
       /\ (SpillsRight(sch, r, c) \/ in \in r.front)
  BY <1>5, <1>6, <1>7, <1>8, <1>9 DEF SpillsSeen, in
<1> QED
  BY <1>10 DEF r, q, in, out

LEMMA ConversionOffers ==
  ASSUME WasteIsDisposedOf, MoversAreFed, NEW sch, NEW s \in State, NEW c \in Comp,
         Part[c].kind \in {"Converter", "Mover"}
  PROVE  LET r == AfterSpilling(Offer(s, Outflow[c][0], Made(s, c)), c) IN
         /\ r \in State /\ ActsFor(c, s, r)
         /\ AsksRight(s, c) => AsksRight(r, c)
         /\ OffersRight(sch, r, c) \/ Inflow[c][0] \in r.front
         /\ SpillsRight(sch, r, c) \/ Inflow[c][0] \in r.front
<1> DEFINE in  == Inflow[c][0]
           out == Outflow[c][0]
           q   == Offer(s, out, Made(s, c))
           r   == AfterSpilling(q, c)
<1>1. in \in Conn /\ out \in Conn /\ Connection[out].from = c /\ Part[c].kind \notin Passive
  BY FirstEnds DEF Outflows, Passive
<1>2. q \in State
  <2>1. Made(s, c) \in Flow
    BY ConversionFlow, ConversionParts, AtMostFlow, FlowIsNat DEF Made
  <2> QED
    BY <1>1, <2>1, OfferType DEF Handled
<1>3. ActsFor(c, s, q)
  BY <1>1, OfferActs
<1>4. /\ \A j \in Conn : q.avail[j] = IF j = out THEN Made(s, c) ELSE s.avail[j]
      /\ s.avail[out] # Made(s, c) => out \in q.front
      /\ q.req = s.req
  BY <1>1, OfferGives
<1> HIDE DEF q, in, out
<1>5. OffersRight(sch, q, c) \/ in \in q.front
  <2>1. CASE q.avail[in] = s.avail[in]
    <3>1. Made(q, c) = Made(s, c)
      BY <2>1 DEF Made, in
    <3> QED
      BY <1>1, <1>4, <3>1 DEF OffersRight, out
  <2>2. CASE q.avail[in] # s.avail[in]
    BY <1>1, <1>4, <2>2
  <2> QED
    BY <2>1, <2>2
<1>6. AsksRight(s, c) => AsksRight(q, c)
  BY <1>4 DEF AsksRight, Needed, Wanted
<1>7. SpillsSeen(sch, c, q, r)
  BY <1>2, ConversionSpillsSeen
<1> HIDE DEF r
<1>8. q.front \subseteq r.front
  BY <1>7 DEF SpillsSeen, ActsFor
<1>9. ActsFor(c, s, r)
  BY <1>3, <1>7, ActsForTwice DEF SpillsSeen
<1>10. r \in State /\ ActsFor(c, s, r)
       /\ (AsksRight(s, c) => AsksRight(r, c))
       /\ (OffersRight(sch, r, c) \/ in \in r.front)
       /\ (SpillsRight(sch, r, c) \/ in \in r.front)
  BY <1>5, <1>6, <1>7, <1>8, <1>9 DEF SpillsSeen, in
<1> QED
  BY <1>10 DEF r, q, in, out

(* The handlers in these terms.                                            *)
LEMMA ConversionHandlers ==
  ASSUME NEW s, NEW c, Part[c].kind \in {"Converter", "Mover"}
  PROVE  /\ Part[c].kind = "Converter" =>
              /\ RunConverterBackward(s, c) =
                   AfterSpilling(Request(s, Inflow[c][0], Needed(s, c)), c)
              /\ RunConverterForward(s, c) =
                   AfterSpilling(Offer(s, Outflow[c][0], Made(s, c)), c)
              /\ UpdateConverterLossflowAndWasteflow(s, c) = AfterSpilling(s, c)
         /\ Part[c].kind = "Mover" =>
              /\ RunMoverBackward(s, c) =
                   AfterSpilling(Request(s, Inflow[c][0], Needed(s, c)), c)
              /\ RunMoverForward(s, Inflow[c][0], c) =
                   AfterSpilling(Offer(s, Outflow[c][0], Made(s, c)), c)
              /\ UpdateEnvironmentFlowForAllMovers(s, c) = AfterSpilling(s, c)
  BY DEF AfterSpilling, RunConverterBackward, RunConverterForward, RunMoverBackward,
         RunMoverForward, Then, Needed, Wanted, Made

(* The connections at which converters and movers look again.              *)
LEMMA ConversionAwaits ==
  ASSUME NEW c, Part[c].kind \in {"Converter", "Mover"}
  PROVE  /\ AskBack(c) = {Outflow[c][0]} /\ AskFront(c) = {}
         /\ OfferBack(c) = {} /\ OfferFront(c) = {Inflow[c][0]}
         /\ SpillFront(c) = {Inflow[c][0]}
  BY DEF AskBack, AskFront, OfferBack, OfferFront, SpillFront

LEMMA ConversionSees ==
  ASSUME WasteIsDisposedOf, MoversAreFed, NEW sch, NEW s \in State, NEW c \in Comp,
         Part[c].kind \in {"Converter", "Mover"}, NEW k
  PROVE  LET asked   == AfterSpilling(Request(s, Inflow[c][0], Needed(s, c)), c)
             offered == AfterSpilling(Offer(s, Outflow[c][0], Made(s, c)), c)
         IN  /\ ActsFor(c, s, asked) /\ Sees(sch, c, s, asked, {k}, {})
             /\ ActsFor(c, s, offered) /\ Sees(sch, c, s, offered, {}, {k})
             /\ ActsFor(c, s, AfterSpilling(s, c))
             /\ k # Outflow[c][0] => Sees(sch, c, s, AfterSpilling(s, c), {k}, {})
<1> DEFINE asked   == AfterSpilling(Request(s, Inflow[c][0], Needed(s, c)), c)
           offered == AfterSpilling(Offer(s, Outflow[c][0], Made(s, c)), c)
           spilled == AfterSpilling(s, c)
<1>1. /\ ActsFor(c, s, asked)
      /\ AsksRight(asked, c) \/ Outflow[c][0] \in asked.back
      /\ OffersRight(sch, s, c) =>
           OffersRight(sch, asked, c) \/ Inflow[c][0] \in asked.front
      /\ SpillsRight(sch, asked, c) \/ Inflow[c][0] \in asked.front
  BY ConversionAsks
<1>2. /\ ActsFor(c, s, offered)
      /\ AsksRight(s, c) => AsksRight(offered, c)
      /\ OffersRight(sch, offered, c) \/ Inflow[c][0] \in offered.front
      /\ SpillsRight(sch, offered, c) \/ Inflow[c][0] \in offered.front
  BY ConversionOffers
<1>3. SpillsSeen(sch, c, s, spilled)
  BY ConversionSpillsSeen
<1> HIDE DEF asked, offered, spilled
<1>4. Sees(sch, c, s, asked, {k}, {})
  BY <1>1, ConversionAwaits DEF Sees, Awaits
<1>5. Sees(sch, c, s, offered, {}, {k})
  BY <1>2, ConversionAwaits DEF Sees, Awaits
<1>6. k # Outflow[c][0] => Sees(sch, c, s, spilled, {k}, {})
  BY <1>3, ConversionAwaits DEF Sees, Awaits, SpillsSeen
<1> QED
  BY <1>1, <1>2, <1>3, <1>4, <1>5, <1>6 DEF asked, offered, spilled, SpillsSeen

-----------------------------------------------------------------------------
(* Muxes.                                                                  *)

LEMMA MuxSees ==
  ASSUME NEW sch, NEW s \in State, NEW r \in State, NEW c \in Comp,
         Part[c].kind = "Mux", NEW B, NEW F, ActsFor(c, s, r),
         \A k \in MuxOuts(c) : r.req[k] # s.req[k] => k \in r.back,
         \A k \in MuxIns(c) : r.avail[k] # s.avail[k] => k \in r.front,
         \/ \A k \in MuxIns(c) : r.req[k] = MuxDemands(s, c)[k]
         \/ r.req = s.req /\ ~ Awaits(AskBack(c), AskFront(c), B, F),
         \/ \A k \in MuxOuts(c) : r.avail[k] = MuxOffers(s, c)[k]
         \/ r.avail = s.avail /\ ~ Awaits(OfferBack(c), OfferFront(c), B, F)
  PROVE  Sees(sch, c, s, r, B, F)
<1>1. /\ AskBack(c) = MuxOuts(c) /\ OfferFront(c) = MuxIns(c)
      /\ Part[c].inports = 1 \/ AskFront(c) = MuxIns(c)
      /\ Part[c].outports = 1 \/ OfferBack(c) = MuxOuts(c)
  BY MuxParts DEF AskBack, OfferFront, AskFront, OfferBack
<1>2. ASSUME \A k \in MuxIns(c) : r.req[k] = MuxDemands(s, c)[k]
      PROVE  AsksRight(r, c) \/ Awaits(AskBack(c), AskFront(c), r.back, r.front)
  <2>1. CASE MuxOuts(c) \cap r.back # {}
    BY <1>1, <2>1 DEF Awaits
  <2>2. CASE Part[c].inports # 1 /\ MuxIns(c) \cap r.front # {}
    BY <1>1, <2>2 DEF Awaits
  <2>3. CASE /\ MuxOuts(c) \cap r.back = {}
             /\ Part[c].inports = 1 \/ MuxIns(c) \cap r.front = {}
    <3>1. MuxDemands(r, c) = MuxDemands(s, c)
      BY <2>3, MuxDemandsDependOn
    <3> QED
      BY <1>2, <3>1, MuxDomains DEF AsksRight
  <2> QED
    BY <2>1, <2>2, <2>3
<1>3. ASSUME \A k \in MuxOuts(c) : r.avail[k] = MuxOffers(s, c)[k]
      PROVE  OffersRight(sch, r, c) \/ Awaits(OfferBack(c), OfferFront(c), r.back, r.front)
  <2>1. CASE MuxIns(c) \cap r.front # {}
    BY <1>1, <2>1 DEF Awaits
  <2>2. CASE Part[c].outports # 1 /\ MuxOuts(c) \cap r.back # {}
    BY <1>1, <2>2 DEF Awaits
  <2>3. CASE /\ MuxIns(c) \cap r.front = {}
             /\ Part[c].outports = 1 \/ MuxOuts(c) \cap r.back = {}
    <3>1. MuxOffers(r, c) = MuxOffers(s, c)
      BY <2>3, MuxOffersDependOn
    <3> QED
      BY <1>3, <3>1, MuxDomains DEF OffersRight
  <2> QED
    BY <2>1, <2>2, <2>3
<1>4. AsksRight(s, c) => \A k \in MuxIns(c) : s.req[k] = MuxDemands(s, c)[k]
  BY MuxDomains DEF AsksRight
<1>5. OffersRight(sch, s, c) => \A k \in MuxOuts(c) : s.avail[k] = MuxOffers(s, c)[k]
  BY MuxDomains DEF OffersRight
<1>6. SpillsRight(sch, r, c)
  BY DEF SpillsRight
<1> QED
  BY <1>2, <1>3, <1>4, <1>5, <1>6 DEF Sees

LEMMA MuxBackwardSees ==
  ASSUME NEW sch, NEW s \in State, NEW c \in Comp, Part[c].kind = "Mux",
         Part[c].outports = 1, NEW B
  PROVE  LET r == RunMuxBackward(s, c)
         IN  ActsFor(c, s, r) /\ Sees(sch, c, s, r, B, {})
<1> DEFINE r == RunMuxBackward(s, c)
<1>1. Part[c].kind \notin Passive /\ MuxIns(c) \subseteq Inflows(c)
      /\ MuxIns(c) \subseteq Conn /\ MuxOuts(c) \subseteq Conn
  BY MuxEnds DEF Passive
<1>2. r \in State
  BY MuxType DEF Handled
<1>3. ActsFor(c, s, r)
  BY <1>1, MuxDomains, RequestEachActs DEF RunMuxBackward
<1>4. /\ \A j \in Conn : r.req[j] = IF j \in MuxIns(c) THEN MuxDemands(s, c)[j]
                                    ELSE s.req[j]
      /\ \A k \in MuxIns(c) : s.req[k] # MuxDemands(s, c)[k] => k \in r.back
      /\ r.avail = s.avail
  BY MuxDomains, RequestEachGives DEF RunMuxBackward
<1> HIDE DEF r
<1>5. \A k \in MuxOuts(c) : r.req[k] # s.req[k] => k \in r.back
  BY <1>1, <1>4
<1>6. \A k \in MuxIns(c) : r.req[k] = MuxDemands(s, c)[k]
  BY <1>1, <1>4
<1>7. ~ Awaits(OfferBack(c), OfferFront(c), B, {})
  BY DEF OfferBack, Awaits
<1>8. Sees(sch, c, s, r, B, {})
  BY <1>2, <1>3, <1>4, <1>5, <1>6, <1>7, MuxSees
<1> QED
  BY <1>3, <1>8 DEF r

LEMMA MuxForwardSees ==
  ASSUME NEW sch, NEW s \in State, NEW c \in Comp, Part[c].kind = "Mux",
         Part[c].inports = 1, NEW F
  PROVE  LET r == RunMuxForward(s, c)
         IN  ActsFor(c, s, r) /\ Sees(sch, c, s, r, {}, F)
<1> DEFINE r == RunMuxForward(s, c)
<1>1. Part[c].kind \notin Passive /\ MuxOuts(c) \subseteq Outflows(c)
      /\ MuxIns(c) \subseteq Conn /\ MuxOuts(c) \subseteq Conn
  BY MuxEnds DEF Passive
<1>2. r \in State
  BY MuxType DEF Handled
<1>3. ActsFor(c, s, r)
  BY <1>1, MuxDomains, OfferEachActs DEF RunMuxForward
<1>4. /\ \A j \in Conn : r.avail[j] = IF j \in MuxOuts(c) THEN MuxOffers(s, c)[j]
                                      ELSE s.avail[j]
      /\ \A k \in MuxOuts(c) : s.avail[k] # MuxOffers(s, c)[k] => k \in r.front
      /\ r.req = s.req
  BY MuxDomains, OfferEachGives DEF RunMuxForward
<1> HIDE DEF r
<1>5. \A k \in MuxIns(c) : r.avail[k] # s.avail[k] => k \in r.front
  BY <1>1, <1>4
<1>6. \A k \in MuxOuts(c) : r.avail[k] = MuxOffers(s, c)[k]
  BY <1>1, <1>4
<1>7. ~ Awaits(AskBack(c), AskFront(c), {}, F)
  BY DEF AskFront, Awaits
<1>8. Sees(sch, c, s, r, {}, F)
  BY <1>2, <1>3, <1>4, <1>5, <1>6, <1>7, MuxSees
<1> QED
  BY <1>3, <1>8 DEF r

LEMMA MuxBothWaysSees ==
  ASSUME NEW sch, NEW s \in State, NEW c \in Comp, Part[c].kind = "Mux",
         NEW B, NEW F
  PROVE  LET r == RunMuxBothWays(s, c)
         IN  ActsFor(c, s, r) /\ Sees(sch, c, s, r, B, F)
<1> DEFINE q == RequestEach(s, MuxDemands(s, c))
           r == OfferEach(q, MuxOffers(s, c))
<1>1. /\ Part[c].kind \notin Passive
      /\ MuxIns(c) \subseteq Inflows(c) /\ MuxOuts(c) \subseteq Outflows(c)
      /\ MuxIns(c) \subseteq Conn /\ MuxOuts(c) \subseteq Conn
  BY MuxEnds DEF Passive
<1>2. q \in State /\ r = RunMuxBothWays(s, c) /\ r \in State
  BY MuxType DEF Handled, RunMuxBackward, RunMuxBothWays
<1>3. ActsFor(c, s, q)
  BY <1>1, MuxDomains, RequestEachActs
<1>4. /\ \A j \in Conn : q.req[j] = IF j \in MuxIns(c) THEN MuxDemands(s, c)[j]
                                    ELSE s.req[j]
      /\ \A k \in MuxIns(c) : s.req[k] # MuxDemands(s, c)[k] => k \in q.back
      /\ q.avail = s.avail
  BY MuxDomains, RequestEachGives
<1> HIDE DEF q
<1>5. ActsFor(c, q, r)
  BY <1>1, <1>2, MuxDomains, OfferEachActs
<1>6. /\ \A j \in Conn : r.avail[j] = IF j \in MuxOuts(c) THEN MuxOffers(s, c)[j]
                                      ELSE q.avail[j]
      /\ \A k \in MuxOuts(c) : q.avail[k] # MuxOffers(s, c)[k] => k \in r.front
      /\ r.req = q.req /\ r.back = q.back
  BY <1>2, MuxDomains, OfferEachGives
<1> HIDE DEF r
<1>7. ActsFor(c, s, r)
  BY <1>3, <1>5, ActsForTwice
<1>8. /\ \A k \in MuxOuts(c) : r.req[k] # s.req[k] => k \in r.back
      /\ \A k \in MuxIns(c) : r.avail[k] # s.avail[k] => k \in r.front
      /\ \A k \in MuxIns(c) : r.req[k] = MuxDemands(s, c)[k]
      /\ \A k \in MuxOuts(c) : r.avail[k] = MuxOffers(s, c)[k]
  BY <1>1, <1>4, <1>6
<1>9. Sees(sch, c, s, r, B, F)
  BY <1>2, <1>7, <1>8, MuxSees
<1> QED
  BY <1>2, <1>7, <1>9

-----------------------------------------------------------------------------
(* Pass-throughs, sources and stores.                                      *)

LEMMA PassThroughSees ==
  ASSUME NEW sch, NEW s \in State, NEW c \in Comp, Part[c].kind = "PassThrough",
         c \notin s.down, NEW B, NEW F
  PROVE  LET asked   == RunPassthroughBackward(s, c)
             offered == RunPassthroughForward(s, c)
         IN  /\ ActsFor(c, s, asked) /\ Sees(sch, c, s, asked, B, {})
             /\ ActsFor(c, s, offered) /\ Sees(sch, c, s, offered, {}, F)
<1> DEFINE in      == Inflow[c][0]
           out     == Outflow[c][0]
           asked   == RunPassthroughBackward(s, c)
           offered == RunPassthroughForward(s, c)
           offer   == AtMost(s.avail[in], Part[c].maxOutflow)
<1>1. /\ in \in Conn /\ Connection[in].to = c
      /\ out \in Conn /\ Connection[out].from = c
      /\ Part[c].kind \notin Passive
  BY FirstEnds DEF Inflows, Outflows, Passive
<1>2. asked = Request(s, in, Wanted(s, c)) /\ offered = Offer(s, out, offer)
  BY DEF RunPassthroughBackward, RunPassthroughForward, Wanted
<1>3. AskBack(c) = {out} /\ AskFront(c) = {} /\ OfferBack(c) = {} /\ OfferFront(c) = {in}
  BY DEF AskBack, AskFront, OfferBack, OfferFront
<1> HIDE DEF asked, offered
<1>4. \A r : SpillsRight(sch, r, c)
  BY DEF SpillsRight
<1>5. ActsFor(c, s, asked) /\ Sees(sch, c, s, asked, B, {})
  <2>1. /\ \A j \in Conn : asked.req[j] = IF j = in THEN Wanted(s, c) ELSE s.req[j]
        /\ s.req[in] # Wanted(s, c) => in \in asked.back
        /\ asked.avail = s.avail
    BY <1>1, <1>2, RequestGives
  <2>2. ActsFor(c, s, asked)
    BY <1>1, <1>2, RequestActs
  <2> HIDE DEF in, out
  <2>3. AsksRight(asked, c) \/ out \in asked.back
    <3>1. CASE asked.req[out] = s.req[out]
      BY <1>1, <2>1, <3>1 DEF AsksRight, Wanted, in, out
    <3>2. CASE asked.req[out] # s.req[out]
      BY <1>1, <2>1, <3>2
    <3> QED
      BY <3>1, <3>2
  <2>4. OffersRight(sch, s, c) => OffersRight(sch, asked, c)
    BY <2>1 DEF OffersRight
  <2> QED
    BY <1>3, <1>4, <2>2, <2>3, <2>4 DEF Sees, Awaits
<1>6. ActsFor(c, s, offered) /\ Sees(sch, c, s, offered, {}, F)
  <2>1. /\ \A j \in Conn : offered.avail[j] = IF j = out THEN offer ELSE s.avail[j]
        /\ s.avail[out] # offer => out \in offered.front
        /\ offered.req = s.req
    BY <1>1, <1>2, OfferGives
  <2>2. ActsFor(c, s, offered)
    BY <1>1, <1>2, OfferActs
  <2> HIDE DEF in, out
  <2>3. OffersRight(sch, offered, c) \/ in \in offered.front
    <3>1. CASE offered.avail[in] = s.avail[in]
      BY <1>1, <2>1, <3>1 DEF OffersRight, offer, in, out
    <3>2. CASE offered.avail[in] # s.avail[in]
      BY <1>1, <2>1, <3>2
    <3> QED
      BY <3>1, <3>2
  <2>4. AsksRight(s, c) => AsksRight(offered, c)
    BY <2>1 DEF AsksRight, Wanted
  <2> QED
    BY <1>3, <1>4, <2>2, <2>3, <2>4 DEF Sees, Awaits
<1> QED
  BY <1>5, <1>6 DEF asked, offered

(* A source that has been asked, or whose supply has changed.              *)
LEMMA SourceIsRight ==
  ASSUME WasteIsDisposedOf, NEW sch, NEW s \in State, NEW c \in Comp,
         Part[c].kind = "ScheduleBasedSource", Supplied(sch, s, c) \in Flow
  PROVE  LET r == RunScheduleBasedSourceBackward(sch, s, c)
         IN  /\ ActsFor(c, s, r)
             /\ AsksRight(r, c) /\ OffersRight(sch, r, c) /\ SpillsRight(sch, r, c)
<1> DEFINE out   == Outflow[c][0]
           waste == Outflow[c][WastePort(c)]
           given == Supplied(sch, s, c)
           extra == Monus(given, s.req[out])
           q     == Offer(s, out, given)
           r     == Spill(q, waste, extra)
<1>1. /\ out \in Conn /\ Connection[out].from = c /\ waste \in Conn /\ out # waste
      /\ Private(c, waste) /\ Part[c].kind \notin Passive
  BY WasteEnd, WasteIsPrivate DEF Outflows, Passive
<1>2. r = RunScheduleBasedSourceBackward(sch, s, c)
  BY DEF RunScheduleBasedSourceBackward, Supplied
<1> HIDE DEF given, out, waste
<1>3. q \in State
  BY <1>1, OfferType DEF Handled, given
<1>4. ActsFor(c, s, q)
  BY <1>1, OfferActs
<1>5. /\ \A j \in Conn : q.avail[j] = IF j = out THEN given ELSE s.avail[j]
      /\ q.req = s.req /\ q.srcIdx = s.srcIdx
  BY <1>1, OfferGives
<1> HIDE DEF q, extra
<1>6. ActsFor(c, q, r)
  BY <1>1, <1>3, SpillActs
<1>7. /\ \A j \in Conn : /\ r.req[j] = IF j = waste THEN extra ELSE q.req[j]
                         /\ r.avail[j] = IF j = waste THEN extra ELSE q.avail[j]
      /\ r.srcIdx = q.srcIdx
  BY <1>1, <1>3, SpillGives
<1> HIDE DEF r
<1>8. ActsFor(c, s, r)
  BY <1>4, <1>6, ActsForTwice
<1>9. /\ r.avail[out] = given /\ r.req[out] = s.req[out]
      /\ r.req[waste] = extra /\ r.avail[waste] = extra
      /\ Supplied(sch, r, c) = given
  BY <1>1, <1>5, <1>7 DEF Supplied, given
<1>10. AsksRight(r, c) /\ OffersRight(sch, r, c) /\ SpillsRight(sch, r, c)
  BY <1>9 DEF AsksRight, OffersRight, SpillsRight, SourceSpillsRight, Carries,
              extra, out, waste
<1> QED
  BY <1>2, <1>8, <1>10

LEMMA StoreActs ==
  ASSUME NEW s \in State, NEW c \in Comp, Part[c].kind = "Store"
  PROVE  ActsFor(c, s, RunStoreBackward(s, c)) /\ ActsFor(c, s, RunStoreForward(s, c))
<1>1. Outflow[c][0] \in Conn /\ Connection[Outflow[c][0]].from = c
      /\ Part[c].kind \notin Passive
  BY KnownKind, OutflowType DEF WellConnected, Passive
<1>2. HasInflow(c, 0) => Inflow[c][0] \in Conn /\ Connection[Inflow[c][0]].to = c
  BY InflowType
<1>3. CASE HasInflow(c, 0)
  BY <1>1, <1>2, <1>3, RequestActs, OfferActs DEF RunStoreBackward, RunStoreForward
<1>4. CASE ~ HasInflow(c, 0)
  BY <1>1, <1>4, NothingActs, OfferActs DEF RunStoreBackward, RunStoreForward
<1> QED
  BY <1>3, <1>4

-----------------------------------------------------------------------------
(* The steps of the two passes: a component acts for itself and sees what  *)
(* it was called about.                                                    *)

LEMMA SuppliedFlow ==
  ASSUME NEW sch, SchedulesOfFlows(sch), NEW s \in State, IndicesInRange(sch, s),
         NEW c \in Comp, Part[c].kind = "ScheduleBasedSource"
  PROVE  Supplied(sch, s, c) \in Flow
<1>1. sch.avail[c] \in ScheduleOfFlows /\ s.srcIdx[c] \in 1 .. Len(sch.avail[c])
  BY DEF SchedulesOfFlows, IndicesInRange, OfKind
<1>2. sch.avail[c][s.srcIdx[c]].amount \in Nat
  BY <1>1, ScheduledAmount, FlowIsNat
<1> QED
  BY <1>2, LoadAndSourceParts, AtMostFlow DEF Supplied

(* A component without a handler for a pass does nothing in it.            *)
LEMMA IdleSees ==
  ASSUME NEW sch, NEW c, NEW s, NEW B, NEW F,
         Part[c].kind \notin {"PassThrough", "Converter", "Mover", "Mux",
                              "ScheduleBasedSource"}
  PROVE  ActsFor(c, s, s) /\ Sees(sch, c, s, s, B, F)
  BY NothingActs, NothingToSee

LEMMA BackwardSees ==
  ASSUME EveryChangeIsTold, NEW sch, SchedulesOfFlows(sch),
         NEW s \in State, IndicesInRange(sch, s),
         NEW k \in Conn, Connection[k].from \notin s.down
  PROVE  LET c == Connection[k].from
             r == RunBackward(sch, s, k)
         IN  ActsFor(c, s, r) /\ Sees(sch, c, s, r, {k}, {})
<1> DEFINE c == Connection[k].from
           r == RunBackward(sch, s, k)
           Seen(q) == ActsFor(c, s, q) /\ Sees(sch, c, s, q, {k}, {})
<1>1. c \in Comp /\ WasteIsDisposedOf /\ MoversAreFed /\ Part[c].kind # "Switch"
  BY ConnectionEnds DEF EveryChangeIsTold, OfKind
<1>2. CASE Part[c].kind = "PassThrough"
  <2>1. r = RunPassthroughBackward(s, c)
    BY <1>2 DEF RunBackward
  <2> HIDE DEF r
  <2>2. Seen(RunPassthroughBackward(s, c))
    BY <1>1, <1>2, PassThroughSees
  <2> QED
    BY <2>1, <2>2 DEF r
<1>3. CASE Part[c].kind = "ScheduleBasedSource"
  <2>1. r = RunScheduleBasedSourceBackward(sch, s, c)
    BY <1>3 DEF RunBackward
  <2>2. /\ ActsFor(c, s, RunScheduleBasedSourceBackward(sch, s, c))
        /\ AsksRight(RunScheduleBasedSourceBackward(sch, s, c), c)
        /\ OffersRight(sch, RunScheduleBasedSourceBackward(sch, s, c), c)
        /\ SpillsRight(sch, RunScheduleBasedSourceBackward(sch, s, c), c)
    BY <1>1, <1>3, SuppliedFlow, SourceIsRight
  <2> HIDE DEF r, c
  <2> QED
    BY <2>1, <2>2 DEF r, c, Sees
<1>4. CASE Part[c].kind \in {"Converter", "Mover"}
  <2> DEFINE asked   == AfterSpilling(Request(s, Inflow[c][0], Needed(s, c)), c)
             spilled == AfterSpilling(s, c)
  <2>1. r = IF Connection[k].fromPort = 0 THEN asked ELSE spilled
    BY <1>4, ConversionHandlers DEF RunBackward
  <2>2. Connection[k].fromPort # 0 => k # Outflow[c][0]
    BY <1>1, <1>4, FirstEnds
  <2>3. /\ Seen(asked)
        /\ Connection[k].fromPort # 0 => Seen(spilled)
    BY <1>1, <1>4, <2>2, ConversionSees
  <2> HIDE DEF r, asked, spilled, Seen
  <2>4. Seen(r)
    BY <2>1, <2>3
  <2> QED
    BY <2>4 DEF Seen, r
<1>5. CASE Part[c].kind = "Mux"
  <2>1. r = IF Part[c].outports > 1 THEN RunMuxBothWays(s, c) ELSE RunMuxBackward(s, c)
    BY <1>5 DEF RunBackward
  <2>2. ~ (Part[c].outports > 1) => Part[c].outports = 1
    BY <1>1, <1>5, MuxParts
  <2>3. /\ Seen(RunMuxBothWays(s, c))
        /\ ~ (Part[c].outports > 1) => Seen(RunMuxBackward(s, c))
    BY <1>1, <1>5, <2>2, MuxBothWaysSees, MuxBackwardSees
  <2> HIDE DEF r, Seen
  <2>4. Seen(r)
    BY <2>1, <2>3
  <2> QED
    BY <2>4 DEF Seen, r
<1>6. CASE Part[c].kind = "Store"
  <2>1. r = RunStoreBackward(s, c)
    BY <1>6 DEF RunBackward
  <2>2. Seen(RunStoreBackward(s, c))
    BY <1>1, <1>6, StoreActs, NothingToSee
  <2> HIDE DEF r
  <2> QED
    BY <2>1, <2>2 DEF r
<1>7. CASE Part[c].kind \notin {"PassThrough", "ScheduleBasedSource", "Converter",
                               "Mover", "Mux", "Store"}
  <2>1. r = s
    BY <1>1, <1>7 DEF RunBackward
  <2>2. Seen(s)
    BY <1>7, IdleSees
  <2> HIDE DEF r
  <2> QED
    BY <2>1, <2>2 DEF r
<1> QED
  BY <1>2, <1>3, <1>4, <1>5, <1>6, <1>7

LEMMA ForwardSees ==
  ASSUME EveryChangeIsTold, NEW sch, NEW s \in State,
         NEW k \in Conn, Connection[k].to \notin s.down,
         ~ /\ Part[Connection[k].to].kind = "Mover"
           /\ Part[Connection[k].from].kind = "EnvironmentSource"
  PROVE  LET c == Connection[k].to
             r == RunForward(s, k)
         IN  ActsFor(c, s, r) /\ Sees(sch, c, s, r, {}, {k})
<1> DEFINE c == Connection[k].to
           r == RunForward(s, k)
           Seen(q) == ActsFor(c, s, q) /\ Sees(sch, c, s, q, {}, {k})
<1>1. c \in Comp /\ WasteIsDisposedOf /\ MoversAreFed /\ Part[c].kind # "Switch"
  BY ConnectionEnds DEF EveryChangeIsTold, OfKind
<1>2. CASE Part[c].kind = "PassThrough"
  <2>1. r = RunPassthroughForward(s, c)
    BY <1>2 DEF RunForward
  <2> HIDE DEF r
  <2>2. Seen(RunPassthroughForward(s, c))
    BY <1>1, <1>2, PassThroughSees
  <2> QED
    BY <2>1, <2>2 DEF r
<1>3. CASE Part[c].kind \in {"Converter", "Mover"}
  <2> DEFINE offered == AfterSpilling(Offer(s, Outflow[c][0], Made(s, c)), c)
  <2>1. Part[c].kind = "Mover" => k = Inflow[c][0]
    BY <1>1 DEF MoversAreFed
  <2>2. r = offered
    BY <1>3, <2>1, ConversionHandlers DEF RunForward
  <2>3. Seen(offered)
    BY <1>1, <1>3, ConversionSees
  <2> HIDE DEF r, offered
  <2> QED
    BY <2>2, <2>3 DEF r
<1>4. CASE Part[c].kind = "Mux"
  <2>1. r = IF Part[c].inports > 1 THEN RunMuxBothWays(s, c) ELSE RunMuxForward(s, c)
    BY <1>4 DEF RunForward
  <2>2. ~ (Part[c].inports > 1) => Part[c].inports = 1
    BY <1>1, <1>4, MuxParts
  <2>3. /\ Seen(RunMuxBothWays(s, c))
        /\ ~ (Part[c].inports > 1) => Seen(RunMuxForward(s, c))
    BY <1>1, <1>4, <2>2, MuxBothWaysSees, MuxForwardSees
  <2> HIDE DEF r, Seen
  <2>4. Seen(r)
    BY <2>1, <2>3
  <2> QED
    BY <2>4 DEF Seen, r
<1>5. CASE Part[c].kind = "Store"
  <2>1. r = RunStoreForward(s, c)
    BY <1>5 DEF RunForward
  <2>2. Seen(RunStoreForward(s, c))
    BY <1>1, <1>5, StoreActs, NothingToSee
  <2> HIDE DEF r
  <2> QED
    BY <2>1, <2>2 DEF r
<1>6. CASE Part[c].kind = "ScheduleBasedSource"
  <2>1. r = s
    BY <1>6 DEF RunForward
  <2>2. Seen(s)
    BY <1>6, NothingActs DEF Sees, Awaits, OfferFront, OfferBack, SpillFront,
       SpillBack, AskFront, AskBack
  <2> HIDE DEF r
  <2> QED
    BY <2>1, <2>2 DEF r
<1>7. CASE Part[c].kind \notin {"PassThrough", "ScheduleBasedSource", "Converter",
                               "Mover", "Mux", "Store"}
  <2>1. r = s
    BY <1>1, <1>7 DEF RunForward
  <2>2. Seen(s)
    BY <1>7, IdleSees
  <2> HIDE DEF r
  <2> QED
    BY <2>1, <2>2 DEF r
<1> QED
  BY <1>2, <1>3, <1>4, <1>5, <1>6, <1>7

-----------------------------------------------------------------------------
(* Failures and repairs.                                                   *)

(* Whoever fails, but for a mover, tells its neighbours.                   *)
LEMMA CutOffActs ==
  ASSUME NEW s \in State, NEW c \in Comp, Part[c].kind \notin Passive,
         NEW outs, outs \subseteq Outflows(c)
  PROVE  ActsFor(c, s, OfferEach(RequestEach(s, ZeroAt(Inflows(c))), ZeroAt(outs)))
<1> DEFINE asked == RequestEach(s, ZeroAt(Inflows(c)))
           r     == OfferEach(asked, ZeroAt(outs))
<1>1. DOMAIN ZeroAt(Inflows(c)) = Inflows(c) /\ DOMAIN ZeroAt(outs) = outs
  BY DEF ZeroAt
<1>2. asked \in State
  BY EndsAreConnections, ZeroAtType, RequestEachType DEF Handled
<1>3. ActsFor(c, s, asked)
  BY <1>1, RequestEachActs
<1> HIDE DEF asked
<1>4. ActsFor(c, asked, r)
  BY <1>1, <1>2, OfferEachActs
<1> HIDE DEF r
<1>5. ActsFor(c, s, r)
  BY <1>3, <1>4, ActsForTwice
<1> QED
  BY <1>5 DEF r, asked

LEMMA FailureActs ==
  ASSUME EveryChangeIsTold, NEW s \in State, NEW c \in Comp,
         Part[c].kind # "Mover"
  PROVE  ActsFor(c, s, SetComponentToFailed(s, c))
<1> DEFINE f      == [s EXCEPT !.down = @ \cup {c}]
           ins    == Inflows(c)
           outs   == Outflows(c)
           waste  == {k \in outs : Connection[k].fromPort = WastePort(c)}
           others == outs \ waste
           r      == SetComponentToFailed(s, c)
<1>1. f \in State
  BY MarkDownType DEF Kept
<1>2. ActsFor(c, s, f)
  <2>1. /\ f.req = s.req /\ f.avail = s.avail /\ f.back = s.back
        /\ f.front = s.front /\ f.srcIdx = s.srcIdx
    BY DEF State
  <2> HIDE DEF f
  <2> QED
    BY <2>1, NothingActs
<1>3. ins \subseteq Conn /\ outs \subseteq Conn /\ others \subseteq outs
  BY EndsAreConnections
<1> HIDE DEF f, r
<1>4. ActsFor(c, f, r)
  <2>1. CASE Part[c].kind \in {"ConstantLoad", "ScheduleBasedLoad",
                               "ConstantSource", "Mux", "PassThrough"}
    <3>1. r = OfferEach(RequestEach(f, ZeroAt(ins)), ZeroAt(outs))
      BY <2>1 DEF SetComponentToFailed, r, f
    <3> QED
      BY <1>1, <2>1, <3>1, CutOffActs DEF Passive
  <2>2. CASE Part[c].kind = "Converter"
    <3> DEFINE asked   == Request(f, Inflow[c][0], 0)
               offered == OfferEach(asked, ZeroAt(others))
    <3>1. r = Spill(offered, Outflow[c][WastePort(c)], 0)
      BY <2>2 DEF SetComponentToFailed, r, f
    <3>2. /\ Inflow[c][0] \in Conn /\ Connection[Inflow[c][0]].to = c
          /\ Outflow[c][WastePort(c)] \in Conn
          /\ Private(c, Outflow[c][WastePort(c)]) /\ Part[c].kind \notin Passive
      BY <2>2, FirstEnds, WasteEnd, WasteIsPrivate
         DEF EveryChangeIsTold, Inflows, Passive
    <3>3. asked \in State
      BY <1>1, <3>2, RequestType, FlowIsNat DEF Handled
    <3>4. ActsFor(c, f, asked)
      BY <1>1, <3>2, RequestActs
    <3> HIDE DEF asked
    <3>5. offered \in State
      BY <1>3, <3>3, ZeroAtType, OfferEachType DEF Handled
    <3>6. ActsFor(c, asked, offered)
      <4>1. DOMAIN ZeroAt(others) = others
        BY DEF ZeroAt
      <4> QED
        BY <1>3, <3>2, <3>3, <4>1, OfferEachActs
    <3> HIDE DEF offered
    <3>7. ActsFor(c, offered, r)
      BY <3>1, <3>2, <3>5, SpillActs
    <3> QED
      BY <3>4, <3>6, <3>7, ActsForTwice
  <2>3. CASE Part[c].kind = "Store"
    <3> DEFINE cut == OfferEach(RequestEach(f, ZeroAt(ins)), ZeroAt(others))
    <3>1. r = ClearFlows(cut, waste)
      BY <2>3 DEF SetComponentToFailed, r, f
    <3>2. cut \in State
      BY <1>1, <1>3, CutOffType DEF Handled
    <3>3. ActsFor(c, f, cut)
      BY <1>1, <1>3, <2>3, CutOffActs DEF Passive
    <3>4. \A k \in waste : Private(c, k)
      BY <2>3 DEF EveryChangeIsTold, WasteIsDisposedOf, Private, Outflows
    <3> HIDE DEF cut, waste
    <3>5. ActsFor(c, cut, r)
      <4>1. /\ r.srcIdx = cut.srcIdx /\ r.back = cut.back /\ r.front = cut.front
            /\ \A k \in Conn : k \notin waste => /\ r.req[k] = cut.req[k]
                                                 /\ r.avail[k] = cut.avail[k]
        BY <3>1, <3>2 DEF ClearFlows, State
      <4> QED
        BY <2>3, <3>4, <4>1 DEF ActsFor, Passive
    <3> QED
      BY <3>3, <3>5, ActsForTwice
  <2>4. CASE Part[c].kind \notin {"ConstantLoad", "ScheduleBasedLoad",
               "ConstantSource", "Mux", "PassThrough", "Converter", "Mover", "Store"}
    <3>1. r = f
      BY <2>4 DEF SetComponentToFailed, r, f
    <3> QED
      BY <3>1, NothingActs
  <2> QED
    BY <2>1, <2>2, <2>3, <2>4
<1> QED
  BY <1>2, <1>4, ActsForTwice DEF r


(* A repaired component tells its neighbours what it asks and offers, or   *)
(* schedules itself.                                                       *)
LEMMA RepairSees ==
  ASSUME EveryChangeIsTold, NEW sch, NEW s \in State, NEW c \in Comp, NEW k,
         Part[c].kind \notin {"PassThrough", "ScheduleBasedLoad", "ScheduleBasedSource"}
  PROVE  LET r == SetComponentToRepaired(sch, s, c, k)
         IN  ActsFor(c, s, r) /\ UpToDate(sch, r, c, r.back, r.front)
<1> DEFINE f == [s EXCEPT !.down = @ \ {c}]
           r == SetComponentToRepaired(sch, s, c, k)
           Done(q) == ActsFor(c, f, q) /\ UpToDate(sch, q, c, q.back, q.front)
<1>1. f \in State
  BY MarkDownType DEF Kept
<1>2. ActsFor(c, s, f)
  <2>1. /\ f.req = s.req /\ f.avail = s.avail /\ f.back = s.back
        /\ f.front = s.front /\ f.srcIdx = s.srcIdx
    BY DEF State
  <2> HIDE DEF f
  <2> QED
    BY <2>1, NothingActs
<1> HIDE DEF f, r
<1>3. Done(r)
  <2>1. CASE Part[c].kind = "ConstantLoad"
    <3>1. r = Request(f, Inflow[c][0], Part[c].load)
      BY <2>1 DEF SetComponentToRepaired, r, f
    <3>2. Inflow[c][0] \in Conn /\ Connection[Inflow[c][0]].to = c
          /\ Part[c].kind \notin Passive
      BY <2>1, KnownKind, InflowType DEF WellConnected, Passive
    <3> QED
      BY <1>1, <2>1, <3>1, <3>2, RequestActs
         DEF UpToDate, AsksRight, OffersRight, SpillsRight
  <2>2. CASE Part[c].kind = "ConstantSource"
    <3>1. r = Offer(f, Outflow[c][0], Part[c].available)
      BY <2>2 DEF SetComponentToRepaired, r, f
    <3>2. Outflow[c][0] \in Conn /\ Connection[Outflow[c][0]].from = c
          /\ Part[c].kind \notin Passive
      BY <2>2, KnownKind, OutflowType DEF WellConnected, Passive
    <3> QED
      BY <1>1, <2>2, <3>1, <3>2, OfferActs
         DEF UpToDate, AsksRight, OffersRight, SpillsRight
  <2>3. CASE Part[c].kind \in {"Converter", "Mover"}
    <3> DEFINE b == AfterSpilling(Request(f, Inflow[c][0], Needed(f, c)), c)
    <3>1. WasteIsDisposedOf /\ MoversAreFed
      BY DEF EveryChangeIsTold
    <3>2. /\ b \in State /\ ActsFor(c, f, b)
          /\ AsksRight(b, c) \/ Outflow[c][0] \in b.back
      BY <1>1, <2>3, <3>1, ConversionAsks
    <3>3. r = AfterSpilling(Offer(b, Outflow[c][0], Made(b, c)), c)
      BY <2>3, ConversionHandlers DEF SetComponentToRepaired, Then, r, f
    <3> HIDE DEF b
    <3>4. /\ ActsFor(c, b, r)
          /\ AsksRight(b, c) => AsksRight(r, c)
          /\ OffersRight(sch, r, c) \/ Inflow[c][0] \in r.front
          /\ SpillsRight(sch, r, c) \/ Inflow[c][0] \in r.front
      BY <2>3, <3>1, <3>2, <3>3, ConversionOffers
    <3>5. b.back \subseteq r.back
      BY <3>4 DEF ActsFor
    <3>6. ActsFor(c, f, r)
      BY <3>2, <3>4, ActsForTwice
    <3>7. UpToDate(sch, r, c, r.back, r.front)
      BY <2>3, <3>2, <3>4, <3>5, ConversionAwaits DEF UpToDate, Awaits
    <3> QED
      BY <3>6, <3>7
  <2>4. CASE Part[c].kind = "Mux"
    <3>1. /\ r.req = f.req /\ r.avail = f.avail /\ r.srcIdx = f.srcIdx
          /\ r.front = f.front \cup MuxIns(c) /\ r.back = f.back \cup MuxOuts(c)
      BY <1>1, <2>4 DEF SetComponentToRepaired, r, f, MuxIns, MuxOuts, State
    <3>2. \A j \in MuxIns(c) : Connection[j].to = c
      BY <2>4, MuxEnds DEF Inflows
    <3>3. ActsFor(c, f, r)
      BY <2>4, <3>1, <3>2 DEF ActsFor, Passive
    <3>4. MuxIns(c) # {} /\ MuxOuts(c) # {}
      <4>1. 0 \in InPorts(c) /\ 0 \in OutPorts(c)
        BY <2>4, MuxParts DEF InPorts, OutPorts
      <4> QED
        BY <4>1 DEF MuxIns, MuxOuts
    <3>5. AskBack(c) = MuxOuts(c) /\ OfferFront(c) = MuxIns(c) /\ SpillsRight(sch, r, c)
      BY <2>4 DEF AskBack, OfferFront, SpillsRight
    <3>6. UpToDate(sch, r, c, r.back, r.front)
      BY <3>1, <3>4, <3>5 DEF UpToDate, Awaits
    <3> QED
      BY <3>3, <3>6
  <2>5. CASE Part[c].kind \notin {"ConstantLoad", "ConstantSource", "Converter",
                                 "Mover", "Mux"}
    <3>1. r = f
      BY <2>5 DEF SetComponentToRepaired, r, f
    <3>2. Part[c].kind \notin {"PassThrough", "ScheduleBasedSource", "Converter",
                               "Mover", "Mux"}
      BY <2>5
    <3>3. UpToDate(sch, r, c, r.back, r.front)
      BY <3>2 DEF UpToDate, AsksRight, OffersRight, SpillsRight
    <3> QED
      BY <3>1, <3>3, NothingActs
  <2> QED
    BY <2>1, <2>2, <2>3, <2>4, <2>5
<1>4. ActsFor(c, s, r)
  BY <1>2, <1>3, ActsForTwice
<1> QED
  BY <1>3, <1>4 DEF r


-----------------------------------------------------------------------------
(* The steps of a simulation.                                              *)

Running == pc \notin {"exited", "assertionFailed"}

LEMMA EveryoneStaysTold ==
  ASSUME SolverInv, Running, UNCHANGED model, NEW B, NEW F,
         PendingBack \ B \subseteq PendingBack',
         PendingFront \ F \subseteq PendingFront',
         \A d \in Comp \ ss'.down :
           \/ /\ d \notin ss.down
              /\ Sees(model, d, ss, ss', B, F)
              /\ SupplyIsDue(d) => SupplyIsDue(d)'
           \/ UpToDate(model, ss', d, PendingBack', PendingFront')
           \/ SupplyIsDue(d)'
  PROVE  EveryoneIsTold'
<1> SUFFICES ASSUME NEW d \in Comp \ ss'.down, ~ SupplyIsDue(d)'
             PROVE  UpToDate(model', ss', d, PendingBack', PendingFront')
  BY DEF EveryoneIsTold
<1>1. ss'.back \subseteq PendingBack' /\ ss'.front \subseteq PendingFront'
  BY DEF PendingBack, PendingFront
<1>2. SUFFICES ASSUME d \notin ss.down, Sees(model, d, ss, ss', B, F),
                      SupplyIsDue(d) => SupplyIsDue(d)'
               PROVE  UpToDate(model, ss', d, PendingBack', PendingFront')
  OBVIOUS
<1>3. UpToDate(model, ss, d, PendingBack, PendingFront)
  BY <1>2 DEF SolverInv, EveryoneIsTold, Running
<1> QED
  BY <1>1, <1>2, <1>3, StillUpToDate

(* What a component awaits is its own.                                     *)
LEMMA OthersAreNotCalled ==
  ASSUME NEW d \in Comp, NEW sch, NEW s, NEW r, Sees(sch, d, s, r, {}, {}),
         NEW B, \A k \in B : Connection[k].from # d,
         NEW F, \A k \in F : Connection[k].to # d
  PROVE  Sees(sch, d, s, r, B, F)
<1>1. AskBack(d) \cup OfferBack(d) \cup SpillBack(d) \subseteq Outflows(d)
  <2>1. Part[d].kind = "Mux" => MuxOuts(d) \subseteq Outflows(d)
    BY MuxEnds
  <2>2. Part[d].kind \in {"PassThrough", "Converter", "Mover"} =>
          Outflow[d][0] \in Outflows(d)
    BY FirstEnds
  <2>3. Part[d].kind = "ScheduleBasedSource" => Outflow[d][0] \in Outflows(d)
    BY KnownKind, OutflowType DEF WellConnected, Outflows
  <2>4. Part[d].kind = "Converter" /\ HasOutflow(d, LossPort(d)) =>
          Outflow[d][LossPort(d)] \in Outflows(d)
    BY LossEnd
  <2>5. AskBack(d) \subseteq Outflows(d)
    BY <2>1, <2>2 DEF AskBack
  <2>6. OfferBack(d) \subseteq Outflows(d)
    BY <2>1 DEF OfferBack
  <2>7. SpillBack(d) \subseteq Outflows(d)
    BY <2>2, <2>3, <2>4 DEF SpillBack
  <2> QED
    BY <2>5, <2>6, <2>7
<1>2. AskFront(d) \cup OfferFront(d) \cup SpillFront(d) \subseteq Inflows(d)
  <2>1. Part[d].kind = "Mux" => MuxIns(d) \subseteq Inflows(d)
    BY MuxEnds
  <2>2. Part[d].kind \in {"PassThrough", "Converter", "Mover"} =>
          Inflow[d][0] \in Inflows(d)
    BY FirstEnds
  <2>3. AskFront(d) \subseteq Inflows(d) /\ OfferFront(d) \subseteq Inflows(d)
    BY <2>1, <2>2 DEF AskFront, OfferFront
  <2>4. SpillFront(d) \subseteq Inflows(d)
    BY <2>2 DEF SpillFront
  <2> QED
    BY <2>3, <2>4
<1>3. \A k \in B : k \notin Outflows(d)
  BY DEF Outflows
<1>4. \A k \in F : k \notin Inflows(d)
  BY DEF Inflows
<1>5. /\ ~ Awaits(AskBack(d), AskFront(d), B, F)
      /\ ~ Awaits(OfferBack(d), OfferFront(d), B, F)
      /\ ~ Awaits(SpillBack(d), SpillFront(d), B, F)
  BY <1>1, <1>2, <1>3, <1>4 DEF Awaits
<1> QED
  BY <1>5 DEF Sees

(* A step in which a single component acts, called about B and F.          *)
LEMMA OneActs ==
  ASSUME EveryChangeIsTold, IInv, SolverInv, Running, ss' \in State,
         UNCHANGED model, NEW c, ActsFor(c, ss, ss'),
         NEW B, \A k \in B : Connection[k].from = c,
         NEW F, \A k \in F : Connection[k].to = c,
         PendingBack \ B \subseteq PendingBack',
         PendingFront \ F \subseteq PendingFront',
         PendingFront' \subseteq PendingFront \cup ss'.front,
         \A d \in Comp \ ss'.down : d # c =>
           d \notin ss.down /\ (SupplyIsDue(d) => SupplyIsDue(d)'),
         c \in Comp \ ss'.down =>
           \/ /\ c \notin ss.down
              /\ Sees(model, c, ss, ss', B, F)
              /\ SupplyIsDue(c) => SupplyIsDue(c)'
           \/ UpToDate(model, ss', c, PendingBack', PendingFront')
           \/ SupplyIsDue(c)'
  PROVE  EveryoneIsTold' /\ NobodyAsksOutside'
<1>1. ASSUME NEW d \in Comp, d # c
      PROVE  Sees(model, d, ss, ss', B, F)
  <2>1. ss \in State
    BY DEF IInv, TypeOK
  <2>2. Sees(model, d, ss, ss', {}, {})
    BY <1>1, <2>1, OthersSee
  <2>3. (\A k \in B : Connection[k].from # d) /\ (\A k \in F : Connection[k].to # d)
    BY <1>1
  <2> QED
    BY <2>2, <2>3, OthersAreNotCalled
<1>2. EveryoneIsTold'
  BY <1>1, EveryoneStaysTold
<1>3. NobodyAsksOutside'
  <2> SUFFICES ASSUME NEW k \in PendingFront', k \notin PendingFront,
                      Part[Connection[k].to].kind = "Mover",
                      Part[Connection[k].from].kind = "EnvironmentSource"
               PROVE  FALSE
    BY DEF NobodyAsksOutside, SolverInv
  <2>1. k \in ss'.front \ ss.front
    BY DEF PendingFront
  <2>2. Connection[k].from = c
    BY <2>1 DEF ActsFor
  <2> QED
    BY <2>1, <2>2 DEF ActsFor, Passive
<1> QED
  BY <1>2, <1>3

(* A step that leaves the flows alone.                                     *)
LEMMA NobodyActs ==
  ASSUME EveryChangeIsTold, IInv, SolverInv, Running, ss' \in State,
         UNCHANGED model, ss'.down = ss.down, ss'.srcIdx = ss.srcIdx,
         ss'.req = ss.req, ss'.avail = ss.avail,
         PendingBack \subseteq PendingBack', PendingFront' = PendingFront,
         \A d \in Comp : SupplyIsDue(d) => SupplyIsDue(d)'
  PROVE  SolverInv'
<1>1. ASSUME NEW d \in Comp PROVE Sees(model, d, ss, ss', {}, {})
  <2>1. ss \in State
    BY DEF IInv, TypeOK
  <2>2. HasBeenTold(d, ss, ss')
    BY DEF HasBeenTold
  <2>3. \A back, front : ~ Awaits(back, front, {}, {})
    BY DEF Awaits
  <2> QED
    BY <2>1, <2>2, <2>3, ToldOfRequests, ToldOfSupplies, ToldOfSpills
       DEF Sees, EveryChangeIsTold
<1>2. EveryoneIsTold'
  BY <1>1, EveryoneStaysTold
<1>3. NobodyAsksOutside' /\ MoversAreInService'
  BY DEF SolverInv, NobodyAsksOutside, MoversAreInService
<1> QED
  BY <1>2, <1>3 DEF SolverInv


(* Where the reliability schedules and the loops of Simulate only move on. *)
LEMMA MovingOnKeepsSolverInv ==
  ASSUME EveryChangeIsTold, IInv, SolverInv, Running,
         NextPhase \/ BeginRun \/ TakeBackward \/ TakeForward \/ EndBackward
           \/ EndForward \/ Record \/ UNCHANGED vars
  PROVE  SolverInv'
<1>1. ss \in State
  BY DEF IInv, TypeOK
<1>2. /\ ss' \in State /\ UNCHANGED model /\ ss'.down = ss.down
      /\ ss'.srcIdx = ss.srcIdx /\ ss'.req = ss.req /\ ss'.avail = ss.avail
  BY <1>1 DEF NextPhase, BeginRun, TakeBackward, TakeForward, EndBackward,
              EndForward, Record, vars, State
<1>3. PendingBack \subseteq PendingBack' /\ PendingFront' = PendingFront
  <2>1. CASE TakeBackward
    <3>1. ss'.back = {} /\ ss'.front = ss.front
      BY <1>1, <2>1 DEF TakeBackward, State
    <3> QED
      BY <2>1, <3>1 DEF TakeBackward, PendingBack, PendingFront
  <2>2. CASE TakeForward
    <3>1. ss'.front = {} /\ ss'.back = ss.back
      BY <1>1, <2>2 DEF TakeForward, State
    <3> QED
      BY <2>2, <3>1 DEF TakeForward, PendingBack, PendingFront
  <2>3. CASE EndBackward \/ EndForward
    BY <2>3 DEF EndBackward, EndForward, PendingBack, PendingFront
  <2>4. CASE NextPhase
    BY <2>4 DEF NextPhase, PhaseAfter, PendingBack, PendingFront
  <2>5. CASE BeginRun \/ Record \/ UNCHANGED vars
    BY <2>5, VisitsOfPhases DEF BeginRun, Record, vars, PendingBack, PendingFront
  <2> QED
    BY <2>1, <2>2, <2>3, <2>4, <2>5
<1>4. ASSUME NEW d \in Comp, SupplyIsDue(d) PROVE SupplyIsDue(d)'
  <2>1. pc \in {"reliability", "loads", "sources"} /\ d \in Sources
        /\ (pc = "sources" => d \in todo)
    BY <1>4 DEF SupplyIsDue
  <2>2. UNCHANGED <<model, ss, t>>
    BY <2>1 DEF NextPhase, BeginRun, TakeBackward, TakeForward, EndBackward,
                EndForward, Record, vars
  <2>3. CASE NextPhase
    <3>1. \/ pc' = "loads"
          \/ pc' = "sources" /\ todo' = Sources
      BY <2>1, <2>3 DEF NextPhase, PhaseAfter, ItemsOf
    <3> QED
      BY <1>4, <2>1, <2>2, <3>1 DEF SupplyIsDue, ScheduledNow
  <2>4. CASE UNCHANGED vars
    BY <1>4, <2>4 DEF vars, SupplyIsDue, ScheduledNow
  <2>5. CASE ~ NextPhase /\ ~ UNCHANGED vars
    BY <2>1, <2>5 DEF BeginRun, TakeBackward, TakeForward, EndBackward,
                      EndForward, Record
  <2> QED
    BY <2>3, <2>4, <2>5
<1> QED
  BY <1>2, <1>3, <1>4, NobodyActs

LEMMA StepsKeepSolverInv ==
  ASSUME EveryChangeIsTold, IInv, SolverInv, NEW k \in todo,
         StepBackward(k) \/ StepForward(k)
  PROVE  SolverInv'
<1>1. /\ Running /\ UNCHANGED <<model, t, pc>> /\ todo' = todo \ {k}
      /\ pc \in {"backward", "forward"} /\ k \in Conn
  BY VisitsOfPhases DEF StepBackward, StepForward, Running
<1>2. /\ ss \in State /\ SchedulesOfFlows(model) /\ IndicesInRange(model, ss)
      /\ Connection[k].from \in Comp /\ Connection[k].to \in Comp
  BY <1>1, ModelSchedules, ConnectionEnds DEF IInv, TypeOK
<1>3. ss' \in State /\ ss'.down = ss.down
  BY StepHandles DEF Handled
<1>4. \A d : ~ SupplyIsDue(d)
  BY <1>1 DEF SupplyIsDue
<1>5. MoversAreInService'
  BY <1>3 DEF SolverInv, MoversAreInService
<1>6. CASE StepBackward(k)
  <2> DEFINE c == Connection[k].from
  <2>1. pc = "backward" /\ pc' = "backward"
    BY <1>1, <1>6 DEF StepBackward
  <2>2. ActsFor(c, ss, ss') /\ (c \notin ss.down => Sees(model, c, ss, ss', {k}, {}))
    <3>1. CASE c \in ss.down
      <4>1. Part[c].kind # "Mover" /\ ss' = SetComponentToFailed(ss, c)
        BY <1>6, <3>1 DEF SolverInv, MoversAreInService, StepBackward
      <4> QED
        BY <1>2, <3>1, <4>1, FailureActs
    <3>2. CASE c \notin ss.down
      <4>1. ss' = RunBackward(model, ss, k)
        BY <1>6, <3>2 DEF StepBackward
      <4> QED
        BY <1>1, <1>2, <3>2, <4>1, BackwardSees
    <3> QED
      BY <3>1, <3>2
  <2>3. /\ PendingBack \ {k} \subseteq PendingBack'
        /\ PendingFront \subseteq PendingFront'
        /\ PendingFront' \subseteq PendingFront \cup ss'.front
    <3>1. ss.back \subseteq ss'.back /\ ss.front \subseteq ss'.front
      BY <2>2 DEF ActsFor
    <3> QED
      BY <1>1, <2>1, <3>1 DEF PendingBack, PendingFront
  <2> HIDE DEF c
  <2>4. EveryoneIsTold' /\ NobodyAsksOutside'
    <3>1. \A j \in {k} : Connection[j].from = c
      BY DEF c
    <3>2. \A j \in {} : Connection[j].to = c
      OBVIOUS
    <3>3. PendingFront \ {} \subseteq PendingFront'
      BY <2>3
    <3> QED
      BY <1>1, <1>3, <1>4, <2>2, <2>3, <3>1, <3>2, <3>3, OneActs
  <2> QED
    BY <1>5, <2>4 DEF SolverInv
<1>7. CASE StepForward(k)
  <2> DEFINE c == Connection[k].to
  <2>1. pc = "forward" /\ pc' = "forward"
    BY <1>1, <1>7 DEF StepForward
  <2>2. ActsFor(c, ss, ss') /\ (c \notin ss.down => Sees(model, c, ss, ss', {}, {k}))
    <3>1. CASE c \in ss.down
      <4>1. Part[c].kind # "Mover" /\ ss' = SetComponentToFailed(ss, c)
        BY <1>7, <3>1 DEF SolverInv, MoversAreInService, StepForward
      <4> QED
        BY <1>2, <3>1, <4>1, FailureActs
    <3>2. CASE c \notin ss.down
      <4>1. ss' = RunForward(ss, k)
        BY <1>7, <3>2 DEF StepForward
      <4>2. k \in PendingFront
        BY <2>1 DEF PendingFront
      <4>3. ~ /\ Part[Connection[k].to].kind = "Mover"
              /\ Part[Connection[k].from].kind = "EnvironmentSource"
        BY <4>2 DEF SolverInv, NobodyAsksOutside
      <4> QED
        BY <1>1, <1>2, <3>2, <4>1, <4>3, ForwardSees
    <3> QED
      BY <3>1, <3>2
  <2>3. /\ PendingBack \subseteq PendingBack'
        /\ PendingFront \ {k} \subseteq PendingFront'
        /\ PendingFront' \subseteq PendingFront \cup ss'.front
    <3>1. ss.back \subseteq ss'.back /\ ss.front \subseteq ss'.front
      BY <2>2 DEF ActsFor
    <3> QED
      BY <1>1, <2>1, <3>1 DEF PendingBack, PendingFront
  <2> HIDE DEF c
  <2>4. EveryoneIsTold' /\ NobodyAsksOutside'
    <3>1. \A j \in {k} : Connection[j].to = c
      BY DEF c
    <3>2. \A j \in {} : Connection[j].from = c
      OBVIOUS
    <3>3. PendingBack \ {} \subseteq PendingBack'
      BY <2>3
    <3> QED
      BY <1>1, <1>3, <1>4, <2>2, <2>3, <3>1, <3>2, <3>3, OneActs
  <2> QED
    BY <1>5, <2>4 DEF SolverInv
<1> QED
  BY <1>6, <1>7

-----------------------------------------------------------------------------
(* Activation.                                                             *)

(* A component called from outside the passes: nothing scheduled is taken  *)
(* away.                                                                   *)
LEMMA Activated ==
  ASSUME EveryChangeIsTold, IInv, SolverInv, Running, ss' \in State,
         UNCHANGED <<model, t, pc>>, pc \notin {"backward", "forward"},
         NEW c, ActsFor(c, ss, ss'),
         \A d \in Comp \ ss'.down : d # c =>
           d \notin ss.down /\ (SupplyIsDue(d) => SupplyIsDue(d)'),
         c \in Comp \ ss'.down =>
           UpToDate(model, ss', c, PendingBack', PendingFront') \/ SupplyIsDue(c)'
  PROVE  EveryoneIsTold' /\ NobodyAsksOutside'
<1>1. /\ PendingBack = ss.back /\ PendingBack' = ss'.back
      /\ PendingFront = ss.front /\ PendingFront' = ss'.front
  BY DEF PendingBack, PendingFront
<1>2. /\ PendingBack \ {} \subseteq PendingBack'
      /\ PendingFront \ {} \subseteq PendingFront'
      /\ PendingFront' \subseteq PendingFront \cup ss'.front
  BY <1>1 DEF ActsFor
<1>3. (\A k \in {} : Connection[k].from = c) /\ (\A k \in {} : Connection[k].to = c)
  OBVIOUS
<1>4. model' = model
  OBVIOUS
<1>5. c \in Comp \ ss'.down =>
        \/ /\ c \notin ss.down
           /\ Sees(model, c, ss, ss', {}, {})
           /\ SupplyIsDue(c) => SupplyIsDue(c)'
        \/ UpToDate(model, ss', c, PendingBack', PendingFront')
        \/ SupplyIsDue(c)'
  OBVIOUS
<1> QED
  BY <1>2, <1>3, <1>4, <1>5, OneActs

LEMMA StoreAtActs ==
  ASSUME IInv, NEW c \in Stores
  PROVE  ActsFor(c, ss, StoreAt(c))
<1> DEFINE out     == Outflow[c][0]
           inZero  == IF HasInflow(c, 0) THEN Request(ss, Inflow[c][0], 0) ELSE ss
           offered == Offer(ss, out, StoreAvailable(ss, c))
<1>1. /\ ss \in State /\ c \in Comp /\ out \in Conn /\ Connection[out].from = c
      /\ Part[c].kind = "Store" /\ Part[c].kind \notin Passive
  BY KnownKind, OutflowType DEF IInv, TypeOK, Stores, OfKind, WellConnected, Passive
<1>2. HasInflow(c, 0) => Inflow[c][0] \in Conn /\ Connection[Inflow[c][0]].to = c
  BY <1>1, InflowType
<1>3. inZero \in State /\ ActsFor(c, ss, inZero)
  <2>1. CASE HasInflow(c, 0)
    BY <1>1, <1>2, <2>1, FlowIsNat, RequestType, RequestActs DEF Handled
  <2>2. CASE ~ HasInflow(c, 0)
    BY <1>1, <2>2, NothingActs
  <2> QED
    BY <2>1, <2>2
<1>4. offered \in State /\ ActsFor(c, ss, offered)
  BY <1>1, StoreAvailableType, OfferType, OfferActs DEF Handled
<1> HIDE DEF inZero, offered
<1>5. ActsFor(c, ss, Offer(inZero, out, 0))
  BY <1>1, <1>3, OfferActs, ActsForTwice
<1>6. ActsFor(c, ss, RunStoreBackward(offered, c))
  BY <1>1, <1>4, StoreActs, ActsForTwice
<1> QED
  BY <1>1, <1>5, <1>6, NothingActs DEF StoreAt, inZero, offered

(* An activated component acts for itself; a source whose supply changes   *)
(* offers and spills it.                                                   *)
LEMMA ActivateActs ==
  ASSUME EveryChangeIsTold, IInv, NEW c \in todo, Activate(c)
  PROVE  /\ c \in Comp /\ ActsFor(c, ss, ss')
         /\ \/ Part[c].kind \notin {"PassThrough", "Converter", "Mover", "Mux",
                                    "ScheduleBasedSource"}
            \/ c \in ss.down
            \/ AsksRight(ss', c) /\ OffersRight(model, ss', c) /\ SpillsRight(model, ss', c)
            \/ ss' = ss /\ ~ SupplyIsDue(c)
<1>1. ss \in State /\ WasteIsDisposedOf
  BY DEF IInv, TypeOK, EveryChangeIsTold
<1>2. CASE pc = "loads" /\ ss' = ScheduledLoadAt(c)
  <2>1. c \in Comp /\ Part[c].kind = "ScheduleBasedLoad"
    BY <1>2, VisitsOfPhases DEF Loads, OfKind
  <2>2. Inflow[c][0] \in Conn /\ Connection[Inflow[c][0]].to = c
        /\ Part[c].kind \notin Passive
    BY <2>1, KnownKind, InflowType DEF WellConnected, Passive
  <2>3. ActsFor(c, ss, ss')
    BY <1>1, <1>2, <2>2, RequestActs, NothingActs DEF ScheduledLoadAt
  <2> QED
    BY <2>1, <2>3
<1>3. CASE pc = "sources" /\ ss' = ScheduledSourceAt(c)
  <2>1. c \in Comp /\ Part[c].kind = "ScheduleBasedSource"
    BY <1>3, VisitsOfPhases DEF Sources, OfKind
  <2>2. Outflow[c][0] \in Conn /\ Connection[Outflow[c][0]].from = c
        /\ Part[c].kind \notin Passive
    BY <2>1, KnownKind, OutflowType DEF WellConnected, Passive
  <2>3. CASE c \in ss.down
    BY <1>1, <1>3, <2>1, <2>2, <2>3, OfferActs DEF ScheduledSourceAt
  <2>4. CASE c \notin ss.down /\ ScheduledNow(model.avail[c], ss.srcIdx[c])
    <3>1. ss' = RunScheduleBasedSourceBackward(model, ss, c)
      BY <1>3, <2>4 DEF ScheduledSourceAt, RunScheduleBasedSourceBackward
    <3>2. Supplied(model, ss, c) \in Flow
      BY <1>1, <2>1, ModelSchedules, SuppliedFlow DEF IInv, TypeOK
    <3>3. LET r == RunScheduleBasedSourceBackward(model, ss, c)
          IN  /\ ActsFor(c, ss, r)
              /\ AsksRight(r, c) /\ OffersRight(model, r, c) /\ SpillsRight(model, r, c)
      BY <1>1, <2>1, <3>2, SourceIsRight
    <3> QED
      BY <2>1, <3>1, <3>3
  <2>5. CASE c \notin ss.down /\ ~ ScheduledNow(model.avail[c], ss.srcIdx[c])
    <3>1. ss' = ss /\ ~ SupplyIsDue(c)
      BY <1>3, <2>5 DEF ScheduledSourceAt, SupplyIsDue
    <3> QED
      BY <2>1, <3>1, NothingActs
  <2> QED
    BY <2>3, <2>4, <2>5
<1>4. CASE pc = "stores" /\ ss' = StoreAt(c)
  BY <1>4, VisitsOfPhases, StoreAtActs DEF Stores, OfKind
<1>5. CASE pc = "constantLoads" /\ ss' = Request(ss, Inflow[c][0], Part[c].load)
  <2>1. c \in Comp /\ Part[c].kind = "ConstantLoad"
    BY <1>5, VisitsOfPhases DEF OfKind
  <2>2. Inflow[c][0] \in Conn /\ Connection[Inflow[c][0]].to = c
        /\ Part[c].kind \notin Passive
    BY <2>1, KnownKind, InflowType DEF WellConnected, Passive
  <2> QED
    BY <1>1, <1>5, <2>1, <2>2, RequestActs
<1>6. CASE pc = "constantSources" /\ ss' = ConstantSourceAt(c)
  <2>1. c \in Comp /\ Part[c].kind = "ConstantSource"
    BY <1>6, VisitsOfPhases DEF OfKind
  <2>2. Outflow[c][0] \in Conn /\ Connection[Outflow[c][0]].from = c
        /\ Part[c].kind \notin Passive
    BY <2>1, KnownKind, OutflowType DEF WellConnected, Passive
  <2> QED
    BY <1>1, <1>6, <2>1, <2>2, OfferActs DEF ConstantSourceAt
<1> QED
  BY <1>2, <1>3, <1>4, <1>5, <1>6 DEF Activate

LEMMA ActivateKeepsSolverInv ==
  ASSUME EveryChangeIsTold, IInv, SolverInv, NEW c \in todo, Activate(c)
  PROVE  SolverInv'
<1>1. /\ pc \in {"loads", "sources", "stores", "constantLoads", "constantSources"}
      /\ UNCHANGED <<model, t, pc>> /\ todo' = todo \ {c}
  BY DEF Activate
<1>2. ss' \in State /\ ss'.down = ss.down /\ ss'.srcIdx = ss.srcIdx
  BY ActivateHandles DEF Handled
<1>3. /\ c \in Comp /\ ActsFor(c, ss, ss')
      /\ \/ Part[c].kind \notin {"PassThrough", "Converter", "Mover", "Mux",
                                 "ScheduleBasedSource"}
         \/ c \in ss.down
         \/ AsksRight(ss', c) /\ OffersRight(model, ss', c) /\ SpillsRight(model, ss', c)
         \/ ss' = ss /\ ~ SupplyIsDue(c)
  BY ActivateActs
<1>4. Running
  BY <1>1 DEF Running
<1>5. ASSUME NEW d \in Comp, d # c, SupplyIsDue(d) PROVE SupplyIsDue(d)'
  BY <1>1, <1>2, <1>5 DEF SupplyIsDue, ScheduledNow
<1>6. ASSUME c \notin ss.down
      PROVE  UpToDate(model, ss', c, PendingBack', PendingFront')
  <2>1. CASE Part[c].kind \notin {"PassThrough", "Converter", "Mover", "Mux",
                                  "ScheduleBasedSource"}
    BY <2>1 DEF UpToDate, AsksRight, OffersRight, SpillsRight
  <2>2. CASE AsksRight(ss', c) /\ OffersRight(model, ss', c) /\ SpillsRight(model, ss', c)
    BY <2>2 DEF UpToDate
  <2>3. CASE ss' = ss /\ ~ SupplyIsDue(c)
    <3>1. UpToDate(model, ss, c, PendingBack, PendingFront)
      BY <1>3, <1>4, <1>6, <2>3 DEF SolverInv, EveryoneIsTold, Running
    <3>2. PendingBack' = PendingBack /\ PendingFront' = PendingFront
      BY <1>1, <2>3 DEF PendingBack, PendingFront
    <3> QED
      BY <2>3, <3>1, <3>2
  <2> QED
    BY <1>3, <1>6, <2>1, <2>2, <2>3
<1>7. EveryoneIsTold' /\ NobodyAsksOutside'
  BY <1>1, <1>2, <1>3, <1>4, <1>5, <1>6, Activated
<1>8. MoversAreInService'
  BY <1>2 DEF SolverInv, MoversAreInService
<1> QED
  BY <1>7, <1>8 DEF SolverInv


LEMMA ActivateReliabilityKeepsSolverInv ==
  ASSUME EveryChangeIsTold, IInv, model \in Models, SolverInv,
         NEW i \in todo, ActivateReliability(i)
  PROVE  SolverInv'
<1>1. /\ pc = "reliability" /\ Running /\ UNCHANGED <<model, t>>
      /\ i \in DOMAIN model.rel /\ model.rel[i].comp \in Comp /\ ss \in State
      /\ SchedulesOfFlows(model) /\ IndicesInRange(model, ss)
  BY VisitsOfPhases, ModelSchedules DEF ActivateReliability, Running, IInv, TypeOK
<1> DEFINE c == model.rel[i].comp
<1>2. \/ UNCHANGED <<ss, pc>>
      \/ pc' = "exited" /\ UNCHANGED ss
      \/ \E j \in StatesNow(i) :
           /\ UNCHANGED pc
           /\ ~ model.rel[i].states[j].state
           /\ ss' = SetComponentToFailed(ss, c)
      \/ \E j \in StatesNow(i) :
           /\ UNCHANGED pc
           /\ model.rel[i].states[j].state
           /\ \E k \in RepairedLoadConns(c) : ss' = SetComponentToRepaired(model, ss, c, k)
  BY DEF ActivateReliability
<1>3. CASE UNCHANGED <<ss, pc>>
  <2>1. PendingBack' = PendingBack /\ PendingFront' = PendingFront
    BY <1>1, <1>3 DEF PendingBack, PendingFront
  <2>2. \A d \in Comp : SupplyIsDue(d) => SupplyIsDue(d)'
    BY <1>1, <1>3 DEF SupplyIsDue, ScheduledNow
  <2> QED
    BY <1>1, <1>3, <2>1, <2>2, NobodyActs
<1>4. CASE pc' = "exited" /\ UNCHANGED ss
  <2>1. PendingFront' = PendingFront
    BY <1>1, <1>4 DEF PendingFront
  <2>2. NobodyAsksOutside' /\ MoversAreInService' /\ EveryoneIsTold'
    BY <1>4, <2>1 DEF SolverInv, NobodyAsksOutside, MoversAreInService, EveryoneIsTold
  <2> QED
    BY <2>2 DEF SolverInv
<1>5. ASSUME UNCHANGED pc, NEW d, ss'.srcIdx = ss.srcIdx, SupplyIsDue(d)
      PROVE  SupplyIsDue(d)'
  BY <1>1, <1>5 DEF SupplyIsDue, ScheduledNow
<1>6. ASSUME NEW j \in StatesNow(i), UNCHANGED pc, ~ model.rel[i].states[j].state,
             ss' = SetComponentToFailed(ss, c)
      PROVE  SolverInv'
  <2>1. Part[c].kind # "Mover"
    <3>1. j \in DOMAIN model.rel[i].states
      BY DEF StatesNow
    <3> QED
      BY <1>1, <1>6, <3>1 DEF EveryChangeIsTold, ChangesAreTold
  <2>2. ss' \in State /\ ss'.srcIdx = ss.srcIdx /\ ss'.down = ss.down \cup {c}
    BY <1>1, <1>6, FailedType DEF Kept
  <2>3. ActsFor(c, ss, ss')
    BY <1>1, <1>6, <2>1, FailureActs
  <2> HIDE DEF c
  <2>4. \A d \in Comp \ ss'.down : d # c =>
             d \notin ss.down /\ (SupplyIsDue(d) => SupplyIsDue(d)')
    BY <1>5, <1>6, <2>2
  <2>5. c \notin Comp \ ss'.down
    BY <2>2
  <2>6. UNCHANGED <<model, t, pc>> /\ pc \notin {"backward", "forward"}
    BY <1>1, <1>6
  <2>7. EveryoneIsTold' /\ NobodyAsksOutside'
    BY <1>1, <2>2, <2>3, <2>4, <2>5, <2>6, Activated
  <2>8. MoversAreInService'
    BY <2>1, <2>2 DEF SolverInv, MoversAreInService
  <2> QED
    BY <2>7, <2>8 DEF SolverInv
<1>7. ASSUME NEW j \in StatesNow(i), UNCHANGED pc, model.rel[i].states[j].state,
             NEW k \in RepairedLoadConns(c),
             ss' = SetComponentToRepaired(model, ss, c, k)
      PROVE  SolverInv'
  <2>1. Part[c].kind \notin {"PassThrough", "ScheduleBasedLoad", "ScheduleBasedSource"}
    <3>1. j \in DOMAIN model.rel[i].states
      BY DEF StatesNow
    <3> QED
      BY <1>1, <1>7, <3>1 DEF EveryChangeIsTold, ChangesAreTold
  <2>2. ss' \in State /\ ss'.srcIdx = ss.srcIdx /\ ss'.down = ss.down \ {c}
    BY <1>1, <1>7, RepairedType DEF Kept
  <2>3. ActsFor(c, ss, ss') /\ UpToDate(model, ss', c, ss'.back, ss'.front)
    BY <1>1, <1>7, <2>1, RepairSees
  <2> HIDE DEF c
  <2>4. \A d \in Comp \ ss'.down : d # c =>
          d \notin ss.down /\ (SupplyIsDue(d) => SupplyIsDue(d)')
    BY <1>5, <1>7, <2>2
  <2>5. PendingBack' = ss'.back /\ PendingFront' = ss'.front
    BY <1>1, <1>7 DEF PendingBack, PendingFront
  <2>6. UpToDate(model, ss', c, PendingBack', PendingFront')
    BY <2>3, <2>5
  <2>7. UNCHANGED <<model, t, pc>> /\ pc \notin {"backward", "forward"}
    BY <1>1, <1>7
  <2>8. EveryoneIsTold' /\ NobodyAsksOutside'
    BY <1>1, <2>2, <2>3, <2>4, <2>6, <2>7, Activated
  <2>9. MoversAreInService'
    BY <2>2 DEF SolverInv, MoversAreInService
  <2> QED
    BY <2>8, <2>9 DEF SolverInv
<1> HIDE DEF c
<1> QED
  BY <1>2, <1>3, <1>4, <1>6, <1>7

-----------------------------------------------------------------------------
(* The end of a pass, and of a time.                                       *)

(* The actual flows concern no handler, and the waste of a store only a    *)
(* sink.                                                                   *)
LEMMA FinalizeKeepsSolverInv ==
  ASSUME EveryChangeIsTold, IInv, SolverInv, Finalize
  PROVE  SolverInv'
<1>1. /\ ss \in State /\ Running /\ pc = "finalize" /\ pc' \in {"switches", "loop"}
      /\ UNCHANGED <<model, t>>
  BY DEF Finalize, IInv, TypeOK, Running
<1>2. ss' \in State /\ ss'.down = ss.down /\ ss'.srcIdx = ss.srcIdx
  BY FinalizeHandles DEF Handled
<1> DEFINE IsWaste(k) == /\ Connection[k].from \in Stores
                         /\ Connection[k].fromPort = WastePort(Connection[k].from)
<1>3. /\ ss'.back = ss.back /\ ss'.front = ss.front
      /\ \A k \in Conn : ~ IsWaste(k) =>
           ss'.req[k] = ss.req[k] /\ ss'.avail[k] = ss.avail[k]
  <2> DEFINE f == FinalizeFlows(ss)
  <2>1. /\ f.req = ss.req /\ f.avail = ss.avail /\ f.back = ss.back
        /\ f.front = ss.front /\ f \in State
    BY <1>1, FinalizeFlowsType DEF FinalizeFlows, Handled, State
  <2>2. ss' = RunStoresPostFinalization(f)
    BY DEF Finalize
  <2> HIDE DEF f
  <2> QED
    BY <2>1, <2>2 DEF RunStoresPostFinalization, State
<1>4. PendingBack' = PendingBack /\ PendingFront' = PendingFront
  BY <1>1, <1>3 DEF PendingBack, PendingFront
<1>5. ASSUME NEW d \in Comp
      PROVE  Sees(model, d, ss, ss', {}, {})
  <2>1. CASE Part[d].kind \in {"PassThrough", "Converter", "Mover", "Mux",
                               "ScheduleBasedSource"}
    <3>1. \A k \in Inflows(d) \cup Outflows(d) : k \in Conn /\ ~ IsWaste(k)
      <4>1. ASSUME NEW k \in Outflows(d) PROVE k \in Conn /\ ~ IsWaste(k)
        BY <2>1 DEF Outflows, Stores, OfKind
      <4>2. ASSUME NEW k \in Inflows(d) PROVE k \in Conn /\ ~ IsWaste(k)
        BY <2>1 DEF Inflows, Stores, OfKind, EveryChangeIsTold, WasteIsDisposedOf
      <4> QED
        BY <4>1, <4>2
    <3> HIDE DEF IsWaste
    <3>2. HasBeenTold(d, ss, ss')
      BY <1>2, <1>3, <3>1 DEF HasBeenTold
    <3>3. \A back, front : ~ Awaits(back, front, {}, {})
      BY DEF Awaits
    <3> QED
      BY <1>1, <1>2, <3>2, <3>3, ToldOfRequests, ToldOfSupplies, ToldOfSpills
         DEF Sees, EveryChangeIsTold
  <2>2. CASE Part[d].kind \notin {"PassThrough", "Converter", "Mover", "Mux",
                                  "ScheduleBasedSource"}
    BY <2>2, NothingToSee
  <2> QED
    BY <2>1, <2>2
<1>6. \A d \in Comp : ~ SupplyIsDue(d)
  BY <1>1 DEF SupplyIsDue
<1>7. EveryoneIsTold'
  BY <1>1, <1>2, <1>4, <1>5, <1>6, EveryoneStaysTold
<1>8. NobodyAsksOutside' /\ MoversAreInService'
  BY <1>2, <1>4 DEF SolverInv, NobodyAsksOutside, MoversAreInService
<1> QED
  BY <1>7, <1>8 DEF SolverInv

LEMMA RunSwitchLogicKeepsSolverInv ==
  ASSUME EveryChangeIsTold, IInv, SolverInv, RunSwitchLogic
  PROVE  SolverInv'
<1>1. /\ ss \in State /\ Running /\ pc = "switches" /\ todo = {}
      /\ OfKind("Switch") = {} /\ UNCHANGED <<model, t, todo>>
      /\ pc' \in {"loop", "backward"}
  BY VisitsOfPhases DEF RunSwitchLogic, IInv, TypeOK, Running, EveryChangeIsTold
<1>2. ss' \in State /\ ss'.down = ss.down /\ ss'.srcIdx = ss.srcIdx
  BY RunSwitchLogicHandles DEF Handled
<1>3. /\ ss'.req = ss.req /\ ss'.avail = ss.avail
      /\ ss'.back = ss.back /\ ss'.front = ss.front
  BY <1>1 DEF RunSwitchLogic, State
<1>4. PendingBack' = PendingBack /\ PendingFront' = PendingFront
  BY <1>1, <1>3 DEF PendingBack, PendingFront
<1>5. \A d \in Comp : ~ SupplyIsDue(d)
  BY <1>1 DEF SupplyIsDue
<1> QED
  BY <1>1, <1>2, <1>3, <1>4, <1>5, NobodyActs

(* The rules look at no index but that of the source they are about.       *)
LEMMA OnlySupplyMoves ==
  ASSUME NEW sch, NEW s, NEW r, NEW d,
         r.req = s.req, r.avail = s.avail,
         Part[d].kind = "ScheduleBasedSource" => r.srcIdx[d] = s.srcIdx[d]
  PROVE  /\ AsksRight(s, d) => AsksRight(r, d)
         /\ OffersRight(sch, s, d) => OffersRight(sch, r, d)
         /\ SpillsRight(sch, s, d) => SpillsRight(sch, r, d)
<1>1. /\ MuxRequests(r, d) = MuxRequests(s, d) /\ MuxSupplies(r, d) = MuxSupplies(s, d)
      /\ Wanted(r, d) = Wanted(s, d) /\ Made(r, d) = Made(s, d)
      /\ Taken(r, d) = Taken(s, d) /\ PutOut(r, d) = PutOut(s, d)
  BY DEF MuxRequests, MuxSupplies, Wanted, Made, Taken, PutOut
<1>2. /\ MuxDemands(r, d) = MuxDemands(s, d) /\ MuxOffers(r, d) = MuxOffers(s, d)
      /\ Needed(r, d) = Needed(s, d)
      /\ \A loss : LossTaken(r, d, loss) = LossTaken(s, d, loss)
      /\ Part[d].kind = "ScheduleBasedSource" => Supplied(sch, r, d) = Supplied(sch, s, d)
  BY <1>1 DEF MuxDemands, MuxOffers, Needed, LossTaken, Supplied
<1>3. AsksRight(s, d) => AsksRight(r, d)
  BY <1>1, <1>2 DEF AsksRight
<1>4. OffersRight(sch, s, d) => OffersRight(sch, r, d)
  BY <1>1, <1>2 DEF OffersRight
<1>5. SpillsRight(sch, s, d) => SpillsRight(sch, r, d)
  BY <1>1, <1>2 DEF SpillsRight, ConverterSpillsRight, MoverSpillsRight,
                    SourceSpillsRight, Carries
<1> QED
  BY <1>3, <1>4, <1>5

LEMMA AdvanceKeepsSolverInv ==
  ASSUME EveryChangeIsTold, IInv, SolverInv, Advance
  PROVE  SolverInv'
<1>1. /\ ss \in State /\ Running /\ pc = "advance" /\ todo = {} /\ UNCHANGED model
      /\ pc' \in {"reliability", "assertionFailed"}
  BY VisitsOfPhases DEF Advance, IInv, TypeOK, Running
<1>2. /\ ss'.req = ss.req /\ ss'.avail = ss.avail /\ ss'.down = ss.down
      /\ ss'.back = ss.back /\ ss'.front = ss.front
  BY <1>1 DEF Advance, State
<1>3. PendingBack' = PendingBack /\ PendingFront' = PendingFront
  BY <1>1, <1>2 DEF PendingBack, PendingFront
<1>4. ASSUME pc' = "reliability", NEW d \in Comp
      PROVE  Sees(model, d, ss, ss', {}, {}) \/ SupplyIsDue(d)'
  <2>1. PICK next \in NextEvents \cup {FinalTime} :
          /\ ss'.srcIdx = [c \in Sources |-> IndexAt(model.avail[c], ss.srcIdx[c], next)]
          /\ t' = next
    BY <1>1, <1>4 DEF Advance, State
  <2>2. CASE Part[d].kind = "ScheduleBasedSource" => ss'.srcIdx[d] = ss.srcIdx[d]
    <3>1. \A back, front : ~ Awaits(back, front, {}, {})
      BY DEF Awaits
    <3> QED
      BY <1>2, <2>2, <3>1, OnlySupplyMoves DEF Sees
  <2>3. CASE Part[d].kind = "ScheduleBasedSource" /\ ss'.srcIdx[d] # ss.srcIdx[d]
    <3>1. d \in Sources
      BY <2>3 DEF Sources, OfKind
    <3>2. ss'.srcIdx[d] = IndexAt(model.avail[d], ss.srcIdx[d], next)
      BY <2>1, <3>1
    <3>3. /\ ss'.srcIdx[d] = ss.srcIdx[d] + 1
          /\ ss.srcIdx[d] + 1 <= Len(model.avail[d])
          /\ model.avail[d][ss.srcIdx[d] + 1].time = next
      BY <2>3, <3>2 DEF IndexAt
    <3> QED
      BY <1>1, <1>4, <2>1, <3>1, <3>3 DEF SupplyIsDue, ScheduledNow
  <2> QED
    BY <2>2, <2>3
<1>5. \A d \in Comp : ~ SupplyIsDue(d)
  BY <1>1 DEF SupplyIsDue
<1>6. EveryoneIsTold'
  <2>1. CASE pc' = "reliability"
    BY <1>1, <1>2, <1>3, <1>4, <1>5, <2>1, EveryoneStaysTold
  <2>2. CASE pc' = "assertionFailed"
    BY <2>2 DEF EveryoneIsTold
  <2> QED
    BY <1>1, <2>1, <2>2
<1>7. NobodyAsksOutside' /\ MoversAreInService'
  BY <1>2, <1>3 DEF SolverInv, NobodyAsksOutside, MoversAreInService
<1> QED
  BY <1>6, <1>7 DEF SolverInv

LEMMA NextKeepsSolverInv ==
  ASSUME EveryChangeIsTold, IInv, model \in Models, SolverInv, [Next]_vars
  PROVE  SolverInv'
<1>1. CASE UNCHANGED vars /\ ~ Running
  BY <1>1 DEF vars, SolverInv, EveryoneIsTold, NobodyAsksOutside, MoversAreInService,
              PendingFront, Running
<1>2. CASE Running /\ (NextPhase \/ BeginRun \/ TakeBackward \/ TakeForward
                        \/ EndBackward \/ EndForward \/ Record \/ UNCHANGED vars)
  BY <1>2, MovingOnKeepsSolverInv
<1>3. NextPhase \/ BeginRun \/ TakeBackward \/ TakeForward \/ EndBackward
        \/ EndForward \/ Record => Running
  BY DEF NextPhase, BeginRun, TakeBackward, TakeForward, EndBackward, EndForward,
         Record, Running, PhaseAfter
<1>4. CASE \E i \in todo : ActivateReliability(i)
  BY <1>4, ActivateReliabilityKeepsSolverInv
<1>5. CASE \E c \in todo : Activate(c)
  BY <1>5, ActivateKeepsSolverInv
<1>6. CASE \E k \in todo : StepBackward(k) \/ StepForward(k)
  BY <1>6, StepsKeepSolverInv
<1>7. CASE Finalize
  BY <1>7, FinalizeKeepsSolverInv
<1>8. CASE RunSwitchLogic
  BY <1>8, RunSwitchLogicKeepsSolverInv
<1>9. CASE Advance
  BY <1>9, AdvanceKeepsSolverInv
<1> QED
  BY <1>1, <1>2, <1>3, <1>4, <1>5, <1>6, <1>7, <1>8, <1>9 DEF Next, Terminated


-----------------------------------------------------------------------------
(* The initial state: nothing is asked and nothing is offered.             *)

LEMMA LookupAtZero ==
  ASSUME NEW table \in Table
  PROVE  LookupInterp(table, 0) \in Ratio
<1>1. /\ table.xs \in Seq(Nat) /\ table.ys \in Seq(Nat \ {0}) /\ table.den \in Nat \ {0}
      /\ table.xs # <<>> /\ Len(table.xs) = Len(table.ys)
  BY DEF Table
<1>2. 1 \in 1 .. Len(table.xs) /\ 1 \in 1 .. Len(table.ys)
  BY <1>1
<1>3. table.xs[1] \in Nat /\ table.ys[1] \in Nat \ {0}
  BY <1>1, <1>2
<1>4. 0 <= table.xs[1]
  BY <1>3
<1>5. LookupInterp(table, 0) = [num |-> table.ys[1], den |-> table.den]
  BY <1>4 DEF LookupInterp
<1> QED
  BY <1>1, <1>3, <1>5 DEF Ratio

LEMMA ConversionOfNothing ==
  ASSUME NEW r \in Ratio
  PROVE  CeilDiv(0, r) = 0 /\ FloorMul(0, r) = 0
<1>1. r.num \in Nat \ {0} /\ r.den \in Nat \ {0}
  BY DEF Ratio
<1>2. 0 * r.den = 0 /\ 0 * r.num = 0
  BY <1>1
<1>3. (0 + r.num - 1) \div r.num = 0 /\ 0 \div r.den = 0
  BY <1>1
<1> QED
  BY <1>2, <1>3, FlowIsNat DEF CeilDiv, FloorMul, ToFlow

LEMMA PrefixOfNothing ==
  ASSUME NEW n \in Nat, NEW flows, \A i \in 1 .. n : flows[i] = 0
  PROVE  \A m \in 0 .. n : Prefix(flows, m) = 0
<1> DEFINE S == {m \in Nat : m <= n => Prefix(flows, m) = 0}
<1>1. /\ Prefix(flows, 0) = 0
      /\ \A m \in 0 .. n - 1 : Prefix(flows, m + 1) = Prefix(flows, m) + flows[m + 1]
  BY PrefixStep
<1>2. S \subseteq Nat /\ 0 \in S
  BY <1>1
<1>3. ASSUME NEW m \in S PROVE m + 1 \in S
  <2>1. SUFFICES ASSUME m + 1 <= n PROVE Prefix(flows, m + 1) = 0
    OBVIOUS
  <2>2. m \in 0 .. n - 1 /\ m + 1 \in 1 .. n /\ Prefix(flows, m) = 0
    BY <1>3, <2>1
  <2> QED
    BY <1>1, <2>2
<1> HIDE DEF S
<1>4. S = Nat
  BY <1>2, <1>3, SetInduction
<1> QED
  BY <1>4 DEF S

LEMMA AtMostNothing ==
  /\ \A limit \in Nat : AtMost(0, limit) = 0
  /\ \A v \in Nat : AtMost(v, 0) = 0 /\ Monus(0, v) = 0
  BY DEF AtMost, Monus

(* A mux that is asked nothing and offered nothing.                        *)
LEMMA IdleMux ==
  ASSUME NEW s \in State, NEW c \in Comp, Part[c].kind = "Mux",
         \A k \in Conn : s.req[k] = 0 /\ s.avail[k] = 0
  PROVE  /\ \A k \in MuxIns(c) : MuxDemands(s, c)[k] = 0
         /\ \A k \in MuxOuts(c) : MuxOffers(s, c)[k] = 0
<1> DEFINE inports  == Part[c].inports
           outports == Part[c].outports
           limit    == Part[c].maxOutflows
           wanted   == MuxRequests(s, c)
           supplied == MuxSupplies(s, c)
           served   == [i \in 1 .. outports |-> Given(wanted, 0, i)]
           room     == [i \in 1 .. outports |-> limit[i] - served[i]]
<1>1. /\ inports \in Nat \ {0} /\ outports \in Nat \ {0}
      /\ \A i \in 1 .. outports : limit[i] \in Flow /\ limit[i] \in Nat
  BY MuxParts, FlowIsNat
<1>2. \A i \in 1 .. outports : wanted[i] = 0
  <2> TAKE i \in 1 .. outports
  <2>1. i - 1 \in OutPorts(c)
    BY <1>1 DEF OutPorts
  <2>2. s.req[Outflow[c][i - 1]] = 0
    BY <2>1, MuxEnds
  <2> HIDE DEF limit
  <2> QED
    BY <1>1, <2>2, AtMostNothing DEF MuxRequests, limit
<1>3. \A i \in 1 .. inports : supplied[i] = 0
  <2> TAKE i \in 1 .. inports
  <2>1. i - 1 \in InPorts(c)
    BY <1>1 DEF InPorts
  <2> QED
    BY <2>1, MuxEnds DEF MuxSupplies
<1> HIDE DEF inports, outports, limit, wanted, supplied
<1>4. SafeTotal(wanted, outports) = 0 /\ SafeTotal(supplied, inports) = 0
  <2>1. Prefix(wanted, outports) = 0 /\ Prefix(supplied, inports) = 0
    BY <1>1, <1>2, <1>3, PrefixOfNothing
  <2> QED
    BY <2>1, AtMostNothing, FlowAssumption DEF SafeTotal
<1>5. ASSUME NEW n \in Nat, NEW claims, \A i \in 1 .. n : claims[i] \in Nat
      PROVE  LeftAfter(claims, 0, n) = 0
  <2>1. 0 \in Nat
    OBVIOUS
  <2>2. LeftAfter(claims, 0, n) \in 0 .. 0
    BY <1>5, <2>1, LeftAfterType
  <2> QED
    BY <2>2
<1>6. \A k \in MuxIns(c) : MuxDemands(s, c)[k] = 0
  <2> TAKE k \in MuxIns(c)
  <2>1. MuxDemands(s, c)[k] = LeftAfter(supplied, 0, Connection[k].toPort)
    BY <1>4 DEF MuxDemands, MuxIns, wanted, supplied, outports
  <2>2. Connection[k].toPort \in 0 .. inports - 1
    BY MuxEnds DEF MuxIns, InPorts, inports
  <2>3. Connection[k].toPort \in Nat
        /\ \A i \in 1 .. Connection[k].toPort : supplied[i] \in Nat
    BY <1>1, <1>3, <2>2
  <2> QED
    BY <1>5, <2>1, <2>3
<1>7. \A i \in 1 .. outports : served[i] = 0
  <2> TAKE i \in 1 .. outports
  <2>1. i - 1 \in Nat /\ \A j \in 1 .. i - 1 : wanted[j] \in Nat
    BY <1>1, <1>2
  <2>2. LeftAfter(wanted, 0, i - 1) = 0
    BY <1>5, <2>1
  <2> QED
    BY <1>2, <2>2, AtMostNothing DEF Given
<1> HIDE DEF served
<1>8. \A i \in 1 .. outports : room[i] \in Nat
  BY <1>1, <1>7
<1> HIDE DEF room
<1>9. \A k \in MuxOuts(c) : MuxOffers(s, c)[k] = 0
  <2> TAKE k \in MuxOuts(c)
  <2> DEFINE n    == Connection[k].fromPort + 1
             left == LeftAfter(wanted, 0, outports)
  <2>1. MuxOffers(s, c)[k] = served[n] + Given(room, left, n)
    BY <1>4 DEF MuxOffers, MuxOuts, wanted, supplied, inports, outports, served,
                room, limit
  <2>2. n \in 1 .. outports
    BY <1>1, MuxEnds DEF MuxOuts, OutPorts, outports
  <2>3. left = 0
    BY <1>1, <1>2, <1>5
  <2> HIDE DEF n, left
  <2>4. n - 1 \in Nat /\ \A j \in 1 .. n - 1 : room[j] \in Nat
    BY <1>1, <1>8, <2>2
  <2>5. LeftAfter(room, 0, n - 1) = 0
    BY <1>5, <2>4
  <2>6. Given(room, left, n) = 0
    BY <1>8, <2>2, <2>3, <2>5, AtMostNothing DEF Given
  <2> QED
    BY <1>7, <2>1, <2>2, <2>6
<1> QED
  BY <1>6, <1>9

LEMMA IdleIsRight ==
  ASSUME EveryChangeIsTold, NEW sch, NEW s \in State, NEW d \in Comp,
         Part[d].kind # "ScheduleBasedSource",
         \A k \in Conn : s.req[k] = 0 /\ s.avail[k] = 0
  PROVE  UpToDate(sch, s, d, {}, {})
<1>1. CASE Part[d].kind = "PassThrough"
  <2>1. Part[d].maxOutflow \in Nat
    BY <1>1, LoadAndSourceParts, FlowIsNat
  <2>2. Inflow[d][0] \in Conn /\ Outflow[d][0] \in Conn
    BY <1>1, FirstEnds
  <2> QED
    BY <1>1, <2>1, <2>2, AtMostNothing
       DEF UpToDate, AsksRight, OffersRight, SpillsRight, Wanted
<1>2. CASE Part[d].kind \in {"Converter", "Mover"}
  <2> DEFINE in    == Inflow[d][0]
             out   == Outflow[d][0]
             waste == Outflow[d][WastePort(d)]
  <2>1. /\ Part[d].maxOutflow \in Nat /\ Part[d].maxLossflow \in Nat
        /\ Part[d].byOutflow \in Table /\ Part[d].byInflow \in Table
    <3>1. Part[d] \in PartOfKind[Part[d].kind]
      BY NetworkAssumption
    <3>2. PartOfKind[Part[d].kind] = ConversionPart(Part[d].kind)
      BY <1>2 DEF PartOfKind
    <3>3. Part[d].maxOutflow \in Nat /\ Part[d].maxLossflow \in Nat
      BY <1>2, ConversionParts, FlowIsNat
    <3>4. Part[d] \in ConversionPart(Part[d].kind)
      BY <3>1, <3>2
    <3>5. Part[d].byOutflow \in Table /\ Part[d].byInflow \in Table
      <4> HIDE DEF in, out, waste
      <4> QED
        BY <3>4 DEF ConversionPart
    <3> QED
      BY <3>3, <3>5
  <2>2. in \in Conn /\ out \in Conn /\ waste \in Conn
    BY <1>2, FirstEnds, WasteEnd DEF EveryChangeIsTold
  <2> HIDE DEF in, out, waste
  <2>3. Wanted(s, d) = 0
    BY <2>1, <2>2, AtMostNothing DEF Wanted, out
  <2>4. Needed(s, d) = 0
    BY <2>1, <2>3, LookupAtZero, ConversionOfNothing DEF Needed
  <2>5. Made(s, d) = 0
    <3>1. FloorMul(0, LookupInterp(Part[d].byInflow, 0)) = 0
      BY <2>1, LookupAtZero, ConversionOfNothing
    <3> QED
      BY <2>1, <2>2, <3>1, AtMostNothing DEF Made, in
  <2>6. Taken(s, d) = 0 /\ PutOut(s, d) = 0
    BY <2>1, <2>2, AtMostNothing DEF Taken, PutOut, FinalizeFlowValue, in, out
  <2>7. Monus(0, 0) = 0
    BY DEF Monus
  <2>8. AsksRight(s, d) /\ OffersRight(sch, s, d)
    BY <1>2, <2>2, <2>4, <2>5 DEF AsksRight, OffersRight, in, out
  <2>9. CASE Part[d].kind = "Converter"
    <3>1. CASE HasOutflow(d, LossPort(d))
      <4>1. Outflow[d][LossPort(d)] \in Conn
        BY <2>9, <3>1, LossEnd
      <4>2. LossTaken(s, d, Outflow[d][LossPort(d)]) = 0
        BY <2>1, <4>1, AtMostNothing DEF LossTaken
      <4> QED
        BY <2>1, <2>2, <2>6, <2>7, <2>8, <2>9, <3>1, <4>1, <4>2, AtMostNothing
           DEF UpToDate, SpillsRight, ConverterSpillsRight, Carries, waste
    <3>2. CASE ~ HasOutflow(d, LossPort(d))
      BY <2>2, <2>6, <2>7, <2>8, <2>9, <3>2
         DEF UpToDate, SpillsRight, ConverterSpillsRight, Carries, waste
    <3> QED
      BY <3>1, <3>2
  <2>10. CASE Part[d].kind = "Mover"
    <3>1. Inflow[d][EnvironmentPort] \in Conn
      BY <2>10, EnvironmentEnd DEF EveryChangeIsTold
    <3> QED
      BY <2>2, <2>6, <2>7, <2>8, <2>10, <3>1
         DEF UpToDate, SpillsRight, MoverSpillsRight, Carries, waste
  <2> QED
    BY <1>2, <2>9, <2>10
<1>3. CASE Part[d].kind = "Mux"
  BY <1>3, IdleMux, MuxDomains, MuxEnds DEF UpToDate, AsksRight, OffersRight, SpillsRight
<1>4. CASE Part[d].kind \notin {"PassThrough", "Converter", "Mover", "Mux"}
  BY <1>4 DEF UpToDate, AsksRight, OffersRight, SpillsRight
<1> QED
  BY <1>1, <1>2, <1>3, <1>4

LEMMA InitSolverInv ==
  ASSUME EveryChangeIsTold, Init
  PROVE  SolverInv
<1>1. /\ model \in Models /\ ss \in State /\ ss.down = {} /\ ss.front = {}
      /\ ss.back = {} /\ pc = "reliability" /\ t = 0
      /\ \A k \in Conn : ss.req[k] = 0 /\ ss.avail[k] = 0
      /\ \A c \in Sources : ss.srcIdx[c] = 1
  BY InitialStateType DEF Init, InitialState, Sources
<1>2. PendingBack = {} /\ PendingFront = {}
  BY <1>1 DEF PendingBack, PendingFront
<1>3. ASSUME NEW c \in Sources PROVE SupplyIsDue(c)
  <2>1. model.avail[c][1].time = 0
    BY <1>1 DEF EveryChangeIsTold, ChangesAreTold
  <2>2. 1 \in 1 .. Len(model.avail[c])
    BY <1>1, InitIInv DEF IInv, IndicesInRange, Sources
  <2>3. 1 <= Len(model.avail[c])
    BY <2>2
  <2> QED
    BY <1>1, <2>1, <2>3 DEF SupplyIsDue, ScheduledNow
<1>4. ASSUME NEW c \in Comp, c \notin Sources
      PROVE  UpToDate(model, ss, c, {}, {})
  <2>1. Part[c].kind # "ScheduleBasedSource"
    BY <1>4 DEF Sources, OfKind
  <2> QED
    BY <1>1, <2>1, IdleIsRight
<1>5. EveryoneIsTold
  BY <1>2, <1>3, <1>4 DEF EveryoneIsTold
<1> QED
  BY <1>1, <1>2, <1>5 DEF SolverInv, NobodyAsksOutside, MoversAreInService


-----------------------------------------------------------------------------
(* A component that has nothing to change changes nothing when it is       *)
(* called again.                                                           *)

LEMMA SetAgain ==
  ASSUME NEW s \in State
  PROVE  /\ \A v : \A k \in Conn : s.req[k] = v => Request(s, k, v) = s
         /\ \A v : \A k \in Conn : s.avail[k] = v => Offer(s, k, v) = s
         /\ \A v : \A k \in Conn : Carries(s, k, v) => Spill(s, k, v) = s
<1>1. /\ \A k \in Conn : [s.req EXCEPT ![k] = s.req[k]] = s.req
      /\ \A k \in Conn : [s.avail EXCEPT ![k] = s.avail[k]] = s.avail
  BY DEF State
<1>2. /\ \A f : f = s.req => [s EXCEPT !.req = f] = s
      /\ \A f : f = s.avail => [s EXCEPT !.avail = f] = s
  BY DEF State
<1>3. ASSUME NEW k \in Conn
      PROVE  Request(s, k, s.req[k]) = s /\ Offer(s, k, s.avail[k]) = s
  BY <1>1 DEF Request, Offer, State
<1>4. ASSUME NEW k \in Conn, NEW v, Carries(s, k, v)
      PROVE  Spill(s, k, v) = s
  BY <1>1, <1>4 DEF Spill, Carries, State
<1> QED
  BY <1>3, <1>4

LEMMA SetEachAgain ==
  ASSUME NEW s \in State, NEW f
  PROVE  /\ (\A k \in DOMAIN f : s.req[k] = f[k]) => RequestEach(s, f) = s
         /\ (\A k \in DOMAIN f : s.avail[k] = f[k]) => OfferEach(s, f) = s
<1>1. ASSUME \A k \in DOMAIN f : s.req[k] = f[k]
      PROVE  RequestEach(s, f) = s
  <2>1. [k \in Conn |-> IF k \in DOMAIN f THEN f[k] ELSE s.req[k]] = s.req
    BY <1>1 DEF State
  <2>2. s.back \cup {k \in DOMAIN f : s.req[k] # f[k]} = s.back
    BY <1>1
  <2> QED
    BY <2>1, <2>2 DEF RequestEach, State
<1>2. ASSUME \A k \in DOMAIN f : s.avail[k] = f[k]
      PROVE  OfferEach(s, f) = s
  <2>1. [k \in Conn |-> IF k \in DOMAIN f THEN f[k] ELSE s.avail[k]] = s.avail
    BY <1>2 DEF State
  <2>2. s.front \cup {k \in DOMAIN f : s.avail[k] # f[k]} = s.front
    BY <1>2
  <2> QED
    BY <2>1, <2>2 DEF OfferEach, State
<1> QED
  BY <1>1, <1>2

LEMMA SpilledAgain ==
  ASSUME WasteIsDisposedOf, MoversAreFed, NEW sch, NEW s \in State, NEW c \in Comp,
         Part[c].kind \in {"Converter", "Mover"}, SpillsRight(sch, s, c)
  PROVE  SameFlows(AfterSpilling(s, c), s)
<1> DEFINE waste == Outflow[c][WastePort(c)]
           rest  == Monus(Taken(s, c), PutOut(s, c))
<1>1. waste \in Conn
  BY WasteEnd
<1>2. CASE Part[c].kind = "Converter"
  <2> DEFINE loss == Outflow[c][LossPort(c)]
             left == Monus(rest, LossTaken(s, c, loss))
  <2>1. AfterSpilling(s, c) =
          IF HasOutflow(c, LossPort(c))
            THEN Spill(Offer(s, loss, AtMost(rest, Part[c].maxLossflow)), waste, left)
            ELSE Spill(s, waste, rest)
    BY <1>2 DEF AfterSpilling, UpdateConverterLossflowAndWasteflow, Taken, PutOut
  <2>2. ConverterSpillsRight(s, c)
    BY <1>2 DEF SpillsRight
  <2>3. HasOutflow(c, LossPort(c)) =>
          loss \in Conn /\ s.avail[loss] = AtMost(rest, Part[c].maxLossflow)
          /\ Carries(s, waste, left)
    BY <1>2, <2>2, LossEnd DEF ConverterSpillsRight
  <2>4. ~ HasOutflow(c, LossPort(c)) => Carries(s, waste, rest)
    BY <2>2 DEF ConverterSpillsRight
  <2> HIDE DEF loss, left, waste, rest
  <2>5. AfterSpilling(s, c) = s
    BY <1>1, <2>1, <2>3, <2>4, SetAgain
  <2> QED
    BY <2>5 DEF SameFlows
<1>3. CASE Part[c].kind = "Mover"
  <2> DEFINE env     == Inflow[c][EnvironmentPort]
             fromEnv == Monus(PutOut(s, c), Taken(s, c))
  <2>1. AfterSpilling(s, c) =
          [Spill(Spill(s, env, fromEnv), waste, rest) EXCEPT
             !.actual[env] = fromEnv, !.actual[waste] = rest]
    BY <1>3 DEF AfterSpilling, UpdateEnvironmentFlowForAllMovers, Taken, PutOut
  <2>2. Carries(s, waste, rest) /\ Carries(s, env, fromEnv)
    BY <1>3 DEF SpillsRight, MoverSpillsRight
  <2>3. env \in Conn
    BY <1>3, EnvironmentEnd
  <2> HIDE DEF env, fromEnv, waste, rest
  <2>4. AfterSpilling(s, c) = [s EXCEPT !.actual[env] = fromEnv, !.actual[waste] = rest]
    BY <1>1, <2>1, <2>2, <2>3, SetAgain
  <2> HIDE DEF SameFlows
  <2> QED
    BY <2>4 DEF SameFlows, State
<1> QED
  BY <1>2, <1>3

LEMMA CalledAgain ==
  ASSUME EveryChangeIsTold, NEW sch, NEW s \in State,
         NEW c \in Comp, c \notin s.down, UpToDate(sch, s, c, {}, {})
  PROVE  /\ \A k \in Conn : Connection[k].from = c /\ Part[c].kind # "Store" =>
              SameFlows(RunBackward(sch, s, k), s)
         /\ \A k \in Conn : /\ Connection[k].to = c /\ Part[c].kind # "Store"
                            /\ Part[Connection[k].from].kind # "EnvironmentSource"
                            => SameFlows(RunForward(s, k), s)
<1>1. AsksRight(s, c) /\ OffersRight(sch, s, c) /\ SpillsRight(sch, s, c)
  BY DEF UpToDate, Awaits
<1>2. Part[c].kind # "Switch" /\ WasteIsDisposedOf /\ MoversAreFed
  BY DEF EveryChangeIsTold, OfKind
<1>3. SameFlows(s, s)
  BY DEF SameFlows
<1>4. ASSUME NEW k \in Conn, Connection[k].from = c, Part[c].kind # "Store"
      PROVE  SameFlows(RunBackward(sch, s, k), s)
  <2>1. CASE Part[c].kind = "PassThrough"
    <3>1. RunBackward(sch, s, k) = Request(s, Inflow[c][0], Wanted(s, c))
      BY <1>4, <2>1 DEF RunBackward, RunPassthroughBackward, Wanted
    <3>2. s.req[Inflow[c][0]] = Wanted(s, c)
      BY <1>1, <2>1 DEF AsksRight
    <3> QED
      BY <1>3, <2>1, <3>1, <3>2, FirstEnds, SetAgain
  <2>2. CASE Part[c].kind = "ScheduleBasedSource"
    <3> DEFINE out   == Outflow[c][0]
               waste == Outflow[c][WastePort(c)]
    <3>1. RunBackward(sch, s, k) =
            Spill(Offer(s, out, Supplied(sch, s, c)), waste,
                  Monus(Supplied(sch, s, c), s.req[out]))
      BY <1>4, <2>2 DEF RunBackward, RunScheduleBasedSourceBackward, Supplied
    <3>2. /\ s.avail[out] = Supplied(sch, s, c)
          /\ Carries(s, waste, Monus(Supplied(sch, s, c), s.req[out]))
      BY <1>1, <2>2 DEF OffersRight, SpillsRight, SourceSpillsRight
    <3>3. out \in Conn /\ waste \in Conn
      BY <1>2, <2>2, WasteEnd
    <3> HIDE DEF out, waste
    <3> QED
      BY <1>3, <3>1, <3>2, <3>3, SetAgain
  <2>3. CASE Part[c].kind \in {"Converter", "Mover"}
    <3>1. RunBackward(sch, s, k) =
            IF Connection[k].fromPort = 0
              THEN AfterSpilling(Request(s, Inflow[c][0], Needed(s, c)), c)
              ELSE AfterSpilling(s, c)
      BY <1>4, <2>3, ConversionHandlers DEF RunBackward
    <3>2. Request(s, Inflow[c][0], Needed(s, c)) = s
      <4>1. s.req[Inflow[c][0]] = Needed(s, c)
        BY <1>1, <2>3 DEF AsksRight
      <4> QED
        BY <2>3, <4>1, FirstEnds, SetAgain
    <3> QED
      BY <1>1, <1>2, <2>3, <3>1, <3>2, SpilledAgain
  <2>4. CASE Part[c].kind = "Mux"
    <3>1. RequestEach(s, MuxDemands(s, c)) = s
      BY <1>1, <2>4, SetEachAgain DEF AsksRight
    <3>2. OfferEach(s, MuxOffers(s, c)) = s
      BY <1>1, <2>4, SetEachAgain DEF OffersRight
    <3>3. RunBackward(sch, s, k) = s
      BY <1>4, <2>4, <3>1, <3>2 DEF RunBackward, RunMuxBackward, RunMuxBothWays
    <3> QED
      BY <1>3, <3>3
  <2>5. CASE Part[c].kind \notin {"PassThrough", "ScheduleBasedSource", "Converter",
                                 "Mover", "Mux"}
    BY <1>2, <1>3, <1>4, <2>5 DEF RunBackward
  <2> QED
    BY <2>1, <2>2, <2>3, <2>4, <2>5
<1>5. ASSUME NEW k \in Conn, Connection[k].to = c, Part[c].kind # "Store",
             Part[Connection[k].from].kind # "EnvironmentSource"
      PROVE  SameFlows(RunForward(s, k), s)
  <2>1. CASE Part[c].kind = "PassThrough"
    <3> DEFINE offer == AtMost(s.avail[Inflow[c][0]], Part[c].maxOutflow)
    <3>1. RunForward(s, k) = Offer(s, Outflow[c][0], offer)
      BY <1>5, <2>1 DEF RunForward, RunPassthroughForward
    <3>2. s.avail[Outflow[c][0]] = offer
      BY <1>1, <2>1 DEF OffersRight
    <3> QED
      BY <1>3, <2>1, <3>1, <3>2, FirstEnds, SetAgain
  <2>2. CASE Part[c].kind \in {"Converter", "Mover"}
    <3>1. Part[c].kind = "Mover" => k = Inflow[c][0]
      BY <1>2, <1>5 DEF MoversAreFed
    <3>2. RunForward(s, k) = AfterSpilling(Offer(s, Outflow[c][0], Made(s, c)), c)
      BY <1>5, <2>2, <3>1, ConversionHandlers DEF RunForward
    <3>3. Offer(s, Outflow[c][0], Made(s, c)) = s
      <4>1. s.avail[Outflow[c][0]] = Made(s, c)
        BY <1>1, <2>2 DEF OffersRight
      <4> QED
        BY <2>2, <4>1, FirstEnds, SetAgain
    <3> QED
      BY <1>1, <1>2, <2>2, <3>2, <3>3, SpilledAgain
  <2>3. CASE Part[c].kind = "Mux"
    <3>1. RequestEach(s, MuxDemands(s, c)) = s
      BY <1>1, <2>3, SetEachAgain DEF AsksRight
    <3>2. OfferEach(s, MuxOffers(s, c)) = s
      BY <1>1, <2>3, SetEachAgain DEF OffersRight
    <3>3. RunForward(s, k) = s
      BY <1>5, <2>3, <3>1, <3>2 DEF RunForward, RunMuxForward, RunMuxBothWays
    <3> QED
      BY <1>3, <3>3
  <2>4. CASE Part[c].kind \notin {"PassThrough", "Converter", "Mover", "Mux"}
    BY <1>2, <1>3, <1>5, <2>4 DEF RunForward
  <2> QED
    BY <2>1, <2>2, <2>3, <2>4
<1> QED
  BY <1>4, <1>5


-----------------------------------------------------------------------------
(* The flows recorded.                                                     *)

(* The limit on the iterations has ended the loop of Simulate while        *)
(* connections were scheduled (which SolverConverges says does not happen).*)
CutShort == loopIter = MaxLoop /\ ss.back \cup ss.front # {}

NothingIsLeft == Settled /\ loopIter # MaxLoop => ss.back \cup ss.front = {}

LEMMA NothingIsLeftHolds == Spec => []NothingIsLeft
<1>1. Init => NothingIsLeft
  BY DEF Init, NothingIsLeft, Settled
<1>2. NothingIsLeft /\ [Next]_vars => NothingIsLeft'
  <2> SUFFICES ASSUME NothingIsLeft, [Next]_vars PROVE NothingIsLeft'
    OBVIOUS
  <2>1. CASE Record
    BY <2>1 DEF Record, LoopEnds, NothingIsLeft
  <2>2. CASE UNCHANGED vars
    BY <2>2 DEF vars, NothingIsLeft, Settled
  <2>3. CASE Next /\ ~ Record /\ ~ Terminated
    <3>1. ~ Settled'
      <4>1. CASE \E i \in todo : ActivateReliability(i)
        BY <4>1 DEF ActivateReliability, Settled
      <4>2. CASE (\E c \in todo : Activate(c)) \/ NextPhase
        BY <4>2 DEF Activate, NextPhase, PhaseAfter, Settled
      <4>3. CASE \/ BeginRun \/ TakeBackward \/ TakeForward \/ EndBackward \/ EndForward
                 \/ \E k \in todo : StepBackward(k) \/ StepForward(k)
        BY <4>3 DEF BeginRun, TakeBackward, StepBackward, EndBackward, TakeForward,
                    StepForward, EndForward, Settled
      <4>4. CASE Finalize \/ RunSwitchLogic
        BY <4>4 DEF Finalize, RunSwitchLogic, Settled
      <4>5. CASE Advance
        <5>1. pc' \in {"reliability", "assertionFailed"}
          BY <4>5 DEF Advance
        <5> QED
          BY <5>1 DEF Settled
      <4> QED
        BY <2>3, <4>1, <4>2, <4>3, <4>4, <4>5 DEF Next
    <3> QED
      BY <3>1 DEF NothingIsLeft
  <2> QED
    BY <2>1, <2>2, <2>3 DEF Terminated
<1> QED
  BY <1>1, <1>2, PTL DEF Spec

LEMMA SolverInvHolds ==
  ASSUME EveryChangeIsTold
  PROVE  Spec => []SolverInv
<1>1. Init => SolverInv
  BY InitSolverInv
<1>2. IInv /\ EventInv /\ SolverInv /\ [Next]_vars => SolverInv'
  BY NextKeepsSolverInv DEF EventInv
<1> QED
  BY <1>1, <1>2, IInvHolds, EventInvHolds, PTL DEF Spec

(* Where every change is told, the flows Simulate records for a time are a *)
(* fixed point of the whole network: whatever the order in which the two   *)
(* passes of RunActiveConnections visited the connections, running the     *)
(* handler of any connection again would change no request and no          *)
(* availability - in every network, for every schedule and after every     *)
(* failure and repair, unless the limit on the iterations cut the loop     *)
(* short.                                                                  *)
THEOREM FlowsSettle ==
  ASSUME EveryChangeIsTold
  PROVE  Spec => [](CutShort \/ FlowsAreAFixedPoint)
<1>1. IInv /\ SolverInv /\ NothingIsLeft => CutShort \/ FlowsAreAFixedPoint
  <2> SUFFICES ASSUME IInv, SolverInv, NothingIsLeft, ~ CutShort, Settled,
                      NEW k \in Conn
               PROVE  /\ \/ Connection[k].from \in ss.down
                         \/ Part[Connection[k].from].kind = "Store"
                         \/ SameFlows(RunBackward(model, ss, k), ss)
                      /\ \/ Connection[k].to \in ss.down
                         \/ Part[Connection[k].to].kind = "Store"
                         \/ Part[Connection[k].from].kind = "EnvironmentSource"
                         \/ SameFlows(RunForward(ss, k), ss)
    BY DEF FlowsAreAFixedPoint
  <2>1. ss \in State /\ Connection[k].from \in Comp /\ Connection[k].to \in Comp
    BY ConnectionEnds DEF IInv, TypeOK
  <2>2. ss.back = {} /\ ss.front = {}
    BY DEF CutShort, NothingIsLeft
  <2>3. PendingBack = {} /\ PendingFront = {}
    BY <2>2 DEF PendingBack, PendingFront, Settled
  <2>4. \A c \in Comp \ ss.down : UpToDate(model, ss, c, {}, {})
    BY <2>3 DEF SolverInv, EveryoneIsTold, SupplyIsDue, Settled
  <2>5. Connection[k].from \notin ss.down /\ Part[Connection[k].from].kind # "Store"
          => SameFlows(RunBackward(model, ss, k), ss)
    BY <2>1, <2>4, CalledAgain
  <2>6. /\ Connection[k].to \notin ss.down /\ Part[Connection[k].to].kind # "Store"
        /\ Part[Connection[k].from].kind # "EnvironmentSource"
        => SameFlows(RunForward(ss, k), ss)
    BY <2>1, <2>4, CalledAgain
  <2> QED
    BY <2>5, <2>6
<1> QED
  BY <1>1, IInvHolds, SolverInvHolds, NothingIsLeftHolds, PTL

=============================================================================
