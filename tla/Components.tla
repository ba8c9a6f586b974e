----------------------------- MODULE Components -----------------------------
(***************************************************************************)
(* What each kind of component does when the request on one of its         *)
(* outflows (Backward) or the availability on one of its inflows (Forward) *)
(* was changed by a neighbour.  Each handler takes the simulation state    *)
(* and returns the next one.  sch is the part of the model that varies     *)
(* from scenario to scenario: the schedules.                               *)
(***************************************************************************)
EXTENDS Network

(* How much of the loss its load will take; a slip: as much as it may.     *)
LossAllowed(s, c, loss) == Part[c].maxLossflow
LossTaken(s, c, loss) == AtMost(s.req[loss], Part[c].maxLossflow)

(* Constant and variable efficiency converters: loss and waste flow.       *)
UpdateConverterLossflowAndWasteflow(s, c) ==
  LET in      == Inflow[c][0]
      out     == Outflow[c][0]
      loss    == Outflow[c][LossPort(c)]
      inflow  == FinalizeFlowValue(s.req[in], s.avail[in])
      outflow == FinalizeFlowValue(s.req[out],
                                   AtMost(s.avail[out], Part[c].maxOutflow))
      nonOut  == Monus(inflow, outflow)
      waste   == Outflow[c][WastePort(c)]
  IN  IF HasOutflow(c, LossPort(c))
        THEN Spill(Offer(s, loss, AtMost(nonOut, Part[c].maxLossflow)), waste,
                   Monus(nonOut, LossTaken(s, c, loss)))
        ELSE Spill(s, waste, nonOut)

RunConverterBackward(s, c) ==
  LET wanted == AtMost(s.req[Outflow[c][0]], Part[c].maxOutflow)
      needed == CeilDiv(wanted, LookupInterp(Part[c].byOutflow, wanted))
  IN  Then(Request(s, Inflow[c][0], needed),
           LAMBDA r : UpdateConverterLossflowAndWasteflow(r, c))

RunConverterForward(s, c) ==
  LET given == s.avail[Inflow[c][0]]
      made  == FloorMul(given, LookupInterp(Part[c].byInflow, given))
  IN  Then(Offer(s, Outflow[c][0], AtMost(made, Part[c].maxOutflow)),
           LAMBDA r : UpdateConverterLossflowAndWasteflow(r, c))

-----------------------------------------------------------------------------
(* Constant and variable efficiency movers: what the outflow carries more  *)
(* than the inflow comes from the environment, what it carries less is     *)
(* waste.                                                                  *)
UpdateEnvironmentFlowForAllMovers(s, c) ==
  LET in      == Inflow[c][0]
      out     == Outflow[c][0]
      env     == Inflow[c][EnvironmentPort]
      waste   == Outflow[c][WastePort(c)]
      inflow  == FinalizeFlowValue(s.req[in], s.avail[in])
      outflow == FinalizeFlowValue(s.req[out],
                                   AtMost(s.avail[out], Part[c].maxOutflow))
      fromEnv == Monus(outflow, inflow)
      wasted  == Monus(inflow, outflow)
  IN  [Spill(Spill(s, env, fromEnv), waste, wasted) EXCEPT
         !.actual[env] = fromEnv, !.actual[waste] = wasted]

RunMoverBackward(s, c) ==
  LET wanted == AtMost(s.req[Outflow[c][0]], Part[c].maxOutflow)
      needed == CeilDiv(wanted, LookupInterp(Part[c].byOutflow, wanted))
  IN  Then(Request(s, Inflow[c][0], needed),
           LAMBDA r : UpdateEnvironmentFlowForAllMovers(r, c))

RunMoverForward(s, k, c) ==
  LET given == s.avail[k]
      moved == FloorMul(given, LookupInterp(Part[c].byInflow, given))
  IN  Then(Offer(s, Outflow[c][0], AtMost(moved, Part[c].maxOutflow)),
           LAMBDA r : UpdateEnvironmentFlowForAllMovers(r, c))

-----------------------------------------------------------------------------
(* A slip: the inflow not in use keeps its request.                        *)
RunSwitchBackwardOneSided(s, c) ==
  LET want == s.req[Outflow[c][0]]
  IN  Request(s, Inflow[c][IF s.switch[c] = "Primary" THEN 0 ELSE 1], want)

(* In the Primary state the test that schedules the secondary inflow looks *)
(* at the primary one, which has just been given the request.              *)
RunSwitchBackward(s, c) ==
  LET in0  == Inflow[c][0]
      in1  == Inflow[c][1]
      want == s.req[Outflow[c][0]]
      asked == Request(s, in0, want)
  IN  IF s.switch[c] = "Primary"
        THEN [asked EXCEPT
                !.req[in1] = 0,
                !.back = IF asked.req[in0] # 0 THEN @ \cup {in1} ELSE @]
        ELSE Request(Request(s, in0, 0), in1, want)

(* A slip: the position of the switch is not looked at.                    *)
RunSwitchForwardAny(s, k, c) == Offer(s, Outflow[c][0], s.avail[k])

RunSwitchForward(s, k, c) ==
  IF \/ s.switch[c] = "Primary" /\ k = Inflow[c][0]
     \/ s.switch[c] = "Secondary" /\ k = Inflow[c][1]
    THEN Offer(s, Outflow[c][0], s.avail[k])
    ELSE s

-----------------------------------------------------------------------------
(* A mux asks its inflows, in order, for what the earlier ones leave       *)
(* unserved, and offers its outflows, in order, what they request, then    *)
(* what is left up to their limits.                                        *)
MuxRequests(s, c) ==
  [i \in 1 .. Part[c].outports |->
     AtMost(s.req[Outflow[c][i - 1]], Part[c].maxOutflows[i])]

MuxSupplies(s, c) ==
  [i \in 1 .. Part[c].inports |-> s.avail[Inflow[c][i - 1]]]

MuxDemands(s, c) ==
  LET total == SafeTotal(MuxRequests(s, c), Part[c].outports)
  IN  [k \in {Inflow[c][p] : p \in InPorts(c)} |->
         LeftAfter(MuxSupplies(s, c), total, Connection[k].toPort)]

MuxOffers(s, c) ==
  LET outports == Part[c].outports
      wanted   == MuxRequests(s, c)
      total    == SafeTotal(MuxSupplies(s, c), Part[c].inports)
      served   == [i \in 1 .. outports |-> Given(wanted, total, i)]
      room     == [i \in 1 .. outports |-> Part[c].maxOutflows[i] - served[i]]
      left     == LeftAfter(wanted, total, outports)
  IN  [k \in {Outflow[c][p] : p \in OutPorts(c)} |->
         LET n == Connection[k].fromPort + 1
         IN  served[n] + Given(room, left, n)]

RunMuxBackward(s, c) == RequestEach(s, MuxDemands(s, c))

RunMuxForward(s, c) == OfferEach(s, MuxOffers(s, c))

(* Both passes, in either order: neither reads what the other writes.      *)
RunMuxBothWays(s, c) ==
  OfferEach(RequestEach(s, MuxDemands(s, c)), MuxOffers(s, c))

-----------------------------------------------------------------------------
(* Slips: a store that always asks to be charged, one that offers its      *)
(* discharge rate when it holds nothing.                                   *)
StoreRequestAlways(s, c) ==
  WrapAdd(AtMost(s.req[Outflow[c][0]], Part[c].maxOutflow), Part[c].maxCharge)
StoreAvailableAlways(s, c) ==
  AtMost(UtilSafeAdd(IF HasInflow(c, 0) THEN s.avail[Inflow[c][0]] ELSE 0,
                     Part[c].maxDischarge), Part[c].maxOutflow)

(* A store passes the request downstream on, with a charge request while   *)
(* it holds no more than its charge amount; it offers its inflow and its   *)
(* discharge rate while it holds anything.                                 *)
StoreRequest(s, c) ==
  WrapAdd(AtMost(s.req[Outflow[c][0]], Part[c].maxOutflow),
          IF s.amount[c] <= Part[c].chargeAmount THEN Part[c].maxCharge ELSE 0)

StoreAvailable(s, c) ==
  LET discharge == IF s.amount[c] > 0 THEN Part[c].maxDischarge ELSE 0
      inflow    == IF HasInflow(c, 0) THEN s.avail[Inflow[c][0]] ELSE 0
  IN  AtMost(UtilSafeAdd(inflow, discharge), Part[c].maxOutflow)

RunStoreBackward(s, c) ==
  IF HasInflow(c, 0) THEN Request(s, Inflow[c][0], StoreRequest(s, c)) ELSE s

RunStoreForward(s, c) == Offer(s, Outflow[c][0], StoreAvailable(s, c))

-----------------------------------------------------------------------------
RunScheduleBasedSourceBackward(sch, s, c) ==
  LET out       == Outflow[c][0]
      available == AtMost(sch.avail[c][s.srcIdx[c]].amount, Part[c].maxOutflow)
  IN  Spill(Offer(s, out, available), Outflow[c][WastePort(c)],
            Monus(available, s.req[out]))

RunPassthroughBackward(s, c) ==
  Request(s, Inflow[c][0],
          IF c \in s.down THEN 0
          ELSE AtMost(s.req[Outflow[c][0]], Part[c].maxOutflow))

RunPassthroughForward(s, c) ==
  Offer(s, Outflow[c][0],
        IF c \in s.down THEN 0
        ELSE AtMost(s.avail[Inflow[c][0]], Part[c].maxOutflow))

-----------------------------------------------------------------------------
(* The components the two passes call for connection k.                    *)
RunBackward(sch, s, k) ==
  LET c    == Connection[k].from
      port == Connection[k].fromPort
  IN  CASE Part[c].kind = "PassThrough" -> RunPassthroughBackward(s, c)
        [] Part[c].kind = "ScheduleBasedSource" ->
             RunScheduleBasedSourceBackward(sch, s, c)
        [] Part[c].kind = "Converter" ->
             IF port = 0 THEN RunConverterBackward(s, c)
             ELSE UpdateConverterLossflowAndWasteflow(s, c)
        [] Part[c].kind = "Mux" ->
             IF Part[c].outports > 1
               THEN RunMuxBothWays(s, c)
               ELSE RunMuxBackward(s, c)
        [] Part[c].kind = "Store" -> RunStoreBackward(s, c)
        [] Part[c].kind = "Mover" ->
             IF port = 0 THEN RunMoverBackward(s, c)
             ELSE UpdateEnvironmentFlowForAllMovers(s, c)
        [] Part[c].kind = "Switch" -> RunSwitchBackward(s, c)
        [] OTHER -> s

RunForward(s, k) ==
  LET c == Connection[k].to
  IN  CASE Part[c].kind = "PassThrough" -> RunPassthroughForward(s, c)
        [] Part[c].kind = "Converter" -> RunConverterForward(s, c)
        [] Part[c].kind = "Mover" -> RunMoverForward(s, k, c)
        [] Part[c].kind = "Mux" ->
             IF Part[c].inports > 1
               THEN RunMuxBothWays(s, c)
               ELSE RunMuxForward(s, c)
        [] Part[c].kind = "Store" -> RunStoreForward(s, c)
        [] Part[c].kind = "Switch" -> RunSwitchForward(s, k, c)
        [] OTHER -> s

=============================================================================
