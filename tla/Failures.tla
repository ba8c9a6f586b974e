------------------------------ MODULE Failures ------------------------------
(***************************************************************************)
(* What a failure or a repair of a component does to the simulation state. *)
(***************************************************************************)
EXTENDS Components

ZeroAt(conns) == [k \in conns |-> 0]

(* All three values of a flow are cleared; nobody is scheduled.            *)
ClearFlows(s, conns) ==
  [s EXCEPT
     !.req    = [k \in Conn |-> IF k \in conns THEN 0 ELSE s.req[k]],
     !.avail  = [k \in Conn |-> IF k \in conns THEN 0 ELSE s.avail[k]],
     !.actual = [k \in Conn |-> IF k \in conns THEN 0 ELSE s.actual[k]]]

(* A slip: no case for a source.                                           *)
CanFailButSources(c) ==
  Part[c].kind \in {"ConstantLoad", "ScheduleBasedLoad", "Converter", "Mover",
                    "Mux", "Store", "PassThrough"}

(* The program exits on a failure, or a repair, of any other kind.         *)
CanFail(c) ==
  Part[c].kind \in {"ConstantLoad", "ScheduleBasedLoad", "ConstantSource",
                    "Converter", "Mover", "Mux", "Store", "PassThrough"}
CanBeRepaired(c) ==
  Part[c].kind \in {"ConstantLoad", "ScheduleBasedLoad", "ConstantSource",
                    "ScheduleBasedSource", "Converter", "Mover", "Mux",
                    "PassThrough"}

(* A slip: the component is only marked.                                   *)
MarkFailed(s, c) == [s EXCEPT !.down = @ \cup {c}]

SetComponentToFailed(s, c) ==
  LET f     == [s EXCEPT !.down = @ \cup {c}]
      ins   == Inflows(c)
      outs  == Outflows(c)
      waste == {k \in outs : Connection[k].fromPort = WastePort(c)}
      kind  == Part[c].kind
  IN  CASE kind \in {"ConstantLoad", "ScheduleBasedLoad", "ConstantSource",
                     "Mux", "PassThrough"} ->
             OfferEach(RequestEach(f, ZeroAt(ins)), ZeroAt(outs))
        [] kind = "Converter" ->
             Spill(OfferEach(Request(f, Inflow[c][0], 0),
                             ZeroAt(outs \ waste)),
                   Outflow[c][WastePort(c)], 0)
        [] kind = "Mover" -> ClearFlows(f, ins \cup outs)
        [] kind = "Store" ->
             ClearFlows(OfferEach(RequestEach(f, ZeroAt(ins)),
                                  ZeroAt(outs \ waste)), waste)
        [] OTHER -> f

(* The connections a repaired schedule-based load may put its request on:  *)
(* the code looks its index up among the constant loads, and reads past    *)
(* their end when there are fewer.                                         *)
RepairedLoadConns(c) ==
  LET twins == {d \in OfKind("ConstantLoad") :
                  Cardinality(PeersBefore(d)) = Cardinality(PeersBefore(c))}
  IN  IF twins # {} THEN {Inflow[d][0] : d \in twins} ELSE Conn

SetComponentToRepaired(sch, s, c, loadConn) ==
  LET r    == [s EXCEPT !.down = @ \ {c}]
      kind == Part[c].kind
  IN  CASE kind = "ConstantLoad" -> Request(r, Inflow[c][0], Part[c].load)
        [] kind = "ScheduleBasedLoad" ->
             Request(r, loadConn, sch.load[c][s.loadIdx[c]].amount)
        [] kind = "ConstantSource" ->
             Offer(r, Outflow[c][0], Part[c].available)
        [] kind = "ScheduleBasedSource" ->
             Offer(r, Outflow[c][0], sch.avail[c][s.srcIdx[c]].amount)
        [] kind = "Converter" -> 
             Then(RunConverterBackward(r, c),
                  LAMBDA b : RunConverterForward(b, c))
        [] kind = "Mover" ->
             Then(RunMoverBackward(r, c),
                  LAMBDA b : RunMoverForward(b, Inflow[c][0], c))
        [] kind = "Mux" ->
             [r EXCEPT
                !.front = @ \cup {Inflow[c][p] : p \in InPorts(c)},
                !.back  = @ \cup {Outflow[c][p] : p \in OutPorts(c)}]
        [] kind = "PassThrough" ->
             LET in  == Inflow[c][0]
                 out == Outflow[c][0]
             IN  [r EXCEPT
                    !.req[in]    = s.req[out],
                    !.avail[out] = s.avail[in],
                    !.back  = IF s.req[out] # s.req[in] THEN @ \cup {out} ELSE @,
                    !.front = IF s.avail[in] # s.avail[out] THEN @ \cup {in} ELSE @]
        [] OTHER -> r

=============================================================================
