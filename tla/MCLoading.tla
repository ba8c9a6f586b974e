------------------------------ MODULE MCLoading ------------------------------
(***************************************************************************)
(* Small inputs.  Sound ones: a campus with most kinds of components, two  *)
(* groups, and one in which everything is referred to by name.  From a     *)
(* small one come those with a single fault each.                          *)
(***************************************************************************)
EXTENDS LoadingProperties

Str(x)      == [type |-> "string", value |-> x]
Num(n)      == [type |-> "integer", value |-> n]
Frac(n, d)  == [type |-> "floating", value |-> <<n, d>>]
Flag(b)     == [type |-> "boolean", value |-> b]
Arr(seq)    == [type |-> "array", value |-> seq]
Strings(seq) == Arr([i \in DOMAIN seq |-> Str(seq[i])])
Tab(f)      == [type |-> "table", value |-> [x \in DOMAIN f |-> Str(f[x])]]
Pair(a, b)  == Arr(<<a, b>>)
Of(type)    == "type" :> Str(type)

Link(from, fromPort, to, toPort, flow) ==
  [from |-> from, fromPort |-> fromPort, to |-> to, toPort |-> toPort, flow |-> flow]

Fixed(n) == Of("fixed") @@ [value |-> Num(n)]

Scenario(dist, offset, intensity) ==
  [dist |-> dist, duration |-> 4, max |-> Num(1), offset |-> offset, intensity |-> intensity]

Source(flow) == Of("source") @@ [outflow |-> Str(flow)]
Load(flow)   == Of("constant_load") @@ [inflow |-> Str(flow), constant_request |-> Num(5)]

Units    == [time_unit |-> Str("s"), rate_unit |-> Str("kW")]
Explicit == Units @@ [time_rate_pairs |-> Arr(<<Pair(Num(0), Frac(5, 2)), Pair(Num(2), Num(0))>>)]

Small == [
  info  |-> [max_time |-> Num(3)],
  loads |-> [x |-> Explicit @@ [meta |-> Num(1)]],
  comps |-> [src |-> Source("el"), load |-> Load("el")],
  dists |-> [often |-> Fixed(2)],
  failureModes |-> <<>>, fragilityModes |-> <<>>,
  conns |-> <<Link("src", 0, "load", 0, "el")>>,
  scenarios |-> [blue |-> Scenario("often", 0, <<>>)],
  curves |-> <<>>,
  files |-> <<>>]

-----------------------------------------------------------------------------
(* Gas is made electricity and heat; the electricity is stored on the way  *)
(* to two loads.                                                           *)
Campus == [Small EXCEPT
  !.info = [random_seed |-> Num(-6), meta |-> Flag(TRUE), unknown |-> Num(1)],
  !.comps = [
    gas  |-> Source("gas") @@ [max_outflow |-> Num(90), group |-> Str("plant")],
    chp  |-> Of("converter") @@ [inflow |-> Str("gas"), outflow |-> Str("el"), lossflow |-> Str("heat"),
               max_lossflow |-> Num(8), constant_efficiency |-> Frac(2, 5), group |-> Str("plant"), rate_unit |-> Str("kW")],
    bat  |-> Of("store") @@ [stream |-> Str("el"), capacity |-> Num(10), max_inflow |-> Num(4),
               max_discharge |-> Num(5), charge_at_soc |-> Num(1), roundtrip_efficiency |-> Frac(9, 10)],
    bus  |-> Of("muxer") @@ [flow |-> Str("el"), num_inflows |-> Num(1), num_outflows |-> Num(2),
               max_outflows |-> Arr(<<Num(6), Frac(7, 2)>>)],
    lamp |-> Load("el") @@ [report |-> Str("False"), initial_age |-> Num(2)],
    hall |-> Load("el"),
    room |-> Load("heat")],
  !.conns = <<Link("gas", 0, "chp", 0, "gas"), Link("chp", 0, "bat", 0, "el"),
              Link("bat", 0, "bus", 0, "el"), Link("bus", 1, "lamp", 0, "el"),
              Link("chp", 1, "room", 0, "heat"), Link("bus", 0, "hall", 0, "el")>>]

(* The rest of the kinds.                                                  *)
Others == [Small EXCEPT
  !.info = [fixed_random |-> Frac(1, 2)],
  !.comps = [
    grid |-> Source("el") @@ [report |-> Num(0)],
    atse |-> Of("switch") @@ [flow |-> Str("el"), max_outflow |-> Num(7)],
    sun  |-> Of("uncontrolled_source") @@ [outflow |-> Str("el"),
               supply_by_scenario |-> Tab([blue |-> "x"])],
    line |-> Of("pass_through") @@ [flow |-> Str("el"), max_outflow |-> Num(7)],
    cool |-> Of("variable_efficiency_mover") @@ [inflow |-> Str("el"), outflow |-> Str("cold"),
               max_outflow |-> Num(9), cop_by_fraction_out |->
                 Arr(<<Pair(Num(1), Num(3)), Pair(Frac(1, 2), Num(4)), Pair(Num(1), Num(2))>>)],
    room |-> Load("cold")],
  !.conns = <<Link("grid", 0, "atse", 1, "el"), Link("sun", 0, "atse", 0, "el"),
              Link("atse", 0, "line", 0, "el"), Link("line", 0, "cool", 0, "el"),
              Link("cool", 0, "room", 0, "cold")>>]

(* Two sources and a converter in a group; two loads in another.           *)
Mover == Of("mover") @@ [inflow |-> Str("el"), outflow |-> Str("warm"), cop |-> Num(3)]

Groups == [Small EXCEPT
  !.comps = [a |-> Source("el") @@ [group |-> Str("in")], b |-> Source("el") @@ [group |-> Str("in")],
             c |-> Of("variable_efficiency_converter") @@ [inflow |-> Str("el"), outflow |-> Str("warm"),
                     max_outflow |-> Num(8), group |-> Str("in"),
                     efficiency_by_fraction_out |-> Arr(<<Pair(Num(0), Frac(1, 2)), Pair(Num(1), Num(1))>>)],
             pump |-> Mover @@ [max_outflow |-> Num(30), group |-> Str("in")],
             d |-> Load("warm") @@ [group |-> Str("out")], e |-> Load("warm") @@ [group |-> Str("out")],
             idle |-> Load("none")],
  !.conns = <<Link("a", 0, "c", 0, "el"), Link("b", 0, "pump", 0, "el"),
              Link("c", 0, "d", 0, "warm"), Link("pump", 0, "e", 0, "warm")>>]

(* Modes, curves, scenarios and loads that refer to each other.            *)
Referring == [Small EXCEPT
  !.info = [fixed_random_series |-> Arr(<<Num(0), Frac(1, 2)>>), input_format_version |-> Str("0.1")],
  !.loads = [x |-> [csv_file |-> Str("one")], y |-> [csv_file |-> Str("one"), multi_part_csv |-> Str("two")]],
  !.files = [one |-> <<>>, two |-> <<[tag |-> "z", schedule |-> <<>>], [tag |-> "x", schedule |-> <<1>>]>>],
  !.comps = [src  |-> Source("el") @@ [failure_modes |-> Strings(<<"wear", "tear">>),
                                       fragility_modes |-> Strings(<<"wind", "flood">>)],
             load |-> Of("load") @@ [inflow |-> Str("el"), failure_modes |-> Strings(<<"tear">>),
                        loads_by_scenario |-> Tab([blue |-> "x", storm |-> "z"])]],
  !.dists = [often |-> Fixed(2), rare |-> Of("uniform") @@ [lower_bound |-> Num(1), upper_bound |-> Num(3)]],
  !.failureModes = [wear |-> [failure |-> "rare", repair |-> "often"],
                    tear |-> [failure |-> "often", repair |-> "rare"]],
  !.fragilityModes = [wind |-> [curve |-> "steep", repair |-> {"rare"}], flood |-> [curve |-> "flat", repair |-> {}]],
  !.scenarios = [blue |-> Scenario("often", 1, <<>>),
                 storm |-> [Scenario("rare", 2, [speed |-> 7, depth |-> 1]) EXCEPT !.max = Str("unlimited")]],
  !.curves = [steep |-> [type |-> "linear", vulnerableTo |-> "speed", data |-> 1],
              flat |-> [type |-> "tabular", vulnerableTo |-> "depth", data |-> 2]]]

-----------------------------------------------------------------------------
(* A single fault each, of the table or of what it refers to; and what is  *)
(* odd but no fault.                                                       *)
WithComp(table) == [Small EXCEPT !.comps.src = table]
WithDist(table) == [Small EXCEPT !.dists = [often |-> Fixed(2), other |-> table]]
WithConn(link)  == [Small EXCEPT !.conns = Append(@, link)]
WithMode(mode)  == [Small EXCEPT !.failureModes = [wear |-> mode]]
Fragile == WithComp(Source("el") @@ [fragility_modes |-> Strings(<<"wear">>)])

FaultyInfo == {
  [Small EXCEPT !.info = [rate_unit |-> Str("hp")]], [Small EXCEPT !.info = [max_time |-> Str("3")]],
  [Small EXCEPT !.info = [random_seed |-> Str("3"), time_unit |-> Num(1)]],
  [Small EXCEPT !.info = [fixed_random_series |-> Arr(<<Str("3")>>)]]}

FaultyLoads == {
  [Small EXCEPT !.loads.x = [csv_file |-> Str("none")]],
  [Small EXCEPT !.loads.x = [multi_part_csv |-> Str("none")]],
  [Small EXCEPT !.loads.x = Units @@ [time_rate_pairs |-> Arr(<<Arr(<<Num(0)>>)>>)],
                !.comps.load = Of("load") @@ [inflow |-> Str("el"), loads_by_scenario |-> Tab([blue |-> "x"])]]}

Converter(efficiency) ==
  Of("converter") @@ [inflow |-> Str("el"), outflow |-> Str("el"), constant_efficiency |-> efficiency]
Store(init, roundTrip) ==
  Of("store") @@ [flow |-> Str("el"), capacity |-> Num(3), max_charge |-> Num(1), max_discharge |-> Num(1),
                  init_soc |-> init, roundtrip_efficiency |-> roundTrip]

FaultyComponents == {
  WithComp(Of("turbine")), WithComp([type |-> Num(1)]), WithComp([outflow |-> Str("el")]), WithComp(Source("el") @@ [rate_unit |-> Str("hp")]),
  WithComp(Of("source")), WithComp(Source("el") @@ [report |-> Num(2)]),
  WithComp(Source("el") @@ [failure_modes |-> Arr(<<Num(1)>>)]),
  WithComp(Converter(Num(0))), WithComp(Converter(Frac(3, 2))), WithComp(Converter(Num(1))),
  WithComp(Store(Frac(3, 2), Num(1))), WithComp(Store(Num(1), Num(0))), WithComp(Store(Num(1), Num(1))),
  WithComp(Of("mux") @@ [flow |-> Str("el"), num_inflows |-> Num(0), num_outflows |-> Num(1)]),
  WithComp(Of("mux") @@ [flow |-> Str("el"), num_inflows |-> Str("1"), num_outflows |-> Num(1)]),
  WithComp(Of("mux") @@ [flow |-> Str("el"), num_inflows |-> Num(1), num_outflows |-> Frac(4, 3)]),
  WithComp(Of("pass_through") @@ [flow |-> Str("el"), stream |-> Str("el")]),
  [Small EXCEPT !.comps.load = Load("el") @@ [failure_modes |-> Num(1)]]}

FaultyRest == {
  WithDist(Of("beta")), WithDist([type |-> Num(1)]), WithDist(Of("normal")),
  WithDist(Of("uniform") @@ [lower_bound |-> Num(2), upper_bound |-> Num(1)]),
  WithDist(Of("weibull") @@ [shape |-> Num(0), scale |-> Num(1)]),
  WithDist(Of("quantile_table") @@ [variate_time_pairs |-> Arr(<<Pair(Num(0), Num(1)), Pair(Num(1), Num(3))>>)]),
  WithDist(Of("quantile_table") @@ [csv_file |-> Str("none")]),
  WithMode([failure |-> "often", repair |-> "none"]), WithMode([failure |-> "often", repair |-> "often"]),
  [Fragile EXCEPT !.failureModes = [wear |-> [failure |-> "often", repair |-> "often"]]],
  [WithMode([failure |-> "often", repair |-> "often"])
     EXCEPT !.fragilityModes = [wear |-> [curve |-> "steep", repair |-> {}]]],
  [Fragile EXCEPT !.fragilityModes = [wear |-> [curve |-> "steep", repair |-> {"none"}]]],
  [Fragile EXCEPT !.curves = [steep |-> [type |-> "linear", vulnerableTo |-> "speed", data |-> 1]]],
  [Small EXCEPT !.scenarios = <<>>], [Small EXCEPT !.scenarios.blue.dist = "none"],
  [Small EXCEPT !.scenarios.blue.max = Num(-1)]}

FaultyMaxima == {
  [Small EXCEPT !.scenarios.blue.max = Str("often")], [Small EXCEPT !.scenarios.blue.max = Flag(TRUE)]}

FaultyConnections == {
  WithConn(Link("src", 0, "none", 0, "el")), WithConn(Link("src", 1, "load", 0, "el")),
  WithConn(Link("src", 0, "load", 0, "gas")), WithConn(Link("src", 0, "load", 0, "el")),
  [WithConn(Link("src", 0, "lamp", 0, "el")) EXCEPT
     !.comps = [src |-> Source("el"), load |-> Load("el"), lamp |-> Load("el")]],
  [Small EXCEPT !.comps = @ @@ [bus |-> Of("mux") @@ [flow |-> Str("el"), num_inflows |-> Num(1), num_outflows |-> Num(2)]],
                !.conns = <<Link("src", 0, "bus", 0, "el"), Link("bus", 0, "load", 0, "el"),
                            Link("bus", 1, "load", 0, "el")>>]}

MCInputs == {Small, Campus, Others, Groups, Referring} \cup FaultyInfo \cup FaultyLoads \cup FaultyComponents
            \cup FaultyRest \cup FaultyMaxima \cup FaultyConnections

(* None of these is accepted against the guide.                            *)
ASSUME \A file \in MCInputs \ FaultyMaxima : FollowsTheGuide(file)

(* What the guide or a message does not allow, each accepted: two settings *)
(* for random numbers, pairs without their units, no occurrence at all.    *)
Unguided == {
  [Small EXCEPT !.info = [fixed_random |-> Frac(1, 2), fixed_random_series |-> Arr(<<Num(0)>>)]],
  [Small EXCEPT !.loads.x = [key \in {"time_rate_pairs"} |-> Explicit[key]]],
  [Small EXCEPT !.scenarios.blue.max = Num(0)]}

(* A second mover of one kind.                                             *)
TwoMovers == {[Small EXCEPT
  !.comps = [src |-> Source("el"), load |-> Load("warm"), one |-> [Mover EXCEPT !.outflow = Str("el")],
             two |-> Mover],
  !.conns = <<Link("src", 0, "one", 0, "el"), Link("one", 0, "two", 0, "el"), Link("two", 0, "load", 0, "warm")>>]}

(* A scenario that no component has a load for.                            *)
UnnamedScenario == {[Small EXCEPT !.scenarios.blue.offset = 3]}

=============================================================================
