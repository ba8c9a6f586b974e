---------------------------- MODULE InputFields ----------------------------
(***************************************************************************)
(* SetupGlobalValidationInfo: the fields of every kind of table.           *)
(*                                                                         *)
(* What the program is told in other units it converts; here everything is *)
(* given in one unit of its kind, and of the fields with a unit only the   *)
(* names are kept.                                                         *)
(***************************************************************************)
EXTENDS InputTable, TLC

Optional(type) ==
  [type |-> type, required |-> FALSE, default |-> {}, aliases |-> {}, enum |-> {}]
Required(type)         == [Optional(type) EXCEPT !.required = TRUE]
Default(type, value)   == [Optional(type) EXCEPT !.default = {value}]
OneOf(values, default) == [Optional("EnumString") EXCEPT !.enum = values, !.default = default]

Rational(n) == <<n, 1>>

TimeUnits     == {"s", "h", "yr"}
RateUnits     == {"W", "kW"}
QuantityUnits == {"J", "kJ"}

(* Every table may say something about itself, which nothing is done with. *)
MetaField == [meta |-> Optional("Any")]

SimulationInfoFields == MetaField @@ [
  input_format_version |-> Default("AnyString", "current"),
  rate_unit            |-> OneOf(RateUnits, {"W"}),
  quantity_unit        |-> OneOf(QuantityUnits, {"J"}),
  time_unit            |-> OneOf(TimeUnits, {"yr"}),
  max_time             |-> Default("Number", Rational(1000)),
  random_seed          |-> Default("Integer", 17),
  fixed_random         |-> Optional("Number"),
  fixed_random_series  |-> Optional("ArrayOfDouble")]

ExplicitLoadFields == MetaField @@ [
  time_rate_pairs |-> Required("ArrayOfTuple2OfNumber"),
  time_unit       |-> OneOf(TimeUnits, {"s"}),
  rate_unit       |-> OneOf(RateUnits, {"W"})]

FileLoadFields == MetaField @@
  [csv_file |-> Required("AnyString"), multi_part_csv |-> Optional("AnyString")]

-----------------------------------------------------------------------------
(* TagToComponentType, for the names the fields admit.                     *)
KindOf == [
  constant_load                 |-> "ConstantLoad",
  load                          |-> "ScheduleBasedLoad",
  source                        |-> "ConstantSource",
  uncontrolled_source           |-> "ScheduleBasedSource",
  converter                     |-> "ConstantEfficiencyConverter",
  variable_efficiency_converter |-> "VariableEfficiencyConverter",
  mux                           |-> "Mux",
  muxer                         |-> "Mux",
  store                         |-> "Store",
  pass_through                  |-> "PassThrough",
  mover                         |-> "Mover",
  variable_efficiency_mover     |-> "VariableEfficiencyMover",
  switch                        |-> "Switch"]

AllComponentFields == MetaField @@ [
  type        |-> [OneOf(DOMAIN KindOf, {}) EXCEPT !.required = TRUE],
  initial_age |-> Default("Number", Rational(0)),
  time_unit   |-> OneOf(TimeUnits, {"h"}),
  group       |-> Default("AnyString", "group"),
  report      |-> Default("Bool", TRUE)]

ModeFields == [failure_modes   |-> Optional("ArrayOfString"),
               fragility_modes |-> Optional("ArrayOfString")]

RateUnitField == [rate_unit |-> Optional("AnyString")]
LimitField    == [max_outflow |-> Optional("Number")]
FlowField     == [flow |-> [Required("AnyString") EXCEPT !.aliases = {"stream"}]]
InAndOutFields == [inflow |-> Required("AnyString"), outflow |-> Required("AnyString")]

LoadComponentFields(kind) ==
  [inflow |-> Required("AnyString")]
  @@ (IF kind = "ConstantLoad"
        THEN RateUnitField @@ [constant_request |-> Required("Number")]
        ELSE [loads_by_scenario |-> Required("MapFromStringToString")])

SourceFields(kind) ==
  [outflow |-> Required("AnyString")] @@ LimitField @@ RateUnitField @@ ModeFields
  @@ (IF kind = "ConstantSource" THEN <<>>
      ELSE [supply_by_scenario |-> Required("MapFromStringToString")])

ConverterFields(kind) ==
  InAndOutFields @@ RateUnitField @@ ModeFields
  @@ [lossflow |-> Optional("AnyString"), max_lossflow |-> Optional("Number")]
  @@ (IF kind = "ConstantEfficiencyConverter"
        THEN LimitField @@ [constant_efficiency |-> Required("Number")]
        ELSE [max_outflow |-> Required("Number"),
              efficiency_by_fraction_out |-> Required("ArrayOfTuple2OfNumber")])

MoverFields(kind) ==
  InAndOutFields @@ RateUnitField @@ ModeFields
  @@ (IF kind = "Mover" THEN LimitField @@ [cop |-> Required("Number")]
      ELSE [max_outflow |-> Required("Number"),
            cop_by_fraction_out |-> Required("ArrayOfTuple2OfNumber")])

MuxFields == FlowField @@ ModeFields @@
  [num_inflows  |-> Required("Integer"),
   num_outflows |-> Required("Integer"),
   max_outflows |-> Optional("ArrayOfDouble")]

StoreFields == FlowField @@ ModeFields @@ LimitField @@ RateUnitField @@
  [init_soc             |-> Default("Number", Rational(1)),
   capacity_unit        |-> [OneOf(QuantityUnits, {"J"}) EXCEPT !.required = TRUE],
   capacity             |-> Required("Number"),
   max_charge           |-> [Required("Number") EXCEPT !.aliases = {"max_inflow"}],
   max_discharge        |-> Required("Number"),
   charge_at_soc        |-> Default("Number", <<4, 5>>),
   roundtrip_efficiency |-> Default("Number", Rational(1))]

ComponentFields(kind) == AllComponentFields @@
  CASE kind \in {"ConstantLoad", "ScheduleBasedLoad"}     -> LoadComponentFields(kind)
    [] kind \in {"ConstantSource", "ScheduleBasedSource"} -> SourceFields(kind)
    [] kind \in {"ConstantEfficiencyConverter", "VariableEfficiencyConverter"}
                                                          -> ConverterFields(kind)
    [] kind \in {"Mover", "VariableEfficiencyMover"}      -> MoverFields(kind)
    [] kind = "Mux"         -> MuxFields
    [] kind = "Store"       -> StoreFields
    [] kind = "PassThrough" -> FlowField @@ ModeFields @@ LimitField
    [] kind = "Switch"      -> FlowField @@ ModeFields

-----------------------------------------------------------------------------
(* A quantile table has the fields of one that is read from a file, when   *)
(* there is a file.                                                        *)
DistTypes == {"fixed", "uniform", "normal", "quantile_table", "weibull"}

DistFields(type, table) == MetaField @@
  [type |-> [OneOf(DistTypes, {}) EXCEPT !.required = TRUE], time_unit |-> OneOf(TimeUnits, {})]
  @@ CASE type = "fixed"   -> [value |-> Required("Number")]
       [] type = "uniform" -> [lower_bound |-> Required("Number"),
                               upper_bound |-> Required("Number")]
       [] type = "normal"  -> [mean |-> Required("Number"),
                               standard_deviation |-> Required("Number")]
       [] type = "weibull" -> [shape |-> Required("Number"), scale |-> Required("Number"),
                               location |-> Optional("Number")]
       [] type = "quantile_table" ->
            IF "csv_file" \in DOMAIN table THEN [csv_file |-> Required("AnyString")]
            ELSE [variate_time_pairs |-> Required("ArrayOfTuple2OfNumber")]

=============================================================================
