----------------------------- MODULE InputTable -----------------------------
(***************************************************************************)
(* TOMLTable_ParseWithValidation: reading a table of the input, key by key,*)
(* against what is known of its fields.                                    *)
(*                                                                         *)
(* fields maps the name of a field to a record: type, required, default    *)
(* (a set with at most one value), enum and aliases.  A value of the input *)
(* has a type and a value; that of a "floating" one is a numerator and a   *)
(* denominator, that of an "array" a sequence, of a "table" a function.    *)
(***************************************************************************)
EXTENDS Integers, Sequences

CONSTANT IntMax   \* 2^31 - 1: what is read as an integer passes through an int

ASSUME IntMaxAssumption == IntMax \in Nat

Narrow(n) == ((n + IntMax + 1) % (2 * (IntMax + 1))) - (IntMax + 1)

(* The field a key stands for: none, when it is not known.                 *)
Field(fields, key) ==
  IF key \in DOMAIN fields THEN {key}
  ELSE {name \in DOMAIN fields : key \in fields[name].aliases}

-----------------------------------------------------------------------------
(* What a value becomes as a field of some type: nothing, when it does not *)
(* suit the type.                                                          *)
IsNumber(v) == v.type \in {"integer", "floating"}
AsDouble(v) == IF v.type = "integer" THEN <<v.value, 1>> ELSE v.value

AsString(field, v) ==
  IF v.type = "string" /\ (field.type = "EnumString" => v.value \in field.enum)
    THEN {v.value} ELSE {}

AsNumber(field, v) ==
  IF ~ IsNumber(v) THEN {}
  ELSE IF field.type = "Number" THEN {AsDouble(v)}
  ELSE IF (AsDouble(v)[1] % AsDouble(v)[2]) # 0 THEN {}
  ELSE {Narrow(AsDouble(v)[1] \div AsDouble(v)[2])}

AsBool(v) ==
  CASE v.type = "boolean" -> {v.value}
    [] v.type = "integer" -> IF v.value \in -1 .. 1 THEN {v.value # 0} ELSE {}
    [] v.type = "string"  -> (IF v.value \in {"true", "True"} THEN {TRUE} ELSE {})
                             \cup (IF v.value \in {"false", "False"} THEN {FALSE} ELSE {})
    [] OTHER              -> {}

AllOf(v, Test(_)) == v.type = "array" /\ \A i \in DOMAIN v.value : Test(v.value[i])

IsPair(v) == AllOf(v, IsNumber) /\ Len(v.value) = 2

AsArray(field, v) ==
  CASE field.type = "ArrayOfDouble" ->
         IF AllOf(v, IsNumber) THEN {[i \in DOMAIN v.value |-> AsDouble(v.value[i])]} ELSE {}
    [] field.type = "ArrayOfTuple2OfNumber" ->
         IF AllOf(v, IsPair)
           THEN {[i \in DOMAIN v.value |-> [j \in 1 .. 2 |-> AsDouble(v.value[i].value[j])]]}
           ELSE {}
    [] field.type = "ArrayOfString" ->
         IF AllOf(v, LAMBDA x : x.type = "string")
           THEN {[i \in DOMAIN v.value |-> v.value[i].value]} ELSE {}

AsMap(v) ==
  IF v.type = "table" /\ \A key \in DOMAIN v.value : v.value[key].type = "string"
    THEN {[key \in DOMAIN v.value |-> v.value[key].value]} ELSE {}

Converted(field, v) ==
  CASE field.type = "Any"                        -> {FALSE}
    [] field.type \in {"AnyString", "EnumString"} -> AsString(field, v)
    [] field.type \in {"Number", "Integer"}       -> AsNumber(field, v)
    [] field.type = "Bool"                        -> AsBool(v)
    [] field.type = "MapFromStringToString"       -> AsMap(v)
    [] OTHER                                      -> AsArray(field, v)

(* An integer is asked for its fraction before it is known to be a number, *)
(* which the library answers with an exception.                            *)
Throws(field, v) == field.type = "Integer" /\ ~ IsNumber(v)

-----------------------------------------------------------------------------
(* The table as a whole.  Keys that are not known are ignored.             *)
Known(fields, table)   == {key \in DOMAIN table : Field(fields, key) # {}}
FieldFor(fields, key)  == fields[CHOOSE f \in Field(fields, key) : TRUE]
KeysOf(fields, table, name) == {key \in Known(fields, table) : name \in Field(fields, key)}

(* Defaults are converted from the strings they are declared as; a required*)
(* field with a default is never missing.                                  *)
Missing(fields, table) ==
  {name \in DOMAIN fields : /\ fields[name].required /\ fields[name].default = {}
                            /\ KeysOf(fields, table, name) = {}}

(* Reading stops at the first key with an error, and which one that is     *)
(* depends on the order of the library's table: these are what can happen. *)
CanThrow(fields, table) ==
  \E key \in Known(fields, table) : Throws(FieldFor(fields, key), table[key])

Refused(fields, table) ==
  \E key \in Known(fields, table) :
     LET field == FieldFor(fields, key)
     IN  \/ ~ Throws(field, table[key]) /\ Converted(field, table[key]) = {}
         \/ \E other \in Known(fields, table) \ {key} : Field(fields, other) = Field(fields, key)

Faulty(fields, table) ==
  Refused(fields, table) \/ (~ CanThrow(fields, table) /\ Missing(fields, table) # {})

Parsed(fields, table) ==
  [name \in {f \in DOMAIN fields : fields[f].default # {} \/ KeysOf(fields, table, f) # {}} |->
     LET keys   == KeysOf(fields, table, name)
         key    == CHOOSE k \in keys : TRUE
         values == IF keys = {} THEN fields[name].default ELSE Converted(fields[name], table[key])
     IN  CHOOSE v \in values : TRUE]

=============================================================================
