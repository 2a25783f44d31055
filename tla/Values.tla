------------------------------- MODULE Values -------------------------------
(* JSON values, as nlohmann::json holds them: a tag, a payload and, for a    *)
(* string, its number of bytes.  A number that is not an integer is counted  *)
(* in thousandths.                                                           *)
EXTENDS Integers, Sequences, FiniteSets, SequencesExt, Functions

Str(v, n)  == [t |-> "string", v |-> v, n |-> n]
Integer(v) == [t |-> "integer", v |-> v]
Float(v)   == [t |-> "float", v |-> v]
Bool(v)    == [t |-> "boolean", v |-> v]
Arr(v)     == [t |-> "array", v |-> v]
Obj(v)     == [t |-> "object", v |-> v]
Null       == [t |-> "null", v |-> "null"]

Has(x, field) == x.t = "object" /\ field \in DOMAIN x.v
IsString(x) == x.t = "string"
IsNumber(x) == x.t \in {"integer", "float"}
Thousandths(x) == IF x.t = "integer" THEN 1000 * x.v ELSE x.v

(* Does a value fit what a field asks for: a type, or one of some strings.   *)
Fits(x, kind) ==
  CASE kind = "any"    -> TRUE
    [] kind = "number" -> IsNumber(x)
    [] OTHER           -> x.t = kind
OneOf(x, names) == IsString(x) /\ x.v \in names

(* What is wrong with the fields of an object: required and optional ones,   *)
(* each with its type.                                                       *)
Misfits(x, required, optional) ==
  {"missing" : f \in DOMAIN required \ DOMAIN x.v}
  \cup {"type" : f \in {g \in DOMAIN required \cap DOMAIN x.v : ~Fits(x.v[g], required[g])}}
  \cup {"type" : f \in {g \in DOMAIN optional \cap DOMAIN x.v : ~Fits(x.v[g], optional[g])}}

Unknown(x, fields) == IF DOMAIN x.v \subseteq fields THEN {} ELSE {"unknown"}
When(condition, fault) == IF condition THEN {fault} ELSE {}

(* The children of a scene node: its list, or its content.                   *)
IsNode(x, types) == x.t = "object" /\ Has(x, "type") /\ OneOf(x.v["type"], types)
Children(x) ==
  IF IsNode(x, {"row", "column"}) /\ Has(x, "children") /\ x.v["children"].t = "array"
  THEN x.v["children"].v
  ELSE IF IsNode(x, {"button", "action_region"}) /\ Has(x, "content")
  THEN <<x.v["content"]>> ELSE <<>>
=============================================================================
