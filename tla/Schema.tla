--------------------------------- MODULE Schema ---------------------------------
(***************************************************************************)
(* core/schema.py: what a JSON value must look like.  Ensure follows the   *)
(* checks of ListSchema.ensure and DictSchema.ensure in their order;       *)
(* Conforms says what they are to check.                                   *)
(* Names ending in _M are mistakes the code does not make.                 *)
(*                                                                         *)
(* A value has a type; a list has its members, a dictionary its members    *)
(* with their keys, in the order in which they stand.                      *)
(***************************************************************************)
EXTENDS Integers, Sequences

Types == {"bool", "int", "float", "str"}
Scalar(type) == [type |-> type]
ListOf(members) == [type |-> "list", members |-> members]
Item(key, value) == [key |-> key, value |-> value]
DictOf(items) == [type |-> "dict", members |-> items]

\* A schema: one of Types; a list or dictionary of members of one schema; a
\* dictionary with the given keys; or anything, where no schema is given.
AnySize == -1
ALL_EQUAL == -2    \* Size.ALL_EQUAL: stands in a member's schema
Anything == [of |-> "any"]
Basic(type) == [of |-> type]
List(member, size) == [of |-> "list", member |-> member, size |-> size]
Dict(member, size) == [of |-> "dict", member |-> member, size |-> size]
Keys(members) == [of |-> "keys", members |-> members]

AllEqual(schema) == schema.of \in {"list", "dict"} /\ schema.size = ALL_EQUAL
\* What has a length: a string of this model has length 1.
Sized(value) == value.type \in {"list", "dict", "str"}
Length(value) == IF value.type = "str" THEN 1 ELSE Len(value.members)
Values(value) == IF value.type = "list" THEN value.members
                 ELSE [i \in DOMAIN value.members |-> value.members[i].value]
KeysOf(value) == {value.members[i].key : i \in DOMAIN value.members}
Member(schema, value, i) ==
  IF schema.of = "keys" THEN schema.members[value.members[i].key] ELSE schema.member
------------------------------------------------------------------------------
\* Checks are made one after the other, and the first that fails is raised.
First(outcomes) ==
  IF \A i \in DOMAIN outcomes : outcomes[i] = "ok" THEN "ok"
  ELSE outcomes[CHOOSE i \in DOMAIN outcomes :
         outcomes[i] # "ok" /\ \A j \in 1..(i - 1) : outcomes[j] = "ok"]
Check(condition) == IF condition THEN "ok" ELSE "SchemaError"

Accepts_M(type) == CASE type = "float" -> {"float", "int"} [] type = "int" -> {"int", "bool"} [] OTHER -> {type}

\* type(member) is the type; an int is taken for a float, a bool for nothing else.
Accepts(type) == IF type = "float" THEN {"float", "int"} ELSE {type}

\* The sizes are compared with that of the first member: that there is none, or
\* that another has no length, is not a SchemaError.
CheckEqualSizes(members) ==
  IF members = <<>> THEN "IndexError"
  ELSE IF ~Sized(members[1]) THEN "SchemaError"
  ELSE First([i \in DOMAIN members |->
         IF ~Sized(members[i]) THEN "TypeError"
         ELSE Check(Length(members[i]) = Length(members[1]))])

\* A list may have any size but an integer's; a dictionary's must be its size,
\* be that an integer or not.
CheckSize(schema, value) ==
  IF schema.of = "list"
  THEN First(<<Check(schema.size >= 0 => Len(value.members) = schema.size),
               IF AllEqual(schema.member) THEN CheckEqualSizes(value.members) ELSE "ok">>)
  ELSE Check(schema.size # AnySize => Len(value.members) = schema.size)

\* Missing keys, then unexpected ones.
CheckKeys(schema, value) ==
  First(<<Check(DOMAIN schema.members \subseteq KeysOf(value)),
          Check(KeysOf(value) \subseteq DOMAIN schema.members)>>)

RECURSIVE Ensure(_, _)
Ensure(schema, value) ==
  CASE schema.of = "any"   -> "ok"
    [] schema.of \in Types -> Check(value.type \in Accepts(schema.of))
    [] OTHER ->
         IF value.type # (IF schema.of = "list" THEN "list" ELSE "dict") THEN "SchemaError"
         ELSE LET shape == IF schema.of = "keys" THEN CheckKeys(schema, value)
                           ELSE CheckSize(schema, value)
              IN IF shape # "ok" THEN shape
                 ELSE First([i \in DOMAIN value.members |->
                        Ensure(Member(schema, value, i), Values(value)[i])])
------------------------------------------------------------------------------
\* What the examples of ListSchema and DictSchema say.
RECURSIVE Conforms(_, _)
Conforms(schema, value) ==
  CASE schema.of = "any"   -> TRUE
    [] schema.of \in Types -> value.type = schema.of \/ (schema.of = "float" /\ value.type = "int")
    [] OTHER ->
         /\ value.type = IF schema.of = "list" THEN "list" ELSE "dict"
         /\ schema.of = "keys" => KeysOf(value) = DOMAIN schema.members
         /\ schema.of # "keys" /\ schema.size >= 0 => Len(value.members) = schema.size
         /\ \A i \in DOMAIN value.members : Conforms(Member(schema, value, i), Values(value)[i])
         /\ schema.of # "keys" /\ AllEqual(schema.member) =>
              \A i, j \in DOMAIN value.members :
                Length(Values(value)[i]) = Length(Values(value)[j])
==============================================================================
