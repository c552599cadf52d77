------------------------------- MODULE ModelFiles -------------------------------
(***************************************************************************)
(* The model files that forecasts are published from (forecast/model.py),  *)
(* and what their schemas make of them: the values of Publication's Loads. *)
(***************************************************************************)
EXTENDS Schema, TLC

\* Schemas of models (conv_auto_encoder.py, core_collapse_inference.py), with one
\* entry of each kind,
Float == Basic("float")
ModelSchemas ==
  LET required == [filter |-> Basic("str"), mjd |-> Float] IN
  {Keys(required @@ [num_obs |-> Basic("int"), class |-> List(Anything, AnySize),
                     mag_arr |-> List(Float, AnySize)]),
   Keys(required @@ [mag_arr |-> List(List(Float, ALL_EQUAL), AnySize),
                     parameters |-> Keys([zams |-> List(Float, 3)])])}

\* and data for them: each entry may be any of these, or not be there.
Data ==
  LET f == Scalar("float")
      one == ListOf(<<f>>)
  IN {Scalar(type) : type \in Types} \cup
     {ListOf(members) : members \in
        {<<>>, <<f, Scalar("int")>>, <<f, Scalar("bool")>>, <<f, f, f>>, <<f, one>>, <<one, f>>,
         <<one, one>>, <<one, ListOf(<<f, f>>)>>, <<Scalar("str"), one>>, <<ListOf(<<>>)>>}} \cup
     {DictOf(<<Item(name, list)>>) : name \in {"zams", "beta"}, list \in {one, ListOf(<<f, f, f>>)}}
Sorted(names) == SelectSeq(<<"filter", "mjd", "num_obs", "class", "mag_arr", "parameters", "extra">>,
                           LAMBDA name : name \in names)
Object(entries) == LET names == Sorted(DOMAIN entries) IN
  DictOf([i \in DOMAIN names |-> Item(names[i], entries[names[i]])])
\* One entry at a time differs from what the schema says, or is there too much
\* or too little.
Payloads(schema) ==
  LET entries == schema.members
      right == [name \in DOMAIN entries |-> CHOOSE value \in Data :
                  Conforms(entries[name], value) /\ (value.type = "list" => value.members # <<>>)]
  IN {Object([right EXCEPT ![name] = value]) : name \in DOMAIN entries, value \in Data} \cup
     {Object([other \in DOMAIN right \ {name} |-> right[other]]) : name \in DOMAIN entries} \cup
     {Object(right @@ [extra |-> Scalar("str")])}

\* from_local and the data setter of ModelData: how the loading of a file may go.
FileLoads == UNION {{[outcome |-> Ensure(schema, data), conforms |-> Conforms(schema, data)] :
                   data \in Payloads(schema)} : schema \in ModelSchemas}
==============================================================================
