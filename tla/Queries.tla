-------------------------------- MODULE Queries --------------------------------
(***************************************************************************)
(* What the endpoints of ReadEndpoints answer, and to whom, while rows     *)
(* come into the database: one request, each step a query, and before it   *)
(* and between any two of its steps other programs and requests that add   *)
(* rows, decide on the recommendation and revoke clients.                  *)
(*                                                                         *)
(* The rows are those of one object: an alert of the broker, a forecast    *)
(* with a model, its recommendation to an observer, and what the observer  *)
(* uploads.  Two columns of the recommendation that may be null are in the *)
(* set of rows while they have a value; an object may be without a type.   *)
(* Rows are not deleted here.                                              *)
(* Names ending in _M are mistakes the code does not make, used to test    *)
(* the properties.                                                         *)
(***************************************************************************)
EXTENDS ReadEndpoints, FiniteSets

CONSTANT None

VARIABLES
  rows,      \* the rows that there are
  decided,   \* recommendation.accepted or rejected
  valid,     \* the clients that are not revoked
  req        \* the request
vars == <<rows, decided, valid, req>>

------------------------------------------------------------------------------
(***************************************************************************)
(* The tables (database/model.py).                                         *)
(***************************************************************************)
Fixed == {"object", "object_type", "observation_type", "source_type", "file_type", "facility", "tag",
          "refitt", "observer", "refitt_source", "broker_source"}

\* What a row or column that is added refers to.
Needs == [
  epoch |-> {}, detection |-> {"epoch"}, alert |-> {"detection"},
  predicted |-> {"epoch"}, model |-> {"predicted"},
  recommendation |-> {"epoch"}, observer_source |-> {},
  observed |-> {"epoch", "observer_source"}, file |-> {"observed"},
  observation_id |-> {"recommendation", "observed"}]
Columns == {"predicted_observation_id", "observation_id"}
Rows == Fixed \cup DOMAIN Needs \cup Columns

Observed(source) ==
  [type |-> "observation_type", object |-> "object", epoch |-> "epoch", source |-> source]
Attributes == [
  recommendation |-> [epoch |-> "epoch", tag |-> "tag", user |-> "observer", facility |-> "facility",
                      object |-> "object", predicted |-> "predicted", observed |-> "observed",
                      model |-> "model"],
  detection |-> Observed("broker_source") @@ [alert |-> "alert"],
  predicted |-> Observed("refitt_source") @@ [alert |-> None],
  observed |-> Observed("observer_source") @@ [alert |-> None, file |-> "file"],
  refitt_source |-> [type |-> "source_type", user |-> "refitt", facility |-> None],
  broker_source |-> [type |-> "source_type", user |-> None, facility |-> None],
  observer_source |-> [type |-> "source_type", user |-> "observer", facility |-> "facility"],
  object |-> [type |-> "object_type"],
  file |-> [type |-> "file_type"]]

Observations == {"detection", "predicted", "observed"}
Sources == {"refitt_source", "broker_source", "observer_source"}
Table == [
  Observation |-> Observations, Recommendation |-> {"recommendation"}, Source |-> Sources,
  Model |-> {"model"}, Object |-> {"object"}, Epoch |-> {"epoch"}, Alert |-> {"alert"},
  File |-> {"file"}, FileType |-> {"file_type"}, ObservationType |-> {"observation_type"},
  SourceType |-> {"source_type"}, ObjectType |-> {"object_type"}]

\* The clients: an administrator, the observer and another observer.
Client == [admin |-> [user |-> "refitt", level |-> 0],
           observer |-> [user |-> "observer", level |-> 10],
           other |-> [user |-> "other", level |-> 10]]
------------------------------------------------------------------------------
(***************************************************************************)
(* Requests.                                                               *)
(***************************************************************************)
Simple == [
  get_many |-> get_many, get_observation |-> get_observation,
  get_observation_object |-> get_observation_object,
  get_observation_object_type |-> get_observation_object_type,
  get_observation_type |-> get_observation_type, get_observation_source |-> get_observation_source,
  get_observation_source_type |-> get_observation_source_type,
  get_observation_source_user |-> get_observation_source_user,
  get_observation_source_facility |-> get_observation_source_facility,
  get_observation_alert |-> get_observation_alert, get_observation_model |-> get_observation_model,
  get_observation_models |-> get_observation_models, get_observation_file |-> get_observation_file,
  get_observation_file_type |-> get_observation_file_type, get_type |-> get_type,
  get_observation_types |-> get_observation_types, get_alert |-> get_alert, get_file |-> get_file,
  get_type_for_file |-> get_type_for_file, get_file_type |-> get_file_type,
  get_file_types |-> get_file_types, get_next |-> get_next,
  get_recommendation_by_id |-> get_recommendation_by_id,
  put_recommendation_attribute |-> put_recommendation_attribute,
  get_recommendation_history |-> get_recommendation_history,
  get_recommendation_observed_file |-> get_recommendation_observed_file,
  get_recommendation_observed_file_type |-> get_recommendation_observed_file_type,
  get_recommendation_model_info |-> get_recommendation_model_info,
  get_recommendation_model_by_type |-> get_recommendation_model_by_type,
  get_recommendation_totals |-> get_recommendation_totals, get_source |-> get_source,
  get_type_of_source |-> get_type_of_source, get_user_of_source |-> get_user_of_source,
  get_facility_of_source |-> get_facility_of_source, get_source_type |-> get_source_type,
  get_models |-> get_models, get_model_by_id |-> get_model_by_id, get_object |-> get_object,
  get_type_from_object |-> get_type_from_object, get_object_type |-> get_object_type,
  get_epoch |-> get_epoch, get_epoch_by_id |-> get_epoch_by_id]

Kinds == {<<k, <<>>>> : k \in DOMAIN Simple} \cup
         {<<"get_recommendation_partial", path>> : path \in recommendation_slices}
Program(k) == IF k[2] = <<>> THEN Simple[k[1]] ELSE get_recommendation_partial(k[2])

Unsent == [kind |-> <<None, <<>>>>, as |-> None, todo |-> <<>>, at |-> None, columns |-> {},
           visited |-> {}, code |-> 0]

Busy == req.as # None /\ req.code = 0
At(step) == Busy /\ req.todo # <<>> /\ Head(req.todo) = step
Proceed == req' = [req EXCEPT !.todo = Tail(@)]
Visit(row) == req' = [req EXCEPT !.todo = Tail(@), !.at = row, !.visited = @ \cup ({row} \ {None})]
List(some) == req' = [req EXCEPT !.todo = Tail(@), !.visited = @ \cup (some \cap rows)]
End(error) == req' = [req EXCEPT !.todo = <<>>, !.code = Code[error]]

Me == Client[req.as]
Admin == Me.level <= 1
------------------------------------------------------------------------------
\* Object.type_id may be null, although no program adds an object without one.
Init ==
  /\ rows \in {Fixed, Fixed \ {"object_type"}}
  /\ decided = FALSE
  /\ valid = DOMAIN Client
  /\ req = Unsent

\* A program or another request commits something.
Arrive ==
  /\ req.code = 0
  /\ \E row \in DOMAIN Needs \ rows :
       /\ Needs[row] \subseteq rows
       /\ \/ rows' = rows \cup {row}
          \/ /\ row = "recommendation" /\ "predicted" \in rows
             /\ rows' = rows \cup {row, "predicted_observation_id"}
  /\ UNCHANGED <<decided, valid, req>>

Decide ==
  /\ req.code = 0 /\ "recommendation" \in rows
  /\ decided' \in BOOLEAN
  /\ UNCHANGED <<rows, valid, req>>

\* One client is enough: a request is made by one.
Revoke ==
  /\ req.code = 0 /\ valid = DOMAIN Client
  /\ \E c \in valid : valid' = valid \ {c}
  /\ UNCHANGED <<rows, decided, req>>

Receive ==
  /\ req = Unsent
  /\ \E k \in Kinds, c \in DOMAIN Client :
       req' = [Unsent EXCEPT !.kind = k, !.as = c, !.todo = Program(k).steps]
  /\ UNCHANGED <<rows, decided, valid>>

Authenticated ==
  /\ At("token")
  /\ \/ End("Forbidden")
     \/ IF req.as \in valid /\ \A l \in Program(req.kind).auth.levels : Me.level <= l
        THEN Proceed ELSE End("Unauthorized")
  /\ UNCHANGED <<rows, decided, valid>>

Parameters ==
  /\ At("params") \/ At("no_params")
  /\ Proceed \/ End("BadRequest")
  /\ UNCHANGED <<rows, decided, valid>>

\* from_id, from_observation: a row that there is, the id of none, or what is no
\* id, which one route lets through to the database.
Load ==
  /\ \E table \in DOMAIN Table :
       /\ At(table)
       /\ \/ End("NotFound")
          \/ req.kind[1] = "get_observation_model" /\ End("Critical")
          \/ \E row \in Table[table] \cap rows :
               req' = [req EXCEPT !.todo = Tail(@), !.at = row, !.visited = {row},
                                  !.columns = rows \cap Columns]
  /\ UNCHANGED <<rows, decided, valid>>

Related_M(attribute) ==
  IF attribute \in {"observed", "predicted"} /\ req.columns # Columns THEN None
  ELSE IF Attributes[req.at][attribute] \in rows THEN Attributes[req.at][attribute] ELSE None

\* The recommendation's own columns were read when it was loaded.
Related(attribute) ==
  LET row == Attributes[req.at][attribute] IN
  IF \/ attribute = "observed" /\ "observation_id" \notin req.columns
     \/ /\ attribute \in {"predicted", "model"}
        /\ "predicted_observation_id" \notin req.columns
     \/ row \notin rows
  THEN None ELSE row

\* An attribute of nothing is an AttributeError, be it another relation or the
\* to_json with which the handler ends, if it does not look first ("found").
Follow ==
  /\ Busy /\ req.todo # <<>>
  /\ LET attribute == Head(req.todo) IN
     /\ attribute \in UNION {DOMAIN Attributes[row] : row \in DOMAIN Attributes}
     /\ IF req.at = None \/ (Len(req.todo) = 1 /\ Related(attribute) = None)
        THEN End("Critical") ELSE Visit(Related(attribute))
  /\ UNCHANGED <<rows, decided, valid>>

NoneFound_M ==
  /\ At("found") \/ At("has_observation")
  /\ IF req.at # None THEN Proceed ELSE End("Critical")
  /\ UNCHANGED <<rows, decided, valid>>

NoneFound ==
  /\ At("found") \/ At("has_observation")
  /\ IF IF At("found") THEN req.at # None ELSE "observation_id" \in req.columns
     THEN Proceed ELSE End("NotFound")
  /\ UNCHANGED <<rows, decided, valid>>

------------------------------------------------------------------------------
(***************************************************************************)
(* Permissions.                                                            *)
(***************************************************************************)
UserOf(source) == Attributes[source].user

is_viewable(obs) ==
  \/ Admin
  \/ UserOf(Attributes[obs].source) = Me.user
  \/ Attributes[obs].source # "observer_source"

is_owner_M == Me.user = "observer" \/ Me.level <= 10
is_owner == Me.user = "observer" \/ Admin

is_public_source(source) ==
  UserOf(source) = None \/ UserOf(source) = Me.user \/ Admin

is_associated ==
  Admin \/ (Me.user = "observer" /\ {"recommendation", "predicted_observation_id"} \subseteq rows)

Permitted(guard) ==
  \/ guard = "is_viewable" /\ is_viewable(req.at)
  \/ guard = "is_owner" /\ is_owner
  \/ guard = "is_user" /\ Me.user = "observer"
  \/ guard = "is_file_owner" /\ (UserOf("observer_source") = Me.user \/ Admin)
  \/ guard = "is_public_source" /\ is_public_source(req.at)
  \/ guard = "is_associated" /\ is_associated

Check ==
  /\ \E guard \in {"is_viewable", "is_owner", "is_user", "is_file_owner", "is_public_source",
                   "is_associated"} :
       At(guard) /\ IF Permitted(guard) THEN Proceed ELSE End("Unauthorized")
  /\ UNCHANGED <<rows, decided, valid>>
------------------------------------------------------------------------------
(***************************************************************************)
(* Lists.                                                                  *)
(***************************************************************************)
\* Too few filters, a source that there is not or is a broker's; the type of a
\* filter is not checked, nor is the sign of a limit.  The latest epoch is not
\* looked for if get_next is given one.
Filters ==
  /\ \/ At("filters") /\ (Proceed \/ End("TooLarge") \/ End("NotFound") \/ End("Critical"))
     \/ At("enough") /\ (Proceed \/ End("BadRequest") \/ End("TooLarge") \/ End("Critical"))
     \/ At("latest_epoch") /\ End("Critical")
     \/ At("latest_epoch") /\ ("epoch" \in rows \/ req.kind[1] = "get_next") /\ Proceed
  /\ UNCHANGED <<rows, decided, valid>>

ListRows ==
  /\ \/ At("list_observations") /\ List({o \in Observations \cap rows : is_viewable(o)})
     \/ At("list_models_of") /\ List(IF req.at = "predicted" THEN {"model"} ELSE {})
     \/ At("list_models") /\ List({"model"})
     \/ At("list_model_info") /\ List(IF "predicted_observation_id" \in req.columns THEN {"model"} ELSE {})
     \/ At("list_next") /\ List(IF Me.user = "observer" /\ ~decided THEN {"recommendation"} ELSE {})
     \/ At("list_history") /\ List(IF Me.user = "observer" /\ decided THEN {"recommendation"} ELSE {})
     \/ At("list_epochs") /\ List({"epoch"})
     \/ At("list_types") /\ List({"observation_type", "file_type"})
     \/ At("count") /\ Proceed
  /\ UNCHANGED <<rows, decided, valid>>

\* Accepted or rejected, or neither any more; what is no Boolean is refused by
\* the database only.
Update ==
  /\ At("update")
  /\ \/ decided' \in BOOLEAN /\ Proceed
     \/ End("Critical") /\ UNCHANGED decided
  /\ UNCHANGED <<rows, valid>>

Answer ==
  /\ Busy /\ req.todo = <<>>
  /\ req' = [req EXCEPT !.code = Code["OK"]]
  /\ UNCHANGED <<rows, decided, valid>>

Finished == req.code # 0 /\ UNCHANGED vars

Next ==
  \/ Arrive \/ Decide \/ Revoke \/ Finished
  \/ Receive \/ Authenticated \/ Parameters \/ Load \/ Follow \/ NoneFound \/ Check
  \/ Filters \/ ListRows \/ Update \/ Answer

Spec == Init /\ [][Next]_vars
------------------------------------------------------------------------------
(***************************************************************************)
(* Properties.                                                             *)
(***************************************************************************)
TypeOK ==
  /\ rows \subseteq Rows /\ Fixed \ {"object_type"} \subseteq rows
  /\ \A row \in rows \cap DOMAIN Needs : Needs[row] \subseteq rows
  /\ decided \in BOOLEAN /\ valid \subseteq DOMAIN Client
  /\ req.as \in DOMAIN Client \cup {None}
  /\ req.visited \subseteq rows /\ req.at \in Rows \cup {None}
  /\ req.columns \subseteq rows \cap Columns
  /\ req.code \in {0} \cup {Code[a] : a \in Answered}

Answers(codes, kinds) == req.code \in codes /\ req.kind[1] \in kinds
Limited == {"get_many", "get_models", "get_next", "get_epoch"}
Slice == req.kind[2]

\* What is answered is what info['Endpoints'] documents, but for a bad request,
\* the failures of the lists that take a limit or look for the latest epoch, a
\* value that is no Boolean, an id of a model that is no integer, the type of an
\* object that has none, and the relations of a member that a recommendation
\* does not have yet, which all fail and are not 404.
AnswersDocumented ==
  req.code # 0 =>
    \/ req.code \in Program(req.kind).docs \cup {400}
    \/ Answers({404, 500}, {"get_many"}) \/ Answers({500}, Limited) \/ Answers({413}, {"get_epoch"})
    \/ Answers({500}, {"put_recommendation_attribute", "get_observation_model"})
    \/ /\ Answers({500}, {"get_observation_object_type", "get_type_from_object"})
       /\ "object_type" \notin rows
    \/ /\ req.code = 500 /\ Len(Slice) > 1
       /\ \/ Head(Slice) = "observed" /\ "observation_id" \notin req.columns
          \/ Head(Slice) = "predicted" /\ "predicted_observation_id" \notin req.columns

\* What is an observer's is answered to that observer and to administrators
\* only, whichever way it is reached (is_owner, is_viewable, _get_source).
Private == {"recommendation", "observed", "file", "observer_source"}
OwnersOnly ==
  req.code = 200 /\ req.visited \cap Private # {} => Me.user = "observer" \/ Admin

\* A model is answered to those it was recommended to by the endpoint that says
\* so in its 'Permissions', and everything 'Public' to every client that is
\* not revoked; what is 'Public/Owner' is refused only for being another's, be
\* that refitt's own source, which the observations of forecasts do show.
PermissionsDocumented ==
  /\ req.code = 200 /\ Program(req.kind).who = "Owner" /\ "model" \in req.visited =>
       Admin \/ (Me.user = "observer" /\ "predicted_observation_id" \in rows)
  /\ req.code = 401 /\ req.as \in valid =>
       \/ Program(req.kind).who \in {"Owner", "Admin"}
       \/ Program(req.kind).who = "Public/Owner" /\ req.at \in Private \cup {"refitt_source"}

\* Once the recommendation refers to it, what was observed, of an object that has
\* a type, is shown with all its relations, and neither missing nor a failure.
UploadedReadable ==
  Slice # <<>> /\ req.columns # {} /\ "object_type" \in rows =>
    /\ Head(Slice) = "observed" /\ "observation_id" \in req.columns => req.code \notin {404, 500}
    /\ Slice = <<"predicted", "source", "user">> /\ "predicted_observation_id" \in req.columns =>
         req.code \notin {404, 500}

\* The request is well formed, and answered as its endpoint documents, but for
\* the failures that AnswersDocumented names (response.py endpoint).
AnswersInv == TypeOK /\ AnswersDocumented

\* Everyone is shown what is theirs or public, and nothing else, whichever
\* endpoint leads to it (observation.py is_viewable, recommendation.py
\* is_owner).
AccessInv == OwnersOnly /\ PermissionsDocumented
==============================================================================
