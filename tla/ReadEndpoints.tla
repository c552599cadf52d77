----------------------------- MODULE ReadEndpoints -----------------------------
(***************************************************************************)
(* The endpoints that observers read: observation.py, recommendation.py,   *)
(* source.py, model.py, object.py and epoch.py, as data.  "who" is what    *)
(* the documentation gives as 'Permissions'.  A step with a capital loads  *)
(* a row by the id in the path, one without follows an attribute of the    *)
(* row at hand or checks it; Queries gives each its meaning.               *)
(***************************************************************************)
EXTENDS Endpoints, TLC

\* These handlers ask for parameters in between, so that it is among the steps.
Reader(who, auth, steps, docs) == [who |-> who] @@ Endpoint(auth, {}, steps, docs)
By(who, steps, docs) == Reader(who, authenticated, steps, docs \cup {200, 401, 403})
Public(steps, docs) == By("Public", steps, docs)
Shared(steps, docs) == By("Public/Owner", steps, docs)
Owner(steps, docs) == By("Owner", steps, docs)
------------------------------------------------------------------------------
(***************************************************************************)
(* observation.py                                                          *)
(***************************************************************************)
_get_observation == <<"Observation", "is_viewable">>
own_file == <<"is_file_owner">>

get_many == Public(<<"params", "filters", "list_observations">>, {413})
get_observation == Shared(<<"params">> \o _get_observation, {404})
get_observation_object == Shared(<<"params">> \o _get_observation \o <<"object">>, {404})
get_observation_object_type ==
  Shared(<<"no_params">> \o _get_observation \o <<"object", "type">>, {404})
get_observation_type == Shared(<<"no_params">> \o _get_observation \o <<"type">>, {404})
get_observation_source == Shared(<<"params">> \o _get_observation \o <<"source">>, {404})
get_observation_source_type ==
  Shared(<<"no_params">> \o _get_observation \o <<"source", "type">>, {404})
get_observation_source_user ==
  Shared(<<"no_params">> \o _get_observation \o <<"source", "user", "found">>, {404})
get_observation_source_facility ==
  Shared(<<"no_params">> \o _get_observation \o <<"source", "facility", "found">>, {404})
get_observation_alert == Shared(<<"no_params">> \o _get_observation \o <<"alert", "found">>, {404})
get_observation_model == Public(<<"no_params", "Model">>, {404})
get_observation_models == Shared(<<"no_params">> \o _get_observation \o <<"list_models_of">>, {404})
get_observation_file == Owner(<<"no_params", "File">> \o own_file, {404})
get_observation_file_type == Owner(<<"no_params", "File">> \o own_file \o <<"type">>, {404})
get_type == Public(<<"no_params", "ObservationType">>, {404})
get_observation_types == Public(<<"no_params", "list_types">>, {})
get_alert == Public(<<"no_params", "Alert">>, {404})
get_file == Owner(<<"no_params", "File">> \o own_file, {404})
get_type_for_file == Owner(<<"no_params", "File">> \o own_file \o <<"type">>, {404})
get_file_type == Public(<<"no_params", "FileType">>, {404})
get_file_types == Public(<<"no_params", "list_types">>, {})
------------------------------------------------------------------------------
(***************************************************************************)
(* recommendation.py                                                       *)
(***************************************************************************)
get_own == <<"Recommendation", "is_owner">>

recommendation_slices ==
  {<<"epoch">>, <<"tag">>, <<"user">>, <<"facility">>, <<"object">>, <<"object", "type">>} \cup
  { <<o>> \o path : o \in {"predicted", "observed"},
      path \in {<<>>, <<"type">>, <<"object">>, <<"object", "type">>, <<"source">>,
                <<"source", "type">>, <<"source", "user">>} } \cup
  {<<"observed", "source", "facility">>}

get_next == Owner(<<"params", "latest_epoch", "list_next">>, {400})
get_recommendation_by_id == Owner(<<"params">> \o get_own, {400, 404})
put_recommendation_attribute == Owner(get_own \o <<"params", "update">>, {400, 404})
get_recommendation_partial(path) ==
  Owner(<<"params">> \o get_own \o path \o <<"found">>, {400, 404})
get_recommendation_history == Owner(<<"params", "list_history">>, {400})
get_recommendation_observed_file ==
  Owner(get_own \o <<"has_observation", "no_params", "observed", "file", "found">>, {404})
get_recommendation_observed_file_type ==
  Owner(<<"Recommendation", "is_user", "has_observation", "no_params", "observed", "file",
          "found", "type">>, {404})
get_recommendation_model_info ==
  Owner(<<"no_params">> \o get_own \o <<"list_model_info">>, {400, 404})
get_recommendation_model_by_type ==
  Owner(<<"no_params">> \o get_own \o <<"model", "found">>, {400, 404})
get_recommendation_totals ==
  Reader("Admin", authorization_1, <<"params", "count">>, {200, 400, 401, 403})
------------------------------------------------------------------------------
(***************************************************************************)
(* source.py, model.py, object.py and epoch.py                             *)
(***************************************************************************)
_get_source == <<"Source", "is_public_source">>

get_source == Shared(<<"params">> \o _get_source, {404})
get_type_of_source == Shared(<<"no_params">> \o _get_source \o <<"type">>, {404})
get_user_of_source == Shared(<<"no_params">> \o _get_source \o <<"user", "found">>, {404})
get_facility_of_source == Shared(<<"no_params">> \o _get_source \o <<"facility", "found">>, {404})
get_source_type == Public(<<"no_params", "SourceType">>, {404})

get_models ==
  Reader("Owner", authorization_1, <<"params", "enough", "list_models">>, {200, 400, 401, 403, 413})
get_model_by_id == Owner(<<"params", "Model", "is_associated">>, {400, 404})

get_object == Public(<<"params", "Object">>, {404})
get_type_from_object == Public(<<"no_params", "Object", "type">>, {404})
get_object_type == Public(<<"no_params", "ObjectType">>, {404})

get_epoch == Public(<<"params", "enough", "latest_epoch", "list_epochs">>, {400})
get_epoch_by_id == Public(<<"no_params", "Epoch">>, {400, 404})
==============================================================================
