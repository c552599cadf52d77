------------------------------ MODULE Endpoints ------------------------------
(***************************************************************************)
(* The endpoints of the web API (web/api/endpoint), as data: whom an       *)
(* endpoint admits, the steps its handler takes in order, and the status   *)
(* codes that its entry in info['Endpoints'] documents.  The steps are     *)
(* given their meaning by Accounts (users, facilities, credentials) and    *)
(* Queries (what observers read).                                          *)
(***************************************************************************)
EXTENDS Naturals, Sequences

(***************************************************************************)
(* auth.py.  A client may be admitted by its token, whatever its level, or *)
(* up to a level; GET /token alone asks for key and secret instead.        *)
(***************************************************************************)
Token(levels) == [by |-> "token", levels |-> levels]
authenticated == Token({})
authorization_1 == Token({1})
authorization_0 == Token({0})
authenticate == [by |-> "secret", levels |-> {}]

\* What endpoint() in response.py answers to the exceptions of a handler.
Answered == {"OK", "Forbidden", "Unauthorized", "NotFound", "BadRequest", "TooLarge", "Critical"}
Code == [OK |-> 200, BadRequest |-> 400, Unauthorized |-> 401, Forbidden |-> 403,
         NotFound |-> 404, TooLarge |-> 413, Critical |-> 500]

\* Once a request is admitted, a handler may ask for what takes no look at the
\* database: disallow_parameters, collect_parameters and require_data.
Endpoint(auth, asks, steps, docs) ==
  [auth |-> auth, asks |-> asks, steps |-> <<auth.by>> \o steps, docs |-> docs]
------------------------------------------------------------------------------
(***************************************************************************)
(* user.py                                                                 *)
(***************************************************************************)
get_profile == Endpoint(authenticated, {"no_params"}, <<"own_user">>, {200, 401, 403})
search_user == Endpoint(authorization_1, {"params"}, <<"user">>, {200, 400, 401, 403, 404})
add_user == Endpoint(authorization_1, {"no_params", "payload"}, <<"add_user">>, {200, 400, 401, 403})
get_user == Endpoint(authorization_1, {"no_params"}, <<"user">>, {200, 401, 403, 404})
update_user == Endpoint(authorization_1, {}, <<"user", "write_user">>, {200, 401, 403, 404})
delete_user == Endpoint(authorization_1,
  {"no_params"}, <<"user", "client_to_drop", "pairs_of_user", "drop_pairs", "drop_user">>,
  {200, 401, 403, 404})
get_all_user_facilities == Endpoint(authorization_1, {"no_params"}, <<"user">>, {200, 401, 403, 404})
get_user_facility ==
  Endpoint(authorization_1, {"no_params"}, <<"user", "associated">>, {200, 401, 403, 404})
add_user_facility_association ==
  Endpoint(authorization_1, {"no_params"}, <<"user", "facility", "associate">>, {200, 401, 403, 404})
delete_user_facility_association ==
  Endpoint(authorization_1, {"no_params"}, <<"user", "facility", "pair_of_both", "drop_pairs">>,
           {200, 401, 403, 404})
------------------------------------------------------------------------------
(***************************************************************************)
(* facility.py                                                             *)
(***************************************************************************)
add_facility ==
  Endpoint(authorization_1, {"no_params", "payload"}, <<"add_facility">>, {200, 400, 401, 403})
get_facility == Endpoint(authorization_1, {"no_params"}, <<"facility">>, {200, 401, 403, 404})
update_facility ==
  Endpoint(authorization_1, {}, <<"facility", "write_facility">>, {200, 401, 403, 404})
delete_facility == Endpoint(authorization_1,
  {"no_params"}, <<"facility", "pairs_of_facility", "drop_pairs", "drop_facility">>,
  {200, 401, 403, 404})
get_all_facility_users == Endpoint(authorization_1, {"no_params"}, <<"facility">>, {200, 401, 403, 404})
get_facility_user ==
  Endpoint(authorization_1, {"no_params"}, <<"facility", "associated">>, {200, 401, 403, 404})
add_facility_user_association ==
  Endpoint(authorization_1, {"no_params"}, <<"facility", "user", "associate">>, {200, 401, 403, 404})
delete_facility_user_association ==
  Endpoint(authorization_1, {"no_params"}, <<"facility", "user", "pair_of_both", "drop_pairs">>,
           {200, 401, 403, 404})
------------------------------------------------------------------------------
(***************************************************************************)
(* client.py and token.py                                                  *)
(***************************************************************************)
get_client == Endpoint(authorization_0, {}, <<"new_key">>, {200, 401, 403, 404})
get_client_secret == Endpoint(authorization_0, {}, <<"new_secret">>, {200, 401, 403, 404})
get_token == Endpoint(authenticate, {}, <<"session">>, {200, 403})
get_token_for_user == Endpoint(authorization_0, {}, <<"session">>, {200, 401, 403, 404})
==============================================================================
