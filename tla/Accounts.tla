------------------------------- MODULE Accounts -------------------------------
(***************************************************************************)
(* Users, facilities, their associations and credentials: the endpoints of *)
(* user.py, facility.py, client.py and token.py and the program            *)
(* refitt auth (apps/refitt/auth.py) over database/model.py.               *)
(*                                                                         *)
(* A request is a list of steps (Endpoints), each a query or a commit of   *)
(* its own, and requests of several workers interleave between them.  Rows *)
(* carry the request that wrote them: a client's id, its key and its       *)
(* secret are named for the request that generated them, those that were   *)
(* there from the start for their user.  Row ids are not given twice.      *)
(*                                                                         *)
(* A row that is gone when the session has to load or update it again      *)
(* makes the request fail; for a row that the session deletes, that        *)
(* depends on whether it was loaded since the last commit, and the model   *)
(* allows both.  Names, addresses and other plain columns are left out;    *)
(* that a unique one is taken may happen to any request that writes it.    *)
(* The database enforces the foreign keys, as PostgreSQL does (SQLite does *)
(* so only when it is told to, which core/config.py does not).             *)
(* Names ending in _M are mistakes the code does not make, used to test    *)
(* the properties.                                                         *)
(***************************************************************************)
EXTENDS Endpoints, FiniteSets

CONSTANTS
  Requests,      \* the requests the server and the command line may receive
  Users, Root,   \* the users there may be; Root is an administrator
  Targets,       \* the users that requests are about
  Facilities,
  Kinds,         \* the kinds of request that are made
  None

ASSUME AccountsAssumption ==
  /\ Requests \cap Users = {} /\ Root \in Users /\ Targets \subseteq Users
  /\ None \notin Requests \cup Users /\ Users \cap Facilities = {}
  /\ \A id, key, secret \in Requests \cup Users \cup {None} : None # [id |-> id, key |-> key, secret |-> secret]

VARIABLES
  users, facilities,   \* the rows of User and Facility
  spare,               \* users and facilities whose ids were not yet given
  recommended,         \* the user and facility pairs that recommendations refer to
  pairs,               \* FacilityMap
  clients,             \* the rows of Client
  session,             \* the client ids in Session
  req                  \* the requests

tables == <<users, facilities, spare, recommended, pairs, clients, session>>
vars == <<tables, req>>

------------------------------------------------------------------------------
(***************************************************************************)
(* refitt auth: update_key, update_secret, update_token, revoke.           *)
(***************************************************************************)
update_key == [steps |-> <<"new_key", "session">>, docs |-> {}]
update_secret == [steps |-> <<"new_secret", "session">>, docs |-> {}]
update_token == [steps |-> <<"session">>, docs |-> {}]
revoke_credentials == [steps |-> <<"client_to_revoke", "revoke">>, docs |-> {}]

Program == [
  get_profile |-> get_profile, search_user |-> search_user, add_user |-> add_user,
  get_user |-> get_user, update_user |-> update_user, delete_user |-> delete_user,
  get_all_user_facilities |-> get_all_user_facilities, get_user_facility |-> get_user_facility,
  add_user_facility_association |-> add_user_facility_association,
  delete_user_facility_association |-> delete_user_facility_association,
  add_facility |-> add_facility, get_facility |-> get_facility,
  update_facility |-> update_facility, delete_facility |-> delete_facility,
  get_all_facility_users |-> get_all_facility_users, get_facility_user |-> get_facility_user,
  add_facility_user_association |-> add_facility_user_association,
  delete_facility_user_association |-> delete_facility_user_association,
  get_client |-> get_client, get_client_secret |-> get_client_secret,
  get_token |-> get_token, get_token_for_user |-> get_token_for_user,
  update_key |-> update_key, update_secret |-> update_secret,
  update_token |-> update_token, revoke_credentials |-> revoke_credentials]

ASSUME KindsAssumption == Kinds \subseteq DOMAIN Program /\ None \notin DOMAIN Program

CommandLine == {"update_key", "update_secret", "update_token", "revoke_credentials"}
------------------------------------------------------------------------------
(***************************************************************************)
(* Requests.                                                               *)
(***************************************************************************)
Unsent == [kind |-> None, as |-> None, user |-> None, facility |-> None, todo |-> <<>>,
           row |-> None, found |-> {}, got |-> None, code |-> 0, refused |-> FALSE, before |-> {}]
Identity(c) == [id |-> c.id, key |-> c.key, secret |-> c.secret]
\* What was given out for a client that is no longer there.
Former == [id |-> None, key |-> None, secret |-> None]

Sent == {r \in Requests : req[r].kind # None}
Over == {r \in Sent : req[r].code # 0}
Busy == Sent \ Over

At(r, step) == req[r].todo # <<>> /\ Head(req[r].todo) = step /\ r \in Busy
\* The steps replace the one r is at.
Then(r, steps) == req' = [req EXCEPT ![r].todo = steps \o Tail(@)]
Load(r, row, steps) == req' = [req EXCEPT ![r].todo = steps \o Tail(@), ![r].row = row]
Proceed(r) == Then(r, <<>>)
End(r, error) == req' = [req EXCEPT ![r].todo = <<>>, ![r].code = Code[error]]

Target(r) == req[r].user
ClientOf(u) == {c \in clients : c.user = u}
WithId(id) == {c \in clients : c.id = id}
Loaded(r) == WithId(req[r].row)

Credentials(id, u, level) ==
  [id |-> id, user |-> u, level |-> level, key |-> id, secret |-> id, valid |-> TRUE]
------------------------------------------------------------------------------
DEFAULT_CLIENT_LEVEL == 10

\* Root is there with full access; another user may be, with or without
\* credentials, a session, an association and recommendations.
Init ==
  /\ users \in {s \in SUBSET Users : Root \in s}
  /\ facilities \in {{}, Facilities}
  /\ spare = (Users \ users) \cup (Facilities \ facilities)
  /\ pairs \in SUBSET ((users \ {Root}) \X facilities)
  /\ recommended \in {{}, pairs}
  /\ \E known \in SUBSET (users \ {Root}) :
       clients = {Credentials(Root, Root, 0)} \cup
                 {Credentials(u, u, DEFAULT_CLIENT_LEVEL) : u \in known}
  /\ session \in {{}, {c.id : c \in clients}}
  /\ req = [r \in Requests |-> Unsent]

\* A request comes in, with a token or credentials that were given out for a
\* client, which may have been deleted since.
Receive(r) ==
  /\ r \notin Sent
  /\ \E k \in Kinds, u \in Targets, f \in Facilities :
       \E as \in IF k \in CommandLine THEN {None} ELSE {Identity(c) : c \in clients} \cup {Former} :
         req' = [req EXCEPT ![r] =
           [Unsent EXCEPT !.kind = k, !.as = as, !.user = u, !.facility = f,
                          !.todo = Program[k].steps, !.before = Over]]
  /\ UNCHANGED tables

\* The token is checked, and the client looked up with it: what its level
\* and validity are is read once.  Then the handler looks at what it asks for.
Authenticated(r) ==
  LET c == WithId(req[r].as.id)
      levels == Program[req[r].kind].auth.levels
      Admit(u) == req' = [req EXCEPT ![r].todo = Tail(@), ![r].user = u]
  IN
  /\ At(r, "token")
  /\ \/ End(r, "Forbidden")                         \* missing, invalid or expired
     \/ /\ c = {}
        /\ End(r, "NotFound")
     \/ \E admitted \in c :
          IF admitted.valid /\ \A l \in levels : admitted.level <= l
          THEN \/ Admit(IF req[r].kind = "get_profile" THEN admitted.user ELSE Target(r))
               \/ Program[req[r].kind].asks # {} /\ End(r, "BadRequest")
          ELSE End(r, "Unauthorized")
  /\ UNCHANGED tables

Authenticate_M(r) ==
  /\ At(r, "secret")
  /\ \/ End(r, "Forbidden")
     \/ \E c \in clients :
          /\ c.key = req[r].as.key /\ c.secret = req[r].as.secret
          /\ req' = [req EXCEPT ![r].todo = Tail(@), ![r].user = c.user]
  /\ UNCHANGED tables

\* The client is looked up with the key, and the secret compared.
Authenticate(r) ==
  LET holders == {c \in clients : c.key = req[r].as.key} IN
  /\ At(r, "secret")
  /\ \/ End(r, "Forbidden")                         \* missing or malformed
     \/ /\ holders = {}
        /\ End(r, "Forbidden")
     \/ \E c \in holders :
          IF c.secret # req[r].as.secret THEN End(r, "Forbidden")
          ELSE IF ~c.valid THEN End(r, "Unauthorized")
          ELSE req' = [req EXCEPT ![r].todo = Tail(@), ![r].user = c.user]
  /\ UNCHANGED tables

\* A step fails, at what the request has given it (a parameter named id is a
\* TypeError in User.update) or in the database (any error but a violated
\* constraint).
Refused(r) ==
  /\ r \in Busy /\ req[r].todo # <<>>
  /\ req' = [req EXCEPT ![r].todo = <<>>, ![r].code = Code["Critical"], ![r].refused = TRUE]
  /\ UNCHANGED tables

Answer(r) ==
  /\ r \in Busy /\ req[r].todo = <<>>
  /\ req' = [req EXCEPT ![r].code = Code["OK"]]
  /\ UNCHANGED tables
------------------------------------------------------------------------------
(***************************************************************************)
(* Users and facilities.                                                   *)
(***************************************************************************)
FindUser_M(r) ==
  /\ At(r, "user")
  /\ IF Target(r) \in users THEN Proceed(r) ELSE End(r, "Critical")
  /\ UNCHANGED tables

FindUser(r) ==
  /\ At(r, "user")
  /\ IF Target(r) \in users THEN Proceed(r) ELSE End(r, "NotFound")
  /\ UNCHANGED tables

FindFacility(r) ==
  /\ At(r, "facility")
  /\ IF req[r].facility \in facilities THEN Proceed(r) ELSE End(r, "NotFound")
  /\ UNCHANGED tables

\* client.user is loaded; without one there is nothing to convert.
OwnUser(r) ==
  /\ At(r, "own_user")
  /\ IF Target(r) \in users THEN Proceed(r) ELSE End(r, "Critical")
  /\ UNCHANGED tables

Associated(r) ==
  /\ At(r, "associated")
  /\ IF <<Target(r), req[r].facility>> \in pairs THEN Proceed(r) ELSE End(r, "NotFound")
  /\ UNCHANGED tables

\* A profile with an id replaces one; another is added.
AddUser(r) ==
  /\ At(r, "add_user")
  /\ \/ Then(r, <<"user", "write_user">>) /\ UNCHANGED <<users, spare>>
     \/ End(r, "BadRequest") /\ UNCHANGED <<users, spare>>
     \/ \E u \in spare \cap Users :
          /\ users' = users \cup {u}
          /\ spare' = spare \ {u}
          /\ Proceed(r)
  /\ UNCHANGED <<facilities, recommended, pairs, clients, session>>

AddFacility(r) ==
  /\ At(r, "add_facility")
  /\ \/ Then(r, <<"facility", "write_facility">>) /\ UNCHANGED <<facilities, spare>>
     \/ End(r, "BadRequest") /\ UNCHANGED <<facilities, spare>>
     \/ \E f \in spare \cap Facilities :
          /\ facilities' = facilities \cup {f}
          /\ spare' = spare \ {f}
          /\ Proceed(r)
  /\ UNCHANGED <<users, recommended, pairs, clients, session>>

\* ModelBase.update: a unique column may be taken, or the row be gone.
Write(r) ==
  /\ At(r, "write_user") \/ At(r, "write_facility")
  /\ IF (Head(req[r].todo) = "write_user" /\ Target(r) \in users) \/
        (Head(req[r].todo) = "write_facility" /\ req[r].facility \in facilities)
     THEN Proceed(r) \/ End(r, "BadRequest")
     ELSE End(r, "Critical")
  /\ UNCHANGED tables

\* A row that the session deletes is gone already: the request fails if the
\* row must be loaded again, and goes on if not.
Gone(r) == Proceed(r) \/ End(r, "Critical")
------------------------------------------------------------------------------
(***************************************************************************)
(* Associations: User.add_facility, Facility.add_user and their inverses.  *)
(***************************************************************************)
Pair(r) == <<Target(r), req[r].facility>>

FindPair(r) ==
  /\ At(r, "associate")
  /\ Then(r, IF Pair(r) \in pairs THEN <<>> ELSE <<"add_pair", "reload_pair">>)
  /\ UNCHANGED tables

\* Nothing catches the violation of a key.
AddPair(r) ==
  /\ At(r, "add_pair")
  /\ IF Target(r) \in users /\ req[r].facility \in facilities /\ Pair(r) \notin pairs
     THEN pairs' = pairs \cup {Pair(r)} /\ Proceed(r)
     ELSE End(r, "Critical") /\ UNCHANGED pairs
  /\ UNCHANGED <<users, facilities, spare, recommended, clients, session>>

\* Both records are loaded again for the log.
ReloadPair(r) ==
  /\ At(r, "reload_pair")
  /\ IF Target(r) \in users /\ req[r].facility \in facilities
     THEN Proceed(r) ELSE End(r, "Critical")
  /\ UNCHANGED tables

FindPairs(r) ==
  /\ \E step \in {"pair_of_both", "pairs_of_user", "pairs_of_facility"} :
       /\ At(r, step)
       /\ req' = [req EXCEPT ![r].todo = Tail(@), ![r].found =
            {p \in pairs : /\ step # "pairs_of_facility" => p[1] = Target(r)
                           /\ step # "pairs_of_user" => p[2] = req[r].facility}]
  /\ UNCHANGED tables

\* The associations that were found are deleted with a commit each.
DropPairs(r) ==
  /\ At(r, "drop_pairs")
  /\ \/ /\ req[r].found = {}
        /\ Proceed(r)
        /\ UNCHANGED pairs
     \/ \E p \in req[r].found :
          /\ \/ /\ pairs' = pairs \ {p}
                /\ req' = [req EXCEPT ![r].found = @ \ {p}]
             \/ /\ p \notin pairs
                /\ End(r, "Critical")
                /\ UNCHANGED pairs
  /\ UNCHANGED <<users, facilities, spare, recommended, clients, session>>
------------------------------------------------------------------------------
(***************************************************************************)
(* User.delete and Facility.delete.                                        *)
(***************************************************************************)
FindClientToDrop(r) ==
  /\ At(r, "client_to_drop")
  /\ IF ClientOf(Target(r)) = {} THEN Proceed(r)
     ELSE \E c \in ClientOf(Target(r)) :
            Load(r, c.id, <<"session_to_drop", "drop_client">>)
  /\ UNCHANGED tables

FindSessionToDrop(r) ==
  /\ At(r, "session_to_drop")
  /\ Then(r, IF req[r].row \in session THEN <<"drop_session">> ELSE <<>>)
  /\ UNCHANGED tables

DropSession(r) ==
  /\ At(r, "drop_session")
  /\ session' = session \ {req[r].row}
  /\ IF req[r].row \in session THEN Proceed(r) ELSE Gone(r)
  /\ UNCHANGED <<users, facilities, spare, recommended, pairs, clients>>

DropClient_M(r) ==
  /\ At(r, "drop_client")
  /\ clients' = clients \ Loaded(r)
  /\ Proceed(r)
  /\ UNCHANGED <<users, facilities, spare, recommended, pairs, session>>

\* A session that was added meanwhile may not lose its client.
DropClient(r) ==
  /\ At(r, "drop_client")
  /\ IF req[r].row \in session THEN End(r, "BadRequest") /\ UNCHANGED clients
     ELSE /\ clients' = clients \ Loaded(r)
          /\ IF Loaded(r) # {} THEN Proceed(r) ELSE Gone(r)
  /\ UNCHANGED <<users, facilities, spare, recommended, pairs, session>>

\* The database takes the associations along, but nothing that refers to the
\* user by a column that is not nullable.
DropUser(r) ==
  LET referred == ClientOf(Target(r)) # {} \/ \E p \in recommended : p[1] = Target(r) IN
  /\ At(r, "drop_user")
  /\ IF referred THEN End(r, "BadRequest") /\ UNCHANGED <<users, pairs>>
     ELSE /\ users' = users \ {Target(r)}
          /\ pairs' = {p \in pairs : p[1] # Target(r)}
          /\ IF Target(r) \in users THEN Proceed(r) ELSE Gone(r)
  /\ UNCHANGED <<facilities, spare, recommended, clients, session>>

DropFacility(r) ==
  LET f == req[r].facility IN
  /\ At(r, "drop_facility")
  /\ IF \E p \in recommended : p[2] = f
     THEN End(r, "BadRequest") /\ UNCHANGED <<facilities, pairs>>
     ELSE /\ facilities' = facilities \ {f}
          /\ pairs' = {p \in pairs : p[2] # f}
          /\ IF f \in facilities THEN Proceed(r) ELSE Gone(r)
  /\ UNCHANGED <<users, spare, recommended, clients, session>>
------------------------------------------------------------------------------
(***************************************************************************)
(* Credentials: Client.new, new_key and new_secret, and Session.new.       *)
(***************************************************************************)
\* What is done for a user without credentials: some requests make them, and
\* none makes them twice.
Creates(r, step) ==
  \/ req[r].kind \in {"get_client", "get_client_secret"}
  \/ req[r].kind = "update_key" /\ step = "new_key"
  \/ req[r].kind = "get_token_for_user" /\ step = "session"
NewClient == <<"user", "add_client", "reload_user">>

\* Client.from_user.
Found(r, then, otherwise) ==
  /\ IF ClientOf(Target(r)) # {}
     THEN \E c \in ClientOf(Target(r)) : Load(r, c.id, then)
     ELSE IF Creates(r, Head(req[r].todo)) THEN Then(r, otherwise) ELSE End(r, "NotFound")
  /\ UNCHANGED tables

FindClient(r) ==
  \/ /\ At(r, "new_key")
     /\ Found(r, <<"write_key", "reload_client">>, NewClient)
  \/ /\ At(r, "new_secret")
     /\ Found(r, <<"write_secret", "reload_client">>, NewClient)
  \/ /\ At(r, "session") \/ At(r, "session_of_new")
     /\ Found(r, <<"old_session">>, NewClient \o <<"session_of_new">>)

FindSession(r) ==
  /\ At(r, "old_session")
  /\ Then(r, IF req[r].row \in session THEN <<"update_session">> ELSE <<"add_session">>)
  /\ UNCHANGED tables

AddClient_M(r) ==
  /\ At(r, "add_client")
  /\ clients' = clients \cup {Credentials(r, Target(r), DEFAULT_CLIENT_LEVEL)}
  /\ req' = [req EXCEPT ![r].todo = Tail(@), ![r].got = <<r, r>>]
  /\ UNCHANGED <<users, facilities, spare, recommended, pairs, session>>

AddClient(r) ==
  /\ At(r, "add_client")
  /\ IF Target(r) \in users /\ ClientOf(Target(r)) = {}
     THEN /\ clients' = clients \cup {Credentials(r, Target(r), DEFAULT_CLIENT_LEVEL)}
          /\ req' = [req EXCEPT ![r].todo = Tail(@), ![r].got = <<r, r>>]
     ELSE End(r, "Critical") /\ UNCHANGED clients
  /\ UNCHANGED <<users, facilities, spare, recommended, pairs, session>>

ReloadUser(r) ==
  /\ At(r, "reload_user")
  /\ IF Target(r) \in users THEN Proceed(r) ELSE End(r, "Critical")
  /\ UNCHANGED tables

\* Only the columns that were assigned are written.
WriteClient(r) ==
  /\ At(r, "write_key") \/ At(r, "write_secret")
  /\ IF Loaded(r) = {} THEN End(r, "Critical") /\ UNCHANGED clients
     ELSE \E c \in Loaded(r) :
            /\ clients' = (clients \ {c}) \cup
                 {[c EXCEPT !.secret = r, !.key = IF At(r, "write_key") THEN r ELSE @]}
            /\ Proceed(r)
  /\ UNCHANGED <<users, facilities, spare, recommended, pairs, session>>

ReloadClient_M(r) ==
  /\ At(r, "reload_client")
  /\ req' = [req EXCEPT ![r].todo = Tail(@), ![r].got = <<r, r>>]
  /\ UNCHANGED tables

\* The key that goes with a new secret is loaded after the commit.
ReloadClient(r) ==
  /\ At(r, "reload_client")
  /\ IF Loaded(r) = {} THEN End(r, "Critical")
     ELSE \E c \in Loaded(r) :
            req' = [req EXCEPT ![r].todo = Tail(@), ![r].got =
              <<IF req[r].kind \in {"get_client", "update_key"} THEN r ELSE c.key, r>>]
  /\ UNCHANGED tables

\* The row that was found is written, whatever other logins have written.
WriteSession(r) ==
  /\ At(r, "update_session") \/ At(r, "add_session")
  /\ IF Loaded(r) # {} /\ (At(r, "update_session") <=> req[r].row \in session)
     THEN session' = session \cup {req[r].row} /\ Proceed(r)
     ELSE End(r, "Critical") /\ UNCHANGED session
  /\ UNCHANGED <<users, facilities, spare, recommended, pairs, clients>>

FindRevoked(r) ==
  /\ At(r, "client_to_revoke")
  /\ IF ClientOf(Target(r)) = {} THEN End(r, "NotFound")
     ELSE \E c \in ClientOf(Target(r)) : Load(r, c.id, <<>>)
  /\ UNCHANGED tables

Revoke(r) ==
  /\ At(r, "revoke")
  /\ IF Loaded(r) = {} THEN End(r, "Critical") /\ UNCHANGED clients
     ELSE /\ clients' = (clients \ Loaded(r)) \cup {[c EXCEPT !.valid = FALSE] : c \in Loaded(r)}
          /\ Proceed(r)
  /\ UNCHANGED <<users, facilities, spare, recommended, pairs, session>>
------------------------------------------------------------------------------
\* Nothing makes a request take its next step: a worker that is killed is one
\* that takes none.
Finished == Over = Requests /\ UNCHANGED vars

Next ==
  \/ \E r \in Requests :
       \/ Receive(r) \/ Authenticated(r) \/ Authenticate(r) \/ Refused(r) \/ Answer(r)
       \/ FindUser(r) \/ FindFacility(r) \/ OwnUser(r) \/ Associated(r)
       \/ AddUser(r) \/ AddFacility(r) \/ Write(r)
       \/ FindPair(r) \/ AddPair(r) \/ ReloadPair(r) \/ FindPairs(r) \/ DropPairs(r)
       \/ FindClientToDrop(r) \/ FindSessionToDrop(r) \/ DropSession(r) \/ DropClient(r) \/ DropUser(r) \/ DropFacility(r)
       \/ FindClient(r) \/ AddClient(r) \/ ReloadUser(r) \/ WriteClient(r) \/ ReloadClient(r)
       \/ FindSession(r) \/ WriteSession(r) \/ FindRevoked(r) \/ Revoke(r)
  \/ Finished

Spec == Init /\ [][Next]_vars
------------------------------------------------------------------------------
(***************************************************************************)
(* Properties.                                                             *)
(***************************************************************************)
Ids == Requests \cup Users
ClientRows == [id : Ids, user : Users, level : Nat, key : Ids, secret : Ids, valid : BOOLEAN]

\* Every variable has its type (database/model.py).
TypeOK ==
  /\ users \subseteq Users /\ facilities \subseteq Facilities
  /\ spare \subseteq Users \cup Facilities
  /\ pairs \subseteq Users \X Facilities /\ recommended \subseteq Users \X Facilities
  /\ clients \subseteq ClientRows
  /\ session \subseteq Ids
  /\ \A r \in Requests :
       /\ req[r].kind \in Kinds \cup {None}
       /\ req[r].as \in [id : Ids, key : Ids, secret : Ids] \cup {None, Former}
       /\ req[r].found \subseteq Users \X Facilities
       /\ req[r].code \in {0} \cup {Code[a] : a \in Answered}
       /\ req[r].refused \in BOOLEAN /\ req[r].before \subseteq Requests

\* At every commit: a user has one set of credentials at most, and nothing
\* refers to a row that is gone (User.delete takes them down one at a time).
Integrity ==
  /\ \A c, d \in clients : c.user = d.user => c = d
  /\ \A c \in clients : c.user \in users
  /\ session \subseteq {c.id : c \in clients}
  /\ pairs \cup recommended \subseteq users \X facilities

Reads == {"get_profile", "search_user", "get_user", "get_all_user_facilities", "get_user_facility",
          "get_facility", "get_all_facility_users", "get_facility_user"}
\* Another request that writes was not over when r began, nor r when it did.
Raced(r) == \E q \in Sent \ {r} :
  /\ req[q].kind \notin Reads
  /\ q \notin req[r].before /\ r \notin req[q].before

\* What the API answers is what info['Endpoints'] documents, but for a bad
\* request; for a revoked client that asks for a token, which is 401 and not
\* 403; for the token of a client that was deleted, which is 404; for a profile
\* that is posted with an unknown id; for what the database refuses; and for a
\* request that has raced another, whose client may be gone or which may fail.
AnswersDocumented ==
  \A r \in Over : req[r].kind \notin CommandLine =>
    \/ req[r].code \in Program[req[r].kind].docs \cup {400}
    \/ req[r].code = 401 /\ req[r].kind = "get_token"
    \/ req[r].code = 404 /\ req[r].kind \in {"add_user", "add_facility"}
    \/ req[r].code = 404 /\ req[r].as = Former
    \/ req[r].code = 500 /\ req[r].refused
    \/ req[r].code \in {404, 500} /\ Raced(r)

\* Key and secret that a request was answered with are those that were stored,
\* as long as the secret is the one it generated, whatever other requests
\* have changed the key (Client.new_secret).
CredentialsTold ==
  \A c \in clients, r \in Requests :
    c.secret = r /\ req[r].code = 200 /\ req[r].kind # "get_token_for_user" =>
      req[r].got = <<c.key, c.secret>>

\* A client that was revoked is not let in again, with new credentials or old,
\* with a token or without (auth.py, AuthApp.revoke_credentials).
RevokedOut ==
  \A q, r \in Requests :
    /\ req[q].kind = "revoke_credentials" /\ req[q].code = 200
    /\ req[r].as # None /\ q \in req[r].before
    /\ req[r].as.id = req[q].row
    => req[r].code # 200

Adds == {"add_user_facility_association", "add_facility_user_association"}
Drops == {"delete_user_facility_association", "delete_facility_user_association"}
Deletes == {"delete_user", "delete_facility"}
Of(r, kinds) == req[r].kind \in kinds
SameUser(q, r) == Target(q) = Target(r)
SameFacility(q, r) == req[q].facility = req[r].facility

\* An association that was answered is there until a later or overlapping
\* request undoes it, and so is a dissociation.
AssociationsTold ==
  \A r \in Requests : req[r].code = 200 =>
    /\ Of(r, Adds) /\ Pair(r) \notin pairs =>
         \E q \in Sent : /\ q \notin req[r].before
                        /\ \/ Of(q, Drops) /\ SameUser(q, r) /\ SameFacility(q, r)
                           \/ Of(q, {"delete_user"}) /\ SameUser(q, r)
                           \/ Of(q, {"delete_facility"}) /\ SameFacility(q, r)
    /\ Of(r, Drops) /\ Pair(r) \in pairs =>
         \E q \in Sent : /\ q \notin req[r].before
                        /\ Of(q, Adds) /\ SameUser(q, r) /\ SameFacility(q, r)

\* A user whose deletion was answered has left nothing behind and never comes
\* back, whatever requests were giving out credentials meanwhile.
DeletedGone ==
  \A r \in Requests : Of(r, {"delete_user"}) /\ req[r].code = 200 =>
    /\ Target(r) \notin users /\ ClientOf(Target(r)) = {}
    /\ \A p \in pairs : p[1] # Target(r)

\* The tables are well formed, and refer to each other, at every commit of
\* every request (model.py User.delete, Client.new, Session.new).
AccountsInv == TypeOK /\ Integrity

\* What an answered request made or deleted stays so until another request
\* undoes it (model.py User.add_facility, User.delete).
ChangesTold == AssociationsTold /\ DeletedGone
==============================================================================
