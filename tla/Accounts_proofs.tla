--------------------------- MODULE Accounts_proofs ---------------------------
(***************************************************************************)
(* Theorems about Accounts, for any number of requests, users and          *)
(* facilities.                                                             *)
(***************************************************************************)
EXTENDS Accounts, SequenceTheorems, TLAPS

(***************************************************************************)
(* The steps that requests of a kind take, once they are admitted.         *)
(***************************************************************************)
Makers == {"get_client", "get_client_secret", "get_token_for_user", "update_key", "update_secret"}
Others == {"get_profile", "search_user", "add_user", "get_user", "update_user",
           "get_all_user_facilities", "get_user_facility", "add_facility", "get_facility",
           "update_facility", "get_all_facility_users", "get_facility_user", "get_token",
           "update_token"}

\* What requests do that neither give out credentials nor associate or delete.
Harmless == {"own_user", "user", "add_user", "write_user", "associated",
             "add_facility", "facility", "write_facility", "session", "old_session",
             "update_session", "add_session"}
Steps == Harmless \cup
  {"token", "secret", "client_to_drop", "session_to_drop", "drop_session", "drop_client",
   "pairs_of_user",
   "pairs_of_facility", "pair_of_both", "drop_pairs", "drop_user", "drop_facility", "associate",
   "add_pair", "reload_pair", "new_key", "new_secret", "session_of_new", "write_key",
   "write_secret", "reload_client", "add_client", "reload_user", "client_to_revoke", "revoke"}

\* Credentials are still to be written.
Making(k) ==
  CASE k = "get_client" ->
         {<<"new_key">>, <<"write_key", "reload_client">>,
          <<"user", "add_client", "reload_user">>, <<"add_client", "reload_user">>}
    [] k = "get_client_secret" ->
         {<<"new_secret">>, <<"write_secret", "reload_client">>,
          <<"user", "add_client", "reload_user">>, <<"add_client", "reload_user">>}
    [] k = "update_key" ->
         {<<"new_key", "session">>, <<"write_key", "reload_client", "session">>,
          <<"user", "add_client", "reload_user", "session">>,
          <<"add_client", "reload_user", "session">>}
    [] k = "update_secret" ->
         {<<"new_secret", "session">>, <<"write_secret", "reload_client", "session">>,
          <<"user", "add_client", "reload_user", "session">>,
          <<"add_client", "reload_user", "session">>}
    [] k = "get_token_for_user" ->
         {<<"session">>, <<"user", "add_client", "reload_user", "session_of_new">>,
          <<"add_client", "reload_user", "session_of_new">>}
    [] OTHER -> {}

\* They are written, or there is nothing to write.
SessionSteps == {<<"old_session">>, <<"update_session">>, <<"add_session">>, <<>>}
Made(k) ==
  CASE k \in {"get_client", "get_client_secret"} ->
         {<<"reload_client">>, <<"reload_user">>, <<>>}
    [] k \in {"update_key", "update_secret"} ->
         {<<"reload_client", "session">>, <<"reload_user", "session">>,
          <<"session">>} \cup SessionSteps
    [] k = "get_token_for_user" ->
         {<<"reload_user", "session_of_new">>, <<"session_of_new">>} \cup SessionSteps
    [] OTHER -> {}

\* A user is deleted with what belongs to it.
DeletingUser ==
  {<<"client_to_drop", "pairs_of_user", "drop_pairs", "drop_user">>,
   <<"session_to_drop", "drop_client", "pairs_of_user", "drop_pairs", "drop_user">>,
   <<"drop_session", "drop_client", "pairs_of_user", "drop_pairs", "drop_user">>,
   <<"drop_client", "pairs_of_user", "drop_pairs", "drop_user">>,
   <<"pairs_of_user", "drop_pairs", "drop_user">>, <<"drop_pairs", "drop_user">>, <<"drop_user">>}
DeletingFacility ==
  {<<"facility", "pairs_of_facility", "drop_pairs", "drop_facility">>,
   <<"pairs_of_facility", "drop_pairs", "drop_facility">>, <<"drop_pairs", "drop_facility">>,
   <<"drop_facility">>}
Associating ==
  {<<"user", "facility", "associate">>, <<"facility", "user", "associate">>,
   <<"facility", "associate">>, <<"user", "associate">>, <<"associate">>,
   <<"add_pair", "reload_pair">>}
Dissociating ==
  {<<"user", "facility", "pair_of_both", "drop_pairs">>,
   <<"facility", "user", "pair_of_both", "drop_pairs">>,
   <<"facility", "pair_of_both", "drop_pairs">>, <<"user", "pair_of_both", "drop_pairs">>,
   <<"pair_of_both", "drop_pairs">>}
LookingUp == <<"user", "client_to_drop", "pairs_of_user", "drop_pairs", "drop_user">>

\* What a request of kind k that was admitted has still to do.
Todo(k) ==
  CASE k \in Others -> Seq(Harmless)
    [] k \in Makers -> Making(k) \cup Made(k)
    [] k \in Adds -> Associating \cup {<<"reload_pair">>, <<>>}
    [] k \in Drops -> Dissociating \cup {<<"drop_pairs">>, <<>>}
    [] k = "delete_user" -> DeletingUser \cup {LookingUp, <<>>}
    [] k = "delete_facility" -> DeletingFacility \cup {<<>>}
    [] k = "revoke_credentials" -> {<<"client_to_revoke", "revoke">>, <<"revoke">>, <<>>}
------------------------------------------------------------------------------
(***************************************************************************)
(* The inductive invariant.                                                *)
(***************************************************************************)
Codes == {Code[a] : a \in Answered}
Request ==
  [kind : Kinds \cup {None}, as : [id : Ids, key : Ids, secret : Ids] \cup {None, Former},
   user : Users \cup {None}, facility : Facilities \cup {None}, todo : Seq(Steps),
   row : Ids \cup {None}, found : SUBSET (Users \X Facilities), got : (Ids \X Ids) \cup {None},
   code : {0} \cup Codes, refused : BOOLEAN, before : SUBSET Requests]

\* Every variable has its type.
Typed ==
  /\ users \subseteq Users /\ facilities \subseteq Facilities
  /\ spare \subseteq Users \cup Facilities /\ users \cap spare = {}
  /\ pairs \subseteq Users \X Facilities /\ recommended \subseteq Users \X Facilities
  /\ clients \subseteq ClientRows /\ session \subseteq Ids
  /\ req \in [Requests -> Request]
  /\ \A r \in Sent : req[r].user \in Users /\ req[r].facility \in Facilities

\* A request that has not been admitted yet, by its token or credentials.
Waiting(r) ==
  /\ req[r].as # None /\ req[r].kind \notin CommandLine
  /\ req[r].todo = Program[req[r].kind].steps

\* A request that is to write credentials.
Writes(r) ==
  /\ req[r].kind \in Makers /\ req[r].code = 0
  /\ Waiting(r) \/ req[r].todo \in Making(req[r].kind)
Reloading(r) == req[r].code = 0 /\ req[r].todo \in {<<"reload_client">>,
                                                    <<"reload_client", "session">>}

\* A request of one of the kinds has nothing left to do but what is named, and has not failed.
Reached(r, kinds, todos) == /\ req[r].kind \in kinds /\ req[r].todo \in todos
                            /\ req[r].code \in {0, 200}

\* A request is at a step of its kind, until it is over.
AtWork(r) ==
  /\ req[r].kind = None => req[r] = Unsent
  /\ req[r].kind # None /\ req[r].code = 0 => Waiting(r) \/ req[r].todo \in Todo(req[r].kind)
  /\ req[r].code # 0 => req[r].todo = <<>>
  /\ req[r].before \subseteq Over
WorkInv == \A r \in Requests : AtWork(r)

\* Two clients have neither the id nor the secret in common.
DistinctInv == \A c, d \in clients : c.id = d.id \/ c.secret = d.secret => c = d

\* Nothing is named for a request that has yet to write it.
Unused(r) ==
  /\ \A c \in clients : r # c.id /\ r # c.key /\ r # c.secret
  /\ \A q \in Requests :
       /\ req[q].row # r
       /\ req[q].as # None => r # req[q].as.id /\ r # req[q].as.key /\ r # req[q].as.secret
UnusedInv == \A r \in Requests : req[r].kind = None \/ Writes(r) => Unused(r)

\* Whoever has the secret that a request came with is the client it came from.
SecretInv ==
  \A r \in Requests : req[r].as # None =>
    \A c \in clients : c.secret = req[r].as.secret => c.id = req[r].as.id

\* A client that was revoked stays so, and admits nobody.
Revoked(q) == Reached(q, {"revoke_credentials"}, {<<>>})
RevokedInv ==
  \A q \in Requests : Revoked(q) =>
    /\ req[q].row \in Ids
    /\ \A c \in clients : c.id = req[q].row => ~c.valid
    /\ \A r \in Requests :
         q \in req[r].before /\ req[r].as # None /\ req[r].as.id = req[q].row =>
           req[r].code # 200 /\ (req[r].code = 0 => Waiting(r))

\* What r is answered with, or will be when it has loaded it, is what it stored.
Keyed == {"get_client", "update_key"}
Tells(c, r) ==
  IF Reloading(r) THEN req[r].row = c.id /\ (req[r].kind \in Keyed => c.key = r)
  ELSE req[r].got = <<c.key, r>>
TellInv ==
  \A c \in clients, r \in Requests :
    c.secret = r /\ req[r].code \in {0, 200} /\ req[r].kind # "get_token_for_user" => Tells(c, r)

\* The id of a user that was found is not given again; a user that was deleted is gone.
DeletedInv ==
  \A r \in Requests :
    /\ Reached(r, {"delete_user"}, DeletingUser \cup {<<>>}) => Target(r) \notin spare
    /\ Reached(r, {"delete_user"}, {<<>>}) => Target(r) \notin users

\* The associations that are found are those the request is about.
Seeks(r, p) ==
  \/ Of(r, Drops) /\ p = Pair(r)
  \/ Of(r, {"delete_user"}) /\ p[1] = Target(r)
  \/ Of(r, {"delete_facility"}) /\ p[2] = req[r].facility
FoundInv == \A r \in Requests : \A p \in req[r].found : Seeks(r, p)

\* Another request, which was not over when r began, took an association or made one.
Undone(r) ==
  \E q \in Sent : /\ q \notin req[r].before
                  /\ \/ Of(q, Drops) /\ SameUser(q, r) /\ SameFacility(q, r)
                     \/ Of(q, {"delete_user"}) /\ SameUser(q, r)
                     \/ Of(q, {"delete_facility"}) /\ SameFacility(q, r)
Redone(r) ==
  \E q \in Sent : q \notin req[r].before /\ Of(q, Adds) /\ SameUser(q, r) /\ SameFacility(q, r)
PairsInv ==
  \A r \in Requests :
    /\ Reached(r, Adds, {<<"reload_pair">>, <<>>}) => Pair(r) \in pairs \/ Undone(r)
    /\ Reached(r, Drops, {<<"drop_pairs">>, <<>>}) /\ Pair(r) \in pairs =>
         \/ Redone(r)
         \/ Reached(r, Drops, {<<"drop_pairs">>}) /\ Pair(r) \in req[r].found

\* The inductive invariant of the accounts (database/model.py, web/api/endpoint).
IInv ==
  /\ Typed /\ Integrity /\ WorkInv /\ DistinctInv /\ UnusedInv /\ SecretInv /\ RevokedInv
  /\ TellInv /\ DeletedInv /\ FoundInv /\ PairsInv
------------------------------------------------------------------------------
(***************************************************************************)
(* Programs and what is left of them.                                      *)
(***************************************************************************)
\* The first step of what is left, and what is left after it.
LEMMA ConcatTail ==
  ASSUME NEW S, NEW s \in Seq(S), NEW t \in Seq(S), s # <<>>
  PROVE  /\ s \o t \in Seq(S) /\ s \o t # <<>>
         /\ Head(s \o t) = Head(s) /\ Tail(s \o t) = Tail(s) \o t
<1>1. Len(s) \in Nat /\ Len(s) > 0 /\ Len(t) \in Nat
  BY EmptySeq, LenProperties
<1>2. /\ s \o t \in Seq(S) /\ Len(s \o t) = Len(s) + Len(t)
      /\ \A i \in 1..(Len(s) + Len(t)) : (s \o t)[i] = IF i <= Len(s) THEN s[i] ELSE t[i - Len(s)]
  BY ConcatProperties
<1>3. s \o t # <<>>
  BY <1>1, <1>2
<1>4. /\ Tail(s) \in Seq(S) /\ Len(Tail(s)) = Len(s) - 1
      /\ \A i \in 1..Len(Tail(s)) : Tail(s)[i] = s[i + 1]
  BY HeadTailProperties
<1>5. /\ Tail(s \o t) \in Seq(S) /\ Len(Tail(s \o t)) = Len(s) + Len(t) - 1
      /\ \A i \in 1..(Len(s) + Len(t) - 1) : Tail(s \o t)[i] = (s \o t)[i + 1]
  BY <1>2, <1>3, HeadTailProperties
<1>6. /\ Tail(s) \o t \in Seq(S) /\ Len(Tail(s) \o t) = Len(s) - 1 + Len(t)
      /\ \A i \in 1..(Len(s) - 1 + Len(t)) :
           (Tail(s) \o t)[i] = IF i <= Len(s) - 1 THEN Tail(s)[i] ELSE t[i - (Len(s) - 1)]
  BY <1>4, ConcatProperties
<1>7. ASSUME NEW i \in 1..(Len(s) + Len(t) - 1) PROVE Tail(s \o t)[i] = (Tail(s) \o t)[i]
  BY <1>1, <1>2, <1>4, <1>5, <1>6, <1>7
<1>8. Tail(s \o t) = Tail(s) \o t
  BY <1>1, <1>5, <1>6, <1>7, SeqEqual
<1>9. Head(s \o t) = Head(s)
  BY <1>1, <1>2
<1>. QED
  BY <1>2, <1>3, <1>8, <1>9

\* A step that comes first, and those that come after it.
LEMMA Prefixed ==
  ASSUME NEW S, NEW a \in S, NEW s \in Seq(S)
  PROVE  /\ <<a>> \o s \in Seq(S) /\ <<a>> \o s # <<>>
         /\ Head(<<a>> \o s) = a /\ Tail(<<a>> \o s) = s
<1>1. <<a>> \in Seq(S) /\ <<a>> # <<>> /\ Head(<<a>>) = a /\ Tail(<<a>>) = <<>>
  OBVIOUS
<1>2. <<>> \o s = s
  BY ConcatEmptySeq
<1>. QED
  BY <1>1, <1>2, ConcatTail

\* The first step of an endpoint is that its client is admitted (web/api/auth.py).
LEMMA EndpointSteps ==
  ASSUME NEW by \in {"token", "secret"}, NEW steps \in Seq(Steps)
  PROVE  /\ <<by>> \o steps \in Seq(Steps) /\ <<by>> \o steps # <<>>
         /\ Head(<<by>> \o steps) = by /\ Tail(<<by>> \o steps) = steps
<1>1. by \in Steps
  BY DEF Steps, Harmless
<1>. QED
  BY <1>1, Prefixed

\* What a request of kind k does first, once it is admitted.
First(k) ==
  CASE k \in Others -> Seq(Harmless)
    [] k \in Makers -> Making(k)
    [] k \in Adds -> {<<"user", "facility", "associate">>, <<"facility", "user", "associate">>}
    [] k \in Drops -> {<<"user", "facility", "pair_of_both", "drop_pairs">>,
                       <<"facility", "user", "pair_of_both", "drop_pairs">>}
    [] k = "delete_user" -> {LookingUp}
    [] k = "delete_facility" -> {<<"facility", "pairs_of_facility", "drop_pairs", "drop_facility">>}
    [] k = "revoke_credentials" -> {<<"client_to_revoke", "revoke">>}

\* The kinds of request are of these sorts, and each is of one.
LEMMA Sorts ==
  ASSUME NEW k
  PROVE  /\ k \in DOMAIN Program <=>
              k \in Others \cup Makers \cup Adds \cup Drops \cup {"delete_user", "delete_facility",
                                                             "revoke_credentials"}
         /\ k \in Others => k \notin Makers \cup Adds \cup Drops /\ k \notin {"delete_user",
                              "delete_facility", "revoke_credentials"}
         /\ k \in Makers => k \notin Adds \cup Drops /\ k \notin {"delete_user",
                              "delete_facility", "revoke_credentials"}
         /\ k \in Adds => k \notin Drops /\ k \notin {"delete_user", "delete_facility",
                              "revoke_credentials"}
         /\ k \in Drops => k \notin {"delete_user", "delete_facility", "revoke_credentials"}
BY DEF Program, Others, Makers, Adds, Drops

\* The endpoints that read, or write a row (web/api/endpoint/user.py, facility.py).
LEMMA OtherPrograms ==
  ASSUME NEW k \in Others, k # "update_token"
  PROVE  LET all == Program[k].steps IN
         /\ all \in Seq(Steps) /\ all # <<>> /\ Tail(all) \in Seq(Harmless)
         /\ Head(all) = IF k = "get_token" THEN "secret" ELSE "token"
<1>1. Seq(Harmless) \subseteq Seq(Steps)
  BY DEF Steps
<1>2. CASE k = "get_profile"
  <2>1. <<"own_user">> \in Seq(Harmless)
    BY DEF Harmless
  <2>2. Program[k].steps = <<"token">> \o <<"own_user">>
    BY <1>2 DEF Program, get_profile, Endpoint, authenticated, Token
  <2>3. LET all == <<"token">> \o <<"own_user">> IN
        all \in Seq(Steps) /\ all # <<>> /\ Head(all) = "token" /\ Tail(all) = <<"own_user">>
    BY <1>1, <2>1, EndpointSteps
  <2>. QED
    BY <1>1, <1>2, <2>1, <2>2, <2>3
<1>3. CASE k = "search_user"
  <2>1. <<"user">> \in Seq(Harmless)
    BY DEF Harmless
  <2>2. Program[k].steps = <<"token">> \o <<"user">>
    BY <1>3 DEF Program, search_user, Endpoint, authorization_1, Token
  <2>3. LET all == <<"token">> \o <<"user">> IN
        all \in Seq(Steps) /\ all # <<>> /\ Head(all) = "token" /\ Tail(all) = <<"user">>
    BY <1>1, <2>1, EndpointSteps
  <2>. QED
    BY <1>1, <1>3, <2>1, <2>2, <2>3
<1>4. CASE k = "add_user"
  <2>1. <<"add_user">> \in Seq(Harmless)
    BY DEF Harmless
  <2>2. Program[k].steps = <<"token">> \o <<"add_user">>
    BY <1>4 DEF Program, add_user, Endpoint, authorization_1, Token
  <2>3. LET all == <<"token">> \o <<"add_user">> IN
        all \in Seq(Steps) /\ all # <<>> /\ Head(all) = "token" /\ Tail(all) = <<"add_user">>
    BY <1>1, <2>1, EndpointSteps
  <2>. QED
    BY <1>1, <1>4, <2>1, <2>2, <2>3
<1>5. CASE k = "get_user"
  <2>1. <<"user">> \in Seq(Harmless)
    BY DEF Harmless
  <2>2. Program[k].steps = <<"token">> \o <<"user">>
    BY <1>5 DEF Program, get_user, Endpoint, authorization_1, Token
  <2>3. LET all == <<"token">> \o <<"user">> IN
        all \in Seq(Steps) /\ all # <<>> /\ Head(all) = "token" /\ Tail(all) = <<"user">>
    BY <1>1, <2>1, EndpointSteps
  <2>. QED
    BY <1>1, <1>5, <2>1, <2>2, <2>3
<1>6. CASE k = "update_user"
  <2>1. <<"user", "write_user">> \in Seq(Harmless)
    BY DEF Harmless
  <2>2. Program[k].steps = <<"token">> \o <<"user", "write_user">>
    BY <1>6 DEF Program, update_user, Endpoint, authorization_1, Token
  <2>3. LET all == <<"token">> \o <<"user", "write_user">> IN
        all \in Seq(Steps) /\ all # <<>> /\ Head(all) = "token" /\ Tail(all) = <<"user", "write_user">>
    BY <1>1, <2>1, EndpointSteps
  <2>. QED
    BY <1>1, <1>6, <2>1, <2>2, <2>3
<1>7. CASE k = "get_all_user_facilities"
  <2>1. <<"user">> \in Seq(Harmless)
    BY DEF Harmless
  <2>2. Program[k].steps = <<"token">> \o <<"user">>
    BY <1>7 DEF Program, get_all_user_facilities, Endpoint, authorization_1, Token
  <2>3. LET all == <<"token">> \o <<"user">> IN
        all \in Seq(Steps) /\ all # <<>> /\ Head(all) = "token" /\ Tail(all) = <<"user">>
    BY <1>1, <2>1, EndpointSteps
  <2>. QED
    BY <1>1, <1>7, <2>1, <2>2, <2>3
<1>8. CASE k = "get_user_facility"
  <2>1. <<"user", "associated">> \in Seq(Harmless)
    BY DEF Harmless
  <2>2. Program[k].steps = <<"token">> \o <<"user", "associated">>
    BY <1>8 DEF Program, get_user_facility, Endpoint, authorization_1, Token
  <2>3. LET all == <<"token">> \o <<"user", "associated">> IN
        all \in Seq(Steps) /\ all # <<>> /\ Head(all) = "token" /\ Tail(all) = <<"user", "associated">>
    BY <1>1, <2>1, EndpointSteps
  <2>. QED
    BY <1>1, <1>8, <2>1, <2>2, <2>3
<1>9. CASE k = "add_facility"
  <2>1. <<"add_facility">> \in Seq(Harmless)
    BY DEF Harmless
  <2>2. Program[k].steps = <<"token">> \o <<"add_facility">>
    BY <1>9 DEF Program, add_facility, Endpoint, authorization_1, Token
  <2>3. LET all == <<"token">> \o <<"add_facility">> IN
        all \in Seq(Steps) /\ all # <<>> /\ Head(all) = "token" /\ Tail(all) = <<"add_facility">>
    BY <1>1, <2>1, EndpointSteps
  <2>. QED
    BY <1>1, <1>9, <2>1, <2>2, <2>3
<1>10. CASE k = "get_facility"
  <2>1. <<"facility">> \in Seq(Harmless)
    BY DEF Harmless
  <2>2. Program[k].steps = <<"token">> \o <<"facility">>
    BY <1>10 DEF Program, get_facility, Endpoint, authorization_1, Token
  <2>3. LET all == <<"token">> \o <<"facility">> IN
        all \in Seq(Steps) /\ all # <<>> /\ Head(all) = "token" /\ Tail(all) = <<"facility">>
    BY <1>1, <2>1, EndpointSteps
  <2>. QED
    BY <1>1, <1>10, <2>1, <2>2, <2>3
<1>11. CASE k = "update_facility"
  <2>1. <<"facility", "write_facility">> \in Seq(Harmless)
    BY DEF Harmless
  <2>2. Program[k].steps = <<"token">> \o <<"facility", "write_facility">>
    BY <1>11 DEF Program, update_facility, Endpoint, authorization_1, Token
  <2>3. LET all == <<"token">> \o <<"facility", "write_facility">> IN
        all \in Seq(Steps) /\ all # <<>> /\ Head(all) = "token" /\ Tail(all) = <<"facility",
                                                                                 "write_facility">>
    BY <1>1, <2>1, EndpointSteps
  <2>. QED
    BY <1>1, <1>11, <2>1, <2>2, <2>3
<1>12. CASE k = "get_all_facility_users"
  <2>1. <<"facility">> \in Seq(Harmless)
    BY DEF Harmless
  <2>2. Program[k].steps = <<"token">> \o <<"facility">>
    BY <1>12 DEF Program, get_all_facility_users, Endpoint, authorization_1, Token
  <2>3. LET all == <<"token">> \o <<"facility">> IN
        all \in Seq(Steps) /\ all # <<>> /\ Head(all) = "token" /\ Tail(all) = <<"facility">>
    BY <1>1, <2>1, EndpointSteps
  <2>. QED
    BY <1>1, <1>12, <2>1, <2>2, <2>3
<1>13. CASE k = "get_facility_user"
  <2>1. <<"facility", "associated">> \in Seq(Harmless)
    BY DEF Harmless
  <2>2. Program[k].steps = <<"token">> \o <<"facility", "associated">>
    BY <1>13 DEF Program, get_facility_user, Endpoint, authorization_1, Token
  <2>3. LET all == <<"token">> \o <<"facility", "associated">> IN
        all \in Seq(Steps) /\ all # <<>> /\ Head(all) = "token" /\ Tail(all) = <<"facility",
                                                                                 "associated">>
    BY <1>1, <2>1, EndpointSteps
  <2>. QED
    BY <1>1, <1>13, <2>1, <2>2, <2>3
<1>14. CASE k = "get_token"
  <2>1. <<"session">> \in Seq(Harmless)
    BY DEF Harmless
  <2>2. Program[k].steps = <<"secret">> \o <<"session">>
    BY <1>14 DEF Program, get_token, Endpoint, authenticate, Token
  <2>3. LET all == <<"secret">> \o <<"session">> IN
        all \in Seq(Steps) /\ all # <<>> /\ Head(all) = "secret" /\ Tail(all) = <<"session">>
    BY <1>1, <2>1, EndpointSteps
  <2>. QED
    BY <1>1, <1>14, <2>1, <2>2, <2>3
<1>. QED
  BY <1>2, <1>3, <1>4, <1>5, <1>6, <1>7, <1>8, <1>9, <1>10, <1>11, <1>12, <1>13, <1>14 DEF Others

\* The endpoints that associate, delete or give out credentials (web/api/endpoint).
LEMMA WritingPrograms ==
  ASSUME NEW k \in DOMAIN Program, k \notin Others, k \notin CommandLine
  PROVE  LET all == Program[k].steps IN
         all \in Seq(Steps) /\ all # <<>> /\ Tail(all) \in First(k) /\ Head(all) = "token"
<1>1. CASE k = "delete_user"
  <2>1. <<"user", "client_to_drop", "pairs_of_user", "drop_pairs", "drop_user">> \in Seq(Steps)
    BY DEF Steps, Harmless
  <2>2. Program[k].steps = <<"token">> \o <<"user", "client_to_drop", "pairs_of_user",
                                            "drop_pairs", "drop_user">>
    BY <1>1 DEF Program, delete_user, Endpoint, authorization_1, Token
  <2>3. LET all == <<"token">> \o <<"user", "client_to_drop", "pairs_of_user", "drop_pairs",
                                    "drop_user">> IN
        all \in Seq(Steps) /\ all # <<>> /\ Head(all) = "token" /\
        Tail(all) = <<"user", "client_to_drop", "pairs_of_user", "drop_pairs", "drop_user">>
    BY <2>1, EndpointSteps
  <2>4. <<"user", "client_to_drop", "pairs_of_user", "drop_pairs", "drop_user">> \in First(k)
    BY <1>1 DEF First, Others, Makers, Adds, Drops, Making, LookingUp
  <2>. QED
    BY <1>1, <2>1, <2>2, <2>3, <2>4
<1>2. CASE k = "add_user_facility_association"
  <2>1. <<"user", "facility", "associate">> \in Seq(Steps)
    BY DEF Steps, Harmless
  <2>2. Program[k].steps = <<"token">> \o <<"user", "facility", "associate">>
    BY <1>2 DEF Program, add_user_facility_association, Endpoint, authorization_1, Token
  <2>3. LET all == <<"token">> \o <<"user", "facility", "associate">> IN
        all \in Seq(Steps) /\ all # <<>> /\ Head(all) = "token" /\ Tail(all) = <<"user",
                                                                                 "facility",
                                                                                 "associate">>
    BY <2>1, EndpointSteps
  <2>4. <<"user", "facility", "associate">> \in First(k)
    BY <1>2 DEF First, Others, Makers, Adds, Drops, Making, LookingUp
  <2>. QED
    BY <1>2, <2>1, <2>2, <2>3, <2>4
<1>3. CASE k = "delete_user_facility_association"
  <2>1. <<"user", "facility", "pair_of_both", "drop_pairs">> \in Seq(Steps)
    BY DEF Steps, Harmless
  <2>2. Program[k].steps = <<"token">> \o <<"user", "facility", "pair_of_both", "drop_pairs">>
    BY <1>3 DEF Program, delete_user_facility_association, Endpoint, authorization_1, Token
  <2>3. LET all == <<"token">> \o <<"user", "facility", "pair_of_both", "drop_pairs">> IN
        all \in Seq(Steps) /\ all # <<>> /\ Head(all) = "token" /\ Tail(all) = <<"user",
                                                                                 "facility",
                                                                                 "pair_of_both",
                                                                                 "drop_pairs">>
    BY <2>1, EndpointSteps
  <2>4. <<"user", "facility", "pair_of_both", "drop_pairs">> \in First(k)
    BY <1>3 DEF First, Others, Makers, Adds, Drops, Making, LookingUp
  <2>. QED
    BY <1>3, <2>1, <2>2, <2>3, <2>4
<1>4. CASE k = "delete_facility"
  <2>1. <<"facility", "pairs_of_facility", "drop_pairs", "drop_facility">> \in Seq(Steps)
    BY DEF Steps, Harmless
  <2>2. Program[k].steps = <<"token">> \o <<"facility", "pairs_of_facility", "drop_pairs",
                                            "drop_facility">>
    BY <1>4 DEF Program, delete_facility, Endpoint, authorization_1, Token
  <2>3. LET all == <<"token">> \o <<"facility", "pairs_of_facility", "drop_pairs", "drop_facility">> IN
        all \in Seq(Steps) /\ all # <<>> /\ Head(all) = "token" /\
        Tail(all) = <<"facility", "pairs_of_facility", "drop_pairs", "drop_facility">>
    BY <2>1, EndpointSteps
  <2>4. <<"facility", "pairs_of_facility", "drop_pairs", "drop_facility">> \in First(k)
    BY <1>4 DEF First, Others, Makers, Adds, Drops, Making, LookingUp
  <2>. QED
    BY <1>4, <2>1, <2>2, <2>3, <2>4
<1>5. CASE k = "add_facility_user_association"
  <2>1. <<"facility", "user", "associate">> \in Seq(Steps)
    BY DEF Steps, Harmless
  <2>2. Program[k].steps = <<"token">> \o <<"facility", "user", "associate">>
    BY <1>5 DEF Program, add_facility_user_association, Endpoint, authorization_1, Token
  <2>3. LET all == <<"token">> \o <<"facility", "user", "associate">> IN
        all \in Seq(Steps) /\ all # <<>> /\ Head(all) = "token" /\ Tail(all) = <<"facility",
                                                                                 "user",
                                                                                 "associate">>
    BY <2>1, EndpointSteps
  <2>4. <<"facility", "user", "associate">> \in First(k)
    BY <1>5 DEF First, Others, Makers, Adds, Drops, Making, LookingUp
  <2>. QED
    BY <1>5, <2>1, <2>2, <2>3, <2>4
<1>6. CASE k = "delete_facility_user_association"
  <2>1. <<"facility", "user", "pair_of_both", "drop_pairs">> \in Seq(Steps)
    BY DEF Steps, Harmless
  <2>2. Program[k].steps = <<"token">> \o <<"facility", "user", "pair_of_both", "drop_pairs">>
    BY <1>6 DEF Program, delete_facility_user_association, Endpoint, authorization_1, Token
  <2>3. LET all == <<"token">> \o <<"facility", "user", "pair_of_both", "drop_pairs">> IN
        all \in Seq(Steps) /\ all # <<>> /\ Head(all) = "token" /\ Tail(all) = <<"facility",
                                                                                 "user",
                                                                                 "pair_of_both",
                                                                                 "drop_pairs">>
    BY <2>1, EndpointSteps
  <2>4. <<"facility", "user", "pair_of_both", "drop_pairs">> \in First(k)
    BY <1>6 DEF First, Others, Makers, Adds, Drops, Making, LookingUp
  <2>. QED
    BY <1>6, <2>1, <2>2, <2>3, <2>4
<1>7. CASE k = "get_client"
  <2>1. <<"new_key">> \in Seq(Steps)
    BY DEF Steps, Harmless
  <2>2. Program[k].steps = <<"token">> \o <<"new_key">>
    BY <1>7 DEF Program, get_client, Endpoint, authorization_0, Token
  <2>3. LET all == <<"token">> \o <<"new_key">> IN
        all \in Seq(Steps) /\ all # <<>> /\ Head(all) = "token" /\ Tail(all) = <<"new_key">>
    BY <2>1, EndpointSteps
  <2>4. <<"new_key">> \in First(k)
    BY <1>7 DEF First, Others, Makers, Adds, Drops, Making, LookingUp
  <2>. QED
    BY <1>7, <2>1, <2>2, <2>3, <2>4
<1>8. CASE k = "get_client_secret"
  <2>1. <<"new_secret">> \in Seq(Steps)
    BY DEF Steps, Harmless
  <2>2. Program[k].steps = <<"token">> \o <<"new_secret">>
    BY <1>8 DEF Program, get_client_secret, Endpoint, authorization_0, Token
  <2>3. LET all == <<"token">> \o <<"new_secret">> IN
        all \in Seq(Steps) /\ all # <<>> /\ Head(all) = "token" /\ Tail(all) = <<"new_secret">>
    BY <2>1, EndpointSteps
  <2>4. <<"new_secret">> \in First(k)
    BY <1>8 DEF First, Others, Makers, Adds, Drops, Making, LookingUp
  <2>. QED
    BY <1>8, <2>1, <2>2, <2>3, <2>4
<1>9. CASE k = "get_token_for_user"
  <2>1. <<"session">> \in Seq(Steps)
    BY DEF Steps, Harmless
  <2>2. Program[k].steps = <<"token">> \o <<"session">>
    BY <1>9 DEF Program, get_token_for_user, Endpoint, authorization_0, Token
  <2>3. LET all == <<"token">> \o <<"session">> IN
        all \in Seq(Steps) /\ all # <<>> /\ Head(all) = "token" /\ Tail(all) = <<"session">>
    BY <2>1, EndpointSteps
  <2>4. <<"session">> \in First(k)
    BY <1>9 DEF First, Others, Makers, Adds, Drops, Making, LookingUp
  <2>. QED
    BY <1>9, <2>1, <2>2, <2>3, <2>4
<1>. QED
  BY <1>1, <1>2, <1>3, <1>4, <1>5, <1>6, <1>7, <1>8, <1>9 DEF Program, Others, CommandLine

\* The programs of refitt auth (apps/refitt/auth.py).
LEMMA CommandLinePrograms ==
  ASSUME NEW k \in CommandLine
  PROVE  /\ k \in DOMAIN Program
         /\ Program[k].steps \in Seq(Steps) /\ Program[k].steps # <<>>
         /\ Program[k].steps \in First(k)
<1>1. k \in DOMAIN Program
  BY DEF Program, CommandLine
<1>2. CASE k = "update_key"
  <2>1. Program[k].steps = <<"new_key", "session">>
    BY <1>2 DEF Program, update_key
  <2>2. <<"new_key", "session">> \in Seq(Steps)
    BY DEF Steps, Harmless
  <2>3. <<"new_key", "session">> \in First(k)
    BY <1>2, <2>2 DEF First, Others, Makers, Adds, Drops, Making, LookingUp
  <2>. QED
    BY <1>1, <2>1, <2>2, <2>3
<1>3. CASE k = "update_secret"
  <2>1. Program[k].steps = <<"new_secret", "session">>
    BY <1>3 DEF Program, update_secret
  <2>2. <<"new_secret", "session">> \in Seq(Steps)
    BY DEF Steps, Harmless
  <2>3. <<"new_secret", "session">> \in First(k)
    BY <1>3, <2>2 DEF First, Others, Makers, Adds, Drops, Making, LookingUp
  <2>. QED
    BY <1>1, <2>1, <2>2, <2>3
<1>4. CASE k = "update_token"
  <2>1. Program[k].steps = <<"session">>
    BY <1>4 DEF Program, update_token
  <2>2. <<"session">> \in Seq(Harmless)
    BY DEF Steps, Harmless
  <2>3. <<"session">> \in First(k)
    BY <1>4, <2>2 DEF First, Others, Makers, Adds, Drops, Making, LookingUp
  <2>. QED
    BY <1>1, <2>1, <2>2, <2>3 DEF Steps
<1>5. CASE k = "revoke_credentials"
  <2>1. Program[k].steps = <<"client_to_revoke", "revoke">>
    BY <1>5 DEF Program, revoke_credentials
  <2>. QED
    BY <1>1, <1>5, <2>1 DEF First, Others, Makers, Adds, Drops, Steps, Harmless
<1>. QED
  BY <1>2, <1>3, <1>4, <1>5 DEF CommandLine

\* Two steps that come before one (database/model.py Client).
LEMMA Joined21 ==
  ASSUME NEW a, NEW b, NEW c
  PROVE  <<a, b>> \o <<c>> = <<a, b, c>>
<1> DEFINE S == {a, b, c}
<1> DEFINE s == <<a, b>> \o <<c>>
<1>1. <<a, b>> \in Seq(S) /\ <<c>> \in Seq(S) /\ <<a, b, c>> \in Seq(S)
  OBVIOUS
<1>2. /\ Len(s) = 3 /\ s \in Seq(S)
      /\ s[1] = a /\ s[2] = b /\ s[3] = c
  BY <1>1, ConcatProperties
<1>3. Len(<<a, b, c>>) = 3 /\ \A i \in 1..3 : s[i] = <<a, b, c>>[i]
  BY <1>2
<1>. QED
  BY <1>1, <1>2, <1>3, SeqEqual

\* Three steps that come before one (database/model.py Client.new).
LEMMA Joined31 ==
  ASSUME NEW a, NEW b, NEW c, NEW d
  PROVE  <<a, b, c>> \o <<d>> = <<a, b, c, d>>
<1> DEFINE S == {a, b, c, d}
<1> DEFINE s == <<a, b, c>> \o <<d>>
<1>1. <<a, b, c>> \in Seq(S) /\ <<d>> \in Seq(S) /\ <<a, b, c, d>> \in Seq(S)
  OBVIOUS
<1>2. /\ Len(s) = 4 /\ s \in Seq(S)
      /\ s[1] = a /\ s[2] = b /\ s[3] = c /\ s[4] = d
  BY <1>1, ConcatProperties
<1>3. Len(<<a, b, c, d>>) = 4 /\ \A i \in 1..4 : s[i] = <<a, b, c, d>>[i]
  BY <1>2
<1>. QED
  BY <1>1, <1>2, <1>3, SeqEqual

\* A step that comes before four (database/model.py User.delete).
LEMMA Joined14 ==
  ASSUME NEW a, NEW b, NEW c, NEW d, NEW e
  PROVE  <<a>> \o <<b, c, d, e>> = <<a, b, c, d, e>>
<1> DEFINE S == {a, b, c, d, e}
<1> DEFINE s == <<a>> \o <<b, c, d, e>>
<1>1. <<a>> \in Seq(S) /\ <<b, c, d, e>> \in Seq(S) /\ <<a, b, c, d, e>> \in Seq(S)
  OBVIOUS
<1>2. /\ Len(s) = 5 /\ s \in Seq(S)
      /\ s[1] = a /\ s[2] = b /\ s[3] = c /\ s[4] = d /\ s[5] = e
  BY <1>1, ConcatProperties
<1>3. Len(<<a, b, c, d, e>>) = 5 /\ \A i \in 1..5 : s[i] = <<a, b, c, d, e>>[i]
  BY <1>2
<1>. QED
  BY <1>1, <1>2, <1>3, SeqEqual

\* Two steps that come before three (database/model.py User.delete).
LEMMA Joined23 ==
  ASSUME NEW a, NEW b, NEW c, NEW d, NEW e
  PROVE  <<a, b>> \o <<c, d, e>> = <<a, b, c, d, e>>
<1> DEFINE S == {a, b, c, d, e}
<1> DEFINE s == <<a, b>> \o <<c, d, e>>
<1>1. <<a, b>> \in Seq(S) /\ <<c, d, e>> \in Seq(S) /\ <<a, b, c, d, e>> \in Seq(S)
  OBVIOUS
<1>2. /\ Len(s) = 5 /\ s \in Seq(S)
      /\ s[1] = a /\ s[2] = b /\ s[3] = c /\ s[4] = d /\ s[5] = e
  BY <1>1, ConcatProperties
<1>3. Len(<<a, b, c, d, e>>) = 5 /\ \A i \in 1..5 : s[i] = <<a, b, c, d, e>>[i]
  BY <1>2
<1>. QED
  BY <1>1, <1>2, <1>3, SeqEqual

\* The steps of new_key, new_secret and Client.new, and what comes after them
\* (database/model.py).
LEMMA JoinedSteps ==
  /\ <<"write_key", "reload_client">> \o <<>> = <<"write_key", "reload_client">>
  /\ <<"write_key", "reload_client">> \o <<"session">> = <<"write_key", "reload_client", "session">>
  /\ <<"write_secret", "reload_client">> \o <<>> = <<"write_secret", "reload_client">>
  /\ <<"write_secret", "reload_client">> \o <<"session">> =
       <<"write_secret", "reload_client", "session">>
  /\ NewClient \o <<>> = <<"user", "add_client", "reload_user">>
  /\ NewClient \o <<"session">> = <<"user", "add_client", "reload_user", "session">>
  /\ (NewClient \o <<"session_of_new">>) \o <<>> =
       <<"user", "add_client", "reload_user", "session_of_new">>
  /\ <<"old_session">> \o <<>> = <<"old_session">>
  /\ <<"update_session">> \o <<>> = <<"update_session">>
  /\ <<"add_session">> \o <<>> = <<"add_session">>
  /\ <<"add_pair", "reload_pair">> \o <<>> = <<"add_pair", "reload_pair">>
  /\ <<"session_to_drop", "drop_client">> \o <<"pairs_of_user", "drop_pairs", "drop_user">> =
       <<"session_to_drop", "drop_client", "pairs_of_user", "drop_pairs", "drop_user">>
  /\ <<"drop_session">> \o <<"drop_client", "pairs_of_user", "drop_pairs", "drop_user">> =
       <<"drop_session", "drop_client", "pairs_of_user", "drop_pairs", "drop_user">>
<1>1. /\ <<"write_key", "reload_client">> \in Seq(Steps)
      /\ <<"write_secret", "reload_client">> \in Seq(Steps)
      /\ <<"old_session">> \in Seq(Steps) /\ <<"update_session">> \in Seq(Steps)
      /\ <<"add_session">> \in Seq(Steps) /\ <<"add_pair", "reload_pair">> \in Seq(Steps)
      /\ <<"user", "add_client", "reload_user">> \in Seq(Steps)
      /\ <<"user", "add_client", "reload_user", "session_of_new">> \in Seq(Steps)
  BY DEF Steps, Harmless
<1>2. \A s \in Seq(Steps) : s \o <<>> = s
  BY ConcatEmptySeq
<1>3. NewClient = <<"user", "add_client", "reload_user">>
  BY DEF NewClient
<1>4. /\ <<"write_key", "reload_client">> \o <<"session">> = <<"write_key", "reload_client", "session">>
      /\ <<"write_secret", "reload_client">> \o <<"session">> =
           <<"write_secret", "reload_client", "session">>
  BY Joined21
<1>5. /\ NewClient \o <<"session">> = <<"user", "add_client", "reload_user", "session">>
      /\ NewClient \o <<"session_of_new">> =
           <<"user", "add_client", "reload_user", "session_of_new">>
  BY <1>3, Joined31
<1>6. <<"session_to_drop", "drop_client">> \o <<"pairs_of_user", "drop_pairs", "drop_user">> =
        <<"session_to_drop", "drop_client", "pairs_of_user", "drop_pairs", "drop_user">>
  BY Joined23
<1>7. <<"drop_session">> \o <<"drop_client", "pairs_of_user", "drop_pairs", "drop_user">> =
        <<"drop_session", "drop_client", "pairs_of_user", "drop_pairs", "drop_user">>
  BY Joined14
<1>. QED
  BY <1>1, <1>2, <1>3, <1>4, <1>5, <1>6, <1>7

\* Programs that give out credentials write them once (database/model.py Client).
Reloads == {<<"reload_client">>, <<"reload_client", "session">>}
LEMMA MakersNext ==
  ASSUME NEW k \in Makers, NEW todo \in Making(k) \cup Made(k), todo # <<>>
  PROVE  LET first == Head(todo)
             rest == Tail(todo)
         IN
    /\ first \in {"user", "add_client", "reload_user", "new_key", "new_secret", "write_key",
                  "write_secret", "reload_client", "session", "session_of_new", "old_session",
                  "update_session", "add_session"}
    /\ first = "user" =>
         /\ todo \in Making(k) /\ rest \in Making(k)
         /\ Head(rest) = "add_client"
    /\ first = "add_client" => todo \in Making(k) /\ rest \in Made(k) \ Reloads
    /\ first = "reload_user" => todo \in Made(k) \ Reloads /\ rest \in Made(k) \ Reloads
    /\ first \in {"new_key", "new_secret"} => todo \in Making(k) /\ NewClient \o rest \in Making(k)
    /\ first = "new_key" => k \in Keyed /\ <<"write_key", "reload_client">> \o rest \in Making(k)
    /\ first = "new_secret" => k \notin Keyed /\ <<"write_secret",
                                                   "reload_client">> \o rest \in Making(k)
    /\ first \in {"write_key", "write_secret"} =>
         todo \in Making(k) /\ rest \in Made(k) \cap Reloads /\ k # "get_token_for_user"
    /\ first = "write_key" => k \in Keyed
    /\ first = "write_secret" => k \notin Keyed
    /\ first = "reload_client" =>
         todo \in Made(k) \cap Reloads /\ rest \in Made(k) \ Reloads /\ k # "get_token_for_user"
    /\ first \in {"session", "session_of_new"} => <<"old_session">> \o rest \in Made(k) \ Reloads
    /\ first = "session" => k \notin {"get_client", "get_client_secret"}
    /\ first = "session" =>
         \/ k # "get_token_for_user" /\ todo \in Made(k) \ Reloads
         \/ /\ k = "get_token_for_user" /\ todo \in Making(k)
            /\ (NewClient \o <<"session_of_new">>) \o rest \in Making(k)
    /\ first = "session_of_new" => todo \in Made(k) \ Reloads /\ k = "get_token_for_user"
    /\ first = "old_session" =>
         /\ todo \in Made(k) \ Reloads
         /\ <<"update_session">> \o rest \in Made(k) \ Reloads
         /\ <<"add_session">> \o rest \in Made(k) \ Reloads
    /\ first \in {"update_session",
                  "add_session"} => todo \in Made(k) \ Reloads /\ rest \in Made(k) \ Reloads
    /\ todo \in Making(k) => todo \notin Made(k)
<1>1. CASE k = "get_client"
  <2>1. Making(k) = {<<"new_key">>, <<"write_key", "reload_client">>,
                     <<"user", "add_client", "reload_user">>, <<"add_client", "reload_user">>}
    BY <1>1 DEF Making
  <2>2. Made(k) = {<<"reload_client">>, <<"reload_user">>, <<>>}
    BY <1>1 DEF Made, SessionSteps
  <2>3. CASE todo = <<"new_key">>
    <3>1. Head(todo) = "new_key" /\ Tail(todo) = <<>>
      BY <2>3
    <3>. QED
      BY <1>1, <2>1, <2>2, <2>3, <3>1, JoinedSteps DEF Reloads, Keyed
  <2>4. CASE todo = <<"write_key", "reload_client">>
    <3>1. Head(todo) = "write_key" /\ Tail(todo) = <<"reload_client">>
      BY <2>4
    <3>. QED
      BY <1>1, <2>1, <2>2, <2>4, <3>1, JoinedSteps DEF Reloads, Keyed
  <2>5. CASE todo = <<"user", "add_client", "reload_user">>
    <3>1. Head(todo) = "user" /\ Tail(todo) = <<"add_client", "reload_user">>
      BY <2>5
    <3>. QED
      BY <1>1, <2>1, <2>2, <2>5, <3>1, JoinedSteps DEF Reloads, Keyed
  <2>6. CASE todo = <<"add_client", "reload_user">>
    <3>1. Head(todo) = "add_client" /\ Tail(todo) = <<"reload_user">>
      BY <2>6
    <3>. QED
      BY <1>1, <2>1, <2>2, <2>6, <3>1, JoinedSteps DEF Reloads, Keyed
  <2>7. CASE todo = <<"reload_client">>
    <3>1. Head(todo) = "reload_client" /\ Tail(todo) = <<>>
      BY <2>7
    <3>. QED
      BY <1>1, <2>1, <2>2, <2>7, <3>1, JoinedSteps DEF Reloads, Keyed
  <2>8. CASE todo = <<"reload_user">>
    <3>1. Head(todo) = "reload_user" /\ Tail(todo) = <<>>
      BY <2>8
    <3>. QED
      BY <1>1, <2>1, <2>2, <2>8, <3>1, JoinedSteps DEF Reloads, Keyed
  <2>. QED
    BY <2>1, <2>2, <2>3, <2>4, <2>5, <2>6, <2>7, <2>8
<1>2. CASE k = "get_client_secret"
  <2>1. Making(k) = {<<"new_secret">>, <<"write_secret", "reload_client">>,
                     <<"user", "add_client", "reload_user">>, <<"add_client", "reload_user">>}
    BY <1>2 DEF Making
  <2>2. Made(k) = {<<"reload_client">>, <<"reload_user">>, <<>>}
    BY <1>2 DEF Made, SessionSteps
  <2>3. CASE todo = <<"new_secret">>
    <3>1. Head(todo) = "new_secret" /\ Tail(todo) = <<>>
      BY <2>3
    <3>. QED
      BY <1>2, <2>1, <2>2, <2>3, <3>1, JoinedSteps DEF Reloads, Keyed
  <2>4. CASE todo = <<"write_secret", "reload_client">>
    <3>1. Head(todo) = "write_secret" /\ Tail(todo) = <<"reload_client">>
      BY <2>4
    <3>. QED
      BY <1>2, <2>1, <2>2, <2>4, <3>1, JoinedSteps DEF Reloads, Keyed
  <2>5. CASE todo = <<"user", "add_client", "reload_user">>
    <3>1. Head(todo) = "user" /\ Tail(todo) = <<"add_client", "reload_user">>
      BY <2>5
    <3>. QED
      BY <1>2, <2>1, <2>2, <2>5, <3>1, JoinedSteps DEF Reloads, Keyed
  <2>6. CASE todo = <<"add_client", "reload_user">>
    <3>1. Head(todo) = "add_client" /\ Tail(todo) = <<"reload_user">>
      BY <2>6
    <3>. QED
      BY <1>2, <2>1, <2>2, <2>6, <3>1, JoinedSteps DEF Reloads, Keyed
  <2>7. CASE todo = <<"reload_client">>
    <3>1. Head(todo) = "reload_client" /\ Tail(todo) = <<>>
      BY <2>7
    <3>. QED
      BY <1>2, <2>1, <2>2, <2>7, <3>1, JoinedSteps DEF Reloads, Keyed
  <2>8. CASE todo = <<"reload_user">>
    <3>1. Head(todo) = "reload_user" /\ Tail(todo) = <<>>
      BY <2>8
    <3>. QED
      BY <1>2, <2>1, <2>2, <2>8, <3>1, JoinedSteps DEF Reloads, Keyed
  <2>. QED
    BY <2>1, <2>2, <2>3, <2>4, <2>5, <2>6, <2>7, <2>8
<1>3. CASE k = "update_key"
  <2>1. Making(k) = {<<"new_key", "session">>, <<"write_key", "reload_client", "session">>,
                     <<"user", "add_client", "reload_user", "session">>, <<"add_client",
                                                                           "reload_user",
                                                                           "session">>}
    BY <1>3 DEF Making
  <2>2. Made(k) = {<<"reload_client", "session">>, <<"reload_user", "session">>, <<"session">>,
                   <<"old_session">>, <<"update_session">>, <<"add_session">>, <<>>}
    BY <1>3 DEF Made, SessionSteps
  <2>3. CASE todo = <<"new_key", "session">>
    <3>1. Head(todo) = "new_key" /\ Tail(todo) = <<"session">>
      BY <2>3
    <3>. QED
      BY <1>3, <2>1, <2>2, <2>3, <3>1, JoinedSteps DEF Reloads, Keyed
  <2>4. CASE todo = <<"write_key", "reload_client", "session">>
    <3>1. Head(todo) = "write_key" /\ Tail(todo) = <<"reload_client", "session">>
      BY <2>4
    <3>. QED
      BY <1>3, <2>1, <2>2, <2>4, <3>1, JoinedSteps DEF Reloads, Keyed
  <2>5. CASE todo = <<"user", "add_client", "reload_user", "session">>
    <3>1. Head(todo) = "user" /\ Tail(todo) = <<"add_client", "reload_user", "session">>
      BY <2>5
    <3>. QED
      BY <1>3, <2>1, <2>2, <2>5, <3>1, JoinedSteps DEF Reloads, Keyed
  <2>6. CASE todo = <<"add_client", "reload_user", "session">>
    <3>1. Head(todo) = "add_client" /\ Tail(todo) = <<"reload_user", "session">>
      BY <2>6
    <3>. QED
      BY <1>3, <2>1, <2>2, <2>6, <3>1, JoinedSteps DEF Reloads, Keyed
  <2>7. CASE todo = <<"reload_client", "session">>
    <3>1. Head(todo) = "reload_client" /\ Tail(todo) = <<"session">>
      BY <2>7
    <3>. QED
      BY <1>3, <2>1, <2>2, <2>7, <3>1, JoinedSteps DEF Reloads, Keyed
  <2>8. CASE todo = <<"reload_user", "session">>
    <3>1. Head(todo) = "reload_user" /\ Tail(todo) = <<"session">>
      BY <2>8
    <3>. QED
      BY <1>3, <2>1, <2>2, <2>8, <3>1, JoinedSteps DEF Reloads, Keyed
  <2>9. CASE todo = <<"session">>
    <3>1. Head(todo) = "session" /\ Tail(todo) = <<>>
      BY <2>9
    <3>. QED
      BY <1>3, <2>1, <2>2, <2>9, <3>1, JoinedSteps DEF Reloads, Keyed
  <2>10. CASE todo = <<"old_session">>
    <3>1. Head(todo) = "old_session" /\ Tail(todo) = <<>>
      BY <2>10
    <3>. QED
      BY <1>3, <2>1, <2>2, <2>10, <3>1, JoinedSteps DEF Reloads, Keyed
  <2>11. CASE todo = <<"update_session">>
    <3>1. Head(todo) = "update_session" /\ Tail(todo) = <<>>
      BY <2>11
    <3>. QED
      BY <1>3, <2>1, <2>2, <2>11, <3>1, JoinedSteps DEF Reloads, Keyed
  <2>12. CASE todo = <<"add_session">>
    <3>1. Head(todo) = "add_session" /\ Tail(todo) = <<>>
      BY <2>12
    <3>. QED
      BY <1>3, <2>1, <2>2, <2>12, <3>1, JoinedSteps DEF Reloads, Keyed
  <2>. QED
    BY <2>1, <2>2, <2>3, <2>4, <2>5, <2>6, <2>7, <2>8, <2>9, <2>10, <2>11, <2>12
<1>4. CASE k = "update_secret"
  <2>1. Making(k) = {<<"new_secret", "session">>,
                     <<"write_secret", "reload_client", "session">>, <<"user", "add_client",
                                                                       "reload_user",
                                                                       "session">>,
                                                                       <<"add_client",
                                                                         "reload_user", "session">>}
    BY <1>4 DEF Making
  <2>2. Made(k) = {<<"reload_client", "session">>, <<"reload_user", "session">>, <<"session">>,
                   <<"old_session">>, <<"update_session">>, <<"add_session">>, <<>>}
    BY <1>4 DEF Made, SessionSteps
  <2>3. CASE todo = <<"new_secret", "session">>
    <3>1. Head(todo) = "new_secret" /\ Tail(todo) = <<"session">>
      BY <2>3
    <3>. QED
      BY <1>4, <2>1, <2>2, <2>3, <3>1, JoinedSteps DEF Reloads, Keyed
  <2>4. CASE todo = <<"write_secret", "reload_client", "session">>
    <3>1. Head(todo) = "write_secret" /\ Tail(todo) = <<"reload_client", "session">>
      BY <2>4
    <3>. QED
      BY <1>4, <2>1, <2>2, <2>4, <3>1, JoinedSteps DEF Reloads, Keyed
  <2>5. CASE todo = <<"user", "add_client", "reload_user", "session">>
    <3>1. Head(todo) = "user" /\ Tail(todo) = <<"add_client", "reload_user", "session">>
      BY <2>5
    <3>. QED
      BY <1>4, <2>1, <2>2, <2>5, <3>1, JoinedSteps DEF Reloads, Keyed
  <2>6. CASE todo = <<"add_client", "reload_user", "session">>
    <3>1. Head(todo) = "add_client" /\ Tail(todo) = <<"reload_user", "session">>
      BY <2>6
    <3>. QED
      BY <1>4, <2>1, <2>2, <2>6, <3>1, JoinedSteps DEF Reloads, Keyed
  <2>7. CASE todo = <<"reload_client", "session">>
    <3>1. Head(todo) = "reload_client" /\ Tail(todo) = <<"session">>
      BY <2>7
    <3>. QED
      BY <1>4, <2>1, <2>2, <2>7, <3>1, JoinedSteps DEF Reloads, Keyed
  <2>8. CASE todo = <<"reload_user", "session">>
    <3>1. Head(todo) = "reload_user" /\ Tail(todo) = <<"session">>
      BY <2>8
    <3>. QED
      BY <1>4, <2>1, <2>2, <2>8, <3>1, JoinedSteps DEF Reloads, Keyed
  <2>9. CASE todo = <<"session">>
    <3>1. Head(todo) = "session" /\ Tail(todo) = <<>>
      BY <2>9
    <3>. QED
      BY <1>4, <2>1, <2>2, <2>9, <3>1, JoinedSteps DEF Reloads, Keyed
  <2>10. CASE todo = <<"old_session">>
    <3>1. Head(todo) = "old_session" /\ Tail(todo) = <<>>
      BY <2>10
    <3>. QED
      BY <1>4, <2>1, <2>2, <2>10, <3>1, JoinedSteps DEF Reloads, Keyed
  <2>11. CASE todo = <<"update_session">>
    <3>1. Head(todo) = "update_session" /\ Tail(todo) = <<>>
      BY <2>11
    <3>. QED
      BY <1>4, <2>1, <2>2, <2>11, <3>1, JoinedSteps DEF Reloads, Keyed
  <2>12. CASE todo = <<"add_session">>
    <3>1. Head(todo) = "add_session" /\ Tail(todo) = <<>>
      BY <2>12
    <3>. QED
      BY <1>4, <2>1, <2>2, <2>12, <3>1, JoinedSteps DEF Reloads, Keyed
  <2>. QED
    BY <2>1, <2>2, <2>3, <2>4, <2>5, <2>6, <2>7, <2>8, <2>9, <2>10, <2>11, <2>12
<1>5. CASE k = "get_token_for_user"
  <2>1. Making(k) = {<<"session">>, <<"user", "add_client", "reload_user", "session_of_new">>,
                     <<"add_client", "reload_user", "session_of_new">>}
    BY <1>5 DEF Making
  <2>2. Made(k) = {<<"reload_user", "session_of_new">>, <<"session_of_new">>, <<"old_session">>,
                   <<"update_session">>, <<"add_session">>, <<>>}
    BY <1>5 DEF Made, SessionSteps
  <2>3. CASE todo = <<"session">>
    <3>1. Head(todo) = "session" /\ Tail(todo) = <<>>
      BY <2>3
    <3>2. (NewClient \o <<"session_of_new">>) \o Tail(todo) \in Making(k)
      <4>1. (NewClient \o <<"session_of_new">>) \o <<>> =
              <<"user", "add_client", "reload_user", "session_of_new">>
        BY JoinedSteps
      <4>2. <<"user", "add_client", "reload_user", "session_of_new">> \in Making(k)
        BY <2>1
      <4>. QED
        BY <3>1, <4>1, <4>2
    <3>3. <<"old_session">> \o Tail(todo) \in Made(k) \ Reloads
      <4>1. <<"old_session">> \o <<>> = <<"old_session">>
        BY JoinedSteps
      <4>2. <<"old_session">> \in Made(k)
        BY <2>2
      <4>3. <<"old_session">> \notin Reloads
        BY DEF Reloads
      <4>. QED
        BY <3>1, <4>1, <4>2, <4>3
    <3>4. todo \in Making(k) /\ todo \notin Made(k)
      BY <2>1, <2>2, <2>3
    <3>. QED
      BY <1>5, <3>1, <3>2, <3>3, <3>4
  <2>4. CASE todo = <<"user", "add_client", "reload_user", "session_of_new">>
    <3>1. Head(todo) = "user" /\ Tail(todo) = <<"add_client", "reload_user", "session_of_new">>
      BY <2>4
    <3>. QED
      BY <1>5, <2>1, <2>2, <2>4, <3>1, JoinedSteps DEF Reloads, Keyed
  <2>5. CASE todo = <<"add_client", "reload_user", "session_of_new">>
    <3>1. Head(todo) = "add_client" /\ Tail(todo) = <<"reload_user", "session_of_new">>
      BY <2>5
    <3>. QED
      BY <1>5, <2>1, <2>2, <2>5, <3>1, JoinedSteps DEF Reloads, Keyed
  <2>6. CASE todo = <<"reload_user", "session_of_new">>
    <3>1. Head(todo) = "reload_user" /\ Tail(todo) = <<"session_of_new">>
      BY <2>6
    <3>. QED
      BY <1>5, <2>1, <2>2, <2>6, <3>1, JoinedSteps DEF Reloads, Keyed
  <2>7. CASE todo = <<"session_of_new">>
    <3>1. Head(todo) = "session_of_new" /\ Tail(todo) = <<>>
      BY <2>7
    <3>. QED
      BY <1>5, <2>1, <2>2, <2>7, <3>1, JoinedSteps DEF Reloads, Keyed
  <2>8. CASE todo = <<"old_session">>
    <3>1. Head(todo) = "old_session" /\ Tail(todo) = <<>>
      BY <2>8
    <3>. QED
      BY <1>5, <2>1, <2>2, <2>8, <3>1, JoinedSteps DEF Reloads, Keyed
  <2>9. CASE todo = <<"update_session">>
    <3>1. Head(todo) = "update_session" /\ Tail(todo) = <<>>
      BY <2>9
    <3>. QED
      BY <1>5, <2>1, <2>2, <2>9, <3>1, JoinedSteps DEF Reloads, Keyed
  <2>10. CASE todo = <<"add_session">>
    <3>1. Head(todo) = "add_session" /\ Tail(todo) = <<>>
      BY <2>10
    <3>. QED
      BY <1>5, <2>1, <2>2, <2>10, <3>1, JoinedSteps DEF Reloads, Keyed
  <2>. QED
    BY <2>1, <2>2, <2>3, <2>4, <2>5, <2>6, <2>7, <2>8, <2>9, <2>10
<1>. QED
  BY <1>1, <1>2, <1>3, <1>4, <1>5 DEF Makers

(***************************************************************************)
(* What a request has still to do changes with a step of its own.          *)
(***************************************************************************)
\* A step after which nothing is told or done that was not before it.
Quiet(k, old, new) ==
  /\ new \in Todo(k)
  /\ old \notin Reloads /\ new \notin Reloads
  /\ new \in Making(k) => old \in Making(k)
  /\ k = "revoke_credentials" => new # <<>>
  /\ k = "delete_user" => new # <<>> /\ (new \in DeletingUser => old \in DeletingUser)
  /\ k \in Adds => (new \in {<<"reload_pair">>, <<>>} => old \in {<<"reload_pair">>, <<>>})
  /\ k \in Drops => new \notin {<<"drop_pairs">>, <<>>}

\* Requests that associate (database/model.py User.add_facility, Facility.add_user).
LEMMA AddsNext ==
  ASSUME NEW k \in Adds, NEW todo \in Todo(k), todo # <<>>
  PROVE  LET first == Head(todo)
             rest == Tail(todo)
         IN
    /\ first \in {"user", "facility", "associate", "add_pair", "reload_pair"}
    /\ first \in {"user", "facility", "reload_pair"} => Quiet(k, todo, rest)
    /\ first = "associate" => rest = <<>> /\ Quiet(k, todo, <<"add_pair", "reload_pair">> \o rest)
    /\ first = "add_pair" => rest = <<"reload_pair">>
<1>1. Todo(k) = {<<"user", "facility", "associate">>, <<"facility", "user", "associate">>,
                 <<"facility", "associate">>, <<"user",
                                                "associate">>, <<"associate">>,
                                                <<"add_pair", "reload_pair">>,
                                                <<"reload_pair">>, <<>>}
  BY Sorts DEF Todo, Associating
<1>2. Making(k) = {} /\ k \notin Makers
  BY Sorts DEF Making, Makers, Adds, Drops
<1>3. k \in Adds /\ k \notin Drops /\ k # "delete_user" /\ k # "revoke_credentials"
  BY Sorts
<1>4. CASE todo = <<"user", "facility", "associate">>
  <2>1. Head(todo) = "user" /\ Tail(todo) = <<"facility", "associate">>
    BY <1>4
  <2>. QED
    BY <1>1, <1>2, <1>3, <1>4, <2>1, JoinedSteps DEF Quiet, Reloads, DeletingUser
<1>5. CASE todo = <<"facility", "user", "associate">>
  <2>1. Head(todo) = "facility" /\ Tail(todo) = <<"user", "associate">>
    BY <1>5
  <2>. QED
    BY <1>1, <1>2, <1>3, <1>5, <2>1, JoinedSteps DEF Quiet, Reloads, DeletingUser
<1>6. CASE todo = <<"facility", "associate">>
  <2>1. Head(todo) = "facility" /\ Tail(todo) = <<"associate">>
    BY <1>6
  <2>. QED
    BY <1>1, <1>2, <1>3, <1>6, <2>1, JoinedSteps DEF Quiet, Reloads, DeletingUser
<1>7. CASE todo = <<"user", "associate">>
  <2>1. Head(todo) = "user" /\ Tail(todo) = <<"associate">>
    BY <1>7
  <2>. QED
    BY <1>1, <1>2, <1>3, <1>7, <2>1, JoinedSteps DEF Quiet, Reloads, DeletingUser
<1>8. CASE todo = <<"associate">>
  <2>1. Head(todo) = "associate" /\ Tail(todo) = <<>>
    BY <1>8
  <2>. QED
    BY <1>1, <1>2, <1>3, <1>8, <2>1, JoinedSteps DEF Quiet, Reloads, DeletingUser
<1>9. CASE todo = <<"add_pair", "reload_pair">>
  <2>1. Head(todo) = "add_pair" /\ Tail(todo) = <<"reload_pair">>
    BY <1>9
  <2>. QED
    BY <1>1, <1>2, <1>3, <1>9, <2>1, JoinedSteps DEF Quiet, Reloads, DeletingUser
<1>10. CASE todo = <<"reload_pair">>
  <2>1. Head(todo) = "reload_pair" /\ Tail(todo) = <<>>
    BY <1>10
  <2>. QED
    BY <1>1, <1>2, <1>3, <1>10, <2>1, JoinedSteps DEF Quiet, Reloads, DeletingUser
<1>. QED
  BY <1>1, <1>4, <1>5, <1>6, <1>7, <1>8, <1>9, <1>10

\* Requests that dissociate (database/model.py User.delete_facility, Facility.delete_user).
LEMMA DropsNext ==
  ASSUME NEW k \in Drops, NEW todo \in Todo(k), todo # <<>>
  PROVE  LET first == Head(todo)
             rest == Tail(todo)
         IN
    /\ first \in {"user", "facility", "pair_of_both", "drop_pairs"}
    /\ first \in {"user", "facility"} => Quiet(k, todo, rest)
    /\ first = "pair_of_both" => rest = <<"drop_pairs">>
    /\ first = "drop_pairs" => todo = <<"drop_pairs">> /\ rest = <<>>
<1>1. Todo(k) = {<<"user", "facility", "pair_of_both", "drop_pairs">>,
                 <<"facility", "user", "pair_of_both", "drop_pairs">>, <<"facility",
                                                                         "pair_of_both",
                                                                         "drop_pairs">>,
                                                                         <<"user",
                                                                           "pair_of_both",
                                                                           "drop_pairs">>,
                                                                           <<"pair_of_both",
                                                                             "drop_pairs">>,
                                                                             <<"drop_pairs">>, <<>>}
  BY Sorts DEF Todo, Dissociating
<1>2. Making(k) = {} /\ k \notin Makers
  BY Sorts DEF Making, Makers, Adds, Drops
<1>3. k \in Drops /\ k \notin Adds /\ k # "delete_user" /\ k # "revoke_credentials"
  BY Sorts
<1>4. CASE todo = <<"user", "facility", "pair_of_both", "drop_pairs">>
  <2>1. Head(todo) = "user" /\ Tail(todo) = <<"facility", "pair_of_both", "drop_pairs">>
    BY <1>4
  <2>. QED
    BY <1>1, <1>2, <1>3, <1>4, <2>1, JoinedSteps DEF Quiet, Reloads, DeletingUser
<1>5. CASE todo = <<"facility", "user", "pair_of_both", "drop_pairs">>
  <2>1. Head(todo) = "facility" /\ Tail(todo) = <<"user", "pair_of_both", "drop_pairs">>
    BY <1>5
  <2>. QED
    BY <1>1, <1>2, <1>3, <1>5, <2>1, JoinedSteps DEF Quiet, Reloads, DeletingUser
<1>6. CASE todo = <<"facility", "pair_of_both", "drop_pairs">>
  <2>1. Head(todo) = "facility" /\ Tail(todo) = <<"pair_of_both", "drop_pairs">>
    BY <1>6
  <2>. QED
    BY <1>1, <1>2, <1>3, <1>6, <2>1, JoinedSteps DEF Quiet, Reloads, DeletingUser
<1>7. CASE todo = <<"user", "pair_of_both", "drop_pairs">>
  <2>1. Head(todo) = "user" /\ Tail(todo) = <<"pair_of_both", "drop_pairs">>
    BY <1>7
  <2>. QED
    BY <1>1, <1>2, <1>3, <1>7, <2>1, JoinedSteps DEF Quiet, Reloads, DeletingUser
<1>8. CASE todo = <<"pair_of_both", "drop_pairs">>
  <2>1. Head(todo) = "pair_of_both" /\ Tail(todo) = <<"drop_pairs">>
    BY <1>8
  <2>. QED
    BY <1>1, <1>2, <1>3, <1>8, <2>1, JoinedSteps DEF Quiet, Reloads, DeletingUser
<1>9. CASE todo = <<"drop_pairs">>
  <2>1. Head(todo) = "drop_pairs" /\ Tail(todo) = <<>>
    BY <1>9
  <2>. QED
    BY <1>1, <1>2, <1>3, <1>9, <2>1, JoinedSteps DEF Quiet, Reloads, DeletingUser
<1>. QED
  BY <1>1, <1>4, <1>5, <1>6, <1>7, <1>8, <1>9

\* Requests that delete a user (database/model.py User.delete).
LEMMA DeleteUserNext ==
  ASSUME NEW k, k = "delete_user", NEW todo \in Todo(k), todo # <<>>
  PROVE  LET first == Head(todo)
             rest == Tail(todo)
         IN
    /\ first \in {"user", "client_to_drop", "session_to_drop", "drop_session", "drop_client",
                  "pairs_of_user", "drop_pairs", "drop_user"}
    /\ first = "user" => rest \in DeletingUser
    /\ first = "client_to_drop" => Quiet(k, todo, <<"session_to_drop", "drop_client">> \o rest)
    /\ first = "session_to_drop" => Quiet(k, todo, <<"drop_session">> \o rest)
    /\ first \in {"client_to_drop", "session_to_drop", "drop_session", "drop_client",
                  "drop_pairs", "pairs_of_user"} => Quiet(k, todo, rest)
    /\ first # "user" => todo \in DeletingUser
    /\ first = "drop_user" => rest = <<>>
<1>1. Todo(k) = {<<"client_to_drop", "pairs_of_user", "drop_pairs", "drop_user">>,
                 <<"session_to_drop", "drop_client", "pairs_of_user", "drop_pairs",
                   "drop_user">>,
                   <<"drop_session", "drop_client", "pairs_of_user", "drop_pairs",
                     "drop_user">>,
                     <<"drop_client", "pairs_of_user", "drop_pairs", "drop_user">>,
                     <<"pairs_of_user", "drop_pairs", "drop_user">>,
                     <<"drop_pairs", "drop_user">>, <<"drop_user">>,
                     <<"user", "client_to_drop", "pairs_of_user", "drop_pairs", "drop_user">>, <<>>}
  BY Sorts DEF Todo, DeletingUser, LookingUp
<1>2. Making(k) = {} /\ k \notin Makers
  BY Sorts DEF Making, Makers, Adds, Drops
<1>3. k = "delete_user" /\ k \notin Adds /\ k \notin Drops /\ k # "revoke_credentials"
  BY Sorts
<1>4. CASE todo = <<"client_to_drop", "pairs_of_user", "drop_pairs", "drop_user">>
  <2>1. Head(todo) = "client_to_drop" /\ Tail(todo) = <<"pairs_of_user", "drop_pairs", "drop_user">>
    BY <1>4
  <2>2. <<"session_to_drop", "drop_client">> \o Tail(todo) =
          <<"session_to_drop", "drop_client", "pairs_of_user", "drop_pairs", "drop_user">>
    BY <2>1, JoinedSteps
  <2>3. Quiet(k, todo, <<"session_to_drop", "drop_client", "pairs_of_user", "drop_pairs", "drop_user">>)
    BY <1>1, <1>2, <1>3, <1>4 DEF Quiet, Reloads, DeletingUser
  <2>4. Quiet(k, todo, Tail(todo))
    BY <1>1, <1>2, <1>3, <1>4, <2>1 DEF Quiet, Reloads, DeletingUser
  <2>5. todo \in DeletingUser
    BY <1>4 DEF DeletingUser
  <2>. QED
    BY <2>1, <2>2, <2>3, <2>4, <2>5
<1>5. CASE todo = <<"session_to_drop", "drop_client", "pairs_of_user", "drop_pairs", "drop_user">>
  <2>1. Head(todo) = "session_to_drop" /\ Tail(todo) = <<"drop_client", "pairs_of_user",
                                                         "drop_pairs", "drop_user">>
    BY <1>5
  <2>2. <<"drop_session">> \o Tail(todo) =
          <<"drop_session", "drop_client", "pairs_of_user", "drop_pairs", "drop_user">>
    BY <2>1, JoinedSteps
  <2>3. Quiet(k, todo, <<"drop_session", "drop_client", "pairs_of_user", "drop_pairs", "drop_user">>)
    BY <1>1, <1>2, <1>3, <1>5 DEF Quiet, Reloads, DeletingUser
  <2>4. Quiet(k, todo, Tail(todo))
    BY <1>1, <1>2, <1>3, <1>5, <2>1 DEF Quiet, Reloads, DeletingUser
  <2>5. todo \in DeletingUser
    BY <1>5 DEF DeletingUser
  <2>. QED
    BY <2>1, <2>2, <2>3, <2>4, <2>5
<1>6. CASE todo = <<"drop_session", "drop_client", "pairs_of_user", "drop_pairs", "drop_user">>
  <2>1. Head(todo) = "drop_session" /\ Tail(todo) = <<"drop_client", "pairs_of_user",
                                                      "drop_pairs", "drop_user">>
    BY <1>6
  <2>. QED
    BY <1>1, <1>2, <1>3, <1>6, <2>1, JoinedSteps DEF Quiet, Reloads, DeletingUser
<1>7. CASE todo = <<"drop_client", "pairs_of_user", "drop_pairs", "drop_user">>
  <2>1. Head(todo) = "drop_client" /\ Tail(todo) = <<"pairs_of_user", "drop_pairs", "drop_user">>
    BY <1>7
  <2>. QED
    BY <1>1, <1>2, <1>3, <1>7, <2>1, JoinedSteps DEF Quiet, Reloads, DeletingUser
<1>8. CASE todo = <<"pairs_of_user", "drop_pairs", "drop_user">>
  <2>1. Head(todo) = "pairs_of_user" /\ Tail(todo) = <<"drop_pairs", "drop_user">>
    BY <1>8
  <2>. QED
    BY <1>1, <1>2, <1>3, <1>8, <2>1, JoinedSteps DEF Quiet, Reloads, DeletingUser
<1>9. CASE todo = <<"drop_pairs", "drop_user">>
  <2>1. Head(todo) = "drop_pairs" /\ Tail(todo) = <<"drop_user">>
    BY <1>9
  <2>. QED
    BY <1>1, <1>2, <1>3, <1>9, <2>1, JoinedSteps DEF Quiet, Reloads, DeletingUser
<1>10. CASE todo = <<"drop_user">>
  <2>1. Head(todo) = "drop_user" /\ Tail(todo) = <<>>
    BY <1>10
  <2>. QED
    BY <1>1, <1>2, <1>3, <1>10, <2>1, JoinedSteps DEF Quiet, Reloads, DeletingUser
<1>11. CASE todo = <<"user", "client_to_drop", "pairs_of_user", "drop_pairs", "drop_user">>
  <2>1. Head(todo) = "user" /\ Tail(todo) = <<"client_to_drop", "pairs_of_user", "drop_pairs",
                                              "drop_user">>
    BY <1>11
  <2>. QED
    BY <1>1, <1>2, <1>3, <1>11, <2>1, JoinedSteps DEF Quiet, Reloads, DeletingUser
<1>. QED
  BY <1>1, <1>4, <1>5, <1>6, <1>7, <1>8, <1>9, <1>10, <1>11

\* Requests that delete a facility (database/model.py Facility.delete).
LEMMA DeleteFacilityNext ==
  ASSUME NEW k, k = "delete_facility", NEW todo \in Todo(k), todo # <<>>
  PROVE  LET first == Head(todo)
             rest == Tail(todo)
         IN
    /\ first \in {"facility", "pairs_of_facility", "drop_pairs", "drop_facility"}
    /\ Quiet(k, todo, rest)
<1>1. Todo(k) = {<<"facility", "pairs_of_facility", "drop_pairs", "drop_facility">>,
                 <<"pairs_of_facility", "drop_pairs", "drop_facility">>, <<"drop_pairs",
                                                                           "drop_facility">>,
                                                                           <<"drop_facility">>,
                                                                           <<>>}
  BY Sorts DEF Todo, DeletingFacility
<1>2. Making(k) = {} /\ k \notin Makers
  BY Sorts DEF Making, Makers, Adds, Drops
<1>3. k = "delete_facility" /\ k \notin Adds /\ k \notin Drops /\ k # "revoke_credentials" /\ k # "delete_user"
  BY Sorts
<1>4. CASE todo = <<"facility", "pairs_of_facility", "drop_pairs", "drop_facility">>
  <2>1. Head(todo) = "facility" /\ Tail(todo) = <<"pairs_of_facility", "drop_pairs", "drop_facility">>
    BY <1>4
  <2>. QED
    BY <1>1, <1>2, <1>3, <1>4, <2>1, JoinedSteps DEF Quiet, Reloads, DeletingUser
<1>5. CASE todo = <<"pairs_of_facility", "drop_pairs", "drop_facility">>
  <2>1. Head(todo) = "pairs_of_facility" /\ Tail(todo) = <<"drop_pairs", "drop_facility">>
    BY <1>5
  <2>. QED
    BY <1>1, <1>2, <1>3, <1>5, <2>1, JoinedSteps DEF Quiet, Reloads, DeletingUser
<1>6. CASE todo = <<"drop_pairs", "drop_facility">>
  <2>1. Head(todo) = "drop_pairs" /\ Tail(todo) = <<"drop_facility">>
    BY <1>6
  <2>. QED
    BY <1>1, <1>2, <1>3, <1>6, <2>1, JoinedSteps DEF Quiet, Reloads, DeletingUser
<1>7. CASE todo = <<"drop_facility">>
  <2>1. Head(todo) = "drop_facility" /\ Tail(todo) = <<>>
    BY <1>7
  <2>. QED
    BY <1>1, <1>2, <1>3, <1>7, <2>1, JoinedSteps DEF Quiet, Reloads, DeletingUser
<1>. QED
  BY <1>1, <1>4, <1>5, <1>6, <1>7

\* Requests that revoke (apps/refitt/auth.py).
LEMMA RevokeNext ==
  ASSUME NEW k, k = "revoke_credentials", NEW todo \in Todo(k), todo # <<>>
  PROVE  LET first == Head(todo)
             rest == Tail(todo)
         IN
    /\ first \in {"client_to_revoke", "revoke"}
    /\ first = "client_to_revoke" => Quiet(k, todo, rest)
    /\ first = "revoke" => rest = <<>>
<1>1. Todo(k) = {<<"client_to_revoke", "revoke">>, <<"revoke">>, <<>>}
  BY Sorts DEF Todo, Adds, Drops
<1>2. Making(k) = {} /\ k \notin Makers
  BY Sorts DEF Making, Makers, Adds, Drops
<1>3. k = "revoke_credentials" /\ k \notin Adds /\ k \notin Drops /\ k # "delete_user"
  BY Sorts
<1>4. CASE todo = <<"client_to_revoke", "revoke">>
  <2>1. Head(todo) = "client_to_revoke" /\ Tail(todo) = <<"revoke">>
    BY <1>4
  <2>. QED
    BY <1>1, <1>2, <1>3, <1>4, <2>1, JoinedSteps DEF Quiet, Reloads, DeletingUser
<1>5. CASE todo = <<"revoke">>
  <2>1. Head(todo) = "revoke" /\ Tail(todo) = <<>>
    BY <1>5
  <2>. QED
    BY <1>1, <1>2, <1>3, <1>5, <2>1, JoinedSteps DEF Quiet, Reloads, DeletingUser
<1>. QED
  BY <1>1, <1>4, <1>5

\* Requests that do neither (web/api/endpoint, apps/refitt/auth.py update_token).
LEMMA OthersNext ==
  ASSUME NEW k \in Others, NEW todo \in Todo(k), todo # <<>>
  PROVE  LET first == Head(todo)
             rest == Tail(todo)
         IN
    /\ first \in Harmless
    /\ Quiet(k, todo, rest)
    /\ \A s \in Seq(Harmless) : Quiet(k, todo, s \o rest)
<1>1. k \notin Makers \cup Adds \cup Drops /\ k # "delete_user" /\ k # "revoke_credentials"
  BY Sorts
<1>2. Todo(k) = Seq(Harmless) /\ Making(k) = {}
  <2>1. Todo(k) = Seq(Harmless)
    BY Sorts DEF Todo
  <2>2. Making(k) = {}
    BY <1>1 DEF Making, Makers
  <2>. QED
    BY <2>1, <2>2
<1>3. Head(todo) \in Harmless /\ Tail(todo) \in Seq(Harmless)
  BY <1>2, HeadTailProperties
<1>4. ASSUME NEW s \in Seq(Harmless) PROVE s \notin Reloads
  <2>1. s # <<>> => Head(s) \in Harmless
    BY HeadTailProperties
  <2>2. "reload_client" \notin Harmless
    BY DEF Harmless
  <2>3. \A t \in Reloads : t # <<>> /\ Head(t) = "reload_client"
    BY DEF Reloads
  <2>. QED
    BY <2>1, <2>2, <2>3
<1>5. ASSUME NEW s \in Seq(Harmless) PROVE Quiet(k, todo, s)
  BY <1>1, <1>2, <1>4 DEF Quiet
<1>6. ASSUME NEW s \in Seq(Harmless) PROVE s \o Tail(todo) \in Seq(Harmless)
  BY <1>3, ConcatProperties
<1>. QED
  BY <1>3, <1>5, <1>6

\* Requests that give out credentials, but where they write or tell them
\* (database/model.py Client, Session).
LEMMA MakersQuiet ==
  ASSUME NEW k \in Makers, NEW todo \in Todo(k), todo # <<>>
  PROVE  LET first == Head(todo)
             rest == Tail(todo)
         IN
    /\ first \in {"user", "reload_user", "update_session", "add_session"} => Quiet(k, todo, rest)
    /\ first \in {"new_key", "new_secret"} => Quiet(k, todo, NewClient \o rest)
    /\ first = "new_key" => Quiet(k, todo, <<"write_key", "reload_client">> \o rest)
    /\ first = "new_secret" => Quiet(k, todo, <<"write_secret", "reload_client">> \o rest)
    /\ first \in {"session", "session_of_new"} => Quiet(k, todo, <<"old_session">> \o rest)
    /\ first = "session" /\ k = "get_token_for_user" =>
         Quiet(k, todo, (NewClient \o <<"session_of_new">>) \o rest)
    /\ first = "old_session" =>
         Quiet(k, todo, <<"update_session">> \o rest) /\ Quiet(k, todo, <<"add_session">> \o rest)
<1>1. Todo(k) = Making(k) \cup Made(k)
  BY Sorts DEF Todo
<1>2. k \notin Adds /\ k \notin Drops /\ k # "delete_user" /\ k # "revoke_credentials"
  BY Sorts
<1>3. \A t \in Making(k) : t \notin Made(k) /\ t \notin Reloads
  <2>1. \A t \in Making(k) : t # <<>> /\ Head(t) # "reload_client"
    BY DEF Making, Makers
  <2>2. \A t \in Reloads : t # <<>> /\ Head(t) = "reload_client"
    BY DEF Reloads
  <2>3. \A t \in Making(k) : t \notin Made(k)
    BY <2>1, MakersNext
  <2>. QED
    BY <2>1, <2>2, <2>3
<1>4. \A new \in Made(k) \ Reloads : todo \notin Reloads => Quiet(k, todo, new)
  BY <1>1, <1>2, <1>3 DEF Quiet
<1>5. \A new \in Making(k) : todo \in Making(k) => Quiet(k, todo, new)
  BY <1>1, <1>2, <1>3 DEF Quiet
<1> HIDE DEF Quiet
<1>6. todo \in Making(k) => todo \notin Reloads
  BY <1>3
<1> DEFINE first == Head(todo)
<1> DEFINE rest == Tail(todo)
<1>7. /\ first = "user" => todo \in Making(k) /\ rest \in Making(k)
      /\ first \in {"reload_user", "update_session", "add_session"} =>
           todo \in Made(k) \ Reloads /\ rest \in Made(k) \ Reloads
  BY <1>1, MakersNext
<1>8. /\ first \in {"new_key",
                    "new_secret"} => todo \in Making(k) /\ NewClient \o rest \in Making(k)
      /\ first = "new_key" => <<"write_key", "reload_client">> \o rest \in Making(k)
      /\ first = "new_secret" => <<"write_secret", "reload_client">> \o rest \in Making(k)
  BY <1>1, MakersNext
<1>9. /\ first \in {"session", "session_of_new"} => <<"old_session">> \o rest \in Made(k) \ Reloads
      /\ first \in {"session", "session_of_new"} => todo \notin Reloads
  <2>1. \A t \in Reloads : Head(t) = "reload_client"
    BY DEF Reloads
  <2>2. first \in {"session", "session_of_new"} => todo \notin Reloads
    BY <2>1
  <2>. QED
    BY <1>1, <2>2, MakersNext
<1>10. first = "session" /\ k = "get_token_for_user" =>
         todo \in Making(k) /\ (NewClient \o <<"session_of_new">>) \o rest \in Making(k)
  BY <1>1, MakersNext
<1>11. first = "old_session" =>
         /\ todo \in Made(k) \ Reloads
         /\ <<"update_session">> \o rest \in Made(k) \ Reloads
         /\ <<"add_session">> \o rest \in Made(k) \ Reloads
  BY <1>1, MakersNext
<1>. QED
  BY <1>4, <1>5, <1>6, <1>7, <1>8, <1>9, <1>10, <1>11

\* What is left to do is made of steps, none of which admits.
LEMMA TodoSteps ==
  ASSUME NEW k \in DOMAIN Program, NEW todo \in Todo(k)
  PROVE  /\ todo \in Seq(Steps)
         /\ todo # <<>> => Head(todo) \notin {"token", "secret"}
<1>1. CASE k \in Others
  <2>1. Todo(k) = Seq(Harmless)
    BY <1>1, Sorts DEF Todo
  <2>2. Harmless \subseteq Steps /\ "token" \notin Harmless /\ "secret" \notin Harmless
    BY DEF Harmless, Steps
  <2>3. todo \in Seq(Steps)
    BY <2>1, <2>2
  <2>4. todo # <<>> => Head(todo) \in Harmless
    BY <2>1, HeadTailProperties
  <2>. QED
    BY <2>2, <2>3, <2>4
<1>2. CASE k \in Makers
  <2>1. Todo(k) = Making(k) \cup Made(k)
    BY <1>2, Sorts DEF Todo
  <2>2. /\ <<"new_key">> \in Seq(Steps)
        /\ <<"write_key", "reload_client">> \in Seq(Steps)
        /\ <<"user", "add_client", "reload_user">> \in Seq(Steps)
        /\ <<"add_client", "reload_user">> \in Seq(Steps)
        /\ <<"new_secret">> \in Seq(Steps)
        /\ <<"write_secret", "reload_client">> \in Seq(Steps)
        /\ <<"new_key", "session">> \in Seq(Steps)
        /\ <<"write_key", "reload_client", "session">> \in Seq(Steps)
        /\ <<"user", "add_client", "reload_user", "session">> \in Seq(Steps)
        /\ <<"add_client", "reload_user", "session">> \in Seq(Steps)
        /\ <<"new_secret", "session">> \in Seq(Steps)
        /\ <<"write_secret", "reload_client", "session">> \in Seq(Steps)
        /\ <<"session">> \in Seq(Steps)
        /\ <<"user", "add_client", "reload_user", "session_of_new">> \in Seq(Steps)
        /\ <<"add_client", "reload_user", "session_of_new">> \in Seq(Steps)
    BY DEF Steps, Harmless
  <2>3. \A t \in Making(k) : t \in Seq(Steps)
    BY <1>2, <2>2 DEF Making, Makers
  <2>4. /\ <<"reload_client">> \in Seq(Steps)
        /\ <<"reload_user">> \in Seq(Steps)
        /\ <<>> \in Seq(Steps)
        /\ <<"reload_client", "session">> \in Seq(Steps)
        /\ <<"reload_user", "session">> \in Seq(Steps)
        /\ <<"session">> \in Seq(Steps)
        /\ <<"old_session">> \in Seq(Steps)
        /\ <<"update_session">> \in Seq(Steps)
        /\ <<"add_session">> \in Seq(Steps)
        /\ <<"reload_user", "session_of_new">> \in Seq(Steps)
        /\ <<"session_of_new">> \in Seq(Steps)
    BY DEF Steps, Harmless
  <2>5. \A t \in Made(k) : t \in Seq(Steps)
    BY <1>2, <2>4 DEF Made, SessionSteps, Makers
  <2>6. todo # <<>> => Head(todo) \notin {"token", "secret"}
    BY <1>2, <2>1, MakersNext
  <2>. QED
    BY <2>1, <2>3, <2>5, <2>6
<1>3. CASE k \in Adds
  <2>1. Todo(k) = Associating \cup {<<"reload_pair">>, <<>>}
    BY <1>3, Sorts DEF Todo
  <2>2. /\ <<"user", "facility", "associate">> \in Seq(Steps)
        /\ <<"facility", "user", "associate">> \in Seq(Steps)
        /\ <<"facility", "associate">> \in Seq(Steps)
        /\ <<"user", "associate">> \in Seq(Steps)
        /\ <<"associate">> \in Seq(Steps)
        /\ <<"add_pair", "reload_pair">> \in Seq(Steps)
        /\ <<"reload_pair">> \in Seq(Steps)
        /\ <<>> \in Seq(Steps)
    BY DEF Steps, Harmless
  <2>3. todo \in Seq(Steps)
    BY <2>1, <2>2 DEF Associating
  <2>. QED
    BY <1>3, <2>3, AddsNext
<1>4. CASE k \in Drops
  <2>1. Todo(k) = Dissociating \cup {<<"drop_pairs">>, <<>>}
    BY <1>4, Sorts DEF Todo
  <2>2. /\ <<"user", "facility", "pair_of_both", "drop_pairs">> \in Seq(Steps)
        /\ <<"facility", "user", "pair_of_both", "drop_pairs">> \in Seq(Steps)
        /\ <<"facility", "pair_of_both", "drop_pairs">> \in Seq(Steps)
        /\ <<"user", "pair_of_both", "drop_pairs">> \in Seq(Steps)
        /\ <<"pair_of_both", "drop_pairs">> \in Seq(Steps)
        /\ <<"drop_pairs">> \in Seq(Steps)
        /\ <<>> \in Seq(Steps)
    BY DEF Steps, Harmless
  <2>3. todo \in Seq(Steps)
    BY <2>1, <2>2 DEF Dissociating
  <2>. QED
    BY <1>4, <2>3, DropsNext
<1>5. CASE k = "delete_user"
  <2>1. Todo(k) = DeletingUser \cup {LookingUp, <<>>}
    BY <1>5, Sorts DEF Todo
  <2>2. /\ <<"client_to_drop", "pairs_of_user", "drop_pairs", "drop_user">> \in Seq(Steps)
        /\ <<"session_to_drop", "drop_client", "pairs_of_user", "drop_pairs",
             "drop_user">> \in Seq(Steps)
        /\ <<"drop_session", "drop_client", "pairs_of_user", "drop_pairs", "drop_user">> \in Seq(Steps)
        /\ <<"drop_client", "pairs_of_user", "drop_pairs", "drop_user">> \in Seq(Steps)
        /\ <<"pairs_of_user", "drop_pairs", "drop_user">> \in Seq(Steps)
        /\ <<"drop_pairs", "drop_user">> \in Seq(Steps)
        /\ <<"drop_user">> \in Seq(Steps)
        /\ <<"user", "client_to_drop", "pairs_of_user", "drop_pairs", "drop_user">> \in Seq(Steps)
        /\ <<>> \in Seq(Steps)
    BY DEF Steps, Harmless
  <2>3. todo \in Seq(Steps)
    BY <2>1, <2>2 DEF DeletingUser, LookingUp
  <2>. QED
    BY <1>5, <2>3, DeleteUserNext
<1>6. CASE k = "delete_facility"
  <2>1. Todo(k) = DeletingFacility \cup {<<>>}
    BY <1>6, Sorts DEF Todo
  <2>2. /\ <<"facility", "pairs_of_facility", "drop_pairs", "drop_facility">> \in Seq(Steps)
        /\ <<"pairs_of_facility", "drop_pairs", "drop_facility">> \in Seq(Steps)
        /\ <<"drop_pairs", "drop_facility">> \in Seq(Steps)
        /\ <<"drop_facility">> \in Seq(Steps)
        /\ <<>> \in Seq(Steps)
    BY DEF Steps, Harmless
  <2>3. todo \in Seq(Steps)
    BY <2>1, <2>2 DEF DeletingFacility
  <2>. QED
    BY <1>6, <2>3, DeleteFacilityNext
<1>7. CASE k = "revoke_credentials"
  <2>1. Todo(k) = {<<"client_to_revoke", "revoke">>, <<"revoke">>, <<>>}
    BY <1>7, Sorts DEF Todo
  <2>2. /\ <<"client_to_revoke", "revoke">> \in Seq(Steps)
        /\ <<"revoke">> \in Seq(Steps)
        /\ <<>> \in Seq(Steps)
    BY DEF Steps, Harmless
  <2>3. todo \in Seq(Steps)
    BY <2>1, <2>2
  <2>. QED
    BY <1>7, <2>3, RevokeNext
<1>. QED
  BY <1>1, <1>2, <1>3, <1>4, <1>5, <1>6, <1>7, Sorts

\* A request is admitted first, then does what its kind does (web/api/auth.py).
LEMMA EndpointPrograms ==
  ASSUME NEW k \in DOMAIN Program, k \notin CommandLine
  PROVE  LET all == Program[k].steps IN
         /\ all \in Seq(Steps) /\ all # <<>> /\ Head(all) \in {"token", "secret"}
         /\ Tail(all) \in First(k)
<1>1. CASE k \in Others
  <2>1. First(k) = Seq(Harmless) /\ k # "update_token"
    BY <1>1, Sorts DEF First, CommandLine
  <2>. QED
    BY <1>1, <2>1, OtherPrograms
<1>2. CASE k \notin Others
  BY <1>2, WritingPrograms
<1>. QED
  BY <1>1, <1>2

\* What a request does first is what it has still to do, and credentials are
\* not given out before they are made.
LEMMA FirstTodo ==
  ASSUME NEW k \in DOMAIN Program, NEW todo \in First(k)
  PROVE  /\ todo \in Todo(k) /\ todo \notin Reloads
         /\ k \in Makers => todo \in Making(k)
         /\ k = "revoke_credentials" => todo # <<>>
         /\ k = "delete_user" => todo \notin DeletingUser \cup {<<>>}
         /\ k \in Adds => todo \notin {<<"reload_pair">>, <<>>}
         /\ k \in Drops => todo \notin {<<"drop_pairs">>, <<>>}
<1>1. \A t \in Reloads : t # <<>> /\ Head(t) = "reload_client"
  BY DEF Reloads
<1>2. CASE k \in Others
  <2>1. First(k) = Seq(Harmless) /\ Todo(k) = Seq(Harmless)
    BY <1>2, Sorts DEF First, Todo
  <2>2. todo # <<>> => Head(todo) \in Harmless
    BY <2>1, HeadTailProperties
  <2>3. "reload_client" \notin Harmless
    BY DEF Harmless
  <2>4. k \notin Makers /\ k \notin Adds /\ k \notin Drops /\ k # "delete_user" /\ k # "revoke_credentials"
    BY <1>2, Sorts
  <2>. QED
    BY <1>1, <2>1, <2>2, <2>3, <2>4
<1>3. CASE k \in Makers
  <2>1. First(k) = Making(k) /\ Todo(k) = Making(k) \cup Made(k)
    BY <1>3, Sorts DEF First, Todo
  <2>2. \A t \in Making(k) : t # <<>> /\ Head(t) # "reload_client"
    BY <1>3 DEF Making, Makers
  <2>3. k \notin Adds /\ k \notin Drops /\ k # "delete_user" /\ k # "revoke_credentials"
    BY <1>3, Sorts
  <2>. QED
    BY <1>1, <2>1, <2>2, <2>3
<1>4. CASE k \in Adds
  <2>1. /\ First(k) = {<<"user", "facility", "associate">>, <<"facility", "user", "associate">>}
        /\ Todo(k) = Associating \cup {<<"reload_pair">>, <<>>}
    BY <1>4, Sorts DEF First, Todo
  <2>2. k \notin Makers /\ k \notin Drops /\ k # "delete_user" /\ k # "revoke_credentials"
    BY <1>4, Sorts
  <2>. QED
    BY <2>1, <2>2 DEF Associating, Reloads
<1>5. CASE k \in Drops
  <2>1. /\ First(k) = {<<"user", "facility", "pair_of_both", "drop_pairs">>,
                       <<"facility", "user", "pair_of_both", "drop_pairs">>}
        /\ Todo(k) = Dissociating \cup {<<"drop_pairs">>, <<>>}
    BY <1>5, Sorts DEF First, Todo
  <2>2. k \notin Makers /\ k \notin Adds /\ k # "delete_user" /\ k # "revoke_credentials"
    BY <1>5, Sorts
  <2>. QED
    BY <2>1, <2>2 DEF Dissociating, Reloads
<1>6. CASE k = "delete_user"
  <2>1. First(k) = {LookingUp} /\ Todo(k) = DeletingUser \cup {LookingUp, <<>>}
    BY <1>6, Sorts DEF First, Todo
  <2>2. k \notin Makers /\ k \notin Adds /\ k \notin Drops /\ k # "revoke_credentials"
    BY <1>6, Sorts
  <2>. QED
    BY <2>1, <2>2 DEF LookingUp, DeletingUser, Reloads
<1>7. CASE k = "delete_facility"
  <2>1. /\ First(k) = {<<"facility", "pairs_of_facility", "drop_pairs", "drop_facility">>}
        /\ Todo(k) = DeletingFacility \cup {<<>>}
    BY <1>7, Sorts DEF First, Todo
  <2>2. k \notin Makers /\ k \notin Adds /\ k \notin Drops /\ k # "revoke_credentials" /\ k # "delete_user"
    BY <1>7, Sorts
  <2>. QED
    BY <2>1, <2>2 DEF DeletingFacility, Reloads
<1>8. CASE k = "revoke_credentials"
  <2>1. /\ First(k) = {<<"client_to_revoke", "revoke">>}
        /\ Todo(k) = {<<"client_to_revoke", "revoke">>, <<"revoke">>, <<>>}
    BY <1>8, Sorts DEF First, Todo
  <2>2. k \notin Makers /\ k \notin Adds /\ k \notin Drops /\ k # "delete_user"
    BY <1>8, Sorts
  <2>. QED
    BY <1>8, <2>1, <2>2 DEF Reloads
<1>. QED
  BY <1>2, <1>3, <1>4, <1>5, <1>6, <1>7, <1>8, Sorts
------------------------------------------------------------------------------
(***************************************************************************)
(* What a step does to the requests.                                       *)
(***************************************************************************)
\* The statuses of responses (web/api/response.py).
LEMMA CodesApart ==
  /\ \A error \in Answered : Code[error] \in Codes
  /\ \A error \in Answered \ {"OK"} : Code[error] \notin {0, 200}
  /\ Code["OK"] = 200 /\ 200 \in Codes
<1>1. \A error \in Answered : Code[error] \in Codes
  BY DEF Codes
<1>2. \A error \in Answered \ {"OK"} : Code[error] \notin {0, 200}
  BY DEF Code, Answered
<1>3. Code["OK"] = 200
  BY DEF Code
<1>. QED
  BY <1>1, <1>2, <1>3 DEF Answered

\* A step of r leaves other requests alone, and what r was sent with.
Kept(r) ==
  /\ req' \in [Requests -> Request]
  /\ \A q \in Requests \ {r} : req'[q] = req[q]
  /\ req'[r].kind = req[r].kind /\ req'[r].as = req[r].as
  /\ req'[r].facility = req[r].facility /\ req'[r].before = req[r].before

\* r goes on with what is given, and with a row it found.
Goes(r, todo, row) ==
  /\ Kept(r)
  /\ req'[r].user = req[r].user /\ req'[r].found = req[r].found /\ req'[r].got = req[r].got
  /\ req'[r].todo = todo /\ req'[r].row = row /\ req'[r].code = req[r].code

\* r is over, and not because it is done.
Fails(r) ==
  /\ Kept(r)
  /\ req'[r].user = req[r].user /\ req'[r].found = req[r].found /\ req'[r].got = req[r].got
  /\ req'[r].todo = <<>> /\ req'[r].row = req[r].row /\ req'[r].code \notin {0, 200}

\* What is known of a request that is at a step.
LEMMA AtStep ==
  ASSUME Typed, WorkInv, NEW r \in Requests, NEW step, At(r, step)
  PROVE  /\ req[r] \in Request /\ req[r].kind \in DOMAIN Program /\ req[r].code = 0
         /\ req[r].kind # None
         /\ Target(r) \in Users /\ req[r].facility \in Facilities
         /\ req[r].todo \in Seq(Steps) /\ req[r].todo # <<>> /\ Head(req[r].todo) = step
         /\ Tail(req[r].todo) \in Seq(Steps)
         /\ step \in {"token", "secret"} => Waiting(r)
         /\ step \notin {"token", "secret"} => ~Waiting(r) /\ req[r].todo \in Todo(req[r].kind)
<1>1. /\ r \in Sent /\ req[r].kind # None /\ req[r].code = 0
      /\ req[r].todo # <<>> /\ Head(req[r].todo) = step
  BY DEF At, Busy, Over, Sent
<1>2. req[r] \in Request /\ Target(r) \in Users /\ req[r].facility \in Facilities
  BY <1>1 DEF Typed, Target
<1>3. req[r].kind \in DOMAIN Program
  BY <1>1, <1>2, KindsAssumption DEF Request
<1>4. req[r].todo \in Seq(Steps)
  BY <1>2 DEF Request
<1>5. Tail(req[r].todo) \in Seq(Steps)
  BY <1>1, <1>4, HeadTailProperties
<1>6. Waiting(r) \/ req[r].todo \in Todo(req[r].kind)
  BY <1>1 DEF WorkInv, AtWork
<1>7. Waiting(r) => Head(req[r].todo) \in {"token", "secret"}
  BY <1>3, EndpointPrograms DEF Waiting
<1>8. req[r].todo \in Todo(req[r].kind) => Head(req[r].todo) \notin {"token", "secret"}
  BY <1>1, <1>3, TodoSteps
<1>. QED
  BY <1>1, <1>2, <1>3, <1>4, <1>5, <1>6, <1>7, <1>8

\* The next steps replace the one that r is at (database/model.py).
LEMMA ThenGoes ==
  ASSUME Typed, WorkInv, NEW r \in Requests, NEW step, At(r, step),
         NEW steps \in Seq(Steps), Then(r, steps)
  PROVE  Goes(r, steps \o Tail(req[r].todo), req[r].row)
<1> DEFINE todo == steps \o Tail(req[r].todo)
<1>1. req[r] \in Request /\ todo \in Seq(Steps)
  BY AtStep, ConcatProperties
<1>2. req \in [Requests -> Request] /\ req' = [req EXCEPT ![r] = [req[r] EXCEPT !.todo = todo]]
  BY DEF Typed, Then
<1> HIDE DEF todo
<1>3. [req[r] EXCEPT !.todo = todo] \in Request
  BY <1>1, ZenonT(40) DEF Request
<1>4. req' \in [Requests -> Request] /\ req'[r] = [req[r] EXCEPT !.todo = todo]
  BY <1>2, <1>3
<1>5. \A q \in Requests \ {r} : req'[q] = req[q]
  BY <1>2
<1>6. Goes(r, todo, req[r].row)
  BY <1>1, <1>4, <1>5 DEF Goes, Kept, Request
<1>. QED
  BY <1>6 DEF todo

\* A row is found, too.
LEMMA LoadGoes ==
  ASSUME Typed, WorkInv, NEW r \in Requests, NEW step, At(r, step),
         NEW steps \in Seq(Steps), NEW row \in Ids, Load(r, row, steps)
  PROVE  Goes(r, steps \o Tail(req[r].todo), row)
<1> DEFINE todo == steps \o Tail(req[r].todo)
<1>1. req[r] \in Request /\ todo \in Seq(Steps)
  BY AtStep, ConcatProperties
<1>2. /\ req \in [Requests -> Request]
      /\ req' = [req EXCEPT ![r] = [req[r] EXCEPT !.todo = todo, !.row = row]]
  BY DEF Typed, Load
<1> HIDE DEF todo
<1>3. [req[r] EXCEPT !.todo = todo, !.row = row] \in Request
  <2>1. row \in Ids \cup {None}
    OBVIOUS
  <2>. QED
    BY <1>1, <2>1, Zenon DEF Request
<1>4. req' \in [Requests -> Request] /\ req'[r] = [req[r] EXCEPT !.todo = todo, !.row = row]
  BY <1>2, <1>3
<1>5. \A q \in Requests \ {r} : req'[q] = req[q]
  BY <1>2
<1>6. Goes(r, todo, row)
  BY <1>1, <1>4, <1>5 DEF Goes, Kept, Request
<1>. QED
  BY <1>6 DEF todo

\* The step is done, and nothing comes in its place.
LEMMA ProceedGoes ==
  ASSUME Typed, WorkInv, NEW r \in Requests, NEW step, At(r, step), Proceed(r)
  PROVE  Goes(r, Tail(req[r].todo), req[r].row)
<1>1. Tail(req[r].todo) \in Seq(Steps) /\ <<>> \in Seq(Steps)
  BY AtStep
<1>2. <<>> \o Tail(req[r].todo) = Tail(req[r].todo)
  BY <1>1, ConcatEmptySeq
<1>3. Goes(r, <<>> \o Tail(req[r].todo), req[r].row)
  BY <1>1, ThenGoes DEF Proceed
<1>. QED
  BY <1>2, <1>3

\* What a handler raises ends the request (web/api/response.py endpoint).
LEMMA EndFails ==
  ASSUME Typed, NEW r \in Requests, NEW error \in Answered \ {"OK"}, End(r, error)
  PROVE  Fails(r)
<1> DEFINE code == Code[error]
<1>1. code \in Codes /\ code \notin {0, 200}
  BY CodesApart
<1>2. req \in [Requests -> Request] /\ req[r] \in Request
  BY DEF Typed
<1>3. req' = [req EXCEPT ![r] = [req[r] EXCEPT !.todo = <<>>, !.code = code]]
  BY DEF End
<1> HIDE DEF code
<1>4. [req[r] EXCEPT !.todo = <<>>, !.code = code] \in Request
  <2>1. <<>> \in Seq(Steps) /\ code \in {0} \cup Codes
    BY <1>1
  <2>. QED
    BY <1>2, <2>1, ZenonT(90) DEF Request
<1>5. req' \in [Requests -> Request] /\ req'[r] = [req[r] EXCEPT !.todo = <<>>, !.code = code]
  BY <1>2, <1>3, <1>4
<1>6. \A q \in Requests \ {r} : req'[q] = req[q]
  BY <1>2, <1>3
<1>. QED
  BY <1>1, <1>2, <1>5, <1>6 DEF Fails, Kept, Request

\* So does a step that takes not what it is given (Refused).
LEMMA RefusedFails ==
  ASSUME Typed, NEW r \in Requests, Refused(r)
  PROVE  /\ Fails(r) /\ UNCHANGED tables /\ r \in Busy /\ req[r].kind # None /\ req[r].code = 0
         /\ req'[r].code = 500 /\ req'[r].refused
<1> DEFINE code == Code["Critical"]
<1>1. code \in Codes /\ code = 500
  BY DEF Codes, Code, Answered
<1>2. req \in [Requests -> Request] /\ req[r] \in Request
  BY DEF Typed
<1>3. req' = [req EXCEPT ![r] = [req[r] EXCEPT !.todo = <<>>, !.code = code, !.refused = TRUE]]
  BY DEF Refused
<1>4. UNCHANGED tables /\ r \in Busy /\ req[r].kind # None /\ req[r].code = 0
  BY DEF Refused, Busy, Over, Sent
<1> HIDE DEF code
<1>5. [req[r] EXCEPT !.todo = <<>>, !.code = code, !.refused = TRUE] \in Request
  <2>1. <<>> \in Seq(Steps) /\ code \in {0} \cup Codes /\ TRUE \in BOOLEAN
    BY <1>1
  <2>. QED
    BY <1>2, <2>1, ZenonT(40) DEF Request
<1>6. /\ req' \in [Requests -> Request]
      /\ req'[r] = [req[r] EXCEPT !.todo = <<>>, !.code = code, !.refused = TRUE]
  BY <1>2, <1>3, <1>5
<1>7. \A q \in Requests \ {r} : req'[q] = req[q]
  BY <1>2, <1>3
<1>8. req'[r].code = 500 /\ req'[r].refused
  BY <1>1, <1>2, <1>6 DEF Request
<1>9. Fails(r)
  BY <1>2, <1>6, <1>7, <1>8 DEF Fails, Kept, Request
<1>. QED
  BY <1>4, <1>8, <1>9

\* The client of r was not revoked before r began.
Welcome(r) == \A q \in Requests : Revoked(q) /\ q \in req[r].before => req[r].as.id # req[q].row

\* A step of r that writes, tells, revokes and deletes nothing new.
Controlled(r) ==
  /\ Kept(r) /\ req[r].kind # None /\ req[r].code = 0
  /\ req'[r].user \in Users /\ (req'[r].user = req[r].user \/ req[r].kind \in Others)
  /\ req'[r].got = req[r].got
  /\ \A p \in req'[r].found : p \in req[r].found \/ Seeks(r, p)
  /\ req'[r].row = req[r].row \/ \E c \in clients : req'[r].row = c.id
  /\ req'[r].code \in {0, 200} =>
       (~Waiting(r) \/ Welcome(r)) /\ ~Reloading(r) /\ ~Reloading(r)'
  /\ IF req'[r].code = 0 THEN req'[r].todo \in Todo(req[r].kind) ELSE req'[r].todo = <<>>
  /\ Writes(r)' => Writes(r)
  /\ Revoked(r)' => Revoked(r) /\ req'[r].row = req[r].row
  /\ Reached(r, {"delete_user"}, DeletingUser)' =>
       Reached(r, {"delete_user"}, DeletingUser) \/ Target(r) \notin spare
  /\ Reached(r, {"delete_user"}, {<<>>})' =>
       /\ Reached(r, {"delete_user"}, DeletingUser \cup {<<>>})
       /\ Reached(r, {"delete_user"}, {<<>>}) \/ Target(r) \notin users'

\* Nor is anything new associated or dissociated.
Aside(r) ==
  /\ req'[r].found = req[r].found
  /\ Reached(r, Adds, {<<"reload_pair">>, <<>>})' => Reached(r, Adds, {<<"reload_pair">>, <<>>})
  /\ Reached(r, Drops, {<<"drop_pairs">>, <<>>})' =>
       Reached(r, Drops, {<<>>}) /\ Reached(r, Drops, {<<>>})'
Benign(r) == Controlled(r) /\ Aside(r)

\* A request that is admitted has the first of its steps behind it.
LEMMA NotWaiting ==
  ASSUME NEW k \in DOMAIN Program, k \notin CommandLine, NEW todo \in Todo(k)
  PROVE  todo # Program[k].steps
BY TodoSteps, EndpointPrograms

\* A request that fails is benign.
LEMMA FailsBenign ==
  ASSUME Typed, WorkInv, NEW r \in Requests, r \in Busy, Fails(r)
  PROVE  Benign(r)
<1>1. req[r].kind # None /\ req[r].code = 0
  BY DEF Busy, Over, Sent
<1>2. req'[r].code # 0 /\ req'[r].code # 200
  BY DEF Fails
<1>3. ~Writes(r)'
  BY <1>2 DEF Writes
<1>4. /\ ~Revoked(r)' /\ ~Reached(r, {"delete_user"}, DeletingUser)'
      /\ ~Reached(r, {"delete_user"}, {<<>>})'
      /\ ~Reached(r, Adds, {<<"reload_pair">>, <<>>})'
      /\ ~Reached(r, Drops, {<<"drop_pairs">>, <<>>})'
  BY <1>2 DEF Reached, Revoked
<1>5. req[r].user \in Users
  BY <1>1 DEF Typed, Sent
<1>. QED
  BY <1>1, <1>2, <1>3, <1>4, <1>5 DEF Benign, Controlled, Aside, Fails

\* So is one that goes on quietly.
LEMMA QuietBenign ==
  ASSUME Typed, WorkInv, NEW r \in Requests, NEW step, At(r, step), step \notin {"token", "secret"},
         NEW todo, NEW row, Goes(r, todo, row), Quiet(req[r].kind, req[r].todo, todo),
         row = req[r].row \/ \E c \in clients : row = c.id
  PROVE  Benign(r)
<1> DEFINE k == req[r].kind
<1>1. /\ k \in DOMAIN Program /\ k # None /\ req[r].code = 0 /\ ~Waiting(r)
      /\ req[r].todo \in Todo(k)
  BY AtStep
<1>2. /\ req'[r].kind = k /\ req'[r].as = req[r].as /\ req'[r].todo = todo /\ req'[r].row = row
      /\ req'[r].code = 0
  BY <1>1 DEF Goes, Kept
<1>3. todo \in Todo(k) /\ req[r].todo \notin Reloads /\ todo \notin Reloads
  BY DEF Quiet
<1>4. ~Waiting(r)'
  BY <1>1, <1>2, <1>3, NotWaiting DEF Waiting
<1>5. Writes(r)' => Writes(r)
  BY <1>1, <1>2, <1>4 DEF Quiet, Writes
<1>6. ~Reloading(r) /\ ~Reloading(r)'
  BY <1>2, <1>3 DEF Reloading, Reloads
<1>7. ~Revoked(r)'
  BY <1>2 DEF Revoked, Reached, Quiet
<1>8. /\ Reached(r, {"delete_user"}, DeletingUser)' => Reached(r, {"delete_user"}, DeletingUser)
      /\ ~Reached(r, {"delete_user"}, {<<>>})'
  BY <1>1, <1>2 DEF Reached, Quiet
<1>9. /\ Reached(r, Adds, {<<"reload_pair">>, <<>>})' => Reached(r, Adds, {<<"reload_pair">>, <<>>})
      /\ ~Reached(r, Drops, {<<"drop_pairs">>, <<>>})'
  BY <1>1, <1>2 DEF Reached, Quiet
<1>10. req[r].user \in Users
  BY <1>1 DEF Typed, Sent
<1>. QED
  BY <1>1, <1>2, <1>3, <1>5, <1>6, <1>7, <1>8, <1>9, <1>10 DEF Benign, Controlled, Aside, Goes

\* Requests that were sent or over still are, after a step of one that is not over.
LEMMA SentKept ==
  ASSUME NEW r \in Requests, Kept(r), req[r].kind # None, req[r].code = 0
  PROVE  Sent' = Sent /\ Over \subseteq Over' /\ Over' \subseteq Over \cup {r}
<1>1. \A q \in Requests : req'[q].kind = req[q].kind
  BY DEF Kept
<1>2. \A q \in Requests \ {r} : req'[q].code = req[q].code
  BY DEF Kept
<1>. QED
  BY <1>1, <1>2 DEF Sent, Over

\* What is known of a request that r's step leaves alone.
LEMMA OthersKept ==
  ASSUME NEW r \in Requests, Kept(r), NEW q \in Requests, q # r
  PROVE  /\ req'[q] = req[q]
         /\ Waiting(q)' <=> Waiting(q)
         /\ Writes(q)' <=> Writes(q)
         /\ Reloading(q)' <=> Reloading(q)
         /\ Revoked(q)' <=> Revoked(q)
         /\ \A kinds, todos : Reached(q, kinds, todos)' <=> Reached(q, kinds, todos)
<1>1. req'[q] = req[q]
  BY DEF Kept
<1>. QED
  BY <1>1 DEF Waiting, Writes, Reloading, Revoked, Reached
------------------------------------------------------------------------------
(***************************************************************************)
(* What a benign step keeps.                                               *)
(***************************************************************************)
\* What the control of requests, and what they are told, depends on; but for
\* the associations.
Control ==
  WorkInv /\ UnusedInv /\ SecretInv /\ RevokedInv /\ TellInv /\ DeletedInv /\ FoundInv

\* A step that fails, looks something up or deletes (web/api/endpoint,
\* database/model.py).
LEMMA BenignControl ==
  ASSUME Typed, Control, NEW r \in Requests, Controlled(r),
         clients' \subseteq clients, spare' \subseteq spare, users' \subseteq users \cup spare
  PROVE  Control'
<1> USE DEF Control
<1>1. Kept(r) /\ req[r].kind # None /\ req[r].code = 0
  BY DEF Benign, Controlled, Aside
<1>2. Sent' = Sent /\ Over \subseteq Over' /\ Over' \subseteq Over \cup {r}
  BY <1>1, SentKept
<1>3. \A q \in Requests : /\ req'[q].kind = req[q].kind /\ req'[q].as = req[q].as
                          /\ req'[q].facility = req[q].facility /\ req'[q].before = req[q].before
                          /\ req'[q].got = req[q].got
                          /\ req'[q].found = req[q].found \/ q = r
                          /\ req'[q].user = req[q].user \/ (q = r /\ req[q].kind \in Others)
  BY DEF Benign, Controlled, Aside, Kept
<1>4. \A k \in Others : k \notin Drops /\ k # "delete_user" /\ k # "delete_facility"
  BY Sorts
<1>5. \A q \in Requests \ {r} : /\ req'[q] = req[q] /\ (Waiting(q)' <=> Waiting(q))
                                /\ (Writes(q)' <=> Writes(q)) /\ (Reloading(q)' <=> Reloading(q))
                                /\ (Revoked(q)' <=> Revoked(q))
  BY <1>1, OthersKept
<1>6. \A q \in Requests \ {r} : \A kinds, todos : Reached(q, kinds, todos)' <=> Reached(q, kinds, todos)
  BY <1>1, OthersKept
<1>7. WorkInv'
  <2>1. ASSUME NEW q \in Requests, q # r PROVE AtWork(q)'
    BY <1>2, <1>5, <2>1 DEF WorkInv, AtWork, Unsent
  <2>2. AtWork(r)'
    BY <1>1, <1>2, <1>3 DEF WorkInv, AtWork, Controlled
  <2>. QED
    BY <2>1, <2>2 DEF WorkInv
<1>8. UnusedInv'
  <2>1. \A q \in Requests : req'[q].kind = None \/ Writes(q)' => req[q].kind = None \/ Writes(q)
    BY <1>3, <1>5 DEF Benign, Controlled, Aside
  <2>2. ASSUME NEW q \in Requests, Unused(q) PROVE Unused(q)'
    <3>1. \A p \in Requests : req'[p].row # q
      BY <1>5, <2>2 DEF Unused, Controlled
    <3>. QED
      BY <1>3, <2>2, <3>1 DEF Unused
  <2>. QED
    BY <2>1, <2>2 DEF UnusedInv
<1>9. SecretInv'
  BY <1>3 DEF SecretInv
<1>10. RevokedInv'
  <2>1. ASSUME NEW q \in Requests, Revoked(q)' PROVE Revoked(q) /\ req'[q].row = req[q].row
    BY <1>5, <2>1 DEF Benign, Controlled, Aside
  <2>2. ASSUME NEW q \in Requests, Revoked(q)', NEW p \in Requests,
               q \in req'[p].before, req'[p].as # None, req'[p].as.id = req'[q].row
        PROVE  req'[p].code # 200 /\ (req'[p].code = 0 => Waiting(p)')
    <3>1. req[p].code # 200 /\ (req[p].code = 0 => Waiting(p))
      BY <1>3, <2>1, <2>2 DEF RevokedInv
    <3>2. CASE p # r
      BY <1>5, <3>1, <3>2
    <3>3. CASE p = r
      <4>1. ~Welcome(r)
        BY <1>3, <2>1, <2>2, <3>3 DEF Welcome
      <4>2. ~(req'[r].code \in {0, 200})
        BY <1>1, <3>1, <3>3, <4>1 DEF Benign, Controlled, Aside
      <4>. QED
        BY <3>3, <4>2
    <3>. QED
      BY <3>2, <3>3
  <2>. QED
    BY <2>1, <2>2 DEF RevokedInv
<1>11. TellInv'
  <2> SUFFICES ASSUME NEW c \in clients', NEW q \in Requests, c.secret = q,
                      req'[q].code \in {0, 200}, req'[q].kind # "get_token_for_user"
               PROVE  Tells(c, q)'
    BY DEF TellInv
  <2>1. CASE q # r
    <3>1. req'[q] = req[q] /\ (Reloading(q)' <=> Reloading(q))
      BY <1>5, <2>1
    <3>2. Tells(c, q)
      BY <1>3, <3>1 DEF TellInv
    <3>. QED
      BY <3>1, <3>2 DEF Tells
  <2>2. CASE q = r
    <3>1. ~Reloading(r) /\ ~Reloading(r)'
      BY <2>2 DEF Benign, Controlled, Aside
    <3>2. Tells(c, r)
      BY <1>1, <1>3, <2>2 DEF TellInv
    <3>. QED
      BY <1>3, <2>2, <3>1, <3>2 DEF Tells
  <2>. QED
    BY <2>1, <2>2
<1>12. DeletedInv'
  <2> SUFFICES ASSUME NEW q \in Requests
               PROVE  /\ Reached(q, {"delete_user"}, DeletingUser \cup {<<>>})' => Target(q)' \notin spare'
                      /\ Reached(q, {"delete_user"}, {<<>>})' => Target(q)' \notin users'
    BY DEF DeletedInv
  <2>1. Reached(q, {"delete_user"}, DeletingUser \cup {<<>>})' => Target(q)' = Target(q)
    BY <1>3, <1>4 DEF Target, Reached
  <2>2. Reached(q, {"delete_user"}, {<<>>})' => Reached(q, {"delete_user"}, DeletingUser \cup {<<>>})'
    BY DEF Reached
  <2>3. /\ Reached(q, {"delete_user"}, DeletingUser \cup {<<>>})' =>
             Reached(q, {"delete_user"}, DeletingUser \cup {<<>>}) \/ Target(q) \notin spare
        /\ Reached(q, {"delete_user"}, {<<>>})' =>
             Reached(q, {"delete_user"}, {<<>>}) \/ Target(q) \notin users'
    <3>1. CASE q # r
      BY <1>6, <3>1
    <3>2. CASE q = r
      <4>1. /\ Reached(r, {"delete_user"}, DeletingUser)' =>
                 Reached(r, {"delete_user"}, DeletingUser) \/ Target(r) \notin spare
            /\ Reached(r, {"delete_user"}, {<<>>})' =>
                 Reached(r, {"delete_user"}, DeletingUser \cup {<<>>})
                   /\ (Reached(r, {"delete_user"}, {<<>>}) \/ Target(r) \notin users')
        BY DEF Controlled
      <4>. QED
        BY <3>2, <4>1 DEF Reached
    <3>. QED
      BY <3>1, <3>2
  <2>4. Reached(q, {"delete_user"}, {<<>>}) => Reached(q, {"delete_user"}, DeletingUser \cup {<<>>})
    BY DEF Reached
  <2>. QED
    BY <2>1, <2>3, <2>4, <2>2 DEF DeletedInv
<1>13. FoundInv'
  <2> SUFFICES ASSUME NEW q \in Requests, NEW p \in req'[q].found
               PROVE  Seeks(q, p)'
    BY DEF FoundInv
  <2>1. Seeks(q, p)
    BY <1>3 DEF FoundInv, Controlled
  <2>2. req'[q].user = req[q].user
    BY <1>3, <1>4, <2>1 DEF Of, Seeks
  <2>. QED
    BY <1>3, <2>1, <2>2 DEF Seeks, Of, Target, Pair
<1>. QED
  BY <1>7, <1>8, <1>9, <1>10, <1>11, <1>12, <1>13

\* What happened to associations is known after a step that deletes those it
\* seeks, or makes the one it is about (database/model.py).
LEMMA PairsFollow ==
  ASSUME Typed, WorkInv, PairsInv, NEW r \in Requests, Kept(r),
         req[r].kind # None, req[r].code = 0,
         req'[r].user = req[r].user \/ req[r].kind \in Others,
         \A p \in pairs : p \in pairs' \/ Seeks(r, p),
         \A p \in pairs' : p \in pairs \/ (Of(r, Adds) /\ p = Pair(r)),
         Reached(r, Adds, {<<"reload_pair">>, <<>>})' =>
           Reached(r, Adds, {<<"reload_pair">>, <<>>}) \/ Pair(r) \in pairs',
         Reached(r, Drops, {<<"drop_pairs">>, <<>>})' /\ Pair(r) \in pairs' =>
           \/ Redone(r)
           \/ Reached(r, Drops, {<<"drop_pairs">>})' /\ Pair(r) \in req'[r].found
  PROVE  PairsInv'
<1>1. Kept(r) /\ req[r].kind # None /\ req[r].code = 0
  OBVIOUS
<1>2. Sent' = Sent /\ r \in Sent /\ r \notin Over
  BY <1>1, SentKept DEF Sent, Over
<1>3. \A q \in Requests : /\ req'[q].kind = req[q].kind /\ req'[q].facility = req[q].facility
                          /\ req'[q].before = req[q].before
                          /\ req'[q].user = req[q].user \/ req[q].kind \in Others
  BY DEF Kept
<1>4. \A k \in Others : k \notin Adds /\ k \notin Drops /\ k # "delete_user" /\ k # "delete_facility"
  BY Sorts
<1>5. \A q \in Requests : req[q].kind \in Adds \cup Drops =>
        Pair(q)' = Pair(q) /\ (Undone(q)' <=> Undone(q)) /\ (Redone(q)' <=> Redone(q))
  <2> SUFFICES ASSUME NEW q \in Requests, req[q].kind \in Adds \cup Drops
               PROVE  Pair(q)' = Pair(q) /\ (Undone(q)' <=> Undone(q)) /\ (Redone(q)' <=> Redone(q))
    OBVIOUS
  <2>1. req'[q].user = req[q].user
    BY <1>3, <1>4
  <2>2. Pair(q)' = Pair(q)
    BY <1>3, <2>1 DEF Pair, Target
  <2>3. ASSUME NEW p \in Sent, req[p].kind \in Adds \cup Drops \cup {"delete_user",
                                                                     "delete_facility"}
        PROVE  /\ SameUser(p, q)' <=> SameUser(p, q)
               /\ SameFacility(p, q)' <=> SameFacility(p, q)
    <3>1. p \in Requests
      BY DEF Sent
    <3>2. req'[p].user = req[p].user
      BY <1>3, <1>4, <2>3, <3>1
    <3>. QED
      BY <1>3, <2>1, <3>1, <3>2 DEF SameUser, SameFacility, Target
  <2>4. \A p \in Sent : \A kinds : Of(p, kinds)' <=> Of(p, kinds)
    BY <1>3 DEF Of, Sent
  <2>5. \A p \in Sent : Of(p, Adds) \/ Of(p, Drops) \/ Of(p, {"delete_user"}) \/ Of(p, {"delete_facility"})
          => req[p].kind \in Adds \cup Drops \cup {"delete_user", "delete_facility"}
    BY DEF Of
  <2>6. Undone(q)' <=> Undone(q)
    BY <1>2, <1>3, <2>3, <2>4, <2>5 DEF Undone
  <2>7. Redone(q)' <=> Redone(q)
    BY <1>2, <1>3, <2>3, <2>4, <2>5 DEF Redone
  <2>. QED
    BY <2>2, <2>6, <2>7
<1>6. \A q \in Requests : r \notin req[q].before
  BY <1>2 DEF WorkInv, AtWork
<1>7. ASSUME NEW q \in Requests, req[q].kind \in Adds, Pair(q) \in pairs, Pair(q) \notin pairs'
      PROVE  Undone(q)
  <2>1. Seeks(r, Pair(q))
    BY <1>7
  <2>2. Pair(q)[1] = Target(q) /\ Pair(q)[2] = req[q].facility
    BY DEF Pair
  <2>3. Pair(r)[1] = Target(r) /\ Pair(r)[2] = req[r].facility
    BY DEF Pair
  <2>. QED
    BY <1>2, <1>6, <2>1, <2>2, <2>3 DEF Seeks, Undone, SameUser, SameFacility
<1>8. ASSUME NEW q \in Requests, req[q].kind \in Drops, Pair(q) \in pairs', Pair(q) \notin pairs
      PROVE  Redone(q)
  <2>1. Of(r, Adds) /\ Pair(q) = Pair(r)
    BY <1>8
  <2>2. Target(r) = Target(q) /\ req[r].facility = req[q].facility
    BY <2>1 DEF Pair
  <2>. QED
    BY <1>2, <1>6, <2>1, <2>2 DEF Redone, SameUser, SameFacility
<1> SUFFICES ASSUME NEW q \in Requests
             PROVE  /\ Reached(q, Adds, {<<"reload_pair">>,
                                         <<>>})' => Pair(q)' \in pairs' \/ Undone(q)'
                    /\ Reached(q, Drops, {<<"drop_pairs">>, <<>>})' /\ Pair(q)' \in pairs' =>
                         \/ Redone(q)'
                         \/ Reached(q, Drops, {<<"drop_pairs">>})' /\ Pair(q)' \in req'[q].found
  BY DEF PairsInv
<1>9. ASSUME Reached(q, Adds, {<<"reload_pair">>, <<>>})' PROVE Pair(q)' \in pairs' \/ Undone(q)'
  <2>1. req[q].kind \in Adds
    BY <1>3, <1>9 DEF Reached
  <2>2. Reached(q, Adds, {<<"reload_pair">>, <<>>}) \/ Pair(q) \in pairs'
    <3>1. CASE q = r
      <4>1. Reached(r, Adds, {<<"reload_pair">>, <<>>})'
        BY <1>9, <3>1 DEF Reached
      <4>. QED
        BY <3>1, <4>1
    <3>2. CASE q # r
      BY <1>1, <1>9, <3>2, OthersKept
    <3>. QED
      BY <3>1, <3>2
  <2>3. Pair(q) \in pairs' \/ Undone(q)
    BY <1>7, <2>1, <2>2 DEF PairsInv
  <2>. QED
    BY <1>5, <2>1, <2>3
<1>10. ASSUME Reached(q, Drops, {<<"drop_pairs">>, <<>>})', Pair(q)' \in pairs'
       PROVE  \/ Redone(q)'
              \/ Reached(q, Drops, {<<"drop_pairs">>})' /\ Pair(q)' \in req'[q].found
  <2>1. req[q].kind \in Drops
    BY <1>3, <1>10 DEF Reached
  <2>2. Pair(q) \in pairs'
    BY <1>5, <1>10, <2>1
  <2>3. CASE q = r
    <3>1. Reached(r, Drops, {<<"drop_pairs">>, <<>>})'
      BY <1>10, <2>3 DEF Reached
    <3>2. Redone(q) \/ (Reached(r, Drops, {<<"drop_pairs">>})' /\ Pair(q) \in req'[q].found)
      BY <2>2, <2>3, <3>1
    <3>. QED
      BY <1>5, <2>1, <2>3, <3>2 DEF Reached
  <2>4. CASE q # r
    <3>1. /\ req'[q] = req[q] /\ Reached(q, Drops, {<<"drop_pairs">>, <<>>})
          /\ Reached(q, Drops, {<<"drop_pairs">>})' <=> Reached(q, Drops, {<<"drop_pairs">>})
      BY <1>1, <1>10, <2>4, OthersKept
    <3>2. Redone(q) \/ (Reached(q, Drops, {<<"drop_pairs">>}) /\ Pair(q) \in req[q].found)
      BY <1>8, <2>1, <2>2, <3>1 DEF PairsInv
    <3>. QED
      BY <1>5, <2>1, <3>1, <3>2
  <2>. QED
    BY <2>3, <2>4
<1>. QED
  BY <1>9, <1>10

\* Such a step that is controlled.
LEMMA PairsChange ==
  ASSUME Typed, WorkInv, PairsInv, NEW r \in Requests, Controlled(r),
         \A p \in pairs : p \in pairs' \/ Seeks(r, p),
         \A p \in pairs' : p \in pairs \/ (Of(r, Adds) /\ p = Pair(r)),
         Reached(r, Adds, {<<"reload_pair">>, <<>>})' =>
           Reached(r, Adds, {<<"reload_pair">>, <<>>}) \/ Pair(r) \in pairs',
         Reached(r, Drops, {<<"drop_pairs">>, <<>>})' /\ Pair(r) \in pairs' =>
           \/ Redone(r)
           \/ Reached(r, Drops, {<<"drop_pairs">>})' /\ Pair(r) \in req'[r].found
  PROVE  PairsInv'
BY PairsFollow DEF Controlled

\* So it is if nothing is associated or dissociated.
LEMMA BenignPairs ==
  ASSUME Typed, WorkInv, PairsInv, NEW r \in Requests, Benign(r), pairs' = pairs
  PROVE  PairsInv'
<1>1. Controlled(r)
  BY DEF Benign
<1>2. Reached(r, Adds, {<<"reload_pair">>, <<>>})' =>
        Reached(r, Adds, {<<"reload_pair">>, <<>>}) \/ Pair(r) \in pairs'
  BY DEF Benign, Aside
<1>3. Reached(r, Drops, {<<>>}) => /\ Reached(r, Drops, {<<"drop_pairs">>, <<>>})
                                   /\ ~Reached(r, Drops, {<<"drop_pairs">>})
  <2>1. <<"drop_pairs">> # <<>>
    OBVIOUS
  <2>. QED
    BY <2>1 DEF Reached
<1>4. Reached(r, Drops, {<<"drop_pairs">>, <<>>})' /\ Pair(r) \in pairs' => Redone(r)
  BY <1>3 DEF Benign, Aside, PairsInv
<1>. QED
  BY <1>1, <1>2, <1>4, PairsChange

------------------------------------------------------------------------------
(***************************************************************************)
(* The steps by name.                                                      *)
(***************************************************************************)
\* Which kinds of request take a step (web/api/endpoint, apps/refitt/auth.py).
LEMMA StepKinds ==
  ASSUME NEW k \in DOMAIN Program, NEW todo \in Todo(k), todo # <<>>
  PROVE  LET first == Head(todo) IN
    /\ first \in {"own_user", "associated", "add_user", "add_facility", "write_user",
                  "write_facility"} => k \in Others
    /\ first \in {"session", "old_session", "update_session",
                  "add_session"} => k \in Others \cup Makers
    /\ first \in {"new_key", "new_secret", "session_of_new", "write_key", "write_secret",
                  "reload_client", "add_client", "reload_user"} => k \in Makers
    /\ first \in {"associate", "add_pair", "reload_pair"} => k \in Adds
    /\ first = "pair_of_both" => k \in Drops
    /\ first = "drop_pairs" => k \in Drops \cup {"delete_user", "delete_facility"}
    /\ first \in {"client_to_drop", "session_to_drop", "drop_session", "drop_client",
                  "pairs_of_user", "drop_user"} => k = "delete_user"
    /\ first \in {"pairs_of_facility", "drop_facility"} => k = "delete_facility"
    /\ first \in {"client_to_revoke", "revoke"} => k = "revoke_credentials"
    /\ first \in {"user", "facility"} => k \notin {"revoke_credentials"}
<1>1. CASE k \in Others
  <2>1. Head(todo) \in Harmless
    BY <1>1, OthersNext
  <2>2. k # "revoke_credentials"
    BY <1>1, Sorts
  <2>. QED
    BY <1>1, <2>1, <2>2 DEF Harmless
<1>2. CASE k \in Makers
  <2>1. todo \in Making(k) \cup Made(k) /\ k # "revoke_credentials"
    BY <1>2, Sorts DEF Todo
  <2>2. Head(todo) \in {"user", "add_client", "reload_user", "new_key", "new_secret", "write_key",
                  "write_secret", "reload_client", "session", "session_of_new", "old_session",
                  "update_session", "add_session"}
    BY <1>2, <2>1, MakersNext
  <2>. QED
    BY <1>2, <2>1, <2>2
<1>3. CASE k \in Adds
  <2>1. Head(todo) \in {"user", "facility", "associate", "add_pair", "reload_pair"}
    BY <1>3, AddsNext
  <2>2. k # "revoke_credentials"
    BY <1>3, Sorts
  <2>. QED
    BY <1>3, <2>1, <2>2
<1>4. CASE k \in Drops
  <2>1. Head(todo) \in {"user", "facility", "pair_of_both", "drop_pairs"}
    BY <1>4, DropsNext
  <2>2. k # "revoke_credentials"
    BY <1>4, Sorts
  <2>. QED
    BY <1>4, <2>1, <2>2
<1>5. CASE k = "delete_user"
  <2>1. Head(todo) \in {"user", "client_to_drop", "session_to_drop", "drop_session", "drop_client",
                        "pairs_of_user", "drop_pairs", "drop_user"}
    BY <1>5, DeleteUserNext
  <2>. QED
    BY <1>5, <2>1
<1>6. CASE k = "delete_facility"
  <2>1. Head(todo) \in {"facility", "pairs_of_facility", "drop_pairs", "drop_facility"}
    BY <1>6, DeleteFacilityNext
  <2>. QED
    BY <1>6, <2>1
<1>7. CASE k = "revoke_credentials"
  <2>1. Head(todo) \in {"client_to_revoke", "revoke"}
    BY <1>7, RevokeNext
  <2>. QED
    BY <1>7, <2>1
<1>. QED
  BY <1>1, <1>2, <1>3, <1>4, <1>5, <1>6, <1>7, Sorts

\* Steps that may be passed quietly (web/api/endpoint, database/model.py).
LEMMA PassedQuietly ==
  ASSUME NEW k \in DOMAIN Program, NEW todo \in Todo(k), todo # <<>>,
         \/ Head(todo) \in {"facility", "own_user", "associated", "add_user", "add_facility",
                            "write_user", "write_facility", "reload_pair", "client_to_drop",
                            "session_to_drop", "drop_session", "drop_client", "pairs_of_user",
                            "pairs_of_facility", "drop_facility", "reload_user", "update_session",
                            "add_session", "client_to_revoke"}
         \/ Head(todo) = "user" /\ k # "delete_user"
         \/ Head(todo) = "drop_pairs" /\ k \notin Drops
  PROVE  Quiet(k, todo, Tail(todo))
<1>1. CASE k \in Others
  BY <1>1, OthersNext
<1>2. CASE k \in Makers
  <2>1. todo \in Making(k) \cup Made(k)
    BY <1>2, Sorts DEF Todo
  <2>2. Head(todo) \in {"user", "reload_user", "update_session", "add_session"}
    BY <1>2, <2>1, MakersNext
  <2>. QED
    BY <1>2, <2>2, MakersQuiet
<1>3. CASE k \in Adds
  BY <1>3, AddsNext
<1>4. CASE k \in Drops
  BY <1>4, DropsNext
<1>5. CASE k = "delete_user"
  BY <1>5, DeleteUserNext
<1>6. CASE k = "delete_facility"
  BY <1>6, DeleteFacilityNext
<1>7. CASE k = "revoke_credentials"
  BY <1>7, RevokeNext
<1>. QED
  BY <1>1, <1>2, <1>3, <1>4, <1>5, <1>6, <1>7, Sorts

\* Steps in whose place others come, quietly (database/model.py).
LEMMA ReplacedQuietly ==
  ASSUME NEW k \in DOMAIN Program, NEW todo \in Todo(k), todo # <<>>
  PROVE  LET first == Head(todo)
             rest == Tail(todo)
         IN
    /\ first = "add_user" => Quiet(k, todo, <<"user", "write_user">> \o rest)
    /\ first = "add_facility" => Quiet(k, todo, <<"facility", "write_facility">> \o rest)
    /\ first = "associate" => Quiet(k, todo, <<"add_pair", "reload_pair">> \o rest)
    /\ first = "client_to_drop" => Quiet(k, todo, <<"session_to_drop", "drop_client">> \o rest)
    /\ first = "session_to_drop" => Quiet(k, todo, <<"drop_session">> \o rest)
    /\ first = "new_key" => Quiet(k, todo, <<"write_key", "reload_client">> \o rest)
    /\ first = "new_secret" => Quiet(k, todo, <<"write_secret", "reload_client">> \o rest)
    /\ first \in {"new_key", "new_secret"} => Quiet(k, todo, NewClient \o rest)
    /\ first \in {"session", "session_of_new"} => Quiet(k, todo, <<"old_session">> \o rest)
    /\ first = "session" /\ k = "get_token_for_user" =>
         Quiet(k, todo, (NewClient \o <<"session_of_new">>) \o rest)
    /\ first = "old_session" =>
         Quiet(k, todo, <<"update_session">> \o rest) /\ Quiet(k, todo, <<"add_session">> \o rest)
<1>1. CASE k \in Others
  <2>1. /\ <<"user", "write_user">> \in Seq(Harmless) /\ <<"facility",
                                                           "write_facility">> \in Seq(Harmless)
        /\ <<"old_session">> \in Seq(Harmless) /\ <<"update_session">> \in Seq(Harmless)
        /\ <<"add_session">> \in Seq(Harmless)
    BY DEF Harmless
  <2>2. /\ Quiet(k, todo, <<"user", "write_user">> \o Tail(todo))
        /\ Quiet(k, todo, <<"facility", "write_facility">> \o Tail(todo))
        /\ Quiet(k, todo, <<"old_session">> \o Tail(todo))
        /\ Quiet(k, todo, <<"update_session">> \o Tail(todo))
        /\ Quiet(k, todo, <<"add_session">> \o Tail(todo))
    BY <1>1, <2>1, OthersNext
  <2>3. Head(todo) \in Harmless /\ k \notin Makers
    BY <1>1, OthersNext, Sorts
  <2>. QED
    BY <2>2, <2>3 DEF Harmless, Makers
<1>2. CASE k \in Makers
  <2>1. k \notin Others /\ k \notin Adds /\ k # "delete_user"
    BY <1>2, Sorts
  <2>2. Head(todo) \notin {"add_user", "add_facility", "associate", "client_to_drop",
                           "session_to_drop"}
    BY <1>2, <2>1, StepKinds
  <2>. QED
    BY <1>2, <2>2, MakersQuiet
<1>3. CASE k \in Adds
  <2>1. Head(todo) \in {"user", "facility", "associate", "add_pair", "reload_pair"}
    BY <1>3, AddsNext
  <2>. QED
    BY <1>3, <2>1, AddsNext
<1>4. CASE k \in Drops
  BY <1>4, DropsNext
<1>5. CASE k = "delete_user"
  <2>1. Head(todo) \in {"user", "client_to_drop", "session_to_drop", "drop_session", "drop_client",
                        "pairs_of_user", "drop_pairs", "drop_user"}
    BY <1>5, DeleteUserNext
  <2>. QED
    BY <1>5, <2>1, DeleteUserNext
<1>6. CASE k = "delete_facility"
  BY <1>6, DeleteFacilityNext
<1>7. CASE k = "revoke_credentials"
  BY <1>7, RevokeNext
<1>. QED
  BY <1>1, <1>2, <1>3, <1>4, <1>5, <1>6, <1>7, Sorts
------------------------------------------------------------------------------
(***************************************************************************)
(* Every step keeps the invariant.  First those that write no row.         *)
(***************************************************************************)
\* Requests have their type after a step of one of them.
LEMMA ReqTyped ==
  ASSUME Typed, NEW r \in Requests, Kept(r), req[r].kind # None, req'[r].user \in Users
  PROVE  /\ req' \in [Requests -> Request]
         /\ \A q \in Sent' : req'[q].user \in Users /\ req'[q].facility \in Facilities
<1>1. /\ req' \in [Requests -> Request] /\ \A q \in Requests \ {r} : req'[q] = req[q]
      /\ req'[r].facility = req[r].facility /\ req'[r].kind = req[r].kind
  BY DEF Kept
<1>. QED
  BY <1>1 DEF Typed, Sent

\* Looking up the database, or failing (web/api/endpoint).
LEMMA LooksUp ==
  ASSUME IInv, NEW r \in Requests, Benign(r), UNCHANGED tables
  PROVE  IInv'
<1> USE DEF IInv
<1>1. Control /\ PairsInv
  BY DEF Control
<1>2. /\ users' = users /\ facilities' = facilities /\ spare' = spare /\ pairs' = pairs
      /\ recommended' = recommended /\ clients' = clients /\ session' = session
  BY DEF tables
<1>3. Control' /\ PairsInv'
  BY <1>1, <1>2, BenignControl, BenignPairs DEF Benign
<1>4. Kept(r) /\ req[r].kind # None /\ req'[r].user \in Users
  BY DEF Benign, Controlled, Aside
<1>5. Typed'
  BY <1>2, <1>4, ReqTyped DEF Typed
<1>6. Integrity' /\ DistinctInv'
  BY <1>2 DEF Integrity, DistinctInv
<1>. QED
  BY <1>3, <1>5, <1>6 DEF Control

\* A step that is passed quietly, or at which the request fails.
LEMMA PassOrFail ==
  ASSUME IInv, NEW r \in Requests, NEW step, At(r, step), step \notin {"token", "secret"},
         Quiet(req[r].kind, req[r].todo, Tail(req[r].todo)),
         NEW error \in Answered \ {"OK"}, Proceed(r) \/ End(r, error)
  PROVE  Benign(r)
<1> USE DEF IInv
<1>1. CASE Proceed(r)
  <2>1. Goes(r, Tail(req[r].todo), req[r].row)
    BY <1>1, ProceedGoes
  <2>. QED
    BY <2>1, QuietBenign
<1>2. CASE End(r, error)
  <2>1. Fails(r) /\ r \in Busy
    BY <1>2, EndFails DEF At
  <2>. QED
    BY <2>1, FailsBenign
<1>. QED
  BY <1>1, <1>2

\* A step that others replace quietly.
LEMMA Replaced ==
  ASSUME IInv, NEW r \in Requests, NEW step, At(r, step), step \notin {"token", "secret"},
         NEW steps \in Seq(Steps), Quiet(req[r].kind, req[r].todo, steps \o Tail(req[r].todo)),
         \/ Then(r, steps)
         \/ \E c \in clients : Load(r, c.id, steps)
  PROVE  Benign(r)
<1> USE DEF IInv
<1>1. CASE Then(r, steps)
  <2>1. Goes(r, steps \o Tail(req[r].todo), req[r].row)
    BY <1>1, ThenGoes
  <2>. QED
    BY <2>1, QuietBenign
<1>2. CASE \E c \in clients : Load(r, c.id, steps)
  <2>1. PICK c \in clients : Load(r, c.id, steps)
    BY <1>2
  <2>2. c.id \in Ids
    BY DEF Typed, ClientRows
  <2>3. Goes(r, steps \o Tail(req[r].todo), c.id)
    BY <2>1, <2>2, LoadGoes
  <2>. QED
    BY <2>3, QuietBenign
<1>. QED
  BY <1>1, <1>2

\* What is known of r at a step that does not admit.
LEMMA AtWorkStep ==
  ASSUME IInv, NEW r \in Requests, NEW step, At(r, step), step \notin {"token", "secret"}
  PROVE  /\ req[r].kind \in DOMAIN Program /\ req[r].todo \in Todo(req[r].kind)
         /\ req[r].todo # <<>> /\ Head(req[r].todo) = step
         /\ req[r] \in Request /\ req[r].code = 0 /\ req[r].kind # None /\ r \in Busy
         /\ Target(r) \in Users /\ req[r].facility \in Facilities
         /\ Tail(req[r].todo) \in Seq(Steps)
BY AtStep DEF IInv, At

\* Records that the request is about are looked up (web/api/endpoint).
LEMMA LookupSteps ==
  ASSUME IInv, NEW r \in Requests,
         FindFacility(r) \/ OwnUser(r) \/ Associated(r) \/ Write(r) \/ ReloadPair(r) \/ ReloadUser(r)
  PROVE  IInv'
<1>1. UNCHANGED tables
  BY DEF FindFacility, OwnUser, Associated, Write, ReloadPair, ReloadUser
<1>2. PICK step \in {"facility", "own_user", "associated", "write_user", "write_facility",
                     "reload_pair", "reload_user"} : At(r, step)
  BY DEF FindFacility, OwnUser, Associated, Write, ReloadPair, ReloadUser
<1>3. \E error \in Answered \ {"OK"} : Proceed(r) \/ End(r, error)
  BY DEF FindFacility, OwnUser, Associated, Write, ReloadPair, ReloadUser, Answered
<1>4. Quiet(req[r].kind, req[r].todo, Tail(req[r].todo))
  BY <1>2, AtWorkStep, PassedQuietly
<1>5. Benign(r)
  BY <1>2, <1>3, <1>4, PassOrFail
<1>. QED
  BY <1>1, <1>5, LooksUp

\* The user is looked up; if it is to be deleted, its id was given
\* (web/api/endpoint/user.py).
LEMMA FindUserStep ==
  ASSUME IInv, NEW r \in Requests, FindUser(r)
  PROVE  IInv'
<1> USE DEF IInv
<1> DEFINE k == req[r].kind
<1>1. UNCHANGED tables /\ At(r, "user")
  BY DEF FindUser
<1>2. /\ k \in DOMAIN Program /\ req[r].todo \in Todo(k) /\ req[r].todo # <<>>
      /\ Head(req[r].todo) = "user" /\ req[r].code = 0 /\ k # None /\ r \in Busy
  BY <1>1, AtWorkStep
<1>3. CASE ~(Target(r) \in users /\ k = "delete_user")
  <2>1. CASE Target(r) \notin users
    <3>1. End(r, "NotFound") /\ "NotFound" \in Answered \ {"OK"}
      BY <2>1 DEF FindUser, Answered
    <3>2. Fails(r)
      BY <3>1, EndFails
    <3>. QED
      BY <1>1, <1>2, <3>2, FailsBenign, LooksUp
  <2>2. CASE Target(r) \in users
    <3>1. Proceed(r) /\ k # "delete_user"
      BY <1>3, <2>2 DEF FindUser
    <3>2. Quiet(k, req[r].todo, Tail(req[r].todo))
      BY <1>2, <3>1, PassedQuietly
    <3>3. Benign(r)
      BY <1>1, <3>1, <3>2, ProceedGoes, QuietBenign
    <3>. QED
      BY <1>1, <3>3, LooksUp
  <2>. QED
    BY <2>1, <2>2
<1>4. CASE Target(r) \in users /\ k = "delete_user"
  <2>1. Goes(r, Tail(req[r].todo), req[r].row)
    BY <1>1, <1>4, ProceedGoes DEF FindUser
  <2>2. Tail(req[r].todo) \in DeletingUser
    BY <1>2, <1>4, DeleteUserNext
  <2>3. Target(r) \notin spare
    BY <1>4 DEF Typed
  <2>4. /\ req'[r].kind = k /\ req'[r].todo \in DeletingUser /\ req'[r].code = 0
        /\ req'[r].as = req[r].as
    BY <1>2, <2>1, <2>2 DEF Goes, Kept
  <2>5. Todo(k) = DeletingUser \cup {LookingUp, <<>>} /\ k \notin Makers /\ k \notin Adds
        /\ k \notin Drops
    BY <1>4, Sorts DEF Todo
  <2>6. ~Waiting(r)
    BY <1>1, AtStep
  <2>7. \A t \in Reloads : t # <<>> /\ Head(t) = "reload_client"
    BY DEF Reloads
  <2>8. \A t \in DeletingUser : t # <<>> /\ Head(t) # "reload_client"
    BY DEF DeletingUser
  <2>9. ~Reloading(r) /\ ~Reloading(r)'
    BY <1>2, <2>4, <2>7, <2>8 DEF Reloading, Reloads
  <2>10. ~Writes(r)' /\ ~Revoked(r)'
    BY <1>4, <2>4, <2>5 DEF Writes, Revoked, Reached
  <2>11. /\ ~Reached(r, {"delete_user"}, {<<>>})'
         /\ ~Reached(r, Adds, {<<"reload_pair">>, <<>>})'
         /\ ~Reached(r, Drops, {<<"drop_pairs">>, <<>>})'
    BY <2>4, <2>5, <2>8 DEF Reached
  <2>12. req[r].user \in Users
    BY <1>2 DEF Typed, Sent
  <2>13. Benign(r)
    BY <1>2, <2>12, <2>1, <2>3, <2>4, <2>5, <2>6, <2>9, <2>10, <2>11 DEF Benign, Controlled,
       Aside, Goes
  <2>. QED
    BY <1>1, <2>13, LooksUp
<1>. QED
  BY <1>3, <1>4

\* Rows that are deleted or written next are looked up first (database/model.py).
LEMMA FindRows ==
  ASSUME IInv, NEW r \in Requests,
         \/ FindClientToDrop(r) \/ FindSessionToDrop(r) \/ FindSession(r) \/ FindRevoked(r)
  PROVE  IInv'
<1> DEFINE k == req[r].kind
<1> DEFINE todo == req[r].todo
<1>1. UNCHANGED tables
  BY DEF FindClientToDrop, FindSessionToDrop, FindSession, FindRevoked
<1>2. /\ <<"session_to_drop", "drop_client">> \in Seq(Steps) /\ <<"drop_session">> \in Seq(Steps)
      /\ <<"update_session">> \in Seq(Steps) /\ <<"add_session">> \in Seq(Steps) /\ <<>> \in Seq(Steps)
  BY DEF Steps, Harmless
<1>3. CASE FindClientToDrop(r)
  <2>1. At(r, "client_to_drop")
    BY <1>3 DEF FindClientToDrop
  <2>2. /\ Quiet(k, todo, Tail(todo))
        /\ Quiet(k, todo, <<"session_to_drop", "drop_client">> \o Tail(todo))
    BY <2>1, AtWorkStep, PassedQuietly, ReplacedQuietly
  <2>3. \/ Proceed(r)
        \/ \E c \in clients : Load(r, c.id, <<"session_to_drop", "drop_client">>)
    BY <1>3 DEF FindClientToDrop, ClientOf
  <2>4. "NotFound" \in Answered \ {"OK"}
    BY DEF Answered
  <2>. QED
    BY <1>1, <1>2, <2>1, <2>2, <2>3, <2>4, PassOrFail, Replaced, LooksUp
<1>4. CASE FindSessionToDrop(r)
  <2>1. At(r, "session_to_drop")
    BY <1>4 DEF FindSessionToDrop
  <2>2. Quiet(k, todo, Tail(todo)) /\ Quiet(k, todo, <<"drop_session">> \o Tail(todo))
    BY <2>1, AtWorkStep, PassedQuietly, ReplacedQuietly
  <2>3. Proceed(r) \/ Then(r, <<"drop_session">>)
    BY <1>4 DEF FindSessionToDrop, Proceed
  <2>4. "NotFound" \in Answered \ {"OK"}
    BY DEF Answered
  <2>. QED
    BY <1>1, <1>2, <2>1, <2>2, <2>3, <2>4, PassOrFail, Replaced, LooksUp
<1>5. CASE FindSession(r)
  <2>1. At(r, "old_session")
    BY <1>5 DEF FindSession
  <2>2. /\ Quiet(k, todo, <<"update_session">> \o Tail(todo))
        /\ Quiet(k, todo, <<"add_session">> \o Tail(todo))
    BY <2>1, AtWorkStep, ReplacedQuietly
  <2>3. Then(r, <<"update_session">>) \/ Then(r, <<"add_session">>)
    BY <1>5 DEF FindSession
  <2>. QED
    BY <1>1, <1>2, <2>1, <2>2, <2>3, Replaced, LooksUp
<1>6. CASE FindRevoked(r)
  <2>1. At(r, "client_to_revoke")
    BY <1>6 DEF FindRevoked
  <2>2. Quiet(k, todo, Tail(todo)) /\ Tail(todo) \in Seq(Steps)
    BY <2>1, AtWorkStep, PassedQuietly
  <2>3. <<>> \o Tail(todo) = Tail(todo)
    BY <2>2, ConcatEmptySeq
  <2>4. CASE End(r, "NotFound")
    <3>1. "NotFound" \in Answered \ {"OK"}
      BY DEF Answered
    <3>. QED
      BY <1>1, <2>1, <2>2, <2>4, <3>1, PassOrFail, LooksUp
  <2>5. CASE \E c \in clients : Load(r, c.id, <<>>)
    <3>1. Benign(r)
      BY <1>2, <2>1, <2>2, <2>3, <2>5, Replaced
    <3>. QED
      BY <1>1, <3>1, LooksUp
  <2>. QED
    BY <1>6, <2>4, <2>5 DEF FindRevoked, ClientOf
<1>. QED
  BY <1>3, <1>4, <1>5, <1>6

\* Client.from_user, and what comes next (database/model.py).
LEMMA FindClientStep ==
  ASSUME IInv, NEW r \in Requests, FindClient(r)
  PROVE  IInv'
<1> DEFINE k == req[r].kind
<1> DEFINE todo == req[r].todo
<1> DEFINE Outcome(then, otherwise) ==
      \/ \E c \in clients : Load(r, c.id, then)
      \/ Creates(r, Head(todo)) /\ Then(r, otherwise)
      \/ End(r, "NotFound")
<1>1. ASSUME NEW then, NEW otherwise, Found(r, then, otherwise)
      PROVE  UNCHANGED tables /\ Outcome(then, otherwise)
  BY <1>1 DEF Found, ClientOf
<1>2. "NotFound" \in Answered \ {"OK"}
  BY DEF Answered
<1>3. ASSUME NEW step, At(r, step), step \notin {"token", "secret"},
             NEW then \in Seq(Steps), NEW otherwise \in Seq(Steps), Found(r, then, otherwise),
             Quiet(k, todo, then \o Tail(todo)),
             Creates(r, step) => Quiet(k, todo, otherwise \o Tail(todo))
      PROVE  IInv'
  <2>1. UNCHANGED tables /\ Head(todo) = step /\ r \in Busy
    BY <1>1, <1>3, AtWorkStep
  <2>2. CASE \E c \in clients : Load(r, c.id, then)
    BY <1>3, <2>1, <2>2, Replaced, LooksUp
  <2>3. CASE Creates(r, step) /\ Then(r, otherwise)
    BY <1>3, <2>1, <2>3, Replaced, LooksUp
  <2>4. CASE End(r, "NotFound")
    BY <1>2, <2>1, <2>4, EndFails, FailsBenign, LooksUp DEF IInv
  <2>. QED
    BY <1>1, <1>3, <2>1, <2>2, <2>3, <2>4
<1> HIDE DEF Outcome
<1>4. /\ <<"write_key", "reload_client">> \in Seq(Steps)
      /\ <<"write_secret", "reload_client">> \in Seq(Steps) /\ <<"old_session">> \in Seq(Steps)
      /\ NewClient \in Seq(Steps) /\ NewClient \o <<"session_of_new">> \in Seq(Steps)
  <2>1. <<"user", "add_client", "reload_user", "session_of_new">> \in Seq(Steps)
        /\ <<"session_of_new">> \in Seq(Steps)
    BY DEF Steps, Harmless
  <2>2. /\ <<"write_key", "reload_client">> \in Seq(Steps)
        /\ <<"write_secret", "reload_client">> \in Seq(Steps) /\ <<"old_session">> \in Seq(Steps)
        /\ NewClient \in Seq(Steps)
    BY DEF Steps, Harmless, NewClient
  <2>. QED
    BY <2>1, <2>2, ConcatProperties
<1>5. CASE At(r, "new_key") /\ Found(r, <<"write_key", "reload_client">>, NewClient)
  <2>1. /\ Quiet(k, todo, <<"write_key", "reload_client">> \o Tail(todo))
        /\ Quiet(k, todo, NewClient \o Tail(todo))
    BY <1>5, AtWorkStep, ReplacedQuietly
  <2>. QED
    BY <1>3, <1>4, <1>5, <2>1
<1>6. CASE At(r, "new_secret") /\ Found(r, <<"write_secret", "reload_client">>, NewClient)
  <2>1. /\ Quiet(k, todo, <<"write_secret", "reload_client">> \o Tail(todo))
        /\ Quiet(k, todo, NewClient \o Tail(todo))
    BY <1>6, AtWorkStep, ReplacedQuietly
  <2>. QED
    BY <1>3, <1>4, <1>6, <2>1
<1>7. ASSUME NEW step \in {"session", "session_of_new"}, At(r, step)
      PROVE  /\ Quiet(k, todo, <<"old_session">> \o Tail(todo))
             /\ Creates(r, step) => Quiet(k, todo, (NewClient \o <<"session_of_new">>) \o Tail(todo))
  <2>1. /\ k \in DOMAIN Program /\ todo \in Todo(k) /\ todo # <<>> /\ Head(todo) = step
    BY <1>7, AtWorkStep
  <2>2. Quiet(k, todo, <<"old_session">> \o Tail(todo))
    BY <2>1, ReplacedQuietly
  <2>3. k \in Others \cup Makers
    BY <2>1, StepKinds
  <2>4. CASE k \in Others
    <3>1. ~Creates(r, step)
      BY <2>4 DEF Creates, Others
    <3>. QED
      BY <2>2, <3>1
  <2>5. CASE k \in Makers
    <3>1. todo \in Making(k) \cup Made(k)
      BY <2>1, <2>5, Sorts DEF Todo
    <3>2. /\ step = "session" => k \notin {"get_client", "get_client_secret"}
          /\ step = "session_of_new" => k = "get_token_for_user"
      BY <2>1, <2>5, <3>1, MakersNext
    <3>3. Creates(r, step) => step = "session" /\ k = "get_token_for_user"
      BY <3>2 DEF Creates
    <3>. QED
      BY <2>1, <2>2, <3>3, ReplacedQuietly
  <2>. QED
    BY <2>3, <2>4, <2>5
<1>8. CASE /\ At(r, "session") \/ At(r, "session_of_new")
           /\ Found(r, <<"old_session">>, NewClient \o <<"session_of_new">>)
  <2>1. PICK step \in {"session", "session_of_new"} : At(r, step)
    BY <1>8
  <2>2. step \notin {"token", "secret"}
    OBVIOUS
  <2>. QED
    BY <1>3, <1>4, <1>7, <1>8, <2>1, <2>2
<1>. QED
  BY <1>5, <1>6, <1>8 DEF FindClient

\* A request that is refused what it asks changes no table (database/model.py).
LEMMA RefusedStep ==
  ASSUME IInv, NEW r \in Requests, Refused(r)
  PROVE  IInv'
<1>1. Benign(r) /\ UNCHANGED tables
  BY RefusedFails, FailsBenign DEF IInv
<1>. QED
  BY <1>1, LooksUp

\* An answer is of its type (web/api/response.py).
LEMMA Recoded ==
  ASSUME NEW run \in Request, NEW code \in {0} \cup Codes
  PROVE  [run EXCEPT !.code = code] \in Request
BY DEF Request

\* A request that has nothing left to do is answered (web/api/response.py).
LEMMA AnswerStep ==
  ASSUME IInv, NEW r \in Requests, Answer(r)
  PROVE  IInv'
<1> USE DEF IInv
<1>1. /\ r \in Busy /\ req[r].kind # None /\ req[r].code = 0 /\ req[r].todo = <<>>
      /\ UNCHANGED tables
  BY DEF Answer, Busy, Over, Sent
<1> DEFINE code == Code["OK"]
<1>2. /\ req \in [Requests -> Request] /\ req[r] \in Request
      /\ req' = [req EXCEPT ![r] = [req[r] EXCEPT !.code = code]]
  BY DEF Answer, Typed
<1>3. code \in {0} \cup Codes
  BY CodesApart
<1>4. code = 200
  BY CodesApart
<1> HIDE DEF code
<1>5. [req[r] EXCEPT !.code = code] \in Request
  <2>1. req[r] \in Request
    BY <1>2
  <2>. QED
    BY <1>3, <2>1, Recoded
<1>6. req' \in [Requests -> Request] /\ req'[r] = [req[r] EXCEPT !.code = code]
  BY <1>2, <1>5
<1>7. /\ Kept(r) /\ req'[r].code = 200 /\ req'[r].todo = <<>> /\ req'[r].row = req[r].row
      /\ req'[r].user = req[r].user /\ req'[r].found = req[r].found /\ req'[r].got = req[r].got
  <2>1. \A q \in Requests \ {r} : req'[q] = req[q]
    BY <1>2
  <2>2. /\ req'[r].kind = req[r].kind /\ req'[r].as = req[r].as /\ req'[r].user = req[r].user
        /\ req'[r].facility = req[r].facility /\ req'[r].todo = req[r].todo
        /\ req'[r].row = req[r].row /\ req'[r].found = req[r].found /\ req'[r].got = req[r].got
        /\ req'[r].before = req[r].before /\ req'[r].code = code
    BY <1>2, <1>6 DEF Request
  <2>. QED
    BY <1>1, <1>6, <1>4, <2>1, <2>2 DEF Kept
<1>8. req[r].kind \in DOMAIN Program
  BY <1>1, <1>2, KindsAssumption DEF Request
<1>9. ~Waiting(r)
  BY <1>1, <1>8, EndpointPrograms DEF Waiting
<1>10. ~Reloading(r) /\ ~Reloading(r)' /\ ~Writes(r)'
  BY <1>1, <1>7 DEF Reloading, Writes
<1>11. /\ Revoked(r)' => Revoked(r)
       /\ Reached(r, {"delete_user"}, DeletingUser)' => Reached(r, {"delete_user"}, DeletingUser)
       /\ Reached(r, {"delete_user"}, {<<>>})' => Reached(r, {"delete_user"}, {<<>>})
       /\ Reached(r, Adds, {<<"reload_pair">>, <<>>})' => Reached(r, Adds, {<<"reload_pair">>,
                                                                            <<>>})
       /\ Reached(r, Drops, {<<"drop_pairs">>, <<>>})' =>
            Reached(r, Drops, {<<>>}) /\ Reached(r, Drops, {<<>>})'
  BY <1>1, <1>7 DEF Kept, Revoked, Reached
<1>12. req[r].user \in Users
  BY <1>1 DEF Typed, Sent
<1>13. Reached(r, {"delete_user"}, {<<>>}) => Reached(r, {"delete_user"}, DeletingUser \cup {<<>>})
  BY DEF Reached
<1>14. Benign(r)
  BY <1>1, <1>7, <1>9, <1>10, <1>11, <1>12, <1>13 DEF Benign, Controlled, Aside
<1>. QED
  BY <1>1, <1>14, LooksUp

\* A client that has its token or its credentials, and is valid, is let in
\* (web/api/auth.py).
LEMMA AdmitStep ==
  ASSUME IInv, NEW r \in Requests, NEW step \in {"token", "secret"}, At(r, step),
         NEW user \in Users, user = Target(r) \/ req[r].kind \in Others,
         req' = [req EXCEPT ![r].todo = Tail(@), ![r].user = user],
         \E c \in clients : c.id = req[r].as.id /\ c.valid,
         UNCHANGED tables
  PROVE  IInv'
<1> USE DEF IInv
<1> DEFINE k == req[r].kind
<1> DEFINE todo == Tail(req[r].todo)
<1>1. /\ req[r] \in Request /\ k \in DOMAIN Program /\ k # None /\ req[r].code = 0 /\ Waiting(r)
      /\ req[r].todo # <<>> /\ Head(req[r].todo) = step /\ todo \in Seq(Steps)
  BY AtStep
<1>2. /\ req \in [Requests -> Request]
      /\ req' = [req EXCEPT ![r] = [req[r] EXCEPT !.todo = todo, !.user = user]]
  BY DEF Typed
<1>3. todo \in First(k) /\ k \notin CommandLine /\ req[r].as # None
  BY <1>1, EndpointPrograms DEF Waiting
<1> HIDE DEF todo
<1>4. [req[r] EXCEPT !.todo = todo, !.user = user] \in Request
  <2>1. user \in Users \cup {None}
    OBVIOUS
  <2>. QED
    BY <1>1, <2>1, Zenon DEF Request
<1>5. req' \in [Requests -> Request] /\ req'[r] = [req[r] EXCEPT !.todo = todo, !.user = user]
  BY <1>2, <1>4
<1>6. \A q \in Requests \ {r} : req'[q] = req[q]
  BY <1>2
<1>7. /\ req'[r].kind = k /\ req'[r].as = req[r].as /\ req'[r].user = user
      /\ req'[r].facility = req[r].facility /\ req'[r].todo = todo
      /\ req'[r].row = req[r].row /\ req'[r].found = req[r].found /\ req'[r].got = req[r].got
      /\ req'[r].code = 0 /\ req'[r].before = req[r].before
  BY <1>1, <1>5 DEF Request
<1>8. /\ todo \in Todo(k) /\ todo \notin Reloads
      /\ k \in Makers => todo \in Making(k)
      /\ k = "revoke_credentials" => todo # <<>>
      /\ k = "delete_user" => todo \notin DeletingUser \cup {<<>>}
      /\ k \in Adds => todo \notin {<<"reload_pair">>, <<>>}
      /\ k \in Drops => todo \notin {<<"drop_pairs">>, <<>>}
  BY <1>1, <1>3, FirstTodo
<1>9. Welcome(r)
  <2>1. PICK c \in clients : c.id = req[r].as.id /\ c.valid
    OBVIOUS
  <2>2. \A q \in Requests : Revoked(q) => c.id # req[q].row
    BY <2>1 DEF RevokedInv
  <2>. QED
    BY <2>1, <2>2 DEF Welcome
<1>10. ~Reloading(r) /\ ~Reloading(r)'
  <2>1. \A t \in Reloads : t # <<>> /\ Head(t) = "reload_client"
    BY DEF Reloads
  <2>2. req[r].todo \notin Reloads
    BY <1>1, <2>1
  <2>. QED
    BY <1>7, <1>8, <2>2 DEF Reloading, Reloads
<1>11. Writes(r)' => Writes(r)
  BY <1>1, <1>7 DEF Writes
<1>12. ~Revoked(r)'
  BY <1>7, <1>8 DEF Revoked, Reached
<1>13. /\ ~Reached(r, {"delete_user"}, DeletingUser)' /\ ~Reached(r, {"delete_user"}, {<<>>})'
       /\ ~Reached(r, Adds, {<<"reload_pair">>, <<>>})'
       /\ ~Reached(r, Drops, {<<"drop_pairs">>, <<>>})'
  BY <1>7, <1>8 DEF Reached
<1>14. Kept(r)
  BY <1>5, <1>6, <1>7 DEF Kept
<1>15. Benign(r)
  BY <1>1, <1>7, <1>8, <1>9, <1>10, <1>11, <1>12, <1>13, <1>14 DEF Benign, Controlled, Aside, Target
<1>. QED
  BY <1>15, LooksUp

\* A request is let in, or is not (web/api/auth.py).
LEMMA AuthenticateSteps ==
  ASSUME IInv, NEW r \in Requests, Authenticated(r) \/ Authenticate(r)
  PROVE  IInv'
<1> USE DEF IInv
<1> DEFINE k == req[r].kind
<1>1. UNCHANGED tables
  BY DEF Authenticated, Authenticate
<1>2. PICK step \in {"token", "secret"} : At(r, step)
  BY DEF Authenticated, Authenticate
<1>3. /\ r \in Busy /\ Waiting(r) /\ Head(req[r].todo) = step /\ k \in DOMAIN Program
      /\ Target(r) \in Users /\ req[r].as # None
  BY <1>2, AtStep DEF At, Waiting
<1>4. ASSUME NEW error \in Answered \ {"OK"}, End(r, error) PROVE IInv'
  BY <1>1, <1>3, <1>4, EndFails, FailsBenign, LooksUp
<1>5. {"Forbidden", "Unauthorized", "NotFound", "BadRequest"} \subseteq Answered \ {"OK"}
  BY DEF Answered
<1>6. \A c \in clients : c.user \in Users
  BY DEF Typed, ClientRows
<1>7. CASE Authenticated(r)
  <2>1. \/ \E error \in Answered \ {"OK"} : End(r, error)
        \/ \E admitted \in WithId(req[r].as.id) :
             /\ admitted.valid
             /\ req' = [req EXCEPT ![r].todo = Tail(@),
                                   ![r].user = IF k = "get_profile" THEN admitted.user ELSE Target(r)]
    BY <1>5, <1>7 DEF Authenticated
  <2>2. ASSUME NEW admitted \in WithId(req[r].as.id), admitted.valid,
               req' = [req EXCEPT ![r].todo = Tail(@),
                                  ![r].user = IF k = "get_profile" THEN admitted.user ELSE Target(r)]
        PROVE  IInv'
    <3> DEFINE user == IF k = "get_profile" THEN admitted.user ELSE Target(r)
    <3>1. admitted \in clients /\ admitted.id = req[r].as.id
      BY DEF WithId
    <3>2. user \in Users /\ (user = Target(r) \/ k \in Others)
      BY <1>3, <1>6, <3>1 DEF Others
    <3>3. req' = [req EXCEPT ![r].todo = Tail(@), ![r].user = user]
      BY <2>2
    <3> HIDE DEF user
    <3>. QED
      BY <1>1, <1>2, <2>2, <3>1, <3>2, <3>3, AdmitStep
  <2>. QED
    BY <1>4, <2>1, <2>2
<1>8. CASE Authenticate(r)
  <2>1. \/ \E error \in Answered \ {"OK"} : End(r, error)
        \/ \E c \in clients : /\ c.secret = req[r].as.secret /\ c.valid
                             /\ req' = [req EXCEPT ![r].todo = Tail(@), ![r].user = c.user]
    BY <1>5, <1>8 DEF Authenticate
  <2>2. ASSUME NEW c \in clients, c.secret = req[r].as.secret, c.valid,
               req' = [req EXCEPT ![r].todo = Tail(@), ![r].user = c.user]
        PROVE  IInv'
    <3>1. c.id = req[r].as.id
      BY <1>3, <2>2 DEF SecretInv
    <3>2. At(r, "secret") /\ Head(req[r].todo) = "secret"
      BY <1>8 DEF Authenticate, At
    <3>3. k \in Others
      <4>1. k \notin CommandLine /\ req[r].todo = Program[k].steps
        BY <1>3 DEF Waiting
      <4>. QED
        BY <1>3, <3>2, <4>1, WritingPrograms
    <3>4. c.user \in Users
      BY <1>6
    <3>. QED
      BY <1>1, <2>2, <3>1, <3>2, <3>3, <3>4, AdmitStep
  <2>. QED
    BY <1>4, <2>1, <2>2
<1>. QED
  BY <1>7, <1>8

\* What a request comes in with (web/api/auth.py).
LEMMA Received ==
  ASSUME IInv, NEW r \in Requests, Receive(r)
  PROVE  LET k == req'[r].kind
             as == req'[r].as
         IN
         /\ users' = users /\ facilities' = facilities /\ spare' = spare /\ pairs' = pairs
         /\ recommended' = recommended /\ clients' = clients /\ session' = session
         /\ req[r].kind = None
         /\ req' \in [Requests -> Request] /\ \A q \in Requests \ {r} : req'[q] = req[q]
         /\ k \in DOMAIN Program /\ k # None
         /\ req'[r].user \in Users /\ req'[r].facility \in Facilities
         /\ req'[r].todo = Program[k].steps /\ Program[k].steps # <<>>
         /\ req'[r].row = None /\ req'[r].found = {} /\ req'[r].got = None
         /\ req'[r].code = 0 /\ req'[r].before = Over
         /\ as = None => k \in CommandLine
         /\ as # None => /\ k \notin CommandLine
                         /\ \/ as = Former
                            \/ \E c \in clients : as.id = c.id /\ as.key = c.key
                                                  /\ as.secret = c.secret
<1> USE DEF IInv
<1>1. /\ users' = users /\ facilities' = facilities /\ spare' = spare /\ pairs' = pairs
      /\ recommended' = recommended /\ clients' = clients /\ session' = session
  BY DEF Receive, tables
<1>2. req[r].kind = None /\ req[r] = Unsent
  BY DEF Receive, Sent, WorkInv, AtWork
<1>3. PICK k \in Kinds, u \in Targets, f \in Facilities :
        \E as \in IF k \in CommandLine THEN {None} ELSE {Identity(c) : c \in clients} \cup {Former} :
          req' = [req EXCEPT ![r] =
            [Unsent EXCEPT !.kind = k, !.as = as, !.user = u, !.facility = f,
                           !.todo = Program[k].steps, !.before = Over]]
  BY DEF Receive
<1>4. PICK as \in IF k \in CommandLine THEN {None} ELSE {Identity(c) : c \in clients} \cup {Former} :
        req' = [req EXCEPT ![r] =
          [Unsent EXCEPT !.kind = k, !.as = as, !.user = u, !.facility = f,
                         !.todo = Program[k].steps, !.before = Over]]
  BY <1>3
<1> DEFINE steps == Program[k].steps
<1> DEFINE now == [Unsent EXCEPT !.kind = k, !.as = as, !.user = u, !.facility = f,
                                 !.todo = steps, !.before = Over]
<1>5. k \in DOMAIN Program /\ k # None /\ u \in Users
  BY KindsAssumption, AccountsAssumption
<1>6. steps \in Seq(Steps) /\ steps # <<>>
  BY <1>5, EndpointPrograms, CommandLinePrograms
<1>7. req' = [req EXCEPT ![r] = now]
  BY <1>4
<1>8. \/ as = None /\ k \in CommandLine
      \/ k \notin CommandLine /\ (as = Former \/ \E c \in clients : as = Identity(c))
  BY <1>4
<1>9. \A c \in clients : /\ c.id \in Ids /\ c.key \in Ids /\ c.secret \in Ids
                       /\ Identity(c) \in [id : Ids, key : Ids, secret : Ids] /\ Identity(c) # None
  BY AccountsAssumption DEF Typed, ClientRows, Identity, Ids
<1>10. as \in [id : Ids, key : Ids, secret : Ids] \cup {None, Former}
  BY <1>8, <1>9
<1>11. /\ as = None => k \in CommandLine
       /\ as # None => k \notin CommandLine /\ (as = Former \/ \E c \in clients : as = Identity(c))
  <2>1. Former # None
    BY AccountsAssumption DEF Former
  <2>. QED
    BY <1>8, <1>9, <2>1
<1> HIDE DEF steps
<1>12. now \in Request
  <2>1. Over \in SUBSET Requests /\ u \in Users \cup {None}
        /\ f \in Facilities \cup {None} /\ k \in Kinds \cup {None}
    BY <1>5 DEF Over, Sent
  <2>2. Unsent \in Request
    BY <1>2 DEF Typed
  <2>. QED
    BY <1>6, <1>10, <2>1, <2>2, ZenonT(90) DEF Request
<1>13. req' \in [Requests -> Request] /\ req'[r] = now /\ \A q \in Requests \ {r} : req'[q] = req[q]
  <2> HIDE DEF now
  <2>. QED
    BY <1>7, <1>12 DEF Typed
<1>14. /\ req'[r].kind = k /\ req'[r].as = as /\ req'[r].user = u /\ req'[r].facility = f
       /\ req'[r].todo = steps /\ req'[r].row = None /\ req'[r].found = {} /\ req'[r].got = None
       /\ req'[r].code = 0 /\ req'[r].before = Over
  BY <1>13 DEF Unsent
<1> HIDE DEF now
<1>15. as # None => \/ as = Former
                   \/ \E c \in clients : as.id = c.id /\ as.key = c.key /\ as.secret = c.secret
  <2>1. \A c \in clients : /\ Identity(c).id = c.id /\ Identity(c).key = c.key
                         /\ Identity(c).secret = c.secret
    BY DEF Identity
  <2>. QED
    BY <1>11, <2>1
<1>16. steps = Program[k].steps
  BY DEF steps
<1>. QED
  BY <1>1, <1>2, <1>5, <1>6, <1>11, <1>13, <1>14, <1>15, <1>16

\* A request comes in with what was given out for a client (web/api/endpoint).
LEMMA ReceiveStep ==
  ASSUME IInv, NEW r \in Requests, Receive(r)
  PROVE  IInv'
<1>1. PICK k, as, steps : k = req'[r].kind /\ as = req'[r].as /\ steps = Program[k].steps
  OBVIOUS
<1>2. /\ users' = users /\ facilities' = facilities /\ spare' = spare /\ pairs' = pairs
      /\ recommended' = recommended /\ clients' = clients /\ session' = session
  BY Received
<1>3. req[r].kind = None
  BY Received
<1>4. k \in DOMAIN Program /\ k # None
  BY <1>1, Received
<1>5. steps # <<>> /\ steps = Program[k].steps
  BY <1>1, Received
<1>6. /\ as = None => k \in CommandLine
      /\ as # None => /\ k \notin CommandLine
                      /\ \/ as.id = None /\ as.key = None /\ as.secret = None
                         \/ \E c \in clients : as.id = c.id /\ as.key = c.key
                                               /\ as.secret = c.secret
  BY <1>1, Received DEF Former
<1>7. req' \in [Requests -> Request] /\ \A q \in Requests \ {r} : req'[q] = req[q]
  BY Received
<1>8. /\ req'[r].kind = k /\ req'[r].as = as /\ req'[r].todo = steps
      /\ req'[r].row = None /\ req'[r].found = {} /\ req'[r].got = None
      /\ req'[r].code = 0 /\ req'[r].before = Over
  BY <1>1, Received
<1>9. req'[r].user \in Users /\ req'[r].facility \in Facilities
  BY Received
<1> USE DEF IInv
<1>10. Sent' = Sent \cup {r} /\ r \notin Sent /\ Over' = Over /\ r \notin Over
  BY <1>3, <1>4, <1>7, <1>8 DEF Sent, Over
<1>11. Typed'
  BY <1>2, <1>7, <1>10, <1>9 DEF Typed, Sent
<1>12. Integrity' /\ DistinctInv'
  BY <1>2 DEF Integrity, DistinctInv
<1>13. Waiting(r)' \/ steps \in First(k)
  <2>1. CASE as = None
    BY <1>5, <1>6, <2>1, CommandLinePrograms
  <2>2. CASE as # None
    BY <1>5, <1>6, <1>8, <2>2 DEF Waiting
  <2>. QED
    BY <2>1, <2>2
<1>14. as # None => Waiting(r)'
  BY <1>5, <1>6, <1>8 DEF Waiting
<1>15. \A q \in Requests \ {r} :
         /\ (Waiting(q)' <=> Waiting(q)) /\ (Writes(q)' <=> Writes(q))
         /\ (Reloading(q)' <=> Reloading(q)) /\ (Revoked(q)' <=> Revoked(q))
  BY <1>7 DEF Waiting, Writes, Reloading, Revoked, Reached
<1>16. \A q \in Requests \ {r} : \A kinds, todos : Reached(q, kinds, todos)' <=> Reached(q, kinds, todos)
  BY <1>7 DEF Reached
<1>17. \A q \in Requests \ {r} : req'[q] = req[q]
  BY <1>7
<1>18. /\ ~Revoked(r)'
       /\ ~Reached(r, {"delete_user"}, DeletingUser \cup {<<>>})'
       /\ ~Reached(r, Adds, {<<"reload_pair">>, <<>>})'
       /\ ~Reached(r, Drops, {<<"drop_pairs">>, <<>>})'
  <2>1. CASE steps \in First(k)
    <3>1. /\ k = "revoke_credentials" => steps # <<>>
          /\ k = "delete_user" => steps \notin DeletingUser \cup {<<>>}
          /\ k \in Adds => steps \notin {<<"reload_pair">>, <<>>}
          /\ k \in Drops => steps \notin {<<"drop_pairs">>, <<>>}
      BY <1>4, <2>1, FirstTodo
    <3>. QED
      BY <1>8, <3>1 DEF Revoked, Reached
  <2>2. CASE Waiting(r)'
    <3>1. k \notin CommandLine /\ steps = Program[k].steps
      BY <1>8, <2>2 DEF Waiting
    <3>2. \A t \in Todo(k) : t # steps
      BY <1>4, <3>1, NotWaiting
    <3>3. /\ k = "delete_user" => DeletingUser \cup {<<>>} \subseteq Todo(k)
          /\ k \in Adds => {<<"reload_pair">>, <<>>} \subseteq Todo(k)
          /\ k \in Drops => {<<"drop_pairs">>, <<>>} \subseteq Todo(k)
      BY Sorts DEF Todo
    <3>. QED
      BY <1>5, <1>8, <3>2, <3>3 DEF Revoked, Reached
  <2>. QED
    BY <1>13, <2>1, <2>2
<1>19. WorkInv'
  <2>1. ASSUME NEW q \in Requests, q # r PROVE AtWork(q)'
    BY <1>10, <1>15, <1>17, <2>1 DEF WorkInv, AtWork, Unsent
  <2>2. AtWork(r)'
    <3>1. Waiting(r)' \/ steps \in Todo(k)
      BY <1>4, <1>13, FirstTodo
    <3>. QED
      BY <1>4, <1>8, <1>10, <3>1 DEF AtWork
  <2>. QED
    BY <2>1, <2>2 DEF WorkInv
<1>20. UnusedInv'
  <2>1. Unused(r)
    BY <1>3 DEF UnusedInv
  <2>2. ASSUME NEW q \in Requests, Unused(q) PROVE Unused(q)'
    <3>1. \A c \in clients : q # c.id /\ q # c.key /\ q # c.secret
      BY <2>2 DEF Unused
    <3>3. None # q
      BY AccountsAssumption
    <3>2. ASSUME as # None PROVE q # as.id /\ q # as.key /\ q # as.secret
      <4>1. \/ as.id = None /\ as.key = None /\ as.secret = None
            \/ \E c \in clients : as.id = c.id /\ as.key = c.key /\ as.secret = c.secret
        BY <1>6, <3>2
      <4>. QED
        BY <3>1, <3>3, <4>1
    <3>. QED
      BY <1>2, <1>17, <1>8, <2>2, <3>1, <3>2, <3>3 DEF Unused
  <2>3. \A q \in Requests : req'[q].kind = None \/ Writes(q)' => q = r \/ req[q].kind = None \/ Writes(q)
    BY <1>17, <1>15
  <2>. QED
    BY <2>1, <2>2, <2>3 DEF UnusedInv
<1>21. SecretInv'
  <2>1. as # None => \A c \in clients : c.secret = as.secret => c.id = as.id
    <3>1. \A c \in clients : c.secret \in Ids /\ None \notin Ids
      BY AccountsAssumption DEF Typed, ClientRows, Ids
    <3>. QED
      BY <1>6, <3>1 DEF DistinctInv
  <2>. QED
    <3>1. \A q \in Requests \ {r} : req[q].as # None =>
            \A c \in clients : c.secret = req[q].as.secret => c.id = req[q].as.id
      BY DEF SecretInv
    <3>2. ASSUME NEW q \in Requests, req'[q].as # None, NEW c \in clients, c.secret = req'[q].as.secret
          PROVE  c.id = req'[q].as.id
      <4>1. CASE q = r
        BY <1>8, <2>1, <3>2, <4>1
      <4>2. CASE q # r
        <5>1. req'[q].as = req[q].as
          BY <1>17, <4>2
        <5>. QED
          BY <3>1, <3>2, <4>2, <5>1
      <4>. QED
        BY <4>1, <4>2
    <3>. QED
      BY <1>2, <3>2 DEF SecretInv
<1>22. RevokedInv'
  <2>1. ASSUME NEW q \in Requests, Revoked(q)' PROVE Revoked(q) /\ req'[q] = req[q] /\ q # r
    BY <1>17, <1>15, <1>18, <2>1
  <2>2. ASSUME NEW q \in Requests, Revoked(q)', NEW p \in Requests,
               q \in req'[p].before, req'[p].as # None, req'[p].as.id = req'[q].row
        PROVE  req'[p].code # 200 /\ (req'[p].code = 0 => Waiting(p)')
    <3>1. CASE p = r
      <4>1. Waiting(r)' /\ req'[p].code = 0
        BY <1>8, <1>14, <2>2, <3>1
      <4>2. Waiting(r)' <=> Waiting(p)'
        BY <3>1
      <4>. QED
        BY <4>1, <4>2
    <3>2. CASE p # r
      BY <1>17, <1>15, <2>1, <2>2, <3>2 DEF RevokedInv
    <3>. QED
      BY <3>1, <3>2
  <2>. QED
    BY <1>2, <2>1, <2>2 DEF RevokedInv
<1>23. TellInv'
  <2> SUFFICES ASSUME NEW c \in clients', NEW q \in Requests, c.secret = q,
                      req'[q].code \in {0, 200}, req'[q].kind # "get_token_for_user"
               PROVE  Tells(c, q)'
    BY DEF TellInv
  <2>1. Unused(r) /\ c \in clients
    BY <1>2, <1>3 DEF UnusedInv
  <2>2. q # r
    BY <2>1 DEF Unused
  <2>. QED
    <3>1. req'[q] = req[q] /\ (Reloading(q)' <=> Reloading(q))
      BY <1>15, <1>17, <2>2
    <3>2. Tells(c, q)
      BY <2>1, <3>1 DEF TellInv
    <3>. QED
      BY <3>1, <3>2 DEF Tells
<1>24. DeletedInv'
  <2>1. \A q \in Requests : Reached(q, {"delete_user"}, {<<>>})' =>
                            Reached(q, {"delete_user"}, DeletingUser \cup {<<>>})'
    BY DEF Reached
  <2>2. \A q \in Requests \ {r} : Target(q)' = Target(q)
    BY <1>17 DEF Target
  <2>. QED
    BY <1>2, <1>18, <1>16, <2>1, <2>2 DEF DeletedInv
<1>25. FoundInv'
  BY <1>17, <1>8 DEF FoundInv, Seeks, Of, Pair, Target
<1>26. PairsInv'
  <2> SUFFICES ASSUME NEW q \in Requests
               PROVE  /\ Reached(q, Adds, {<<"reload_pair">>,
                                           <<>>})' => Pair(q)' \in pairs' \/ Undone(q)'
                      /\ Reached(q, Drops, {<<"drop_pairs">>, <<>>})' /\ Pair(q)' \in pairs' =>
                           \/ Redone(q)'
                           \/ Reached(q, Drops, {<<"drop_pairs">>})' /\ Pair(q)' \in req'[q].found
    BY DEF PairsInv
  <2>1. CASE q = r
    BY <1>18, <2>1
  <2>2. CASE q # r
    <3>1. Pair(q)' = Pair(q) /\ req'[q] = req[q]
      BY <1>17, <2>2 DEF Pair, Target
    <3>2. ASSUME NEW p \in Sent
          PROVE  /\ p \in Sent' /\ req'[p] = req[p] /\ (SameUser(p, q)' <=> SameUser(p, q))
                 /\ SameFacility(p, q)' <=> SameFacility(p, q)
                 /\ \A kinds : Of(p, kinds)' <=> Of(p, kinds)
      <4>1. p \in Requests \ {r} /\ p \in Sent'
        BY <1>10 DEF Sent
      <4>2. req'[p] = req[p]
        BY <1>17, <4>1
      <4>. QED
        BY <3>1, <4>1, <4>2 DEF SameUser, SameFacility, Target, Of
    <3>3. (Undone(q) => Undone(q)') /\ (Redone(q) => Redone(q)')
      BY <3>1, <3>2 DEF Undone, Redone
    <3>. QED
      BY <1>2, <1>16, <2>2, <3>1, <3>3 DEF PairsInv
  <2>. QED
    BY <2>1, <2>2
<1>. QED
  BY <1>11, <1>12, <1>19, <1>20, <1>21, <1>22, <1>23, <1>24, <1>25, <1>26
------------------------------------------------------------------------------
(***************************************************************************)
(* Steps that add and delete users, facilities, sessions and clients.      *)
(***************************************************************************)
Tabled ==
  /\ users \subseteq Users /\ facilities \subseteq Facilities
  /\ spare \subseteq Users \cup Facilities /\ users \cap spare = {}
  /\ pairs \subseteq Users \X Facilities /\ recommended \subseteq Users \X Facilities
  /\ clients \subseteq ClientRows /\ session \subseteq Ids

\* A step that adds no client (database/model.py).
LEMMA Changes ==
  ASSUME IInv, NEW r \in Requests, Controlled(r),
         clients' \subseteq clients, spare' \subseteq spare, users' \subseteq users \cup spare,
         Tabled', Integrity', PairsInv'
  PROVE  IInv'
<1> USE DEF IInv
<1>1. Control'
  BY BenignControl DEF Control
<1>2. Kept(r) /\ req[r].kind # None /\ req'[r].user \in Users
  BY DEF Controlled
<1>3. Typed'
  BY <1>2, ReqTyped DEF Typed, Tabled
<1>4. DistinctInv'
  BY DEF DistinctInv
<1>. QED
  BY <1>1, <1>3, <1>4 DEF Control

\* A profile is posted: it replaces one, or a user or facility is added
\* (web/api/endpoint/user.py add_user, facility.py add_facility).
LEMMA AddStep ==
  ASSUME IInv, NEW r \in Requests, AddUser(r) \/ AddFacility(r)
  PROVE  IInv'
<1> USE DEF IInv
<1> DEFINE k == req[r].kind
<1> DEFINE todo == req[r].todo
<1>1. "BadRequest" \in Answered \ {"OK"}
  BY DEF Answered
<1>2. /\ <<"user", "write_user">> \in Seq(Steps) /\ <<"facility", "write_facility">> \in Seq(Steps)
  BY DEF Steps, Harmless
<1>3. CASE AddUser(r)
  <2>1. At(r, "add_user")
    BY <1>3 DEF AddUser
  <2>2. /\ Quiet(k, todo, Tail(todo)) /\ Quiet(k, todo, <<"user", "write_user">> \o Tail(todo))
    BY <2>1, AtWorkStep, PassedQuietly, ReplacedQuietly
  <2>3. Then(r, <<"user", "write_user">>) \/ Proceed(r) \/ End(r, "BadRequest")
    BY <1>3 DEF AddUser
  <2>4. Benign(r)
    BY <1>1, <1>2, <2>1, <2>2, <2>3, PassOrFail, Replaced
  <2>5. /\ facilities' = facilities /\ recommended' = recommended /\ pairs' = pairs
        /\ clients' = clients /\ session' = session
    BY <1>3 DEF AddUser
  <2>6. \/ users' = users /\ spare' = spare
        \/ \E u \in spare \cap Users : users' = users \cup {u} /\ spare' = spare \ {u}
    BY <1>3 DEF AddUser
  <2>7. users \subseteq users' /\ users' \subseteq users \cup spare /\ spare' \subseteq spare
    BY <2>6
  <2>8. Tabled'
    BY <2>5, <2>6 DEF Tabled, Typed
  <2>9. Integrity'
    BY <2>5, <2>7 DEF Integrity
  <2>10. PairsInv'
    BY <2>4, <2>5, BenignPairs
  <2>. QED
    BY <2>4, <2>5, <2>7, <2>8, <2>9, <2>10, Changes DEF Benign
<1>4. CASE AddFacility(r)
  <2>1. At(r, "add_facility")
    BY <1>4 DEF AddFacility
  <2>2. Quiet(k, todo, Tail(todo)) /\ Quiet(k, todo, <<"facility", "write_facility">> \o Tail(todo))
    BY <2>1, AtWorkStep, PassedQuietly, ReplacedQuietly
  <2>3. Then(r, <<"facility", "write_facility">>) \/ Proceed(r) \/ End(r, "BadRequest")
    BY <1>4 DEF AddFacility
  <2>4. Benign(r)
    BY <1>1, <1>2, <2>1, <2>2, <2>3, PassOrFail, Replaced
  <2>5. /\ users' = users /\ recommended' = recommended /\ pairs' = pairs
        /\ clients' = clients /\ session' = session
    BY <1>4 DEF AddFacility
  <2>6. \/ facilities' = facilities /\ spare' = spare
        \/ \E f \in spare \cap Facilities : facilities' = facilities \cup {f} /\ spare' = spare \ {f}
    BY <1>4 DEF AddFacility
  <2>7. facilities \subseteq facilities' /\ spare' \subseteq spare
    BY <2>6
  <2>8. Tabled'
    BY <2>5, <2>6 DEF Tabled, Typed
  <2>9. Integrity'
    BY <2>5, <2>7 DEF Integrity
  <2>10. PairsInv'
    BY <2>4, <2>5, BenignPairs
  <2>. QED
    BY <2>4, <2>5, <2>7, <2>8, <2>9, <2>10, Changes DEF Benign
<1>. QED
  BY <1>3, <1>4

\* The session and the client of a user that is deleted are (database/model.py
\* User.delete).
LEMMA DropCredentials ==
  ASSUME IInv, NEW r \in Requests, DropSession(r) \/ DropClient(r)
  PROVE  IInv'
<1> USE DEF IInv
<1>1. PICK step \in {"drop_session", "drop_client"} : At(r, step)
  BY DEF DropSession, DropClient
<1>2. Quiet(req[r].kind, req[r].todo, Tail(req[r].todo))
  BY <1>1, AtWorkStep, PassedQuietly
<1>3. \E error \in Answered \ {"OK"} : Proceed(r) \/ End(r, error)
  BY DEF DropSession, DropClient, Gone, Answered
<1>4. Benign(r)
  BY <1>1, <1>2, <1>3, PassOrFail
<1>5. /\ users' = users /\ facilities' = facilities /\ spare' = spare /\ pairs' = pairs
      /\ recommended' = recommended
  BY DEF DropSession, DropClient
<1>6. /\ clients' \subseteq clients /\ session' \subseteq session
      /\ \A c \in clients : c.id \in session' => c \in clients'
  BY DEF DropSession, DropClient, Loaded, WithId
<1>7. Tabled'
  BY <1>5, <1>6 DEF Tabled, Typed
<1>8. Integrity'
  BY <1>5, <1>6 DEF Integrity
<1>9. PairsInv'
  BY <1>4, <1>5, BenignPairs
<1>. QED
  BY <1>4, <1>5, <1>6, <1>7, <1>8, <1>9, Changes DEF Benign

\* A session is written (database/model.py Session.new).
LEMMA WriteSessionStep ==
  ASSUME IInv, NEW r \in Requests, WriteSession(r)
  PROVE  IInv'
<1> USE DEF IInv
<1>1. PICK step \in {"update_session", "add_session"} : At(r, step)
  BY DEF WriteSession
<1>2. Quiet(req[r].kind, req[r].todo, Tail(req[r].todo))
  BY <1>1, AtWorkStep, PassedQuietly
<1>3. \E error \in Answered \ {"OK"} : Proceed(r) \/ End(r, error)
  BY DEF WriteSession, Answered
<1>4. Benign(r)
  BY <1>1, <1>2, <1>3, PassOrFail
<1>5. /\ users' = users /\ facilities' = facilities /\ spare' = spare /\ pairs' = pairs
      /\ recommended' = recommended /\ clients' = clients
  BY DEF WriteSession
<1>6. \/ session' = session
      \/ \E c \in clients : c.id = req[r].row /\ session' = session \cup {req[r].row}
  BY DEF WriteSession, Loaded, WithId
<1>7. Tabled'
  BY <1>5, <1>6 DEF Tabled, Typed, ClientRows
<1>8. Integrity'
  BY <1>5, <1>6 DEF Integrity
<1>9. PairsInv'
  BY <1>4, <1>5, BenignPairs
<1>. QED
  BY <1>4, <1>5, <1>7, <1>8, <1>9, Changes DEF Benign
------------------------------------------------------------------------------
(***************************************************************************)
(* Steps that associate, dissociate, and delete what is associated.        *)
(***************************************************************************)
\* A step of a request that neither gives out credentials nor revokes
\* (web/api/endpoint/user.py, facility.py).
LEMMA StepControlled ==
  ASSUME Typed, WorkInv, NEW r \in Requests, NEW step, At(r, step), step \notin {"token", "secret"},
         Kept(r), req'[r].user = req[r].user, req'[r].got = req[r].got, req'[r].row = req[r].row,
         req'[r].code = req[r].code, req'[r].todo \in Todo(req[r].kind),
         req[r].kind \notin Makers, req[r].kind # "revoke_credentials",
         \A p \in req'[r].found : p \in req[r].found \/ Seeks(r, p),
         req[r].kind = "delete_user" =>
           req[r].todo \in DeletingUser /\ (req'[r].todo = <<>> => Target(r) \notin users')
  PROVE  Controlled(r)
<1> DEFINE k == req[r].kind
<1>1. /\ k \in DOMAIN Program /\ req[r].todo \in Todo(k) /\ req[r].todo # <<>> /\ ~Waiting(r)
      /\ req[r].code = 0 /\ k # None /\ req[r].user \in Users
  BY AtStep DEF Target
<1>2. \A t \in Todo(k) : t \notin Reloads
  <2>1. \A t \in Reloads : t # <<>> /\ Head(t) = "reload_client"
    BY DEF Reloads
  <2>. QED
    BY <1>1, <2>1, StepKinds
<1>3. ~Reloading(r) /\ ~Reloading(r)'
  BY <1>1, <1>2 DEF Reloading, Reloads
<1>4. ~Writes(r)' /\ ~Revoked(r)'
  BY DEF Kept, Writes, Revoked, Reached
<1>5. Reached(r, {"delete_user"}, DeletingUser)' => Reached(r, {"delete_user"}, DeletingUser)
  BY <1>1 DEF Reached, Kept
<1>6. Reached(r, {"delete_user"}, {<<>>})' =>
        Reached(r, {"delete_user"}, DeletingUser \cup {<<>>}) /\ Target(r) \notin users'
  BY <1>1 DEF Reached, Kept
<1>. QED
  BY <1>1, <1>3, <1>4, <1>5, <1>6 DEF Controlled

\* Requests about associations, and those that delete what is associated, are
\* of their own kinds.
LEMMA AssociationKinds ==
  ASSUME NEW k \in Adds \cup Drops \cup {"delete_user", "delete_facility"}
  PROVE  /\ k \notin Makers /\ k # "revoke_credentials"
         /\ k \in Adds => k \notin Drops /\ k # "delete_user" /\ <<>> \in Todo(k) /\ <<"reload_pair">> \in Todo(k)
         /\ k \in Drops => k \notin Adds /\ k # "delete_user" /\ <<>> \in Todo(k) /\ <<"drop_pairs">> \in Todo(k)
         /\ k = "delete_user" => k \notin Adds /\ k \notin Drops /\ <<>> \in Todo(k)
         /\ k = "delete_facility" => k \notin Adds /\ k \notin Drops /\ <<>> \in Todo(k)
BY Sorts DEF Todo

\* The association is looked up before it is made (database/model.py
\* User.add_facility).
LEMMA FindPairStep ==
  ASSUME IInv, NEW r \in Requests, FindPair(r)
  PROVE  IInv'
<1> USE DEF IInv
<1> DEFINE k == req[r].kind
<1>1. UNCHANGED tables /\ At(r, "associate")
  BY DEF FindPair
<1>2. /\ k \in DOMAIN Program /\ req[r].todo \in Todo(k) /\ req[r].todo # <<>>
      /\ Head(req[r].todo) = "associate"
  BY <1>1, AtWorkStep
<1>3. k \in Adds
  BY <1>2, StepKinds
<1>4. CASE Pair(r) \notin pairs
  <2>1. Then(r, <<"add_pair", "reload_pair">>)
    BY <1>4 DEF FindPair
  <2>2. <<"add_pair", "reload_pair">> \in Seq(Steps)
    BY DEF Steps, Harmless
  <2>3. Benign(r)
    BY <1>1, <1>2, <2>1, <2>2, ReplacedQuietly, Replaced
  <2>. QED
    BY <1>1, <2>3, LooksUp
<1>5. CASE Pair(r) \in pairs
  <2>1. Goes(r, Tail(req[r].todo), req[r].row) /\ Tail(req[r].todo) = <<>>
    <3>1. Proceed(r)
      BY <1>5 DEF FindPair, Proceed
    <3>. QED
      BY <1>1, <1>2, <1>3, <3>1, ProceedGoes, AddsNext
  <2>2. Controlled(r)
    BY <1>1, <1>3, <2>1, StepControlled, AssociationKinds DEF Goes
  <2>3. /\ users' = users /\ facilities' = facilities /\ spare' = spare /\ pairs' = pairs
        /\ recommended' = recommended /\ clients' = clients /\ session' = session
    BY <1>1 DEF tables
  <2>4. ~Reached(r, Drops, {<<"drop_pairs">>, <<>>})'
    BY <1>3, <2>1, AssociationKinds DEF Reached, Goes, Kept
  <2>5. PairsInv'
    BY <1>5, <2>2, <2>3, <2>4, PairsChange
  <2>6. Tabled' /\ Integrity'
    BY <2>3 DEF Tabled, Typed, Integrity
  <2>. QED
    BY <2>2, <2>3, <2>5, <2>6, Changes
<1>. QED
  BY <1>4, <1>5

\* The association is made (database/model.py User.add_facility, Facility.add_user).
LEMMA AddPairStep ==
  ASSUME IInv, NEW r \in Requests, AddPair(r)
  PROVE  IInv'
<1> USE DEF IInv
<1> DEFINE k == req[r].kind
<1>1. /\ At(r, "add_pair") /\ users' = users /\ facilities' = facilities /\ spare' = spare
      /\ recommended' = recommended /\ clients' = clients /\ session' = session
  BY DEF AddPair
<1>2. /\ k \in DOMAIN Program /\ req[r].todo \in Todo(k) /\ req[r].todo # <<>>
      /\ Head(req[r].todo) = "add_pair" /\ r \in Busy
  BY <1>1, AtWorkStep
<1>3. k \in Adds
  BY <1>2, StepKinds
<1>4. CASE End(r, "Critical") /\ pairs' = pairs
  <2>1. "Critical" \in Answered \ {"OK"}
    BY DEF Answered
  <2>2. Benign(r)
    BY <1>2, <1>4, <2>1, EndFails, FailsBenign
  <2>. QED
    BY <1>1, <1>4, <2>2, LooksUp DEF tables
<1>5. CASE /\ Target(r) \in users /\ req[r].facility \in facilities
           /\ pairs' = pairs \cup {Pair(r)} /\ Proceed(r)
  <2>1. Goes(r, Tail(req[r].todo), req[r].row) /\ Tail(req[r].todo) = <<"reload_pair">>
    BY <1>1, <1>2, <1>3, <1>5, ProceedGoes, AddsNext
  <2>2. Controlled(r)
    BY <1>1, <1>3, <2>1, StepControlled, AssociationKinds DEF Goes
  <2>3. ~Reached(r, Drops, {<<"drop_pairs">>, <<>>})'
    BY <1>3, <2>1, AssociationKinds DEF Reached, Goes, Kept
  <2>4. PairsInv'
    BY <1>3, <1>5, <2>2, <2>3, PairsChange DEF Of
  <2>5. Pair(r) \in users \X facilities
    BY <1>5 DEF Pair
  <2>6. Tabled' /\ Integrity'
    BY <1>1, <1>5, <2>5 DEF Tabled, Typed, Integrity
  <2>. QED
    BY <1>1, <2>2, <2>4, <2>6, Changes
<1>. QED
  BY <1>4, <1>5 DEF AddPair

\* The associations to be deleted are looked up (database/model.py User.delete,
\* Facility.delete, User.delete_facility).
LEMMA FindPairsStep ==
  ASSUME IInv, NEW r \in Requests, FindPairs(r)
  PROVE  IInv'
<1> USE DEF IInv
<1> DEFINE k == req[r].kind
<1>1. PICK step \in {"pair_of_both", "pairs_of_user", "pairs_of_facility"} :
        /\ At(r, step)
        /\ req' = [req EXCEPT ![r].todo = Tail(@), ![r].found =
             {p \in pairs : /\ step # "pairs_of_facility" => p[1] = Target(r)
                            /\ step # "pairs_of_user" => p[2] = req[r].facility}]
  BY DEF FindPairs
<1> DEFINE found == {p \in pairs : /\ step # "pairs_of_facility" => p[1] = Target(r)
                                   /\ step # "pairs_of_user" => p[2] = req[r].facility}
<1> DEFINE todo == Tail(req[r].todo)
<1>2. /\ users' = users /\ facilities' = facilities /\ spare' = spare /\ pairs' = pairs
      /\ recommended' = recommended /\ clients' = clients /\ session' = session
  BY DEF FindPairs, tables
<1>3. /\ k \in DOMAIN Program /\ req[r].todo \in Todo(k) /\ req[r].todo # <<>>
      /\ Head(req[r].todo) = step /\ req[r] \in Request /\ todo \in Seq(Steps)
  BY <1>1, AtWorkStep
<1>4. /\ step = "pair_of_both" => k \in Drops
      /\ step = "pairs_of_user" => k = "delete_user"
      /\ step = "pairs_of_facility" => k = "delete_facility"
  BY <1>3, StepKinds
<1>5. found \in SUBSET (Users \X Facilities)
  BY DEF Typed
<1>6. \A p \in found : Seeks(r, p)
  <2>1. \A p \in pairs : p = <<p[1], p[2]>>
    BY DEF Typed
  <2>. QED
    BY <1>4, <2>1 DEF Seeks, Of, Pair
<1>7. Pair(r) \in pairs => Pair(r) \in found
  BY DEF Pair
<1>8. /\ req \in [Requests -> Request]
      /\ req' = [req EXCEPT ![r] = [req[r] EXCEPT !.todo = todo, !.found = found]]
  BY <1>1 DEF Typed
<1> HIDE DEF found, todo
<1>9. [req[r] EXCEPT !.todo = todo, !.found = found] \in Request
  BY <1>3, <1>5, ZenonT(40) DEF Request
<1>10. /\ req' \in [Requests -> Request] /\ \A q \in Requests \ {r} : req'[q] = req[q]
       /\ req'[r] = [req[r] EXCEPT !.todo = todo, !.found = found]
  BY <1>8, <1>9
<1>11. /\ req'[r].kind = k /\ req'[r].as = req[r].as /\ req'[r].user = req[r].user
       /\ req'[r].facility = req[r].facility /\ req'[r].todo = todo
       /\ req'[r].row = req[r].row /\ req'[r].found = found /\ req'[r].got = req[r].got
       /\ req'[r].code = req[r].code /\ req'[r].before = req[r].before
  BY <1>3, <1>10 DEF Request
<1>12. Kept(r)
  BY <1>10, <1>11 DEF Kept
<1>13. /\ k \in Drops \cup {"delete_user", "delete_facility"}
       /\ k \in Drops => todo = <<"drop_pairs">>
       /\ k \notin Drops => Quiet(k, req[r].todo, todo)
  <2>1. CASE step = "pair_of_both"
    BY <1>3, <1>4, <2>1, DropsNext DEF todo
  <2>2. CASE step \in {"pairs_of_user", "pairs_of_facility"}
    BY <1>3, <1>4, <2>2, PassedQuietly, AssociationKinds DEF todo
  <2>. QED
    BY <2>1, <2>2
<1>14. /\ todo \in Todo(k)
       /\ k = "delete_user" => req[r].todo \in DeletingUser /\ todo # <<>>
  <2>1. CASE k \in Drops
    BY <1>13, <2>1, AssociationKinds
  <2>2. CASE k \notin Drops
    <3>1. todo \in Todo(k) /\ (k = "delete_user" => todo # <<>>)
      BY <1>13, <2>2 DEF Quiet
    <3>2. k = "delete_user" => req[r].todo \in DeletingUser
      BY <1>1, <1>3, DeleteUserNext
    <3>. QED
      BY <3>1, <3>2
  <2>. QED
    BY <2>1, <2>2
<1>15. Controlled(r)
  BY <1>1, <1>6, <1>11, <1>12, <1>13, <1>14, StepControlled, AssociationKinds
<1>16. ~Reached(r, Adds, {<<"reload_pair">>, <<>>})'
  BY <1>11, <1>13, AssociationKinds DEF Reached
<1>17. Reached(r, Drops, {<<"drop_pairs">>, <<>>})' => Reached(r, Drops, {<<"drop_pairs">>})'
  BY <1>11, <1>13 DEF Reached
<1>18. PairsInv'
  BY <1>2, <1>7, <1>11, <1>15, <1>16, <1>17, PairsChange
<1>19. Tabled' /\ Integrity'
  BY <1>2 DEF Tabled, Typed, Integrity
<1>. QED
  BY <1>2, <1>15, <1>18, <1>19, Changes

\* The associations that were found are deleted one by one (database/model.py
\* User.delete, Facility.delete, User.delete_facility).
LEMMA DropPairsStep ==
  ASSUME IInv, NEW r \in Requests, DropPairs(r)
  PROVE  IInv'
<1> USE DEF IInv
<1> DEFINE k == req[r].kind
<1> DEFINE todo == Tail(req[r].todo)
<1>1. /\ At(r, "drop_pairs") /\ users' = users /\ facilities' = facilities /\ spare' = spare
      /\ recommended' = recommended /\ clients' = clients /\ session' = session
  BY DEF DropPairs
<1>2. /\ k \in DOMAIN Program /\ req[r].todo \in Todo(k) /\ req[r].todo # <<>>
      /\ Head(req[r].todo) = "drop_pairs" /\ req[r] \in Request /\ r \in Busy
  BY <1>1, AtWorkStep
<1>3. k \in Drops \cup {"delete_user", "delete_facility"}
  BY <1>2, StepKinds
<1>4. CASE req[r].found = {} /\ Proceed(r) /\ pairs' = pairs
  <2>1. Goes(r, todo, req[r].row)
    BY <1>1, <1>4, ProceedGoes
  <2>2. CASE k \notin Drops
    <3>1. Benign(r)
      BY <1>1, <1>2, <2>1, <2>2, PassedQuietly, QuietBenign
    <3>. QED
      BY <1>1, <1>4, <3>1, LooksUp DEF tables
  <2>3. CASE k \in Drops
    <3>1. req[r].todo = <<"drop_pairs">> /\ todo = <<>>
      BY <1>2, <2>3, DropsNext
    <3>2. Controlled(r)
      BY <1>1, <2>1, <2>3, <3>1, StepControlled, AssociationKinds DEF Goes
    <3>3. Reached(r, Drops, {<<"drop_pairs">>, <<>>})
      BY <1>1, <2>3, <3>1, AtStep DEF Reached
    <3>4. Pair(r) \in pairs => Redone(r)
      BY <1>4, <3>3 DEF PairsInv
    <3>5. ~Reached(r, Adds, {<<"reload_pair">>, <<>>})'
      BY <2>1, <2>3, AssociationKinds DEF Reached, Goes, Kept
    <3>6. PairsInv'
      BY <1>4, <3>2, <3>4, <3>5, PairsChange
    <3>7. Tabled' /\ Integrity'
      BY <1>1, <1>4 DEF Tabled, Typed, Integrity
    <3>. QED
      BY <1>1, <3>2, <3>6, <3>7, Changes
  <2>. QED
    BY <2>2, <2>3
<1>5. CASE End(r, "Critical") /\ pairs' = pairs
  <2>1. "Critical" \in Answered \ {"OK"}
    BY DEF Answered
  <2>2. Benign(r)
    BY <1>2, <1>5, <2>1, EndFails, FailsBenign
  <2>. QED
    BY <1>1, <1>5, <2>2, LooksUp DEF tables
<1>6. ASSUME NEW p \in req[r].found, pairs' = pairs \ {p},
             req' = [req EXCEPT ![r].found = @ \ {p}]
      PROVE  IInv'
  <2> DEFINE found == req[r].found \ {p}
  <2>1. /\ req \in [Requests -> Request]
        /\ req' = [req EXCEPT ![r] = [req[r] EXCEPT !.found = found]]
    BY <1>6 DEF Typed
  <2>2. found \in SUBSET (Users \X Facilities)
    BY <1>2 DEF Request
  <2>3. Seeks(r, p)
    BY DEF FoundInv
  <2>4. \A s \in found : s \in req[r].found
    OBVIOUS
  <2> HIDE DEF found
  <2>5. [req[r] EXCEPT !.found = found] \in Request
    BY <1>2, <2>2, ZenonT(40) DEF Request
  <2>6. /\ req' \in [Requests -> Request] /\ \A q \in Requests \ {r} : req'[q] = req[q]
        /\ req'[r] = [req[r] EXCEPT !.found = found]
    BY <2>1, <2>5
  <2>7. /\ req'[r].kind = k /\ req'[r].as = req[r].as /\ req'[r].user = req[r].user
        /\ req'[r].facility = req[r].facility /\ req'[r].todo = req[r].todo
        /\ req'[r].row = req[r].row /\ req'[r].found = found /\ req'[r].got = req[r].got
        /\ req'[r].code = req[r].code /\ req'[r].before = req[r].before
    BY <1>2, <2>6 DEF Request
  <2>8. Kept(r)
    BY <2>6, <2>7 DEF Kept
  <2>9. k = "delete_user" => req[r].todo \in DeletingUser
    BY <1>2, DeleteUserNext
  <2>10. Controlled(r)
    BY <1>1, <1>2, <1>3, <2>4, <2>7, <2>8, <2>9, StepControlled, AssociationKinds
  <2>11. Reached(r, Adds, {<<"reload_pair">>, <<>>})' => Reached(r, Adds, {<<"reload_pair">>, <<>>})
    BY <2>7 DEF Reached
  <2>12. \A s \in pairs : s \in pairs' \/ Seeks(r, s)
    BY <1>6, <2>3
  <2>13. k \in Drops => Pair(r) \notin pairs'
    BY <1>3, <1>6, <2>3, AssociationKinds DEF Seeks, Of
  <2>14. Reached(r, Drops, {<<"drop_pairs">>, <<>>})' => Pair(r) \notin pairs'
    BY <2>7, <2>13 DEF Reached
  <2>15. PairsInv'
    BY <1>6, <2>10, <2>11, <2>12, <2>14, PairsChange
  <2>16. Tabled' /\ Integrity'
    BY <1>1, <1>6 DEF Tabled, Typed, Integrity
  <2>. QED
    BY <1>1, <2>10, <2>15, <2>16, Changes
<1>. QED
  BY <1>4, <1>5, <1>6 DEF DropPairs

\* A request that fails whatever it deleted before, or goes on, leaves the
\* associations that it does not seek (database/model.py User.delete, Facility.delete).
LEMMA DropAssociated ==
  ASSUME IInv, NEW r \in Requests, Controlled(r),
         req[r].kind \in {"delete_user", "delete_facility"},
         pairs' \subseteq pairs, \A p \in pairs \ pairs' : Seeks(r, p)
  PROVE  PairsInv'
<1> USE DEF IInv
<1>1. ~Reached(r, Adds, {<<"reload_pair">>, <<>>})' /\ ~Reached(r, Drops, {<<"drop_pairs">>, <<>>})'
  BY AssociationKinds DEF Reached, Controlled, Kept
<1>. QED
  BY <1>1, PairsChange

\* The user is deleted, unless something refers to it (database/model.py User.delete).
LEMMA DropUserStep ==
  ASSUME IInv, NEW r \in Requests, DropUser(r)
  PROVE  IInv'
<1> USE DEF IInv
<1> DEFINE k == req[r].kind
<1> DEFINE referred == ClientOf(Target(r)) # {} \/ \E p \in recommended : p[1] = Target(r)
<1>1. /\ At(r, "drop_user") /\ facilities' = facilities /\ spare' = spare
      /\ recommended' = recommended /\ clients' = clients /\ session' = session
  BY DEF DropUser
<1>2. /\ k \in DOMAIN Program /\ req[r].todo \in Todo(k) /\ req[r].todo # <<>>
      /\ Head(req[r].todo) = "drop_user" /\ r \in Busy
  BY <1>1, AtWorkStep
<1>3. k = "delete_user"
  BY <1>2, StepKinds
<1>4. "Critical" \in Answered \ {"OK"} /\ "BadRequest" \in Answered \ {"OK"}
  BY DEF Answered
<1>5. CASE End(r, "BadRequest") /\ users' = users /\ pairs' = pairs
  <2>1. Benign(r)
    BY <1>2, <1>4, <1>5, EndFails, FailsBenign
  <2>. QED
    BY <1>1, <1>5, <2>1, LooksUp DEF tables
<1>6. CASE /\ ~referred /\ users' = users \ {Target(r)}
           /\ pairs' = {p \in pairs : p[1] # Target(r)}
           /\ Proceed(r) \/ End(r, "Critical")
  <2>1. ASSUME Proceed(r) PROVE Controlled(r)
    <3>1. Goes(r, Tail(req[r].todo), req[r].row) /\ Tail(req[r].todo) = <<>>
          /\ req[r].todo \in DeletingUser
      BY <1>1, <1>2, <1>3, <2>1, ProceedGoes, DeleteUserNext
    <3>2. Target(r) \notin users'
      BY <1>6
    <3>. QED
      BY <1>1, <1>3, <3>1, <3>2, StepControlled, AssociationKinds DEF Goes
  <2>2. ASSUME End(r, "Critical") PROVE Controlled(r)
    BY <1>2, <1>4, <2>2, EndFails, FailsBenign DEF Benign
  <2>3. Controlled(r)
    BY <1>6, <2>1, <2>2
  <2>4. \A p \in pairs \ pairs' : Seeks(r, p)
    BY <1>3, <1>6 DEF Seeks, Of
  <2>5. PairsInv'
    BY <1>3, <1>6, <2>3, <2>4, DropAssociated
  <2>6. Tabled'
    BY <1>1, <1>6 DEF Tabled, Typed
  <2>7. \A c \in clients : c.user # Target(r)
    BY <1>6 DEF ClientOf
  <2>8. \A p \in pairs' \cup recommended : p[1] # Target(r)
    BY <1>6
  <2>9. pairs' \cup recommended' \subseteq users' \X facilities'
    BY <1>1, <1>6, <2>8 DEF Integrity
  <2>10. Integrity'
    BY <1>1, <1>6, <2>7, <2>9 DEF Integrity
  <2>. QED
    BY <1>1, <1>6, <2>3, <2>5, <2>6, <2>10, Changes
<1>. QED
  BY <1>5, <1>6 DEF DropUser, Gone

\* The facility is deleted, unless a recommendation refers to it (database/model.py
\* Facility.delete).
LEMMA DropFacilityStep ==
  ASSUME IInv, NEW r \in Requests, DropFacility(r)
  PROVE  IInv'
<1> USE DEF IInv
<1> DEFINE k == req[r].kind
<1> DEFINE f == req[r].facility
<1>1. /\ At(r, "drop_facility") /\ users' = users /\ spare' = spare
      /\ recommended' = recommended /\ clients' = clients /\ session' = session
  BY DEF DropFacility
<1>2. /\ k \in DOMAIN Program /\ req[r].todo \in Todo(k) /\ req[r].todo # <<>>
      /\ Head(req[r].todo) = "drop_facility"
  BY <1>1, AtWorkStep
<1>3. k = "delete_facility"
  BY <1>2, StepKinds
<1>4. \E error \in Answered \ {"OK"} : Proceed(r) \/ End(r, error)
  BY DEF DropFacility, Gone, Answered
<1>5. Quiet(k, req[r].todo, Tail(req[r].todo))
  BY <1>2, PassedQuietly
<1>6. Benign(r)
  BY <1>1, <1>4, <1>5, PassOrFail
<1>7. CASE facilities' = facilities /\ pairs' = pairs
  BY <1>1, <1>6, <1>7, LooksUp DEF tables
<1>8. CASE /\ ~\E p \in recommended : p[2] = f
           /\ facilities' = facilities \ {f} /\ pairs' = {p \in pairs : p[2] # f}
  <2>1. Controlled(r) /\ PairsInv'
    <3>1. \A p \in pairs \ pairs' : Seeks(r, p)
      BY <1>3, <1>8 DEF Seeks, Of
    <3>. QED
      BY <1>3, <1>6, <1>8, <3>1, DropAssociated DEF Benign
  <2>2. Tabled'
    BY <1>1, <1>8 DEF Tabled, Typed
  <2>3. \A p \in pairs' \cup recommended : p[2] # f
    BY <1>8
  <2>4. pairs' \cup recommended' \subseteq users' \X facilities'
    BY <1>1, <1>8, <2>3 DEF Integrity
  <2>5. Integrity'
    BY <1>1, <1>8, <2>4 DEF Integrity
  <2>. QED
    BY <1>1, <2>1, <2>2, <2>5, Changes
<1>. QED
  BY <1>7, <1>8 DEF DropFacility
------------------------------------------------------------------------------
(***************************************************************************)
(* Steps that write and tell credentials, and revoke them.                 *)
(***************************************************************************)
\* What is written is not yet.
LEMMA MakingNotMade ==
  ASSUME NEW k \in Makers, NEW todo \in Making(k)
  PROVE  todo \notin Made(k)
<1>1. todo # <<>>
  BY Sorts DEF Making, Makers
<1>. QED
  BY <1>1, MakersNext

\* What credentials have no part in stays (database/model.py Client).
LEMMA Credited ==
  ASSUME IInv, NEW r \in Requests, NEW step, At(r, step), step \notin {"token", "secret"}, Kept(r),
         req[r].kind \in Makers \cup {"revoke_credentials"}, req'[r].code = 0,
         req'[r].todo \in Todo(req[r].kind), req'[r].user = req[r].user,
         req'[r].found = req[r].found, req'[r].row = req[r].row,
         users' = users, facilities' = facilities, spare' = spare, pairs' = pairs,
         recommended' = recommended, session' = session,
         clients' \subseteq ClientRows
  PROVE  /\ Typed' /\ WorkInv' /\ DeletedInv' /\ FoundInv' /\ PairsInv' /\ ~Waiting(r)'
         /\ \A q \in Requests : Revoked(q) => \A p \in Requests :
              q \in req'[p].before /\ req'[p].as # None /\ req'[p].as.id = req'[q].row =>
                req'[p].code # 200 /\ (req'[p].code = 0 => Waiting(p)')
<1> USE DEF IInv
<1> DEFINE k == req[r].kind
<1>1. /\ k \in DOMAIN Program /\ k # None /\ req[r].code = 0 /\ req[r].user \in Users /\ ~Waiting(r)
      /\ req'[r].kind = k
  BY AtStep DEF Target, Kept
<1>2. Sent' = Sent /\ Over \subseteq Over' /\ Over' \subseteq Over \cup {r}
  BY <1>1, SentKept
<1>3. \A q \in Requests : /\ req'[q].kind = req[q].kind /\ req'[q].as = req[q].as
                          /\ req'[q].facility = req[q].facility /\ req'[q].before = req[q].before
                          /\ req'[q].found = req[q].found /\ req'[q].user = req[q].user
                          /\ req'[q].row = req[q].row
  BY DEF Kept
<1>4. \A q \in Requests \ {r} : /\ req'[q] = req[q] /\ (Waiting(q)' <=> Waiting(q))
  BY OthersKept
<1>5. k \notin Adds /\ k \notin Drops /\ k # "delete_user" /\ k # "delete_facility"
  BY Sorts
<1>6. Typed'
  BY <1>1, ReqTyped DEF Typed
<1>7. WorkInv'
  <2>1. ASSUME NEW q \in Requests, q # r PROVE AtWork(q)'
    BY <1>2, <1>4, <2>1 DEF WorkInv, AtWork, Unsent
  <2>2. AtWork(r)'
    BY <1>1, <1>2, <1>3 DEF WorkInv, AtWork
  <2>. QED
    BY <2>1, <2>2 DEF WorkInv
<1>8. DeletedInv'
  <2>1. \A q \in Requests : Target(q)' = Target(q)
    BY <1>3 DEF Target
  <2>2. \A q \in Requests :
          /\ Reached(q, {"delete_user"}, DeletingUser \cup {<<>>})' =>
               Reached(q, {"delete_user"}, DeletingUser \cup {<<>>})
          /\ Reached(q, {"delete_user"}, {<<>>})' => Reached(q, {"delete_user"}, {<<>>})
    BY <1>3, <1>4, <1>5 DEF Reached
  <2>. QED
    BY <2>1, <2>2 DEF DeletedInv
<1>9. FoundInv'
  BY <1>3 DEF FoundInv, Seeks, Of, Target, Pair
<1>10. PairsInv'
  <2>1. /\ ~Reached(r, Adds, {<<"reload_pair">>, <<>>})'
        /\ ~Reached(r, Drops, {<<"drop_pairs">>, <<>>})'
    BY <1>1, <1>5 DEF Reached
  <2>. QED
    BY <1>1, <2>1, PairsFollow
<1>11. ~Waiting(r)'
  BY <1>1, NotWaiting DEF Waiting
<1>12. ASSUME NEW q \in Requests, Revoked(q), NEW p \in Requests,
              q \in req'[p].before, req'[p].as # None, req'[p].as.id = req'[q].row
       PROVE  req'[p].code # 200 /\ (req'[p].code = 0 => Waiting(p)')
  <2>1. req[p].code # 200 /\ (req[p].code = 0 => Waiting(p))
    BY <1>3, <1>12 DEF RevokedInv
  <2>. QED
    BY <1>1, <1>4, <2>1
<1>. QED
  BY <1>6, <1>7, <1>8, <1>9, <1>10, <1>11, <1>12

\* The step is done, and r has what it will answer (database/model.py Client.new).
LEMMA TellGoes ==
  ASSUME Typed, WorkInv, NEW r \in Requests, NEW step, At(r, step), NEW key \in Ids,
         req' = [req EXCEPT ![r].todo = Tail(@), ![r].got = <<key, r>>]
  PROVE  /\ Kept(r) /\ req'[r].user = req[r].user /\ req'[r].found = req[r].found
         /\ req'[r].row = req[r].row /\ req'[r].code = req[r].code
         /\ req'[r].todo = Tail(req[r].todo) /\ req'[r].got = <<key, r>>
<1> DEFINE todo == Tail(req[r].todo)
<1> DEFINE got == <<key, r>>
<1>1. req[r] \in Request /\ todo \in Seq(Steps)
  BY AtStep
<1>2. got \in (Ids \X Ids) \cup {None}
  BY DEF Ids
<1>3. /\ req \in [Requests -> Request]
      /\ req' = [req EXCEPT ![r] = [req[r] EXCEPT !.todo = todo, !.got = got]]
  BY DEF Typed
<1> HIDE DEF todo, got
<1>4. [req[r] EXCEPT !.todo = todo, !.got = got] \in Request
  BY <1>1, <1>2, ZenonT(40) DEF Request
<1>5. /\ req' \in [Requests -> Request] /\ \A q \in Requests \ {r} : req'[q] = req[q]
      /\ req'[r] = [req[r] EXCEPT !.todo = todo, !.got = got]
  BY <1>3, <1>4
<1>6. /\ Kept(r) /\ req'[r].user = req[r].user /\ req'[r].found = req[r].found
      /\ req'[r].row = req[r].row /\ req'[r].code = req[r].code
      /\ req'[r].todo = todo /\ req'[r].got = got
  BY <1>1, <1>5 DEF Kept, Request
<1>. QED
  BY <1>6 DEF todo, got

\* Nobody has what a request that gives out credentials has just been named for
\* (database/model.py Client.new).
LEMMA AddClientStep ==
  ASSUME IInv, NEW r \in Requests, AddClient(r)
  PROVE  IInv'
<1> USE DEF IInv
<1> DEFINE k == req[r].kind
<1> DEFINE todo == Tail(req[r].todo)
<1> DEFINE new == Credentials(r, Target(r), DEFAULT_CLIENT_LEVEL)
<1>1. /\ At(r, "add_client") /\ users' = users /\ facilities' = facilities /\ spare' = spare
      /\ recommended' = recommended /\ pairs' = pairs /\ session' = session
  BY DEF AddClient
<1>2. /\ k \in DOMAIN Program /\ req[r].todo \in Todo(k) /\ req[r].todo # <<>> /\ k # None
      /\ Head(req[r].todo) = "add_client" /\ r \in Busy /\ req[r].code = 0 /\ Target(r) \in Users
  BY <1>1, AtWorkStep
<1>3. k \in Makers
  BY <1>2, StepKinds
<1>4. Todo(k) = Making(k) \cup Made(k)
  BY <1>3, Sorts DEF Todo
<1>5. req[r].todo \in Making(k) /\ todo \in Made(k) \ Reloads
  BY <1>2, <1>3, <1>4, MakersNext
<1>6. CASE End(r, "Critical") /\ clients' = clients
  <2>1. "Critical" \in Answered \ {"OK"}
    BY DEF Answered
  <2>2. Benign(r)
    BY <1>2, <1>6, <2>1, EndFails, FailsBenign
  <2>. QED
    BY <1>1, <1>6, <2>2, LooksUp DEF tables
<1>7. CASE /\ Target(r) \in users /\ ClientOf(Target(r)) = {} /\ clients' = clients \cup {new}
           /\ req' = [req EXCEPT ![r].todo = Tail(@), ![r].got = <<r, r>>]
  <2>1. /\ Kept(r) /\ req'[r].user = req[r].user /\ req'[r].found = req[r].found
        /\ req'[r].row = req[r].row /\ req'[r].code = 0
        /\ req'[r].todo = todo /\ req'[r].got = <<r, r>>
    BY <1>1, <1>2, <1>7, TellGoes DEF Ids
  <2>2. /\ new.id = r /\ new.user = Target(r) /\ new.key = r /\ new.secret = r
    BY DEF Credentials
  <2>3. new \in ClientRows
    BY <1>2 DEF Credentials, ClientRows, Ids, DEFAULT_CLIENT_LEVEL
  <2> HIDE DEF new
  <2>4. clients' \subseteq ClientRows
    BY <1>7, <2>3 DEF Typed
  <2>5. /\ Typed' /\ WorkInv' /\ DeletedInv' /\ FoundInv' /\ PairsInv' /\ ~Waiting(r)'
        /\ \A q \in Requests : Revoked(q) => \A p \in Requests :
             q \in req'[p].before /\ req'[p].as # None /\ req'[p].as.id = req'[q].row =>
               req'[p].code # 200 /\ (req'[p].code = 0 => Waiting(p)')
    BY <1>1, <1>3, <1>4, <1>5, <2>1, <2>4, Credited
  <2>6. Unused(r)
    BY <1>2, <1>3, <1>5 DEF UnusedInv, Writes
  <2>7. ~Writes(r)' /\ ~Reloading(r)' /\ ~Revoked(r)'
    <3>1. todo \notin Making(k)
      BY <1>3, <1>5, MakingNotMade
    <3>2. k # "revoke_credentials"
      BY <1>3, Sorts
    <3>. QED
      BY <1>5, <2>1, <2>5, <3>1, <3>2 DEF Writes, Reloading, Reloads, Revoked, Reached, Kept
  <2>8. \A q \in Requests \ {r} : /\ req'[q] = req[q] /\ (Writes(q)' <=> Writes(q))
                                  /\ (Reloading(q)' <=> Reloading(q)) /\ (Revoked(q)' <=> Revoked(q))
    BY <2>1, OthersKept
  <2>9. \A q \in Requests : /\ req'[q].row = req[q].row /\ req'[q].as = req[q].as
                            /\ req'[q].kind = req[q].kind
    BY <2>1 DEF Kept
  <2>10. Integrity'
    BY <1>1, <1>7, <2>2 DEF Integrity, ClientOf
  <2>11. DistinctInv'
    BY <1>7, <2>2, <2>6 DEF DistinctInv, Unused
  <2>12. UnusedInv'
    <3>1. ASSUME NEW q \in Requests, req'[q].kind = None \/ Writes(q)'
          PROVE  q # r /\ Unused(q)
      <4>1. q # r
        BY <1>2, <2>7, <2>9, <3>1
      <4>. QED
        BY <2>8, <2>9, <3>1, <4>1 DEF UnusedInv
    <3>2. ASSUME NEW q \in Requests, q # r, Unused(q) PROVE Unused(q)'
      <4>1. \A c \in clients' : c.id # q /\ c.key # q /\ c.secret # q
        BY <1>7, <2>2, <3>2 DEF Unused
      <4>. QED
        BY <2>2, <2>9, <3>2, <4>1 DEF Unused
    <3>. QED
      BY <3>1, <3>2 DEF UnusedInv
  <2>13. SecretInv'
    <3>1. \A q \in Requests : req[q].as # None => req[q].as.secret # r
      BY <2>6 DEF Unused
    <3>2. ASSUME NEW q \in Requests, req'[q].as # None, NEW c \in clients',
                 c.secret = req'[q].as.secret
          PROVE  c.id = req'[q].as.id
      <4>1. req'[q].as = req[q].as
        BY <2>9
      <4>2. c # new
        BY <2>2, <3>1, <3>2, <4>1
      <4>3. c \in clients
        BY <1>7, <4>2
      <4>. QED
        BY <3>2, <4>1, <4>3 DEF SecretInv
    <3>. QED
      BY <3>2 DEF SecretInv
  <2>14. RevokedInv'
    <3>1. \A q \in Requests : Revoked(q)' => Revoked(q)
      BY <2>7, <2>8
    <3>2. ASSUME NEW q \in Requests, Revoked(q)
          PROVE  req'[q].row \in Ids /\ \A c \in clients' : c.id = req'[q].row => ~c.valid
      <4>1. req'[q].row = req[q].row /\ req[q].row \in Ids
        BY <2>9, <3>2 DEF RevokedInv
      <4>2. req[q].row # new.id
        BY <2>2, <2>6 DEF Unused
      <4>3. \A c \in clients : c.id = req[q].row => ~c.valid
        BY <3>2 DEF RevokedInv
      <4>. QED
        BY <1>7, <4>1, <4>2, <4>3
    <3>. QED
      BY <2>5, <3>1, <3>2 DEF RevokedInv
  <2>15. TellInv'
    <3> SUFFICES ASSUME NEW c \in clients', NEW q \in Requests, c.secret = q,
                        req'[q].code \in {0, 200}, req'[q].kind # "get_token_for_user"
                 PROVE  Tells(c, q)'
      BY DEF TellInv
    <3>1. CASE c = new
      BY <2>1, <2>2, <2>7, <3>1 DEF Tells
    <3>2. CASE c \in clients
      <4>1. q # r
        BY <2>6, <3>2 DEF Unused
      <4>2. Tells(c, q)
        BY <2>8, <3>2, <4>1 DEF TellInv
      <4>. QED
        BY <2>8, <4>1, <4>2 DEF Tells
    <3>. QED
      BY <1>7, <3>1, <3>2
  <2>. QED
    BY <2>5, <2>10, <2>11, <2>12, <2>13, <2>14, <2>15
<1>. QED
  BY <1>6, <1>7 DEF AddClient

\* A client keeps its id, and has the secret, and the key if it is new, that r
\* generated (database/model.py Client.new_key, new_secret).
LEMMA WriteClientStep ==
  ASSUME IInv, NEW r \in Requests, WriteClient(r)
  PROVE  IInv'
<1> USE DEF IInv
<1> DEFINE k == req[r].kind
<1> DEFINE todo == Tail(req[r].todo)
<1>1. /\ users' = users /\ facilities' = facilities /\ spare' = spare
      /\ recommended' = recommended /\ pairs' = pairs /\ session' = session
  BY DEF WriteClient
<1>2. PICK step \in {"write_key", "write_secret"} : At(r, step)
  BY DEF WriteClient
<1>3. /\ k \in DOMAIN Program /\ req[r].todo \in Todo(k) /\ req[r].todo # <<>> /\ k # None
      /\ Head(req[r].todo) = step /\ r \in Busy /\ req[r].code = 0
  BY <1>2, AtWorkStep
<1>4. k \in Makers
  BY <1>3, StepKinds
<1>5. Todo(k) = Making(k) \cup Made(k)
  BY <1>4, Sorts DEF Todo
<1>6. /\ req[r].todo \in Making(k) /\ todo \in Made(k) \cap Reloads
      /\ step = "write_secret" => k \notin Keyed
  BY <1>3, <1>4, <1>5, MakersNext
<1>7. CASE End(r, "Critical") /\ clients' = clients
  <2>1. "Critical" \in Answered \ {"OK"}
    BY DEF Answered
  <2>2. Benign(r)
    BY <1>3, <1>7, <2>1, EndFails, FailsBenign
  <2>. QED
    BY <1>1, <1>7, <2>2, LooksUp DEF tables
<1>8. ASSUME NEW c \in Loaded(r), Proceed(r),
             clients' = (clients \ {c}) \cup
               {[c EXCEPT !.secret = r, !.key = IF At(r, "write_key") THEN r ELSE @]}
      PROVE  IInv'
  <2> DEFINE key == IF At(r, "write_key") THEN r ELSE c.key
  <2> DEFINE new == [c EXCEPT !.secret = r, !.key = key]
  <2>1. c \in clients /\ c.id = req[r].row /\ c \in ClientRows
    BY DEF Loaded, WithId, Typed
  <2>2. key \in Ids /\ r \in Ids /\ (k \in Keyed => key = r) /\ key \in {r, c.key}
    BY <1>2, <1>6, <2>1 DEF Ids, ClientRows
  <2>3. clients' = (clients \ {c}) \cup {new}
    BY <1>8
  <2> HIDE DEF key
  <2>4. new \in ClientRows
    BY <2>1, <2>2 DEF ClientRows
  <2>5. /\ new.id = c.id /\ new.user = c.user /\ new.key = key /\ new.secret = r
        /\ new.valid = c.valid
    BY <2>1 DEF ClientRows
  <2> HIDE DEF new
  <2>6. clients' \subseteq ClientRows
    BY <2>3, <2>4 DEF Typed
  <2>7. Goes(r, todo, req[r].row)
    BY <1>2, <1>8, ProceedGoes
  <2>8. /\ Kept(r) /\ req'[r].user = req[r].user /\ req'[r].found = req[r].found
        /\ req'[r].row = req[r].row /\ req'[r].code = 0 /\ req'[r].todo = todo
    BY <1>3, <2>7 DEF Goes
  <2>9. /\ Typed' /\ WorkInv' /\ DeletedInv' /\ FoundInv' /\ PairsInv' /\ ~Waiting(r)'
        /\ \A q \in Requests : Revoked(q) => \A p \in Requests :
             q \in req'[p].before /\ req'[p].as # None /\ req'[p].as.id = req'[q].row =>
               req'[p].code # 200 /\ (req'[p].code = 0 => Waiting(p)')
    BY <1>1, <1>2, <1>4, <1>5, <1>6, <2>6, <2>8, Credited
  <2>10. Unused(r)
    BY <1>3, <1>4, <1>6 DEF UnusedInv, Writes
  <2>11. ~Writes(r)' /\ Reloading(r)' /\ ~Revoked(r)'
    <3>1. todo \notin Making(k)
      BY <1>4, <1>6, MakingNotMade
    <3>2. k # "revoke_credentials"
      BY <1>4, Sorts
    <3>. QED
      BY <1>6, <2>8, <2>9, <3>1, <3>2 DEF Writes, Reloading, Reloads, Revoked, Reached, Kept
  <2>12. \A q \in Requests \ {r} : /\ req'[q] = req[q] /\ (Writes(q)' <=> Writes(q))
                                   /\ (Reloading(q)' <=> Reloading(q)) /\ (Revoked(q)' <=> Revoked(q))
    BY <2>8, OthersKept
  <2>13. \A q \in Requests : /\ req'[q].row = req[q].row /\ req'[q].as = req[q].as
                             /\ req'[q].kind = req[q].kind
    BY <2>8 DEF Kept
  <2>14. Integrity'
    <3>1. ASSUME NEW d \in clients' PROVE \E e \in clients : e.id = d.id /\ e.user = d.user /\ (d = e \/ e = c)
      BY <2>1, <2>3, <2>5
    <3>2. \A d, e \in clients' : d.user = e.user => d = e
      BY <2>1, <2>3, <2>5 DEF Integrity
    <3>3. \A d \in clients' : d.user \in users
      BY <3>1 DEF Integrity
    <3>4. session \subseteq {d.id : d \in clients'}
      BY <2>1, <2>3, <2>5 DEF Integrity
    <3>. QED
      BY <1>1, <3>2, <3>3, <3>4 DEF Integrity
  <2>15. DistinctInv'
    <3>1. \A d \in clients : d.secret # r
      BY <2>10 DEF Unused
    <3>. QED
      BY <2>1, <2>3, <2>5, <3>1 DEF DistinctInv
  <2>16. UnusedInv'
    <3>1. ASSUME NEW q \in Requests, req'[q].kind = None \/ Writes(q)'
          PROVE  q # r /\ Unused(q)
      <4>1. q # r
        BY <1>3, <2>11, <2>13, <3>1
      <4>. QED
        BY <2>12, <2>13, <3>1, <4>1 DEF UnusedInv
    <3>2. ASSUME NEW q \in Requests, q # r, Unused(q) PROVE Unused(q)'
      BY <2>1, <2>2, <2>3, <2>5, <2>13, <3>2 DEF Unused
    <3>. QED
      BY <3>1, <3>2 DEF UnusedInv
  <2>17. SecretInv'
    <3>1. \A q \in Requests : req[q].as # None => req[q].as.secret # r
      BY <2>10 DEF Unused
    <3>2. ASSUME NEW q \in Requests, req'[q].as # None, NEW d \in clients',
                 d.secret = req'[q].as.secret
          PROVE  d.id = req'[q].as.id
      <4>1. req'[q].as = req[q].as
        BY <2>13
      <4>2. d # new
        BY <2>5, <3>1, <3>2, <4>1
      <4>3. d \in clients
        BY <2>3, <4>2
      <4>. QED
        BY <3>2, <4>1, <4>3 DEF SecretInv
    <3>. QED
      BY <3>2 DEF SecretInv
  <2>18. RevokedInv'
    <3>1. \A q \in Requests : Revoked(q)' => Revoked(q)
      BY <2>11, <2>12
    <3>2. ASSUME NEW q \in Requests, Revoked(q)
          PROVE  req'[q].row \in Ids /\ \A d \in clients' : d.id = req'[q].row => ~d.valid
      <4>1. req'[q].row = req[q].row /\ req[q].row \in Ids
        BY <2>13, <3>2 DEF RevokedInv
      <4>2. \A d \in clients : d.id = req[q].row => ~d.valid
        BY <3>2 DEF RevokedInv
      <4>. QED
        BY <2>1, <2>3, <2>5, <4>1, <4>2
    <3>. QED
      BY <2>9, <3>1, <3>2 DEF RevokedInv
  <2>19. TellInv'
    <3> SUFFICES ASSUME NEW d \in clients', NEW q \in Requests, d.secret = q,
                        req'[q].code \in {0, 200}, req'[q].kind # "get_token_for_user"
                 PROVE  Tells(d, q)'
      BY DEF TellInv
    <3>1. CASE d = new
      BY <2>1, <2>2, <2>5, <2>8, <2>11, <2>13, <3>1 DEF Tells
    <3>2. CASE d \in clients
      <4>1. q # r
        BY <2>10, <3>2 DEF Unused
      <4>2. Tells(d, q)
        BY <2>12, <3>2, <4>1 DEF TellInv
      <4>. QED
        BY <2>12, <4>1, <4>2 DEF Tells
    <3>. QED
      BY <2>3, <3>1, <3>2
  <2>. QED
    BY <2>9, <2>14, <2>15, <2>16, <2>17, <2>18, <2>19
<1>. QED
  BY <1>7, <1>8 DEF WriteClient

\* What is loaded after the commit is what was stored with the secret that r
\* generated (database/model.py Client.new_secret).
LEMMA ReloadClientStep ==
  ASSUME IInv, NEW r \in Requests, ReloadClient(r)
  PROVE  IInv'
<1> USE DEF IInv
<1> DEFINE k == req[r].kind
<1> DEFINE todo == Tail(req[r].todo)
<1>1. UNCHANGED tables /\ At(r, "reload_client")
  BY DEF ReloadClient
<1>2. /\ k \in DOMAIN Program /\ req[r].todo \in Todo(k) /\ req[r].todo # <<>> /\ k # None
      /\ Head(req[r].todo) = "reload_client" /\ r \in Busy /\ req[r].code = 0
  BY <1>1, AtWorkStep
<1>3. k \in Makers
  BY <1>2, StepKinds
<1>4. Todo(k) = Making(k) \cup Made(k)
  BY <1>3, Sorts DEF Todo
<1>5. req[r].todo \in Reloads /\ todo \in Made(k) \ Reloads
  BY <1>2, <1>3, <1>4, MakersNext
<1>6. CASE End(r, "Critical")
  <2>1. "Critical" \in Answered \ {"OK"}
    BY DEF Answered
  <2>2. Benign(r)
    BY <1>2, <1>6, <2>1, EndFails, FailsBenign
  <2>. QED
    BY <1>1, <2>2, LooksUp
<1>7. ASSUME NEW c \in Loaded(r),
             req' = [req EXCEPT ![r].todo = Tail(@), ![r].got =
                      <<IF req[r].kind \in {"get_client", "update_key"} THEN r ELSE c.key, r>>]
      PROVE  IInv'
  <2> DEFINE key == IF req[r].kind \in {"get_client", "update_key"} THEN r ELSE c.key
  <2>1. c \in clients /\ c.id = req[r].row /\ key \in Ids
    BY DEF Loaded, WithId, Typed, ClientRows, Ids
  <2>2. (k \in Keyed => key = r) /\ (k \notin Keyed => key = c.key)
    BY DEF Keyed
  <2>3. req' = [req EXCEPT ![r].todo = Tail(@), ![r].got = <<key, r>>]
    BY <1>7
  <2> HIDE DEF key
  <2>4. /\ Kept(r) /\ req'[r].user = req[r].user /\ req'[r].found = req[r].found
        /\ req'[r].row = req[r].row /\ req'[r].code = 0
        /\ req'[r].todo = todo /\ req'[r].got = <<key, r>>
    BY <1>1, <1>2, <2>1, <2>3, TellGoes
  <2>5. /\ users' = users /\ facilities' = facilities /\ spare' = spare /\ pairs' = pairs
        /\ recommended' = recommended /\ clients' = clients /\ session' = session
    BY <1>1 DEF tables
  <2>6. clients' \subseteq ClientRows
    BY <2>5 DEF Typed
  <2>7. /\ Typed' /\ WorkInv' /\ DeletedInv' /\ FoundInv' /\ PairsInv' /\ ~Waiting(r)'
        /\ \A q \in Requests : Revoked(q) => \A p \in Requests :
             q \in req'[p].before /\ req'[p].as # None /\ req'[p].as.id = req'[q].row =>
               req'[p].code # 200 /\ (req'[p].code = 0 => Waiting(p)')
    BY <1>1, <1>3, <1>4, <1>5, <2>4, <2>5, <2>6, Credited
  <2>8. ~Writes(r)' /\ Reloading(r) /\ ~Reloading(r)' /\ ~Revoked(r)'
    <3>1. todo \notin Making(k)
      BY <1>3, <1>5, MakingNotMade
    <3>2. k # "revoke_credentials"
      BY <1>3, Sorts
    <3>. QED
      BY <1>2, <1>5, <2>4, <2>7, <3>1, <3>2 DEF Writes, Reloading, Reloads, Revoked, Reached, Kept
  <2>9. \A q \in Requests \ {r} : /\ req'[q] = req[q] /\ (Writes(q)' <=> Writes(q))
                                  /\ (Reloading(q)' <=> Reloading(q)) /\ (Revoked(q)' <=> Revoked(q))
    BY <2>4, OthersKept
  <2>10. \A q \in Requests : /\ req'[q].row = req[q].row /\ req'[q].as = req[q].as
                             /\ req'[q].kind = req[q].kind
    BY <2>4 DEF Kept
  <2>11. Integrity' /\ DistinctInv'
    BY <2>5 DEF Integrity, DistinctInv
  <2>12. UnusedInv'
    <3>1. ASSUME NEW q \in Requests, req'[q].kind = None \/ Writes(q)' PROVE Unused(q)
      BY <2>8, <2>9, <2>10, <3>1 DEF UnusedInv
    <3>2. ASSUME NEW q \in Requests, Unused(q) PROVE Unused(q)'
      BY <2>5, <2>10, <3>2 DEF Unused
    <3>. QED
      BY <3>1, <3>2 DEF UnusedInv
  <2>13. SecretInv'
    BY <2>5, <2>10 DEF SecretInv
  <2>14. RevokedInv'
    <3>1. \A q \in Requests : Revoked(q)' => Revoked(q)
      BY <2>8, <2>9
    <3>2. ASSUME NEW q \in Requests, Revoked(q)
          PROVE  req'[q].row \in Ids /\ \A d \in clients' : d.id = req'[q].row => ~d.valid
      BY <2>5, <2>10, <3>2 DEF RevokedInv
    <3>. QED
      BY <2>7, <3>1, <3>2 DEF RevokedInv
  <2>15. TellInv'
    <3> SUFFICES ASSUME NEW d \in clients, NEW q \in Requests, d.secret = q,
                        req'[q].code \in {0, 200}, req'[q].kind # "get_token_for_user"
                 PROVE  Tells(d, q)'
      BY <2>5 DEF TellInv
    <3>1. CASE q = r
      <4>1. req[r].row = d.id /\ (k \in Keyed => d.key = r)
        BY <1>2, <2>8, <2>10, <3>1 DEF TellInv, Tells
      <4>2. d = c
        BY <2>1, <4>1 DEF DistinctInv
      <4>. QED
        BY <2>2, <2>4, <2>8, <3>1, <4>1, <4>2 DEF Tells
    <3>2. CASE q # r
      <4>1. Tells(d, q)
        BY <2>9, <3>2 DEF TellInv
      <4>. QED
        BY <2>9, <3>2, <4>1 DEF Tells
    <3>. QED
      BY <3>1, <3>2
  <2>. QED
    BY <2>7, <2>11, <2>12, <2>13, <2>14, <2>15
<1>. QED
  BY <1>1, <1>6, <1>7 DEF ReloadClient

\* The client that was loaded is not valid any more (apps/refitt/auth.py
\* revoke_credentials).
LEMMA RevokeStep ==
  ASSUME IInv, NEW r \in Requests, Revoke(r)
  PROVE  IInv'
<1> USE DEF IInv
<1> DEFINE k == req[r].kind
<1>1. /\ At(r, "revoke") /\ users' = users /\ facilities' = facilities /\ spare' = spare
      /\ recommended' = recommended /\ pairs' = pairs /\ session' = session
  BY DEF Revoke
<1>2. /\ k \in DOMAIN Program /\ req[r].todo \in Todo(k) /\ req[r].todo # <<>> /\ k # None
      /\ Head(req[r].todo) = "revoke" /\ r \in Busy /\ req[r].code = 0
  BY <1>1, AtWorkStep
<1>3. k = "revoke_credentials"
  BY <1>2, StepKinds
<1>4. k \notin Makers /\ <<>> \in Todo(k)
  BY <1>3, Sorts DEF Todo
<1>5. Tail(req[r].todo) = <<>>
  BY <1>2, <1>3, RevokeNext
<1>6. CASE End(r, "Critical") /\ clients' = clients
  <2>1. "Critical" \in Answered \ {"OK"}
    BY DEF Answered
  <2>2. Benign(r)
    BY <1>2, <1>6, <2>1, EndFails, FailsBenign
  <2>. QED
    BY <1>1, <1>6, <2>2, LooksUp DEF tables
<1>7. CASE /\ Loaded(r) # {} /\ Proceed(r)
           /\ clients' = (clients \ Loaded(r)) \cup {[c EXCEPT !.valid = FALSE] : c \in Loaded(r)}
  <2>1. \A c \in Loaded(r) : c \in clients /\ c.id = req[r].row /\ c \in ClientRows
    BY DEF Loaded, WithId, Typed
  <2>2. \A d \in clients : d.id = req[r].row => d \in Loaded(r)
    BY DEF Loaded, WithId
  <2>3. clients' \subseteq ClientRows
    BY <1>7, <2>1 DEF Typed, ClientRows
  <2>4. ASSUME NEW d \in clients'
        PROVE  \E c \in clients :
                 /\ d.id = c.id /\ d.user = c.user /\ d.key = c.key /\ d.secret = c.secret
                 /\ d.id = req[r].row => ~d.valid
                 /\ d.id # req[r].row => d = c
                 /\ d.id = req[r].row => d = [c EXCEPT !.valid = FALSE]
    <3>1. CASE d \in clients \ Loaded(r)
      BY <2>2, <3>1
    <3>2. ASSUME NEW c \in Loaded(r), d = [c EXCEPT !.valid = FALSE]
          PROVE  /\ c \in clients /\ d.id = c.id /\ d.user = c.user /\ d.key = c.key
                 /\ d.secret = c.secret /\ d.id = req[r].row /\ ~d.valid
      BY <2>1, <3>2 DEF ClientRows
    <3>. QED
      BY <1>7, <3>1, <3>2
  <2>5. ASSUME NEW c \in clients PROVE \E d \in clients' : d.id = c.id
    <3>1. CASE c \notin Loaded(r)
      BY <1>7, <3>1
    <3>2. CASE c \in Loaded(r)
      <4>1. [c EXCEPT !.valid = FALSE] \in clients'
        BY <1>7, <3>2
      <4>2. [c EXCEPT !.valid = FALSE].id = c.id
        BY <2>1, <3>2 DEF ClientRows
      <4>. QED
        BY <4>1, <4>2
    <3>. QED
      BY <3>1, <3>2
  <2>6. Goes(r, <<>>, req[r].row)
    BY <1>1, <1>5, <1>7, ProceedGoes
  <2>7. /\ Kept(r) /\ req'[r].user = req[r].user /\ req'[r].found = req[r].found
        /\ req'[r].row = req[r].row /\ req'[r].code = 0 /\ req'[r].todo = <<>>
        /\ req'[r].got = req[r].got
    BY <1>2, <2>6 DEF Goes
  <2>8. /\ Typed' /\ WorkInv' /\ DeletedInv' /\ FoundInv' /\ PairsInv' /\ ~Waiting(r)'
        /\ \A q \in Requests : Revoked(q) => \A p \in Requests :
             q \in req'[p].before /\ req'[p].as # None /\ req'[p].as.id = req'[q].row =>
               req'[p].code # 200 /\ (req'[p].code = 0 => Waiting(p)')
    BY <1>1, <1>3, <1>4, <2>3, <2>7, Credited
  <2>9. ~Writes(r)' /\ ~Reloading(r) /\ ~Reloading(r)'
    <3>1. \A t \in Reloads : t # <<>> /\ Head(t) = "reload_client"
      BY DEF Reloads
    <3>. QED
      BY <1>2, <1>4, <2>7, <3>1 DEF Writes, Reloading, Reloads, Kept
  <2>10. \A q \in Requests \ {r} : /\ req'[q] = req[q] /\ (Writes(q)' <=> Writes(q))
                                   /\ (Reloading(q)' <=> Reloading(q)) /\ (Revoked(q)' <=> Revoked(q))
    BY <2>7, OthersKept
  <2>11. \A q \in Requests : /\ req'[q].row = req[q].row /\ req'[q].as = req[q].as
                             /\ req'[q].kind = req[q].kind /\ req'[q].before = req[q].before
                             /\ req'[q].got = req[q].got
    BY <2>7 DEF Kept
  <2>12. Integrity'
    <3>1. ASSUME NEW d \in clients', NEW e \in clients', d.user = e.user PROVE d = e
      <4>1. PICK c \in clients : /\ d.id = c.id /\ d.user = c.user
                                 /\ d.id # req[r].row => d = c
                                 /\ d.id = req[r].row => d = [c EXCEPT !.valid = FALSE]
        BY <2>4
      <4>2. PICK b \in clients : /\ e.id = b.id /\ e.user = b.user
                                 /\ e.id # req[r].row => e = b
                                 /\ e.id = req[r].row => e = [b EXCEPT !.valid = FALSE]
        BY <2>4
      <4>3. b = c
        BY <3>1, <4>1, <4>2 DEF Integrity
      <4>. QED
        BY <4>1, <4>2, <4>3
    <3>2. \A d \in clients' : d.user \in users
      BY <2>4 DEF Integrity
    <3>3. session \subseteq {d.id : d \in clients'}
      BY <2>5 DEF Integrity
    <3>. QED
      BY <1>1, <3>1, <3>2, <3>3 DEF Integrity
  <2>13. DistinctInv'
    <3> SUFFICES ASSUME NEW d \in clients', NEW e \in clients', d.id = e.id \/ d.secret = e.secret
                 PROVE  d = e
      BY DEF DistinctInv
    <3>1. PICK c \in clients : /\ d.id = c.id /\ d.secret = c.secret
                               /\ d.id # req[r].row => d = c
                               /\ d.id = req[r].row => d = [c EXCEPT !.valid = FALSE]
      BY <2>4
    <3>2. PICK b \in clients : /\ e.id = b.id /\ e.secret = b.secret
                               /\ e.id # req[r].row => e = b
                               /\ e.id = req[r].row => e = [b EXCEPT !.valid = FALSE]
      BY <2>4
    <3>3. b = c
      BY <3>1, <3>2 DEF DistinctInv
    <3>. QED
      BY <3>1, <3>2, <3>3
  <2>14. UnusedInv'
    <3>1. ASSUME NEW q \in Requests, req'[q].kind = None \/ Writes(q)' PROVE Unused(q)
      BY <2>9, <2>10, <2>11, <3>1 DEF UnusedInv
    <3>2. ASSUME NEW q \in Requests, Unused(q) PROVE Unused(q)'
      BY <2>4, <2>11, <3>2 DEF Unused
    <3>. QED
      BY <3>1, <3>2 DEF UnusedInv
  <2>15. SecretInv'
    BY <2>4, <2>11 DEF SecretInv
  <2>16. RevokedInv'
    <3>1. req[r].row \in Ids
      BY <1>7, <2>1 DEF ClientRows
    <3>2. \A p \in Requests : r \notin req'[p].before
      BY <1>2, <2>11 DEF WorkInv, AtWork, Busy
    <3>3. ASSUME NEW q \in Requests, q # r, Revoked(q)'
          PROVE  Revoked(q) /\ req'[q].row \in Ids /\ \A d \in clients' : d.id = req'[q].row => ~d.valid
      <4>1. Revoked(q)
        BY <2>10, <3>3
      <4>2. req[q].row \in Ids /\ \A c \in clients : c.id = req[q].row => ~c.valid
        BY <4>1 DEF RevokedInv
      <4>. QED
        BY <2>4, <2>11, <4>1, <4>2
    <3>4. \A d \in clients' : d.id = req'[r].row => ~d.valid
      BY <2>4, <2>11
    <3>. QED
      BY <2>8, <2>11, <3>1, <3>2, <3>3, <3>4 DEF RevokedInv
  <2>17. TellInv'
    <3> SUFFICES ASSUME NEW d \in clients', NEW q \in Requests, d.secret = q,
                        req'[q].code \in {0, 200}, req'[q].kind # "get_token_for_user"
                 PROVE  Tells(d, q)'
      BY DEF TellInv
    <3>1. PICK c \in clients : d.id = c.id /\ d.key = c.key /\ d.secret = c.secret
      BY <2>4
    <3>2. req[q].code \in {0, 200} /\ (Reloading(q)' <=> Reloading(q))
      BY <1>2, <2>9, <2>10
    <3>3. Tells(c, q)
      BY <2>11, <3>1, <3>2 DEF TellInv
    <3>. QED
      BY <2>11, <3>1, <3>2, <3>3 DEF Tells
  <2>. QED
    BY <2>8, <2>12, <2>13, <2>14, <2>15, <2>16, <2>17
<1>. QED
  BY <1>6, <1>7 DEF Revoke
------------------------------------------------------------------------------
(***************************************************************************)
(* The theorems.                                                           *)
(***************************************************************************)
\* The database before any request (database/model.py init_database).
LEMMA InitHolds ==
  ASSUME Init
  PROVE  IInv
<1>1. /\ users \subseteq Users /\ Root \in users /\ facilities \subseteq Facilities
      /\ spare = (Users \ users) \cup (Facilities \ facilities)
      /\ pairs \subseteq users \X facilities /\ recommended \subseteq pairs
      /\ session \subseteq {c.id : c \in clients}
      /\ req = [r \in Requests |-> Unsent]
  BY DEF Init
<1>2. PICK known \in SUBSET (users \ {Root}) :
        clients = {Credentials(Root, Root, 0)} \cup
                  {Credentials(u, u, DEFAULT_CLIENT_LEVEL) : u \in known}
  BY DEF Init
<1>3. ASSUME NEW c \in clients
      PROVE  /\ c \in ClientRows /\ c.user \in users
             /\ c.id = c.user /\ c.key = c.user /\ c.secret = c.user
             /\ c = Credentials(c.user, c.user, IF c.user = Root THEN 0 ELSE DEFAULT_CLIENT_LEVEL)
  <2>1. CASE c = Credentials(Root, Root, 0)
    <3>1. c.user = Root
      BY <2>1 DEF Credentials
    <3>. QED
      BY <1>1, <2>1, <3>1, AccountsAssumption DEF Credentials, ClientRows, Ids
  <2>2. ASSUME NEW u \in known, c = Credentials(u, u, DEFAULT_CLIENT_LEVEL)
        PROVE  /\ c \in ClientRows /\ c.user \in users
               /\ c.id = c.user /\ c.key = c.user /\ c.secret = c.user
               /\ c = Credentials(c.user, c.user, IF c.user = Root THEN 0 ELSE DEFAULT_CLIENT_LEVEL)
    <3>1. c.user = u /\ u # Root
      BY <2>2 DEF Credentials
    <3>. QED
      BY <1>1, <2>2, <3>1 DEF Credentials, ClientRows, Ids, DEFAULT_CLIENT_LEVEL
  <2>. QED
    BY <1>2, <2>1, <2>2
<1>4. \A c, d \in clients : c.user = d.user => c = d
  BY <1>3
<1>5. \A r \in Requests : req[r] = Unsent
  BY <1>1
<1>6. \A r \in Requests :
        /\ req[r].kind = None /\ req[r].as = None /\ req[r].row = None /\ req[r].code = 0
        /\ req[r].found = {} /\ req[r].before = {}
  BY <1>5 DEF Unsent
<1>7. Sent = {} /\ Over = {}
  BY <1>6 DEF Sent, Over
<1>8. \A r \in Requests, kinds \in SUBSET DOMAIN Program : \A todos : ~Reached(r, kinds, todos)
  BY <1>6, KindsAssumption DEF Reached
<1>9. Typed
  <2>1. Unsent \in Request
    BY DEF Unsent, Request
  <2>2. clients \subseteq ClientRows
    BY <1>3
  <2>3. session \subseteq Ids
    BY <1>1, <1>3 DEF ClientRows
  <2>4. users \cap spare = {}
    BY <1>1, AccountsAssumption
  <2>. QED
    BY <1>1, <1>7, <2>1, <2>2, <2>3, <2>4 DEF Typed
<1>10. Integrity
  BY <1>1, <1>3, <1>4 DEF Integrity
<1>11. WorkInv
  BY <1>5, <1>6 DEF WorkInv, AtWork
<1>12. DistinctInv
  BY <1>3, <1>4 DEF DistinctInv
<1>13. UnusedInv
  <2>1. \A r \in Requests : r \notin Users /\ r # None
    BY AccountsAssumption
  <2>. QED
    BY <1>1, <1>3, <1>6, <2>1 DEF UnusedInv, Unused
<1>14. SecretInv /\ FoundInv
  BY <1>6 DEF SecretInv, FoundInv
<1>15. {"revoke_credentials"} \subseteq DOMAIN Program /\ {"delete_user"} \subseteq DOMAIN Program
       /\ Adds \subseteq DOMAIN Program /\ Drops \subseteq DOMAIN Program
  BY Sorts
<1>16. RevokedInv /\ DeletedInv /\ PairsInv
  BY <1>8, <1>15 DEF RevokedInv, Revoked, DeletedInv, PairsInv
<1>17. TellInv
  BY <1>1, <1>3, AccountsAssumption DEF TellInv
<1>. QED
  BY <1>9, <1>10, <1>11, <1>12, <1>13, <1>14, <1>16, <1>17 DEF IInv

\* Every step of every request keeps the invariant (web/api/endpoint,
\* apps/refitt/auth.py, database/model.py).
LEMMA NextHolds ==
  ASSUME IInv, [Next]_vars
  PROVE  IInv'
<1>1. CASE UNCHANGED vars
  <2>1. /\ users' = users /\ facilities' = facilities /\ spare' = spare /\ pairs' = pairs
        /\ recommended' = recommended /\ clients' = clients /\ session' = session /\ req' = req
    BY <1>1 DEF vars, tables
  <2>2. \A r \in Requests : Waiting(r)' <=> Waiting(r)
    BY <2>1 DEF Waiting
  <2>3. \A r \in Requests : (Writes(r)' <=> Writes(r)) /\ (Reloading(r)' <=> Reloading(r))
    BY <2>1, <2>2 DEF Writes, Reloading
  <2>4. Typed'
    BY <2>1 DEF IInv, Typed, Sent
  <2>5. Integrity' /\ DistinctInv' /\ SecretInv'
    BY <2>1 DEF IInv, Integrity, DistinctInv, SecretInv
  <2>6. WorkInv'
    BY <2>1, <2>2 DEF IInv, WorkInv, AtWork, Sent, Over
  <2>7. UnusedInv'
    BY <2>1, <2>3 DEF IInv, UnusedInv, Unused
  <2>8. FoundInv'
    BY <2>1 DEF IInv, FoundInv, Seeks, Of, Pair, Target
  <2>9. RevokedInv'
    BY <2>1, <2>2 DEF IInv, RevokedInv, Revoked, Reached
  <2>10. TellInv'
    BY <2>1, <2>3 DEF IInv, TellInv, Tells
  <2>11. DeletedInv'
    BY <2>1 DEF IInv, DeletedInv, Reached, Target
  <2>12. PairsInv'
    <3>1. \A r \in Requests : /\ Undone(r)' <=> Undone(r)
                              /\ Redone(r)' <=> Redone(r)
      BY <2>1 DEF Undone, Redone, Sent, Of, SameUser, SameFacility, Target
    <3>. QED
      BY <2>1, <3>1 DEF IInv, PairsInv, Reached, Pair, Target
  <2>. QED
    BY <2>4, <2>5, <2>6, <2>7, <2>8, <2>9, <2>10, <2>11, <2>12 DEF IInv
<1>2. ASSUME NEW r \in Requests,
             \/ Receive(r) \/ Authenticated(r) \/ Authenticate(r) \/ Refused(r) \/ Answer(r)
             \/ FindUser(r) \/ FindFacility(r) \/ OwnUser(r) \/ Associated(r)
             \/ AddUser(r) \/ AddFacility(r) \/ Write(r)
      PROVE  IInv'
  BY <1>2, ReceiveStep, AuthenticateSteps, RefusedStep, AnswerStep, FindUserStep, LookupSteps, AddStep
<1>3. ASSUME NEW r \in Requests,
             \/ FindPair(r) \/ AddPair(r) \/ ReloadPair(r) \/ FindPairs(r) \/ DropPairs(r)
             \/ FindClientToDrop(r) \/ FindSessionToDrop(r) \/ DropSession(r) \/ DropClient(r)
             \/ DropUser(r) \/ DropFacility(r)
      PROVE  IInv'
  BY <1>3, FindPairStep, AddPairStep, LookupSteps, FindPairsStep, DropPairsStep, FindRows,
     DropCredentials, DropUserStep, DropFacilityStep
<1>4. ASSUME NEW r \in Requests,
             \/ FindClient(r) \/ AddClient(r) \/ ReloadUser(r) \/ WriteClient(r) \/ ReloadClient(r)
             \/ FindSession(r) \/ WriteSession(r) \/ FindRevoked(r) \/ Revoke(r)
      PROVE  IInv'
  BY <1>4, FindClientStep, AddClientStep, LookupSteps, WriteClientStep, ReloadClientStep, FindRows,
     WriteSessionStep, RevokeStep
<1>. QED
  BY <1>1, <1>2, <1>3, <1>4 DEF Next, Finished

\* The inductive invariant holds of every state of every run, for any number of
\* requests, users and facilities (database/model.py, web/api/endpoint).
THEOREM Invariant == Spec => []IInv
<1>1. Init => IInv
  BY InitHolds
<1>2. IInv /\ [Next]_vars => IInv'
  BY NextHolds
<1>. QED
  BY <1>1, <1>2, PTL DEF Spec

\* At every commit of every request the tables are well formed and refer to each
\* other: a user has one set of credentials at most, and no row refers to one
\* that is gone (database/model.py User.delete, Client.new, Session.new).
THEOREM TablesHold == Spec => []AccountsInv
<1>1. IInv => AccountsInv
  <2> SUFFICES ASSUME IInv PROVE TypeOK
    BY DEF IInv, AccountsInv
  <2>1. \A r \in Requests : req[r] \in Request
    BY DEF IInv, Typed
  <2>2. ASSUME NEW r \in Requests
        PROVE  /\ req[r].kind \in Kinds \cup {None}
               /\ req[r].as \in [id : Ids, key : Ids, secret : Ids] \cup {None, Former}
               /\ req[r].refused \in BOOLEAN
               /\ req[r].found \subseteq Users \X Facilities
               /\ req[r].code \in {0} \cup Codes
               /\ req[r].before \subseteq Requests
    BY <2>1 DEF Request
  <2>. QED
    BY <2>2 DEF IInv, Typed, TypeOK, Codes
<1>. QED
  BY <1>1, Invariant, PTL

\* A client that was revoked is not let in again, whatever other requests do
\* meanwhile to its key and secret (web/api/auth.py, apps/refitt/auth.py).
THEOREM RevokedStayOut == Spec => []RevokedOut
<1>1. IInv => RevokedOut
  <2> SUFFICES ASSUME IInv, NEW q \in Requests, NEW r \in Requests,
                      req[q].kind = "revoke_credentials", req[q].code = 200,
                      req[r].as # None, q \in req[r].before, req[r].as.id = req[q].row
               PROVE  req[r].code # 200
    BY DEF RevokedOut
  <2>1. req[q].todo = <<>>
    BY DEF IInv, WorkInv, AtWork
  <2>2. Revoked(q)
    BY <2>1 DEF Revoked, Reached
  <2>. QED
    BY <2>2 DEF IInv, RevokedInv
<1>. QED
  BY <1>1, Invariant, PTL

\* Key and secret that were answered are those that are stored, as long as the
\* secret is (database/model.py Client.new, new_key, new_secret).
THEOREM CredentialsAreTold == Spec => []CredentialsTold
<1>1. IInv => CredentialsTold
  <2> SUFFICES ASSUME IInv, NEW c \in clients, NEW r \in Requests, c.secret = r,
                      req[r].code = 200, req[r].kind # "get_token_for_user"
               PROVE  req[r].got = <<c.key, c.secret>>
    BY DEF CredentialsTold
  <2>1. ~Reloading(r)
    BY DEF Reloading
  <2>2. Tells(c, r)
    BY DEF IInv, TellInv
  <2>. QED
    BY <2>1, <2>2 DEF Tells
<1>. QED
  BY <1>1, Invariant, PTL

\* What an answered request associated, dissociated or deleted stays so until
\* another undoes it (database/model.py User.add_facility, delete_facility, delete).
THEOREM ChangesStay == Spec => []ChangesTold
<1>1. IInv => ChangesTold
  <2> SUFFICES ASSUME IInv PROVE AssociationsTold /\ DeletedGone
    BY DEF ChangesTold
  <2>1. \A r \in Requests : req[r].code = 200 => req[r].todo = <<>>
    BY DEF IInv, WorkInv, AtWork
  <2>2. AssociationsTold
    <3> SUFFICES ASSUME NEW r \in Requests, req[r].code = 200
                 PROVE  /\ Of(r, Adds) /\ Pair(r) \notin pairs => Undone(r)
                        /\ Of(r, Drops) /\ Pair(r) \in pairs => Redone(r)
      BY DEF AssociationsTold, Undone, Redone
    <3>1. Of(r, Adds) => Reached(r, Adds, {<<"reload_pair">>, <<>>})
      BY <2>1 DEF Of, Reached
    <3>2. Of(r, Drops) => /\ Reached(r, Drops, {<<"drop_pairs">>, <<>>})
                          /\ ~Reached(r, Drops, {<<"drop_pairs">>})
      BY <2>1 DEF Of, Reached
    <3>. QED
      BY <3>1, <3>2 DEF IInv, PairsInv
  <2>3. DeletedGone
    <3> SUFFICES ASSUME NEW r \in Requests, Of(r, {"delete_user"}), req[r].code = 200
                 PROVE  /\ Target(r) \notin users /\ ClientOf(Target(r)) = {}
                        /\ \A p \in pairs : p[1] # Target(r)
      BY DEF DeletedGone
    <3>1. Reached(r, {"delete_user"}, {<<>>})
      BY <2>1 DEF Of, Reached
    <3>2. Target(r) \notin users
      BY <3>1 DEF IInv, DeletedInv
    <3>. QED
      BY <3>2 DEF IInv, Integrity, ClientOf
  <2>. QED
    BY <2>2, <2>3
<1>. QED
  BY <1>1, Invariant, PTL
------------------------------------------------------------------------------
(***************************************************************************)
(* What requests are answered.                                             *)
(***************************************************************************)
\* The requests of the API, and what one that was admitted has still to do.
Served == DOMAIN Program \ CommandLine

\* Unlike in Todo, only the lists that the handler of k takes (web/api/endpoint).
Left(k) ==
  CASE k = "get_profile" -> {<<"own_user">>, <<>>}
    [] k \in {"search_user", "get_user", "get_all_user_facilities"} -> {<<"user">>, <<>>}
    [] k = "get_user_facility" -> {<<"user", "associated">>, <<"associated">>, <<>>}
    [] k \in {"get_facility", "get_all_facility_users"} -> {<<"facility">>, <<>>}
    [] k = "get_facility_user" -> {<<"facility", "associated">>, <<"associated">>, <<>>}
    [] k = "add_user" -> {<<"add_user">>, <<"user", "write_user">>, <<"write_user">>, <<>>}
    [] k = "update_user" -> {<<"user", "write_user">>, <<"write_user">>, <<>>}
    [] k = "add_facility" ->
         {<<"add_facility">>, <<"facility", "write_facility">>, <<"write_facility">>, <<>>}
    [] k = "update_facility" -> {<<"facility", "write_facility">>, <<"write_facility">>, <<>>}
    [] k = "get_token" -> {<<"session">>} \cup SessionSteps
    [] k = "add_user_facility_association" ->
         {<<"user", "facility", "associate">>, <<"facility", "associate">>, <<"associate">>,
          <<"add_pair", "reload_pair">>, <<"reload_pair">>, <<>>}
    [] k = "add_facility_user_association" ->
         {<<"facility", "user", "associate">>, <<"user", "associate">>, <<"associate">>,
          <<"add_pair", "reload_pair">>, <<"reload_pair">>, <<>>}
    [] OTHER -> Todo(k)

\* What was looked up, and has to be there still: the step that comes next is one of these.
IsNext(plan, steps) == plan # <<>> /\ Head(plan) \in steps

\* The user was found, and a step to come fails without it.
NeedsUser(plan) ==
  \/ IsNext(plan, {"own_user", "write_user", "client_to_drop", "session_to_drop", "drop_session",
                  "drop_client", "pairs_of_user", "drop_user", "associate", "add_pair",
                  "reload_pair", "add_client", "reload_user"})
  \/ plan \in {<<"drop_pairs", "drop_user">>, <<"facility", "associate">>}

\* So does one without the facility.
NeedsFacility(plan) ==
  \/ IsNext(plan, {"write_facility", "pairs_of_facility", "drop_facility", "associate", "add_pair",
                  "reload_pair"})
  \/ plan \in {<<"drop_pairs", "drop_facility">>, <<"user", "associate">>}

\* So does one without the client.
NeedsClient(plan) ==
  IsNext(plan, {"session_to_drop", "drop_session", "drop_client", "write_key", "write_secret",
               "reload_client", "old_session", "update_session", "add_session"})

\* The user has no client yet, and one is made for it.
Creating(k, plan) ==
  IsNext(plan, {"add_client"}) \/ (k \in Makers /\ IsNext(plan, {"user"}))

\* What r has found is as it was.
Intact(r) ==
  LET plan == req[r].todo
      k == req[r].kind
  IN
  /\ IsNext(plan, {"token"}) => WithId(req[r].as.id) # {} \/ req[r].as = Former
  /\ NeedsUser(plan) => Target(r) \in users
  /\ NeedsFacility(plan) => req[r].facility \in facilities
  /\ NeedsClient(plan) => Loaded(r) # {}
  /\ IsNext(plan, {"drop_session", "update_session"}) => req[r].row \in session
  /\ IsNext(plan, {"add_session"}) => req[r].row \notin session
  /\ IsNext(plan, {"add_pair"}) => Pair(r) \notin pairs
  /\ IsNext(plan, {"drop_pairs"}) => req[r].found \subseteq pairs
  /\ Creating(k, plan) => ClientOf(Target(r)) = {}
  /\ k = "get_token" /\ IsNext(plan, {"session"}) => ClientOf(Target(r)) # {}

\* The status that r was answered is documented, or is one of the cases named
\* (AnswersDocumented, of one request).
Documented(r) ==
  \/ req[r].code \in Program[req[r].kind].docs \cup {400}
  \/ req[r].code = 401 /\ req[r].kind = "get_token"
  \/ req[r].code = 404 /\ req[r].kind \in {"add_user", "add_facility"}
  \/ req[r].code = 404 /\ req[r].as = Former
  \/ req[r].code = 500 /\ req[r].refused
  \/ req[r].code \in {404, 500} /\ Raced(r)

\* Until it is answered, a request that has raced no other finds what it needs.
Good(r) ==
  req[r].kind \in Served =>
    IF req[r].code = 0
    THEN (Waiting(r) \/ req[r].todo \in Left(req[r].kind)) /\ (Raced(r) \/ Intact(r))
    ELSE Documented(r)
\* With IInv, this is inductive.
DocInv == \A r \in Requests : Good(r)
------------------------------------------------------------------------------
(***************************************************************************)
(* The endpoints' steps and the statuses that they document.               *)
(***************************************************************************)
\* Each endpoint admits, and then takes its handler's steps (web/api/endpoint).
Handler(k) ==
  CASE k = "get_profile" -> <<"own_user">>
    [] k \in {"search_user", "get_user", "get_all_user_facilities"} -> <<"user">>
    [] k = "add_user" -> <<"add_user">>
    [] k = "update_user" -> <<"user", "write_user">>
    [] k = "delete_user" -> <<"user", "client_to_drop", "pairs_of_user", "drop_pairs", "drop_user">>
    [] k = "get_user_facility" -> <<"user", "associated">>
    [] k = "add_user_facility_association" -> <<"user", "facility", "associate">>
    [] k = "delete_user_facility_association" -> <<"user", "facility", "pair_of_both", "drop_pairs">>
    [] k = "add_facility" -> <<"add_facility">>
    [] k \in {"get_facility", "get_all_facility_users"} -> <<"facility">>
    [] k = "update_facility" -> <<"facility", "write_facility">>
    [] k = "delete_facility" -> <<"facility", "pairs_of_facility", "drop_pairs", "drop_facility">>
    [] k = "get_facility_user" -> <<"facility", "associated">>
    [] k = "add_facility_user_association" -> <<"facility", "user", "associate">>
    [] k = "delete_facility_user_association" -> <<"facility", "user", "pair_of_both", "drop_pairs">>
    [] k = "get_client" -> <<"new_key">>
    [] k = "get_client_secret" -> <<"new_secret">>
    [] k \in {"get_token", "get_token_for_user"} -> <<"session">>

Admitting(k) == IF k = "get_token" THEN "secret" ELSE "token"
AsHandled(k) == Program[k].steps = <<Admitting(k)>> \o Handler(k)

\* What info['Endpoints'] documents for all of them (web/api/endpoint).
DocsOf(k) ==
  /\ {200, 403} \subseteq Program[k].docs
  /\ k # "get_token" => 401 \in Program[k].docs
  /\ k \notin {"get_profile", "add_user", "add_facility", "get_token"} => 404 \in Program[k].docs

\* So it is with every endpoint (web/api/endpoint).
LEMMA EndpointDocs ==
  ASSUME NEW k \in Served
  PROVE  AsHandled(k) /\ DocsOf(k)
<1> USE DEF AsHandled, Admitting, DocsOf
<1>1. CASE k = "get_profile"
  BY <1>1 DEF Program, get_profile, Endpoint, authenticated, Token, Handler
<1>2. CASE k = "search_user"
  BY <1>2 DEF Program, search_user, Endpoint, authorization_1, Token, Handler
<1>3. CASE k = "add_user"
  BY <1>3 DEF Program, add_user, Endpoint, authorization_1, Token, Handler
<1>4. CASE k = "get_user"
  BY <1>4 DEF Program, get_user, Endpoint, authorization_1, Token, Handler
<1>5. CASE k = "update_user"
  BY <1>5 DEF Program, update_user, Endpoint, authorization_1, Token, Handler
<1>6. CASE k = "delete_user"
  BY <1>6 DEF Program, delete_user, Endpoint, authorization_1, Token, Handler
<1>7. CASE k = "get_all_user_facilities"
  BY <1>7 DEF Program, get_all_user_facilities, Endpoint, authorization_1, Token, Handler
<1>8. CASE k = "get_user_facility"
  BY <1>8 DEF Program, get_user_facility, Endpoint, authorization_1, Token, Handler
<1>9. CASE k = "add_user_facility_association"
  BY <1>9 DEF Program, add_user_facility_association, Endpoint, authorization_1, Token, Handler
<1>10. CASE k = "delete_user_facility_association"
  BY <1>10 DEF Program, delete_user_facility_association, Endpoint, authorization_1, Token,
     Handler
<1>11. CASE k = "add_facility"
  BY <1>11 DEF Program, add_facility, Endpoint, authorization_1, Token, Handler
<1>12. CASE k = "get_facility"
  BY <1>12 DEF Program, get_facility, Endpoint, authorization_1, Token, Handler
<1>13. CASE k = "update_facility"
  BY <1>13 DEF Program, update_facility, Endpoint, authorization_1, Token, Handler
<1>14. CASE k = "delete_facility"
  BY <1>14 DEF Program, delete_facility, Endpoint, authorization_1, Token, Handler
<1>15. CASE k = "get_all_facility_users"
  BY <1>15 DEF Program, get_all_facility_users, Endpoint, authorization_1, Token, Handler
<1>16. CASE k = "get_facility_user"
  BY <1>16 DEF Program, get_facility_user, Endpoint, authorization_1, Token, Handler
<1>17. CASE k = "add_facility_user_association"
  BY <1>17 DEF Program, add_facility_user_association, Endpoint, authorization_1, Token, Handler
<1>18. CASE k = "delete_facility_user_association"
  BY <1>18 DEF Program, delete_facility_user_association, Endpoint, authorization_1, Token,
     Handler
<1>19. CASE k = "get_client"
  BY <1>19 DEF Program, get_client, Endpoint, authorization_0, Token, Handler
<1>20. CASE k = "get_client_secret"
  BY <1>20 DEF Program, get_client_secret, Endpoint, authorization_0, Token, Handler
<1>21. CASE k = "get_token"
  BY <1>21 DEF Program, get_token, Endpoint, authenticate, Handler
<1>22. CASE k = "get_token_for_user"
  BY <1>22 DEF Program, get_token_for_user, Endpoint, authorization_0, Token, Handler
<1>23. k \in {"get_profile",
         "search_user",
         "add_user",
         "get_user",
         "update_user",
         "delete_user",
         "get_all_user_facilities",
         "get_user_facility",
         "add_user_facility_association",
         "delete_user_facility_association",
         "add_facility",
         "get_facility",
         "update_facility",
         "delete_facility",
         "get_all_facility_users",
         "get_facility_user",
         "add_facility_user_association",
         "delete_facility_user_association",
         "get_client",
         "get_client_secret",
         "get_token",
         "get_token_for_user"}
  BY Sorts DEF Served, CommandLine, Others, Makers, Adds, Drops
<1>. QED
  BY <1>1, <1>2, <1>3, <1>4, <1>5, <1>6, <1>7, <1>8, <1>9, <1>10, <1>11, <1>12, <1>13, <1>14,
     <1>15, <1>16, <1>17, <1>18, <1>19, <1>20, <1>21, <1>22, <1>23

\* What is still to do after the first step, and what that needs, follows from
\* what was to do before it.
Follows(k, plan) ==
  LET first == Head(plan)
      rest == Tail(plan)
  IN
  /\ rest \in Left(k)
  /\ NeedsUser(rest) => NeedsUser(plan) \/ first = "user"
  /\ NeedsFacility(rest) => NeedsFacility(plan) \/ first = "facility"
  /\ NeedsClient(rest) => NeedsClient(plan)
  /\ ~IsNext(rest, {"token", "session", "add_pair", "drop_session", "update_session", "add_session"})
  /\ IsNext(rest, {"drop_pairs"}) => first \in {"pairs_of_user", "pairs_of_facility", "pair_of_both"}
  /\ Creating(k, rest) => Creating(k, plan)
  /\ first = "drop_client" => ~NeedsClient(rest)
  /\ first = "add_client" => ~Creating(k, rest)
  /\ k \in Reads => first \in {"own_user", "user", "facility", "associated"}
  /\ first \in {"user", "facility", "associated"} => k \notin {"get_profile", "get_token"}
  /\ first \in {"add_user", "add_facility", "associate", "drop_user", "drop_facility", "new_key",
               "new_secret", "session", "session_of_new", "old_session", "update_session",
               "add_session"} => rest = <<>>
  /\ first = "add_user" => k = "add_user"
  /\ first = "add_facility" => k = "add_facility"
  /\ first = "associate" => k \in Adds
  /\ first = "client_to_drop" => <<"session_to_drop", "drop_client">> \o rest \in Left(k)
  /\ first = "session_to_drop" => <<"drop_session">> \o rest \in Left(k)
  /\ first = "new_key" => k = "get_client"
  /\ first = "new_secret" => k = "get_client_secret"
  /\ first \in {"session", "old_session"} => k \in {"get_token", "get_token_for_user"}
  /\ first = "session_of_new" => k = "get_token_for_user"
  /\ first \in {"client_to_revoke", "revoke"} => FALSE

\* The profile (web/api/endpoint/user.py get_profile).
LEMMA LeftProfile ==
  ASSUME NEW k \in {"get_profile"}, NEW plan \in Left(k), plan # <<>>
  PROVE  Follows(k, plan)
<1>1. Left(k) = {<<"own_user">>, <<>>}
  BY DEF Left, Todo, Making, Made, SessionSteps, Others, Makers, Adds, Drops, Associating, Dissociating,
     DeletingUser, DeletingFacility, LookingUp
<1> USE DEF IsNext, NeedsUser, NeedsFacility, NeedsClient, Creating, Makers, Adds, Drops, Reads
<1>2. CASE plan = <<"own_user">>
  <2>1. Head(plan) = "own_user" /\ Tail(plan) = <<>>
    BY <1>2
  <2>. QED
    BY <1>1, <1>2, <2>1, JoinedSteps DEF Follows
<1>. QED
  BY <1>1, <1>2

\* One user is looked up (user.py get_user, search_user, get_all_user_facilities).
LEMMA LeftUser ==
  ASSUME NEW k \in {"search_user", "get_user", "get_all_user_facilities"},
         NEW plan \in Left(k), plan # <<>>
  PROVE  Follows(k, plan)
<1>1. Left(k) = {<<"user">>, <<>>}
  BY DEF Left, Todo, Making, Made, SessionSteps, Others, Makers, Adds, Drops, Associating, Dissociating,
     DeletingUser, DeletingFacility, LookingUp
<1> USE DEF IsNext, NeedsUser, NeedsFacility, NeedsClient, Creating, Makers, Adds, Drops, Reads
<1>2. CASE plan = <<"user">>
  <2>1. Head(plan) = "user" /\ Tail(plan) = <<>>
    BY <1>2
  <2>. QED
    BY <1>1, <1>2, <2>1, JoinedSteps DEF Follows
<1>. QED
  BY <1>1, <1>2

\* A facility of a user (user.py get_user_facility).
LEMMA LeftUserFacility ==
  ASSUME NEW k \in {"get_user_facility"}, NEW plan \in Left(k), plan # <<>>
  PROVE  Follows(k, plan)
<1>1. Left(k) = {<<"user", "associated">>, <<"associated">>, <<>>}
  BY DEF Left, Todo, Making, Made, SessionSteps, Others, Makers, Adds, Drops, Associating, Dissociating,
     DeletingUser, DeletingFacility, LookingUp
<1> USE DEF IsNext, NeedsUser, NeedsFacility, NeedsClient, Creating, Makers, Adds, Drops, Reads
<1>2. CASE plan = <<"user", "associated">>
  <2>1. Head(plan) = "user" /\ Tail(plan) = <<"associated">>
    BY <1>2
  <2>2. /\ <<"associated">> # <<>>
        /\ Head(<<"associated">>) = "associated"
    OBVIOUS
  <2>. QED
    BY <1>1, <1>2, <2>1, <2>2, JoinedSteps DEF Follows
<1>3. CASE plan = <<"associated">>
  <2>1. Head(plan) = "associated" /\ Tail(plan) = <<>>
    BY <1>3
  <2>. QED
    BY <1>1, <1>3, <2>1, JoinedSteps DEF Follows
<1>. QED
  BY <1>1, <1>2, <1>3

\* One facility is looked up (facility.py get_facility, get_all_facility_users).
LEMMA LeftFacility ==
  ASSUME NEW k \in {"get_facility", "get_all_facility_users"}, NEW plan \in Left(k), plan # <<>>
  PROVE  Follows(k, plan)
<1>1. Left(k) = {<<"facility">>, <<>>}
  BY DEF Left, Todo, Making, Made, SessionSteps, Others, Makers, Adds, Drops, Associating, Dissociating,
     DeletingUser, DeletingFacility, LookingUp
<1> USE DEF IsNext, NeedsUser, NeedsFacility, NeedsClient, Creating, Makers, Adds, Drops, Reads
<1>2. CASE plan = <<"facility">>
  <2>1. Head(plan) = "facility" /\ Tail(plan) = <<>>
    BY <1>2
  <2>. QED
    BY <1>1, <1>2, <2>1, JoinedSteps DEF Follows
<1>. QED
  BY <1>1, <1>2

\* A user of a facility (facility.py get_facility_user).
LEMMA LeftFacilityUser ==
  ASSUME NEW k \in {"get_facility_user"}, NEW plan \in Left(k), plan # <<>>
  PROVE  Follows(k, plan)
<1>1. Left(k) = {<<"facility", "associated">>, <<"associated">>, <<>>}
  BY DEF Left, Todo, Making, Made, SessionSteps, Others, Makers, Adds, Drops, Associating, Dissociating,
     DeletingUser, DeletingFacility, LookingUp
<1> USE DEF IsNext, NeedsUser, NeedsFacility, NeedsClient, Creating, Makers, Adds, Drops, Reads
<1>2. CASE plan = <<"facility", "associated">>
  <2>1. Head(plan) = "facility" /\ Tail(plan) = <<"associated">>
    BY <1>2
  <2>2. /\ <<"associated">> # <<>>
        /\ Head(<<"associated">>) = "associated"
    OBVIOUS
  <2>. QED
    BY <1>1, <1>2, <2>1, <2>2, JoinedSteps DEF Follows
<1>3. CASE plan = <<"associated">>
  <2>1. Head(plan) = "associated" /\ Tail(plan) = <<>>
    BY <1>3
  <2>. QED
    BY <1>1, <1>3, <2>1, JoinedSteps DEF Follows
<1>. QED
  BY <1>1, <1>2, <1>3

\* A user is added or replaced (user.py add_user).
LEMMA LeftAddUser ==
  ASSUME NEW k \in {"add_user"}, NEW plan \in Left(k), plan # <<>>
  PROVE  Follows(k, plan)
<1>1. Left(k) = {<<"add_user">>, <<"user", "write_user">>, <<"write_user">>, <<>>}
  BY DEF Left, Todo, Making, Made, SessionSteps, Others, Makers, Adds, Drops, Associating, Dissociating,
     DeletingUser, DeletingFacility, LookingUp
<1> USE DEF IsNext, NeedsUser, NeedsFacility, NeedsClient, Creating, Makers, Adds, Drops, Reads
<1>2. CASE plan = <<"add_user">>
  <2>1. Head(plan) = "add_user" /\ Tail(plan) = <<>>
    BY <1>2
  <2>. QED
    BY <1>1, <1>2, <2>1, JoinedSteps DEF Follows
<1>3. CASE plan = <<"user", "write_user">>
  <2>1. Head(plan) = "user" /\ Tail(plan) = <<"write_user">>
    BY <1>3
  <2>2. /\ <<"write_user">> # <<>>
        /\ Head(<<"write_user">>) = "write_user"
    OBVIOUS
  <2>. QED
    BY <1>1, <1>3, <2>1, <2>2, JoinedSteps DEF Follows
<1>4. CASE plan = <<"write_user">>
  <2>1. Head(plan) = "write_user" /\ Tail(plan) = <<>>
    BY <1>4
  <2>. QED
    BY <1>1, <1>4, <2>1, JoinedSteps DEF Follows
<1>. QED
  BY <1>1, <1>2, <1>3, <1>4

\* A user is written (user.py update_user).
LEMMA LeftUpdateUser ==
  ASSUME NEW k \in {"update_user"}, NEW plan \in Left(k), plan # <<>>
  PROVE  Follows(k, plan)
<1>1. Left(k) = {<<"user", "write_user">>, <<"write_user">>, <<>>}
  BY DEF Left, Todo, Making, Made, SessionSteps, Others, Makers, Adds, Drops, Associating, Dissociating,
     DeletingUser, DeletingFacility, LookingUp
<1> USE DEF IsNext, NeedsUser, NeedsFacility, NeedsClient, Creating, Makers, Adds, Drops, Reads
<1>2. CASE plan = <<"user", "write_user">>
  <2>1. Head(plan) = "user" /\ Tail(plan) = <<"write_user">>
    BY <1>2
  <2>2. /\ <<"write_user">> # <<>>
        /\ Head(<<"write_user">>) = "write_user"
    OBVIOUS
  <2>. QED
    BY <1>1, <1>2, <2>1, <2>2, JoinedSteps DEF Follows
<1>3. CASE plan = <<"write_user">>
  <2>1. Head(plan) = "write_user" /\ Tail(plan) = <<>>
    BY <1>3
  <2>. QED
    BY <1>1, <1>3, <2>1, JoinedSteps DEF Follows
<1>. QED
  BY <1>1, <1>2, <1>3

\* A facility is added or replaced (facility.py add_facility).
LEMMA LeftAddFacility ==
  ASSUME NEW k \in {"add_facility"}, NEW plan \in Left(k), plan # <<>>
  PROVE  Follows(k, plan)
<1>1. Left(k) = {<<"add_facility">>, <<"facility", "write_facility">>, <<"write_facility">>, <<>>}
  BY DEF Left, Todo, Making, Made, SessionSteps, Others, Makers, Adds, Drops, Associating, Dissociating,
     DeletingUser, DeletingFacility, LookingUp
<1> USE DEF IsNext, NeedsUser, NeedsFacility, NeedsClient, Creating, Makers, Adds, Drops, Reads
<1>2. CASE plan = <<"add_facility">>
  <2>1. Head(plan) = "add_facility" /\ Tail(plan) = <<>>
    BY <1>2
  <2>. QED
    BY <1>1, <1>2, <2>1, JoinedSteps DEF Follows
<1>3. CASE plan = <<"facility", "write_facility">>
  <2>1. Head(plan) = "facility" /\ Tail(plan) = <<"write_facility">>
    BY <1>3
  <2>2. /\ <<"write_facility">> # <<>>
        /\ Head(<<"write_facility">>) = "write_facility"
    OBVIOUS
  <2>. QED
    BY <1>1, <1>3, <2>1, <2>2, JoinedSteps DEF Follows
<1>4. CASE plan = <<"write_facility">>
  <2>1. Head(plan) = "write_facility" /\ Tail(plan) = <<>>
    BY <1>4
  <2>. QED
    BY <1>1, <1>4, <2>1, JoinedSteps DEF Follows
<1>. QED
  BY <1>1, <1>2, <1>3, <1>4

\* A facility is written (facility.py update_facility).
LEMMA LeftUpdateFacility ==
  ASSUME NEW k \in {"update_facility"}, NEW plan \in Left(k), plan # <<>>
  PROVE  Follows(k, plan)
<1>1. Left(k) = {<<"facility", "write_facility">>, <<"write_facility">>, <<>>}
  BY DEF Left, Todo, Making, Made, SessionSteps, Others, Makers, Adds, Drops, Associating, Dissociating,
     DeletingUser, DeletingFacility, LookingUp
<1> USE DEF IsNext, NeedsUser, NeedsFacility, NeedsClient, Creating, Makers, Adds, Drops, Reads
<1>2. CASE plan = <<"facility", "write_facility">>
  <2>1. Head(plan) = "facility" /\ Tail(plan) = <<"write_facility">>
    BY <1>2
  <2>2. /\ <<"write_facility">> # <<>>
        /\ Head(<<"write_facility">>) = "write_facility"
    OBVIOUS
  <2>. QED
    BY <1>1, <1>2, <2>1, <2>2, JoinedSteps DEF Follows
<1>3. CASE plan = <<"write_facility">>
  <2>1. Head(plan) = "write_facility" /\ Tail(plan) = <<>>
    BY <1>3
  <2>. QED
    BY <1>1, <1>3, <2>1, JoinedSteps DEF Follows
<1>. QED
  BY <1>1, <1>2, <1>3

\* A client asks for a token (token.py get_token).
LEMMA LeftToken ==
  ASSUME NEW k \in {"get_token"}, NEW plan \in Left(k), plan # <<>>
  PROVE  Follows(k, plan)
<1>1. Left(k) = {<<"session">>, <<"old_session">>, <<"update_session">>, <<"add_session">>, <<>>}
  BY DEF Left, Todo, Making, Made, SessionSteps, Others, Makers, Adds, Drops, Associating, Dissociating,
     DeletingUser, DeletingFacility, LookingUp
<1> USE DEF IsNext, NeedsUser, NeedsFacility, NeedsClient, Creating, Makers, Adds, Drops, Reads
<1>2. CASE plan = <<"session">>
  <2>1. Head(plan) = "session" /\ Tail(plan) = <<>>
    BY <1>2
  <2>. QED
    BY <1>1, <1>2, <2>1, JoinedSteps DEF Follows
<1>3. CASE plan = <<"old_session">>
  <2>1. Head(plan) = "old_session" /\ Tail(plan) = <<>>
    BY <1>3
  <2>. QED
    BY <1>1, <1>3, <2>1, JoinedSteps DEF Follows
<1>4. CASE plan = <<"update_session">>
  <2>1. Head(plan) = "update_session" /\ Tail(plan) = <<>>
    BY <1>4
  <2>. QED
    BY <1>1, <1>4, <2>1, JoinedSteps DEF Follows
<1>5. CASE plan = <<"add_session">>
  <2>1. Head(plan) = "add_session" /\ Tail(plan) = <<>>
    BY <1>5
  <2>. QED
    BY <1>1, <1>5, <2>1, JoinedSteps DEF Follows
<1>. QED
  BY <1>1, <1>2, <1>3, <1>4, <1>5

\* An association is made (user.py add_user_facility_association).
LEMMA LeftAddOfUser ==
  ASSUME NEW k \in {"add_user_facility_association"}, NEW plan \in Left(k), plan # <<>>
  PROVE  Follows(k, plan)
<1>1. Left(k) = {<<"user", "facility", "associate">>, <<"facility", "associate">>,
                  <<"associate">>, <<"add_pair", "reload_pair">>, <<"reload_pair">>, <<>>}
  BY DEF Left, Todo, Making, Made, SessionSteps, Others, Makers, Adds, Drops, Associating, Dissociating,
     DeletingUser, DeletingFacility, LookingUp
<1> USE DEF IsNext, NeedsUser, NeedsFacility, NeedsClient, Creating, Makers, Adds, Drops, Reads
<1>2. CASE plan = <<"user", "facility", "associate">>
  <2>1. Head(plan) = "user" /\ Tail(plan) = <<"facility", "associate">>
    BY <1>2
  <2>2. /\ <<"facility", "associate">> # <<>>
        /\ Head(<<"facility", "associate">>) = "facility"
    OBVIOUS
  <2>. QED
    BY <1>1, <1>2, <2>1, <2>2, JoinedSteps DEF Follows
<1>3. CASE plan = <<"facility", "associate">>
  <2>1. Head(plan) = "facility" /\ Tail(plan) = <<"associate">>
    BY <1>3
  <2>2. /\ <<"associate">> # <<>>
        /\ Head(<<"associate">>) = "associate"
    OBVIOUS
  <2>. QED
    BY <1>1, <1>3, <2>1, <2>2, JoinedSteps DEF Follows
<1>4. CASE plan = <<"associate">>
  <2>1. Head(plan) = "associate" /\ Tail(plan) = <<>>
    BY <1>4
  <2>. QED
    BY <1>1, <1>4, <2>1, JoinedSteps DEF Follows
<1>5. CASE plan = <<"add_pair", "reload_pair">>
  <2>1. Head(plan) = "add_pair" /\ Tail(plan) = <<"reload_pair">>
    BY <1>5
  <2>2. /\ <<"reload_pair">> # <<>>
        /\ Head(<<"reload_pair">>) = "reload_pair"
    OBVIOUS
  <2>. QED
    BY <1>1, <1>5, <2>1, <2>2, JoinedSteps DEF Follows
<1>6. CASE plan = <<"reload_pair">>
  <2>1. Head(plan) = "reload_pair" /\ Tail(plan) = <<>>
    BY <1>6
  <2>. QED
    BY <1>1, <1>6, <2>1, JoinedSteps DEF Follows
<1>. QED
  BY <1>1, <1>2, <1>3, <1>4, <1>5, <1>6

\* Or from its other side (facility.py add_facility_user_association).
LEMMA LeftAddOfFacility ==
  ASSUME NEW k \in {"add_facility_user_association"}, NEW plan \in Left(k), plan # <<>>
  PROVE  Follows(k, plan)
<1>1. Left(k) = {<<"facility", "user", "associate">>, <<"user", "associate">>, <<"associate">>,
                  <<"add_pair", "reload_pair">>, <<"reload_pair">>, <<>>}
  BY DEF Left, Todo, Making, Made, SessionSteps, Others, Makers, Adds, Drops, Associating, Dissociating,
     DeletingUser, DeletingFacility, LookingUp
<1> USE DEF IsNext, NeedsUser, NeedsFacility, NeedsClient, Creating, Makers, Adds, Drops, Reads
<1>2. CASE plan = <<"facility", "user", "associate">>
  <2>1. Head(plan) = "facility" /\ Tail(plan) = <<"user", "associate">>
    BY <1>2
  <2>2. /\ <<"user", "associate">> # <<>>
        /\ Head(<<"user", "associate">>) = "user"
    OBVIOUS
  <2>. QED
    BY <1>1, <1>2, <2>1, <2>2, JoinedSteps DEF Follows
<1>3. CASE plan = <<"user", "associate">>
  <2>1. Head(plan) = "user" /\ Tail(plan) = <<"associate">>
    BY <1>3
  <2>2. /\ <<"associate">> # <<>>
        /\ Head(<<"associate">>) = "associate"
    OBVIOUS
  <2>. QED
    BY <1>1, <1>3, <2>1, <2>2, JoinedSteps DEF Follows
<1>4. CASE plan = <<"associate">>
  <2>1. Head(plan) = "associate" /\ Tail(plan) = <<>>
    BY <1>4
  <2>. QED
    BY <1>1, <1>4, <2>1, JoinedSteps DEF Follows
<1>5. CASE plan = <<"add_pair", "reload_pair">>
  <2>1. Head(plan) = "add_pair" /\ Tail(plan) = <<"reload_pair">>
    BY <1>5
  <2>2. /\ <<"reload_pair">> # <<>>
        /\ Head(<<"reload_pair">>) = "reload_pair"
    OBVIOUS
  <2>. QED
    BY <1>1, <1>5, <2>1, <2>2, JoinedSteps DEF Follows
<1>6. CASE plan = <<"reload_pair">>
  <2>1. Head(plan) = "reload_pair" /\ Tail(plan) = <<>>
    BY <1>6
  <2>. QED
    BY <1>1, <1>6, <2>1, JoinedSteps DEF Follows
<1>. QED
  BY <1>1, <1>2, <1>3, <1>4, <1>5, <1>6

\* An association is deleted, from either side (user.py, facility.py).
LEMMA LeftDrops ==
  ASSUME NEW k \in Drops, NEW plan \in Left(k), plan # <<>>
  PROVE  Follows(k, plan)
<1>1. Left(k) = {<<"user", "facility", "pair_of_both", "drop_pairs">>,
                  <<"facility", "user", "pair_of_both", "drop_pairs">>,
                  <<"facility", "pair_of_both", "drop_pairs">>,
                  <<"user", "pair_of_both", "drop_pairs">>, <<"pair_of_both", "drop_pairs">>,
                  <<"drop_pairs">>, <<>>}
  BY DEF Left, Todo, Making, Made, SessionSteps, Others, Makers, Adds, Drops, Associating, Dissociating,
     DeletingUser, DeletingFacility, LookingUp
<1> USE DEF IsNext, NeedsUser, NeedsFacility, NeedsClient, Creating, Makers, Adds, Drops, Reads
<1>2. CASE plan = <<"user", "facility", "pair_of_both", "drop_pairs">>
  <2>1. Head(plan) = "user" /\ Tail(plan) = <<"facility", "pair_of_both", "drop_pairs">>
    BY <1>2
  <2>2. /\ <<"facility", "pair_of_both", "drop_pairs">> # <<>>
        /\ Head(<<"facility", "pair_of_both", "drop_pairs">>) = "facility"
    OBVIOUS
  <2>. QED
    BY <1>1, <1>2, <2>1, <2>2, JoinedSteps DEF Follows
<1>3. CASE plan = <<"facility", "user", "pair_of_both", "drop_pairs">>
  <2>1. Head(plan) = "facility" /\ Tail(plan) = <<"user", "pair_of_both", "drop_pairs">>
    BY <1>3
  <2>2. /\ <<"user", "pair_of_both", "drop_pairs">> # <<>>
        /\ Head(<<"user", "pair_of_both", "drop_pairs">>) = "user"
    OBVIOUS
  <2>. QED
    BY <1>1, <1>3, <2>1, <2>2, JoinedSteps DEF Follows
<1>4. CASE plan = <<"facility", "pair_of_both", "drop_pairs">>
  <2>1. Head(plan) = "facility" /\ Tail(plan) = <<"pair_of_both", "drop_pairs">>
    BY <1>4
  <2>2. /\ <<"pair_of_both", "drop_pairs">> # <<>>
        /\ Head(<<"pair_of_both", "drop_pairs">>) = "pair_of_both"
    OBVIOUS
  <2>. QED
    BY <1>1, <1>4, <2>1, <2>2, JoinedSteps DEF Follows
<1>5. CASE plan = <<"user", "pair_of_both", "drop_pairs">>
  <2>1. Head(plan) = "user" /\ Tail(plan) = <<"pair_of_both", "drop_pairs">>
    BY <1>5
  <2>2. /\ <<"pair_of_both", "drop_pairs">> # <<>>
        /\ Head(<<"pair_of_both", "drop_pairs">>) = "pair_of_both"
    OBVIOUS
  <2>. QED
    BY <1>1, <1>5, <2>1, <2>2, JoinedSteps DEF Follows
<1>6. CASE plan = <<"pair_of_both", "drop_pairs">>
  <2>1. Head(plan) = "pair_of_both" /\ Tail(plan) = <<"drop_pairs">>
    BY <1>6
  <2>2. /\ <<"drop_pairs">> # <<>>
        /\ Head(<<"drop_pairs">>) = "drop_pairs"
    OBVIOUS
  <2>. QED
    BY <1>1, <1>6, <2>1, <2>2, JoinedSteps DEF Follows
<1>7. CASE plan = <<"drop_pairs">>
  <2>1. Head(plan) = "drop_pairs" /\ Tail(plan) = <<>>
    BY <1>7
  <2>. QED
    BY <1>1, <1>7, <2>1, JoinedSteps DEF Follows
<1>. QED
  BY <1>1, <1>2, <1>3, <1>4, <1>5, <1>6, <1>7

\* A user is deleted with what belongs to it (user.py delete_user).
LEMMA LeftDeleteUser ==
  ASSUME NEW k \in {"delete_user"}, NEW plan \in Left(k), plan # <<>>
  PROVE  Follows(k, plan)
<1>1. Left(k) = {<<"user", "client_to_drop", "pairs_of_user", "drop_pairs", "drop_user">>,
                  <<"client_to_drop", "pairs_of_user", "drop_pairs", "drop_user">>,
                  <<"session_to_drop", "drop_client", "pairs_of_user", "drop_pairs", "drop_user">>,
                  <<"drop_session", "drop_client", "pairs_of_user", "drop_pairs", "drop_user">>,
                  <<"drop_client", "pairs_of_user", "drop_pairs", "drop_user">>,
                  <<"pairs_of_user", "drop_pairs", "drop_user">>, <<"drop_pairs", "drop_user">>,
                  <<"drop_user">>, <<>>}
  BY DEF Left, Todo, Making, Made, SessionSteps, Others, Makers, Adds, Drops, Associating, Dissociating,
     DeletingUser, DeletingFacility, LookingUp
<1> USE DEF IsNext, NeedsUser, NeedsFacility, NeedsClient, Creating, Makers, Adds, Drops, Reads
<1>2. CASE plan = <<"user", "client_to_drop", "pairs_of_user", "drop_pairs", "drop_user">>
  <2>1. /\ Head(plan) = "user"
        /\ Tail(plan) = <<"client_to_drop", "pairs_of_user", "drop_pairs", "drop_user">>
    BY <1>2
  <2>2. /\ <<"client_to_drop", "pairs_of_user", "drop_pairs", "drop_user">> # <<>>
        /\ Head(<<"client_to_drop", "pairs_of_user", "drop_pairs", "drop_user">>) = "client_to_drop"
    OBVIOUS
  <2>. QED
    BY <1>1, <1>2, <2>1, <2>2, JoinedSteps DEF Follows
<1>3. CASE plan = <<"client_to_drop", "pairs_of_user", "drop_pairs", "drop_user">>
  <2>1. /\ Head(plan) = "client_to_drop"
        /\ Tail(plan) = <<"pairs_of_user", "drop_pairs", "drop_user">>
    BY <1>3
  <2>2. /\ <<"pairs_of_user", "drop_pairs", "drop_user">> # <<>>
        /\ Head(<<"pairs_of_user", "drop_pairs", "drop_user">>) = "pairs_of_user"
    OBVIOUS
  <2>. QED
    BY <1>1, <1>3, <2>1, <2>2, JoinedSteps DEF Follows
<1>4. CASE plan = <<"session_to_drop", "drop_client", "pairs_of_user", "drop_pairs", "drop_user">>
  <2>1. /\ Head(plan) = "session_to_drop"
        /\ Tail(plan) = <<"drop_client", "pairs_of_user", "drop_pairs", "drop_user">>
    BY <1>4
  <2>2. /\ <<"drop_client", "pairs_of_user", "drop_pairs", "drop_user">> # <<>>
        /\ Head(<<"drop_client", "pairs_of_user", "drop_pairs", "drop_user">>) = "drop_client"
    OBVIOUS
  <2>. QED
    BY <1>1, <1>4, <2>1, <2>2, JoinedSteps DEF Follows
<1>5. CASE plan = <<"drop_session", "drop_client", "pairs_of_user", "drop_pairs", "drop_user">>
  <2>1. /\ Head(plan) = "drop_session"
        /\ Tail(plan) = <<"drop_client", "pairs_of_user", "drop_pairs", "drop_user">>
    BY <1>5
  <2>2. /\ <<"drop_client", "pairs_of_user", "drop_pairs", "drop_user">> # <<>>
        /\ Head(<<"drop_client", "pairs_of_user", "drop_pairs", "drop_user">>) = "drop_client"
    OBVIOUS
  <2>. QED
    BY <1>1, <1>5, <2>1, <2>2, JoinedSteps DEF Follows
<1>6. CASE plan = <<"drop_client", "pairs_of_user", "drop_pairs", "drop_user">>
  <2>1. Head(plan) = "drop_client" /\ Tail(plan) = <<"pairs_of_user", "drop_pairs", "drop_user">>
    BY <1>6
  <2>2. /\ <<"pairs_of_user", "drop_pairs", "drop_user">> # <<>>
        /\ Head(<<"pairs_of_user", "drop_pairs", "drop_user">>) = "pairs_of_user"
    OBVIOUS
  <2>. QED
    BY <1>1, <1>6, <2>1, <2>2, JoinedSteps DEF Follows
<1>7. CASE plan = <<"pairs_of_user", "drop_pairs", "drop_user">>
  <2>1. Head(plan) = "pairs_of_user" /\ Tail(plan) = <<"drop_pairs", "drop_user">>
    BY <1>7
  <2>2. /\ <<"drop_pairs", "drop_user">> # <<>>
        /\ Head(<<"drop_pairs", "drop_user">>) = "drop_pairs"
    OBVIOUS
  <2>. QED
    BY <1>1, <1>7, <2>1, <2>2, JoinedSteps DEF Follows
<1>8. CASE plan = <<"drop_pairs", "drop_user">>
  <2>1. Head(plan) = "drop_pairs" /\ Tail(plan) = <<"drop_user">>
    BY <1>8
  <2>2. /\ <<"drop_user">> # <<>>
        /\ Head(<<"drop_user">>) = "drop_user"
    OBVIOUS
  <2>. QED
    BY <1>1, <1>8, <2>1, <2>2, JoinedSteps DEF Follows
<1>9. CASE plan = <<"drop_user">>
  <2>1. Head(plan) = "drop_user" /\ Tail(plan) = <<>>
    BY <1>9
  <2>. QED
    BY <1>1, <1>9, <2>1, JoinedSteps DEF Follows
<1>. QED
  BY <1>1, <1>2, <1>3, <1>4, <1>5, <1>6, <1>7, <1>8, <1>9

\* So is a facility (facility.py delete_facility).
LEMMA LeftDeleteFacility ==
  ASSUME NEW k \in {"delete_facility"}, NEW plan \in Left(k), plan # <<>>
  PROVE  Follows(k, plan)
<1>1. Left(k) = {<<"facility", "pairs_of_facility", "drop_pairs", "drop_facility">>,
                  <<"pairs_of_facility", "drop_pairs", "drop_facility">>,
                  <<"drop_pairs", "drop_facility">>, <<"drop_facility">>, <<>>}
  BY DEF Left, Todo, Making, Made, SessionSteps, Others, Makers, Adds, Drops, Associating, Dissociating,
     DeletingUser, DeletingFacility, LookingUp
<1> USE DEF IsNext, NeedsUser, NeedsFacility, NeedsClient, Creating, Makers, Adds, Drops, Reads
<1>2. CASE plan = <<"facility", "pairs_of_facility", "drop_pairs", "drop_facility">>
  <2>1. /\ Head(plan) = "facility"
        /\ Tail(plan) = <<"pairs_of_facility", "drop_pairs", "drop_facility">>
    BY <1>2
  <2>2. /\ <<"pairs_of_facility", "drop_pairs", "drop_facility">> # <<>>
        /\ Head(<<"pairs_of_facility", "drop_pairs", "drop_facility">>) = "pairs_of_facility"
    OBVIOUS
  <2>. QED
    BY <1>1, <1>2, <2>1, <2>2, JoinedSteps DEF Follows
<1>3. CASE plan = <<"pairs_of_facility", "drop_pairs", "drop_facility">>
  <2>1. Head(plan) = "pairs_of_facility" /\ Tail(plan) = <<"drop_pairs", "drop_facility">>
    BY <1>3
  <2>2. /\ <<"drop_pairs", "drop_facility">> # <<>>
        /\ Head(<<"drop_pairs", "drop_facility">>) = "drop_pairs"
    OBVIOUS
  <2>. QED
    BY <1>1, <1>3, <2>1, <2>2, JoinedSteps DEF Follows
<1>4. CASE plan = <<"drop_pairs", "drop_facility">>
  <2>1. Head(plan) = "drop_pairs" /\ Tail(plan) = <<"drop_facility">>
    BY <1>4
  <2>2. /\ <<"drop_facility">> # <<>>
        /\ Head(<<"drop_facility">>) = "drop_facility"
    OBVIOUS
  <2>. QED
    BY <1>1, <1>4, <2>1, <2>2, JoinedSteps DEF Follows
<1>5. CASE plan = <<"drop_facility">>
  <2>1. Head(plan) = "drop_facility" /\ Tail(plan) = <<>>
    BY <1>5
  <2>. QED
    BY <1>1, <1>5, <2>1, JoinedSteps DEF Follows
<1>. QED
  BY <1>1, <1>2, <1>3, <1>4, <1>5

\* Credentials are given out (client.py get_client).
LEMMA LeftClient ==
  ASSUME NEW k \in {"get_client"}, NEW plan \in Left(k), plan # <<>>
  PROVE  Follows(k, plan)
<1>1. Left(k) = {<<"new_key">>, <<"write_key", "reload_client">>,
                  <<"user", "add_client", "reload_user">>, <<"add_client", "reload_user">>,
                  <<"reload_client">>, <<"reload_user">>, <<>>}
  BY DEF Left, Todo, Making, Made, SessionSteps, Others, Makers, Adds, Drops, Associating, Dissociating,
     DeletingUser, DeletingFacility, LookingUp
<1> USE DEF IsNext, NeedsUser, NeedsFacility, NeedsClient, Creating, Makers, Adds, Drops, Reads
<1>2. CASE plan = <<"new_key">>
  <2>1. Head(plan) = "new_key" /\ Tail(plan) = <<>>
    BY <1>2
  <2>. QED
    BY <1>1, <1>2, <2>1, JoinedSteps DEF Follows
<1>3. CASE plan = <<"write_key", "reload_client">>
  <2>1. Head(plan) = "write_key" /\ Tail(plan) = <<"reload_client">>
    BY <1>3
  <2>2. /\ <<"reload_client">> # <<>>
        /\ Head(<<"reload_client">>) = "reload_client"
    OBVIOUS
  <2>. QED
    BY <1>1, <1>3, <2>1, <2>2, JoinedSteps DEF Follows
<1>4. CASE plan = <<"user", "add_client", "reload_user">>
  <2>1. Head(plan) = "user" /\ Tail(plan) = <<"add_client", "reload_user">>
    BY <1>4
  <2>2. /\ <<"add_client", "reload_user">> # <<>>
        /\ Head(<<"add_client", "reload_user">>) = "add_client"
    OBVIOUS
  <2>. QED
    BY <1>1, <1>4, <2>1, <2>2, JoinedSteps DEF Follows
<1>5. CASE plan = <<"add_client", "reload_user">>
  <2>1. Head(plan) = "add_client" /\ Tail(plan) = <<"reload_user">>
    BY <1>5
  <2>2. /\ <<"reload_user">> # <<>>
        /\ Head(<<"reload_user">>) = "reload_user"
    OBVIOUS
  <2>. QED
    BY <1>1, <1>5, <2>1, <2>2, JoinedSteps DEF Follows
<1>6. CASE plan = <<"reload_client">>
  <2>1. Head(plan) = "reload_client" /\ Tail(plan) = <<>>
    BY <1>6
  <2>. QED
    BY <1>1, <1>6, <2>1, JoinedSteps DEF Follows
<1>7. CASE plan = <<"reload_user">>
  <2>1. Head(plan) = "reload_user" /\ Tail(plan) = <<>>
    BY <1>7
  <2>. QED
    BY <1>1, <1>7, <2>1, JoinedSteps DEF Follows
<1>. QED
  BY <1>1, <1>2, <1>3, <1>4, <1>5, <1>6, <1>7

\* Or a secret alone (client.py get_client_secret).
LEMMA LeftSecret ==
  ASSUME NEW k \in {"get_client_secret"}, NEW plan \in Left(k), plan # <<>>
  PROVE  Follows(k, plan)
<1>1. Left(k) = {<<"new_secret">>, <<"write_secret", "reload_client">>,
                  <<"user", "add_client", "reload_user">>, <<"add_client", "reload_user">>,
                  <<"reload_client">>, <<"reload_user">>, <<>>}
  BY DEF Left, Todo, Making, Made, SessionSteps, Others, Makers, Adds, Drops, Associating, Dissociating,
     DeletingUser, DeletingFacility, LookingUp
<1> USE DEF IsNext, NeedsUser, NeedsFacility, NeedsClient, Creating, Makers, Adds, Drops, Reads
<1>2. CASE plan = <<"new_secret">>
  <2>1. Head(plan) = "new_secret" /\ Tail(plan) = <<>>
    BY <1>2
  <2>. QED
    BY <1>1, <1>2, <2>1, JoinedSteps DEF Follows
<1>3. CASE plan = <<"write_secret", "reload_client">>
  <2>1. Head(plan) = "write_secret" /\ Tail(plan) = <<"reload_client">>
    BY <1>3
  <2>2. /\ <<"reload_client">> # <<>>
        /\ Head(<<"reload_client">>) = "reload_client"
    OBVIOUS
  <2>. QED
    BY <1>1, <1>3, <2>1, <2>2, JoinedSteps DEF Follows
<1>4. CASE plan = <<"user", "add_client", "reload_user">>
  <2>1. Head(plan) = "user" /\ Tail(plan) = <<"add_client", "reload_user">>
    BY <1>4
  <2>2. /\ <<"add_client", "reload_user">> # <<>>
        /\ Head(<<"add_client", "reload_user">>) = "add_client"
    OBVIOUS
  <2>. QED
    BY <1>1, <1>4, <2>1, <2>2, JoinedSteps DEF Follows
<1>5. CASE plan = <<"add_client", "reload_user">>
  <2>1. Head(plan) = "add_client" /\ Tail(plan) = <<"reload_user">>
    BY <1>5
  <2>2. /\ <<"reload_user">> # <<>>
        /\ Head(<<"reload_user">>) = "reload_user"
    OBVIOUS
  <2>. QED
    BY <1>1, <1>5, <2>1, <2>2, JoinedSteps DEF Follows
<1>6. CASE plan = <<"reload_client">>
  <2>1. Head(plan) = "reload_client" /\ Tail(plan) = <<>>
    BY <1>6
  <2>. QED
    BY <1>1, <1>6, <2>1, JoinedSteps DEF Follows
<1>7. CASE plan = <<"reload_user">>
  <2>1. Head(plan) = "reload_user" /\ Tail(plan) = <<>>
    BY <1>7
  <2>. QED
    BY <1>1, <1>7, <2>1, JoinedSteps DEF Follows
<1>. QED
  BY <1>1, <1>2, <1>3, <1>4, <1>5, <1>6, <1>7

\* A token is given out for a user (token.py get_token_for_user).
LEMMA LeftTokenForUser ==
  ASSUME NEW k \in {"get_token_for_user"}, NEW plan \in Left(k), plan # <<>>
  PROVE  Follows(k, plan)
<1>1. Left(k) = {<<"session">>, <<"user", "add_client", "reload_user", "session_of_new">>,
                  <<"add_client", "reload_user", "session_of_new">>,
                  <<"reload_user", "session_of_new">>, <<"session_of_new">>, <<"old_session">>,
                  <<"update_session">>, <<"add_session">>, <<>>}
  BY DEF Left, Todo, Making, Made, SessionSteps, Others, Makers, Adds, Drops, Associating, Dissociating,
     DeletingUser, DeletingFacility, LookingUp
<1> USE DEF IsNext, NeedsUser, NeedsFacility, NeedsClient, Creating, Makers, Adds, Drops, Reads
<1>2. CASE plan = <<"session">>
  <2>1. Head(plan) = "session" /\ Tail(plan) = <<>>
    BY <1>2
  <2>. QED
    BY <1>1, <1>2, <2>1, JoinedSteps DEF Follows
<1>3. CASE plan = <<"user", "add_client", "reload_user", "session_of_new">>
  <2>1. Head(plan) = "user" /\ Tail(plan) = <<"add_client", "reload_user", "session_of_new">>
    BY <1>3
  <2>2. /\ <<"add_client", "reload_user", "session_of_new">> # <<>>
        /\ Head(<<"add_client", "reload_user", "session_of_new">>) = "add_client"
    OBVIOUS
  <2>. QED
    BY <1>1, <1>3, <2>1, <2>2, JoinedSteps DEF Follows
<1>4. CASE plan = <<"add_client", "reload_user", "session_of_new">>
  <2>1. Head(plan) = "add_client" /\ Tail(plan) = <<"reload_user", "session_of_new">>
    BY <1>4
  <2>2. /\ <<"reload_user", "session_of_new">> # <<>>
        /\ Head(<<"reload_user", "session_of_new">>) = "reload_user"
    OBVIOUS
  <2>. QED
    BY <1>1, <1>4, <2>1, <2>2, JoinedSteps DEF Follows
<1>5. CASE plan = <<"reload_user", "session_of_new">>
  <2>1. Head(plan) = "reload_user" /\ Tail(plan) = <<"session_of_new">>
    BY <1>5
  <2>2. /\ <<"session_of_new">> # <<>>
        /\ Head(<<"session_of_new">>) = "session_of_new"
    OBVIOUS
  <2>. QED
    BY <1>1, <1>5, <2>1, <2>2, JoinedSteps DEF Follows
<1>6. CASE plan = <<"session_of_new">>
  <2>1. Head(plan) = "session_of_new" /\ Tail(plan) = <<>>
    BY <1>6
  <2>. QED
    BY <1>1, <1>6, <2>1, JoinedSteps DEF Follows
<1>7. CASE plan = <<"old_session">>
  <2>1. Head(plan) = "old_session" /\ Tail(plan) = <<>>
    BY <1>7
  <2>. QED
    BY <1>1, <1>7, <2>1, JoinedSteps DEF Follows
<1>8. CASE plan = <<"update_session">>
  <2>1. Head(plan) = "update_session" /\ Tail(plan) = <<>>
    BY <1>8
  <2>. QED
    BY <1>1, <1>8, <2>1, JoinedSteps DEF Follows
<1>9. CASE plan = <<"add_session">>
  <2>1. Head(plan) = "add_session" /\ Tail(plan) = <<>>
    BY <1>9
  <2>. QED
    BY <1>1, <1>9, <2>1, JoinedSteps DEF Follows
<1>. QED
  BY <1>1, <1>2, <1>3, <1>4, <1>5, <1>6, <1>7, <1>8, <1>9

\* So do all of them (web/api/endpoint).
LEMMA LeftNext ==
  ASSUME NEW k \in Served, NEW plan \in Left(k), plan # <<>>
  PROVE  Follows(k, plan)
<1>1. \/ k \in {"get_profile"} \/ k \in {"search_user", "get_user", "get_all_user_facilities"}
      \/ k \in {"get_user_facility"} \/ k \in {"get_facility", "get_all_facility_users"}
      \/ k \in {"get_facility_user"} \/ k \in {"add_user"} \/ k \in {"update_user"}
      \/ k \in {"add_facility"} \/ k \in {"update_facility"} \/ k \in {"get_token"}
      \/ k \in {"add_user_facility_association"} \/ k \in {"add_facility_user_association"}
      \/ k \in Drops \/ k \in {"delete_user"} \/ k \in {"delete_facility"} \/ k \in {"get_client"}
      \/ k \in {"get_client_secret"} \/ k \in {"get_token_for_user"}
  BY Sorts DEF Served, CommandLine, Others, Makers, Adds, Drops
<1>. QED
  BY <1>1, LeftProfile, LeftUser, LeftUserFacility, LeftFacility, LeftFacilityUser, LeftAddUser,
     LeftUpdateUser, LeftAddFacility, LeftUpdateFacility, LeftToken, LeftAddOfUser,
     LeftAddOfFacility, LeftDrops, LeftDeleteUser, LeftDeleteFacility, LeftClient, LeftSecret,
     LeftTokenForUser

\* A handler begins with what looks nothing up that is there already, but for
\* the profile and the session of the client that was admitted.
LEMMA Begins ==
  ASSUME NEW k \in Served
  PROVE  /\ Handler(k) \in Left(k) /\ Handler(k) \in Seq(Steps)
         /\ NeedsUser(Handler(k)) => k = "get_profile"
         /\ ~NeedsFacility(Handler(k)) /\ ~NeedsClient(Handler(k)) /\ ~Creating(k, Handler(k))
         /\ ~IsNext(Handler(k), {"token", "add_pair", "drop_pairs", "drop_session",
                                 "update_session", "add_session"})
<1> DEFINE plan == Handler(k)
<1>1. CASE k \in {"get_profile"}
  <2>1. plan = <<"own_user">>
    BY <1>1 DEF Handler
  <2>2. plan # <<>> /\ Head(plan) = "own_user"
    BY <2>1
  <2>3. plan \in Left(k)
    BY <1>1, <2>1 DEF Left, Todo, Making, Made, SessionSteps, Others, Makers, Adds, Drops,
     Associating,
       Dissociating, DeletingUser, DeletingFacility, LookingUp
  <2>4. plan \in Seq(Steps)
    BY <2>1 DEF Steps, Harmless
  <2>. QED
    BY <1>1, <2>1, <2>2, <2>3, <2>4 DEF IsNext, NeedsUser, NeedsFacility, NeedsClient, Creating,
     Makers
<1>2. CASE k \in {"search_user", "get_user", "get_all_user_facilities"}
  <2>1. plan = <<"user">>
    BY <1>2 DEF Handler
  <2>2. plan # <<>> /\ Head(plan) = "user"
    BY <2>1
  <2>3. plan \in Left(k)
    BY <1>2, <2>1 DEF Left, Todo, Making, Made, SessionSteps, Others, Makers, Adds, Drops,
     Associating,
       Dissociating, DeletingUser, DeletingFacility, LookingUp
  <2>4. plan \in Seq(Steps)
    BY <2>1 DEF Steps, Harmless
  <2>. QED
    BY <1>2, <2>1, <2>2, <2>3, <2>4 DEF IsNext, NeedsUser, NeedsFacility, NeedsClient, Creating,
     Makers
<1>3. CASE k \in {"add_user"}
  <2>1. plan = <<"add_user">>
    BY <1>3 DEF Handler
  <2>2. plan # <<>> /\ Head(plan) = "add_user"
    BY <2>1
  <2>3. plan \in Left(k)
    BY <1>3, <2>1 DEF Left, Todo, Making, Made, SessionSteps, Others, Makers, Adds, Drops,
     Associating,
       Dissociating, DeletingUser, DeletingFacility, LookingUp
  <2>4. plan \in Seq(Steps)
    BY <2>1 DEF Steps, Harmless
  <2>. QED
    BY <1>3, <2>1, <2>2, <2>3, <2>4 DEF IsNext, NeedsUser, NeedsFacility, NeedsClient, Creating,
     Makers
<1>4. CASE k \in {"update_user"}
  <2>1. plan = <<"user", "write_user">>
    BY <1>4 DEF Handler
  <2>2. plan # <<>> /\ Head(plan) = "user"
    BY <2>1
  <2>3. plan \in Left(k)
    BY <1>4, <2>1 DEF Left, Todo, Making, Made, SessionSteps, Others, Makers, Adds, Drops,
     Associating,
       Dissociating, DeletingUser, DeletingFacility, LookingUp
  <2>4. plan \in Seq(Steps)
    BY <2>1 DEF Steps, Harmless
  <2>. QED
    BY <1>4, <2>1, <2>2, <2>3, <2>4 DEF IsNext, NeedsUser, NeedsFacility, NeedsClient, Creating,
     Makers
<1>5. CASE k \in {"delete_user"}
  <2>1. plan = <<"user", "client_to_drop", "pairs_of_user", "drop_pairs", "drop_user">>
    BY <1>5 DEF Handler
  <2>2. plan # <<>> /\ Head(plan) = "user"
    BY <2>1
  <2>3. plan \in Left(k)
    BY <1>5, <2>1 DEF Left, Todo, Making, Made, SessionSteps, Others, Makers, Adds, Drops,
     Associating,
       Dissociating, DeletingUser, DeletingFacility, LookingUp
  <2>4. plan \in Seq(Steps)
    BY <2>1 DEF Steps, Harmless
  <2>. QED
    BY <1>5, <2>1, <2>2, <2>3, <2>4 DEF IsNext, NeedsUser, NeedsFacility, NeedsClient, Creating,
     Makers
<1>6. CASE k \in {"get_user_facility"}
  <2>1. plan = <<"user", "associated">>
    BY <1>6 DEF Handler
  <2>2. plan # <<>> /\ Head(plan) = "user"
    BY <2>1
  <2>3. plan \in Left(k)
    BY <1>6, <2>1 DEF Left, Todo, Making, Made, SessionSteps, Others, Makers, Adds, Drops,
     Associating,
       Dissociating, DeletingUser, DeletingFacility, LookingUp
  <2>4. plan \in Seq(Steps)
    BY <2>1 DEF Steps, Harmless
  <2>. QED
    BY <1>6, <2>1, <2>2, <2>3, <2>4 DEF IsNext, NeedsUser, NeedsFacility, NeedsClient, Creating,
     Makers
<1>7. CASE k \in {"add_user_facility_association"}
  <2>1. plan = <<"user", "facility", "associate">>
    BY <1>7 DEF Handler
  <2>2. plan # <<>> /\ Head(plan) = "user"
    BY <2>1
  <2>3. plan \in Left(k)
    BY <1>7, <2>1 DEF Left, Todo, Making, Made, SessionSteps, Others, Makers, Adds, Drops,
     Associating,
       Dissociating, DeletingUser, DeletingFacility, LookingUp
  <2>4. plan \in Seq(Steps)
    BY <2>1 DEF Steps, Harmless
  <2>. QED
    BY <1>7, <2>1, <2>2, <2>3, <2>4 DEF IsNext, NeedsUser, NeedsFacility, NeedsClient, Creating,
     Makers
<1>8. CASE k \in {"delete_user_facility_association"}
  <2>1. plan = <<"user", "facility", "pair_of_both", "drop_pairs">>
    BY <1>8 DEF Handler
  <2>2. plan # <<>> /\ Head(plan) = "user"
    BY <2>1
  <2>3. plan \in Left(k)
    BY <1>8, <2>1 DEF Left, Todo, Making, Made, SessionSteps, Others, Makers, Adds, Drops,
     Associating,
       Dissociating, DeletingUser, DeletingFacility, LookingUp
  <2>4. plan \in Seq(Steps)
    BY <2>1 DEF Steps, Harmless
  <2>. QED
    BY <1>8, <2>1, <2>2, <2>3, <2>4 DEF IsNext, NeedsUser, NeedsFacility, NeedsClient, Creating,
     Makers
<1>9. CASE k \in {"add_facility"}
  <2>1. plan = <<"add_facility">>
    BY <1>9 DEF Handler
  <2>2. plan # <<>> /\ Head(plan) = "add_facility"
    BY <2>1
  <2>3. plan \in Left(k)
    BY <1>9, <2>1 DEF Left, Todo, Making, Made, SessionSteps, Others, Makers, Adds, Drops,
     Associating,
       Dissociating, DeletingUser, DeletingFacility, LookingUp
  <2>4. plan \in Seq(Steps)
    BY <2>1 DEF Steps, Harmless
  <2>. QED
    BY <1>9, <2>1, <2>2, <2>3, <2>4 DEF IsNext, NeedsUser, NeedsFacility, NeedsClient, Creating,
     Makers
<1>10. CASE k \in {"get_facility", "get_all_facility_users"}
  <2>1. plan = <<"facility">>
    BY <1>10 DEF Handler
  <2>2. plan # <<>> /\ Head(plan) = "facility"
    BY <2>1
  <2>3. plan \in Left(k)
    BY <1>10, <2>1 DEF Left, Todo, Making, Made, SessionSteps, Others, Makers, Adds, Drops,
     Associating,
       Dissociating, DeletingUser, DeletingFacility, LookingUp
  <2>4. plan \in Seq(Steps)
    BY <2>1 DEF Steps, Harmless
  <2>. QED
    BY <1>10, <2>1, <2>2, <2>3, <2>4 DEF IsNext, NeedsUser, NeedsFacility, NeedsClient, Creating,
     Makers
<1>11. CASE k \in {"update_facility"}
  <2>1. plan = <<"facility", "write_facility">>
    BY <1>11 DEF Handler
  <2>2. plan # <<>> /\ Head(plan) = "facility"
    BY <2>1
  <2>3. plan \in Left(k)
    BY <1>11, <2>1 DEF Left, Todo, Making, Made, SessionSteps, Others, Makers, Adds, Drops,
     Associating,
       Dissociating, DeletingUser, DeletingFacility, LookingUp
  <2>4. plan \in Seq(Steps)
    BY <2>1 DEF Steps, Harmless
  <2>. QED
    BY <1>11, <2>1, <2>2, <2>3, <2>4 DEF IsNext, NeedsUser, NeedsFacility, NeedsClient, Creating,
     Makers
<1>12. CASE k \in {"delete_facility"}
  <2>1. plan = <<"facility", "pairs_of_facility", "drop_pairs", "drop_facility">>
    BY <1>12 DEF Handler
  <2>2. plan # <<>> /\ Head(plan) = "facility"
    BY <2>1
  <2>3. plan \in Left(k)
    BY <1>12, <2>1 DEF Left, Todo, Making, Made, SessionSteps, Others, Makers, Adds, Drops,
     Associating,
       Dissociating, DeletingUser, DeletingFacility, LookingUp
  <2>4. plan \in Seq(Steps)
    BY <2>1 DEF Steps, Harmless
  <2>. QED
    BY <1>12, <2>1, <2>2, <2>3, <2>4 DEF IsNext, NeedsUser, NeedsFacility, NeedsClient, Creating,
     Makers
<1>13. CASE k \in {"get_facility_user"}
  <2>1. plan = <<"facility", "associated">>
    BY <1>13 DEF Handler
  <2>2. plan # <<>> /\ Head(plan) = "facility"
    BY <2>1
  <2>3. plan \in Left(k)
    BY <1>13, <2>1 DEF Left, Todo, Making, Made, SessionSteps, Others, Makers, Adds, Drops,
     Associating,
       Dissociating, DeletingUser, DeletingFacility, LookingUp
  <2>4. plan \in Seq(Steps)
    BY <2>1 DEF Steps, Harmless
  <2>. QED
    BY <1>13, <2>1, <2>2, <2>3, <2>4 DEF IsNext, NeedsUser, NeedsFacility, NeedsClient, Creating,
     Makers
<1>14. CASE k \in {"add_facility_user_association"}
  <2>1. plan = <<"facility", "user", "associate">>
    BY <1>14 DEF Handler
  <2>2. plan # <<>> /\ Head(plan) = "facility"
    BY <2>1
  <2>3. plan \in Left(k)
    BY <1>14, <2>1 DEF Left, Todo, Making, Made, SessionSteps, Others, Makers, Adds, Drops,
     Associating,
       Dissociating, DeletingUser, DeletingFacility, LookingUp
  <2>4. plan \in Seq(Steps)
    BY <2>1 DEF Steps, Harmless
  <2>. QED
    BY <1>14, <2>1, <2>2, <2>3, <2>4 DEF IsNext, NeedsUser, NeedsFacility, NeedsClient, Creating,
     Makers
<1>15. CASE k \in {"delete_facility_user_association"}
  <2>1. plan = <<"facility", "user", "pair_of_both", "drop_pairs">>
    BY <1>15 DEF Handler
  <2>2. plan # <<>> /\ Head(plan) = "facility"
    BY <2>1
  <2>3. plan \in Left(k)
    BY <1>15, <2>1 DEF Left, Todo, Making, Made, SessionSteps, Others, Makers, Adds, Drops,
     Associating,
       Dissociating, DeletingUser, DeletingFacility, LookingUp
  <2>4. plan \in Seq(Steps)
    BY <2>1 DEF Steps, Harmless
  <2>. QED
    BY <1>15, <2>1, <2>2, <2>3, <2>4 DEF IsNext, NeedsUser, NeedsFacility, NeedsClient, Creating,
     Makers
<1>16. CASE k \in {"get_client"}
  <2>1. plan = <<"new_key">>
    BY <1>16 DEF Handler
  <2>2. plan # <<>> /\ Head(plan) = "new_key"
    BY <2>1
  <2>3. plan \in Left(k)
    BY <1>16, <2>1 DEF Left, Todo, Making, Made, SessionSteps, Others, Makers, Adds, Drops,
     Associating,
       Dissociating, DeletingUser, DeletingFacility, LookingUp
  <2>4. plan \in Seq(Steps)
    BY <2>1 DEF Steps, Harmless
  <2>. QED
    BY <1>16, <2>1, <2>2, <2>3, <2>4 DEF IsNext, NeedsUser, NeedsFacility, NeedsClient, Creating,
     Makers
<1>17. CASE k \in {"get_client_secret"}
  <2>1. plan = <<"new_secret">>
    BY <1>17 DEF Handler
  <2>2. plan # <<>> /\ Head(plan) = "new_secret"
    BY <2>1
  <2>3. plan \in Left(k)
    BY <1>17, <2>1 DEF Left, Todo, Making, Made, SessionSteps, Others, Makers, Adds, Drops,
     Associating,
       Dissociating, DeletingUser, DeletingFacility, LookingUp
  <2>4. plan \in Seq(Steps)
    BY <2>1 DEF Steps, Harmless
  <2>. QED
    BY <1>17, <2>1, <2>2, <2>3, <2>4 DEF IsNext, NeedsUser, NeedsFacility, NeedsClient, Creating,
     Makers
<1>18. CASE k \in {"get_token", "get_token_for_user"}
  <2>1. plan = <<"session">>
    BY <1>18 DEF Handler
  <2>2. plan # <<>> /\ Head(plan) = "session"
    BY <2>1
  <2>3. plan \in Left(k)
    BY <1>18, <2>1 DEF Left, Todo, Making, Made, SessionSteps, Others, Makers, Adds, Drops,
     Associating,
       Dissociating, DeletingUser, DeletingFacility, LookingUp
  <2>4. plan \in Seq(Steps)
    BY <2>1 DEF Steps, Harmless
  <2>. QED
    BY <1>18, <2>1, <2>2, <2>3, <2>4 DEF IsNext, NeedsUser, NeedsFacility, NeedsClient, Creating,
     Makers
<1>. QED
  BY <1>1, <1>2, <1>3, <1>4, <1>5, <1>6, <1>7, <1>8, <1>9, <1>10, <1>11, <1>12, <1>13, <1>14,
     <1>15, <1>16, <1>17, <1>18, Sorts DEF Served, CommandLine, Others, Makers, Adds, Drops
------------------------------------------------------------------------------
(***************************************************************************)
(* What a step of one request leaves to the others.                        *)
(***************************************************************************)
\* A request that has raced another has done so for good.
LEMMA RacedStays ==
  ASSUME NEW r \in Requests, NEW q \in Requests, Raced(q),
         \/ Kept(r) /\ req[r].kind # None
         \/ q # r /\ req[r].kind = None /\ \A p \in Requests \ {r} : req'[p] = req[p]
  PROVE  Raced(q)'
<1>1. PICK p \in Sent \ {q} :
        req[p].kind \notin Reads /\ p \notin req[q].before /\ q \notin req[p].before
  BY DEF Raced
<1>2. p \in Requests /\ p # q /\ req[p].kind # None
  BY <1>1 DEF Sent
<1>3. req'[p].kind = req[p].kind /\ req'[p].before = req[p].before /\ req'[q].before = req[q].before
  BY <1>2 DEF Kept
<1>. QED
  BY <1>1, <1>2, <1>3 DEF Raced, Sent

\* Two requests that are under way race each other, unless one only reads.
LEMMA BothBusy ==
  ASSUME IInv, NEW r \in Requests, NEW q \in Requests, q # r,
         req[r].kind # None, req[r].code = 0, req[q].kind # None, req[q].code = 0,
         req[r].kind \notin Reads
  PROVE  Raced(q)
<1>1. r \notin Over /\ q \notin Over /\ r \in Sent
  BY DEF Over, Sent
<1>2. req[q].before \subseteq Over /\ req[r].before \subseteq Over
  BY DEF IInv, WorkInv, AtWork
<1>. QED
  BY <1>1, <1>2 DEF Raced

\* What a request has found is as it was while no table changes.
LEMMA IntactStays ==
  ASSUME NEW q \in Requests, UNCHANGED tables, req'[q] = req[q]
  PROVE  Intact(q)' <=> Intact(q)
<1>1. /\ users' = users /\ facilities' = facilities /\ pairs' = pairs
      /\ clients' = clients /\ session' = session
  BY DEF tables
<1>. QED
  BY <1>1 DEF Intact, WithId, Target, Loaded, Pair, ClientOf

\* What was answered without a race stays documented.
LEMMA OthersGood ==
  ASSUME IInv, DocInv, NEW r \in Requests, NEW q \in Requests, q # r,
         \/ Kept(r) /\ req[r].kind # None /\ req[r].code = 0
         \/ req[r].kind = None /\ \A p \in Requests \ {r} : req'[p] = req[p],
         UNCHANGED tables \/ (Kept(r) /\ req[r].kind # None /\ req[r].kind \notin Reads)
  PROVE  Good(q)'
<1>1. req'[q] = req[q]
  BY DEF Kept
<1>2. Raced(q) => Raced(q)'
  BY RacedStays
<1>3. Good(q) /\ (Waiting(q)' <=> Waiting(q))
  BY <1>1 DEF DocInv, Waiting
<1>4. CASE req[q].kind \notin Served
  BY <1>1, <1>4 DEF Good
<1>5. CASE req[q].kind \in Served /\ req[q].code # 0
  BY <1>1, <1>2, <1>3, <1>5 DEF Good, Documented
<1>6. CASE req[q].kind \in Served /\ req[q].code = 0
  <2>1. req[q].kind # None
    BY <1>6, KindsAssumption DEF Served
  <2>2. Raced(q) \/ Intact(q)
    BY <1>3, <1>6 DEF Good
  <2>3. Raced(q)' \/ Intact(q)'
    <3>1. CASE UNCHANGED tables
      BY <1>1, <1>2, <2>2, <3>1, IntactStays
    <3>2. CASE ~UNCHANGED tables
      BY <1>2, <1>6, <2>1, <3>2, BothBusy
    <3>. QED
      BY <3>1, <3>2
  <2>. QED
    BY <1>1, <1>3, <1>6, <2>3 DEF Good
<1>. QED
  BY <1>4, <1>5, <1>6

\* A step of a request keeps the invariant if it does so for that request.
LEMMA StepGood ==
  ASSUME IInv, DocInv, NEW r \in Requests, Kept(r), req[r].kind # None, req[r].code = 0,
         UNCHANGED tables \/ req[r].kind \notin Reads,
         req[r].kind \in Served => Good(r)'
  PROVE  DocInv'
<1>1. req[r].kind \notin Served => Good(r)'
  BY DEF Good, Kept
<1>. QED
  BY <1>1, OthersGood DEF DocInv

\* What is known of a request of the API at a step that does not admit.
LEMMA ServedStep ==
  ASSUME IInv, DocInv, NEW r \in Requests, NEW step, At(r, step), step \notin {"token", "secret"},
         req[r].kind \in Served
  PROVE  /\ req[r].todo \in Left(req[r].kind) /\ req[r].todo # <<>> /\ Head(req[r].todo) = step
         /\ Follows(req[r].kind, req[r].todo) /\ (Raced(r) \/ Intact(r))
<1>1. /\ req[r].code = 0 /\ ~Waiting(r) /\ req[r].todo # <<>> /\ Head(req[r].todo) = step
  BY AtStep DEF IInv
<1>2. req[r].todo \in Left(req[r].kind) /\ (Raced(r) \/ Intact(r))
  BY <1>1 DEF DocInv, Good
<1>. QED
  BY <1>1, <1>2, LeftNext

\* A request that fails is answered what is documented.
LEMMA FailsGood ==
  ASSUME IInv, NEW r \in Requests, req[r].kind # None, NEW error \in Answered \ {"OK"}, End(r, error),
         \/ Code[error] \in Program[req[r].kind].docs \cup {400}
         \/ Code[error] = 401 /\ req[r].kind = "get_token"
         \/ Code[error] = 404 /\ req[r].kind \in {"add_user", "add_facility"}
         \/ Code[error] = 404 /\ req[r].as = Former
         \/ Code[error] \in {404, 500} /\ Raced(r)
  PROVE  Kept(r) /\ Good(r)'
<1>1. Fails(r)
  BY EndFails DEF IInv
<1>2. Kept(r) /\ req'[r].kind = req[r].kind /\ req'[r].as = req[r].as
  BY <1>1 DEF Fails, Kept
<1>3. req'[r].code = Code[error]
  BY DEF End, IInv, Typed, Request
<1>4. Raced(r) => Raced(r)'
  BY <1>2, RacedStays
<1>5. Documented(r)'
  BY <1>2, <1>3, <1>4 DEF Documented
<1>6. req'[r].code # 0
  BY <1>1 DEF Fails
<1>. QED
  BY <1>2, <1>5, <1>6 DEF Good
------------------------------------------------------------------------------
(***************************************************************************)
(* Each step of a request of the API.                                      *)
(***************************************************************************)
\* A request with nothing left to do needs nothing.
LEMMA DoneGood ==
  ASSUME NEW r \in Requests, req'[r].todo = <<>>, req'[r].code = 0,
         req[r].kind \in Served, req'[r].kind = req[r].kind
  PROVE  Good(r)'
<1>1. <<>> \in Left(req[r].kind)
  BY Sorts DEF Left, Todo, Making, Made, SessionSteps, Served, CommandLine, Others, Makers, Adds, Drops
<1>2. Intact(r)'
  BY DEF Intact, IsNext, NeedsUser, NeedsFacility, NeedsClient, Creating
<1>. QED
  BY <1>1, <1>2 DEF Good

\* A step is passed: what is needed next was needed before it, or was looked up
\* by it, and the tables still have it.
LEMMA PassGood ==
  ASSUME IInv, DocInv, NEW r \in Requests, NEW step, At(r, step), step \notin {"token", "secret"},
         req[r].kind \in Served, Kept(r),
         req'[r].user = req[r].user, req'[r].row = req[r].row, req'[r].code = req[r].code,
         req'[r].todo = Tail(req[r].todo),
         step \in {"pairs_of_user", "pairs_of_facility", "pair_of_both"} =>
           req'[r].found \subseteq pairs',
         step = "user" => Target(r) \in users,
         step = "facility" => req[r].facility \in facilities,
         NeedsUser(Tail(req[r].todo)) /\ Target(r) \in users => Target(r) \in users',
         NeedsFacility(Tail(req[r].todo)) /\ req[r].facility \in facilities =>
           req[r].facility \in facilities',
         NeedsClient(Tail(req[r].todo)) /\ Loaded(r) # {} => WithId(req[r].row)' # {},
         Creating(req[r].kind, Tail(req[r].todo)) => clients' = clients
  PROVE  Good(r)'
<1> DEFINE k == req[r].kind
           plan == req[r].todo
           rest == Tail(plan)
<1>1. /\ plan \in Left(k) /\ plan # <<>> /\ Head(plan) = step /\ Follows(k, plan)
      /\ Raced(r) \/ Intact(r)
  BY ServedStep
<1>2. /\ k # None /\ req[r].code = 0
  BY AtStep DEF IInv
<1>3. /\ req'[r].kind = k /\ req'[r].as = req[r].as /\ req'[r].facility = req[r].facility
  BY DEF Kept
<1>4. rest \in Left(k)
  BY <1>1 DEF Follows
<1>5. CASE Raced(r)
  <2>1. Raced(r)'
    BY <1>2, <1>5, RacedStays
  <2>. QED
    BY <1>2, <1>3, <1>4, <2>1 DEF Good
<1>6. CASE Intact(r)
  <2>1. NeedsUser(rest) => Target(r)' \in users'
    BY <1>1, <1>6 DEF Follows, Intact, Target
  <2>2. NeedsFacility(rest) => req'[r].facility \in facilities'
    BY <1>1, <1>3, <1>6 DEF Follows, Intact
  <2>3. NeedsClient(rest) => Loaded(r)' # {}
    BY <1>1, <1>6 DEF Follows, Intact, Loaded, WithId
  <2>4. Creating(k, rest) => ClientOf(Target(r))' = {}
    BY <1>1, <1>6 DEF Follows, Intact, ClientOf, Target
  <2>5. ~IsNext(rest, {"token", "session", "add_pair", "drop_session", "update_session",
                       "add_session"})
    BY <1>1 DEF Follows
  <2>6. IsNext(rest, {"drop_pairs"}) => req'[r].found \subseteq pairs'
    BY <1>1 DEF Follows
  <2>7. Intact(r)'
    BY <1>3, <2>1, <2>2, <2>3, <2>4, <2>5, <2>6 DEF Intact, IsNext
  <2>. QED
    BY <1>2, <1>3, <1>4, <2>7 DEF Good
<1>. QED
  BY <1>1, <1>5, <1>6

\* The same, of a step that changes no table.
LEMMA LookGood ==
  ASSUME IInv, DocInv, NEW r \in Requests, NEW step, At(r, step), step \notin {"token", "secret"},
         req[r].kind \in Served, Proceed(r), UNCHANGED tables,
         step \notin {"pairs_of_user", "pairs_of_facility", "pair_of_both"},
         step = "user" => Target(r) \in users,
         step = "facility" => req[r].facility \in facilities
  PROVE  Kept(r) /\ Good(r)'
<1>1. Goes(r, Tail(req[r].todo), req[r].row)
  BY ProceedGoes DEF IInv
<1>2. users' = users /\ facilities' = facilities /\ clients' = clients
  BY DEF tables
<1>. QED
  BY <1>1, <1>2, PassGood DEF Goes, WithId, Loaded

\* A request that looks nothing up: what it needs is there, or it has raced.
LEMMA NeedsMet ==
  ASSUME IInv, DocInv, NEW r \in Requests, NEW step, At(r, step), step \notin {"token", "secret"},
         req[r].kind \in Served, ~Raced(r)
  PROVE  /\ step \in {"own_user", "write_user", "client_to_drop", "session_to_drop", "drop_session",
                      "drop_client", "pairs_of_user", "drop_user", "associate", "add_pair",
                      "reload_pair", "add_client", "reload_user"} => Target(r) \in users
         /\ step \in {"write_facility", "pairs_of_facility", "drop_facility", "associate", "add_pair",
                      "reload_pair"} => req[r].facility \in facilities
         /\ step \in {"session_to_drop", "drop_session", "drop_client", "write_key", "write_secret",
                      "reload_client", "old_session", "update_session", "add_session"} =>
              Loaded(r) # {}
         /\ step \in {"drop_session", "update_session"} => req[r].row \in session
         /\ step = "add_session" => req[r].row \notin session
         /\ step = "add_pair" => Pair(r) \notin pairs
         /\ step = "drop_pairs" => req[r].found \subseteq pairs
         /\ step = "add_client" => ClientOf(Target(r)) = {}
         /\ step = "session" /\ req[r].kind = "get_token" => ClientOf(Target(r)) # {}
<1>1. req[r].todo # <<>> /\ Head(req[r].todo) = step /\ Intact(r)
  BY ServedStep
<1>. QED
  BY <1>1 DEF Intact, IsNext, NeedsUser, NeedsFacility, NeedsClient, Creating

\* The statuses of the exceptions (web/api/response.py).
LEMMA Statuses ==
  /\ Code["Forbidden"] = 403 /\ Code["Unauthorized"] = 401 /\ Code["NotFound"] = 404
  /\ Code["BadRequest"] = 400 /\ Code["Critical"] = 500
  /\ {"Forbidden", "Unauthorized", "NotFound", "BadRequest", "Critical"} \subseteq Answered \ {"OK"}
BY DEF Code, Answered

\* A request that fails keeps the invariant if it is answered what is documented.
LEMMA FailStep ==
  ASSUME IInv, DocInv, NEW r \in Requests, NEW step, At(r, step), UNCHANGED tables,
         NEW error \in {"Forbidden", "Unauthorized", "NotFound", "BadRequest", "Critical"},
         End(r, error),
         req[r].kind \in Served =>
           \/ error = "Forbidden" \/ error = "BadRequest" \/ error = "Unauthorized"
           \/ error = "NotFound" /\ req[r].kind \notin {"get_profile", "get_token"}
           \/ error = "NotFound" /\ req[r].as = Former
           \/ error \in {"NotFound", "Critical"} /\ Raced(r)
  PROVE  DocInv'
<1> DEFINE k == req[r].kind
<1>1. error \in Answered \ {"OK"} /\ k # None /\ req[r].code = 0
  BY Statuses, AtStep DEF IInv
<1>2. Kept(r)
  BY <1>1, EndFails DEF IInv, Fails
<1>3. ASSUME k \in Served PROVE Good(r)'
  <2>1. /\ 403 \in Program[k].docs /\ (k # "get_token" => 401 \in Program[k].docs)
        /\ k \notin {"get_profile", "add_user", "add_facility", "get_token"} => 404 \in Program[k].docs
    BY <1>3, EndpointDocs DEF DocsOf
  <2>2. \/ Code[error] \in Program[k].docs \cup {400}
        \/ Code[error] = 401 /\ k = "get_token"
        \/ Code[error] = 404 /\ k \in {"add_user", "add_facility"}
        \/ Code[error] = 404 /\ req[r].as = Former
        \/ Code[error] \in {404, 500} /\ Raced(r)
    BY <1>3, <2>1, Statuses
  <2>. QED
    BY <1>1, <2>2, FailsGood
<1>. QED
  BY <1>1, <1>2, <1>3, StepGood

\* A step is passed, or the request fails, and no table changes.
LEMMA LookStep ==
  ASSUME IInv, DocInv, NEW r \in Requests, NEW step, At(r, step), step \notin {"token", "secret"},
         UNCHANGED tables, Proceed(r),
         step \notin {"pairs_of_user", "pairs_of_facility", "pair_of_both"},
         step = "user" => Target(r) \in users,
         step = "facility" => req[r].facility \in facilities
  PROVE  DocInv'
<1>1. Goes(r, Tail(req[r].todo), req[r].row) /\ req[r].kind # None /\ req[r].code = 0
  BY ProceedGoes, AtStep DEF IInv
<1>2. req[r].kind \in Served => Good(r)'
  BY LookGood
<1>. QED
  BY <1>1, <1>2, StepGood DEF Goes

\* Users, facilities and associations are looked up, and records written
\* (web/api/endpoint/user.py, facility.py).
LEMMA LookupsGood ==
  ASSUME IInv, DocInv, NEW r \in Requests,
         \/ FindUser(r) \/ FindFacility(r) \/ OwnUser(r) \/ Associated(r) \/ Write(r)
         \/ ReloadPair(r) \/ ReloadUser(r)
  PROVE  DocInv'
<1>1. UNCHANGED tables
  BY DEF FindUser, FindFacility, OwnUser, Associated, Write, ReloadPair, ReloadUser
<1>2. CASE FindUser(r)
  <2>1. At(r, "user")
    BY <1>2 DEF FindUser
  <2>2. req[r].kind \in Served => req[r].kind \notin {"get_profile", "get_token"}
    BY <2>1, ServedStep DEF Follows
  <2>3. CASE Target(r) \in users
    BY <1>1, <1>2, <2>1, <2>3, LookStep DEF FindUser
  <2>4. CASE Target(r) \notin users
    BY <1>1, <1>2, <2>1, <2>2, <2>4, FailStep DEF FindUser
  <2>. QED
    BY <2>3, <2>4
<1>3. CASE FindFacility(r)
  <2>1. At(r, "facility")
    BY <1>3 DEF FindFacility
  <2>2. req[r].kind \in Served => req[r].kind \notin {"get_profile", "get_token"}
    BY <2>1, ServedStep DEF Follows
  <2>3. CASE req[r].facility \in facilities
    BY <1>1, <1>3, <2>1, <2>3, LookStep DEF FindFacility
  <2>4. CASE req[r].facility \notin facilities
    BY <1>1, <1>3, <2>1, <2>2, <2>4, FailStep DEF FindFacility
  <2>. QED
    BY <2>3, <2>4
<1>4. CASE Associated(r)
  <2>1. At(r, "associated")
    BY <1>4 DEF Associated
  <2>2. req[r].kind \in Served => req[r].kind \notin {"get_profile", "get_token"}
    BY <2>1, ServedStep DEF Follows
  <2>3. CASE Proceed(r)
    BY <1>1, <2>1, <2>3, LookStep
  <2>4. CASE End(r, "NotFound")
    BY <1>1, <2>1, <2>2, <2>4, FailStep
  <2>. QED
    BY <1>4, <2>3, <2>4 DEF Associated
<1>5. CASE OwnUser(r)
  <2>1. At(r, "own_user")
    BY <1>5 DEF OwnUser
  <2>2. CASE Proceed(r)
    BY <1>1, <2>1, <2>2, LookStep
  <2>3. CASE Target(r) \notin users /\ End(r, "Critical")
    <3>1. req[r].kind \in Served => Raced(r)
      BY <2>1, <2>3, NeedsMet
    <3>. QED
      BY <1>1, <2>1, <2>3, <3>1, FailStep
  <2>. QED
    BY <1>5, <2>2, <2>3 DEF OwnUser
<1>6. CASE Write(r)
  <2>1. PICK step \in {"write_user", "write_facility"} : At(r, step)
    BY <1>6 DEF Write
  <2>2. Head(req[r].todo) = step
    BY <2>1 DEF At
  <2>3. CASE Proceed(r)
    BY <1>1, <2>1, <2>3, LookStep
  <2>4. CASE End(r, "BadRequest")
    BY <1>1, <2>1, <2>4, FailStep
  <2>5. CASE /\ End(r, "Critical")
             /\ step = "write_user" => Target(r) \notin users
             /\ step = "write_facility" => req[r].facility \notin facilities
    <3>1. req[r].kind \in Served => Raced(r)
      BY <2>1, <2>5, NeedsMet
    <3>. QED
      BY <1>1, <2>1, <2>5, <3>1, FailStep
  <2>. QED
    BY <1>6, <2>2, <2>3, <2>4, <2>5 DEF Write
<1>7. CASE ReloadPair(r)
  <2>1. At(r, "reload_pair")
    BY <1>7 DEF ReloadPair
  <2>2. CASE Proceed(r)
    BY <1>1, <2>1, <2>2, LookStep
  <2>3. CASE ~(Target(r) \in users /\ req[r].facility \in facilities) /\ End(r, "Critical")
    <3>1. req[r].kind \in Served => Raced(r)
      BY <2>1, <2>3, NeedsMet
    <3>. QED
      BY <1>1, <2>1, <2>3, <3>1, FailStep
  <2>. QED
    BY <1>7, <2>2, <2>3 DEF ReloadPair
<1>8. CASE ReloadUser(r)
  <2>1. At(r, "reload_user")
    BY <1>8 DEF ReloadUser
  <2>2. CASE Proceed(r)
    BY <1>1, <2>1, <2>2, LookStep
  <2>3. CASE Target(r) \notin users /\ End(r, "Critical")
    <3>1. req[r].kind \in Served => Raced(r)
      BY <2>1, <2>3, NeedsMet
    <3>. QED
      BY <1>1, <2>1, <2>3, <3>1, FailStep
  <2>. QED
    BY <1>8, <2>2, <2>3 DEF ReloadUser
<1>. QED
  BY <1>2, <1>3, <1>4, <1>5, <1>6, <1>7, <1>8

\* A request that takes any other step than to look up its records is none
\* that only reads.
LEMMA NotReading ==
  ASSUME IInv, DocInv, NEW r \in Requests, NEW step, At(r, step),
         step \notin {"token", "secret", "own_user", "user", "facility", "associated"}
  PROVE  req[r].kind \notin Reads
<1>1. req[r].kind \in DOMAIN Program
  BY AtStep DEF IInv
<1>2. req[r].kind \in Reads => req[r].kind \in Served
  BY <1>1 DEF Served, Reads, CommandLine
<1>. QED
  BY <1>2, ServedStep DEF Follows

\* Steps that others replace: what those need has just been looked up.
LEMMA ReplaceGood ==
  ASSUME IInv, DocInv, NEW r \in Requests, NEW step, At(r, step), step \notin {"token", "secret"},
         NEW plan, NEW row, Goes(r, plan, row), UNCHANGED tables,
         req[r].kind \in Served => plan \in Left(req[r].kind),
         req[r].kind \in Served /\ ~Raced(r) =>
           /\ NeedsUser(plan) => Target(r) \in users
           /\ NeedsFacility(plan) => req[r].facility \in facilities
           /\ NeedsClient(plan) => WithId(row) # {}
           /\ IsNext(plan, {"drop_session", "update_session"}) => row \in session
           /\ IsNext(plan, {"add_session"}) => row \notin session
           /\ IsNext(plan, {"add_pair"}) => Pair(r) \notin pairs
           /\ Creating(req[r].kind, plan) => ClientOf(Target(r)) = {}
           /\ ~IsNext(plan, {"token", "drop_pairs", "session"})
  PROVE  DocInv'
<1> DEFINE k == req[r].kind
<1>1. /\ k # None /\ req[r].code = 0
  BY AtStep DEF IInv
<1>2. /\ Kept(r) /\ req'[r].kind = k /\ req'[r].as = req[r].as /\ req'[r].facility = req[r].facility
      /\ req'[r].user = req[r].user /\ req'[r].row = row /\ req'[r].todo = plan /\ req'[r].code = 0
  BY <1>1 DEF Goes, Kept
<1>3. /\ users' = users /\ facilities' = facilities /\ pairs' = pairs /\ clients' = clients
      /\ session' = session
  BY DEF tables
<1>4. ASSUME k \in Served PROVE Good(r)'
  <2>1. CASE Raced(r)
    <3>1. Raced(r)'
      BY <1>1, <1>2, <2>1, RacedStays
    <3>. QED
      BY <1>2, <1>4, <3>1 DEF Good
  <2>2. CASE ~Raced(r)
    <3>1. Intact(r)'
      BY <1>2, <1>3, <1>4, <2>2 DEF Intact, IsNext, Target, Loaded, WithId, Pair, ClientOf
    <3>. QED
      BY <1>2, <1>4, <3>1 DEF Good
  <2>. QED
    BY <2>1, <2>2
<1>. QED
  BY <1>1, <1>2, <1>4, StepGood

\* A posted profile with an id replaces one (web/api/endpoint/user.py add_user,
\* facility.py add_facility).
LEMMA AddGood ==
  ASSUME IInv, DocInv, NEW r \in Requests, AddUser(r) \/ AddFacility(r)
  PROVE  DocInv'
<1>1. PICK step \in {"add_user", "add_facility"} : At(r, step)
  BY DEF AddUser, AddFacility
<1>2. /\ req[r].kind # None /\ req[r].code = 0 /\ req[r].todo # <<>> /\ Head(req[r].todo) = step
      /\ Tail(req[r].todo) \in Seq(Steps)
  BY <1>1, AtStep DEF IInv
<1>3. req[r].kind \in Served =>
        /\ Tail(req[r].todo) = <<>>
        /\ step = "add_user" => req[r].kind = "add_user"
        /\ step = "add_facility" => req[r].kind = "add_facility"
  BY <1>1, <1>2, ServedStep DEF Follows
<1>4. \/ End(r, "BadRequest") /\ UNCHANGED tables
      \/ step = "add_user" /\ Then(r, <<"user", "write_user">>) /\ UNCHANGED tables
      \/ step = "add_facility" /\ Then(r, <<"facility", "write_facility">>) /\ UNCHANGED tables
      \/ Proceed(r)
  <2>1. At(r, "add_user") => step = "add_user"
    BY <1>2 DEF At
  <2>2. At(r, "add_facility") => step = "add_facility"
    BY <1>2 DEF At
  <2>. QED
    BY <2>1, <2>2 DEF AddUser, AddFacility, tables
<1>5. CASE End(r, "BadRequest") /\ UNCHANGED tables
  BY <1>1, <1>5, FailStep
<1>6. ASSUME NEW a, NEW b, <<a, b>> \in Seq(Steps), Then(r, <<a, b>>), UNCHANGED tables,
             a \in {"user", "facility"}, b \in {"write_user", "write_facility"},
             req[r].kind \in Served => <<a, b>> \in Left(req[r].kind)
      PROVE  DocInv'
  <2> DEFINE plan == <<a, b>> \o Tail(req[r].todo)
  <2>1. Goes(r, plan, req[r].row)
    BY <1>1, <1>6, ThenGoes DEF IInv
  <2>2. req[r].kind \in Served => plan = <<a, b>>
    BY <1>3, <1>6, ConcatEmptySeq
  <2>3. <<a, b>> # <<>> /\ Head(<<a, b>>) = a /\ <<a, b>> # <<"drop_pairs", "drop_user">>
        /\ <<a, b>> # <<"drop_pairs", "drop_facility">>
    BY <1>6
  <2> HIDE DEF plan
  <2>4. req[r].kind \in Served => plan \in Left(req[r].kind)
    BY <1>6, <2>2
  <2>5. req[r].kind \in Served => req[r].kind \notin Makers
    BY <1>1, <1>3 DEF Makers
  <2>. QED
    <3>1. <<a, b>> # <<"facility", "associate">> /\ <<a, b>> # <<"user", "associate">>
      BY <1>6
    <3>2. req[r].kind \in Served =>
            /\ ~NeedsUser(plan) /\ ~NeedsFacility(plan) /\ ~NeedsClient(plan)
            /\ ~Creating(req[r].kind, plan)
            /\ ~IsNext(plan, {"drop_session", "update_session", "add_session", "add_pair", "token",
                              "drop_pairs", "session"})
      BY <1>6, <2>2, <2>3, <2>5, <3>1 DEF IsNext, NeedsUser, NeedsFacility, NeedsClient, Creating
    <3>. QED
      BY <1>1, <1>6, <2>1, <2>4, <3>2, ReplaceGood DEF IsNext
<1>7. CASE Proceed(r)
  <2>1. Goes(r, Tail(req[r].todo), req[r].row)
    BY <1>1, <1>7, ProceedGoes DEF IInv
  <2>2. req[r].kind \notin Reads
    BY <1>1, NotReading
  <2>3. req[r].kind \in Served => Good(r)'
    BY <1>2, <1>3, <2>1, DoneGood DEF Goes, Kept
  <2>. QED
    BY <1>2, <2>1, <2>2, <2>3, StepGood DEF Goes
<1>8. <<"user", "write_user">> \in Seq(Steps) /\ <<"facility", "write_facility">> \in Seq(Steps)
  BY DEF Steps, Harmless
<1>9. /\ <<"user", "write_user">> \in Left("add_user")
      /\ <<"facility", "write_facility">> \in Left("add_facility")
  BY DEF Left
<1>. QED
  BY <1>3, <1>4, <1>5, <1>6, <1>7, <1>8, <1>9

\* Associations are looked up and made (database/model.py User.add_facility,
\* Facility.add_user).
LEMMA AssociateGood ==
  ASSUME IInv, DocInv, NEW r \in Requests, FindPair(r) \/ AddPair(r)
  PROVE  DocInv'
<1>1. CASE FindPair(r)
  <2>1. At(r, "associate") /\ UNCHANGED tables
    BY <1>1 DEF FindPair
  <2>2. CASE Pair(r) \in pairs
    <3>1. Proceed(r)
      BY <1>1, <2>2 DEF FindPair, Proceed
    <3>. QED
      BY <2>1, <3>1, LookStep
  <2>3. CASE Pair(r) \notin pairs
    <3> DEFINE steps == <<"add_pair", "reload_pair">>
               plan == steps \o Tail(req[r].todo)
    <3>1. steps \in Seq(Steps) /\ steps # <<>> /\ Head(steps) = "add_pair"
      BY DEF Steps
    <3>2. Goes(r, plan, req[r].row)
      BY <1>1, <2>1, <2>3, <3>1, ThenGoes DEF FindPair, IInv
    <3>3. req[r].kind \in Served => Tail(req[r].todo) = <<>> /\ req[r].kind \in Adds
      BY <2>1, ServedStep DEF Follows
    <3>4. req[r].kind \in Served => plan = steps
      BY <3>1, <3>3, ConcatEmptySeq
    <3>5. req[r].kind \in Served => steps \in Left(req[r].kind)
      BY <3>3 DEF Left, Adds
    <3>6. req[r].kind \in Served /\ ~Raced(r) => Target(r) \in users /\ req[r].facility \in facilities
      BY <2>1, NeedsMet
    <3> HIDE DEF plan
    <3>7. req[r].kind \in Served =>
            /\ ~NeedsClient(plan) /\ ~Creating(req[r].kind, plan)
            /\ ~IsNext(plan, {"drop_session", "update_session", "add_session", "token",
                              "drop_pairs", "session"})
      BY <3>1, <3>4 DEF IsNext, NeedsClient, Creating
    <3>. QED
      BY <2>1, <2>3, <3>2, <3>4, <3>5, <3>6, <3>7, ReplaceGood DEF IsNext
  <2>. QED
    BY <2>2, <2>3
<1>2. CASE AddPair(r)
  <2>1. At(r, "add_pair") /\ req[r].kind \notin Reads
    BY <1>2, NotReading DEF AddPair
  <2>2. /\ users' = users /\ facilities' = facilities /\ clients' = clients
    BY <1>2 DEF AddPair
  <2>3. CASE Proceed(r)
    <3>1. Goes(r, Tail(req[r].todo), req[r].row) /\ req[r].kind # None /\ req[r].code = 0
      BY <2>1, <2>3, ProceedGoes, AtStep DEF IInv
    <3>2. req[r].kind \in Served => Good(r)'
      BY <2>1, <2>2, <3>1, PassGood DEF Goes, Loaded, WithId
    <3>. QED
      BY <2>1, <3>1, <3>2, StepGood DEF Goes
  <2>4. CASE /\ End(r, "Critical") /\ pairs' = pairs
             /\ ~(Target(r) \in users /\ req[r].facility \in facilities /\ Pair(r) \notin pairs)
    <3>1. req[r].kind \in Served => Raced(r)
      BY <2>1, <2>4, NeedsMet
    <3>2. UNCHANGED tables
      BY <1>2, <2>4 DEF AddPair, tables
    <3>. QED
      BY <2>1, <2>4, <3>1, <3>2, FailStep
  <2>. QED
    BY <1>2, <2>3, <2>4 DEF AddPair
<1>. QED
  BY <1>1, <1>2

\* The associations that are to be deleted are found (database/model.py
\* User.delete, Facility.delete, User.delete_facility).
LEMMA FindPairsGood ==
  ASSUME IInv, DocInv, NEW r \in Requests, FindPairs(r)
  PROVE  DocInv'
<1> DEFINE todo == Tail(req[r].todo)
<1>1. PICK step \in {"pair_of_both", "pairs_of_user", "pairs_of_facility"} :
        /\ At(r, step)
        /\ req' = [req EXCEPT ![r].todo = Tail(@), ![r].found =
             {p \in pairs : /\ step # "pairs_of_facility" => p[1] = Target(r)
                            /\ step # "pairs_of_user" => p[2] = req[r].facility}]
  BY DEF FindPairs
<1> DEFINE found == {p \in pairs : /\ step # "pairs_of_facility" => p[1] = Target(r)
                                   /\ step # "pairs_of_user" => p[2] = req[r].facility}
<1>2. UNCHANGED tables
  BY DEF FindPairs
<1>3. /\ req \in [Requests -> Request] /\ req[r] \in Request /\ req[r].kind # None /\ req[r].code = 0
      /\ todo \in Seq(Steps)
  BY <1>1, AtStep DEF IInv, Typed
<1>4. found \in SUBSET (Users \X Facilities) /\ found \subseteq pairs
  BY DEF IInv, Typed
<1>5. req' = [req EXCEPT ![r] = [req[r] EXCEPT !.todo = todo, !.found = found]]
  BY <1>1, <1>3
<1> HIDE DEF found, todo
<1>6. [req[r] EXCEPT !.todo = todo, !.found = found] \in Request
  BY <1>3, <1>4, ZenonT(40) DEF Request
<1>7. /\ req' \in [Requests -> Request] /\ \A q \in Requests \ {r} : req'[q] = req[q]
      /\ req'[r] = [req[r] EXCEPT !.todo = todo, !.found = found]
  BY <1>3, <1>5, <1>6
<1>8. /\ Kept(r) /\ req'[r].user = req[r].user /\ req'[r].todo = todo /\ req'[r].row = req[r].row
      /\ req'[r].found = found /\ req'[r].code = req[r].code
  BY <1>3, <1>7 DEF Request, Kept
<1>9. users' = users /\ facilities' = facilities /\ pairs' = pairs /\ clients' = clients
  BY <1>2 DEF tables
<1>10. req[r].kind \in Served => Good(r)'
  BY <1>1, <1>4, <1>8, <1>9, PassGood DEF todo, Loaded, WithId
<1>. QED
  BY <1>2, <1>3, <1>8, <1>10, StepGood

\* They are deleted one by one.
LEMMA DropPairsGood ==
  ASSUME IInv, DocInv, NEW r \in Requests, DropPairs(r)
  PROVE  DocInv'
<1> DEFINE k == req[r].kind
<1>1. /\ At(r, "drop_pairs") /\ users' = users /\ facilities' = facilities /\ spare' = spare
      /\ recommended' = recommended /\ clients' = clients /\ session' = session
  BY DEF DropPairs
<1>2. /\ req \in [Requests -> Request] /\ req[r] \in Request /\ k # None /\ req[r].code = 0
      /\ req[r].todo # <<>> /\ Head(req[r].todo) = "drop_pairs"
  BY <1>1, AtStep DEF IInv, Typed
<1>3. CASE Proceed(r) /\ pairs' = pairs
  BY <1>1, <1>3, LookStep DEF tables
<1>4. CASE /\ End(r, "Critical") /\ pairs' = pairs
           /\ \E p \in req[r].found : p \notin pairs
  <2>1. k \in Served => Raced(r)
    BY <1>1, <1>4, NeedsMet
  <2>. QED
    BY <1>1, <1>4, <2>1, FailStep DEF tables
<1>5. ASSUME NEW p \in req[r].found, pairs' = pairs \ {p},
             req' = [req EXCEPT ![r].found = @ \ {p}]
      PROVE  DocInv'
  <2> DEFINE found == req[r].found \ {p}
  <2>1. req' = [req EXCEPT ![r] = [req[r] EXCEPT !.found = found]]
    BY <1>2, <1>5
  <2>2. found \in SUBSET (Users \X Facilities)
    BY <1>2 DEF Request
  <2>3. req[r].found \subseteq pairs => found \subseteq pairs'
    BY <1>5
  <2> HIDE DEF found
  <2>4. [req[r] EXCEPT !.found = found] \in Request
    BY <1>2, <2>2, ZenonT(40) DEF Request
  <2>5. /\ req' \in [Requests -> Request] /\ \A q \in Requests \ {r} : req'[q] = req[q]
        /\ req'[r] = [req[r] EXCEPT !.found = found]
    BY <1>2, <2>1, <2>4
  <2>6. /\ req'[r].kind = k /\ req'[r].as = req[r].as /\ req'[r].user = req[r].user
        /\ req'[r].facility = req[r].facility /\ req'[r].todo = req[r].todo
        /\ req'[r].row = req[r].row /\ req'[r].found = found
        /\ req'[r].code = 0 /\ req'[r].before = req[r].before
    BY <1>2, <2>5 DEF Request
  <2>7. Kept(r)
    BY <2>5, <2>6 DEF Kept
  <2>8. ASSUME k \in Served PROVE Good(r)'
    <3>1. req[r].todo \in Left(k) /\ (Raced(r) \/ Intact(r))
      BY <1>1, <2>8, ServedStep
    <3>2. Raced(r) => Raced(r)'
      BY <1>2, <2>7, RacedStays
    <3>3. ~IsNext(req[r].todo, {"token", "session", "add_pair", "drop_session", "update_session",
                                "add_session"})
      BY <1>2 DEF IsNext
    <3>4. Intact(r) => Intact(r)'
      BY <1>1, <1>2, <2>3, <2>6, <3>3 DEF Intact, IsNext, Target, Loaded, WithId, ClientOf
    <3>. QED
      BY <2>6, <2>8, <3>1, <3>2, <3>4 DEF Good
  <2>9. k \notin Reads
    BY <1>1, NotReading
  <2>. QED
    BY <1>2, <2>7, <2>8, <2>9, StepGood
<1>. QED
  BY <1>3, <1>4, <1>5 DEF DropPairs

\* The credentials of a user that is deleted are looked up (database/model.py
\* User.delete).
LEMMA FindToDropGood ==
  ASSUME IInv, DocInv, NEW r \in Requests, FindClientToDrop(r) \/ FindSessionToDrop(r)
  PROVE  DocInv'
<1>1. CASE FindClientToDrop(r)
  <2>1. At(r, "client_to_drop") /\ UNCHANGED tables
    BY <1>1 DEF FindClientToDrop
  <2>2. CASE Proceed(r)
    BY <2>1, <2>2, LookStep
  <2>3. ASSUME NEW c \in clients, Load(r, c.id, <<"session_to_drop", "drop_client">>)
        PROVE  DocInv'
    <3> DEFINE steps == <<"session_to_drop", "drop_client">>
               plan == steps \o Tail(req[r].todo)
    <3>1. /\ steps \in Seq(Steps) /\ steps # <<>> /\ Head(steps) = "session_to_drop"
          /\ Tail(req[r].todo) \in Seq(Steps) /\ c.id \in Ids
      BY <2>1, AtStep DEF Steps, IInv, Typed, ClientRows
    <3>2. Goes(r, plan, c.id)
      BY <2>1, <2>3, <3>1, LoadGoes DEF IInv
    <3>3. req[r].kind \in Served => plan \in Left(req[r].kind)
      BY <2>1, ServedStep DEF Follows
    <3>4. plan # <<>> /\ Head(plan) = "session_to_drop"
      BY <3>1, ConcatTail
    <3>5. req[r].kind \in Served /\ ~Raced(r) => Target(r) \in users
      BY <2>1, NeedsMet
    <3>6. c \in WithId(c.id)
      BY DEF WithId
    <3> HIDE DEF plan
    <3>7. /\ ~NeedsFacility(plan) /\ ~Creating(req[r].kind, plan)
          /\ ~IsNext(plan, {"drop_session", "update_session", "add_session", "add_pair", "token",
                            "drop_pairs", "session"})
      <4>1. plan # <<"drop_pairs", "drop_facility">> /\ plan # <<"user", "associate">>
        BY <3>4
      <4>. QED
        BY <3>4, <4>1 DEF IsNext, NeedsFacility, Creating
    <3>. QED
      BY <2>1, <3>2, <3>3, <3>5, <3>6, <3>7, ReplaceGood DEF IsNext
  <2>. QED
    BY <1>1, <2>2, <2>3 DEF FindClientToDrop, ClientOf
<1>2. CASE FindSessionToDrop(r)
  <2>1. At(r, "session_to_drop") /\ UNCHANGED tables
    BY <1>2 DEF FindSessionToDrop
  <2>2. CASE req[r].row \notin session
    <3>1. Proceed(r)
      BY <1>2, <2>2 DEF FindSessionToDrop, Proceed
    <3>. QED
      BY <2>1, <3>1, LookStep
  <2>3. CASE req[r].row \in session
    <3> DEFINE steps == <<"drop_session">>
               plan == steps \o Tail(req[r].todo)
    <3>1. /\ steps \in Seq(Steps) /\ steps # <<>> /\ Head(steps) = "drop_session"
          /\ Tail(req[r].todo) \in Seq(Steps)
      BY <2>1, AtStep DEF Steps, IInv
    <3>2. Goes(r, plan, req[r].row)
      BY <1>2, <2>1, <2>3, <3>1, ThenGoes DEF IInv, FindSessionToDrop
    <3>3. req[r].kind \in Served => plan \in Left(req[r].kind)
      BY <2>1, ServedStep DEF Follows
    <3>4. plan # <<>> /\ Head(plan) = "drop_session"
      BY <3>1, ConcatTail
    <3>5. req[r].kind \in Served /\ ~Raced(r) => Target(r) \in users /\ Loaded(r) # {}
      BY <2>1, NeedsMet
    <3> HIDE DEF plan
    <3>6. /\ ~NeedsFacility(plan) /\ ~Creating(req[r].kind, plan)
          /\ ~IsNext(plan, {"add_session", "add_pair", "token", "drop_pairs", "session"})
      <4>1. plan # <<"drop_pairs", "drop_facility">> /\ plan # <<"user", "associate">>
        BY <3>4
      <4>. QED
        BY <3>4, <4>1 DEF IsNext, NeedsFacility, Creating
    <3>. QED
      BY <2>1, <2>3, <3>2, <3>3, <3>5, <3>6, ReplaceGood DEF IsNext, Loaded
  <2>. QED
    BY <2>2, <2>3
<1>. QED
  BY <1>1, <1>2

\* The session and the client of a user are deleted.
LEMMA DropCredentialsGood ==
  ASSUME IInv, DocInv, NEW r \in Requests, DropSession(r) \/ DropClient(r)
  PROVE  DocInv'
<1>1. CASE DropSession(r)
  <2>1. /\ At(r, "drop_session") /\ req[r].kind \notin Reads
        /\ users' = users /\ facilities' = facilities /\ clients' = clients
    BY <1>1, NotReading DEF DropSession
  <2>2. CASE Proceed(r)
    <3>1. Goes(r, Tail(req[r].todo), req[r].row) /\ req[r].kind # None /\ req[r].code = 0
      BY <2>1, <2>2, ProceedGoes, AtStep DEF IInv
    <3>2. req[r].kind \in Served => Good(r)'
      BY <2>1, <3>1, PassGood DEF Goes, Loaded, WithId
    <3>. QED
      BY <2>1, <3>1, <3>2, StepGood DEF Goes
  <2>3. CASE End(r, "Critical") /\ req[r].row \notin session
    <3>1. session' = session
      BY <1>1, <2>3 DEF DropSession
    <3>2. req[r].kind \in Served => Raced(r)
      BY <2>1, <2>3, NeedsMet
    <3>3. UNCHANGED tables
      BY <1>1, <3>1 DEF DropSession, tables
    <3>. QED
      BY <2>1, <2>3, <3>2, <3>3, FailStep
  <2>. QED
    BY <1>1, <2>2, <2>3 DEF DropSession, Gone
<1>2. CASE DropClient(r)
  <2>1. /\ At(r, "drop_client") /\ req[r].kind \notin Reads
        /\ users' = users /\ facilities' = facilities
    BY <1>2, NotReading DEF DropClient
  <2>2. CASE Proceed(r)
    <3>1. Goes(r, Tail(req[r].todo), req[r].row) /\ req[r].kind # None /\ req[r].code = 0
      BY <2>1, <2>2, ProceedGoes, AtStep DEF IInv
    <3>2. ASSUME req[r].kind \in Served
          PROVE  ~NeedsClient(Tail(req[r].todo)) /\ ~Creating(req[r].kind, Tail(req[r].todo))
      <4>1. Head(req[r].todo) = "drop_client" /\ Follows(req[r].kind, req[r].todo)
        BY <2>1, <3>2, ServedStep
      <4>2. ~NeedsClient(Tail(req[r].todo))
            /\ (Creating(req[r].kind, Tail(req[r].todo)) => Creating(req[r].kind, req[r].todo))
        BY <4>1 DEF Follows
      <4>3. ~Creating(req[r].kind, req[r].todo)
        BY <4>1 DEF Creating, IsNext
      <4>. QED
        BY <4>2, <4>3
    <3>3. req[r].kind \in Served => Good(r)'
      BY <2>1, <3>1, <3>2, PassGood DEF Goes
    <3>. QED
      BY <2>1, <3>1, <3>3, StepGood DEF Goes
  <2>3. CASE End(r, "BadRequest") /\ clients' = clients
    BY <1>2, <2>1, <2>3, FailStep DEF DropClient, tables
  <2>4. CASE End(r, "Critical") /\ Loaded(r) = {} /\ clients' = clients \ Loaded(r)
    <3>1. UNCHANGED tables
      BY <1>2, <2>4 DEF DropClient, tables
    <3>2. req[r].kind \in Served => Raced(r)
      BY <2>1, <2>4, NeedsMet
    <3>. QED
      BY <2>1, <2>4, <3>1, <3>2, FailStep
  <2>. QED
    BY <1>2, <2>2, <2>3, <2>4 DEF DropClient, Gone
<1>. QED
  BY <1>1, <1>2

\* A user or a facility is deleted (database/model.py User.delete, Facility.delete).
LEMMA DropRowsGood ==
  ASSUME IInv, DocInv, NEW r \in Requests, DropUser(r) \/ DropFacility(r)
  PROVE  DocInv'
<1>1. PICK step \in {"drop_user", "drop_facility"} :
        /\ At(r, step)
        /\ step = "drop_user" => DropUser(r)
        /\ step = "drop_facility" => DropFacility(r)
  BY DEF DropUser, DropFacility
<1>2. CASE Proceed(r)
  <2>1. Goes(r, Tail(req[r].todo), req[r].row) /\ req[r].kind # None /\ req[r].code = 0
    BY <1>1, <1>2, ProceedGoes, AtStep DEF IInv
  <2>2. req[r].kind \in Served => Tail(req[r].todo) = <<>>
    BY <1>1, ServedStep DEF Follows
  <2>3. req[r].kind \in Served => Good(r)'
    BY <2>1, <2>2, DoneGood DEF Goes, Kept
  <2>4. req[r].kind \notin Reads
    BY <1>1, NotReading
  <2>. QED
    BY <2>1, <2>3, <2>4, StepGood DEF Goes
<1>3. CASE End(r, "BadRequest") /\ UNCHANGED tables
  BY <1>1, <1>3, FailStep
<1>4. CASE /\ End(r, "Critical")
           /\ step = "drop_user" => Target(r) \notin users
           /\ step = "drop_facility" => req[r].facility \notin facilities
  <2>1. req[r].kind \in Served => Raced(r)
    BY <1>1, <1>4, NeedsMet
  <2>2. Kept(r) /\ req[r].kind # None /\ req[r].code = 0
    BY <1>1, <1>4, Statuses, EndFails, AtStep DEF IInv, Fails
  <2>3. req[r].kind \in Served => Good(r)'
    BY <1>4, <2>1, <2>2, Statuses, FailsGood
  <2>4. req[r].kind \notin Reads
    BY <1>1, NotReading
  <2>. QED
    BY <2>2, <2>3, <2>4, StepGood
<1>5. CASE step = "drop_user"
  BY <1>1, <1>2, <1>3, <1>4, <1>5 DEF DropUser, Gone, tables
<1>6. CASE step = "drop_facility"
  BY <1>1, <1>2, <1>3, <1>4, <1>6 DEF DropFacility, Gone, tables
<1>. QED
  BY <1>1, <1>5, <1>6

\* The client of a user is looked up; without one some requests create it, and
\* the others answer that there is none (database/model.py Client.from_user).
LEMMA FoundGood ==
  ASSUME IInv, DocInv, NEW r \in Requests,
         NEW step \in {"new_key", "new_secret", "session", "session_of_new"}, At(r, step),
         NEW then \in Seq(Steps), NEW otherwise \in Seq(Steps), Found(r, then, otherwise),
         then # <<>>, Head(then) \in {"write_key", "write_secret", "old_session"},
         otherwise # <<>>, Head(otherwise) = "user", otherwise # <<"user", "associate">>,
         req[r].kind \in Served =>
           then \in Left(req[r].kind) /\ (Creates(r, step) => otherwise \in Left(req[r].kind))
  PROVE  DocInv'
<1> DEFINE k == req[r].kind
<1>1. UNCHANGED tables
  BY DEF Found
<1>2. /\ k \in Served =>
           /\ Tail(req[r].todo) = <<>>
           /\ k \in {"get_client", "get_client_secret", "get_token", "get_token_for_user"}
      /\ Head(req[r].todo) = step
  BY ServedStep, AtStep DEF Follows, IInv
<1>3. ASSUME NEW c \in clients, Load(r, c.id, then) PROVE DocInv'
  <2> DEFINE plan == then \o Tail(req[r].todo)
  <2>1. c.id \in Ids /\ c \in WithId(c.id)
    BY DEF IInv, Typed, ClientRows, WithId
  <2>2. Goes(r, plan, c.id)
    BY <1>3, <2>1, LoadGoes DEF IInv
  <2>3. k \in Served => plan = then
    BY <1>2, ConcatEmptySeq
  <2> HIDE DEF plan
  <2>4. then # <<"drop_pairs", "drop_user">> /\ then # <<"drop_pairs", "drop_facility">>
        /\ then # <<"facility", "associate">> /\ then # <<"user", "associate">>
    OBVIOUS
  <2>5. k \in Served =>
          /\ ~NeedsUser(plan) /\ ~NeedsFacility(plan) /\ ~Creating(k, plan)
          /\ ~IsNext(plan, {"drop_session", "update_session", "add_session", "add_pair", "token",
                            "drop_pairs", "session"})
    BY <2>3, <2>4 DEF IsNext, NeedsUser, NeedsFacility, Creating
  <2>. QED
    BY <1>1, <2>1, <2>2, <2>3, <2>5, ReplaceGood DEF IsNext
<1>4. ASSUME ClientOf(Target(r)) = {}, Creates(r, step), Then(r, otherwise) PROVE DocInv'
  <2> DEFINE plan == otherwise \o Tail(req[r].todo)
  <2>1. Goes(r, plan, req[r].row)
    BY <1>4, ThenGoes DEF IInv
  <2>2. k \in Served => plan = otherwise
    BY <1>2, ConcatEmptySeq
  <2> HIDE DEF plan
  <2>3. otherwise # <<"drop_pairs", "drop_user">> /\ otherwise # <<"drop_pairs", "drop_facility">>
        /\ otherwise # <<"facility", "associate">>
    OBVIOUS
  <2>4. k \in Served =>
          /\ ~NeedsUser(plan) /\ ~NeedsFacility(plan) /\ ~NeedsClient(plan)
          /\ ~IsNext(plan, {"drop_session", "update_session", "add_session", "add_pair", "token",
                            "drop_pairs", "session"})
    BY <2>2, <2>3 DEF IsNext, NeedsUser, NeedsFacility, NeedsClient
  <2>5. k \in Served => plan \in Left(k)
    BY <1>4, <2>2
  <2>. QED
    BY <1>1, <1>4, <2>1, <2>4, <2>5, ReplaceGood DEF IsNext
<1>5. ASSUME ClientOf(Target(r)) = {}, End(r, "NotFound") PROVE DocInv'
  <2>1. k \in Served /\ k = "get_token" => step = "session" \/ step = "session_of_new"
    BY ServedStep DEF Follows
  <2>2. k \in Served => step # "session_of_new" \/ k = "get_token_for_user"
    BY ServedStep DEF Follows
  <2>3. k \in Served /\ k = "get_token" => Raced(r)
    BY <1>5, <2>1, <2>2, NeedsMet
  <2>4. k \in Served => k # "get_profile"
    BY <1>2
  <2>. QED
    BY <1>1, <1>5, <2>3, <2>4, FailStep
<1>. QED
  BY <1>2, <1>3, <1>4, <1>5 DEF Found, ClientOf

\* Credentials and sessions are looked up (database/model.py Client.new_key,
\* new_secret, Session.new).
LEMMA FindClientGood ==
  ASSUME IInv, DocInv, NEW r \in Requests, FindClient(r)
  PROVE  DocInv'
<1> DEFINE k == req[r].kind
           new == NewClient \o <<"session_of_new">>
<1>1. /\ NewClient \in Seq(Steps) /\ NewClient # <<>> /\ Head(NewClient) = "user"
      /\ NewClient # <<"user", "associate">>
  BY DEF NewClient, Steps, Harmless
<1>2. new = <<"user", "add_client", "reload_user", "session_of_new">>
  BY JoinedSteps, Joined31 DEF NewClient
<1> HIDE DEF new
<1>3. new \in Seq(Steps)
  <2>1. {"user", "add_client", "reload_user", "session_of_new"} \subseteq Steps
    BY DEF Steps, Harmless
  <2>. QED
    BY <1>2, <2>1
<1>4. new # <<>> /\ Head(new) = "user" /\ new # <<"user", "associate">>
  BY <1>2
<1>5. CASE At(r, "new_key") /\ Found(r, <<"write_key", "reload_client">>, NewClient)
  <2> DEFINE then == <<"write_key", "reload_client">>
  <2>1. then \in Seq(Steps) /\ then # <<>> /\ Head(then) = "write_key"
    BY DEF Steps
  <2>2. k \in Served => k = "get_client"
    BY <1>5, ServedStep DEF Follows
  <2>3. k \in Served => then \in Left(k) /\ NewClient \in Left(k)
    BY <2>2, Sorts DEF Left, Todo, Making, NewClient, Others, Makers
  <2>4. Found(r, then, NewClient)
    BY <1>5
  <2> HIDE DEF then
  <2>. QED
    BY <1>1, <1>5, <2>1, <2>3, <2>4, FoundGood
<1>6. CASE At(r, "new_secret") /\ Found(r, <<"write_secret", "reload_client">>, NewClient)
  <2> DEFINE then == <<"write_secret", "reload_client">>
  <2>1. then \in Seq(Steps) /\ then # <<>> /\ Head(then) = "write_secret"
    BY DEF Steps
  <2>2. k \in Served => k = "get_client_secret"
    BY <1>6, ServedStep DEF Follows
  <2>3. k \in Served => then \in Left(k) /\ NewClient \in Left(k)
    BY <2>2, Sorts DEF Left, Todo, Making, NewClient, Others, Makers
  <2>4. Found(r, then, NewClient)
    BY <1>6
  <2> HIDE DEF then
  <2>. QED
    BY <1>1, <1>6, <2>1, <2>3, <2>4, FoundGood
<1>7. ASSUME NEW step \in {"session", "session_of_new"}, At(r, step), Found(r, <<"old_session">>, new)
      PROVE  DocInv'
  <2> DEFINE then == <<"old_session">>
  <2>1. then \in Seq(Steps) /\ then # <<>> /\ Head(then) = "old_session"
    BY DEF Steps, Harmless
  <2>2. k \in Served => k \in {"get_token", "get_token_for_user"}
    BY <1>7, ServedStep DEF Follows
  <2>3. k \in Served => then \in Left(k)
    BY <2>2, Sorts DEF Left, Todo, Made, SessionSteps, Others, Makers
  <2>4. k \in Served /\ Creates(r, step) => new \in Left(k)
    BY <1>2, <2>2, Sorts DEF Creates, Left, Todo, Making, Others, Makers
  <2>5. Found(r, then, new)
    BY <1>7
  <2> HIDE DEF then
  <2>. QED
    BY <1>3, <1>4, <1>7, <2>1, <2>3, <2>4, <2>5, FoundGood
<1>. QED
  BY <1>5, <1>6, <1>7 DEF FindClient, new

\* The session that is there is written over; without one it is added.
LEMMA FindSessionGood ==
  ASSUME IInv, DocInv, NEW r \in Requests, FindSession(r)
  PROVE  DocInv'
<1> DEFINE k == req[r].kind
<1>1. At(r, "old_session") /\ UNCHANGED tables
  BY DEF FindSession
<1>2. k \in Served => Tail(req[r].todo) = <<>> /\ k \in {"get_token", "get_token_for_user"}
  BY <1>1, ServedStep DEF Follows
<1>3. PICK step \in {"update_session", "add_session"} :
        Then(r, <<step>>) /\ (step = "update_session" <=> req[r].row \in session)
  BY DEF FindSession
<1> DEFINE then == <<step>>
           plan == then \o Tail(req[r].todo)
<1>4. then \in Seq(Steps) /\ then # <<>> /\ Head(then) = step
  BY DEF Steps, Harmless
<1>5. k \in Served => then \in Left(k)
  BY <1>2, Sorts DEF Left, Todo, Made, SessionSteps, Others, Makers
<1>6. Goes(r, plan, req[r].row)
  BY <1>1, <1>3, <1>4, ThenGoes DEF IInv
<1>7. k \in Served => plan = then
  BY <1>2, <1>4, ConcatEmptySeq
<1>8. then # <<"drop_pairs", "drop_user">> /\ then # <<"drop_pairs", "drop_facility">>
      /\ then # <<"facility", "associate">> /\ then # <<"user", "associate">>
  BY <1>4
<1> HIDE DEF plan, then
<1>9. k \in Served =>
        /\ ~NeedsUser(plan) /\ ~NeedsFacility(plan) /\ ~Creating(k, plan)
        /\ ~IsNext(plan, {"drop_session", "add_pair", "token", "drop_pairs", "session"})
        /\ IsNext(plan, {"drop_session", "update_session"}) => step = "update_session"
        /\ IsNext(plan, {"add_session"}) => step = "add_session"
  BY <1>4, <1>7, <1>8 DEF IsNext, NeedsUser, NeedsFacility, Creating
<1>10. k \in Served /\ ~Raced(r) => WithId(req[r].row) # {}
  BY <1>1, NeedsMet DEF Loaded
<1>. QED
  BY <1>1, <1>3, <1>5, <1>6, <1>7, <1>9, <1>10, ReplaceGood DEF IsNext

\* Credentials are made, written and read again (database/model.py Client.new,
\* new_key, new_secret).
LEMMA CredentialsGood ==
  ASSUME IInv, DocInv, NEW r \in Requests, AddClient(r) \/ WriteClient(r) \/ ReloadClient(r)
  PROVE  DocInv'
<1>1. CASE AddClient(r)
  <2>1. /\ At(r, "add_client") /\ req[r].kind \notin Reads /\ users' = users /\ facilities' = facilities
    BY <1>1, NotReading DEF AddClient
  <2>2. CASE req' = [req EXCEPT ![r].todo = Tail(@), ![r].got = <<r, r>>]
    <3>1. /\ Kept(r) /\ req'[r].user = req[r].user /\ req'[r].row = req[r].row
          /\ req'[r].code = req[r].code /\ req'[r].todo = Tail(req[r].todo)
          /\ req[r].kind # None /\ req[r].code = 0
      BY <2>1, <2>2, TellGoes, AtStep DEF IInv, Ids
    <3>2. req[r].kind \in Served =>
            ~NeedsClient(Tail(req[r].todo)) /\ ~Creating(req[r].kind, Tail(req[r].todo))
      <4> SUFFICES ASSUME req[r].kind \in Served
                   PROVE  ~NeedsClient(Tail(req[r].todo)) /\ ~Creating(req[r].kind, Tail(req[r].todo))
        OBVIOUS
      <4>1. Head(req[r].todo) = "add_client" /\ Follows(req[r].kind, req[r].todo)
        BY <2>1, ServedStep
      <4>2. ~Creating(req[r].kind, Tail(req[r].todo))
            /\ (NeedsClient(Tail(req[r].todo)) => NeedsClient(req[r].todo))
        BY <4>1 DEF Follows
      <4>3. ~NeedsClient(req[r].todo)
        BY <4>1 DEF NeedsClient, IsNext
      <4>. QED
        BY <4>2, <4>3
    <3>3. req[r].kind \in Served => Good(r)'
      BY <2>1, <3>1, <3>2, PassGood
    <3>. QED
      BY <2>1, <3>1, <3>3, StepGood
  <2>3. CASE /\ End(r, "Critical") /\ clients' = clients
             /\ ~(Target(r) \in users /\ ClientOf(Target(r)) = {})
    <3>1. req[r].kind \in Served => Raced(r)
      BY <2>1, <2>3, NeedsMet
    <3>2. UNCHANGED tables
      BY <1>1, <2>3 DEF AddClient, tables
    <3>. QED
      BY <2>1, <2>3, <3>1, <3>2, FailStep
  <2>. QED
    BY <1>1, <2>2, <2>3 DEF AddClient
<1>2. CASE WriteClient(r)
  <2>1. PICK step \in {"write_key", "write_secret"} : At(r, step)
    BY <1>2 DEF WriteClient
  <2>2. /\ req[r].kind \notin Reads /\ users' = users /\ facilities' = facilities
    BY <1>2, <2>1, NotReading DEF WriteClient
  <2>3. CASE End(r, "Critical") /\ Loaded(r) = {} /\ clients' = clients
    <3>1. req[r].kind \in Served => Raced(r)
      BY <2>1, <2>3, NeedsMet
    <3>2. UNCHANGED tables
      BY <1>2, <2>3 DEF WriteClient, tables
    <3>. QED
      BY <2>1, <2>3, <3>1, <3>2, FailStep
  <2>4. ASSUME NEW c \in Loaded(r), NEW key, Proceed(r),
               clients' = (clients \ {c}) \cup {[c EXCEPT !.secret = r, !.key = key]}
        PROVE  DocInv'
    <3>1. Goes(r, Tail(req[r].todo), req[r].row) /\ req[r].kind # None /\ req[r].code = 0
      BY <2>1, <2>4, ProceedGoes, AtStep DEF IInv
    <3>2. [c EXCEPT !.secret = r, !.key = key].id = req[r].row
      BY DEF Loaded, WithId, IInv, Typed, ClientRows
    <3>3. WithId(req[r].row)' # {}
      BY <2>4, <3>1, <3>2 DEF WithId, Goes
    <3>4. ASSUME req[r].kind \in Served PROVE ~Creating(req[r].kind, Tail(req[r].todo))
      <4>1. /\ Head(req[r].todo) \notin {"user", "add_client"}
            /\ (Creating(req[r].kind, Tail(req[r].todo)) => Creating(req[r].kind, req[r].todo))
        BY <2>1, <3>4, ServedStep DEF Follows
      <4>. QED
        BY <4>1 DEF Creating, IsNext
    <3>5. req[r].kind \in Served => Good(r)'
      BY <2>1, <2>2, <3>1, <3>3, <3>4, PassGood DEF Goes
    <3>. QED
      BY <2>2, <3>1, <3>5, StepGood DEF Goes
  <2>. QED
    BY <1>2, <2>3, <2>4 DEF WriteClient
<1>3. CASE ReloadClient(r)
  <2>1. At(r, "reload_client") /\ UNCHANGED tables
    BY <1>3 DEF ReloadClient
  <2>2. users' = users /\ facilities' = facilities /\ clients' = clients
    BY <2>1 DEF tables
  <2>3. CASE End(r, "Critical") /\ Loaded(r) = {}
    <3>1. req[r].kind \in Served => Raced(r)
      BY <2>1, <2>3, NeedsMet
    <3>. QED
      BY <2>1, <2>3, <3>1, FailStep
  <2>4. ASSUME NEW key \in Ids, req' = [req EXCEPT ![r].todo = Tail(@), ![r].got = <<key, r>>]
        PROVE  DocInv'
    <3>1. /\ Kept(r) /\ req'[r].user = req[r].user /\ req'[r].row = req[r].row
          /\ req'[r].code = req[r].code /\ req'[r].todo = Tail(req[r].todo)
          /\ req[r].kind # None /\ req[r].code = 0
      BY <2>1, <2>4, TellGoes, AtStep DEF IInv
    <3>2. req[r].kind \in Served => Good(r)'
      BY <2>1, <2>2, <3>1, PassGood DEF WithId, Loaded
    <3>. QED
      BY <2>1, <3>1, <3>2, StepGood
  <2>5. \A c \in Loaded(r) :
          (IF req[r].kind \in {"get_client", "update_key"} THEN r ELSE c.key) \in Ids
    BY DEF Loaded, WithId, IInv, Typed, ClientRows, Ids
  <2>. QED
    BY <1>3, <2>3, <2>4, <2>5 DEF ReloadClient
<1>. QED
  BY <1>1, <1>2, <1>3

\* The session is written (database/model.py Session.new).
LEMMA WriteSessionGood ==
  ASSUME IInv, DocInv, NEW r \in Requests, WriteSession(r)
  PROVE  DocInv'
<1>1. PICK step \in {"update_session", "add_session"} : At(r, step)
  BY DEF WriteSession
<1>2. At(r, "update_session") <=> step = "update_session"
  BY <1>1 DEF At
<1>3. CASE Proceed(r)
  <2>1. Goes(r, Tail(req[r].todo), req[r].row) /\ req[r].kind # None /\ req[r].code = 0
    BY <1>1, <1>3, ProceedGoes, AtStep DEF IInv
  <2>2. req[r].kind \in Served => Tail(req[r].todo) = <<>>
    BY <1>1, ServedStep DEF Follows
  <2>3. req[r].kind \in Served => Good(r)'
    BY <2>1, <2>2, DoneGood DEF Goes, Kept
  <2>4. req[r].kind \notin Reads
    BY <1>1, NotReading
  <2>. QED
    BY <2>1, <2>3, <2>4, StepGood DEF Goes
<1>4. CASE /\ End(r, "Critical") /\ session' = session
           /\ ~(Loaded(r) # {} /\ (step = "update_session" <=> req[r].row \in session))
  <2>1. req[r].kind \in Served => Raced(r)
    BY <1>1, <1>4, NeedsMet
  <2>2. UNCHANGED tables
    BY <1>4 DEF WriteSession, tables
  <2>. QED
    BY <1>1, <1>4, <2>1, <2>2, FailStep
<1>. QED
  BY <1>2, <1>3, <1>4 DEF WriteSession

\* A client is revoked from the command line (apps/refitt/auth.py).
LEMMA RevokeGood ==
  ASSUME IInv, DocInv, NEW r \in Requests, FindRevoked(r) \/ Revoke(r)
  PROVE  DocInv'
<1>1. PICK step \in {"client_to_revoke", "revoke"} : At(r, step)
  BY DEF FindRevoked, Revoke
<1>2. req[r].kind \notin Served /\ req[r].kind \notin Reads
  BY <1>1, ServedStep, NotReading DEF Follows
<1>3. req[r].kind # None /\ req[r].code = 0
  BY <1>1, AtStep DEF IInv
<1>4. ASSUME NEW error \in {"NotFound", "Critical"}, End(r, error) PROVE Kept(r)
  BY <1>4, Statuses, EndFails DEF IInv, Fails
<1>5. Proceed(r) => Kept(r)
  BY <1>1, ProceedGoes DEF IInv, Goes
<1>6. ASSUME NEW c \in clients, Load(r, c.id, <<>>) PROVE Kept(r)
  <2>1. c.id \in Ids /\ <<>> \in Seq(Steps)
    BY DEF IInv, Typed, ClientRows
  <2>. QED
    BY <1>1, <1>6, <2>1, LoadGoes DEF IInv, Goes
<1>7. Kept(r)
  BY <1>4, <1>5, <1>6 DEF FindRevoked, Revoke, ClientOf
<1>. QED
  BY <1>2, <1>3, <1>7, StepGood

\* A request that is refused what it asks answers 500 (web/api/response.py endpoint).
LEMMA RefusedGood ==
  ASSUME IInv, DocInv, NEW r \in Requests, Refused(r)
  PROVE  DocInv'
<1>1. /\ Kept(r) /\ UNCHANGED tables /\ req[r].kind # None /\ req[r].code = 0
      /\ req'[r].code = 500 /\ req'[r].refused
  BY RefusedFails DEF IInv, Fails
<1>2. Good(r)'
  BY <1>1 DEF Good, Documented
<1>. QED
  BY <1>1, <1>2, StepGood

\* A handler that is done answers 200 (web/api/response.py endpoint).
LEMMA AnswerGood ==
  ASSUME IInv, DocInv, NEW r \in Requests, Answer(r)
  PROVE  DocInv'
<1>1. /\ req[r].kind # None /\ req[r].code = 0 /\ UNCHANGED tables
  BY DEF Answer, Busy, Over, Sent
<1>2. req \in [Requests -> Request] /\ req[r] \in Request /\ req' \in [Requests -> Request]
  BY AnswerStep DEF IInv, Typed
<1>3. req' = [req EXCEPT ![r] = [req[r] EXCEPT !.code = Code["OK"]]]
  BY <1>2 DEF Answer
<1>4. req'[r] = [req[r] EXCEPT !.code = Code["OK"]] /\ \A q \in Requests \ {r} : req'[q] = req[q]
  BY <1>2, <1>3
<1>5. Kept(r) /\ req'[r].kind = req[r].kind /\ req'[r].code = 200
  BY <1>2, <1>4, CodesApart DEF Kept, Request
<1>6. ASSUME req[r].kind \in Served PROVE Good(r)'
  <2>1. 200 \in Program[req[r].kind].docs
    BY <1>6, EndpointDocs DEF DocsOf
  <2>2. Documented(r)'
    BY <1>5, <2>1 DEF Documented
  <2>. QED
    BY <1>5, <2>2 DEF Good
<1>. QED
  BY <1>1, <1>5, <1>6, StepGood

\* A client that is let in (web/api/auth.py): its own user is there, and has it.
LEMMA AdmitGood ==
  ASSUME IInv, DocInv, NEW r \in Requests, NEW step \in {"token", "secret"}, At(r, step),
         NEW user \in Users, NEW c \in clients,
         req[r].kind \in {"get_profile", "get_token"} => user = c.user,
         req' = [req EXCEPT ![r].todo = Tail(@), ![r].user = user],
         UNCHANGED tables
  PROVE  DocInv'
<1> DEFINE k == req[r].kind
           todo == Tail(req[r].todo)
<1>1. /\ req[r] \in Request /\ k \in Served /\ k # None /\ req[r].code = 0 /\ Waiting(r)
      /\ todo \in Seq(Steps)
  BY AtStep DEF IInv, Waiting, Served
<1>2. todo = Handler(k)
  <2> DEFINE steps == Handler(k)
             by == Admitting(k)
  <2>1. req[r].todo = <<by>> \o steps
    <3>1. AsHandled(k) /\ req[r].todo = Program[k].steps
      BY <1>1, EndpointDocs DEF Waiting
    <3>. QED
      BY <3>1 DEF AsHandled
  <2>2. steps \in Seq(Steps) /\ by \in {"token", "secret"}
    BY <1>1, Begins DEF Admitting
  <2> HIDE DEF steps, by
  <2>3. Tail(<<by>> \o steps) = steps
    BY <2>2, EndpointSteps
  <2>. QED
    BY <2>1, <2>3 DEF steps
<1>3. /\ req \in [Requests -> Request]
      /\ req' = [req EXCEPT ![r] = [req[r] EXCEPT !.todo = todo, !.user = user]]
  BY DEF IInv, Typed
<1> HIDE DEF todo
<1>4. [req[r] EXCEPT !.todo = todo, !.user = user] \in Request
  <2>1. user \in Users \cup {None}
    OBVIOUS
  <2>. QED
    BY <1>1, <2>1, Zenon DEF Request
<1>5. /\ req' \in [Requests -> Request] /\ req'[r] = [req[r] EXCEPT !.todo = todo, !.user = user]
      /\ \A q \in Requests \ {r} : req'[q] = req[q]
  BY <1>3, <1>4
<1>6. /\ req'[r].kind = k /\ req'[r].as = req[r].as /\ req'[r].user = user
      /\ req'[r].facility = req[r].facility /\ req'[r].todo = todo /\ req'[r].row = req[r].row
      /\ req'[r].found = req[r].found /\ req'[r].code = 0 /\ req'[r].before = req[r].before
  BY <1>1, <1>5 DEF Request
<1>7. Kept(r)
  BY <1>5, <1>6 DEF Kept
<1>8. users' = users /\ clients' = clients
  BY DEF tables
<1>9. c.user \in users /\ c \in ClientOf(c.user)
  BY DEF IInv, Integrity, ClientOf
<1>10. /\ todo \in Left(k) /\ (NeedsUser(todo) => k = "get_profile")
       /\ ~NeedsFacility(todo) /\ ~NeedsClient(todo) /\ ~Creating(k, todo)
       /\ ~IsNext(todo, {"token", "add_pair", "drop_pairs", "drop_session", "update_session",
                         "add_session"})
  BY <1>1, <1>2, Begins
<1>11. ClientOf(Target(r))' = ClientOf(user)
  BY <1>6, <1>8 DEF ClientOf, Target
<1>12. Target(r)' = user
  BY <1>6 DEF Target
<1>13. Intact(r)'
  BY <1>6, <1>8, <1>9, <1>10, <1>11, <1>12 DEF Intact, IsNext
<1>14. Good(r)'
  BY <1>1, <1>6, <1>10, <1>13 DEF Good
<1>. QED
  BY <1>1, <1>7, <1>14, StepGood

\* A request is let in, or is not: the level and the secret decide
\* (web/api/auth.py).
LEMMA AuthenticateGood ==
  ASSUME IInv, DocInv, NEW r \in Requests, Authenticated(r) \/ Authenticate(r)
  PROVE  DocInv'
<1> DEFINE k == req[r].kind
<1>1. UNCHANGED tables
  BY DEF Authenticated, Authenticate
<1>2. PICK step \in {"token", "secret"} : At(r, step) /\ (step = "token" => Authenticated(r))
                                          /\ (step = "secret" => Authenticate(r))
  BY DEF Authenticated, Authenticate
<1>3. /\ Waiting(r) /\ Head(req[r].todo) = step /\ Target(r) \in Users /\ k \in Served
      /\ req[r].code = 0
  BY <1>2, AtStep DEF Waiting, IInv, Served
<1>4. step = "token" <=> k # "get_token"
  <2> DEFINE steps == Handler(k)
             by == Admitting(k)
  <2>1. req[r].todo = <<by>> \o steps
    <3>1. AsHandled(k) /\ req[r].todo = Program[k].steps
      BY <1>3, EndpointDocs DEF Waiting
    <3>. QED
      BY <3>1 DEF AsHandled
  <2>2. steps \in Seq(Steps) /\ by \in {"token", "secret"}
    BY <1>3, Begins DEF Admitting
  <2> HIDE DEF steps, by
  <2>3. Head(<<by>> \o steps) = by
    BY <2>2, EndpointSteps
  <2>. QED
    BY <1>2, <1>3, <2>1, <2>3 DEF by, Admitting
<1>5. \A c \in clients : c.user \in Users
  BY DEF IInv, Typed, ClientRows
<1>6. ASSUME NEW error \in {"Forbidden", "Unauthorized", "BadRequest"}, End(r, error) PROVE DocInv'
  BY <1>1, <1>2, <1>6, FailStep
<1>7. CASE step = "token"
  <2>1. CASE WithId(req[r].as.id) = {} /\ End(r, "NotFound")
    <3>1. IsNext(req[r].todo, {"token"})
      BY <1>2, <1>7 DEF IsNext, At
    <3>2. Raced(r) \/ req[r].as = Former
      BY <1>3, <2>1, <3>1 DEF DocInv, Good, Intact
    <3>. QED
      BY <1>1, <1>2, <2>1, <3>2, FailStep
  <2>2. ASSUME NEW admitted \in WithId(req[r].as.id),
               req' = [req EXCEPT ![r].todo = Tail(@),
                                  ![r].user = IF k = "get_profile" THEN admitted.user ELSE Target(r)]
        PROVE  DocInv'
    <3> DEFINE user == IF k = "get_profile" THEN admitted.user ELSE Target(r)
    <3>1. admitted \in clients
      BY DEF WithId
    <3>2. user \in Users /\ (k \in {"get_profile", "get_token"} => user = admitted.user)
      BY <1>3, <1>4, <1>5, <1>7, <3>1
    <3>3. req' = [req EXCEPT ![r].todo = Tail(@), ![r].user = user]
      BY <2>2
    <3> HIDE DEF user
    <3>. QED
      BY <1>1, <1>2, <3>1, <3>2, <3>3, AdmitGood
  <2>3. Authenticated(r)
    BY <1>2, <1>7
  <2>. QED
    BY <1>6, <2>1, <2>2, <2>3 DEF Authenticated
<1>8. CASE step = "secret"
  <2>1. ASSUME NEW c \in clients, req' = [req EXCEPT ![r].todo = Tail(@), ![r].user = c.user]
        PROVE  DocInv'
    <3> DEFINE user == c.user
    <3>1. user \in Users /\ req' = [req EXCEPT ![r].todo = Tail(@), ![r].user = user]
      BY <1>5, <2>1
    <3>2. k \in {"get_profile", "get_token"} => user = c.user
      OBVIOUS
    <3> HIDE DEF user
    <3>. QED
      BY <1>1, <1>2, <3>1, <3>2, AdmitGood
  <2>2. Authenticate(r)
    BY <1>2, <1>8
  <2>. QED
    BY <1>6, <2>1, <2>2 DEF Authenticate
<1>. QED
  BY <1>7, <1>8

\* A request comes in with what was given out for a client.
LEMMA ReceiveGood ==
  ASSUME IInv, DocInv, NEW r \in Requests, Receive(r)
  PROVE  DocInv'
<1> DEFINE k == req'[r].kind
<1>1. /\ UNCHANGED tables /\ clients' = clients /\ req[r].kind = None
      /\ \A q \in Requests \ {r} : req'[q] = req[q]
      /\ k \in DOMAIN Program /\ k # None /\ req'[r].todo = Program[k].steps /\ req'[r].code = 0
      /\ req'[r].as = None => k \in CommandLine
      /\ req'[r].as # None =>
           k \notin CommandLine /\ (req'[r].as = Former \/ \E c \in clients : req'[r].as.id = c.id)
  BY Received DEF Receive
<1>2. ASSUME k \in Served PROVE Good(r)'
  <2>1. req'[r].as # None /\ k \notin CommandLine
    BY <1>1, <1>2 DEF Served
  <2>2. Waiting(r)'
    BY <1>1, <2>1 DEF Waiting
  <2>3. WithId(req[r].as.id)' # {} \/ req'[r].as = Former
    BY <1>1, <2>1 DEF WithId
  <2>4. req'[r].todo # <<>> /\ Head(req'[r].todo) \in {"token", "secret"}
    BY <1>1, <2>1, EndpointPrograms
  <2>5. /\ req'[r].todo # <<"drop_pairs", "drop_user">> /\ req'[r].todo # <<"facility", "associate">>
        /\ req'[r].todo # <<"drop_pairs", "drop_facility">> /\ req'[r].todo # <<"user", "associate">>
    BY <2>4
  <2>6. Intact(r)'
    BY <2>3, <2>4, <2>5 DEF Intact, IsNext, NeedsUser, NeedsFacility, NeedsClient, Creating, WithId
  <2>. QED
    BY <1>1, <2>2, <2>6 DEF Good
<1>3. \A q \in Requests \ {r} : Good(q)'
  BY <1>1, OthersGood
<1>4. Good(r)'
  BY <1>2 DEF Good
<1>. QED
  BY <1>3, <1>4 DEF DocInv

\* Every step of every request keeps it.
LEMMA NextGood ==
  ASSUME IInv, DocInv, [Next]_vars
  PROVE  DocInv'
<1>1. CASE UNCHANGED vars
  <2>1. ASSUME NEW r \in Requests PROVE Good(r)'
    <3>1. UNCHANGED tables /\ req' = req
      BY <1>1 DEF vars
    <3>2. /\ Intact(r)' <=> Intact(r)
          /\ Waiting(r)' <=> Waiting(r)
          /\ Raced(r)' <=> Raced(r)
      BY <3>1, IntactStays DEF Waiting, Raced, Sent
    <3>3. Documented(r)' <=> Documented(r)
      BY <3>1, <3>2 DEF Documented
    <3>. QED
      BY <3>1, <3>2, <3>3 DEF DocInv, Good
  <2>. QED
    BY <2>1 DEF DocInv
<1>2. ASSUME NEW r \in Requests,
             \/ Receive(r) \/ Authenticated(r) \/ Authenticate(r) \/ Refused(r) \/ Answer(r)
             \/ FindUser(r) \/ FindFacility(r) \/ OwnUser(r) \/ Associated(r)
             \/ AddUser(r) \/ AddFacility(r) \/ Write(r)
      PROVE  DocInv'
  BY <1>2, ReceiveGood, AuthenticateGood, RefusedGood, AnswerGood, LookupsGood, AddGood
<1>3. ASSUME NEW r \in Requests,
             \/ FindPair(r) \/ AddPair(r) \/ ReloadPair(r) \/ FindPairs(r) \/ DropPairs(r)
             \/ FindClientToDrop(r) \/ FindSessionToDrop(r) \/ DropSession(r) \/ DropClient(r)
             \/ DropUser(r) \/ DropFacility(r)
      PROVE  DocInv'
  BY <1>3, AssociateGood, LookupsGood, FindPairsGood, DropPairsGood, FindToDropGood,
     DropCredentialsGood, DropRowsGood
<1>4. ASSUME NEW r \in Requests,
             \/ FindClient(r) \/ AddClient(r) \/ ReloadUser(r) \/ WriteClient(r) \/ ReloadClient(r)
             \/ FindSession(r) \/ WriteSession(r) \/ FindRevoked(r) \/ Revoke(r)
      PROVE  DocInv'
  BY <1>4, FindClientGood, CredentialsGood, LookupsGood, FindSessionGood, WriteSessionGood, RevokeGood
<1>. QED
  BY <1>1, <1>2, <1>3, <1>4 DEF Next, Finished

\* What the API answers is what info['Endpoints'] documents, but for the cases
\* named, however its requests overlap (web/api/endpoint, web/api/response.py).
THEOREM AnswersAsDocumented == Spec => []AnswersDocumented
<1>1. Init => IInv /\ DocInv
  <2>1. ASSUME Init PROVE DocInv
    <3>1. \A r \in Requests : req[r].kind = None
      BY <2>1 DEF Init, Unsent
    <3>. QED
      BY <3>1, KindsAssumption DEF DocInv, Good, Served
  <2>. QED
    BY <2>1, InitHolds
<1>2. IInv /\ DocInv /\ [Next]_vars => IInv' /\ DocInv'
  BY NextHolds, NextGood
<1>3. IInv /\ DocInv => AnswersDocumented
  <2> SUFFICES ASSUME IInv, DocInv, NEW r \in Over, req[r].kind \notin CommandLine
               PROVE  Documented(r)
    BY DEF AnswersDocumented, Documented
  <2>1. r \in Requests /\ req[r].kind # None /\ req[r].code # 0
    BY DEF Over, Sent
  <2>2. req[r].kind \in Served
    BY <2>1, KindsAssumption DEF IInv, Typed, Request, Served
  <2>. QED
    BY <2>1, <2>2 DEF DocInv, Good
<1>. QED
  BY <1>1, <1>2, <1>3, PTL DEF Spec
==============================================================================
