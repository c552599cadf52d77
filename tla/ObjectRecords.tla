----------------------------- MODULE ObjectRecords -----------------------------
(***************************************************************************)
(* What becomes of an object's record when the programs of the site work   *)
(* on it at the same time: the broker stream adds objects, observations    *)
(* and alerts (data/broker), the TNS services write the name, class and    *)
(* history that TNS gives (data/tns), and the publication of               *)
(* recommendations and forecasts tags the object and writes its predicted  *)
(* type (database/model.py, apps/refitt/forecast/publish.py).              *)
(*                                                                         *)
(* A process is one call: of an update_object, of persist_to_database for  *)
(* one alert, of RecommendationTag.get_or_create, or of update_object of   *)
(* the forecast publication (its observation and models are in             *)
(* Publication).  A step is one statement to the database with its commit, *)
(* or one request to TNS.  A name is a provider, since every name of an    *)
(* object is a name of the same thing in the sky; a class stands for the   *)
(* type and the redshift.                                                  *)
(*                                                                         *)
(* The ORM keeps an object as it was loaded until its session commits, and *)
(* then writes the columns that differ from what was loaded ("snap"); a    *)
(* JSON column (aliases, history, data) is written whole.                  *)
(* Names ending in _M are mistakes the code does not make.                 *)
(***************************************************************************)
EXTENDS Naturals, Sequences

CONSTANTS
  Procs, Things, None,
  Kinds,        \* subset of AllKinds
  Listed,       \* where TNS may list the ZTF name: "first", "later", "nowhere"
  Faults,       \* subset of {"tns_fails", "stopped"}
  Unknown,      \* the class of what TNS has not classified
  Classes,      \* the classes that TNS gives
  MaxVersion,   \* bound: times that TNS changes what it says of a thing
  MaxDay,       \* bound: times that more than expired_after passes
  MaxTime       \* bound: alerts of a thing

AllKinds == {"query", "catalog", "ingest", "tag", "forecast"}
ASSUME KindsAssumption == Kinds \subseteq AllKinds
ASSUME BoundsAssumption ==
  /\ MaxVersion \in Nat /\ MaxDay \in Nat /\ MaxTime \in Nat
  /\ Listed \subseteq {"first", "later", "nowhere"}
\* What is not there is neither a process, nor a kind of call or of end.
Ends == {"done", "reported", "unanswered", "unreachable", "raised", "stopped"}
ASSUME NoneAssumption == None \notin Procs \cup AllKinds \cup Ends

VARIABLES
  tns,          \* what TNS says of each thing
  today,        \* the day
  file,         \* the catalog's cache file, or None
  held,         \* the catalog the catalog service holds, or None
  types,        \* table ObjectType
  rows,         \* table Object
  tags,         \* table RecommendationTag
  observations, \* table Observation, of the broker's source
  alerts,       \* table Alert: the observations that have one
  proc          \* the processes

store == <<types, rows, tags, observations, alerts>>
world == <<tns, today, file, held>>
vars == <<world, store, proc>>

Given == {"iau", "ztf", "antares"}     \* the names a service is fed
Unstarted == [kind |-> None, of |-> None, by |-> None, todo |-> <<>>, row |-> 0,
              snap |-> None, answer |-> None, time |-> 0, previous |-> {}, met |-> {},
              end |-> None]

Started == {p \in Procs : proc[p].kind # None}
Busy == {p \in Started : proc[p].end = None}
Going == \E p \in Procs : proc[p].end = None    \* bound: the world stops with the programs
At(p, step) == proc[p].todo # <<>> /\ Head(proc[p].todo) = step /\ p \in Busy
Then(p, steps) == proc' = [proc EXCEPT ![p].todo = steps \o Tail(@)]
End(p, how) ==
  proc' = [proc EXCEPT ![p].todo = <<>>, ![p].end = how, ![p].snap = None, ![p].answer = None]
Proceed(p) == IF Len(proc[p].todo) = 1 THEN End(p, "done") ELSE Then(p, <<>>)
Load(p, i, steps) ==
  proc' = [proc EXCEPT ![p].todo = steps \o Tail(@), ![p].row = i, ![p].snap = rows[i]]

\* from_alias: the objects with the name that the provider gives the thing.
from_alias(x, provider) ==
  {i \in DOMAIN rows : rows[i].of = x /\ provider \in rows[i].names}
One(set) == CHOOSE i \in set : TRUE
NotFound(set) == set = {}
NotDistinct(set) == \E i, j \in set : i # j

NewObject(p, names, class, version) ==
  [of |-> proc[p].of, names |-> names, class |-> class, history |-> <<>>, version |-> version,
   pred |-> {}, added |-> p, had |-> {class, {}}, stale |-> FALSE]
------------------------------------------------------------------------------
\* An object that a broker, or TNS, gave before.
Init ==
  /\ tns \in [Things -> [class : {Unknown}, version : {0}, lists : Listed]]
  /\ today = 0 /\ file = None /\ held = None
  /\ types = {Unknown}
  /\ rows \in {<<>>} \cup
       { << [of |-> x, names |-> names, class |-> Unknown, history |-> <<>>, version |-> 0,
             pred |-> {}, added |-> None, had |-> {Unknown, {}}, stale |-> FALSE] >> :
           x \in Things, names \in {{"antares", "ztf"}, {"antares", "ztf", "iau"}} }
  /\ tags = <<>> /\ observations = <<>> /\ alerts = {}
  /\ proc = [p \in Procs |-> Unstarted]

\* TNS reports the thing for the first time, or something new of it.
Report(x) ==
  /\ Going
  /\ tns[x].version < MaxVersion
  /\ \E class \in Classes :
       tns' = [tns EXCEPT ![x].class = class, ![x].version = @ + 1]
  /\ UNCHANGED <<today, file, held, store, proc>>

\* More time passes than the catalog may be old.
Tick ==
  /\ Going
  /\ today < MaxDay
  /\ today' = today + 1
  /\ UNCHANGED <<tns, file, held, store, proc>>

Steps == [query |-> <<"from_name">>,
          catalog |-> <<"from_name">>,
          ingest |-> <<"find_object", "add_observation", "add_alert">>,
          tag |-> <<"find_tag">>,
          forecast |-> <<"load_object", "update_prediction">>]

CatalogRuns == \E p \in Busy : proc[p].kind = "catalog"

\* A name comes to a TNS service, an alert to the stream, or a recommendation
\* or a forecast is to be published.  The catalog service has one thread only.
Start(p) ==
  /\ proc[p].kind = None
  /\ \E kind \in Kinds, x \in Things, by \in Given, i \in 0..Len(rows), t \in 0..MaxTime,
        backfill \in BOOLEAN :
       /\ kind = "catalog" => ~CatalogRuns
       /\ kind \notin {"query", "catalog"} => by = "iau"
       /\ IF kind \in {"tag", "forecast"} THEN i > 0 /\ rows[i].of = x ELSE i = 0
       /\ IF kind = "ingest" THEN t > 0 ELSE t = 0 /\ ~backfill
       /\ proc' = [q \in Procs |->
            IF q = p THEN
              [Unstarted EXCEPT !.kind = kind, !.of = x, !.by = by, !.row = i, !.time = t,
               !.previous = IF backfill THEN 1..(t - 1) ELSE {}, !.met = Busy,
               !.todo = Steps[kind] \o IF backfill THEN <<"backfill_database">> ELSE <<>>]
            ELSE IF q \in Busy THEN [proc[q] EXCEPT !.met = @ \cup {p}]
            ELSE proc[q]]
  /\ UNCHANGED <<world, store>>

\* The process is killed.
Stop(p) ==
  /\ "stopped" \in Faults
  /\ p \in Busy
  /\ End(p, "stopped")
  /\ UNCHANGED <<world, store>>

\* The catalog service is started again.
Restart ==
  /\ Going /\ held # None /\ ~CatalogRuns
  /\ held' = None
  /\ UNCHANGED <<tns, today, file, store, proc>>
------------------------------------------------------------------------------
(***************************************************************************)
(* TNSQueryManager and TNSCatalogManager (manager.py).  A TNSError is      *)
(* logged by the worker ("reported", or "unanswered" if TNS gave another   *)
(* status than 200); what is none ends its thread: "unreachable" if it     *)
(* comes of the request (no connection, a body that is not read),          *)
(* "raised" otherwise.                                                     *)
(***************************************************************************)
AddNew == <<"get_record", "object_type", "add_object">>
\* How update_object goes on with an object that has these names.
Query(names) ==
  IF "iau" \in names THEN <<"search_object", "object_type", "update">>
  ELSE IF "ztf" \in names THEN <<"search_name", "search_object", "object_type", "update">>
  ELSE <<>>
Catalog(names) ==
  IF names \cap {"iau", "ztf"} # {} THEN <<"get_record", "object_type", "update">> ELSE <<>>

FromName(p) ==
  /\ At(p, "from_name")
  /\ LET found == from_alias(proc[p].of, proc[p].by) IN
     \/ NotDistinct(found) /\ End(p, "raised")
     \/ /\ NotFound(found)
        /\ IF proc[p].kind = "query" THEN End(p, "reported") ELSE Then(p, AddNew)
     \/ /\ ~NotFound(found) /\ ~NotDistinct(found)
        /\ LET i == One(found)
               steps == IF proc[p].kind = "query" THEN Query(rows[i].names)
                        ELSE Catalog(rows[i].names)
           IN IF steps = <<>> THEN End(p, "reported") ELSE Load(p, i, steps)
  /\ UNCHANGED <<world, store>>

Expired(day) == today > day
\* The catalog is downloaded: none is held and the file is none or too old, or
\* the one that is held is.
Fetches == IF held = None THEN file # None => Expired(file.day) ELSE Expired(held.updated)

\* A request to TNS fails, and leaves the catalog that is held as it was.
TNSFails(p) ==
  /\ "tns_fails" \in Faults
  /\ At(p, "search_name") \/ At(p, "search_object") \/ (At(p, "get_record") /\ Fetches)
  /\ End(p, "unanswered") \/ End(p, "unreachable")
  /\ UNCHANGED <<world, store>>

\* search_name with the name that was given, which is found if it is the one
\* that TNS lists.
SearchName(p) ==
  /\ At(p, "search_name")
  /\ LET x == proc[p].of IN
     IF proc[p].by = "ztf" /\ tns[x].version > 0 /\ tns[x].lists # "nowhere"
     THEN Proceed(p) ELSE End(p, "reported")
  /\ UNCHANGED <<world, store>>

\* search_object: a reply, or "No results found."
SearchObject(p) ==
  /\ At(p, "search_object")
  /\ LET x == proc[p].of IN
     IF tns[x].version = 0 THEN End(p, "reported")
     ELSE proc' = [proc EXCEPT ![p].todo = Tail(@), ![p].answer = tns[x]]
  /\ UNCHANGED <<world, store>>

Download == [day |-> today, tns |-> tns]

\* TNSCatalogManager.catalog: from_web the first time, then refresh, which
\* leaves last_updated ("updated") as it was.  "day" is the day of the data.
Refresh_M ==
  IF held = None THEN
    LET data == IF file # None THEN file ELSE Download IN
    /\ held' = [updated |-> data.day, day |-> data.day, tns |-> data.tns]
    /\ file' = data
  ELSE UNCHANGED <<held, file>>

Refresh ==
  IF held = None THEN
    LET data == IF Fetches THEN Download ELSE file IN
    /\ held' = [updated |-> data.day, day |-> data.day, tns |-> data.tns]
    /\ file' = data
  ELSE IF Fetches THEN
    /\ held' = [updated |-> held.updated, day |-> today, tns |-> tns]
    /\ file' = Download
  ELSE UNCHANGED <<held, file>>

\* TNSCatalog.get: an IAU name, or a name among those that TNS lists.
Lists(record, name) ==
  record.version > 0 /\ name \in {"iau"} \cup (IF record.lists = "nowhere" THEN {} ELSE {"ztf"})

GetRecord(p) ==
  /\ At(p, "get_record")
  /\ Refresh
  /\ LET record == held'.tns[proc[p].of]
         name == IF proc[p].row = 0 THEN proc[p].by
                 ELSE IF "iau" \in proc[p].snap.names THEN "iau" ELSE "ztf"
     IN IF Lists(record, name)
        THEN proc' = [proc EXCEPT ![p].todo = Tail(@), ![p].answer = record]
        ELSE End(p, "reported")
  /\ UNCHANGED <<tns, today, store>>

FindType_M(p) ==
  /\ At(p, "object_type")
  /\ Then(p, <<"add_type">>)
  /\ UNCHANGED <<world, store>>

\* ObjectType.get_or_create: looked for,
FindType(p) ==
  /\ At(p, "object_type")
  /\ IF proc[p].answer.class \in types THEN Proceed(p) ELSE Then(p, <<"add_type">>)
  /\ UNCHANGED <<world, store>>

\* and added, which fails if another did so meanwhile; the commit makes the
\* session load the object again.
AddType(p) ==
  /\ At(p, "add_type")
  /\ \/ /\ proc[p].answer.class \in types
        /\ End(p, "raised")
        /\ UNCHANGED types
     \/ /\ proc[p].answer.class \notin types
        /\ types' = types \cup {proc[p].answer.class}
        /\ Then(p, IF proc[p].row = 0 THEN <<>> ELSE <<"reload">>)
  /\ UNCHANGED <<world, rows, tags, observations, alerts>>

Reload(p) ==
  /\ At(p, "reload")
  /\ Load(p, proc[p].row, <<>>)
  /\ UNCHANGED <<world, store>>

\* The names that were loaded are forgotten.
build_info_M(snap, answer, compares) ==
  [snap EXCEPT !.names = {"iau"}, !.version = answer.version]

\* __build_info: what the attributes are to be.
build_info(snap, answer, compares) ==
  IF answer.class # snap.class
  THEN [snap EXCEPT !.class = answer.class, !.names = @ \cup {"iau"}, !.version = answer.version,
                    !.history = Append(@, snap.class)]
  ELSE IF "iau" \notin snap.names \/ (compares /\ answer.version # snap.version)
  THEN [snap EXCEPT !.names = @ \cup {"iau"}, !.version = answer.version]
  ELSE snap

\* What the session writes: a column that is as it was loaded is left alone.
Merged(row, snap, new) ==
  [ [c \in DOMAIN row |-> IF new[c] = snap[c] THEN row[c] ELSE new[c]] EXCEPT
      !.had = row.had \cup {new[c] : c \in {d \in {"class", "pred"} : new[d] # snap[d]}},
      !.stale = row.stale \/ (new # snap /\ snap # row) ]

\* Object.update.
Update(p) ==
  /\ At(p, "update")
  /\ LET new == build_info(proc[p].snap, proc[p].answer, proc[p].kind = "query") IN
     rows' = [rows EXCEPT ![proc[p].row] = Merged(@, proc[p].snap, new)]
  /\ Proceed(p)
  /\ UNCHANGED <<world, types, tags, observations, alerts>>

\* __get_names: the names TNS lists are split at the comma, which leaves a
\* blank before all but the first.
get_names(record) == {"iau"} \cup IF record.lists = "first" THEN {"ztf"} ELSE {}

\* Object.add by the catalog service, or by the stream.
AddObject(p) ==
  /\ At(p, "add_object")
  /\ LET new == IF proc[p].kind = "ingest" THEN NewObject(p, {"antares", "ztf"}, Unknown, 0)
                ELSE NewObject(p, get_names(proc[p].answer), proc[p].answer.class,
                               proc[p].answer.version)
     IN rows' = Append(rows, new)
  /\ IF proc[p].kind = "ingest"
     THEN proc' = [proc EXCEPT ![p].todo = Tail(@), ![p].row = Len(rows) + 1]
     ELSE Proceed(p)
  /\ UNCHANGED <<world, types, tags, observations, alerts>>
------------------------------------------------------------------------------
(***************************************************************************)
(* BrokerService.persist_to_database, AlertInterface.to_database and       *)
(* backfill_database (data/broker).  The types, the source and an epoch    *)
(* are in the core data.                                                   *)
(***************************************************************************)
FindObject(p) ==
  /\ At(p, "find_object")
  /\ LET antares == from_alias(proc[p].of, "antares")
         found == IF antares = {} THEN from_alias(proc[p].of, "ztf") ELSE antares
     IN \/ NotDistinct(found) /\ End(p, "raised")
        \/ NotFound(found) /\ Then(p, <<"add_object">>)
        \/ /\ ~NotFound(found) /\ ~NotDistinct(found)
           /\ proc' = [proc EXCEPT ![p].todo = Tail(@), ![p].row = One(found)]
  /\ UNCHANGED <<world, store>>

AddObservation(p) ==
  /\ At(p, "add_observation")
  /\ observations' = Append(observations,
       [object |-> proc[p].row, time |-> proc[p].time, by |-> p,
        new |-> \A i \in DOMAIN observations : observations[i].by # p])
  /\ Proceed(p)
  /\ UNCHANGED <<world, types, rows, tags, alerts>>

AddAlert(p) ==
  /\ At(p, "add_alert")
  /\ alerts' = alerts \cup {CHOOSE i \in DOMAIN observations :
       /\ observations[i].by = p
       /\ \A j \in DOMAIN observations : observations[j].by = p => j <= i}
  /\ Proceed(p)
  /\ UNCHANGED <<world, types, rows, tags, observations>>

\* The times of the object's observations are read once; the alerts that have
\* none are then written one by one, the latest first.
Missing_M(p) == proc[p].previous

Missing(p) ==
  proc[p].previous \ {observations[i].time :
                        i \in {j \in DOMAIN observations : observations[j].object = proc[p].row}}

Backfill(p, missing) ==
  IF missing = {} THEN Proceed(p)
  ELSE LET t == CHOOSE t \in missing : \A u \in missing : u <= t IN
       proc' = [proc EXCEPT ![p].time = t, ![p].answer = missing \ {t},
         ![p].todo = <<"find_object", "add_observation", "add_alert", "next_alert">>]

BackfillDatabase(p) ==
  /\ At(p, "backfill_database") \/ At(p, "next_alert")
  /\ Backfill(p, IF At(p, "next_alert") THEN proc[p].answer ELSE Missing(p))
  /\ UNCHANGED <<world, store>>
------------------------------------------------------------------------------
(***************************************************************************)
(* RecommendationTag.get_or_create, new and Object.add_alias (model.py).   *)
(* A tag is named from its id, so that no two have the same name.          *)
(***************************************************************************)
TagsOf(i) == {t \in DOMAIN tags : tags[t].object = i}

FindTag(p) ==
  /\ At(p, "find_tag")
  /\ IF TagsOf(proc[p].row) # {} THEN Proceed(p)
     ELSE Then(p, <<"add_tag", "name_tag", "load_object", "add_alias">>)
  /\ UNCHANGED <<world, store>>

AddTag(p) ==
  /\ At(p, "add_tag")
  /\ \/ /\ TagsOf(proc[p].row) # {}
        /\ End(p, "raised")
        /\ UNCHANGED tags
     \/ /\ TagsOf(proc[p].row) = {}
        /\ tags' = Append(tags, [object |-> proc[p].row, by |-> p, named |-> FALSE])
        /\ Proceed(p)
  /\ UNCHANGED <<world, types, rows, observations, alerts>>

NameTag(p) ==
  /\ At(p, "name_tag")
  /\ tags' = [t \in DOMAIN tags |-> [tags[t] EXCEPT !.named = @ \/ t \in TagsOf(proc[p].row)]]
  /\ Proceed(p)
  /\ UNCHANGED <<world, types, rows, observations, alerts>>

LoadObject(p) ==
  /\ At(p, "load_object")
  /\ Load(p, proc[p].row, <<>>)
  /\ UNCHANGED <<world, store>>

\* update_object of apps/refitt/forecast/publish.py: the types that p's models
\* predict replace those of models of the same names and are merged with the
\* others, if any; what was predicted before goes to the history.
predict(snap, pred) ==
  IF pred = snap.pred THEN snap ELSE [snap EXCEPT !.pred = pred, !.history = Append(@, snap.pred)]

UpdatePrediction(p) ==
  /\ At(p, "update_prediction")
  /\ \E pred \in {proc[p].snap.pred} \cup {others \cup {p} : others \in SUBSET proc[p].snap.pred} :
       rows' = [rows EXCEPT ![proc[p].row] = Merged(@, proc[p].snap, predict(proc[p].snap, pred))]
  /\ Proceed(p)
  /\ UNCHANGED <<world, types, tags, observations, alerts>>

\* The alias is written only where the object had none.
AddAlias_M(p) ==
  /\ At(p, "add_alias")
  /\ LET new == IF "iau" \in proc[p].snap.names THEN proc[p].snap
                ELSE [proc[p].snap EXCEPT !.names = @ \cup {"tag"}] IN
     rows' = [rows EXCEPT ![proc[p].row] = Merged(@, proc[p].snap, new)]
  /\ Proceed(p)
  /\ UNCHANGED <<world, types, tags, observations, alerts>>

AddAlias(p) ==
  /\ At(p, "add_alias")
  /\ LET new == [proc[p].snap EXCEPT !.names = @ \cup {"tag"}] IN
     rows' = [rows EXCEPT ![proc[p].row] = Merged(@, proc[p].snap, new)]
  /\ Proceed(p)
  /\ UNCHANGED <<world, types, tags, observations, alerts>>
------------------------------------------------------------------------------
Finished == Started = Procs /\ Busy = {} /\ UNCHANGED vars

Next ==
  \/ Tick \/ Restart \/ Finished
  \/ \E x \in Things : Report(x)
  \/ \E p \in Procs :
       \/ Start(p) \/ Stop(p)
       \/ FromName(p) \/ TNSFails(p) \/ SearchName(p) \/ SearchObject(p) \/ GetRecord(p)
       \/ FindType(p) \/ AddType(p) \/ Reload(p) \/ Update(p) \/ AddObject(p)
       \/ FindObject(p) \/ AddObservation(p) \/ AddAlert(p) \/ BackfillDatabase(p)
       \/ FindTag(p) \/ AddTag(p) \/ NameTag(p) \/ LoadObject(p) \/ AddAlias(p)
       \/ UpdatePrediction(p)

Spec == Init /\ [][Next]_vars
------------------------------------------------------------------------------
(***************************************************************************)
(* Properties.                                                             *)
(***************************************************************************)
Providers == Given \cup {"tag"}
TNSRecords == [class : Classes \cup {Unknown}, version : 0..MaxVersion, lists : Listed]

\* The tables and the processes have their types.
TypeOK ==
  /\ tns \in [Things -> TNSRecords] /\ today \in 0..MaxDay
  /\ file # None => file \in [day : 0..today, tns : [Things -> TNSRecords]]
  /\ held # None => held \in [updated : 0..today, day : 0..today, tns : [Things -> TNSRecords]]
  /\ types \subseteq Classes \cup {Unknown}
  /\ \A i \in DOMAIN rows :
       /\ rows[i].of \in Things /\ rows[i].names \subseteq Providers
       /\ rows[i].class \in types /\ rows[i].version \in 0..MaxVersion
       /\ rows[i].history \in Seq(types \cup SUBSET Procs)
       /\ rows[i].had \subseteq types \cup SUBSET Procs /\ rows[i].pred \subseteq Procs
       /\ rows[i].added \in Procs \cup {None} /\ rows[i].stale \in BOOLEAN
  /\ \A t \in DOMAIN tags : /\ tags[t].object \in DOMAIN rows /\ tags[t].named \in BOOLEAN
                            /\ tags[t].by \in Procs
  /\ \A i \in DOMAIN observations :
       observations[i].object \in DOMAIN rows /\ observations[i].time \in 1..MaxTime
  /\ alerts \subseteq DOMAIN observations
  /\ \A p \in Started : proc[p].row \in 0..Len(rows)
       /\ proc[p].end \in Ends \cup {None}
       /\ p \in Busy <=> proc[p].todo # <<>>

Loses(i, name) == name \in rows[i].names /\ name \notin rows'[i].names

\* An object loses a name only to a program that had loaded it before it had
\* the name (Object.update and add_alias write the whole of aliases back).
NamesKept ==
  [][ \A i \in DOMAIN rows, name \in Providers : Loses(i, name) =>
        \E p \in Procs : /\ At(p, "update") \/ At(p, "add_alias")
                        /\ proc[p].row = i /\ name \notin proc[p].snap.names ]_vars

\* "The `history` section is appended": every class, and every prediction,
\* that the object ever had is in its history, unless a program wrote what it
\* had loaded over what another had written meanwhile.
HistoryComplete ==
  \A i \in DOMAIN rows : rows[i].stale \/
    rows[i].had = {rows[i].class, rows[i].pred} \cup {rows[i].history[n] : n \in DOMAIN rows[i].history}

\* A tag has its name, and its object the alias, once the publication that
\* added the tag is over, unless that one was stopped between its three commits
\* (get_or_create then gives the tag as it is to all others) or, for the alias,
\* the object was written over.
TagComplete ==
  \A t \in DOMAIN tags :
    LET row == rows[tags[t].object] IN
    \/ tags[t].named /\ ("tag" \in row.names \/ row.stale)
    \/ proc[tags[t].by].end \in {None, "stopped"}

\* One observation of an object for each of its alerts, unless the broker gave
\* the alert twice as the new one (the stream adds that without looking), or
\* two programs worked on the object at once.
ObservedOnce ==
  \A i, j \in DOMAIN observations :
    LET a == observations[i]
        b == observations[j]
    IN i < j /\ a.object = b.object /\ a.time = b.time => b.new \/ a.by \in proc[b.by].met

\* persist_to_database returns: the alert is there, and what it has written
\* with it, and of each alert before it an observation.
IngestComplete ==
  \A p \in Started : proc[p].kind = "ingest" /\ proc[p].end = "done" =>
    /\ \A i \in DOMAIN observations : observations[i].by = p => i \in alerts
    /\ \E i \in DOMAIN observations : observations[i].by = p /\ observations[i].new
    /\ \A t \in proc[p].previous : \E i \in DOMAIN observations :
         observations[i].time = t /\ rows[observations[i].object].of = proc[p].of

\* An observation is without its alert only while its delivery is between the
\* two commits, or if it was stopped there.  (It stays so: a later delivery's
\* backfill compares times, and takes the alert for written.)
AlertedOrStopped ==
  \A i \in DOMAIN observations \ alerts :
    LET p == observations[i].by IN At(p, "add_alert") \/ proc[p].end = "stopped"

\* An object is added again under a survey's name that another has only when
\* the two were added at once (both look for the name, and then add it), or by
\* the catalog service, if it was given another name of the object.
OneObjectPerName ==
  \A i, j \in DOMAIN rows, name \in {"antares", "ztf"} :
    /\ i < j /\ rows[i].of = rows[j].of /\ name \in rows[i].names \cap rows[j].names
    => LET p == rows[j].added IN
       rows[i].added \in proc[p].met \/ (proc[p].kind = "catalog" /\ proc[p].by # name)

\* "Updates catalog if necessary": the catalog in which an update finds its
\* record, or finds none, is no older than it may be; when it could not be
\* downloaded again the update has no answer, rather than an old one.
CatalogFresh ==
  [][ \A p \in Procs : At(p, "get_record") /\ ~At(p, "get_record")'
        /\ proc'[p].end \notin {"stopped", "unanswered", "unreachable"} => held'.day = today ]_vars

\* Other than by a request to TNS, a program is ended by an exception only if an
\* object had been added twice, or another worked at the same time (a type or a
\* tag was added twice).
RaisedForCause ==
  \A p \in Started : proc[p].end = "raised" =>
    \/ proc[p].met # {}
    \/ \E i, j \in DOMAIN rows : i # j /\ rows[i].of = rows[j].of

\* An object's row, its history and its tags are whole, but for what a program
\* that was stopped or wrote over another's work has left (model.py
\* Object.update, RecommendationTag.new).
RecordInv == TypeOK /\ HistoryComplete /\ TagComplete

\* Each alert is in the database once, of one object, with what goes with it,
\* but for what a delivery that was stopped or overlapped another has left
\* (data/broker persist_to_database, to_database, backfill_database).
IngestInv == ObservedOnce /\ IngestComplete /\ AlertedOrStopped /\ OneObjectPerName
==============================================================================
