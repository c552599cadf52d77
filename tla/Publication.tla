------------------------------ MODULE Publication ------------------------------
(***************************************************************************)
(* The night's work: an epoch is opened (apps/refitt/epoch.py), forecasts  *)
(* are published with the observation they predict (forecast/publish.py,   *)
(* forecast/model.py), recommendations are published from a file or one by *)
(* one (recommendation/publish.py), the observer asks for the next ones    *)
(* and accepts or rejects them (model.py, endpoint/recommendation.py), and *)
(* observations are published for them (observation/publish.py).           *)
(*                                                                         *)
(* A process is one command or one request; a step is one query, or one    *)
(* commit, and steps of processes interleave.  Everything is the observer's*)
(* own.  RecommendationTag.get_or_create is one step here (ObjectRecords   *)
(* has its own), and what a forecast writes to its object is left to       *)
(* ObjectRecords.  begun and before are history.                           *)
(* Names ending in _M are mistakes the code does not make.                 *)
(***************************************************************************)
EXTENDS Naturals, Sequences, FiniteSets

CONSTANTS
  Procs, None,
  Kinds,        \* subset of AllKinds
  Objects,      \* the ids of the objects
  Facilities,
  Models,       \* the model types
  Loads,        \* how the loading of a model file may go: its outcome, and
                \* whether the data conform to the schema (ModelFiles)
  MaxEpoch,     \* bound: epochs
  MaxRows       \* bound: the rows of a file of recommendations

AllKinds == {"forecast", "file", "values", "observe", "next", "history", "decide"}
ASSUME KindsAssumption == Kinds \subseteq AllKinds
ASSUME BoundsAssumption ==
  /\ Objects \subseteq Nat \ {0} /\ \E o \in Objects : o # 1
  /\ MaxEpoch \in Nat \ {0} /\ MaxRows \in Nat
ASSUME NoneAssumption == None \notin AllKinds \cup Procs \cup {"done", "raised", "stopped"}

VARIABLES
  epochs,          \* table Epoch: its last id
  observations,    \* table Observation
  models,          \* table Model
  tagged,          \* the objects that have a RecommendationTag
  recommendations, \* table Recommendation
  files,           \* table File: the observations that have one
  proc             \* the processes

tables == <<epochs, observations, models, tagged, recommendations, files>>
vars == <<tables, proc>>

Unstarted == [kind |-> None, todo |-> <<>>, on |-> None, epoch |-> 0, row |-> 0, left |-> {},
              new |-> <<>>, seen |-> None, end |-> None, begun |-> 0, before |-> {}]

Started == {p \in Procs : proc[p].kind # None}
Busy == {p \in Started : proc[p].end = None}
At(p, step) == p \in Busy /\ Head(proc[p].todo) = step
Set(p, field, value) == proc' = [proc EXCEPT ![p].todo = Tail(@), ![p][field] = value]
End(p, how) ==
  LET Last(value, none) == IF how = "done" THEN value ELSE none IN
  proc' = [proc EXCEPT ![p].todo = <<>>, ![p].new = <<>>, ![p].seen = None, ![p].end = how,
             ![p].epoch = Last(@, 0), ![p].row = Last(@, 0), ![p].left = {}]
Proceed(p) == IF Len(proc[p].todo) = 1 THEN End(p, "done")
              ELSE proc' = [proc EXCEPT ![p].todo = Tail(@)]

Rows(table) == DOMAIN table
Add(table, row) == Append(table, row)
Open(r) == ~recommendations[r].accepted /\ ~recommendations[r].rejected

------------------------------------------------------------------------------
Observation(object, epoch, by) == [object |-> object, epoch |-> epoch, by |-> by]
Recommendation(epoch, object, facility, prediction, by) ==
  [epoch |-> epoch, object |-> object, facility |-> facility, prediction |-> prediction,
   observation |-> 0, accepted |-> FALSE, rejected |-> FALSE, by |-> by]
------------------------------------------------------------------------------
\* There is an epoch, a forecast's observation (of an object that has not its
\* id), and perhaps a recommendation.
Init ==
  /\ epochs = 1
  /\ observations = <<Observation(CHOOSE o \in Objects : o # 1, 1, None)>>
  /\ models = {}
  /\ \/ tagged = {} /\ recommendations = <<>>
     \/ \E f \in Facilities :
          /\ tagged = {observations[1].object}
          /\ recommendations = <<Recommendation(1, observations[1].object, f, 1, None)>>
  /\ files = {}
  /\ proc = [p \in Procs |-> Unstarted]

\* refitt epoch new.
NewEpoch ==
  /\ epochs < MaxEpoch
  /\ epochs' = epochs + 1
  /\ UNCHANGED <<observations, models, tagged, recommendations, files, proc>>

Begin(p, kind, on, steps) ==
  /\ kind \in Kinds
  /\ proc' = [proc EXCEPT ![p] = [Unstarted EXCEPT
       !.kind = kind, !.on = on, !.todo = steps, !.begun = IF kind = "next" THEN epochs ELSE 0,
       !.before = {q \in Started : proc[q].end # None}]]

\* With or without a recommendation, whose object need not be the observation's
\* (the command does not compare them), and a file.
Observing(r) ==
  IF r = 0
  THEN {<<"epoch", "publish_observation">>,
        <<"epoch", "inspect_file", "publish_observation", "add_file">>}
  ELSE {<<"epoch", "get_recommendation", "publish_observation", "link">>,
        <<"epoch", "get_recommendation", "inspect_file", "publish_observation", "link", "add_file">>}

Start(p) ==
  /\ proc[p].kind = None
  /\ \/ \E o \in Objects, some \in SUBSET Models \ {{}}, given \in 0..Len(observations),
           fits \in BOOLEAN :
          /\ given > 0 /\ fits => observations[given].object = o
          /\ given = 0 /\ Cardinality(some) = 1 => fits
          /\ Begin(p, "forecast", [object |-> o, models |-> some, given |-> given, fits |-> fits],
               IF given = 0 THEN <<"epoch", "prediction", "sources", "models">>
               ELSE <<"sources", "epoch", "models">>)
     \/ \E n \in 1..MaxRows, f \in Facilities : \E rows \in [1..n -> Rows(observations)] :
          Begin(p, "file", [predictions |-> rows, facility |-> f],
                <<"load_file", "epoch", "rows", "add_recommendations">>)
     \/ \E given \in [object : Objects, prediction : {0} \cup Rows(observations)]
              \cup [object : {0}, prediction : Rows(observations)],
           f \in Facilities \cup {None} :
          Begin(p, "values", [given |-> given, facility |-> f],
                <<"epoch", "object_id", "facility_id", "rows", "add_recommendations">>)
     \/ \E r \in {0} \cup Rows(recommendations), o \in Objects, force \in BOOLEAN :
          /\ r = 0 => ~force
          /\ \E steps \in Observing(r) :
               Begin(p, "observe", [recommendation |-> r, object |-> o, force |-> force], steps)
     \/ \E facility \in Facilities \cup {None}, limit \in {0, 1} :
          Begin(p, "next", [facility |-> facility, limit |-> limit], <<"epoch", "select">>)
     \/ \E e \in 1..epochs : Begin(p, "history", [epoch |-> e], <<"select_history">>)
     \/ \E r \in Rows(recommendations), column \in {"accepted", "rejected"}, value \in BOOLEAN :
          Begin(p, "decide", [recommendation |-> r, column |-> column, value |-> value],
                <<"load", "update">>)
  /\ UNCHANGED tables

Latest_M(p) ==
  /\ At(p, "epoch")
  /\ Set(p, "epoch", 1)
  /\ UNCHANGED tables

\* Epoch.latest, unless a command is given an epoch.
Latest(p) ==
  /\ At(p, "epoch")
  /\ \E e \in {epochs} \cup (IF proc[p].kind = "next" THEN {} ELSE {1}) : Set(p, "epoch", e)
  /\ UNCHANGED tables
------------------------------------------------------------------------------
(***************************************************************************)
(* ForecastPublishApp.run and ModelData.publish.                           *)
(***************************************************************************)
\* A file that the schema refuses ends the command.
Refuse(p, load) ==
  proc' = [proc EXCEPT ![p].todo = <<>>, ![p].seen = load, ![p].end = "raised"]

\* load_by_primary: the observation is published as soon as one file is loaded,
PublishPrediction(p) ==
  /\ At(p, "prediction")
  /\ \E load \in Loads :
       IF load.outcome # "ok" THEN Refuse(p, load) /\ UNCHANGED observations
       ELSE /\ observations' = Add(observations, Observation(proc[p].on.object, proc[p].epoch, p))
            /\ proc' = [proc EXCEPT ![p].todo = Tail(@), ![p].row = Len(observations'),
                                    ![p].seen = load]
  /\ UNCHANGED <<epochs, models, tagged, recommendations, files>>

\* then the other files are loaded, which must be of the same object; with
\* --observation-id, of the object of that observation.
Loaded(p, conform) ==
  LET given == proc[p].on.given IN
  proc' = [proc EXCEPT ![p].todo = Tail(@), ![p].left = proc[p].on.models,
             ![p].row = IF given = 0 THEN @ ELSE given,
             ![p].seen = [outcome |-> "ok", conforms |-> conform]]
Alone(p) == proc[p].on.given = 0 /\ Cardinality(proc[p].on.models) = 1

LoadSources(p) ==
  /\ At(p, "sources")
  /\ IF Alone(p) THEN Loaded(p, proc[p].seen.conforms)
     ELSE \E load \in Loads :
       IF load.outcome # "ok" THEN Refuse(p, load)
       ELSE IF ~proc[p].on.fits THEN End(p, "raised")
       ELSE Loaded(p, load.conforms /\ (proc[p].on.given = 0 => proc[p].seen.conforms))
  /\ UNCHANGED tables

\* One commit for each model.
PublishModel(p) ==
  /\ At(p, "models")
  /\ \E m \in proc[p].left :
       /\ models' = models \cup {[type |-> m, observation |-> proc[p].row,
                                  object |-> proc[p].on.object, epoch |-> proc[p].epoch, by |-> p,
                                  conforms |-> proc[p].seen.conforms]}
       /\ IF proc[p].left = {m} THEN Proceed(p) ELSE proc' = [proc EXCEPT ![p].left = @ \ {m}]
  /\ UNCHANGED <<epochs, observations, tagged, recommendations, files>>
------------------------------------------------------------------------------
(***************************************************************************)
(* RecommendationPublishApp.                                               *)
(***************************************************************************)
\* check_schema: what may be wrong with the columns of a file.
FILE_SCHEMA == {"object_id", "user_id", "facility_id", "priority", "prediction_id"}
Wrong == {"missing", "type"} \X FILE_SCHEMA

\* load_from_local and load_from_stdin: the file has a format that is known and
\* can be read in it, or the command ends before it has written anything.
LoadFile(p) ==
  /\ At(p, "load_file")
  /\ \E wrong \in {None, "path", "format"} \cup Wrong :
       IF wrong = None THEN Proceed(p) ELSE End(p, "raised")
  /\ UNCHANGED tables

\* object_id: with --prediction alone, the id of the observation.
ObjectId(p) ==
  /\ At(p, "object_id")
  /\ LET given == proc[p].on.given IN
     Set(p, "row", IF given.object # 0 THEN given.object ELSE given.prediction)
  /\ UNCHANGED tables

\* facility_id: the facility that is given, or the only one that the observer
\* has (Accounts has the table).
FacilityId(p) ==
  /\ At(p, "facility_id")
  /\ LET given == proc[p].on.facility IN
     \/ \E f \in Facilities : given \in {None, f} /\ Set(p, "seen", f)
     \/ given = None /\ End(p, "raised")
  /\ UNCHANGED tables

\* The recommendations a command is to add, in the order of the file.
Wanted(p) ==
  IF proc[p].kind = "values"
  THEN <<Recommendation(proc[p].epoch, proc[p].row, proc[p].seen, proc[p].on.given.prediction, p)>>
  ELSE [n \in DOMAIN proc[p].on.predictions |-> LET i == proc[p].on.predictions[n] IN
          Recommendation(proc[p].epoch, observations[i].object, proc[p].on.facility, i, p)]

\* build_recommendation: each row gets the tag of its object, which is
\* committed at once; there is none for an object that is not there.
BuildRecommendation(p) ==
  /\ At(p, "rows")
  /\ LET new == Wanted(p)[Len(proc[p].new) + 1] IN
     IF new.object \notin Objects THEN End(p, "raised") /\ UNCHANGED tagged
     ELSE /\ tagged' = tagged \cup {new.object}
          /\ proc' = [proc EXCEPT ![p].new = Append(@, new),
               ![p].todo = IF Len(proc[p].new) + 1 = Len(Wanted(p)) THEN Tail(@) ELSE @]
  /\ UNCHANGED <<epochs, observations, models, recommendations, files>>

\* Every row is committed by itself.
AddRecommendations_M(p) ==
  /\ At(p, "add_recommendations")
  /\ recommendations' = Append(recommendations, Head(proc[p].new))
  /\ IF Len(proc[p].new) = 1 THEN Proceed(p)
     ELSE proc' = [proc EXCEPT ![p].new = Tail(@)]
  /\ UNCHANGED <<epochs, observations, models, tagged, files>>

\* Recommendation.add_all: one commit.
AddRecommendations(p) ==
  /\ At(p, "add_recommendations")
  /\ recommendations' = recommendations \o proc[p].new
  /\ Proceed(p)
  /\ UNCHANGED <<epochs, observations, models, tagged, files>>
------------------------------------------------------------------------------
(***************************************************************************)
(* ObservationPublishApp.run.                                              *)
(***************************************************************************)
GetRecommendation_M(p) ==
  /\ At(p, "get_recommendation")
  /\ Proceed(p)
  /\ UNCHANGED tables

\* A recommendation that has an observation is left alone, but with --force, and
\* always one that is not for the source's user and facility.
GetRecommendation(p) ==
  /\ At(p, "get_recommendation")
  /\ \/ End(p, "raised")
     \/ /\ recommendations[proc[p].on.recommendation].observation = 0 \/ proc[p].on.force
        /\ Proceed(p)
  /\ UNCHANGED tables

\* load_file: a file of an unknown type, too large or with no date is refused
\* before the observation is published.
InspectFile(p) ==
  /\ At(p, "inspect_file")
  /\ \E fits \in BOOLEAN : IF fits THEN Proceed(p) ELSE End(p, "raised")
  /\ UNCHANGED tables

PublishObservation(p) ==
  /\ At(p, "publish_observation")
  /\ observations' = Add(observations, Observation(proc[p].on.object, proc[p].epoch, p))
  /\ IF Len(proc[p].todo) = 1 THEN Proceed(p) ELSE Set(p, "row", Len(observations'))
  /\ UNCHANGED <<epochs, models, tagged, recommendations, files>>

LinkObservation(p) ==
  /\ At(p, "link")
  /\ recommendations' =
       [recommendations EXCEPT ![proc[p].on.recommendation].observation = proc[p].row]
  /\ Proceed(p)
  /\ UNCHANGED <<epochs, observations, models, tagged, files>>

AddFile(p) ==
  /\ At(p, "add_file")
  /\ files' = files \cup {proc[p].row}
  /\ Proceed(p)
  /\ UNCHANGED <<epochs, observations, models, tagged, recommendations>>
------------------------------------------------------------------------------
(***************************************************************************)
(* The observer: Recommendation.next and history, and PUT accepted or      *)
(* rejected.                                                               *)
(***************************************************************************)
\* _base_query.
Selected_M(epoch, facility) ==
  {r \in Rows(recommendations) :
     /\ recommendations[r].epoch = epoch /\ ~recommendations[r].accepted
     /\ facility \in {None, recommendations[r].facility}}

Selected(epoch, facility) ==
  {r \in Rows(recommendations) :
     /\ recommendations[r].epoch = epoch /\ Open(r)
     /\ facility \in {None, recommendations[r].facility}}

\* In order of priority, up to the limit.
Select(p) ==
  /\ At(p, "select")
  /\ LET selected == Selected(proc[p].epoch, proc[p].on.facility)
         limit == proc[p].on.limit
     IN \E shown \in SUBSET selected :
          /\ IF limit = 0 \/ Cardinality(selected) <= limit THEN shown = selected
             ELSE Cardinality(shown) = limit
          /\ proc' = [proc EXCEPT ![p].todo = <<>>, ![p].left = shown, ![p].end = "done"]
  /\ UNCHANGED tables

SelectHistory(p) ==
  /\ At(p, "select_history")
  /\ proc' = [proc EXCEPT ![p].todo = <<>>, ![p].end = "done",
       ![p].left = {r \in Rows(recommendations) :
                      recommendations[r].epoch = proc[p].on.epoch /\ ~Open(r)}]
  /\ UNCHANGED tables

\* PUT: the row is loaded, and the column is written if it differs.
LoadRecommendation(p) ==
  /\ At(p, "load")
  /\ Set(p, "seen", recommendations[proc[p].on.recommendation][proc[p].on.column])
  /\ UNCHANGED tables

UpdateRecommendation(p) ==
  /\ At(p, "update")
  /\ LET put == proc[p].on IN
     recommendations' = IF proc[p].seen = put.value THEN recommendations
       ELSE [recommendations EXCEPT ![put.recommendation][put.column] = put.value]
  /\ Proceed(p)
  /\ UNCHANGED <<epochs, observations, models, tagged, files>>
------------------------------------------------------------------------------
\* A command is interrupted.
Stop(p) ==
  /\ p \in Busy
  /\ proc[p].kind \in {"forecast", "file", "values", "observe"}
  /\ End(p, "stopped")
  /\ UNCHANGED tables

Finished == Started = Procs /\ Busy = {} /\ epochs = MaxEpoch /\ UNCHANGED vars

Next ==
  \/ NewEpoch \/ Finished
  \/ \E p \in Procs :
       \/ Start(p) \/ Latest(p) \/ Stop(p)
       \/ PublishPrediction(p) \/ LoadSources(p) \/ PublishModel(p)
       \/ LoadFile(p) \/ ObjectId(p) \/ FacilityId(p) \/ BuildRecommendation(p) \/ AddRecommendations(p)
       \/ GetRecommendation(p) \/ InspectFile(p) \/ PublishObservation(p) \/ LinkObservation(p) \/ AddFile(p)
       \/ Select(p) \/ SelectHistory(p) \/ LoadRecommendation(p) \/ UpdateRecommendation(p)

Spec == Init /\ [][Next]_vars
------------------------------------------------------------------------------
(***************************************************************************)
(* Properties.                                                             *)
(***************************************************************************)
Done(p, kind) == proc[p].kind = kind /\ proc[p].end = "done"
Of(p) == {r \in Rows(recommendations) : recommendations[r].by = p}

\* The tables refer to what is there, and the processes have their types.
TypeOK ==
  /\ epochs \in 1..MaxEpoch /\ tagged \subseteq Objects
  /\ \A i \in Rows(observations) :
       observations[i].object \in Objects /\ observations[i].epoch \in 1..epochs
  /\ \A m \in models : m.type \in Models /\ m.observation \in Rows(observations)
                      /\ m.epoch \in 1..epochs
  /\ \A r \in Rows(recommendations) : LET rec == recommendations[r] IN
       /\ rec.object \in tagged /\ rec.facility \in Facilities /\ rec.epoch \in 1..epochs
       /\ {rec.prediction, rec.observation} \subseteq {0} \cup Rows(observations)
  /\ files \subseteq Rows(observations)
  /\ \A p \in Started : /\ proc[p].end \in {None, "done", "raised", "stopped"}
                        /\ p \in Busy <=> proc[p].todo # <<>>

\* The recommendations of a file are published together, each once and in the
\* order of the file, or not at all, under one epoch, whenever the command is
\* interrupted or an epoch is opened ("we deconstruct as dictionaries to use
\* add_all and a single transaction").
BatchWhole ==
  \A p \in Started : proc[p].kind = "file" =>
    LET rows == proc[p].on.predictions IN
    /\ Of(p) = {} \/ \E before \in 0..Len(recommendations) :
         /\ Of(p) = (before + 1)..(before + Len(rows))
         /\ \A n \in DOMAIN rows : recommendations[before + n].prediction = rows[n]
    /\ \A r \in Of(p) : recommendations[r].epoch = proc[p].epoch
    /\ proc[p].end = "done" => Of(p) # {}

\* Every model is of the object whose predicted observation it is attached to,
\* and a forecast that is published has all its models.
ModelsOfObject ==
  /\ \A m \in models : observations[m.observation].object = m.object
  /\ \A p \in Started : Done(p, "forecast") => \A type \in proc[p].on.models :
       \E m \in models : m.by = p /\ m.type = type /\ m.observation = proc[p].row

\* The data of every model are what the schema of its type says; data that are
\* are refused only when there is no first member to compare others with, by an
\* IndexError, which no handler of the command expects.
ModelsWellFormed ==
  /\ \A m \in models : m.conforms
  /\ \A p \in Started :
       proc[p].kind = "forecast" /\ proc[p].end = "raised" /\ proc[p].seen # None =>
         LET load == proc[p].seen IN load.conforms <=> load.outcome = "IndexError"

\* What the observer decided before asking is not offered again, but is in the
\* history; unless a decision on it was taken back.
DecisionSeen ==
  \A d, n \in Started :
    LET r == proc[d].on.recommendation
        undone == \E u \in Started : /\ proc[u].kind = "decide" /\ ~proc[u].on.value
                                     /\ proc[u].on.recommendation = r
    IN /\ Done(d, "decide") /\ proc[d].on.value /\ d \in proc[n].before /\ ~undone
       => /\ Done(n, "next") => r \notin proc[n].left
          /\ Done(n, "history") /\ proc[n].on.epoch = recommendations[r].epoch => r \in proc[n].left

\* What is offered next belongs to an epoch that was the latest while the
\* observer was asking, and to the facility asked for.
NextOfTonight ==
  \A n \in Started : Done(n, "next") => \A r \in proc[n].left :
    /\ recommendations[r].epoch >= proc[n].begun
    /\ proc[n].on.facility \in {None, recommendations[r].facility}

\* A recommendation's observation is replaced only with --force, or by one
\* that was published at the same time (its check came before the other's
\* link).
LinkKept ==
  [][ \A r \in Rows(recommendations) : LET old == recommendations[r].observation IN
        old # 0 /\ recommendations'[r].observation # old =>
          \E p \in Busy : /\ proc[p].kind = "observe" /\ proc[p].on.recommendation = r
                         /\ (proc[p].on.force \/ observations[old].by \notin proc[p].before) ]_vars

\* "Unique object ID for recommendation" (object_id): of a recommendation that
\* is published for a prediction, it is the object that was predicted.
PredictedObject ==
  \A p \in Started : proc[p].kind = "values" /\ proc[p].on.given.object = 0 =>
    \A r \in Of(p) :
      recommendations[r].object = observations[recommendations[r].prediction].object

\* A publication is all there or, but for the observation of a forecast, not
\* at all (recommendation/publish.py add_recommendations, forecast/publish.py).
PublishedInv == TypeOK /\ BatchWhole /\ ModelsOfObject
==============================================================================
