---------------------------- MODULE ObservedUpload ----------------------------
(***************************************************************************)
(* The uploads for one recommendation through the web API: the observer    *)
(* posts the observation that was recommended, perhaps again to correct    *)
(* it, and a file that goes with it (web/api/endpoint/recommendation.py    *)
(* over database/model.py).                                                *)
(*                                                                         *)
(* The server is a number of worker processes, each with one request at a  *)
(* time (apps/refitt/service/api.py).  A request is a sequence of queries  *)
(* and commits, one action each; requests interleave between them, and a   *)
(* worker may be killed between them.  A row that a request has loaded     *)
(* stays as it was loaded until the request commits, and an update writes  *)
(* only the columns that differ from what was loaded: both are what an     *)
(* SQLAlchemy session does.                                                *)
(*                                                                         *)
(* Modelled are the requests of the recommendation's owner, with a valid   *)
(* payload; all others are refused before they change anything.  An        *)
(* observation is named for the request that added it, a file's content    *)
(* for the request that uploaded it.  before is a history variable.        *)
(* Names ending in _M are mistakes the code does not make, used to test    *)
(* the properties.                                                         *)
(***************************************************************************)
EXTENDS Naturals, FiniteSets

CONSTANTS
  Requests,      \* the requests the server may receive
  Values,        \* what a column of an observation may hold
  MaxWorkers,    \* the server has one worker or more, up to this many
  None

ASSUME UploadAssumption ==
  /\ IsFiniteSet(Requests) /\ None \notin Requests
  /\ Values # {} /\ MaxWorkers \in Nat \ {0}

VARIABLES
  workers,       \* number of worker processes (--workers)
  source,        \* is there a Source for this observer and facility
  shown,         \* Recommendation.observation_id
  observation,   \* the row each request has added to Observation, or None
  file,          \* the File of each of these observations, or None
  pc,            \* what each request does next
  kind,          \* "observed" or "file"
  data,          \* the columns that each upload posts
  seen,          \* recommendation.observation_id as each request has loaded it
  base,          \* the row each request has loaded to update it
  before         \* the requests that were over when each one began (history)

rows == <<source, shown, observation, file>>
vars == <<workers, rows, pc, kind, data, seen, base, before>>

\* type_id, value and error stand and fall together; recorded always changes.
Columns == {"value", "time"}
Data == [Columns -> Values]

\* A row that is there is not the row that is not.
ASSUME NoneAssumption == None \notin Data

Over == {"answered", "refused", "critical", "lost"}
Running == {"begin", "source", "add_source", "reload", "add", "link", "load", "update",
            "file", "add_file", "update_file", "answer"}

\* Every variable has its type (the tables and requests of recommendation.py).
TypeOK ==
  /\ workers \in 1..MaxWorkers
  /\ source \in BOOLEAN
  /\ shown \in Requests \cup {None}
  /\ observation \in [Requests -> Data \cup {None}]
  /\ file \in [Requests -> Requests \cup {None}]
  /\ pc \in [Requests -> {"unsent"} \cup Running \cup Over]
  /\ kind \in [Requests -> {"observed", "file"}]
  /\ data \in [Requests -> Data \cup {None}]
  /\ seen \in [Requests -> Requests \cup {None}]
  /\ base \in [Requests -> Data \cup {None}]
  /\ before \in [Requests -> SUBSET Requests]

Busy == {r \in Requests : pc[r] \in Running}
Goto(r, step) == pc' = [pc EXCEPT ![r] = step]
------------------------------------------------------------------------------
\* The recommendation was published, and nothing was uploaded for it.
Init ==
  /\ workers \in 1..MaxWorkers
  /\ source \in BOOLEAN
  /\ shown = None
  /\ observation = [r \in Requests |-> None]
  /\ file = [r \in Requests |-> None]
  /\ pc = [r \in Requests |-> "unsent"]
  /\ kind = [r \in Requests |-> "observed"]
  /\ data = [r \in Requests |-> None]
  /\ seen = [r \in Requests |-> None]
  /\ base = [r \in Requests |-> None]
  /\ before = [r \in Requests |-> {}]

\* A free worker takes the request.
Receive(r) ==
  /\ pc[r] = "unsent"
  /\ Cardinality(Busy) < workers
  /\ Goto(r, "begin")
  /\ \/ kind' = [kind EXCEPT ![r] = "file"] /\ UNCHANGED data
     \/ \E d \in Data : data' = [data EXCEPT ![r] = d] /\ UNCHANGED kind
  /\ before' = [before EXCEPT ![r] = {q \in Requests : pc[q] \in Over}]
  /\ UNCHANGED <<workers, rows, seen, base>>

\* Recommendation.from_id.  A file needs an observation to go with.
Begin(r) ==
  /\ pc[r] = "begin"
  /\ seen' = [seen EXCEPT ![r] = shown]
  /\ Goto(r, IF kind[r] = "observed" THEN "source"
             ELSE IF shown = None THEN "refused" ELSE "file")
  /\ UNCHANGED <<workers, rows, kind, data, base, before>>
------------------------------------------------------------------------------
(***************************************************************************)
(* POST /recommendation/<id>/observed.                                     *)
(***************************************************************************)
\* Every upload adds an observation.
AddOrUpdate_M(o) == "add"

\* An observation is added when the recommendation has none.
AddOrUpdate(o) == IF o = None THEN "add" ELSE "load"

\* The source is added without a look.
FindSource_M(r) ==
  /\ pc[r] = "source"
  /\ Goto(r, "add_source")
  /\ UNCHANGED <<workers, rows, kind, data, seen, base, before>>

\* Source.get_or_create looks for the source ...
FindSource(r) ==
  /\ pc[r] = "source"
  /\ Goto(r, IF source THEN AddOrUpdate(seen[r]) ELSE "add_source")
  /\ UNCHANGED <<workers, rows, kind, data, seen, base, before>>

\* ... and adds it, unless another request has: then the commit violates its
\* uniqueness and is rolled back.
AddSource(r) ==
  /\ pc[r] = "add_source"
  /\ \/ /\ ~source
        /\ source' = TRUE
        /\ Goto(r, "reload")
     \/ /\ source
        /\ Goto(r, "critical")
        /\ UNCHANGED source
  /\ UNCHANGED <<workers, shown, observation, file, kind, data, seen, base, before>>

\* The commit has expired the recommendation, which is loaded again.
Reload(r) ==
  /\ pc[r] = "reload"
  /\ seen' = [seen EXCEPT ![r] = shown]
  /\ Goto(r, AddOrUpdate(shown))
  /\ UNCHANGED <<workers, rows, kind, data, base, before>>

AddObservation(r) ==
  /\ pc[r] = "add"
  /\ observation' = [observation EXCEPT ![r] = data[r]]
  /\ Goto(r, "link")
  /\ UNCHANGED <<workers, source, shown, file, kind, data, seen, base, before>>

\* Recommendation.update(observation_id=...).
LinkObservation(r) ==
  /\ pc[r] = "link"
  /\ shown' = r
  /\ Goto(r, "answer")
  /\ UNCHANGED <<workers, source, observation, file, kind, data, seen, base, before>>

\* Observation.update loads the row ...
LoadObservation(r) ==
  /\ pc[r] = "load"
  /\ base' = [base EXCEPT ![r] = observation[seen[r]]]
  /\ Goto(r, "update")
  /\ UNCHANGED <<workers, rows, kind, data, seen, before>>

\* Nothing but the time of recording is written.
UpdateObservation_M(r) ==
  /\ pc[r] = "update"
  /\ Goto(r, "answer")
  /\ UNCHANGED <<workers, rows, kind, data, seen, base, before>>

\* ... and writes the columns that differ from what it loaded.
UpdateObservation(r) ==
  /\ pc[r] = "update"
  /\ observation' = [observation EXCEPT ![seen[r]] =
       [c \in Columns |-> IF data[r][c] = base[r][c] THEN @[c] ELSE data[r][c]]]
  /\ Goto(r, "answer")
  /\ UNCHANGED <<workers, source, shown, file, kind, data, seen, base, before>>
------------------------------------------------------------------------------
(***************************************************************************)
(* POST /recommendation/<id>/observed/file.                                *)
(***************************************************************************)
\* A file that is there is left alone.
FindFile_M(r) ==
  /\ pc[r] = "file"
  /\ Goto(r, IF file[seen[r]] = None THEN "add_file" ELSE "answer")
  /\ UNCHANGED <<workers, rows, kind, data, seen, base, before>>

\* File.from_observation.
FindFile(r) ==
  /\ pc[r] = "file"
  /\ Goto(r, IF file[seen[r]] = None THEN "add_file" ELSE "update_file")
  /\ UNCHANGED <<workers, rows, kind, data, seen, base, before>>

\* observation_id is unique: a second file is rolled back.
AddFile(r) ==
  /\ pc[r] = "add_file"
  /\ \/ /\ file[seen[r]] = None
        /\ file' = [file EXCEPT ![seen[r]] = r]
        /\ Goto(r, "answer")
     \/ /\ file[seen[r]] # None
        /\ Goto(r, "critical")
        /\ UNCHANGED file
  /\ UNCHANGED <<workers, source, shown, observation, kind, data, seen, base, before>>

UpdateFile(r) ==
  /\ pc[r] = "update_file"
  /\ file' = [file EXCEPT ![seen[r]] = r]
  /\ Goto(r, "answer")
  /\ UNCHANGED <<workers, source, shown, observation, kind, data, seen, base, before>>
------------------------------------------------------------------------------
Answer(r) ==
  /\ pc[r] = "answer"
  /\ Goto(r, "answered")
  /\ UNCHANGED <<workers, rows, kind, data, seen, base, before>>

\* The worker takes longer than --timeout or dies; what it has not committed
\* is lost, and so is its answer.
Lose(r) ==
  /\ pc[r] \in Running
  /\ Goto(r, "lost")
  /\ UNCHANGED <<workers, rows, kind, data, seen, base, before>>

\* No request is left.
Finished ==
  /\ \A r \in Requests : pc[r] \in Over
  /\ UNCHANGED vars

Next ==
  \/ \E r \in Requests :
       \/ Receive(r) \/ Begin(r)
       \/ FindSource(r) \/ AddSource(r) \/ Reload(r)
       \/ AddObservation(r) \/ LinkObservation(r)
       \/ LoadObservation(r) \/ UpdateObservation(r)
       \/ FindFile(r) \/ AddFile(r) \/ UpdateFile(r)
       \/ Answer(r) \/ Lose(r)
  \/ Finished

Spec == Init /\ [][Next]_vars
------------------------------------------------------------------------------
(***************************************************************************)
(* Properties.                                                             *)
(***************************************************************************)
Uploads == {r \in Requests : kind[r] = "observed" /\ pc[r] # "unsent"}
Answered == {r \in Requests : pc[r] = "answered"}

\* Neither of two requests was over when the other began.
Overlap(q, r) ==
  /\ q # r /\ pc[q] # "unsent" /\ pc[r] # "unsent"
  /\ q \notin before[r] /\ r \notin before[q]

\* No upload that began after u was over has been answered.
Current(u) == \A v \in Uploads \cap Answered : u \notin before[v]

\* What the recommendation shows is what an upload posted that no later
\* upload has replaced; columns of two uploads are mixed only if these
\* overlapped (recommendation.py add_recommendation_observed).
LatestShown ==
  shown # None =>
    \E from \in [Columns -> Uploads] :
      \A c \in Columns :
        /\ data[from[c]][c] = observation[shown][c]
        /\ Current(from[c])
        /\ \A d \in Columns : from[c] = from[d] \/ Overlap(from[c], from[d])

\* An upload that added an observation and was answered is the one the
\* recommendation shows, or has lost a race against it.
AssociatedOrRaced ==
  \A r \in Uploads \cap Answered : observation[r] # None => shown = r \/ Overlap(shown, r)

\* A file that was uploaded and answered is the one that goes with what the
\* recommendation shows, or was replaced, or went with an observation that
\* has lost a race.
FileKept ==
  \A f \in Answered : kind[f] = "file" =>
    \/ shown = seen[f] /\ file[shown] # None /\ file[shown] \notin before[f]
    \/ Overlap(shown, seen[f]) /\ shown \notin before[f]

\* A request that failed on a uniqueness constraint has lost a race: alone,
\* none does (response.py endpoint: "Critical").
CriticalRaced == \A r \in Requests : pc[r] = "critical" => \E q \in Requests : Overlap(q, r)

\* The tables and requests are well formed, and only lost races are critical
\* (recommendation.py add_recommendation_observed).
UploadInv == TypeOK /\ CriticalRaced
==============================================================================
