------------------------- MODULE Publication_proofs -------------------------
(***************************************************************************)
(* Theorems about Publication, for any number of commands and requests, of *)
(* epochs, objects, models and rows of a file.                             *)
(*                                                                         *)
(* The invariant says of each process what it may still have to do, and    *)
(* what its row of the tables, and what it holds in memory, are then.      *)
(***************************************************************************)
EXTENDS Publication, SequenceTheorems, TLAPS

(***************************************************************************)
(* The inductive invariant.                                                *)
(***************************************************************************)
Fields == {"kind", "todo", "on", "epoch", "row", "left", "new", "seen", "end", "begun", "before"}
Columns == {"accepted", "rejected"}
ObservationRow == [object : Objects, epoch : 1..MaxEpoch, by : Procs \cup {None}]
RecommendationRow ==
  [epoch : 1..MaxEpoch, object : Objects, facility : Facilities, prediction : Nat,
   observation : Nat, accepted : BOOLEAN, rejected : BOOLEAN, by : Procs \cup {None}]

Typed ==
  /\ observations \in Seq(ObservationRow) /\ recommendations \in Seq(RecommendationRow)
  /\ proc = [p \in Procs |-> [field \in Fields |-> proc[p][field]]]
  /\ \A p \in Started : proc[p].kind \in AllKinds
  /\ TypeOK

\* Those that were over when a process began are over.
Over == \A p \in Started : \A q \in proc[p].before : q \in Started /\ proc[q].end # None

InEpoch(p) == proc[p].epoch \in 1..epochs

\* What is loaded from a file is what its schema says, if it is accepted.
LoadsChecked == \A load \in Loads : load.conforms <=> load.outcome \in {"ok", "IndexError"}
Conforming(p) == LoadsChecked => proc[p].seen.conforms

\* The row of a forecast is an observation of its object.
Predicted(p) ==
  /\ proc[p].row \in Rows(observations)
  /\ observations[proc[p].row].object = proc[p].on.object
Published(p, types) ==
  \A type \in types : \E m \in models : m.by = p /\ m.type = type /\ m.observation = proc[p].row

ForecastAt(p) ==
  LET run == proc[p] IN
  \/ run.todo = <<"epoch", "prediction", "sources", "models">> /\ run.on.given = 0
  \/ run.todo = <<"prediction", "sources", "models">> /\ run.on.given = 0 /\ InEpoch(p)
  \/ /\ run.todo = <<"sources", "models">> /\ run.on.given = 0 /\ InEpoch(p)
     /\ Predicted(p) /\ Conforming(p)
  \/ run.todo = <<"sources", "epoch", "models">> /\ run.on.given > 0
  \/ /\ run.todo = <<"epoch", "models">> /\ run.left = run.on.models
     /\ Predicted(p) /\ Conforming(p)
  \/ /\ run.todo = <<"models">> /\ InEpoch(p) /\ Predicted(p) /\ Conforming(p)
     /\ run.left \subseteq Models /\ Published(p, run.on.models \ run.left)

Forecasting(p) ==
  LET run == proc[p] IN
  /\ run.on.object \in Objects /\ run.on.models \subseteq Models
  /\ run.on.given \in {0} \cup Rows(observations)
  /\ run.on.given > 0 /\ run.on.fits => observations[run.on.given].object = run.on.object
  /\ run.end = None => ForecastAt(p)
  /\ run.end = "done" => Published(p, run.on.models)
  /\ LoadsChecked /\ run.end = "raised" /\ run.seen # None =>
       (run.seen.conforms <=> run.seen.outcome = "IndexError")

\* The recommendations that are built are the first of those that are wanted.
Building(p) ==
  LET run == proc[p] IN
  /\ InEpoch(p) /\ run.new \in Seq(RecommendationRow)
  /\ \A n \in DOMAIN run.new : n \in DOMAIN Wanted(p) /\ run.new[n] = Wanted(p)[n]
                               /\ run.new[n].object \in tagged
  /\ \/ run.todo = <<"rows", "add_recommendations">> /\ Len(run.new) < Len(Wanted(p))
     \/ run.todo = <<"add_recommendations">> /\ Len(run.new) = Len(Wanted(p))

\* The recommendations of p are there, in their order.
Batch(p) ==
  LET rows == proc[p].on.predictions IN
  /\ \E before \in 0..Len(recommendations) :
       /\ Of(p) = (before + 1)..(before + Len(rows))
       /\ \A n \in DOMAIN rows : recommendations[before + n].prediction = rows[n]
  /\ \A r \in Of(p) : recommendations[r].epoch = proc[p].epoch

ToLoad == {<<"load_file", "epoch", "rows", "add_recommendations">>,
           <<"epoch", "rows", "add_recommendations">>}
Filing(p) ==
  LET run == proc[p] IN
  /\ run.on.predictions \in Seq(Rows(observations)) /\ run.on.predictions # <<>>
  /\ run.on.facility \in Facilities
  /\ run.end = None =>
       \/ run.todo \in ToLoad /\ run.new = <<>>
       \/ Building(p)
  /\ IF run.end = "done" THEN Batch(p) ELSE Of(p) = {}

GivingAt(p) ==
  LET run == proc[p] IN
  \/ /\ run.todo = <<"epoch", "object_id", "facility_id", "rows", "add_recommendations">>
     /\ run.new = <<>>
  \/ /\ run.todo \in {<<"object_id", "facility_id", "rows", "add_recommendations">>,
                      <<"facility_id", "rows", "add_recommendations">>}
     /\ run.new = <<>> /\ InEpoch(p)
  \/ Building(p) /\ run.seen \in Facilities
Giving(p) ==
  LET run == proc[p] IN
  /\ run.on.given.prediction \in {0} \cup Rows(observations)
  /\ run.end = None => GivingAt(p)

\* The observation of r was none when p looked, and is since that of one that
\* was not over when p began.
Unlinked(p) ==
  LET r == proc[p].on.recommendation IN
  r = 0 \/ proc[p].on.force \/ recommendations[r].observation = 0
    \/ observations[recommendations[r].observation].by \notin proc[p].before
Observed(p) ==
  proc[p].row \in Rows(observations) /\ observations[proc[p].row].by = p

ToPublish(r) ==
  IF r = 0 THEN {<<"publish_observation">>, <<"inspect_file", "publish_observation", "add_file">>,
                 <<"publish_observation", "add_file">>}
  ELSE {<<"publish_observation", "link">>, <<"publish_observation", "link", "add_file">>,
        <<"inspect_file", "publish_observation", "link", "add_file">>}
ToCheck == {<<"get_recommendation", "publish_observation", "link">>,
            <<"get_recommendation", "inspect_file", "publish_observation", "link", "add_file">>}

WatchingAt(p) ==
  LET run == proc[p]
      r == run.on.recommendation IN
  \/ run.todo \in Observing(r)
  \/ r # 0 /\ run.todo \in ToCheck /\ InEpoch(p)
  \/ run.todo \in ToPublish(r) /\ InEpoch(p) /\ Unlinked(p)
  \/ r # 0 /\ run.todo \in {<<"link">>, <<"link", "add_file">>} /\ Observed(p) /\ Unlinked(p)
  \/ run.todo = <<"add_file">> /\ Observed(p)
Watching(p) ==
  LET run == proc[p]
      r == run.on.recommendation IN
  /\ r \in {0} \cup Rows(recommendations) /\ run.on.object \in Objects
  /\ run.end = None => WatchingAt(p)

Asking(p) ==
  LET run == proc[p] IN
  /\ run.begun <= epochs /\ run.begun \in Nat
  /\ run.end = None =>
       \/ run.todo = <<"epoch", "select">>
       \/ run.todo = <<"select">> /\ run.epoch \in run.begun..epochs
  /\ run.end = "done" => \A r \in run.left :
       /\ r \in Rows(recommendations) /\ recommendations[r].epoch >= run.begun
       /\ run.on.facility \in {None, recommendations[r].facility}

\* A decision on r was taken back, or may be.
Undone(r) ==
  \E u \in Started : /\ proc[u].kind = "decide" /\ ~proc[u].on.value
                     /\ proc[u].on.recommendation = r

\* What was written, or was found to be there already, stays; unless undone.
Deciding(p) ==
  LET run == proc[p]
      r == run.on.recommendation IN
  /\ r \in Rows(recommendations) /\ run.on.column \in Columns /\ run.on.value \in BOOLEAN
  /\ run.end = None => run.todo \in {<<"load", "update">>, <<"update">>}
  /\ (run.todo = <<"update">> /\ run.seen = TRUE) \/ run.end = "done" =>
       (run.on.value /\ ~Undone(r) => recommendations[r][run.on.column])

Stage(p) ==
  /\ proc[p].kind = "forecast" => Forecasting(p)
  /\ proc[p].kind = "file" => Filing(p)
  /\ proc[p].kind = "values" => Giving(p)
  /\ proc[p].kind = "observe" => Watching(p)
  /\ proc[p].kind = "next" => Asking(p)
  /\ proc[p].kind = "history" /\ proc[p].end = None => proc[p].todo = <<"select_history">>
  /\ proc[p].kind = "decide" => Deciding(p)
  /\ proc[p].kind = None => Of(p) = {}

\* What n was shown takes account of what was decided before it asked.
Shown(n) ==
  \A d \in proc[n].before :
    LET r == proc[d].on.recommendation IN
    Done(d, "decide") /\ proc[d].on.value /\ ~Undone(r) =>
      /\ Done(n, "next") => r \notin proc[n].left
      /\ Done(n, "history") /\ proc[n].on.epoch = recommendations[r].epoch => r \in proc[n].left

\* The models that are there.
Modelled ==
  \A m \in models : /\ observations[m.observation].object = m.object
                    /\ LoadsChecked => m.conforms

\* The inductive invariant (forecast/publish.py, recommendation/publish.py,
\* observation/publish.py, model.py Recommendation).
IInv ==
  /\ Typed /\ Over /\ Modelled
  /\ \A p \in Procs : Stage(p)
  /\ \A n \in Started : Shown(n)
------------------------------------------------------------------------------
(***************************************************************************)
(* What a step changes of the processes.                                   *)
(***************************************************************************)
\* Only p may have changed.
OnlyOf(p) ==
  /\ proc' = [q \in Procs |-> [field \in Fields |-> proc'[q][field]]]
  /\ \A q \in Procs \ {p} : proc'[q] = proc[q]

\* All of p but these is as it was.
Keeps(p, fields) == \A field \in Fields \ fields : proc'[p][field] = proc[p][field]

\* Each process has its fields (the commands' attributes).
LEMMA Shape ==
  ASSUME Typed
  PROVE  /\ DOMAIN proc = Procs
         /\ \A p \in Procs : DOMAIN proc[p] = Fields
                             /\ proc[p] = [field \in Fields |-> proc[p][field]]
  BY DEF Typed

\* p becomes what it was, but for some fields.
LEMMA Becomes ==
  ASSUME Typed, NEW p \in Procs, NEW new, proc' = [proc EXCEPT ![p] = new],
         new = [field \in Fields |-> new[field]],
         NEW fields, \A field \in Fields \ fields : new[field] = proc[p][field]
  PROVE  OnlyOf(p) /\ Keeps(p, fields) /\ proc'[p] = new
<1>1. /\ DOMAIN proc = Procs
      /\ \A q \in Procs : proc[q] = [field \in Fields |-> proc[q][field]]
  BY Shape
<1>2. /\ proc' = [q \in Procs |-> proc'[q]] /\ proc'[p] = new
      /\ \A q \in Procs \ {p} : proc'[q] = proc[q]
  BY <1>1, Zenon
<1>3. proc'[p] = [field \in Fields |-> proc'[p][field]]
  BY <1>2, Zenon
<1>4. ASSUME NEW q \in Procs \ {p}
      PROVE  proc'[q] = [field \in Fields |-> proc'[q][field]]
  <2>1. proc'[q] = proc[q] /\ proc[q] = [field \in Fields |-> proc[q][field]]
    BY <1>1, <1>2, Zenon
  <2>. QED
    BY <2>1, Zenon
<1>5. \A q \in Procs : proc'[q] = [field \in Fields |-> proc'[q][field]]
  BY <1>3, <1>4, Zenon
<1>. QED
  BY <1>2, <1>5 DEF OnlyOf, Keeps

\* p sets a field, and goes to its next step (the commands' cached properties).
LEMMA SetGoes ==
  ASSUME Typed, NEW p \in Procs, NEW field \in {"epoch", "row", "seen"}, NEW value,
         Set(p, field, value)
  PROVE  /\ OnlyOf(p) /\ Keeps(p, {"todo", field})
         /\ proc'[p].todo = Tail(proc[p].todo) /\ proc'[p][field] = value
<1>1. /\ DOMAIN proc = Procs /\ proc = [q \in Procs |-> [f \in Fields |-> proc[q][f]]]
      /\ \A q \in Procs : DOMAIN proc[q] = Fields
  BY Shape DEF Typed
<1>2. proc' = [q \in Procs |-> IF q = p
                 THEN [f \in Fields |-> IF f = field THEN value
                                       ELSE IF f = "todo" THEN Tail(proc[p].todo) ELSE proc[p][f]]
                 ELSE proc[q]]
  BY <1>1 DEF Set, Fields
<1>3. \A f \in Fields : proc'[p][f] = IF f = field THEN value
                                     ELSE IF f = "todo" THEN Tail(proc[p].todo) ELSE proc[p][f]
  BY <1>2
<1>4. proc' = [q \in Procs |-> [f \in Fields |-> proc'[q][f]]] /\ \A q \in Procs \ {p} : proc'[q] = proc[q]
  BY <1>1, <1>2
<1>. QED
  BY <1>3, <1>4 DEF OnlyOf, Keeps, Fields

\* p is over: what it held is let go (Application.__exit__).
LEMMA EndGoes ==
  ASSUME Typed, NEW p \in Procs, NEW how \in {"done", "raised", "stopped"}, End(p, how)
  PROVE  /\ OnlyOf(p) /\ Keeps(p, {"todo", "new", "seen", "end", "epoch", "row", "left"})
         /\ proc'[p].todo = <<>> /\ proc'[p].new = <<>> /\ proc'[p].seen = None
         /\ proc'[p].end = how /\ proc'[p].left = {}
         /\ how = "done" => proc'[p].epoch = proc[p].epoch /\ proc'[p].row = proc[p].row
<1>1. /\ DOMAIN proc = Procs /\ proc = [q \in Procs |-> [f \in Fields |-> proc[q][f]]]
      /\ \A q \in Procs : DOMAIN proc[q] = Fields
  BY Shape DEF Typed
<1> DEFINE Last(value, none) == IF how = "done" THEN value ELSE none
<1> DEFINE new == [proc[p] EXCEPT !.todo = <<>>, !.new = <<>>, !.seen = None, !.end = how,
                     !.epoch = Last(@, 0), !.row = Last(@, 0), !.left = {}]
           gone == {"todo", "new", "seen", "end", "epoch", "row", "left"}
<1>2. proc' = [proc EXCEPT ![p] = new]
  BY DEF End
<1>3. /\ new = [f \in Fields |-> new[f]] /\ \A f \in Fields \ gone : new[f] = proc[p][f]
  BY <1>1 DEF Fields
<1>4. /\ new.todo = <<>> /\ new.new = <<>> /\ new.seen = None /\ new.end = how /\ new.left = {}
      /\ how = "done" => new.epoch = proc[p].epoch /\ new.row = proc[p].row
  BY <1>1 DEF Fields
<1> HIDE DEF new, gone
<1>5. OnlyOf(p) /\ Keeps(p, gone) /\ proc'[p] = new
  BY <1>2, <1>3, Becomes
<1>. QED
  BY <1>4, <1>5 DEF gone

\* p goes on, or is done.
LEMMA ProceedGoes ==
  ASSUME Typed, NEW p \in Procs, Proceed(p)
  PROVE  /\ OnlyOf(p)
         /\ Len(proc[p].todo) # 1 =>
              Keeps(p, {"todo"}) /\ proc'[p].todo = Tail(proc[p].todo)
         /\ Len(proc[p].todo) = 1 =>
              /\ Keeps(p, {"todo", "new", "seen", "end", "left"})
              /\ proc'[p].todo = <<>> /\ proc'[p].end = "done"
<1>1. CASE Len(proc[p].todo) = 1
  <2>1. End(p, "done")
    BY <1>1 DEF Proceed
  <2>. QED
    BY <1>1, <2>1, EndGoes DEF Keeps, Fields
<1>2. CASE Len(proc[p].todo) # 1
  <2>1. /\ DOMAIN proc = Procs /\ proc = [q \in Procs |-> [f \in Fields |-> proc[q][f]]]
        /\ \A q \in Procs : DOMAIN proc[q] = Fields
    BY Shape DEF Typed
  <2>2. proc' = [q \in Procs |-> IF q = p
                   THEN [f \in Fields |-> IF f = "todo" THEN Tail(proc[p].todo) ELSE proc[p][f]]
                   ELSE proc[q]]
    BY <1>2, <2>1 DEF Proceed, Fields
  <2>. QED
    BY <1>2, <2>1, <2>2 DEF OnlyOf, Keeps, Fields
<1>. QED
  BY <1>1, <1>2
------------------------------------------------------------------------------
(***************************************************************************)
(* What a step of p leaves as it was for the others.                       *)
(***************************************************************************)
\* The tables only grow: a row keeps what it was published with.
Grow ==
  /\ epochs <= epochs'
  /\ \A i \in Rows(observations) : i \in Rows(observations)' /\ observations'[i] = observations[i]
  /\ models \subseteq models' /\ tagged \subseteq tagged'
  /\ Len(recommendations) <= Len(recommendations)'
  /\ \A r \in Rows(recommendations) :
       /\ r \in Rows(recommendations)'
       /\ \A column \in {"epoch", "object", "facility", "prediction", "by"} :
            recommendations'[r][column] = recommendations[r][column]

\* What is added to the recommendations, or written in them, is of p.
WrittenBy(p) ==
  /\ \A r \in Rows(recommendations)' \ Rows(recommendations) : recommendations'[r].by = p
  /\ \A r \in Rows(recommendations) :
       \/ recommendations'[r].observation = recommendations[r].observation
       \/ observations'[recommendations'[r].observation].by = p
  /\ \A r \in Rows(recommendations) : \A column \in Columns :
       recommendations[r][column] /\ ~Undone(r)' => recommendations'[r][column]

\* p is at work, and goes on with what it began.
Continues(p) ==
  /\ p \in Busy /\ OnlyOf(p)
  /\ \A field \in {"kind", "on", "begun", "before"} : proc'[p][field] = proc[p][field]

\* The processes that are there stay, and those that are over are left alone.
LEMMA OthersStay ==
  ASSUME IInv, NEW p \in Procs, Continues(p)
  PROVE  /\ Started' = Started
         /\ \A q \in Procs \ {p} : proc'[q] = proc[q] /\ ((q \in Busy') = (q \in Busy))
         /\ \A r : Undone(r)' <=> Undone(r)
<1>1. /\ p \in Busy /\ \A q \in Procs \ {p} : proc'[q] = proc[q]
      /\ proc'[p].kind = proc[p].kind /\ proc'[p].on = proc[p].on
  BY DEF Continues, OnlyOf
<1>2. Started' = Started
  BY <1>1 DEF Started, Busy
<1>3. \A q \in Started : proc'[q].kind = proc[q].kind /\ proc'[q].on = proc[q].on
  BY <1>1 DEF Started
<1>4. \A r : Undone(r)' <=> Undone(r)
  BY <1>2, <1>3 DEF Undone
<1>5. \A q \in Procs \ {p} : (q \in Busy') = (q \in Busy)
  BY <1>1, <1>2 DEF Busy
<1>. QED
  BY <1>1, <1>2, <1>4, <1>5

\* The recommendations of q, and their columns, are the same when p publishes
\* its own (recommendation/publish.py add_recommendations).
LEMMA OfStays ==
  ASSUME NEW p, NEW q \in Procs \ {p}, Grow, WrittenBy(p)
  PROVE  /\ Of(q)' = Of(q)
         /\ \A r \in Of(q) : /\ recommendations'[r].epoch = recommendations[r].epoch
                             /\ recommendations'[r].prediction = recommendations[r].prediction
  BY DEF Grow, WrittenBy, Of

\* A forecast is not disturbed by others (forecast/publish.py).
LEMMA ForecastStays ==
  ASSUME NEW q \in Procs, proc'[q] = proc[q], Grow, Forecasting(q),
         epochs \in Nat, epochs' \in Nat
  PROVE  Forecasting(q)'
<1>1. /\ (InEpoch(q) => InEpoch(q)') /\ (Predicted(q) => Predicted(q)')
      /\ (Conforming(q) => Conforming(q)')
  <2>1. InEpoch(q) => InEpoch(q)'
    BY DEF InEpoch, Grow
  <2>2. Predicted(q) => Predicted(q)'
    BY DEF Predicted, Grow
  <2>3. Conforming(q) => Conforming(q)'
    BY DEF Conforming
  <2>. QED
    BY <2>1, <2>2, <2>3
<1>2. \A types : Published(q, types) => Published(q, types)'
  BY DEF Published, Grow
<1>3. /\ proc[q].on.given \in {0} \cup Rows(observations) => proc[q].on.given \in {0} \cup Rows(observations)'
      /\ proc[q].on.given \in Rows(observations) =>
           observations'[proc[q].on.given] = observations[proc[q].on.given]
  BY DEF Grow
<1>4. proc[q].on.given \in {0} \cup Rows(observations)
  BY DEF Forecasting
<1>5. (proc[q].on.given > 0 /\ proc[q].on.fits => observations[proc[q].on.given].object = proc[q].on.object)'
  BY <1>3, <1>4 DEF Forecasting
<1>6. (proc[q].end = None => ForecastAt(q))'
  <2>1. proc[q].end = None => ForecastAt(q)
    BY DEF Forecasting
  <2>. QED
    BY <1>1, <1>2, <2>1 DEF ForecastAt
<1>. QED
  BY <1>2, <1>3, <1>4, <1>5, <1>6 DEF Forecasting

\* Nor are the recommendations that are being built, of the object of an
\* observation that stays (build_recommendation).
LEMMA BuildStays ==
  ASSUME NEW q \in Procs, proc'[q] = proc[q], Grow, epochs \in Nat, epochs' \in Nat,
         proc[q].kind \in {"file", "values"},
         proc[q].kind = "file" => proc[q].on.predictions \in Seq(Rows(observations)),
         Building(q)
  PROVE  Building(q)'
<1>1. Wanted(q)' = Wanted(q)
  <2>1. CASE proc[q].kind = "values"
    BY <2>1 DEF Wanted
  <2>2. CASE proc[q].kind = "file"
    <3>1. \A n \in DOMAIN proc[q].on.predictions :
            observations'[proc[q].on.predictions[n]] = observations[proc[q].on.predictions[n]]
      BY <2>2 DEF Grow
    <3>. QED
      BY <2>2, <3>1 DEF Wanted
  <2>. QED
    BY <2>1, <2>2
<1>2. InEpoch(q)'
  BY DEF Building, InEpoch, Grow
<1>3. \A n \in DOMAIN proc[q].new : proc[q].new[n].object \in tagged'
  BY DEF Building, Grow
<1>. QED
  BY <1>1, <1>2, <1>3 DEF Building

\* The recommendations of a command stay together (model.py add_all).
LEMMA BatchStays ==
  ASSUME NEW p, NEW q \in Procs \ {p}, proc'[q] = proc[q], Grow, WrittenBy(p),
         proc[q].on.predictions \in Seq(Rows(observations)), Batch(q)
  PROVE  Batch(q)'
<1> DEFINE rows == proc[q].on.predictions
<1>1. /\ Of(q)' = Of(q)
      /\ \A r \in Of(q) : /\ recommendations'[r].epoch = recommendations[r].epoch
                          /\ recommendations'[r].prediction = recommendations[r].prediction
  BY OfStays
<1>2. PICK before \in 0..Len(recommendations) :
        /\ Of(q) = (before + 1)..(before + Len(rows))
        /\ \A n \in DOMAIN rows : recommendations[before + n].prediction = rows[n]
  BY DEF Batch
<1>3. \A n \in DOMAIN rows : recommendations'[before + n].prediction = rows[n]
  <2>1. \A n \in DOMAIN rows : before + n \in Of(q)
    BY <1>2
  <2>. QED
    BY <1>1, <1>2, <2>1
<1>4. before \in 0..Len(recommendations)'
  BY DEF Grow
<1>. QED
  BY <1>1, <1>2, <1>3, <1>4 DEF Batch

\* A command that files recommendations is not disturbed by others
\* (recommendation/publish.py run, load_from_local).
LEMMA FilingStays ==
  ASSUME NEW p, NEW q \in Procs \ {p}, proc'[q] = proc[q], Grow, WrittenBy(p),
         epochs \in Nat, epochs' \in Nat, proc[q].kind = "file", Filing(q)
  PROVE  Filing(q)'
<1>1. proc[q].on.predictions \in Seq(Rows(observations)) /\ proc[q].on.predictions # <<>>
  BY DEF Filing
<1>2. proc[q].on.predictions \in Seq(Rows(observations)')
  <2>1. Rows(observations) \subseteq Rows(observations)'
    BY DEF Grow
  <2>. QED
    BY <1>1, <2>1
<1>3. Building(q) => Building(q)'
  BY <1>1, BuildStays
<1>4. Batch(q) => Batch(q)'
  BY <1>1, BatchStays
<1>5. Of(q)' = Of(q)
  BY OfStays
<1>. QED
  BY <1>1, <1>2, <1>3, <1>4, <1>5 DEF Filing

\* Nor is one that files a single recommendation that is given
\* (recommendation/publish.py build_from_cmdline).
LEMMA GivingStays ==
  ASSUME NEW q \in Procs, proc'[q] = proc[q], Grow,
         epochs \in Nat, epochs' \in Nat, proc[q].kind = "values", Giving(q)
  PROVE  Giving(q)'
<1>1. Building(q) => Building(q)'
  BY BuildStays
<1>2. InEpoch(q) => InEpoch(q)'
  BY DEF InEpoch, Grow
<1>3. GivingAt(q) => GivingAt(q)'
  BY <1>1, <1>2 DEF GivingAt
<1>4. proc[q].on.given.prediction \in {0} \cup Rows(observations)'
  BY DEF Grow, Giving
<1>. QED
  BY <1>3, <1>4 DEF Giving

\* What an observer found unlinked is linked only by one that was not over
\* when it began (observation/publish.py recommendation).
LEMMA WatchStays ==
  ASSUME NEW p, NEW q \in Procs \ {p}, proc'[q] = proc[q], Grow, WrittenBy(p),
         epochs \in Nat, epochs' \in Nat, p \notin proc[q].before, Watching(q),
         \A r \in Rows(recommendations) :
           recommendations[r].observation \in {0} \cup Rows(observations)
  PROVE  Watching(q)'
<1> DEFINE r == proc[q].on.recommendation
<1>1. r \in {0} \cup Rows(recommendations)
  BY DEF Watching
<1>2. r \in {0} \cup Rows(recommendations)'
  BY <1>1 DEF Grow
<1>3. InEpoch(q) => InEpoch(q)'
  BY DEF InEpoch, Grow
<1>4. Observed(q) => Observed(q)'
  BY DEF Observed, Grow
<1>5. Unlinked(q) => Unlinked(q)'
  <2>1. CASE r = 0 \/ proc[q].on.force
    BY <2>1 DEF Unlinked
  <2>2. CASE r # 0 /\ ~proc[q].on.force
    <3>1. r \in Rows(recommendations)
      BY <1>1, <2>2
    <3>2. CASE recommendations'[r].observation = recommendations[r].observation
      <4> DEFINE i == recommendations[r].observation
      <4>1. i # 0 => observations'[i] = observations[i]
        BY <3>1 DEF Grow
      <4>. QED
        BY <2>2, <3>2, <4>1 DEF Unlinked
    <3>3. CASE observations'[recommendations'[r].observation].by = p
      BY <3>3 DEF Unlinked
    <3>. QED
      BY <3>1, <3>2, <3>3 DEF WrittenBy
  <2>. QED
    BY <2>1, <2>2
<1>6. WatchingAt(q) => WatchingAt(q)'
  BY <1>3, <1>4, <1>5 DEF WatchingAt
<1>. QED
  BY <1>2, <1>6 DEF Watching

\* What was offered stays of tonight, and what was decided stays decided.
LEMMA AskingStays ==
  ASSUME NEW q \in Procs, proc'[q] = proc[q], Grow, epochs \in Nat, epochs' \in Nat,
         Asking(q)
  PROVE  Asking(q)'
<1>1. proc[q].begun <= epochs' /\ proc[q].begun..epochs \subseteq proc[q].begun..epochs'
  BY DEF Asking, Grow
<1>2. proc[q].end = "done" => \A r \in proc[q].left :
        /\ r \in Rows(recommendations)' /\ recommendations'[r].epoch >= proc[q].begun
        /\ proc[q].on.facility \in {None, recommendations'[r].facility}
  BY DEF Asking, Grow
<1>. QED
  BY <1>1, <1>2 DEF Asking

\* The row that a PUT loaded is still there, and of the same facility
\* (api/recommendation.py, model.py update).
LEMMA DecidingStays ==
  ASSUME NEW p, NEW q \in Procs \ {p}, proc'[q] = proc[q], Grow, WrittenBy(p),
         \A r : Undone(r) => Undone(r)', Deciding(q)
  PROVE  Deciding(q)'
<1> DEFINE r == proc[q].on.recommendation
           column == proc[q].on.column
<1>1. r \in Rows(recommendations) /\ r \in Rows(recommendations)' /\ column \in Columns
  BY DEF Deciding, Grow
<1>2. ~Undone(r)' => (recommendations[r][column] => recommendations'[r][column])
  BY <1>1 DEF WrittenBy
<1>3. ~Undone(r)' => ~Undone(r)
  OBVIOUS
<1>. QED
  BY <1>1, <1>2, <1>3 DEF Deciding

\* A process that does nothing is where it was, when p does something.
LEMMA StageStays ==
  ASSUME IInv, NEW p, NEW q \in Procs \ {p}, proc'[q] = proc[q], Grow, WrittenBy(p),
         epochs' \in Nat, \A r : Undone(r) => Undone(r)', q \in Started => p \notin proc[q].before
  PROVE  Stage(q)'
<1>1. Stage(q) /\ Typed /\ TypeOK
  BY DEF IInv, Typed
<1>2. /\ epochs \in Nat
      /\ \A r \in Rows(recommendations) :
           recommendations[r].observation \in {0} \cup Rows(observations)
  BY <1>1, BoundsAssumption DEF TypeOK
<1>3. proc[q].kind = "forecast" => Forecasting(q)'
  BY <1>1, <1>2, ForecastStays DEF Stage
<1>4. proc[q].kind = "file" => Filing(q)'
  BY <1>1, <1>2, FilingStays DEF Stage
<1>5. proc[q].kind = "values" => Giving(q)'
  BY <1>1, <1>2, GivingStays DEF Stage
<1>6. proc[q].kind = "observe" => Watching(q)'
  <2>1. proc[q].kind = "observe" => p \notin proc[q].before
    BY NoneAssumption DEF Started, AllKinds
  <2>. QED
    BY <1>1, <1>2, <2>1, WatchStays DEF Stage
<1>7. proc[q].kind = "next" => Asking(q)'
  BY <1>1, <1>2, AskingStays DEF Stage
<1>8. proc[q].kind = "decide" => Deciding(q)'
  BY <1>1, <1>2, DecidingStays DEF Stage
<1>9. proc[q].kind = None => Of(q)' = {}
  BY <1>1, OfStays DEF Stage
<1>. QED
  BY <1>1, <1>3, <1>4, <1>5, <1>6, <1>7, <1>8, <1>9 DEF Stage

\* What it was shown is as it was.
LEMMA ShownStays ==
  ASSUME IInv, NEW n \in Started, proc'[n] = proc[n], Grow, \A r : Undone(r) => Undone(r)',
         \A d \in Started : proc[d].end # None => proc'[d] = proc[d]
  PROVE  Shown(n)'
<1>1. /\ Shown(n) /\ Over
  BY DEF IInv
<1>2. \A d \in proc[n].before : d \in Started /\ proc'[d] = proc[d]
  BY <1>1 DEF Over
<1>3. \A d \in proc[n].before : Done(d, "decide") =>
        recommendations'[proc[d].on.recommendation].epoch
          = recommendations[proc[d].on.recommendation].epoch
  <2>1. \A d \in Started : Done(d, "decide") => Deciding(d)
    BY DEF IInv, Stage, Started, Done
  <2>. QED
    BY <1>2, <2>1 DEF Deciding, Grow
<1>4. ASSUME NEW d \in proc[n].before, proc'[d].kind = "decide", proc'[d].end = "done",
             proc'[d].on.value, ~Undone(proc[d].on.recommendation)
      PROVE  LET r == proc[d].on.recommendation IN
             /\ Done(n, "next") => r \notin proc[n].left
             /\ Done(n, "history") /\ proc[n].on.epoch = recommendations'[r].epoch => r \in proc[n].left
  BY <1>1, <1>2, <1>3, <1>4 DEF Shown, Done
<1>. QED
  BY <1>2, <1>4 DEF Shown, Done

\* Those that were over still are.
LEMMA OverStays ==
  ASSUME IInv, NEW p \in Procs, Continues(p)
  PROVE  Over'
<1>1. /\ Over /\ p \in Busy
  BY DEF IInv, Continues
<1>2. /\ Started' = Started /\ \A q \in Procs \ {p} : proc'[q] = proc[q]
  BY OthersStay
<1>3. proc'[p].before = proc[p].before
  BY DEF Continues
<1>. QED
  BY <1>1, <1>2, <1>3 DEF Over, Started, Busy

\* A step of p keeps the invariant, if it keeps p's own part of it.
LEMMA StepHolds ==
  ASSUME IInv, NEW p \in Procs, Continues(p), Grow, WrittenBy(p),
         Typed', Modelled', Stage(p)', Shown(p)'
  PROVE  IInv'
<1>1. epochs' \in Nat
  BY BoundsAssumption DEF Typed, TypeOK
<1>2. Started' = Started
  BY OthersStay
<1>3. \A q \in Procs : Stage(q)'
  <2>1. /\ \A q \in Procs \ {p} : proc'[q] = proc[q]
        /\ \A r : Undone(r) => Undone(r)'
    BY OthersStay
  <2>2. \A q \in Started : p \notin proc[q].before
    BY DEF IInv, Over, Continues, Busy
  <2>. QED
    BY <1>1, <2>1, <2>2, StageStays
<1>4. \A n \in Started' : Shown(n)'
  <2>1. /\ \A q \in Procs \ {p} : proc'[q] = proc[q]
        /\ \A r : Undone(r) => Undone(r)'
    BY OthersStay
  <2>2. \A d \in Started : proc[d].end # None => proc'[d] = proc[d]
    BY <2>1 DEF Continues, Busy, Started
  <2>3. \A n \in Started : n # p => proc'[n] = proc[n]
    BY <2>1 DEF Started
  <2>. QED
    BY <1>2, <2>1, <2>2, <2>3, ShownStays
<1>5. Over'
  BY OverStays
<1>. QED
  BY <1>3, <1>4, <1>5 DEF IInv

\* When no table changes, nothing that others rely on does.
LEMMA TablesStay ==
  ASSUME IInv, UNCHANGED tables, NEW p
  PROVE  Grow /\ WrittenBy(p)
<1>1. /\ epochs \in Nat /\ Len(recommendations) \in Nat
      /\ \A r \in Rows(recommendations) : recommendations[r].observation = recommendations'[r].observation
  BY BoundsAssumption DEF IInv, Typed, TypeOK, tables
<1>2. Grow
  BY <1>1 DEF tables, Grow
<1>3. WrittenBy(p)
  BY <1>1 DEF tables, WrittenBy
<1>. QED
  BY <1>2, <1>3

\* The tables' part of the types.
TablesOK ==
  /\ observations \in Seq(ObservationRow) /\ recommendations \in Seq(RecommendationRow)
  /\ epochs \in 1..MaxEpoch /\ tagged \subseteq Objects
  /\ \A i \in Rows(observations) : observations[i].epoch \in 1..epochs
  /\ \A m \in models : m.type \in Models /\ m.observation \in Rows(observations)
                      /\ m.epoch \in 1..epochs
  /\ \A r \in Rows(recommendations) :
       /\ recommendations[r].object \in tagged /\ recommendations[r].epoch \in 1..epochs
       /\ {recommendations[r].prediction, recommendations[r].observation}
            \subseteq {0} \cup Rows(observations)
  /\ files \subseteq Rows(observations)

\* p is over if and only if it has nothing to do.
OverOrNot(p) ==
  /\ proc[p].end \in {None, "done", "raised", "stopped"}
  /\ proc[p].end = None <=> proc[p].todo # <<>>

\* The tables and the processes of a state that keeps the invariant are typed.
LEMMA TypedOf ==
  ASSUME IInv
  PROVE  TablesOK /\ \A p \in Started : OverOrNot(p) /\ proc[p].kind \in AllKinds
<1>1. Typed /\ TypeOK
  BY DEF IInv, Typed
<1>2. TablesOK
  <2>1. \A r \in Rows(recommendations) :
          /\ recommendations[r].object \in tagged /\ recommendations[r].epoch \in 1..epochs
          /\ {recommendations[r].prediction, recommendations[r].observation}
               \subseteq {0} \cup Rows(observations)
    BY <1>1 DEF TypeOK
  <2>2. \A i \in Rows(observations) : observations[i].epoch \in 1..epochs
    BY <1>1 DEF TypeOK
  <2>3. epochs \in 1..MaxEpoch /\ tagged \subseteq Objects /\ files \subseteq Rows(observations)
    BY <1>1 DEF TypeOK
  <2>4. \A m \in models : m.type \in Models /\ m.observation \in Rows(observations)
                      /\ m.epoch \in 1..epochs
    BY <1>1 DEF TypeOK
  <2>5. observations \in Seq(ObservationRow) /\ recommendations \in Seq(RecommendationRow)
    BY <1>1 DEF Typed
  <2>. QED
    BY <2>1, <2>2, <2>3, <2>4, <2>5 DEF TablesOK
<1>3. \A p \in Started : OverOrNot(p) /\ proc[p].kind \in AllKinds
  BY <1>1 DEF Typed, TypeOK, OverOrNot, Busy
<1>. QED
  BY <1>2, <1>3

\* They still are after a step of p, if the tables and p are.
LEMMA TypedHolds ==
  ASSUME IInv, NEW p \in Procs, Continues(p), TablesOK', OverOrNot(p)'
  PROVE  Typed'
<1>1. /\ Started' = Started /\ \A q \in Procs \ {p} : proc'[q] = proc[q]
      /\ proc'[p].kind = proc[p].kind
  BY OthersStay DEF Continues
<1>2. \A q \in Started' : OverOrNot(q)' /\ proc'[q].kind \in AllKinds
  BY <1>1, TypedOf DEF OverOrNot, Started
<1>3. \A i \in Rows(observations)' : observations'[i].object \in Objects
  <2>1. \A i \in Rows(observations)' : observations'[i] \in ObservationRow'
    BY DEF TablesOK, Rows
  <2>. QED
    BY <2>1 DEF ObservationRow
<1>4. \A r \in Rows(recommendations)' : recommendations'[r].facility \in Facilities
  <2>1. \A r \in Rows(recommendations)' : recommendations'[r] \in RecommendationRow'
    BY DEF TablesOK, Rows
  <2>. QED
    BY <2>1 DEF RecommendationRow
<1>5. TypeOK'
  BY <1>2, <1>3, <1>4 DEF TablesOK, TypeOK, OverOrNot, Busy
<1>. QED
  BY <1>2, <1>5 DEF Typed, TablesOK, Continues, OnlyOf

\* A step of p that changes no table.
LEMMA StepOnly ==
  ASSUME IInv, NEW p \in Procs, Continues(p), UNCHANGED tables, OverOrNot(p)', Stage(p)', Shown(p)'
  PROVE  IInv'
<1>1. Grow /\ WrittenBy(p)
  BY TablesStay
<1>2. TablesOK'
  BY TypedOf DEF TablesOK, tables
<1>3. Typed'
  BY <1>2, TypedHolds
<1>4. Modelled'
  BY DEF IInv, Modelled, tables
<1>. QED
  BY <1>1, <1>3, <1>4, StepHolds


\* A command that fails, or is interrupted, leaves the tables as they are
\* (Application.__exit__, the rollback of a session that is not committed).
LEMMA Ends ==
  ASSUME IInv, NEW p \in Procs, p \in Busy, UNCHANGED tables,
         NEW how \in {"raised", "stopped"}, End(p, how)
  PROVE  IInv'
<1>1. Typed /\ p \in Started /\ Stage(p) /\ proc[p].end = None
  BY DEF IInv, Busy
<1>2. /\ OnlyOf(p) /\ Keeps(p, {"todo", "new", "seen", "end", "epoch", "row", "left"})
      /\ proc'[p].todo = <<>> /\ proc'[p].new = <<>> /\ proc'[p].seen = None
      /\ proc'[p].end = how
  BY <1>1, EndGoes
<1>3. Continues(p) /\ proc'[p].kind = proc[p].kind /\ proc'[p].on = proc[p].on
  BY <1>2 DEF Continues, Keeps, Fields
<1>4. OverOrNot(p)' /\ proc'[p].end # None /\ proc'[p].end # "done"
  BY <1>2, NoneAssumption DEF OverOrNot
<1>5. Shown(p)'
  BY <1>4 DEF Shown, Done
<1>6. Stage(p)'
  <2>1. proc[p].kind = "forecast" => Forecasting(p)'
    BY <1>1, <1>2, <1>3, <1>4 DEF Stage, Forecasting, tables
  <2>2. proc[p].kind = "file" => Filing(p)'
    <3>1. observations' = observations /\ Of(p)' = Of(p)
      BY DEF tables, Of, Rows
    <3>2. proc[p].kind = "file" => Filing(p) /\ Of(p) = {}
      BY <1>1, NoneAssumption DEF Stage, Filing
    <3>. QED
      BY <1>3, <1>4, <3>1, <3>2 DEF Filing
  <2>3. proc[p].kind = "values" => Giving(p)'
    BY <1>1, <1>2, <1>3, <1>4 DEF Stage, Giving, tables
  <2>4. proc[p].kind = "observe" => Watching(p)'
    BY <1>1, <1>2, <1>3, <1>4 DEF Stage, Watching, tables
  <2>5. proc[p].kind = "next" => Asking(p)'
    BY <1>1, <1>2, <1>3, <1>4 DEF Stage, Asking, tables, Keeps, Fields
  <2>6. proc[p].kind = "decide" => Deciding(p)'
    BY <1>1, <1>2, <1>3, <1>4 DEF Stage, Deciding, tables
  <2>7. proc[p].kind # None
    BY <1>1 DEF Started
  <2>. QED
    BY <1>1, <1>2, <1>3, <1>4, <2>1, <2>2, <2>3, <2>4, <2>5, <2>6, <2>7 DEF Stage
<1>. QED
  BY <1>3, <1>4, <1>5, <1>6, StepOnly

\* The recommendations alone change: what is left to show.
LEMMA RecommendationsOK ==
  ASSUME TablesOK, UNCHANGED <<epochs, observations, models, tagged, files>>,
         recommendations' \in Seq(RecommendationRow),
         \A r \in DOMAIN recommendations' :
           /\ recommendations'[r].object \in tagged /\ recommendations'[r].epoch \in 1..epochs
           /\ {recommendations'[r].prediction, recommendations'[r].observation}
                \subseteq {0} \cup Rows(observations)
  PROVE  TablesOK'
<1>1. \A r \in Rows(recommendations)' :
        /\ recommendations'[r].object \in tagged' /\ recommendations'[r].epoch \in 1..epochs'
        /\ {recommendations'[r].prediction, recommendations'[r].observation}
             \subseteq {0} \cup Rows(observations)'
  BY DEF Rows
<1>. QED
  BY <1>1 DEF TablesOK

\* An update of the recommendations leaves every row where it was (nothing is
\* deleted; model.py update).
LEMMA RowsKept ==
  ASSUME IInv, UNCHANGED <<epochs, observations, models, tagged, files>>,
         Len(recommendations') = Len(recommendations),
         DOMAIN recommendations' = DOMAIN recommendations,
         \A r \in DOMAIN recommendations : \A column \in {"epoch", "object", "facility", "prediction", "by"} :
           recommendations'[r][column] = recommendations[r][column]
  PROVE  Grow
<1>1. epochs \in Nat /\ Len(recommendations) \in Nat
  BY TypedOf, BoundsAssumption DEF TablesOK
<1>2. \A r \in Rows(recommendations) : r \in Rows(recommendations)'
  BY DEF Rows
<1>3. \A r \in Rows(recommendations) : \A column \in {"epoch", "object", "facility", "prediction", "by"} :
           recommendations'[r][column] = recommendations[r][column]
  BY DEF Rows
<1>4. epochs <= epochs' /\ Len(recommendations) <= Len(recommendations)'
  BY <1>1
<1>. QED
  BY <1>2, <1>3, <1>4 DEF Grow
------------------------------------------------------------------------------
(***************************************************************************)
(* Where each process is.                                                  *)
(***************************************************************************)
\* What a process of each kind may be about to do; first ForecastPublishApp.run.
LEMMA Forecaster ==
  ASSUME IInv, NEW p \in Busy, proc[p].kind = "forecast"
  PROVE  LET next == Head(proc[p].todo) IN
         /\ next \in {"epoch", "prediction", "sources", "models"}
         /\ next = "epoch" => proc[p].todo \in {<<"epoch", "prediction", "sources", "models">>,
                                               <<"epoch", "models">>}
         /\ next = "prediction" => proc[p].todo = <<"prediction", "sources", "models">>
         /\ next = "sources" => proc[p].todo \in {<<"sources", "models">>, <<"sources", "epoch", "models">>}
         /\ next = "models" => proc[p].todo = <<"models">>
<1>1. ForecastAt(p)
  BY DEF IInv, Stage, Forecasting, Busy, Started
<1>2. proc[p].todo \in {<<"epoch", "prediction", "sources", "models">>, <<"prediction", "sources", "models">>,
                        <<"sources", "models">>, <<"sources", "epoch", "models">>, <<"epoch", "models">>,
                        <<"models">>}
  BY <1>1 DEF ForecastAt
<1>. QED
  BY <1>2

\* RecommendationPublishApp.run, from a file.
LEMMA Filer ==
  ASSUME IInv, NEW p \in Busy, proc[p].kind = "file"
  PROVE  LET next == Head(proc[p].todo) IN
         /\ next \in {"load_file", "epoch", "rows", "add_recommendations"}
         /\ next = "load_file" => /\ proc[p].todo = <<"load_file", "epoch", "rows", "add_recommendations">>
                                  /\ proc[p].new = <<>>
         /\ next = "epoch" => /\ proc[p].todo = <<"epoch", "rows", "add_recommendations">>
                              /\ proc[p].new = <<>>
         /\ next \in {"rows", "add_recommendations"} => Building(p)
<1>1. (proc[p].todo \in ToLoad /\ proc[p].new = <<>>) \/ Building(p)
  BY DEF IInv, Stage, Filing, Busy, Started
<1>. QED
  BY <1>1 DEF Building, ToLoad

\* RecommendationPublishApp.run, from the command line.
LEMMA Giver ==
  ASSUME IInv, NEW p \in Busy, proc[p].kind = "values"
  PROVE  LET next == Head(proc[p].todo) IN
         /\ next \in {"epoch", "object_id", "facility_id", "rows", "add_recommendations"}
         /\ next = "epoch" =>
              proc[p].todo = <<"epoch", "object_id", "facility_id", "rows", "add_recommendations">>
         /\ next = "object_id" => proc[p].todo = <<"object_id", "facility_id", "rows", "add_recommendations">>
         /\ next = "facility_id" => proc[p].todo = <<"facility_id", "rows", "add_recommendations">>
         /\ next \in {"rows", "add_recommendations"} => Building(p) /\ proc[p].seen \in Facilities
<1>1. GivingAt(p)
  BY DEF IInv, Stage, Giving, Busy, Started
<1>. QED
  BY <1>1 DEF GivingAt, Building

\* ObservationPublishApp.run.
LEMMA Watcher ==
  ASSUME IInv, NEW p \in Busy, proc[p].kind = "observe"
  PROVE  LET next == Head(proc[p].todo)
             r == proc[p].on.recommendation IN
         /\ next \in {"epoch", "get_recommendation", "inspect_file", "publish_observation", "link", "add_file"}
         /\ next = "epoch" => proc[p].todo \in Observing(r)
         /\ next = "get_recommendation" => r # 0 /\ proc[p].todo \in ToCheck /\ InEpoch(p)
         /\ next \in {"inspect_file", "publish_observation"} =>
              proc[p].todo \in ToPublish(r) /\ InEpoch(p) /\ Unlinked(p)
         /\ next = "link" => r # 0 /\ proc[p].todo \in {<<"link">>, <<"link", "add_file">>}
                             /\ Observed(p) /\ Unlinked(p)
         /\ next = "add_file" => proc[p].todo = <<"add_file">> /\ Observed(p)
<1>1. WatchingAt(p)
  BY DEF IInv, Stage, Watching, Busy, Started
<1>. QED
  BY <1>1 DEF WatchingAt, Observing, ToPublish, ToCheck

\* The requests: Recommendation.next, Recommendation.history, and the PUT.
LEMMA Observer ==
  ASSUME IInv, NEW p \in Busy
  PROVE  LET next == Head(proc[p].todo) IN
         /\ proc[p].kind = "next" =>
              /\ next \in {"epoch", "select"}
              /\ next = "epoch" => proc[p].todo = <<"epoch", "select">>
              /\ next = "select" => proc[p].todo = <<"select">> /\ proc[p].epoch \in proc[p].begun..epochs
         /\ proc[p].kind = "history" => next = "select_history"
         /\ proc[p].kind = "decide" =>
              /\ next \in {"load", "update"}
              /\ next = "load" => proc[p].todo = <<"load", "update">>
              /\ next = "update" => proc[p].todo = <<"update">>
<1>1. p \in Procs /\ proc[p].end = None /\ Stage(p)
  BY DEF IInv, Busy, Started
<1>2. CASE proc[p].kind = "next"
  BY <1>1, <1>2 DEF Stage, Asking
<1>3. CASE proc[p].kind = "history"
  BY <1>1, <1>3 DEF Stage
<1>4. CASE proc[p].kind = "decide"
  BY <1>1, <1>4 DEF Stage, Deciding
<1>. QED
  BY <1>2, <1>3, <1>4

\* A process at work is a command or a request, and is where its kind may be.
LEMMA KindOf ==
  ASSUME IInv, NEW p \in Busy
  PROVE  /\ p \in Procs /\ p \in Started /\ proc[p].end = None /\ Stage(p) /\ Typed
         /\ proc[p].kind \in AllKinds /\ proc[p].todo # <<>>
  BY TypedOf DEF IInv, Busy, Started, OverOrNot
------------------------------------------------------------------------------
(***************************************************************************)
(* Each step keeps the invariant.                                          *)
(***************************************************************************)
\* What p is about and what it began with are not among what it changes.
LEMMA Goes ==
  ASSUME IInv, NEW p \in Busy, OnlyOf(p), NEW fields, Keeps(p, fields),
         fields \cap {"kind", "on", "begun", "before"} = {}
  PROVE  /\ Continues(p) /\ proc'[p].kind = proc[p].kind /\ proc'[p].on = proc[p].on
         /\ proc'[p].begun = proc[p].begun /\ proc'[p].before = proc[p].before
         /\ "end" \notin fields => proc'[p].end = None /\ Shown(p)'
         /\ \A field \in Fields \ fields : proc'[p][field] = proc[p][field]
<1>1. \A field \in Fields \ fields : proc'[p][field] = proc[p][field]
  BY DEF Keeps
<1>2. {"kind", "on", "begun", "before"} \subseteq Fields \ fields
  BY DEF Fields
<1>3. "end" \notin fields => proc'[p].end = None /\ Shown(p)'
  <2>1. "end" \notin fields => proc'[p].end = None
    BY <1>1 DEF Busy, Fields
  <2>2. None # "done"
    BY NoneAssumption
  <2>. QED
    BY <2>1, <2>2 DEF Shown, Done
<1>. QED
  BY <1>1, <1>2, <1>3 DEF Continues

\* What Stage says of a process of a kind (the commands and the requests).
LEMMA StageOf ==
  ASSUME NEW p \in Procs
  PROVE  /\ (proc[p].kind = "forecast" /\ Forecasting(p) => Stage(p))'
         /\ (proc[p].kind = "file" /\ Filing(p) => Stage(p))'
         /\ (proc[p].kind = "values" /\ Giving(p) => Stage(p))'
         /\ (proc[p].kind = "observe" /\ Watching(p) => Stage(p))'
         /\ (proc[p].kind = "next" /\ Asking(p) => Stage(p))'
         /\ (proc[p].kind = "history" /\ proc[p].end # None => Stage(p))'
         /\ (proc[p].kind = "decide" /\ Deciding(p) => Stage(p))'
<1>1. None \notin {"forecast", "file", "values", "observe", "next", "history", "decide"}
  BY NoneAssumption DEF AllKinds
<1>. QED
  BY <1>1 DEF Stage

\* A step of p after which it is still at work, and no table is changed.
LEMMA StepTo ==
  ASSUME IInv, NEW p \in Busy, Continues(p), UNCHANGED tables, proc'[p].end = None,
         proc'[p].todo # <<>>, Stage(p)'
  PROVE  IInv'
<1>1. OverOrNot(p)' /\ p \in Procs
  BY KindOf DEF OverOrNot
<1>2. Shown(p)'
  BY NoneAssumption DEF Shown, Done
<1>. QED
  BY <1>1, <1>2, StepOnly

\* Epoch.latest, or the epoch that is given.
LEMMA LatestHolds ==
  ASSUME IInv, NEW p \in Procs, Latest(p)
  PROVE  IInv'
<1>1. p \in Busy /\ Head(proc[p].todo) = "epoch" /\ UNCHANGED tables
  BY DEF Latest, At
<1>2. PICK e \in {epochs} \cup (IF proc[p].kind = "next" THEN {} ELSE {1}) : Set(p, "epoch", e)
  BY DEF Latest
<1>3. epochs \in 1..MaxEpoch /\ epochs \in Nat /\ Stage(p) /\ p \in Started /\ proc[p].kind \in AllKinds /\ Typed
  BY <1>1, TypedOf, KindOf, BoundsAssumption DEF TablesOK
<1>4. /\ OnlyOf(p) /\ Keeps(p, {"todo", "epoch"})
      /\ proc'[p].todo = Tail(proc[p].todo) /\ proc'[p].epoch = e
  BY <1>2, <1>3, SetGoes
<1>5. /\ Continues(p) /\ proc'[p].kind = proc[p].kind /\ proc'[p].on = proc[p].on
      /\ proc'[p].begun = proc[p].begun /\ proc'[p].before = proc[p].before
      /\ proc'[p].end = None /\ Shown(p)'
  BY <1>1, <1>4, Goes
<1>6. /\ proc'[p].row = proc[p].row /\ proc'[p].left = proc[p].left /\ proc'[p].new = proc[p].new
      /\ proc'[p].seen = proc[p].seen
  BY <1>4 DEF Keeps, Fields
<1>7. InEpoch(p)' /\ e \in {1, epochs} /\ (proc[p].kind = "next" => e = epochs)
  BY <1>2, <1>3, <1>4, <1>1 DEF InEpoch, tables
<1>8. CASE proc[p].kind = "forecast"
  <2>1. proc[p].todo \in {<<"epoch", "prediction", "sources", "models">>, <<"epoch", "models">>}
    BY <1>1, <1>8, Forecaster
  <2>2. Forecasting(p) /\ ForecastAt(p)
    BY <1>1, <1>3, <1>8 DEF Stage, Forecasting, Busy
  <2>3. ForecastAt(p)' /\ proc'[p].todo # <<>>
    <3>1. CASE proc[p].todo = <<"epoch", "prediction", "sources", "models">>
      <4>1. proc'[p].todo = <<"prediction", "sources", "models">> /\ proc[p].on.given = 0
        BY <3>1, <1>4, <2>2 DEF ForecastAt
      <4>. QED
        BY <4>1, <1>5, <1>7 DEF ForecastAt
    <3>2. CASE proc[p].todo = <<"epoch", "models">>
      <4>1. /\ proc'[p].todo = <<"models">> /\ proc[p].left = proc[p].on.models
            /\ Predicted(p) /\ Conforming(p) /\ proc[p].on.models \subseteq Models
        BY <3>2, <1>4, <2>2 DEF ForecastAt, Forecasting
      <4>2. Predicted(p)' /\ Conforming(p)'
        BY <4>1, <1>1, <1>5, <1>6 DEF Predicted, Conforming, tables
      <4>3. Published(p, proc[p].on.models \ proc[p].left)'
        <5>1. proc[p].on.models \ proc[p].left = {}
          BY <4>1
        <5>2. (proc[p].on.models \ proc[p].left)' = {}
          BY <5>1, <1>5, <1>6
        <5>. QED
          BY <5>2 DEF Published
      <4>. QED
        BY <4>1, <4>2, <4>3, <1>5, <1>6, <1>7 DEF ForecastAt
    <3>. QED
      BY <2>1, <3>1, <3>2
  <2>4. Forecasting(p)'
    BY <1>1, <2>2, <2>3, <1>5, NoneAssumption DEF Forecasting, tables
  <2>. QED
    BY <1>1, <1>5, <1>8, <2>3, <2>4, StageOf, StepTo
<1>9. CASE proc[p].kind = "file"
  <2>1. proc[p].todo = <<"epoch", "rows", "add_recommendations">> /\ proc[p].new = <<>>
    BY <1>1, <1>9, Filer
  <2>2. proc'[p].todo = <<"rows", "add_recommendations">>
    BY <1>4, <2>1
  <2>3. Filing(p) /\ Of(p) = {} /\ Of(p)' = {}
    BY <1>1, <1>3, <1>9, NoneAssumption DEF Stage, Filing, Busy, tables, Of
  <2>4. Building(p)'
    <3>1. Len(Wanted(p))' = Len(proc[p].on.predictions)
      BY <1>5, <1>9, <2>3 DEF Wanted, Filing
    <3>2. Len(proc[p].on.predictions) > 0
      BY <2>3 DEF Filing
    <3>. QED
      BY <1>6, <1>7, <2>1, <2>2, <3>1, <3>2 DEF Building
  <2>5. Filing(p)'
    BY <1>1, <1>5, <2>3, <2>4, NoneAssumption DEF Filing, tables
  <2>. QED
    <3>1. proc'[p].todo # <<>>
      BY <2>2
    <3>2. Stage(p)'
      BY <1>5, <1>9, <2>5, StageOf
    <3>. QED
      BY <1>1, <1>5, <3>1, <3>2, StepTo
<1>10. CASE proc[p].kind = "values"
  <2>1. proc[p].todo = <<"epoch", "object_id", "facility_id", "rows", "add_recommendations">>
    BY <1>1, <1>10, Giver
  <2>2. proc'[p].todo = <<"object_id", "facility_id", "rows", "add_recommendations">>
    BY <1>4, <2>1
  <2>3. Giving(p) /\ GivingAt(p)
    BY <1>1, <1>3, <1>10 DEF Stage, Giving, Busy
  <2>4. proc[p].new = <<>>
    BY <2>1, <2>3 DEF GivingAt, Building
  <2>5. GivingAt(p)'
    BY <1>5, <1>6, <1>7, <2>2, <2>4 DEF GivingAt
  <2>6. Giving(p)'
    BY <1>1, <1>5, <2>3, <2>5 DEF Giving, tables
  <2>. QED
    <3>1. proc'[p].todo # <<>>
      BY <2>2
    <3>2. Stage(p)'
      BY <1>5, <1>10, <2>6, StageOf
    <3>. QED
      BY <1>1, <1>5, <3>1, <3>2, StepTo
<1>11. CASE proc[p].kind = "observe"
  <2>1. proc[p].todo \in Observing(proc[p].on.recommendation)
    BY <1>1, <1>11, Watcher
  <2>2. Watching(p)
    BY <1>3, <1>11 DEF Stage
  <2>3. WatchingAt(p)' /\ proc'[p].todo # <<>>
    <3>1. CASE proc[p].on.recommendation = 0
      <4>1. proc'[p].todo \in {<<"publish_observation">>, <<"inspect_file", "publish_observation", "add_file">>}
        <5>1. proc[p].todo = <<"epoch", "publish_observation">>
              \/ proc[p].todo = <<"epoch", "inspect_file", "publish_observation", "add_file">>
          BY <2>1, <3>1 DEF Observing
        <5>2. /\ Tail(<<"epoch", "publish_observation">>) = <<"publish_observation">>
              /\ Tail(<<"epoch", "inspect_file", "publish_observation", "add_file">>)
                   = <<"inspect_file", "publish_observation", "add_file">>
          OBVIOUS
        <5>. QED
          BY <1>4, <5>1, <5>2, Zenon
      <4>2. Unlinked(p)'
        BY <1>5, <3>1 DEF Unlinked
      <4>. QED
        <5>1. proc'[p].todo \in ToPublish(0) /\ proc'[p].todo # <<>>
          BY <4>1 DEF ToPublish
        <5>. QED
          BY <1>5, <1>7, <3>1, <4>2, <5>1 DEF WatchingAt
    <3>2. CASE proc[p].on.recommendation # 0
      <4>1. proc'[p].todo \in ToCheck /\ proc'[p].todo # <<>>
        <5>1. proc[p].todo = <<"epoch", "get_recommendation", "publish_observation", "link">>
              \/ proc[p].todo = <<"epoch", "get_recommendation", "inspect_file", "publish_observation",
                                "link", "add_file">>
          BY <2>1, <3>2 DEF Observing
        <5>2. /\ Tail(<<"epoch", "get_recommendation", "publish_observation", "link">>)
                   = <<"get_recommendation", "publish_observation", "link">>
              /\ Tail(<<"epoch", "get_recommendation", "inspect_file", "publish_observation",
                       "link", "add_file">>)
                   = <<"get_recommendation", "inspect_file", "publish_observation", "link", "add_file">>
          OBVIOUS
        <5>3. \/ proc'[p].todo = <<"get_recommendation", "publish_observation", "link">>
              \/ proc'[p].todo = <<"get_recommendation", "inspect_file", "publish_observation",
                                 "link", "add_file">>
          BY <1>4, <5>1, <5>2, Zenon
        <5>4. proc'[p].todo # <<>>
          BY <5>3
        <5>. QED
          BY <5>3, <5>4 DEF ToCheck
      <4>. QED
        BY <1>5, <1>7, <3>2, <4>1 DEF WatchingAt
    <3>. QED
      BY <3>1, <3>2
  <2>4. Watching(p)'
    BY <1>1, <1>5, <2>2, <2>3 DEF Watching, tables
  <2>. QED
    BY <1>1, <1>5, <1>11, <2>3, <2>4, StageOf, StepTo
<1>12. CASE proc[p].kind = "next"
  <2>1. proc[p].todo = <<"epoch", "select">>
    BY <1>1, <1>12, Observer
  <2>2. proc'[p].todo = <<"select">>
    BY <1>4, <2>1
  <2>3. Asking(p)
    BY <1>3, <1>12 DEF Stage
  <2>4. e \in proc[p].begun..epochs
    BY <1>3, <1>7, <1>12, <2>3 DEF Asking
  <2>5. Asking(p)'
    BY <1>1, <1>4, <1>5, <2>2, <2>3, <2>4, NoneAssumption DEF Asking, tables
  <2>. QED
    <3>1. proc'[p].todo # <<>>
      BY <2>2
    <3>2. Stage(p)'
      BY <1>5, <1>12, <2>5, StageOf
    <3>. QED
      BY <1>1, <1>5, <3>1, <3>2, StepTo
<1>. QED
  <2>1. proc[p].kind \notin {"history", "decide"}
    BY <1>1, Observer
  <2>. QED
    BY <1>3, <1>8, <1>9, <1>10, <1>11, <1>12, <2>1 DEF AllKinds

\* An epoch more disturbs nothing (apps/refitt/epoch.py).
LEMMA NewEpochHolds ==
  ASSUME IInv, NewEpoch
  PROVE  IInv'
<1>1. /\ epochs \in 1..MaxEpoch /\ epochs' = epochs + 1 /\ epochs' \in 1..MaxEpoch
      /\ UNCHANGED <<observations, models, tagged, recommendations, files, proc>>
  BY BoundsAssumption, TypedOf DEF NewEpoch, TablesOK
<1>2. Grow /\ WrittenBy(None) /\ epochs' \in Nat
  <2>1. epochs \in Nat /\ Len(recommendations) \in Nat
    BY <1>1, BoundsAssumption DEF IInv, Typed
  <2>. QED
    BY <1>1, <2>1 DEF Grow, WrittenBy
<1>3. /\ Started' = Started /\ \A r : Undone(r) => Undone(r)'
  BY <1>1 DEF Started, Undone
<1>4. \A q \in Procs : Stage(q)'
  <2>1. None \notin Procs
    BY NoneAssumption
  <2>2. \A q \in Started : None \notin proc[q].before
    BY <2>1 DEF IInv, Over, Started
  <2>. QED
    BY <1>1, <1>2, <1>3, <2>1, <2>2, StageStays
<1>5. \A n \in Started' : Shown(n)'
  BY <1>1, <1>2, <1>3, ShownStays
<1>6. Typed'
  <2>1. TablesOK'
    <3>1. TablesOK /\ 1..epochs \subseteq 1..epochs'
      BY <1>1, TypedOf
    <3>. QED
      BY <1>1, <3>1 DEF TablesOK
  <2>2. TypeOK'
    BY <1>1, <2>1 DEF TypeOK, TablesOK, IInv, Typed, Started, Busy
  <2>. QED
    BY <1>1, <2>2 DEF IInv, Typed, Started
<1>7. Over' /\ Modelled'
  BY <1>1 DEF IInv, Over, Modelled, Started
<1>. QED
  BY <1>4, <1>5, <1>6, <1>7 DEF IInv

\* A command or a request begins.
LEMMA BeginGoes ==
  ASSUME Typed, NEW p \in Procs, NEW kind, NEW on, NEW steps, Begin(p, kind, on, steps)
  PROVE  /\ OnlyOf(p) /\ kind \in AllKinds /\ proc'[p].kind = kind /\ proc'[p].on = on
         /\ proc'[p].todo = steps /\ proc'[p].end = None /\ proc'[p].new = <<>>
         /\ proc'[p].begun = (IF kind = "next" THEN epochs ELSE 0)
         /\ proc'[p].before = {q \in Started : proc[q].end # None}
<1> DEFINE new == [Unstarted EXCEPT
       !.kind = kind, !.on = on, !.todo = steps, !.begun = IF kind = "next" THEN epochs ELSE 0,
       !.before = {q \in Started : proc[q].end # None}]
<1>1. DOMAIN proc = Procs /\ proc' = [proc EXCEPT ![p] = new] /\ kind \in AllKinds
  BY Shape, KindsAssumption DEF Begin
<1>2. /\ DOMAIN new = Fields /\ new = [field \in Fields |-> new[field]]
      /\ new.kind = kind /\ new.on = on /\ new.todo = steps /\ new.end = None /\ new.new = <<>>
      /\ new.begun = (IF kind = "next" THEN epochs ELSE 0)
      /\ new.before = {q \in Started : proc[q].end # None}
  BY DEF Unstarted, Fields
<1> HIDE DEF new
<1>3. OnlyOf(p) /\ proc'[p] = new
  <2>1. \A field \in Fields \ Fields : new[field] = proc[p][field]
    OBVIOUS
  <2>. QED
    BY <1>1, <1>2, <2>1, Becomes
<1>. QED
  BY <1>1, <1>2, <1>3

\* A process that begins keeps the invariant, where it is what its kind begins with.
LEMMA BeginHolds ==
  ASSUME IInv, NEW p \in Procs, proc[p].kind = None, NEW kind, NEW on, NEW steps,
         Begin(p, kind, on, steps), UNCHANGED tables, steps # <<>>, Stage(p)'
  PROVE  IInv'
<1>1. /\ OnlyOf(p) /\ kind \in AllKinds /\ proc'[p].kind = kind /\ proc'[p].on = on
      /\ proc'[p].todo = steps /\ proc'[p].end = None
      /\ proc'[p].before = {q \in Started : proc[q].end # None}
  BY BeginGoes DEF IInv
<1>2. /\ Grow /\ WrittenBy(p) /\ epochs' \in Nat
  <2>1. epochs' \in Nat
    BY TypedOf, BoundsAssumption DEF tables, TablesOK
  <2>. QED
    BY <2>1, TablesStay
<1>3. /\ \A q \in Procs \ {p} : proc'[q] = proc[q]
      /\ p \notin Started /\ Started' = Started \cup {p}
  BY <1>1, NoneAssumption DEF OnlyOf, Started
<1>4. \A r : Undone(r) => Undone(r)'
  BY <1>3 DEF Undone, Started
<1>5. \A q \in Procs : Stage(q)'
  <2>1. \A q \in Started : p \notin proc[q].before
    BY <1>3 DEF IInv, Over
  <2>. QED
    BY <1>2, <1>3, <1>4, <2>1, StageStays
<1>6. \A n \in Started' : Shown(n)'
  <2>1. \A n \in Started : proc'[n] = proc[n]
    BY <1>3 DEF Started
  <2>2. \A n \in Started : Shown(n)'
    BY <1>2, <1>4, <2>1, ShownStays
  <2>3. Shown(p)'
    BY <1>1, NoneAssumption DEF Shown, Done
  <2>. QED
    BY <1>3, <2>2, <2>3
<1>7. Over'
  BY <1>1, <1>3 DEF IInv, Over, Started
<1>8. Modelled' /\ TablesOK'
  BY TypedOf DEF IInv, Modelled, tables, TablesOK
<1>9. Typed'
  <2>1. \A q \in Started' : OverOrNot(q)' /\ proc'[q].kind \in AllKinds
    BY <1>1, <1>3, TypedOf DEF OverOrNot, Started
  <2>2. TypeOK'
    BY <1>8, <2>1 DEF TypeOK, TablesOK, OverOrNot, Busy, tables, IInv, Typed
  <2>. QED
    BY <1>1, <1>8, <2>1, <2>2 DEF Typed, TablesOK, OnlyOf
<1>. QED
  BY <1>5, <1>6, <1>7, <1>8, <1>9 DEF IInv

\* The commands and the requests that begin (the run methods, the routes).
LEMMA StartHolds ==
  ASSUME IInv, NEW p \in Procs, Start(p)
  PROVE  IInv'
<1>1. proc[p].kind = None /\ UNCHANGED tables /\ Of(p) = {} /\ Typed
  BY DEF Start, IInv, Stage
<1>2. /\ epochs \in Nat /\ epochs >= 1 /\ observations \in Seq(ObservationRow)
      /\ Len(observations) \in Nat /\ Rows(observations) = 1..Len(observations)
  BY TypedOf, BoundsAssumption DEF TablesOK, Rows
<1>3. /\ observations' = observations /\ recommendations' = recommendations /\ epochs' = epochs
      /\ Of(p)' = {}
  BY <1>1 DEF tables, Of
<1>4. ASSUME NEW o \in Objects, NEW some \in SUBSET Models, NEW given \in 0..Len(observations),
             NEW fits, given > 0 /\ fits => observations[given].object = o,
             Begin(p, "forecast", [object |-> o, models |-> some, given |-> given, fits |-> fits],
               IF given = 0 THEN <<"epoch", "prediction", "sources", "models">>
               ELSE <<"sources", "epoch", "models">>)
      PROVE  IInv'
  <2> DEFINE on == [object |-> o, models |-> some, given |-> given, fits |-> fits]
             steps == IF given = 0 THEN <<"epoch", "prediction", "sources", "models">>
                      ELSE <<"sources", "epoch", "models">>
  <2>1. on.object = o /\ on.models = some /\ on.given = given /\ on.fits = fits
    OBVIOUS
  <2>2. /\ steps # <<>>
        /\ given = 0 => steps = <<"epoch", "prediction", "sources", "models">>
        /\ given # 0 => steps = <<"sources", "epoch", "models">>
    OBVIOUS
  <2>3. Begin(p, "forecast", on, steps)
    BY <1>4
  <2> HIDE DEF on, steps
  <2>4. /\ proc'[p].kind = "forecast" /\ proc'[p].on = on /\ proc'[p].todo = steps
        /\ proc'[p].end = None
    BY <1>1, <2>3, BeginGoes
  <2>5. ForecastAt(p)'
    BY <2>1, <2>2, <2>4 DEF ForecastAt
  <2>6. Forecasting(p)'
    BY <1>2, <1>3, <1>4, <2>1, <2>4, <2>5, NoneAssumption DEF Forecasting
  <2>. QED
    BY <1>1, <2>2, <2>3, <2>4, <2>6, StageOf, BeginHolds
<1>5. ASSUME NEW n \in 1..MaxRows, NEW f \in Facilities, NEW rows \in [1..n -> Rows(observations)],
             Begin(p, "file", [predictions |-> rows, facility |-> f],
                   <<"load_file", "epoch", "rows", "add_recommendations">>)
      PROVE  IInv'
  <2> DEFINE on == [predictions |-> rows, facility |-> f]
             steps == <<"load_file", "epoch", "rows", "add_recommendations">>
  <2>1. on.predictions = rows /\ on.facility = f /\ steps # <<>> /\ steps \in ToLoad
    BY DEF ToLoad
  <2>2. rows \in Seq(Rows(observations)) /\ rows # <<>>
    <3>1. n \in Nat /\ n >= 1
      BY BoundsAssumption
    <3>. QED
      BY <3>1
  <2> HIDE DEF on, steps
  <2>3. /\ proc'[p].kind = "file" /\ proc'[p].on = on /\ proc'[p].todo = steps
        /\ proc'[p].end = None /\ proc'[p].new = <<>>
    BY <1>1, <1>5, BeginGoes DEF on, steps
  <2>4. Filing(p)'
    BY <1>3, <2>1, <2>2, <2>3, NoneAssumption DEF Filing
  <2>. QED
    BY <1>1, <1>5, <2>1, <2>3, <2>4, StageOf, BeginHolds DEF on, steps
<1>6. ASSUME NEW given, given.prediction \in {0} \cup Rows(observations),
             NEW f, Begin(p, "values", [given |-> given, facility |-> f],
                <<"epoch", "object_id", "facility_id", "rows", "add_recommendations">>)
      PROVE  IInv'
  <2> DEFINE on == [given |-> given, facility |-> f]
             steps == <<"epoch", "object_id", "facility_id", "rows", "add_recommendations">>
  <2>1. on.given = given /\ steps # <<>>
    OBVIOUS
  <2> HIDE DEF on
  <2>3. /\ proc'[p].kind = "values" /\ proc'[p].on = on /\ proc'[p].todo = steps
        /\ proc'[p].end = None /\ proc'[p].new = <<>>
    BY <1>1, <1>6, BeginGoes DEF on
  <2>4. Giving(p)'
    BY <1>3, <1>6, <2>1, <2>3, NoneAssumption DEF Giving, GivingAt
  <2>. QED
    BY <1>1, <1>6, <2>1, <2>3, <2>4, StageOf, BeginHolds DEF on
<1>7. ASSUME NEW r \in {0} \cup Rows(recommendations), NEW o \in Objects, NEW force,
             NEW steps \in Observing(r),
             Begin(p, "observe", [recommendation |-> r, object |-> o, force |-> force], steps)
      PROVE  IInv'
  <2> DEFINE on == [recommendation |-> r, object |-> o, force |-> force]
  <2>1. on.recommendation = r /\ on.object = o
    OBVIOUS
  <2>2. steps # <<>>
    BY DEF Observing
  <2> HIDE DEF on
  <2>3. /\ proc'[p].kind = "observe" /\ proc'[p].on = on /\ proc'[p].todo = steps
        /\ proc'[p].end = None
    BY <1>1, <1>7, BeginGoes DEF on
  <2>4. Watching(p)'
    BY <1>3, <2>1, <2>3, NoneAssumption DEF Watching, WatchingAt
  <2>. QED
    BY <1>1, <1>7, <2>2, <2>3, <2>4, StageOf, BeginHolds DEF on
<1>8. ASSUME NEW on, Begin(p, "next", on, <<"epoch", "select">>)
      PROVE  IInv'
  <2> DEFINE steps == <<"epoch", "select">>
  <2>1. steps # <<>>
    OBVIOUS
  <2>2. /\ proc'[p].kind = "next" /\ proc'[p].todo = steps
        /\ proc'[p].end = None /\ proc'[p].begun = epochs
    BY <1>1, <1>8, BeginGoes
  <2>3. Asking(p)'
    BY <1>2, <1>3, <2>2, NoneAssumption DEF Asking
  <2>. QED
    BY <1>1, <1>8, <2>1, <2>2, <2>3, StageOf, BeginHolds
<1>9. ASSUME NEW on, Begin(p, "history", on, <<"select_history">>)
      PROVE  IInv'
  <2> DEFINE steps == <<"select_history">>
  <2>1. steps # <<>>
    OBVIOUS
  <2>2. /\ proc'[p].kind = "history" /\ proc'[p].todo = steps /\ proc'[p].end = None
    BY <1>1, <1>9, BeginGoes
  <2>3. Stage(p)'
    BY <1>3, <2>2 DEF Stage
  <2>. QED
    BY <1>1, <1>9, <2>1, <2>2, <2>3, BeginHolds
<1>10. ASSUME NEW r \in Rows(recommendations), NEW column \in {"accepted", "rejected"}, NEW value \in BOOLEAN,
              Begin(p, "decide", [recommendation |-> r, column |-> column, value |-> value],
                <<"load", "update">>)
      PROVE  IInv'
  <2> DEFINE on == [recommendation |-> r, column |-> column, value |-> value]
             steps == <<"load", "update">>
  <2>1. /\ on.recommendation = r /\ on.column = column /\ on.value = value
        /\ steps # <<>> /\ steps # <<"update">> /\ steps \in {<<"load", "update">>, <<"update">>}
    OBVIOUS
  <2> HIDE DEF on, steps
  <2>2. /\ proc'[p].kind = "decide" /\ proc'[p].on = on /\ proc'[p].todo = steps
        /\ proc'[p].end = None
    BY <1>1, <1>10, BeginGoes DEF on, steps
  <2>3. Deciding(p)'
    BY <1>3, <2>1, <2>2, NoneAssumption DEF Deciding, Columns
  <2>. QED
    BY <1>1, <1>10, <2>1, <2>2, <2>3, StageOf, BeginHolds DEF on, steps
<1>. QED
  BY <1>4, <1>5, <1>6, <1>7, <1>8, <1>9, <1>10 DEF Start

\* A file that the schema refuses: what is loaded from it says why
\* (schema/typing.py, an IndexError when there is no first member).
LEMMA RefuseHolds ==
  ASSUME IInv, NEW p \in Busy, proc[p].kind = "forecast", UNCHANGED tables,
         NEW load \in Loads, load.outcome # "ok", Refuse(p, load)
  PROVE  IInv'
<1>1. p \in Procs /\ Stage(p) /\ Typed
  BY KindOf
<1>2. DOMAIN proc = Procs /\ DOMAIN proc[p] = Fields
  BY <1>1, Shape
<1> DEFINE new == [proc[p] EXCEPT !.todo = <<>>, !.seen = load, !.end = "raised"]
<1>3. proc' = [proc EXCEPT ![p] = new]
  BY DEF Refuse
<1>4. /\ new = [field \in Fields |-> new[field]]
      /\ new.todo = <<>> /\ new.seen = load /\ new.end = "raised"
      /\ \A field \in Fields \ {"todo", "seen", "end"} : new[field] = proc[p][field]
  BY <1>1, <1>2 DEF Fields
<1> HIDE DEF new
<1>5. OnlyOf(p) /\ Keeps(p, {"todo", "seen", "end"}) /\ proc'[p] = new
  <2> DEFINE fields == {"todo", "seen", "end"}
  <2>1. \A field \in Fields \ fields : new[field] = proc[p][field]
    BY <1>4
  <2> HIDE DEF fields
  <2>2. Typed /\ new = [field \in Fields |-> new[field]]
    BY <1>1, <1>4
  <2>3. OnlyOf(p) /\ Keeps(p, fields) /\ proc'[p] = new
    BY <1>1, <1>3, <2>1, <2>2, Becomes
  <2>. QED
    BY <2>3 DEF fields
<1>7. Continues(p) /\ proc'[p].kind = proc[p].kind /\ proc'[p].on = proc[p].on
  BY <1>5, Goes
<1>8. proc'[p].todo = <<>> /\ proc'[p].seen = load /\ proc'[p].end = "raised"
  BY <1>4, <1>5
<1>9. Forecasting(p)'
  <2>1. LoadsChecked => (load.conforms <=> load.outcome = "IndexError")
    BY DEF LoadsChecked
  <2>2. Forecasting(p)
    BY <1>1 DEF Stage
  <2>3. (LoadsChecked /\ proc[p].end = "raised" /\ proc[p].seen # None =>
           (proc[p].seen.conforms <=> proc[p].seen.outcome = "IndexError"))'
    BY <1>8, <2>1 DEF LoadsChecked
  <2>. QED
    BY <1>7, <1>8, <2>2, <2>3, NoneAssumption DEF Forecasting, tables
<1>10. OverOrNot(p)' /\ Shown(p)'
  BY <1>8, NoneAssumption DEF OverOrNot, Shown, Done
<1>. QED
  BY <1>1, <1>7, <1>9, <1>10, StageOf, StepOnly

\* Observation.add: the row is after all others (observation/publish.py,
\* forecast/model.py).
LEMMA ObservationAdded ==
  ASSUME IInv, NEW p \in Procs, NEW o \in Objects, NEW e \in 1..epochs,
         observations' = Add(observations, Observation(o, e, p)),
         UNCHANGED <<epochs, models, tagged, recommendations, files>>
  PROVE  /\ Grow /\ WrittenBy(p) /\ TablesOK' /\ Modelled'
         /\ Len(observations') \in Rows(observations')
         /\ observations'[Len(observations')].object = o
         /\ observations'[Len(observations')].by = p
<1>1. TablesOK /\ Modelled
  BY TypedOf DEF IInv
<1>2. /\ epochs \in Nat /\ epochs \in 1..MaxEpoch /\ e \in 1..MaxEpoch
      /\ observations \in Seq(ObservationRow) /\ Len(recommendations) \in Nat
  BY <1>1, BoundsAssumption DEF TablesOK
<1> DEFINE new == Observation(o, e, p)
<1>3. new \in ObservationRow /\ new.object = o /\ new.by = p /\ new.epoch = e
  BY <1>2 DEF Observation, ObservationRow
<1> HIDE DEF new
<1>4. /\ observations' \in Seq(ObservationRow) /\ Len(observations') = Len(observations) + 1
      /\ observations'[Len(observations) + 1] = new
      /\ \A i \in 1..Len(observations) : observations'[i] = observations[i]
  BY <1>2, <1>3 DEF Add, new
<1>5. /\ Rows(observations) = 1..Len(observations) /\ Rows(observations') = 1..(Len(observations) + 1)
      /\ Len(observations) \in Nat
  BY <1>2, <1>4 DEF Rows
<1>6. Grow /\ WrittenBy(p)
  BY <1>2, <1>4, <1>5 DEF Grow, WrittenBy
<1>7. TablesOK'
  <2>1. \A i \in Rows(observations') : observations'[i].epoch \in 1..epochs
    BY <1>1, <1>3, <1>4, <1>5 DEF TablesOK
  <2>2. \A r \in Rows(recommendations) :
          {recommendations[r].prediction, recommendations[r].observation}
            \subseteq {0} \cup Rows(observations')
    BY <1>1, <1>5 DEF TablesOK
  <2>3. \A m \in models : m.observation \in Rows(observations')
    BY <1>1, <1>5 DEF TablesOK
  <2>. QED
    BY <1>1, <1>4, <1>5, <2>1, <2>2, <2>3 DEF TablesOK
<1>8. Modelled'
  BY <1>1, <1>4, <1>5 DEF Modelled, TablesOK, LoadsChecked
<1>. QED
  BY <1>3, <1>4, <1>5, <1>6, <1>7, <1>8

\* forecast/publish.py: the observation is there as soon as one file is loaded.
LEMMA PublishPredictionHolds ==
  ASSUME IInv, NEW p \in Procs, PublishPrediction(p)
  PROVE  IInv'
<1>1. /\ p \in Busy /\ Head(proc[p].todo) = "prediction"
      /\ UNCHANGED <<epochs, models, tagged, recommendations, files>>
  BY DEF PublishPrediction, At
<1>2. /\ proc[p].kind = "forecast" /\ proc[p].todo = <<"prediction", "sources", "models">>
      /\ Stage(p) /\ Typed
  BY <1>1, KindOf, Forecaster, Filer, Giver, Watcher, Observer DEF AllKinds
<1>3. Forecasting(p) /\ ForecastAt(p)
  BY <1>1, <1>2 DEF Stage, Forecasting, Busy
<1>4. PICK load \in Loads :
        IF load.outcome # "ok" THEN Refuse(p, load) /\ UNCHANGED observations
        ELSE /\ observations' = Add(observations, Observation(proc[p].on.object, proc[p].epoch, p))
             /\ proc' = [proc EXCEPT ![p].todo = Tail(@), ![p].row = Len(observations'),
                                     ![p].seen = load]
  BY DEF PublishPrediction
<1>5. CASE load.outcome # "ok"
  BY <1>1, <1>2, <1>4, <1>5, RefuseHolds DEF tables
<1>6. CASE load.outcome = "ok"
  <2>1. DOMAIN proc = Procs /\ DOMAIN proc[p] = Fields
    BY <1>2, Shape
  <2> DEFINE new == [proc[p] EXCEPT !.todo = Tail(@), !.row = Len(observations'), !.seen = load]
  <2>2. proc' = [proc EXCEPT ![p] = new]
    BY <1>4, <1>6
  <2>3. /\ new = [field \in Fields |-> new[field]]
        /\ new.todo = Tail(proc[p].todo) /\ new.row = Len(observations') /\ new.seen = load
        /\ \A field \in Fields \ {"todo", "row", "seen"} : new[field] = proc[p][field]
    BY <2>1 DEF Fields
  <2> HIDE DEF new
  <2>4. OnlyOf(p) /\ Keeps(p, {"todo", "row", "seen"}) /\ proc'[p] = new
    BY <1>2, <2>2, <2>3, Becomes
  <2>5. /\ Continues(p) /\ proc'[p].kind = proc[p].kind /\ proc'[p].on = proc[p].on
        /\ proc'[p].end = None /\ Shown(p)' /\ proc'[p].epoch = proc[p].epoch
    BY <1>1, <2>4, Goes DEF Fields
  <2>6. proc'[p].todo = <<"sources", "models">> /\ <<"sources", "models">> # <<>>
    BY <1>2, <2>3, <2>4
  <2>7. /\ proc[p].on.given = 0 /\ InEpoch(p) /\ proc[p].on.object \in Objects
        /\ proc[p].on.models \subseteq Models
    BY <1>2, <1>3 DEF ForecastAt, Forecasting
  <2>8. /\ Grow /\ WrittenBy(p) /\ TablesOK' /\ Modelled'
        /\ Len(observations') \in Rows(observations')
        /\ observations'[Len(observations')].object = proc[p].on.object
    BY <1>1, <1>4, <1>6, <2>7, ObservationAdded DEF InEpoch
  <2>9. LoadsChecked => load.conforms
    BY <1>6 DEF LoadsChecked
  <2>10. ForecastAt(p)'
    <3>1. InEpoch(p)' /\ Predicted(p)' /\ Conforming(p)'
      BY <1>1, <2>3, <2>4, <2>5, <2>7, <2>8, <2>9 DEF InEpoch, Predicted, Conforming, LoadsChecked
    <3>. QED
      BY <2>5, <2>6, <2>7, <3>1 DEF ForecastAt
  <2>11. Forecasting(p)'
    BY <2>5, <2>7, <2>10, NoneAssumption DEF Forecasting
  <2>12. Typed'
    BY <2>5, <2>6, <2>8, TypedHolds DEF OverOrNot
  <2>. QED
    BY <1>2, <2>5, <2>8, <2>11, <2>12, StageOf, StepHolds
<1>. QED
  BY <1>5, <1>6

\* The other files are loaded, of the same object.
LEMMA LoadedHolds ==
  ASSUME IInv, NEW p \in Busy, proc[p].kind = "forecast", UNCHANGED tables,
         proc[p].todo \in {<<"sources", "models">>, <<"sources", "epoch", "models">>},
         NEW conform, LoadsChecked => conform, Loaded(p, conform),
         proc[p].on.given > 0 => proc[p].on.fits
  PROVE  IInv'
<1>1. p \in Procs /\ Stage(p) /\ Typed /\ Forecasting(p) /\ ForecastAt(p)
  BY KindOf DEF Stage, Forecasting
<1>2. DOMAIN proc = Procs /\ DOMAIN proc[p] = Fields
  BY <1>1, Shape
<1> DEFINE given == proc[p].on.given
           row == IF given = 0 THEN proc[p].row ELSE given
           load == [outcome |-> "ok", conforms |-> conform]
           new == [proc[p] EXCEPT !.todo = Tail(@), !.left = proc[p].on.models, !.row = row,
                                  !.seen = load]
<1>3. proc' = [proc EXCEPT ![p] = new]
  BY DEF Loaded
<1>4. /\ new = [field \in Fields |-> new[field]]
      /\ new.todo = Tail(proc[p].todo) /\ new.left = proc[p].on.models /\ new.row = row
      /\ new.seen = load
      /\ \A field \in Fields \ {"todo", "left", "row", "seen"} : new[field] = proc[p][field]
  BY <1>2 DEF Fields
<1>5. load.conforms = conform
  OBVIOUS
<1> HIDE DEF new, load
<1>6. OnlyOf(p) /\ Keeps(p, {"todo", "left", "row", "seen"}) /\ proc'[p] = new
  BY <1>1, <1>3, <1>4, Becomes
<1>7. /\ Continues(p) /\ proc'[p].kind = proc[p].kind /\ proc'[p].on = proc[p].on
      /\ proc'[p].end = None /\ Shown(p)' /\ proc'[p].epoch = proc[p].epoch
  BY <1>6, Goes DEF Fields
<1>8. Conforming(p)' /\ (LoadsChecked => LoadsChecked')
  BY <1>4, <1>5, <1>6 DEF Conforming, LoadsChecked
<1>9. ForecastAt(p)' /\ proc'[p].todo # <<>>
  <2>1. CASE proc[p].todo = <<"sources", "models">>
    <3>1. given = 0 /\ InEpoch(p) /\ Predicted(p)
      BY <1>1, <2>1 DEF ForecastAt
    <3>2. InEpoch(p)' /\ Predicted(p)'
      BY <1>4, <1>6, <1>7, <3>1 DEF InEpoch, Predicted, tables
    <3>3. proc'[p].todo = <<"models">> /\ proc'[p].left = proc'[p].on.models
      BY <1>4, <1>6, <1>7, <2>1
    <3>4. Published(p, proc[p].on.models \ proc[p].left)'
      BY <3>3 DEF Published
    <3>5. proc'[p].left \subseteq Models
      BY <1>1, <1>7, <3>3 DEF Forecasting
    <3>. QED
      BY <1>8, <3>2, <3>3, <3>4, <3>5 DEF ForecastAt
  <2>2. CASE proc[p].todo = <<"sources", "epoch", "models">>
    <3>1. given > 0 /\ given # 0
      BY <1>1, <2>2 DEF ForecastAt
    <3>2. given \in Rows(observations) /\ observations[given].object = proc[p].on.object
      BY <1>1, <3>1 DEF Forecasting
    <3>3. Predicted(p)'
      BY <1>4, <1>6, <1>7, <3>1, <3>2 DEF Predicted, tables
    <3>4. proc'[p].todo = <<"epoch", "models">> /\ proc'[p].left = proc'[p].on.models
      BY <1>4, <1>6, <1>7, <2>2
    <3>. QED
      BY <1>8, <3>3, <3>4 DEF ForecastAt
  <2>. QED
    BY <2>1, <2>2
<1>10. Forecasting(p)'
  BY <1>1, <1>7, <1>9, NoneAssumption DEF Forecasting, tables
<1>. QED
  BY <1>7, <1>9, <1>10, StageOf, StepTo, <1>1

\* ForecastPublishApp.models: all files are loaded, or the command is refused.
LEMMA LoadSourcesHolds ==
  ASSUME IInv, NEW p \in Procs, LoadSources(p)
  PROVE  IInv'
<1>1. p \in Busy /\ Head(proc[p].todo) = "sources" /\ UNCHANGED tables
  BY DEF LoadSources, At
<1>2. /\ proc[p].kind = "forecast" /\ Stage(p) /\ Typed
      /\ proc[p].todo \in {<<"sources", "models">>, <<"sources", "epoch", "models">>}
  BY <1>1, KindOf, Forecaster, Filer, Giver, Watcher, Observer DEF AllKinds
<1>3. Forecasting(p) /\ ForecastAt(p)
  BY <1>1, <1>2 DEF Stage, Forecasting, Busy
<1>4. proc[p].on.given = 0 => Conforming(p)
  BY <1>2, <1>3 DEF ForecastAt
<1>5. CASE Alone(p)
  <2>1. Loaded(p, proc[p].seen.conforms) /\ proc[p].on.given = 0
    BY <1>5 DEF LoadSources, Alone
  <2>. QED
    BY <1>1, <1>2, <1>4, <2>1, LoadedHolds DEF Conforming
<1>6. CASE ~Alone(p)
  <2>1. PICK load \in Loads :
          IF load.outcome # "ok" THEN Refuse(p, load)
          ELSE IF ~proc[p].on.fits THEN End(p, "raised")
          ELSE Loaded(p, load.conforms /\ (proc[p].on.given = 0 => proc[p].seen.conforms))
    BY <1>6 DEF LoadSources
  <2>2. CASE load.outcome # "ok"
    BY <1>1, <1>2, <2>1, <2>2, RefuseHolds
  <2>3. CASE load.outcome = "ok" /\ ~proc[p].on.fits
    BY <1>1, <2>1, <2>3, Ends
  <2>4. CASE load.outcome = "ok" /\ proc[p].on.fits
    <3>1. LoadsChecked => load.conforms /\ (proc[p].on.given = 0 => proc[p].seen.conforms)
      BY <1>4, <2>4 DEF LoadsChecked, Conforming
    <3>. QED
      BY <1>1, <1>2, <2>1, <2>4, <3>1, LoadedHolds
  <2>. QED
    BY <2>2, <2>3, <2>4
<1>. QED
  BY <1>5, <1>6

\* ModelData.publish: one commit for each model, under the row of the
\* observation (forecast/model.py).
LEMMA PublishModelHolds ==
  ASSUME IInv, NEW p \in Procs, PublishModel(p)
  PROVE  IInv'
<1>1. /\ p \in Busy /\ Head(proc[p].todo) = "models"
      /\ UNCHANGED <<epochs, observations, tagged, recommendations, files>>
  BY DEF PublishModel, At
<1>2. /\ proc[p].kind = "forecast" /\ proc[p].todo = <<"models">>
      /\ Stage(p) /\ Typed
  BY <1>1, KindOf, Forecaster, Filer, Giver, Watcher, Observer DEF AllKinds
<1>3. Forecasting(p) /\ ForecastAt(p)
  BY <1>1, <1>2 DEF Stage, Forecasting, Busy
<1>4. /\ InEpoch(p) /\ Predicted(p) /\ Conforming(p)
      /\ proc[p].left \subseteq Models /\ Published(p, proc[p].on.models \ proc[p].left)
  BY <1>2, <1>3 DEF ForecastAt
<1>5. PICK m \in proc[p].left :
        /\ models' = models \cup {[type |-> m, observation |-> proc[p].row,
                                   object |-> proc[p].on.object, epoch |-> proc[p].epoch, by |-> p,
                                   conforms |-> proc[p].seen.conforms]}
        /\ IF proc[p].left = {m} THEN Proceed(p) ELSE proc' = [proc EXCEPT ![p].left = @ \ {m}]
  BY DEF PublishModel
<1> DEFINE row == [type |-> m, observation |-> proc[p].row, object |-> proc[p].on.object,
                   epoch |-> proc[p].epoch, by |-> p, conforms |-> proc[p].seen.conforms]
<1>6. /\ row.type = m /\ row.observation = proc[p].row /\ row.object = proc[p].on.object
      /\ row.epoch = proc[p].epoch /\ row.by = p /\ row.conforms = proc[p].seen.conforms
      /\ models' = models \cup {row}
  BY <1>5
<1> HIDE DEF row
<1>7. Grow /\ WrittenBy(p) /\ TablesOK' /\ Modelled'
  <2>1. TablesOK /\ Modelled /\ epochs \in Nat /\ Len(recommendations) \in Nat
    BY TypedOf, BoundsAssumption DEF IInv, TablesOK
  <2>2. Grow /\ WrittenBy(p)
    BY <1>1, <1>6, <2>1 DEF Grow, WrittenBy
  <2>3. TablesOK'
    BY <1>1, <1>4, <1>6, <2>1 DEF TablesOK, InEpoch, Predicted
  <2>4. Modelled'
    BY <1>1, <1>4, <1>6, <2>1 DEF Modelled, Predicted, Conforming, LoadsChecked
  <2>. QED
    BY <2>2, <2>3, <2>4
<1>8. CASE proc[p].left = {m}
  <2>1. End(p, "done")
    <3>1. Len(proc[p].todo) = 1
      BY <1>2
    <3>. QED
      BY <1>5, <1>8, <3>1 DEF Proceed
  <2>2. /\ OnlyOf(p) /\ Keeps(p, {"todo", "new", "seen", "end", "epoch", "row", "left"})
        /\ proc'[p].todo = <<>> /\ proc'[p].end = "done" /\ proc'[p].row = proc[p].row
    BY <1>2, <2>1, EndGoes
  <2>3. Continues(p) /\ proc'[p].kind = proc[p].kind /\ proc'[p].on = proc[p].on
    BY <1>1, <2>2, Goes
  <2>4. Published(p, proc[p].on.models)'
    BY <1>4, <1>6, <1>8, <2>2, <2>3 DEF Published
  <2>5. Forecasting(p)'
    BY <1>1, <1>3, <2>2, <2>3, <2>4, NoneAssumption DEF Forecasting
  <2>6. Shown(p)'
    BY <1>2, <2>3 DEF Shown, Done
  <2>7. Typed'
    BY <1>7, <2>2, <2>3, TypedHolds, NoneAssumption DEF OverOrNot
  <2>. QED
    BY <1>2, <1>7, <2>3, <2>5, <2>6, <2>7, StageOf, StepHolds
<1>9. CASE proc[p].left # {m}
  <2>1. DOMAIN proc = Procs /\ DOMAIN proc[p] = Fields
    BY <1>2, Shape
  <2> DEFINE new == [proc[p] EXCEPT !.left = @ \ {m}]
  <2>2. proc' = [proc EXCEPT ![p] = new]
    BY <1>5, <1>9
  <2>3. /\ new = [field \in Fields |-> new[field]] /\ new.left = proc[p].left \ {m}
        /\ \A field \in Fields \ {"left"} : new[field] = proc[p][field]
    BY <2>1 DEF Fields
  <2> HIDE DEF new
  <2>4. OnlyOf(p) /\ Keeps(p, {"left"}) /\ proc'[p] = new
    BY <1>2, <2>2, <2>3, Becomes
  <2>5. /\ Continues(p) /\ proc'[p].kind = proc[p].kind /\ proc'[p].on = proc[p].on
        /\ proc'[p].end = None /\ Shown(p)' /\ proc'[p].epoch = proc[p].epoch
        /\ proc'[p].row = proc[p].row /\ proc'[p].seen = proc[p].seen /\ proc'[p].todo = proc[p].todo
    BY <1>1, <2>4, Goes DEF Fields
  <2>6. Published(p, proc[p].on.models \ proc[p].left)'
    <3>1. proc'[p].left = proc[p].left \ {m} /\ proc'[p].on.models = proc[p].on.models
      BY <2>3, <2>4, <2>5
    <3>2. ASSUME NEW type \in proc[p].on.models \ (proc[p].left \ {m})
          PROVE  \E row2 \in models' :
                   row2.by = p /\ row2.type = type /\ row2.observation = proc[p].row
      <4>1. CASE type = m
        BY <1>6, <4>1
      <4>2. CASE type # m
        BY <1>4, <1>6, <4>2 DEF Published
      <4>. QED
        BY <4>1, <4>2
    <3>. QED
      BY <2>5, <3>1, <3>2 DEF Published
  <2>7. InEpoch(p)' /\ Predicted(p)' /\ Conforming(p)'
    BY <1>1, <1>4, <2>5 DEF InEpoch, Predicted, Conforming, LoadsChecked
  <2>8. proc'[p].todo = <<"models">> /\ <<"models">> # <<>> /\ proc'[p].left \subseteq Models
    BY <1>2, <1>4, <2>3, <2>4, <2>5
  <2>9. ForecastAt(p)'
    BY <2>6, <2>7, <2>8 DEF ForecastAt
  <2>10. Forecasting(p)'
    BY <1>1, <1>3, <2>5, <2>9, NoneAssumption DEF Forecasting
  <2>11. Typed'
    BY <1>7, <2>5, <2>8, TypedHolds DEF OverOrNot
  <2>. QED
    BY <1>2, <1>7, <2>5, <2>10, <2>11, StageOf, StepHolds
<1>. QED
  BY <1>8, <1>9

\* A process goes on to its next step, and nothing else of it changes.
LEMMA NextStep ==
  ASSUME IInv, NEW p \in Busy, Proceed(p), Len(proc[p].todo) # 1
  PROVE  /\ Continues(p) /\ proc'[p].todo = Tail(proc[p].todo) /\ Shown(p)'
         /\ \A field \in Fields \ {"todo"} : proc'[p][field] = proc[p][field]
         /\ proc'[p].end = None
<1>1. OnlyOf(p) /\ Keeps(p, {"todo"}) /\ proc'[p].todo = Tail(proc[p].todo)
  BY KindOf, ProceedGoes
<1>. QED
  BY <1>1, Goes

\* load_from_local: the file is read, or the command ends.
LEMMA LoadFileHolds ==
  ASSUME IInv, NEW p \in Procs, LoadFile(p)
  PROVE  IInv'
<1>1. p \in Busy /\ Head(proc[p].todo) = "load_file" /\ UNCHANGED tables
  BY DEF LoadFile, At
<1>2. /\ proc[p].kind = "file" /\ proc[p].todo = <<"load_file", "epoch", "rows", "add_recommendations">>
      /\ proc[p].new = <<>> /\ Stage(p)
  BY <1>1, KindOf, Forecaster, Filer, Giver, Watcher, Observer DEF AllKinds
<1>3. Proceed(p) \/ End(p, "raised")
  BY DEF LoadFile
<1>4. CASE Proceed(p)
  <2>1. Len(proc[p].todo) # 1
    BY <1>2
  <2>2. /\ Continues(p) /\ proc'[p].todo = Tail(proc[p].todo)
        /\ \A field \in Fields \ {"todo"} : proc'[p][field] = proc[p][field]
        /\ proc'[p].end = None
    BY <1>1, <1>4, <2>1, NextStep
  <2>3. proc'[p].kind = proc[p].kind /\ proc'[p].on = proc[p].on /\ proc'[p].new = proc[p].new
    BY <2>2 DEF Fields
  <2>4. proc'[p].todo \in ToLoad /\ proc'[p].todo # <<>>
    BY <1>2, <2>2 DEF ToLoad
  <2>5. Filing(p) /\ Of(p) = {} /\ Of(p)' = {}
    BY <1>1, <1>2, NoneAssumption DEF Stage, Filing, Busy, tables, Of
  <2>6. Filing(p)'
    BY <1>1, <1>2, <2>2, <2>3, <2>4, <2>5, NoneAssumption DEF Filing, tables
  <2>. QED
    BY <1>1, <1>2, <2>2, <2>3, <2>4, <2>6, StageOf, StepTo
<1>5. CASE End(p, "raised")
  BY <1>1, <1>5, Ends
<1>. QED
  BY <1>3, <1>4, <1>5

\* RecommendationPublishApp.object_id.
LEMMA ObjectIdHolds ==
  ASSUME IInv, NEW p \in Procs, ObjectId(p)
  PROVE  IInv'
<1>1. /\ p \in Busy /\ Head(proc[p].todo) = "object_id" /\ UNCHANGED tables
  BY DEF ObjectId, At
<1>2. /\ proc[p].kind = "values" /\ Stage(p) /\ Typed
      /\ proc[p].todo = <<"object_id", "facility_id", "rows", "add_recommendations">>
  BY <1>1, KindOf, Forecaster, Filer, Giver, Watcher, Observer DEF AllKinds
<1>3. Giving(p) /\ GivingAt(p)
  BY <1>1, <1>2 DEF Stage, Giving, Busy
<1>4. proc[p].new = <<>> /\ InEpoch(p)
  BY <1>2, <1>3 DEF GivingAt, Building
<1>5. PICK value : Set(p, "row", value)
  BY DEF ObjectId
<1>6. /\ OnlyOf(p) /\ Keeps(p, {"todo", "row"}) /\ proc'[p].todo = Tail(proc[p].todo)
  BY <1>2, <1>5, SetGoes
<1>7. /\ Continues(p) /\ proc'[p].kind = proc[p].kind /\ proc'[p].on = proc[p].on
      /\ proc'[p].end = None /\ proc'[p].new = proc[p].new /\ proc'[p].epoch = proc[p].epoch
  BY <1>1, <1>6, Goes DEF Fields
<1>8. /\ proc'[p].todo = <<"facility_id", "rows", "add_recommendations">>
      /\ <<"facility_id", "rows", "add_recommendations">> # <<>>
  BY <1>2, <1>6
<1>9. GivingAt(p)'
  <2>1. InEpoch(p)' /\ proc'[p].new = <<>>
    BY <1>1, <1>4, <1>7 DEF InEpoch, tables
  <2>. QED
    BY <1>8, <2>1 DEF GivingAt
<1>10. Giving(p)'
  BY <1>1, <1>3, <1>7, <1>9 DEF Giving, tables
<1>. QED
  BY <1>1, <1>2, <1>7, <1>8, <1>10, StageOf, StepTo

\* RecommendationPublishApp.facility_id.
LEMMA FacilityIdHolds ==
  ASSUME IInv, NEW p \in Procs, FacilityId(p)
  PROVE  IInv'
<1>1. /\ p \in Busy /\ Head(proc[p].todo) = "facility_id" /\ UNCHANGED tables
  BY DEF FacilityId, At
<1>2. /\ proc[p].kind = "values" /\ Stage(p) /\ Typed
      /\ proc[p].todo = <<"facility_id", "rows", "add_recommendations">>
  BY <1>1, KindOf, Forecaster, Filer, Giver, Watcher, Observer DEF AllKinds
<1>3. Giving(p) /\ GivingAt(p)
  BY <1>1, <1>2 DEF Stage, Giving, Busy
<1>4. proc[p].new = <<>> /\ InEpoch(p)
  BY <1>2, <1>3 DEF GivingAt, Building
<1>5. CASE End(p, "raised")
  BY <1>1, <1>5, Ends
<1>6. ASSUME NEW f \in Facilities, Set(p, "seen", f)
      PROVE  IInv'
  <2>1. /\ OnlyOf(p) /\ Keeps(p, {"todo", "seen"}) /\ proc'[p].todo = Tail(proc[p].todo)
        /\ proc'[p].seen = f
    BY <1>2, <1>6, SetGoes
  <2>2. /\ Continues(p) /\ proc'[p].kind = proc[p].kind /\ proc'[p].on = proc[p].on
        /\ proc'[p].end = None /\ proc'[p].new = proc[p].new /\ proc'[p].epoch = proc[p].epoch
    BY <1>1, <2>1, Goes DEF Fields
  <2>3. proc'[p].todo = <<"rows", "add_recommendations">> /\ <<"rows", "add_recommendations">> # <<>>
    BY <1>2, <2>1
  <2>4. Building(p)'
    <3>1. InEpoch(p)' /\ proc'[p].new = <<>>
      BY <1>1, <1>4, <2>2 DEF InEpoch, tables
    <3>2. Len(Wanted(p)') = 1
      BY <1>2, <2>2 DEF Wanted
    <3>. QED
      BY <2>3, <3>1, <3>2 DEF Building
  <2>5. GivingAt(p)'
    BY <2>1, <2>4 DEF GivingAt
  <2>6. Giving(p)'
    BY <1>1, <1>3, <2>2, <2>5 DEF Giving, tables
  <2>. QED
    BY <1>1, <1>2, <2>2, <2>3, <2>6, StageOf, StepTo
<1>. QED
  BY <1>5, <1>6 DEF FacilityId

\* What is wanted: a row for each prediction, under the epoch of the command
\* (recommendation/publish.py build_recommendation).
LEMMA WantedRows ==
  ASSUME IInv, NEW p \in Busy, proc[p].kind \in {"file", "values"}, Building(p),
         proc[p].kind = "values" => proc[p].seen \in Facilities
  PROVE  /\ Len(Wanted(p)) \in Nat /\ DOMAIN Wanted(p) = 1..Len(Wanted(p))
         /\ \A n \in DOMAIN Wanted(p) : LET row == Wanted(p)[n] IN
              /\ row.object \in Objects => row \in RecommendationRow
              /\ row.epoch = proc[p].epoch /\ row.by = p /\ row.observation = 0
              /\ row.prediction \in {0} \cup Rows(observations)
              /\ proc[p].kind = "file" => row.prediction = proc[p].on.predictions[n]
         /\ proc[p].kind = "file" => Len(Wanted(p)) = Len(proc[p].on.predictions)
<1>1. p \in Procs /\ Stage(p) /\ InEpoch(p) /\ epochs \in 1..MaxEpoch /\ epochs \in Nat
  BY KindOf, TypedOf, BoundsAssumption DEF TablesOK, Building
<1>2. proc[p].epoch \in 1..MaxEpoch /\ Rows(observations) \subseteq Nat
  BY <1>1, TypedOf, BoundsAssumption DEF InEpoch, TablesOK, Rows
<1>3. ASSUME NEW o, NEW f \in Facilities, NEW i \in {0} \cup Rows(observations)
      PROVE  LET row == Recommendation(proc[p].epoch, o, f, i, p) IN
             /\ o \in Objects => row \in RecommendationRow
             /\ row.epoch = proc[p].epoch /\ row.by = p /\ row.observation = 0 /\ row.prediction = i
  BY <1>1, <1>2 DEF Recommendation, RecommendationRow
<1>4. CASE proc[p].kind = "values"
  <2>1. proc[p].on.given.prediction \in {0} \cup Rows(observations)
    BY <1>1, <1>4 DEF Stage, Giving
  <2> DEFINE row == Recommendation(proc[p].epoch, proc[p].row, proc[p].seen, proc[p].on.given.prediction, p)
  <2>2. Wanted(p) = <<row>>
    BY <1>4 DEF Wanted
  <2>3. /\ row.object \in Objects => row \in RecommendationRow
        /\ row.epoch = proc[p].epoch /\ row.by = p /\ row.observation = 0
        /\ row.prediction \in {0} \cup Rows(observations)
    <3>1. row.object = proc[p].row
      BY DEF Recommendation
    <3>2. proc[p].seen \in Facilities
      BY <1>4
    <3>3. /\ proc[p].row \in Objects => row \in RecommendationRow
          /\ row.epoch = proc[p].epoch /\ row.by = p /\ row.observation = 0
          /\ row.prediction = proc[p].on.given.prediction
      BY <1>3, <2>1, <3>2
    <3>. QED
      BY <2>1, <3>1, <3>3
  <2> HIDE DEF row
  <2>. QED
    BY <1>4, <2>2, <2>3
<1>5. CASE proc[p].kind = "file"
  <2> DEFINE rows == proc[p].on.predictions
             row(n) == Recommendation(proc[p].epoch, observations[rows[n]].object, proc[p].on.facility, rows[n], p)
  <2>1. rows \in Seq(Rows(observations)) /\ proc[p].on.facility \in Facilities
    BY <1>1, <1>5 DEF Stage, Filing
  <2>2. Wanted(p) = [n \in DOMAIN rows |-> row(n)] /\ DOMAIN rows = 1..Len(rows) /\ Len(rows) \in Nat
    BY <1>5, <2>1 DEF Wanted
  <2>3. Len(Wanted(p)) = Len(rows) /\ DOMAIN Wanted(p) = 1..Len(rows)
    BY <2>2
  <2>4. ASSUME NEW n \in 1..Len(rows)
        PROVE  /\ row(n).object \in Objects => row(n) \in RecommendationRow
               /\ row(n).epoch = proc[p].epoch /\ row(n).by = p /\ row(n).observation = 0
               /\ row(n).prediction = rows[n] /\ rows[n] \in Rows(observations)
    <3>1. row(n).object = observations[rows[n]].object
      BY DEF Recommendation
    <3>2. rows[n] \in Rows(observations)
      BY <2>1
    <3>3. row(n).epoch = proc[p].epoch /\ row(n).by = p /\ row(n).observation = 0 /\ row(n).prediction = rows[n]
      BY DEF Recommendation
    <3>4. row(n).object \in Objects => row(n) \in RecommendationRow
      BY <1>3, <2>1, <3>1, <3>2
    <3>. QED
      BY <3>2, <3>3, <3>4
  <2>5. \A n \in 1..Len(rows) : Wanted(p)[n] = row(n)
    BY <2>2
  <2> HIDE DEF row
  <2>6. \A n \in DOMAIN Wanted(p) : Wanted(p)[n] = row(n) /\ n \in 1..Len(rows)
    BY <2>3, <2>5
  <2>. QED
    BY <1>5, <2>3, <2>4, <2>6
<1>. QED
  BY <1>4, <1>5

\* It is the same as long as p and the observations are.
LEMMA WantedStays ==
  ASSUME NEW p \in Procs, proc[p].kind = "file" \/ proc[p].kind = "values",
         proc'[p].kind = proc[p].kind, proc'[p].on = proc[p].on,
         proc'[p].epoch = proc[p].epoch, proc'[p].row = proc[p].row, proc'[p].seen = proc[p].seen,
         observations' = observations
  PROVE  Wanted(p)' = Wanted(p)
  BY DEF Wanted

\* build_recommendation: the tag of the row is committed, the row is not.
LEMMA BuildRecommendationHolds ==
  ASSUME IInv, NEW p \in Procs, BuildRecommendation(p)
  PROVE  IInv'
<1>1. /\ p \in Busy /\ Head(proc[p].todo) = "rows"
      /\ UNCHANGED <<epochs, observations, models, recommendations, files>>
  BY DEF BuildRecommendation, At
<1>2. /\ proc[p].kind \in {"file", "values"} /\ Stage(p) /\ Typed /\ Building(p)
      /\ proc[p].kind = "values" => proc[p].seen \in Facilities
  BY <1>1, KindOf, Forecaster, Filer, Giver, Watcher, Observer DEF AllKinds
<1>3. proc[p].todo = <<"rows", "add_recommendations">> /\ Len(proc[p].new) < Len(Wanted(p))
  <2>1. Head(<<"add_recommendations">>) # "rows"
    OBVIOUS
  <2>. QED
    BY <1>1, <1>2, <2>1 DEF Building
<1> DEFINE row == Wanted(p)[Len(proc[p].new) + 1]
<1>4. IF row.object \notin Objects THEN End(p, "raised") /\ UNCHANGED tagged
      ELSE /\ tagged' = tagged \cup {row.object}
           /\ proc' = [proc EXCEPT ![p].new = Append(@, row),
                ![p].todo = IF Len(proc[p].new) + 1 = Len(Wanted(p)) THEN Tail(@) ELSE @]
  BY DEF BuildRecommendation
<1>5. CASE row.object \notin Objects
  BY <1>1, <1>4, <1>5, Ends DEF tables
<1>6. CASE row.object \in Objects
  <2>1. /\ Len(Wanted(p)) \in Nat /\ DOMAIN Wanted(p) = 1..Len(Wanted(p))
        /\ \A n \in DOMAIN Wanted(p) : Wanted(p)[n].object \in Objects => Wanted(p)[n] \in RecommendationRow
    BY <1>1, <1>2, WantedRows
  <2>2. proc[p].new \in Seq(RecommendationRow) /\ Len(proc[p].new) \in Nat
    BY <1>2 DEF Building
  <2>3. Len(proc[p].new) + 1 \in DOMAIN Wanted(p) /\ row \in RecommendationRow
    BY <1>3, <1>6, <2>1, <2>2
  <2>4. DOMAIN proc = Procs /\ DOMAIN proc[p] = Fields
    BY <1>2, Shape
  <2> DEFINE new == [proc[p] EXCEPT !.new = Append(@, row),
                       !.todo = IF Len(proc[p].new) + 1 = Len(Wanted(p)) THEN Tail(@) ELSE @]
  <2>5. proc' = [proc EXCEPT ![p] = new]
    BY <1>4, <1>6
  <2>6. /\ new = [field \in Fields |-> new[field]] /\ new.new = Append(proc[p].new, row)
        /\ new.todo = (IF Len(proc[p].new) + 1 = Len(Wanted(p)) THEN Tail(proc[p].todo) ELSE proc[p].todo)
        /\ \A field \in Fields \ {"new", "todo"} : new[field] = proc[p][field]
    BY <2>4 DEF Fields
  <2> HIDE DEF new
  <2>7. OnlyOf(p) /\ Keeps(p, {"new", "todo"}) /\ proc'[p] = new
    BY <1>2, <2>5, <2>6, Becomes
  <2>8. /\ Continues(p) /\ proc'[p].kind = proc[p].kind /\ proc'[p].on = proc[p].on
        /\ proc'[p].end = None /\ Shown(p)' /\ proc'[p].epoch = proc[p].epoch
        /\ proc'[p].row = proc[p].row /\ proc'[p].seen = proc[p].seen
    BY <1>1, <2>7, Goes DEF Fields
  <2>16. /\ proc'[p].new \in Seq(RecommendationRow) /\ Len(proc'[p].new) = Len(proc[p].new) + 1
         /\ DOMAIN proc'[p].new = 1..(Len(proc[p].new) + 1)
         /\ proc'[p].new[Len(proc[p].new) + 1] = row
         /\ \A i \in 1..Len(proc[p].new) : proc'[p].new[i] = proc[p].new[i]
    <3>1. proc'[p].new = Append(proc[p].new, row)
      BY <2>6, <2>7
    <3> HIDE DEF row
    <3>. QED
      BY <2>2, <2>3, <3>1, AppendProperties
  <2>9. Wanted(p)' = Wanted(p)
    BY <1>1, <1>2, <2>8, WantedStays
  <2>10. TablesOK /\ tagged' = tagged \cup {row.object} /\ tagged' \subseteq Objects
         /\ epochs \in Nat /\ Len(recommendations) \in Nat
    BY <1>4, <1>6, TypedOf, BoundsAssumption DEF TablesOK
  <2>11. Grow /\ WrittenBy(p) /\ TablesOK' /\ Modelled'
    <3>1. Grow /\ WrittenBy(p)
      BY <1>1, <2>10 DEF Grow, WrittenBy
    <3>2. TablesOK'
      BY <1>1, <2>10 DEF TablesOK
    <3>3. Modelled'
      BY <1>1 DEF IInv, Modelled, LoadsChecked
    <3>. QED
      BY <3>1, <3>2, <3>3
  <2>12. /\ proc'[p].todo # <<>>
         /\ \/ proc'[p].todo = <<"rows", "add_recommendations">> /\ Len(proc'[p].new) < Len(Wanted(p))
            \/ proc'[p].todo = <<"add_recommendations">> /\ Len(proc'[p].new) = Len(Wanted(p))
    <3>1. Len(proc'[p].new) = Len(proc[p].new) + 1
      BY <2>16
    <3>2. /\ Tail(<<"rows", "add_recommendations">>) = <<"add_recommendations">>
          /\ <<"rows", "add_recommendations">> # <<>> /\ <<"add_recommendations">> # <<>>
      OBVIOUS
    <3>3. CASE Len(proc[p].new) + 1 = Len(Wanted(p))
      BY <1>3, <2>6, <2>7, <3>1, <3>2, <3>3
    <3>4. CASE Len(proc[p].new) + 1 # Len(Wanted(p))
      <4>1. Len(proc[p].new) + 1 < Len(Wanted(p))
        <5>1. Len(Wanted(p)) \in Nat /\ Len(proc[p].new) \in Nat /\ Len(proc[p].new) < Len(Wanted(p))
          BY <1>3, <2>1, <2>2
        <5>2. \A i, j \in Nat : i < j /\ i + 1 # j => i + 1 < j
          OBVIOUS
        <5>. QED
          BY <3>4, <5>1, <5>2, Zenon
      <4>2. proc'[p].todo = proc[p].todo
        BY <2>6, <2>7, <3>4
      <4>. QED
        BY <1>3, <3>1, <3>2, <4>1, <4>2
    <3>. QED
      BY <3>3, <3>4
  <2>13. Building(p)'
    <3>1. InEpoch(p)' /\ proc'[p].new \in Seq(RecommendationRow)
      <4>1. InEpoch(p)'
        BY <1>1, <1>2, <2>8 DEF Building, InEpoch
      <4>. QED
        BY <2>16, <4>1
    <3>2. ASSUME NEW n \in DOMAIN proc'[p].new
          PROVE  /\ n \in DOMAIN Wanted(p) /\ proc'[p].new[n] = Wanted(p)[n]
                 /\ proc'[p].new[n].object \in tagged'
      <4>1. n \in 1..(Len(proc[p].new) + 1)
        BY <2>16
      <4>2. CASE n = Len(proc[p].new) + 1
        BY <2>3, <2>10, <2>16, <4>2
      <4>3. CASE n # Len(proc[p].new) + 1
        <5>1. n \in DOMAIN proc[p].new /\ proc'[p].new[n] = proc[p].new[n]
          BY <2>2, <2>16, <4>1, <4>3
        <5>. QED
          BY <1>2, <2>10, <5>1 DEF Building
      <4>. QED
        BY <4>2, <4>3
    <3>. QED
      BY <2>9, <2>12, <3>1, <3>2 DEF Building
  <2>14. Stage(p)'
    <3>1. CASE proc[p].kind = "file"
      <4>1. Filing(p) /\ Of(p) = {} /\ Of(p)' = {}
        BY <1>1, <1>2, <3>1, NoneAssumption DEF Stage, Filing, Busy, Of
      <4>2. Filing(p)'
        BY <1>1, <2>8, <2>13, <4>1, NoneAssumption DEF Filing
      <4>. QED
        BY <2>8, <3>1, <4>2, StageOf
    <3>2. CASE proc[p].kind = "values"
      <4>1. Giving(p) /\ GivingAt(p)'
        BY <1>2, <2>8, <2>13, <3>2 DEF Stage, GivingAt
      <4>2. Giving(p)'
        BY <1>1, <2>8, <4>1 DEF Giving
      <4>. QED
        BY <2>8, <3>2, <4>2, StageOf
    <3>. QED
      BY <1>2, <3>1, <3>2
  <2>15. Typed'
    BY <2>8, <2>11, <2>12, TypedHolds DEF OverOrNot
  <2>. QED
    BY <2>8, <2>11, <2>14, <2>15, StepHolds
<1>. QED
  BY <1>5, <1>6

\* Recommendation.add_all: all of them, or none.
LEMMA AddRecommendationsHolds ==
  ASSUME IInv, NEW p \in Procs, AddRecommendations(p)
  PROVE  IInv'
<1>1. /\ p \in Busy /\ Head(proc[p].todo) = "add_recommendations"
      /\ recommendations' = recommendations \o proc[p].new
      /\ UNCHANGED <<epochs, observations, models, tagged, files>>
  BY DEF AddRecommendations, At
<1>2. /\ proc[p].kind \in {"file", "values"} /\ Stage(p) /\ Typed /\ Building(p)
      /\ proc[p].kind = "values" => proc[p].seen \in Facilities
  BY <1>1, KindOf, Forecaster, Filer, Giver, Watcher, Observer DEF AllKinds
<1>3. proc[p].todo = <<"add_recommendations">> /\ Len(proc[p].new) = Len(Wanted(p))
  <2>1. Head(<<"rows", "add_recommendations">>) # "add_recommendations"
    OBVIOUS
  <2>. QED
    BY <1>1, <1>2, <2>1 DEF Building
<1>4. End(p, "done")
  <2>1. Len(proc[p].todo) = 1
    BY <1>3
  <2>. QED
    BY <2>1 DEF AddRecommendations, Proceed
<1>5. /\ OnlyOf(p) /\ Keeps(p, {"todo", "new", "seen", "end", "epoch", "row", "left"})
      /\ proc'[p].todo = <<>> /\ proc'[p].end = "done" /\ proc'[p].epoch = proc[p].epoch
  BY <1>2, <1>4, EndGoes
<1>6. Continues(p) /\ proc'[p].kind = proc[p].kind /\ proc'[p].on = proc[p].on
  BY <1>1, <1>5, Goes
<1> DEFINE old == recommendations
           new == proc[p].new
<1>7. /\ old \in Seq(RecommendationRow) /\ new \in Seq(RecommendationRow)
      /\ Len(old) \in Nat /\ Len(new) \in Nat /\ DOMAIN old = 1..Len(old) /\ DOMAIN new = 1..Len(new)
  BY <1>2, TypedOf DEF Building, TablesOK
<1>8. \A n \in 1..Len(new) :
        /\ new[n].epoch = proc[p].epoch /\ new[n].by = p /\ new[n].observation = 0
        /\ new[n].prediction \in {0} \cup Rows(observations) /\ new[n].object \in tagged
        /\ proc[p].kind = "file" => new[n].prediction = proc[p].on.predictions[n]
  <2>1. \A n \in 1..Len(new) : n \in DOMAIN Wanted(p) /\ new[n] = Wanted(p)[n] /\ new[n].object \in tagged
    BY <1>2, <1>7 DEF Building
  <2>2. \A n \in DOMAIN Wanted(p) :
          /\ Wanted(p)[n].epoch = proc[p].epoch /\ Wanted(p)[n].by = p
          /\ Wanted(p)[n].observation = 0 /\ Wanted(p)[n].prediction \in {0} \cup Rows(observations)
          /\ proc[p].kind = "file" => Wanted(p)[n].prediction = proc[p].on.predictions[n]
    BY <1>1, <1>2, WantedRows
  <2>. QED
    BY <2>1, <2>2
<1>9. proc[p].kind = "file" => Len(new) = Len(proc[p].on.predictions)
  BY <1>1, <1>2, <1>3, WantedRows
<1> HIDE DEF old, new
<1>10. /\ recommendations' \in Seq(RecommendationRow)
       /\ Len(recommendations') = Len(old) + Len(new)
       /\ DOMAIN recommendations' = 1..(Len(old) + Len(new))
       /\ \A r \in 1..Len(old) : recommendations'[r] = old[r]
       /\ \A n \in 1..Len(new) : recommendations'[Len(old) + n] = new[n]
  <2>1. recommendations' = old \o new
    BY <1>1 DEF old, new
  <2>. QED
    BY <1>7, <2>1, ConcatProperties
<1>11. \A r \in DOMAIN recommendations' :
         \/ r \in 1..Len(old) /\ recommendations'[r] = old[r]
         \/ \E n \in 1..Len(new) : r = Len(old) + n /\ recommendations'[r] = new[n]
  <2> SUFFICES ASSUME NEW r \in DOMAIN recommendations', r \notin 1..Len(old)
               PROVE  \E n \in 1..Len(new) : r = Len(old) + n /\ recommendations'[r] = new[n]
    BY <1>10
  <2>1. r - Len(old) \in 1..Len(new) /\ r = Len(old) + (r - Len(old))
    BY <1>7, <1>10
  <2>. QED
    BY <1>10, <2>1
<1>12. Grow /\ WrittenBy(p)
  <2>1. epochs \in Nat
    BY TypedOf, BoundsAssumption DEF TablesOK
  <2>2. Grow
    BY <1>1, <1>7, <1>10, <2>1 DEF Grow, Rows, old
  <2>3. \A r \in DOMAIN recommendations' \ DOMAIN recommendations : recommendations'[r].by = p
    BY <1>7, <1>8, <1>11 DEF old
  <2>4. \A r \in DOMAIN recommendations : recommendations'[r] = recommendations[r]
    BY <1>7, <1>10 DEF old
  <2>. QED
    BY <2>2, <2>3, <2>4 DEF WrittenBy, Rows
<1>13. TablesOK' /\ Modelled'
  <2>1. TablesOK /\ proc[p].epoch \in 1..epochs
    BY <1>2, TypedOf DEF Building, InEpoch
  <2>2. \A r \in DOMAIN recommendations' :
          /\ recommendations'[r].object \in tagged /\ recommendations'[r].epoch \in 1..epochs
          /\ {recommendations'[r].prediction, recommendations'[r].observation}
               \subseteq {0} \cup Rows(observations)
    <3>1. \A r \in 1..Len(old) :
            /\ old[r].object \in tagged /\ old[r].epoch \in 1..epochs
            /\ {old[r].prediction, old[r].observation} \subseteq {0} \cup Rows(observations)
      BY <1>7, <2>1 DEF TablesOK, Rows, old
    <3>. QED
      BY <1>8, <1>11, <2>1, <3>1
  <2>3. TablesOK'
    BY <1>1, <1>10, <2>1, <2>2, RecommendationsOK
  <2>4. Modelled'
    BY <1>1 DEF IInv, Modelled, LoadsChecked
  <2>. QED
    BY <2>3, <2>4
<1>14. Stage(p)'
  <2>1. CASE proc[p].kind = "values"
    <3>1. Giving(p)'
      BY <1>1, <1>2, <1>5, <1>6, <2>1, NoneAssumption DEF Stage, Giving
    <3>. QED
      BY <1>6, <2>1, <3>1, StageOf
  <2>2. CASE proc[p].kind = "file"
    <3> DEFINE rows == proc[p].on.predictions
    <3>1. Filing(p) /\ Of(p) = {}
      BY <1>1, <1>2, <2>2, NoneAssumption DEF Stage, Filing, Busy
    <3>2. Of(p)' = (Len(old) + 1)..(Len(old) + Len(rows))
      <4>1. \A r \in 1..Len(old) : recommendations'[r].by # p
        BY <1>7, <1>10, <3>1 DEF Of, Rows, old
      <4>2. \A r \in DOMAIN recommendations' : r > Len(old) => recommendations'[r].by = p
        BY <1>7, <1>8, <1>11
      <4>. QED
        BY <1>7, <1>9, <1>10, <2>2, <4>1, <4>2 DEF Of, Rows
    <3>3. \A n \in DOMAIN rows : recommendations'[Len(old) + n].prediction = rows[n]
      <4>1. rows \in Seq(Rows(observations)) /\ DOMAIN rows = 1..Len(rows)
        BY <3>1 DEF Filing
      <4>. QED
        BY <1>8, <1>9, <1>10, <2>2, <4>1
    <3>4. \A r \in Of(p)' : recommendations'[r].epoch = proc[p].epoch
      <4>1. \A r \in Of(p)' : r \in DOMAIN recommendations' /\ r \notin 1..Len(old)
        BY <1>7, <3>2 DEF Of, Rows
      <4>. QED
        BY <1>8, <1>11, <4>1
    <3>5. Len(old) \in 0..Len(recommendations')
      BY <1>7, <1>10
    <3>6. Batch(p)'
      BY <1>5, <1>6, <3>2, <3>3, <3>4, <3>5 DEF Batch
    <3>7. Filing(p)'
      BY <1>1, <1>5, <1>6, <3>1, <3>6, NoneAssumption DEF Filing
    <3>. QED
      BY <1>6, <2>2, <3>7, StageOf
  <2>. QED
    BY <1>2, <2>1, <2>2
<1>15. Shown(p)'
  BY <1>2, <1>6 DEF Shown, Done
<1>16. Typed'
  BY <1>5, <1>6, <1>13, TypedHolds, NoneAssumption DEF OverOrNot
<1>. QED
  BY <1>6, <1>12, <1>13, <1>14, <1>15, <1>16, StepHolds

\* A recommendation that has an observation is refused, but with --force, and
\* one that is not for the source always.
LEMMA GetRecommendationHolds ==
  ASSUME IInv, NEW p \in Procs, GetRecommendation(p)
  PROVE  IInv'
<1>1. p \in Busy /\ Head(proc[p].todo) = "get_recommendation" /\ UNCHANGED tables
  BY DEF GetRecommendation, At
<1>2. /\ proc[p].kind = "observe" /\ Stage(p) /\ proc[p].on.recommendation # 0
      /\ proc[p].todo \in ToCheck /\ InEpoch(p)
  BY <1>1, KindOf, Forecaster, Filer, Giver, Watcher, Observer DEF AllKinds
<1>3. CASE End(p, "raised")
  BY <1>1, <1>3, Ends
<1>4. CASE /\ recommendations[proc[p].on.recommendation].observation = 0 \/ proc[p].on.force
           /\ Proceed(p)
  <2>1. Proceed(p)
    BY <1>4
  <2>2. \/ proc[p].todo = <<"get_recommendation", "publish_observation", "link">>
        \/ proc[p].todo = <<"get_recommendation", "inspect_file", "publish_observation", "link", "add_file">>
    BY <1>2 DEF ToCheck
  <2>3. /\ Len(<<"get_recommendation", "publish_observation", "link">>) # 1
        /\ Len(<<"get_recommendation", "inspect_file", "publish_observation", "link", "add_file">>) # 1
        /\ Tail(<<"get_recommendation", "publish_observation", "link">>) = <<"publish_observation", "link">>
        /\ Tail(<<"get_recommendation", "inspect_file", "publish_observation", "link", "add_file">>)
             = <<"inspect_file", "publish_observation", "link", "add_file">>
        /\ <<"publish_observation", "link">> # <<>>
        /\ <<"inspect_file", "publish_observation", "link", "add_file">> # <<>>
    OBVIOUS
  <2>4. Len(proc[p].todo) # 1
    BY <2>2, <2>3, Zenon
  <2>5. /\ Continues(p) /\ proc'[p].todo = Tail(proc[p].todo)
        /\ \A field \in Fields \ {"todo"} : proc'[p][field] = proc[p][field]
        /\ proc'[p].end = None
    BY <1>1, <2>1, <2>4, NextStep
  <2>6. /\ proc'[p].kind = proc[p].kind /\ proc'[p].on = proc[p].on /\ proc'[p].epoch = proc[p].epoch
        /\ proc'[p].before = proc[p].before
    BY <2>5 DEF Fields
  <2>7. proc'[p].todo \in ToPublish(proc[p].on.recommendation) /\ proc'[p].todo # <<>>
    BY <1>2, <2>2, <2>3, <2>5, Zenon DEF ToPublish
  <2>8. InEpoch(p)' /\ Unlinked(p)'
    BY <1>1, <1>2, <1>4, <2>6 DEF InEpoch, Unlinked, tables
  <2>9. Watching(p)'
    <3>1. WatchingAt(p)'
      BY <2>6, <2>7, <2>8 DEF WatchingAt
    <3>. QED
      BY <1>1, <1>2, <2>6, <3>1 DEF Stage, Watching, tables
  <2>. QED
    BY <1>1, <1>2, <2>5, <2>6, <2>7, <2>9, StageOf, StepTo
<1>. QED
  BY <1>3, <1>4 DEF GetRecommendation

\* load_file: what it refuses ends the command before anything is published.
LEMMA InspectFileHolds ==
  ASSUME IInv, NEW p \in Procs, InspectFile(p)
  PROVE  IInv'
<1>1. p \in Busy /\ Head(proc[p].todo) = "inspect_file" /\ UNCHANGED tables
  BY DEF InspectFile, At
<1>2. /\ proc[p].kind = "observe" /\ Stage(p)
      /\ proc[p].todo \in ToPublish(proc[p].on.recommendation) /\ InEpoch(p) /\ Unlinked(p)
  BY <1>1, KindOf, Forecaster, Filer, Giver, Watcher, Observer DEF AllKinds
<1>3. Proceed(p) \/ End(p, "raised")
  BY DEF InspectFile
<1>4. CASE End(p, "raised")
  BY <1>1, <1>4, Ends
<1>5. CASE Proceed(p)
  <2> DEFINE r == proc[p].on.recommendation
  <2>1. /\ Head(<<"publish_observation">>) # "inspect_file"
        /\ Head(<<"publish_observation", "add_file">>) # "inspect_file"
        /\ Head(<<"publish_observation", "link">>) # "inspect_file"
        /\ Head(<<"publish_observation", "link", "add_file">>) # "inspect_file"
    OBVIOUS
  <2>2. \/ r = 0 /\ proc[p].todo = <<"inspect_file", "publish_observation", "add_file">>
        \/ r # 0 /\ proc[p].todo = <<"inspect_file", "publish_observation", "link", "add_file">>
    BY <1>1, <1>2, <2>1, Zenon DEF ToPublish
  <2>3. /\ Len(<<"inspect_file", "publish_observation", "add_file">>) # 1
        /\ Len(<<"inspect_file", "publish_observation", "link", "add_file">>) # 1
        /\ Tail(<<"inspect_file", "publish_observation", "add_file">>) = <<"publish_observation", "add_file">>
        /\ Tail(<<"inspect_file", "publish_observation", "link", "add_file">>)
             = <<"publish_observation", "link", "add_file">>
        /\ <<"publish_observation", "add_file">> # <<>>
        /\ <<"publish_observation", "link", "add_file">> # <<>>
    OBVIOUS
  <2>4. Len(proc[p].todo) # 1
    BY <2>2, <2>3, Zenon
  <2>5. /\ Continues(p) /\ proc'[p].todo = Tail(proc[p].todo)
        /\ \A field \in Fields \ {"todo"} : proc'[p][field] = proc[p][field]
        /\ proc'[p].end = None
    BY <1>1, <1>5, <2>4, NextStep
  <2>6. /\ proc'[p].kind = proc[p].kind /\ proc'[p].on = proc[p].on /\ proc'[p].epoch = proc[p].epoch
        /\ proc'[p].before = proc[p].before
    BY <2>5 DEF Fields
  <2>7. proc'[p].todo \in ToPublish(r) /\ proc'[p].todo # <<>>
    BY <2>2, <2>3, <2>5, Zenon DEF ToPublish
  <2>8. InEpoch(p)' /\ Unlinked(p)'
    BY <1>1, <1>2, <2>6 DEF InEpoch, Unlinked, tables
  <2>9. Watching(p)'
    <3>1. WatchingAt(p)'
      BY <2>6, <2>7, <2>8 DEF WatchingAt
    <3>. QED
      BY <1>1, <1>2, <2>6, <3>1 DEF Stage, Watching, tables
  <2>. QED
    BY <1>1, <1>2, <2>5, <2>6, <2>7, <2>9, StageOf, StepTo
<1>. QED
  BY <1>3, <1>4, <1>5

\* When the observations only grow, what was unlinked is.
LEMMA UnlinkedStays ==
  ASSUME IInv, NEW p \in Busy, proc[p].kind = "observe", Grow, recommendations' = recommendations,
         proc'[p].on = proc[p].on, proc'[p].before = proc[p].before, Unlinked(p)
  PROVE  Unlinked(p)'
<1> DEFINE r == proc[p].on.recommendation
<1>1. r = 0 \/ r \in Rows(recommendations)
  BY KindOf DEF Stage, Watching
<1>2. r \in Rows(recommendations) => recommendations[r].observation \in {0} \cup Rows(observations)
  BY TypedOf DEF TablesOK
<1>. QED
  BY <1>1, <1>2 DEF Unlinked, Grow

\* ObservationPublishApp.publish_observation.
LEMMA PublishObservationHolds ==
  ASSUME IInv, NEW p \in Procs, PublishObservation(p)
  PROVE  IInv'
<1>1. /\ p \in Busy /\ Head(proc[p].todo) = "publish_observation"
      /\ observations' = Add(observations, Observation(proc[p].on.object, proc[p].epoch, p))
      /\ UNCHANGED <<epochs, models, tagged, recommendations, files>>
  BY DEF PublishObservation, At
<1>2. /\ proc[p].kind = "observe" /\ Stage(p) /\ Typed
      /\ proc[p].todo \in ToPublish(proc[p].on.recommendation) /\ InEpoch(p) /\ Unlinked(p)
  BY <1>1, KindOf, Forecaster, Filer, Giver, Watcher, Observer DEF AllKinds
<1> DEFINE r == proc[p].on.recommendation
<1>3. Watching(p) /\ proc[p].on.object \in Objects
  BY <1>2 DEF Stage, Watching
<1>4. \/ r = 0 /\ proc[p].todo = <<"publish_observation">>
      \/ r = 0 /\ proc[p].todo = <<"publish_observation", "add_file">>
      \/ r # 0 /\ proc[p].todo = <<"publish_observation", "link">>
      \/ r # 0 /\ proc[p].todo = <<"publish_observation", "link", "add_file">>
  <2>1. /\ Head(<<"inspect_file", "publish_observation", "add_file">>) # "publish_observation"
        /\ Head(<<"inspect_file", "publish_observation", "link", "add_file">>) # "publish_observation"
    OBVIOUS
  <2>. QED
    BY <1>1, <1>2, <2>1, Zenon DEF ToPublish
<1>5. /\ Grow /\ WrittenBy(p) /\ TablesOK' /\ Modelled'
      /\ Len(observations') \in Rows(observations')
      /\ observations'[Len(observations')].by = p
  BY <1>1, <1>2, <1>3, ObservationAdded DEF InEpoch
<1>6. CASE proc[p].todo = <<"publish_observation">>
  <2>1. End(p, "done")
    <3>1. Len(proc[p].todo) = 1
      BY <1>6
    <3>. QED
      BY <3>1 DEF PublishObservation, Proceed
  <2>2. /\ OnlyOf(p) /\ Keeps(p, {"todo", "new", "seen", "end", "epoch", "row", "left"})
        /\ proc'[p].todo = <<>> /\ proc'[p].end = "done"
    BY <1>2, <2>1, EndGoes
  <2>3. Continues(p) /\ proc'[p].kind = proc[p].kind /\ proc'[p].on = proc[p].on
    BY <1>1, <2>2, Goes
  <2>4. Watching(p)'
    BY <1>1, <1>3, <2>2, <2>3, NoneAssumption DEF Watching
  <2>5. Shown(p)'
    BY <1>2, <2>3 DEF Shown, Done
  <2>6. Typed'
    BY <1>5, <2>2, <2>3, TypedHolds, NoneAssumption DEF OverOrNot
  <2>. QED
    BY <1>2, <1>5, <2>3, <2>4, <2>5, <2>6, StageOf, StepHolds
<1>7. CASE proc[p].todo # <<"publish_observation">>
  <2>1. /\ Len(<<"publish_observation", "add_file">>) # 1
        /\ Len(<<"publish_observation", "link">>) # 1
        /\ Len(<<"publish_observation", "link", "add_file">>) # 1
        /\ Tail(<<"publish_observation", "add_file">>) = <<"add_file">>
        /\ Tail(<<"publish_observation", "link">>) = <<"link">>
        /\ Tail(<<"publish_observation", "link", "add_file">>) = <<"link", "add_file">>
        /\ <<"add_file">> # <<>> /\ <<"link">> # <<>> /\ <<"link", "add_file">> # <<>>
    OBVIOUS
  <2>2. Set(p, "row", Len(observations'))
    <3>1. Len(proc[p].todo) # 1
      BY <1>4, <1>7, <2>1, Zenon
    <3>. QED
      BY <3>1 DEF PublishObservation
  <2>3. /\ OnlyOf(p) /\ Keeps(p, {"todo", "row"})
        /\ proc'[p].todo = Tail(proc[p].todo) /\ proc'[p].row = Len(observations')
    BY <1>2, <2>2, SetGoes
  <2>4. /\ Continues(p) /\ proc'[p].kind = proc[p].kind /\ proc'[p].on = proc[p].on
        /\ proc'[p].end = None /\ Shown(p)' /\ proc'[p].before = proc[p].before
    BY <1>1, <2>3, Goes
  <2>5. /\ \/ proc'[p].todo = <<"add_file">>
           \/ r # 0 /\ proc'[p].todo \in {<<"link">>, <<"link", "add_file">>}
        /\ proc'[p].todo # <<>>
    BY <1>4, <1>7, <2>1, <2>3, Zenon
  <2>6. Observed(p)' /\ Unlinked(p)'
    <3>1. Observed(p)'
      BY <1>5, <2>3 DEF Observed
    <3>2. Unlinked(p)'
      BY <1>1, <1>2, <1>5, <2>4, UnlinkedStays
    <3>. QED
      BY <3>1, <3>2
  <2>7. Watching(p)'
    <3>1. WatchingAt(p)'
      BY <2>4, <2>5, <2>6 DEF WatchingAt
    <3>. QED
      BY <1>1, <1>3, <2>4, <3>1 DEF Watching
  <2>8. Typed'
    BY <1>5, <2>4, <2>5, TypedHolds DEF OverOrNot
  <2>. QED
    BY <1>2, <1>5, <2>4, <2>7, <2>8, StageOf, StepHolds
<1>. QED
  BY <1>6, <1>7

\* The end of the command: the process is done, or has the file left.
LEMMA ObservedGoes ==
  ASSUME IInv, NEW p \in Busy, proc[p].kind = "observe", Proceed(p), Observed(p),
         proc[p].todo \in {<<"link">>, <<"link", "add_file">>, <<"add_file">>},
         observations' = observations, Len(recommendations') = Len(recommendations),
         Rows(recommendations') = Rows(recommendations)
  PROVE  Continues(p) /\ Stage(p)' /\ Shown(p)' /\ OverOrNot(p)'
<1>1. Typed /\ Stage(p) /\ Watching(p) /\ p \in Procs
  BY KindOf DEF Stage
<1>2. CASE proc[p].todo = <<"link", "add_file">>
  <2>1. Len(proc[p].todo) # 1 /\ Tail(proc[p].todo) = <<"add_file">> /\ <<"add_file">> # <<>>
    BY <1>2
  <2>2. /\ Continues(p) /\ proc'[p].todo = Tail(proc[p].todo) /\ Shown(p)'
        /\ \A field \in Fields \ {"todo"} : proc'[p][field] = proc[p][field]
        /\ proc'[p].end = None
    BY <2>1, NextStep
  <2>3. proc'[p].kind = proc[p].kind /\ proc'[p].on = proc[p].on /\ proc'[p].row = proc[p].row
    BY <2>2 DEF Fields
  <2>4. Observed(p)'
    BY <2>3 DEF Observed
  <2>5. WatchingAt(p)'
    BY <2>1, <2>2, <2>4 DEF WatchingAt
  <2>6. Watching(p)'
    BY <1>1, <2>3, <2>5 DEF Watching
  <2>. QED
    BY <1>1, <2>1, <2>2, <2>3, <2>6, StageOf DEF OverOrNot
<1>3. CASE proc[p].todo # <<"link", "add_file">>
  <2>1. Len(proc[p].todo) = 1
    BY <1>3
  <2>2. /\ OnlyOf(p) /\ Keeps(p, {"todo", "new", "seen", "end", "left", "epoch", "row"})
        /\ proc'[p].todo = <<>> /\ proc'[p].end = "done"
    BY <1>1, <2>1, EndGoes DEF Proceed
  <2>3. Continues(p) /\ proc'[p].kind = proc[p].kind /\ proc'[p].on = proc[p].on
    BY <2>2, Goes
  <2>4. Watching(p)'
    BY <1>1, <2>2, <2>3, NoneAssumption DEF Watching
  <2>5. Shown(p)' /\ OverOrNot(p)'
    BY <2>2, <2>3, NoneAssumption DEF Shown, Done, OverOrNot
  <2>. QED
    BY <1>1, <2>3, <2>4, <2>5, StageOf
<1>. QED
  BY <1>2, <1>3

\* The recommendation is given the observation.
LEMMA LinkObservationHolds ==
  ASSUME IInv, NEW p \in Procs, LinkObservation(p)
  PROVE  IInv'
<1>1. /\ p \in Busy /\ Head(proc[p].todo) = "link" /\ Proceed(p)
      /\ recommendations' =
           [recommendations EXCEPT ![proc[p].on.recommendation].observation = proc[p].row]
      /\ UNCHANGED <<epochs, observations, models, tagged, files>>
  BY DEF LinkObservation, At
<1>2. /\ proc[p].kind = "observe" /\ Stage(p) /\ Typed /\ proc[p].on.recommendation # 0
      /\ proc[p].todo \in {<<"link">>, <<"link", "add_file">>} /\ Observed(p)
  BY <1>1, KindOf, Forecaster, Filer, Giver, Watcher, Observer DEF AllKinds
<1> DEFINE r == proc[p].on.recommendation
<1>3. r \in Rows(recommendations) /\ proc[p].row \in Rows(observations) /\ observations[proc[p].row].by = p
  BY <1>2 DEF Stage, Watching, Observed
<1>4. TablesOK /\ epochs \in Nat /\ proc[p].row \in Nat
  BY <1>3, TypedOf, BoundsAssumption DEF TablesOK, Rows
<1>5. /\ recommendations \in Seq(RecommendationRow) /\ DOMAIN recommendations = 1..Len(recommendations)
      /\ r \in DOMAIN recommendations /\ recommendations[r] \in RecommendationRow
      /\ Len(recommendations) \in Nat
  BY <1>3, <1>4 DEF TablesOK, Rows
<1> DEFINE new == [recommendations[r] EXCEPT !.observation = proc[p].row]
<1>6. /\ new \in RecommendationRow /\ new.observation = proc[p].row
      /\ \A column \in {"epoch", "object", "facility", "prediction", "by", "accepted", "rejected"} :
           new[column] = recommendations[r][column]
  BY <1>4, <1>5 DEF RecommendationRow
<1> HIDE DEF new
<1>7. /\ recommendations' = [recommendations EXCEPT ![r] = new]
      /\ recommendations' \in Seq(RecommendationRow) /\ Len(recommendations') = Len(recommendations)
      /\ DOMAIN recommendations' = DOMAIN recommendations /\ recommendations'[r] = new
      /\ \A i \in DOMAIN recommendations : i # r => recommendations'[i] = recommendations[i]
  <2>1. recommendations' = [recommendations EXCEPT ![r] = new]
    BY <1>1 DEF new
  <2> HIDE DEF r
  <2>. QED
    BY <1>5, <1>6, <2>1
<1> HIDE DEF r
<1>8. Grow /\ WrittenBy(p)
  <2>1. Grow
    <3>1. \A i \in DOMAIN recommendations : \A column \in {"epoch", "object", "facility", "prediction", "by"} :
            recommendations'[i][column] = recommendations[i][column]
      BY <1>6, <1>7
    <3>. QED
      BY <1>1, <1>7, <3>1, RowsKept
  <2>2. \A i \in DOMAIN recommendations : \A column \in Columns : recommendations'[i][column] = recommendations[i][column]
    BY <1>6, <1>7 DEF Columns
  <2>3. \A i \in DOMAIN recommendations : \/ recommendations'[i].observation = recommendations[i].observation
                                         \/ observations'[recommendations'[i].observation].by = p
    BY <1>1, <1>3, <1>6, <1>7
  <2>. QED
    BY <1>7, <2>1, <2>2, <2>3 DEF WrittenBy, Rows
<1>9. TablesOK' /\ Modelled'
  <2>1. \A i \in DOMAIN recommendations' :
          /\ recommendations'[i].object \in tagged /\ recommendations'[i].epoch \in 1..epochs
          /\ {recommendations'[i].prediction, recommendations'[i].observation}
               \subseteq {0} \cup Rows(observations)
    BY <1>3, <1>4, <1>5, <1>6, <1>7 DEF TablesOK, Rows
  <2>2. TablesOK'
    BY <1>1, <1>4, <1>7, <2>1, RecommendationsOK
  <2>3. Modelled'
    BY <1>1 DEF IInv, Modelled, LoadsChecked
  <2>. QED
    BY <2>2, <2>3
<1>10. Continues(p) /\ Stage(p)' /\ Shown(p)' /\ OverOrNot(p)'
  BY <1>1, <1>2, <1>7, ObservedGoes DEF Rows
<1>. QED
  BY <1>8, <1>9, <1>10, TypedHolds, StepHolds

\* File.add.
LEMMA AddFileHolds ==
  ASSUME IInv, NEW p \in Procs, AddFile(p)
  PROVE  IInv'
<1>1. /\ p \in Busy /\ Head(proc[p].todo) = "add_file" /\ Proceed(p)
      /\ files' = files \cup {proc[p].row}
      /\ UNCHANGED <<epochs, observations, models, tagged, recommendations>>
  BY DEF AddFile, At
<1>2. /\ proc[p].kind = "observe" /\ proc[p].todo = <<"add_file">> /\ Observed(p)
  BY <1>1, KindOf, Forecaster, Filer, Giver, Watcher, Observer DEF AllKinds
<1>3. Continues(p) /\ Stage(p)' /\ Shown(p)' /\ OverOrNot(p)'
  BY <1>1, <1>2, ObservedGoes
<1>4. TablesOK /\ epochs \in Nat /\ Len(recommendations) \in Nat
  BY TypedOf, BoundsAssumption DEF TablesOK
<1>5. TablesOK'
  BY <1>1, <1>2, <1>4 DEF TablesOK, Observed
<1>6. Modelled'
  BY <1>1 DEF IInv, Modelled, LoadsChecked
<1>7. Grow /\ WrittenBy(p)
  BY <1>1, <1>4 DEF Grow, WrittenBy
<1>. QED
  BY <1>3, <1>5, <1>6, <1>7, TypedHolds, StepHolds

\* What was decided before, and is not undone, is in the row.
LEMMA DecidedBefore ==
  ASSUME IInv, NEW p \in Started, NEW d \in proc[p].before, Done(d, "decide"), proc[d].on.value,
         ~Undone(proc[d].on.recommendation)
  PROVE  proc[d].on.recommendation \in Rows(recommendations) /\ ~Open(proc[d].on.recommendation)
<1>1. d \in Started
  BY DEF IInv, Over
<1>2. Deciding(d)
  BY <1>1 DEF IInv, Stage, Started, Done
<1>. QED
  BY <1>2 DEF Deciding, Done, Open, Columns

\* Recommendation.next: what is offered is open, of the epoch and the facility.
LEMMA SelectHolds ==
  ASSUME IInv, NEW p \in Procs, Select(p)
  PROVE  IInv'
<1>1. p \in Busy /\ Head(proc[p].todo) = "select" /\ UNCHANGED tables
  BY DEF Select, At
<1>2. /\ proc[p].kind = "next" /\ Stage(p) /\ Typed /\ p \in Started
      /\ proc[p].epoch \in proc[p].begun..epochs
  BY <1>1, KindOf, Forecaster, Filer, Giver, Watcher, Observer DEF AllKinds
<1>3. PICK shown \in SUBSET Selected(proc[p].epoch, proc[p].on.facility) :
        proc' = [proc EXCEPT ![p].todo = <<>>, ![p].left = shown, ![p].end = "done"]
  BY DEF Select
<1>4. DOMAIN proc = Procs /\ DOMAIN proc[p] = Fields
  BY <1>2, Shape
<1> DEFINE new == [proc[p] EXCEPT !.todo = <<>>, !.left = shown, !.end = "done"]
<1>5. proc' = [proc EXCEPT ![p] = new]
  BY <1>3
<1>6. /\ new = [field \in Fields |-> new[field]]
      /\ new.todo = <<>> /\ new.left = shown /\ new.end = "done"
      /\ \A field \in Fields \ {"todo", "left", "end"} : new[field] = proc[p][field]
  BY <1>4 DEF Fields
<1> HIDE DEF new
<1>7. OnlyOf(p) /\ Keeps(p, {"todo", "left", "end"}) /\ proc'[p] = new
  <2> DEFINE fields == {"todo", "left", "end"}
  <2>1. \A field \in Fields \ fields : new[field] = proc[p][field]
    BY <1>6
  <2> HIDE DEF fields
  <2>2. Typed /\ p \in Procs /\ new = [field \in Fields |-> new[field]]
    BY <1>2, <1>6 DEF Started
  <2>3. OnlyOf(p) /\ Keeps(p, fields) /\ proc'[p] = new
    BY <1>5, <2>1, <2>2, Becomes
  <2>. QED
    BY <2>3 DEF fields
<1>8. /\ Continues(p) /\ proc'[p].kind = proc[p].kind /\ proc'[p].on = proc[p].on
      /\ proc'[p].begun = proc[p].begun /\ proc'[p].before = proc[p].before
  BY <1>1, <1>7, Goes
<1>9. proc'[p].todo = <<>> /\ proc'[p].left = shown /\ proc'[p].end = "done" /\ OverOrNot(p)'
  BY <1>6, <1>7, NoneAssumption DEF OverOrNot
<1>10. \A r \in shown :
         /\ r \in Rows(recommendations) /\ Open(r) /\ recommendations[r].epoch = proc[p].epoch
         /\ proc[p].on.facility \in {None, recommendations[r].facility}
  BY DEF Selected
<1>11. Asking(p)'
  <2>1. Asking(p)
    BY <1>2 DEF Stage
  <2>2. \A r \in shown : recommendations[r].epoch >= proc[p].begun
    BY <1>2, <1>10, <2>1, BoundsAssumption, TypedOf DEF Asking, TablesOK
  <2>. QED
    BY <1>1, <1>8, <1>9, <1>10, <2>1, <2>2, NoneAssumption DEF Asking, tables
<1>12. Shown(p)'
  <2>1. /\ \A r : Undone(r)' <=> Undone(r)
        /\ \A d \in proc[p].before : d \in Started /\ d # p /\ proc'[d] = proc[d]
    <3>1. \A d \in proc[p].before : d \in Started /\ d # p
      BY <1>1, <1>2 DEF IInv, Over, Busy
    <3>. QED
      BY <1>8, <3>1, OthersStay DEF Started
  <2>2. \A d \in proc[p].before :
          Done(d, "decide") /\ proc[d].on.value /\ ~Undone(proc[d].on.recommendation) =>
            proc[d].on.recommendation \notin shown
    BY <1>2, <1>10, DecidedBefore
  <2>. QED
    BY <1>2, <1>8, <1>9, <2>1, <2>2 DEF Shown, Done
<1>. QED
  BY <1>1, <1>2, <1>8, <1>9, <1>11, <1>12, StageOf, StepOnly

\* Recommendation.history: what was decided of an epoch is all there.
LEMMA SelectHistoryHolds ==
  ASSUME IInv, NEW p \in Procs, SelectHistory(p)
  PROVE  IInv'
<1> DEFINE shown == {r \in Rows(recommendations) :
                       recommendations[r].epoch = proc[p].on.epoch /\ ~Open(r)}
<1>1. /\ p \in Busy /\ Head(proc[p].todo) = "select_history" /\ UNCHANGED tables
      /\ proc' = [proc EXCEPT ![p].todo = <<>>, ![p].end = "done", ![p].left = shown]
  BY DEF SelectHistory, At
<1>2. proc[p].kind = "history" /\ Typed /\ p \in Started
  BY <1>1, KindOf, Forecaster, Filer, Giver, Watcher, Observer DEF AllKinds
<1>3. \A r : r \in shown <=> r \in Rows(recommendations) /\ recommendations[r].epoch = proc[p].on.epoch
                             /\ ~Open(r)
  OBVIOUS
<1> HIDE DEF shown
<1>4. DOMAIN proc = Procs /\ DOMAIN proc[p] = Fields
  BY <1>2, Shape
<1> DEFINE new == [proc[p] EXCEPT !.todo = <<>>, !.end = "done", !.left = shown]
<1>5. proc' = [proc EXCEPT ![p] = new]
  BY <1>1
<1>6. /\ new = [field \in Fields |-> new[field]]
      /\ new.todo = <<>> /\ new.left = shown /\ new.end = "done"
      /\ \A field \in Fields \ {"todo", "left", "end"} : new[field] = proc[p][field]
  BY <1>4 DEF Fields
<1> HIDE DEF new
<1>7. OnlyOf(p) /\ Keeps(p, {"todo", "left", "end"}) /\ proc'[p] = new
  <2> DEFINE fields == {"todo", "left", "end"}
  <2>1. \A field \in Fields \ fields : new[field] = proc[p][field]
    BY <1>6
  <2> HIDE DEF fields
  <2>2. Typed /\ p \in Procs /\ new = [field \in Fields |-> new[field]]
    BY <1>2, <1>6 DEF Started
  <2>3. OnlyOf(p) /\ Keeps(p, fields) /\ proc'[p] = new
    BY <1>5, <2>1, <2>2, Becomes
  <2>. QED
    BY <2>3 DEF fields
<1>8. /\ Continues(p) /\ proc'[p].kind = proc[p].kind /\ proc'[p].on = proc[p].on
      /\ proc'[p].before = proc[p].before
  BY <1>1, <1>7, Goes
<1>9. proc'[p].todo = <<>> /\ proc'[p].left = shown /\ proc'[p].end = "done" /\ OverOrNot(p)'
  BY <1>6, <1>7, NoneAssumption DEF OverOrNot
<1>10. Stage(p)'
  BY <1>2, <1>8, <1>9, StageOf, NoneAssumption
<1>11. Shown(p)'
  <2>1. /\ \A r : Undone(r)' <=> Undone(r)
        /\ \A d \in proc[p].before : d \in Started /\ d # p /\ proc'[d] = proc[d]
    <3>1. \A d \in proc[p].before : d \in Started /\ d # p
      BY <1>1, <1>2 DEF IInv, Over, Busy
    <3>. QED
      BY <1>8, <3>1, OthersStay DEF Started
  <2>2. \A d \in proc[p].before :
          Done(d, "decide") /\ proc[d].on.value /\ ~Undone(proc[d].on.recommendation)
            /\ proc[p].on.epoch = recommendations[proc[d].on.recommendation].epoch
          => proc[d].on.recommendation \in shown
    BY <1>2, <1>3, DecidedBefore
  <2>3. recommendations' = recommendations /\ proc'[p].kind # "next"
    BY <1>1, <1>2, <1>8 DEF tables
  <2>. QED
    BY <1>8, <1>9, <2>1, <2>2, <2>3 DEF Shown, Done
<1>. QED
  BY <1>1, <1>8, <1>9, <1>10, <1>11, StepOnly

\* PUT: the row is loaded.
LEMMA LoadRecommendationHolds ==
  ASSUME IInv, NEW p \in Procs, LoadRecommendation(p)
  PROVE  IInv'
<1> DEFINE value == recommendations[proc[p].on.recommendation][proc[p].on.column]
<1>1. /\ p \in Busy /\ Head(proc[p].todo) = "load" /\ UNCHANGED tables /\ Set(p, "seen", value)
  BY DEF LoadRecommendation, At
<1>2. /\ proc[p].kind = "decide" /\ Stage(p) /\ Typed /\ proc[p].todo = <<"load", "update">>
  BY <1>1, KindOf, Forecaster, Filer, Giver, Watcher, Observer DEF AllKinds
<1>3. /\ OnlyOf(p) /\ Keeps(p, {"todo", "seen"}) /\ proc'[p].todo = Tail(proc[p].todo)
      /\ proc'[p].seen = value
  <2> HIDE DEF value
  <2>. QED
    BY <1>1, <1>2, SetGoes
<1>4. /\ Continues(p) /\ proc'[p].kind = proc[p].kind /\ proc'[p].on = proc[p].on
      /\ proc'[p].end = None
  <2>1. {"todo", "seen"} \cap {"kind", "on", "begun", "before"} = {} /\ "end" \notin {"todo", "seen"}
    OBVIOUS
  <2> HIDE DEF value
  <2>. QED
    BY <1>1, <1>3, <2>1, Goes
<1>5. proc'[p].todo = <<"update">> /\ <<"update">> # <<>>
  BY <1>2, <1>3
<1>6. Deciding(p)'
  BY <1>1, <1>2, <1>3, <1>4, <1>5, NoneAssumption DEF Stage, Deciding, tables
<1>. QED
  BY <1>1, <1>2, <1>4, <1>5, <1>6, StageOf, StepTo

\* The column is written if it differs from what was loaded.
LEMMA UpdateRecommendationHolds ==
  ASSUME IInv, NEW p \in Procs, UpdateRecommendation(p)
  PROVE  IInv'
<1> DEFINE r == proc[p].on.recommendation
           column == proc[p].on.column
           value == proc[p].on.value
<1>1. /\ p \in Busy /\ Head(proc[p].todo) = "update" /\ Proceed(p)
      /\ recommendations' = IF proc[p].seen = value THEN recommendations
           ELSE [recommendations EXCEPT ![r][column] = value]
      /\ UNCHANGED <<epochs, observations, models, tagged, files>>
  BY DEF UpdateRecommendation, At
<1>2. /\ proc[p].kind = "decide" /\ Stage(p) /\ Typed /\ proc[p].todo = <<"update">> /\ p \in Started
  BY <1>1, KindOf, Forecaster, Filer, Giver, Watcher, Observer DEF AllKinds
<1>3. /\ Deciding(p) /\ r \in Rows(recommendations) /\ column \in Columns /\ value \in BOOLEAN
      /\ proc[p].seen = TRUE => (value /\ ~Undone(r) => recommendations[r][column])
  BY <1>2 DEF Stage, Deciding
<1>4. End(p, "done")
  <2>1. Len(proc[p].todo) = 1
    BY <1>2
  <2>. QED
    BY <1>1, <2>1 DEF Proceed
<1>5. /\ OnlyOf(p) /\ Keeps(p, {"todo", "new", "seen", "end", "epoch", "row", "left"})
      /\ proc'[p].todo = <<>> /\ proc'[p].end = "done"
  BY <1>2, <1>4, EndGoes
<1>6. Continues(p) /\ proc'[p].kind = proc[p].kind /\ proc'[p].on = proc[p].on
  BY <1>1, <1>5, Goes
<1>7. (\A q : Undone(q)' <=> Undone(q)) /\ (~value => Undone(r))
  <2>1. ~value => Undone(r)
    BY <1>2, Zenon DEF Undone
  <2>. QED
    BY <1>6, <2>1, OthersStay
<1>8. /\ TablesOK /\ epochs \in Nat
      /\ recommendations \in Seq(RecommendationRow) /\ DOMAIN recommendations = 1..Len(recommendations)
      /\ r \in DOMAIN recommendations /\ recommendations[r] \in RecommendationRow
      /\ Len(recommendations) \in Nat
  BY <1>3, TypedOf, BoundsAssumption DEF TablesOK, Rows
<1>9. /\ recommendations' \in Seq(RecommendationRow) /\ Len(recommendations') = Len(recommendations)
      /\ DOMAIN recommendations' = DOMAIN recommendations
      /\ \A i \in DOMAIN recommendations :
           /\ \A c \in {"epoch", "object", "facility", "prediction", "by", "observation"} :
                recommendations'[i][c] = recommendations[i][c]
           /\ \A c \in Columns : i # r \/ c # column => recommendations'[i][c] = recommendations[i][c]
      /\ proc[p].seen # value => recommendations'[r][column] = value
      /\ proc[p].seen = value => recommendations' = recommendations
  <2>1. CASE proc[p].seen = value
    BY <1>1, <1>8, <2>1
  <2>2. CASE proc[p].seen # value
    <3> DEFINE new == [recommendations[r] EXCEPT ![column] = value]
    <3>1. /\ new \in RecommendationRow /\ new[column] = value
          /\ \A c \in {"epoch", "object", "facility", "prediction", "by", "observation"} :
               new[c] = recommendations[r][c]
          /\ \A c \in Columns : c # column => new[c] = recommendations[r][c]
      BY <1>3, <1>8 DEF RecommendationRow, Columns
    <3>2. recommendations' = [recommendations EXCEPT ![r] = new]
      BY <1>1, <2>2
    <3> HIDE DEF new, r
    <3>3. /\ recommendations' \in Seq(RecommendationRow) /\ Len(recommendations') = Len(recommendations)
          /\ DOMAIN recommendations' = DOMAIN recommendations /\ recommendations'[r] = new
          /\ \A i \in DOMAIN recommendations : i # r => recommendations'[i] = recommendations[i]
      BY <1>8, <3>1, <3>2
    <3>. QED
      BY <2>2, <3>1, <3>3
  <2>. QED
    BY <2>1, <2>2
<1>14. \A i \in DOMAIN recommendations :
         /\ recommendations'[i].epoch = recommendations[i].epoch
         /\ recommendations'[i].object = recommendations[i].object
         /\ recommendations'[i].prediction = recommendations[i].prediction
         /\ recommendations'[i].observation = recommendations[i].observation
  BY <1>9
<1>10. Grow /\ WrittenBy(p)
  <2>1. Grow
    <3>1. \A i \in DOMAIN recommendations : \A c \in {"epoch", "object", "facility", "prediction", "by"} :
            recommendations'[i][c] = recommendations[i][c]
      BY <1>9
    <3>2. Len(recommendations') = Len(recommendations) /\ DOMAIN recommendations' = DOMAIN recommendations
      BY <1>9
    <3>. QED
      BY <1>1, <3>1, <3>2, RowsKept
  <2>2. \A i \in DOMAIN recommendations : \A c \in Columns :
          recommendations[i][c] /\ ~Undone(i)' => recommendations'[i][c]
    <3> SUFFICES ASSUME NEW i \in DOMAIN recommendations, NEW c \in Columns,
                        recommendations[i][c], ~Undone(i)
                 PROVE  recommendations'[i][c]
      BY <1>7
    <3>1. CASE i # r \/ c # column
      BY <1>9, <3>1
    <3>2. CASE i = r /\ c = column
      BY <1>3, <1>7, <1>9, <3>2
    <3>. QED
      BY <3>1, <3>2
  <2>3. \A i \in DOMAIN recommendations : recommendations'[i].observation = recommendations[i].observation
    BY <1>9
  <2>. QED
    BY <1>9, <2>1, <2>2, <2>3 DEF WrittenBy, Rows
<1>11. TablesOK' /\ Modelled'
  <2>1. \A i \in DOMAIN recommendations' :
          /\ recommendations'[i].object \in tagged /\ recommendations'[i].epoch \in 1..epochs
          /\ {recommendations'[i].prediction, recommendations'[i].observation}
               \subseteq {0} \cup Rows(observations)
    <3>1. DOMAIN recommendations' = DOMAIN recommendations
      BY <1>9
    <3>. QED
      BY <1>8, <1>14, <3>1 DEF TablesOK, Rows
  <2>2. TablesOK'
    <3>1. recommendations' \in Seq(RecommendationRow)
      BY <1>9
    <3>. QED
      BY <1>1, <1>8, <2>1, <3>1, RecommendationsOK
  <2>3. Modelled'
    BY <1>1 DEF IInv, Modelled, LoadsChecked
  <2>. QED
    BY <2>2, <2>3
<1>12. Deciding(p)'
  <2>1. value /\ ~Undone(r) => recommendations'[r][column]
    <3>1. CASE proc[p].seen = value
      BY <1>3, <1>9, <3>1
    <3>2. CASE proc[p].seen # value
      BY <1>9, <3>2
    <3>. QED
      BY <3>1, <3>2
  <2>2. r \in Rows(recommendations)'
    BY <1>3, <1>9 DEF Rows
  <2>. QED
    BY <1>3, <1>5, <1>6, <1>7, <2>1, <2>2, NoneAssumption DEF Deciding
<1>13. Shown(p)' /\ OverOrNot(p)'
  BY <1>2, <1>5, <1>6, NoneAssumption DEF Shown, Done, OverOrNot
<1>. QED
  BY <1>2, <1>6, <1>10, <1>11, <1>12, <1>13, StageOf, TypedHolds, StepHolds

\* A process that is killed leaves what it committed, and no more.
LEMMA StopHolds ==
  ASSUME IInv, NEW p \in Procs, Stop(p)
  PROVE  IInv'
  BY Ends DEF Stop

\* The invariant holds when the observer has nothing but a prediction.
LEMMA InitHolds ==
  ASSUME Init
  PROVE  IInv
<1> DEFINE o == CHOOSE x \in Objects : x # 1
           row == Observation(o, 1, None)
<1>1. o \in Objects /\ o # 1
  BY BoundsAssumption
<1> HIDE DEF o
<1>2. /\ row \in ObservationRow /\ row.object = o /\ row.epoch = 1
      /\ epochs = 1 /\ epochs \in 1..MaxEpoch /\ observations = <<row>>
  <2>1. 1 \in 1..MaxEpoch
    BY BoundsAssumption
  <2>. QED
    BY <1>1, <2>1 DEF Init, Observation, ObservationRow, o
<1>3. models = {} /\ files = {} /\ proc = [p \in Procs |-> Unstarted]
  BY DEF Init
<1> HIDE DEF row
<1>4. /\ observations \in Seq(ObservationRow) /\ DOMAIN observations = {1} /\ observations[1] = row
  BY <1>2
<1>5. /\ recommendations \in Seq(RecommendationRow) /\ tagged \subseteq Objects
      /\ \A r \in DOMAIN recommendations :
           /\ recommendations[r].object \in tagged /\ recommendations[r].epoch = 1
           /\ recommendations[r].prediction = 1 /\ recommendations[r].observation = 0
           /\ recommendations[r].by = None
  <2>1. CASE tagged = {} /\ recommendations = <<>>
    BY <2>1
  <2>2. ASSUME NEW f \in Facilities, tagged = {o},
               recommendations = <<Recommendation(1, o, f, 1, None)>>
        PROVE  <1>5!:
    <3> DEFINE new == Recommendation(1, o, f, 1, None)
    <3>1. /\ new \in RecommendationRow /\ new.object = o /\ new.epoch = 1 /\ new.prediction = 1
          /\ new.observation = 0 /\ new.by = None
      BY <1>1, <1>2 DEF Recommendation, RecommendationRow
    <3> HIDE DEF new
    <3>2. recommendations = <<new>>
      BY <2>2 DEF new
    <3>. QED
      BY <1>1, <2>2, <3>1, <3>2
  <2>3. observations[1].object = o
    BY <1>2, <1>4
  <2>. QED
    BY <2>1, <2>2, <2>3 DEF Init
<1>6. /\ Unstarted = [field \in Fields |-> Unstarted[field]] /\ Unstarted.kind = None
  BY DEF Unstarted, Fields
<1>7. Started = {}
  BY <1>3, <1>6 DEF Started
<1>8. proc = [p \in Procs |-> [field \in Fields |-> proc[p][field]]]
  <2>1. \A p \in Procs : proc[p] = [field \in Fields |-> proc[p][field]]
    BY <1>3, <1>6, Zenon
  <2>2. proc = [p \in Procs |-> proc[p]]
    BY <1>3, Zenon
  <2>. QED
    BY <2>1, <2>2, Zenon
<1>9. TypeOK
  <2>1. \A r \in DOMAIN recommendations : recommendations[r].facility \in Facilities
    <3>1. \A r \in DOMAIN recommendations : recommendations[r] \in RecommendationRow
      BY <1>5
    <3>. QED
      BY <3>1 DEF RecommendationRow
  <2>. QED
    BY <1>1, <1>2, <1>3, <1>4, <1>5, <1>7, <2>1 DEF TypeOK, Rows
<1>10. Typed /\ Over /\ Modelled /\ \A n \in Started : Shown(n)
  BY <1>3, <1>4, <1>5, <1>7, <1>8, <1>9 DEF Typed, Over, Modelled
<1>11. \A p \in Procs : Stage(p)
  <2>1. \A p \in Procs : proc[p].kind = None /\ Of(p) = {}
    BY <1>3, <1>5, <1>6, NoneAssumption DEF Of, Rows
  <2>2. None \notin {"forecast", "file", "values", "observe", "next", "history", "decide"}
    BY NoneAssumption DEF AllKinds
  <2>. QED
    BY <2>1, <2>2 DEF Stage
<1>. QED
  BY <1>10, <1>11 DEF IInv

\* Every step keeps it.
LEMMA NextHolds ==
  ASSUME IInv, [Next]_vars
  PROVE  IInv'
<1>1. CASE UNCHANGED vars
  <2>1. proc' = proc /\ UNCHANGED tables
    BY <1>1 DEF vars
  <2>2. Grow /\ WrittenBy(None) /\ epochs' \in Nat /\ None \notin Procs
    <3>1. epochs' \in Nat
      BY <2>1, TypedOf, BoundsAssumption DEF tables, TablesOK
    <3>. QED
      BY <2>1, <3>1, TablesStay, NoneAssumption
  <2>3. Started' = Started /\ \A r : Undone(r) => Undone(r)'
    BY <2>1 DEF Started, Undone
  <2>4. \A q \in Procs : Stage(q)'
    <3>1. \A q \in Started : None \notin proc[q].before
      BY <2>2 DEF IInv, Over, Started
    <3>. QED
      BY <2>1, <2>2, <2>3, <3>1, StageStays
  <2>5. \A n \in Started' : Shown(n)'
    BY <2>1, <2>2, <2>3, ShownStays
  <2>6. Typed'
    BY <2>1 DEF tables, IInv, Typed, TypeOK, Started, Busy
  <2>7. Over' /\ Modelled'
    BY <2>1 DEF tables, IInv, Over, Modelled, Started, LoadsChecked
  <2>. QED
    BY <2>4, <2>5, <2>6, <2>7 DEF IInv
<1>2. CASE NewEpoch
  BY <1>2, NewEpochHolds
<1>3. CASE Finished
  BY <1>1, <1>3 DEF Finished
<1>4. ASSUME NEW p \in Procs,
             \/ Start(p) \/ Latest(p) \/ Stop(p)
             \/ PublishPrediction(p) \/ LoadSources(p) \/ PublishModel(p)
             \/ LoadFile(p) \/ ObjectId(p) \/ FacilityId(p) \/ BuildRecommendation(p)
             \/ AddRecommendations(p) \/ GetRecommendation(p) \/ InspectFile(p)
             \/ PublishObservation(p) \/ LinkObservation(p) \/ AddFile(p)
             \/ Select(p) \/ SelectHistory(p) \/ LoadRecommendation(p) \/ UpdateRecommendation(p)
      PROVE  IInv'
  BY <1>4, StartHolds, LatestHolds, StopHolds, PublishPredictionHolds, LoadSourcesHolds,
     PublishModelHolds, LoadFileHolds, ObjectIdHolds, FacilityIdHolds, BuildRecommendationHolds,
     AddRecommendationsHolds, GetRecommendationHolds, InspectFileHolds, PublishObservationHolds,
     LinkObservationHolds, AddFileHolds, SelectHolds, SelectHistoryHolds,
     LoadRecommendationHolds, UpdateRecommendationHolds
<1>. QED
  BY <1>1, <1>2, <1>3, <1>4 DEF Next
------------------------------------------------------------------------------
(***************************************************************************)
(* The theorems.                                                           *)
(***************************************************************************)
\* What every command and request may rely on, whatever the others do and
\* wherever they are interrupted (forecast/publish.py, recommendation/publish.py,
\* observation/publish.py, model.py Recommendation).
THEOREM Invariant == Spec => []IInv
  BY InitHolds, NextHolds, PTL DEF Spec

\* A publication is all there or, but for the observation of a forecast, not at
\* all: the recommendations of a file are published together, each once and in
\* its order, under one epoch; every model is of the object whose predicted
\* observation it is attached to, and a forecast that is done has them all.
THEOREM WholePublications == Spec => []PublishedInv
<1>1. IInv => PublishedInv
  <2> SUFFICES ASSUME IInv PROVE PublishedInv
    OBVIOUS
  <2>1. TypeOK
    BY DEF IInv, Typed
  <2>2. BatchWhole
    <3> SUFFICES ASSUME NEW p \in Started, proc[p].kind = "file"
                 PROVE  LET rows == proc[p].on.predictions IN
                        /\ Of(p) = {} \/ \E before \in 0..Len(recommendations) :
                             /\ Of(p) = (before + 1)..(before + Len(rows))
                             /\ \A n \in DOMAIN rows : recommendations[before + n].prediction = rows[n]
                        /\ \A r \in Of(p) : recommendations[r].epoch = proc[p].epoch
                        /\ proc[p].end = "done" => Of(p) # {}
      BY DEF BatchWhole
    <3>1. Filing(p)
      BY DEF IInv, Stage, Started
    <3>2. CASE proc[p].end = "done"
      <4> DEFINE rows == proc[p].on.predictions
      <4>1. /\ Len(rows) \in Nat /\ Len(rows) >= 1 /\ Batch(p)
        BY <3>1, <3>2 DEF Filing
      <4>2. PICK before \in 0..Len(recommendations) :
              /\ Of(p) = (before + 1)..(before + Len(rows))
              /\ \A n \in DOMAIN rows : recommendations[before + n].prediction = rows[n]
        BY <4>1 DEF Batch
      <4>3. before + 1 \in Of(p)
        BY <4>1, <4>2, TypedOf DEF TablesOK
      <4>4. \A r \in Of(p) : recommendations[r].epoch = proc[p].epoch
        BY <4>1 DEF Batch
      <4>. QED
        BY <4>2, <4>3, <4>4
    <3>3. CASE proc[p].end # "done"
      BY <3>1, <3>3 DEF Filing
    <3>. QED
      BY <3>2, <3>3
  <2>3. ModelsOfObject
    <3>1. \A p \in Started : Done(p, "forecast") => Published(p, proc[p].on.models)
      BY DEF IInv, Stage, Forecasting, Done, Started
    <3>. QED
      BY <3>1 DEF ModelsOfObject, Published, IInv, Modelled
  <2>. QED
    BY <2>1, <2>2, <2>3 DEF PublishedInv
<1>. QED
  BY <1>1, Invariant, PTL

\* What the observer decided before asking is not offered again, and is in the
\* history, unless a decision on it was taken back (Recommendation.next,
\* Recommendation.history, the PUT of the endpoint).
THEOREM Seen == Spec => []DecisionSeen
<1>1. IInv => DecisionSeen
  <2> SUFFICES ASSUME IInv, NEW d \in Started, NEW n \in Started,
                      Done(d, "decide"), proc[d].on.value, d \in proc[n].before,
                      ~Undone(proc[d].on.recommendation)
               PROVE  LET r == proc[d].on.recommendation IN
                      /\ Done(n, "next") => r \notin proc[n].left
                      /\ Done(n, "history") /\ proc[n].on.epoch = recommendations[r].epoch
                           => r \in proc[n].left
    BY DEF DecisionSeen, Undone
  <2>. QED
    BY DEF IInv, Shown
<1>. QED
  BY <1>1, Invariant, PTL

\* What is offered next is of an epoch that was the latest while the observer
\* was asking, and of the facility asked for (Recommendation.next).
THEOREM OfTonight == Spec => []NextOfTonight
<1>1. IInv => NextOfTonight
  <2>1. IInv => \A n \in Started : Done(n, "next") => Asking(n)
    BY DEF IInv, Stage, Started, Done
  <2>. QED
    BY <2>1 DEF NextOfTonight, Asking, Done
<1>. QED
  BY <1>1, Invariant, PTL

\* A recommendation's observation is replaced only with --force, or by one that
\* was not over when the one that replaces it began (observation/publish.py
\* recommendation and run).
THEOREM Linked == Spec => LinkKept
<1> DEFINE Kept == \A r \in Rows(recommendations) : LET old == recommendations[r].observation IN
        old # 0 /\ recommendations'[r].observation # old =>
          \E p \in Busy : /\ proc[p].kind = "observe" /\ proc[p].on.recommendation = r
                         /\ (proc[p].on.force \/ observations[old].by \notin proc[p].before)
<1>1. IInv /\ [Next]_vars => [Kept]_vars
  <2> SUFFICES ASSUME IInv, Next, NEW r \in Rows(recommendations),
                      recommendations[r].observation # 0,
                      recommendations'[r].observation # recommendations[r].observation
               PROVE  \E p \in Busy : /\ proc[p].kind = "observe" /\ proc[p].on.recommendation = r
                         /\ (proc[p].on.force
                              \/ observations[recommendations[r].observation].by \notin proc[p].before)
    OBVIOUS
  <2>1. /\ recommendations \in Seq(RecommendationRow) /\ r \in DOMAIN recommendations
        /\ recommendations[r] \in RecommendationRow
    BY TypedOf DEF TablesOK, Rows
  <2>2. ASSUME NEW p \in Procs, AddRecommendations(p)
        PROVE  FALSE
    <3>1. p \in Busy /\ recommendations' = recommendations \o proc[p].new
      BY <2>2 DEF AddRecommendations, At
    <3>2. proc[p].new \in Seq(RecommendationRow)
      <4>1. Head(proc[p].todo) = "add_recommendations"
        BY <2>2 DEF AddRecommendations, At
      <4>2. Building(p)
        BY <3>1, <4>1, KindOf, Forecaster, Filer, Giver, Watcher, Observer DEF AllKinds
      <4>. QED
        BY <4>2 DEF Building
    <3>3. recommendations'[r] = recommendations[r]
      BY <2>1, <3>1, <3>2, ConcatProperties
    <3>. QED
      BY <3>3
  <2>3. ASSUME NEW p \in Procs, UpdateRecommendation(p)
        PROVE  FALSE
    <3>1. p \in Busy /\ proc[p].on.column \in Columns
      <4>1. p \in Busy /\ Head(proc[p].todo) = "update"
        BY <2>3 DEF UpdateRecommendation, At
      <4>2. proc[p].kind = "decide"
        BY <4>1, KindOf, Forecaster, Filer, Giver, Watcher, Observer DEF AllKinds
      <4>. QED
        BY <4>1, <4>2, KindOf DEF Stage, Deciding
    <3>2. \/ recommendations' = recommendations
          \/ recommendations' = [recommendations EXCEPT
                ![proc[p].on.recommendation][proc[p].on.column] = proc[p].on.value]
      BY <2>3 DEF UpdateRecommendation
    <3> DEFINE new == [recommendations[r] EXCEPT ![proc[p].on.column] = proc[p].on.value]
    <3>3. new.observation = recommendations[r].observation
      BY <2>1, <3>1 DEF Columns, RecommendationRow
    <3>4. recommendations'[r] = recommendations[r] \/ recommendations'[r] = new
      BY <2>1, <3>2
    <3> HIDE DEF new
    <3>. QED
      BY <3>3, <3>4
  <2>4. PICK p \in Procs : LinkObservation(p)
    <3>1. recommendations' # recommendations
      OBVIOUS
    <3>2. ASSUME NewEpoch \/ Finished
          PROVE  recommendations' = recommendations
      BY <3>2 DEF NewEpoch, Finished, vars, tables
    <3>3. ASSUME NEW p \in Procs,
                 \/ Start(p) \/ Latest(p) \/ Stop(p) \/ PublishPrediction(p) \/ LoadSources(p)
                 \/ PublishModel(p) \/ LoadFile(p) \/ ObjectId(p) \/ FacilityId(p)
                 \/ BuildRecommendation(p)
          PROVE  recommendations' = recommendations
      BY <3>3 DEF Start, Latest, Stop, PublishPrediction, LoadSources, PublishModel, LoadFile,
         ObjectId, FacilityId, BuildRecommendation, tables
    <3>4. ASSUME NEW p \in Procs,
                 \/ GetRecommendation(p) \/ InspectFile(p) \/ PublishObservation(p) \/ AddFile(p)
                 \/ Select(p) \/ SelectHistory(p) \/ LoadRecommendation(p)
          PROVE  recommendations' = recommendations
      BY <3>4 DEF GetRecommendation, InspectFile, PublishObservation, AddFile, Select,
         SelectHistory, LoadRecommendation, tables
    <3>5. \E p \in Procs : LinkObservation(p) \/ AddRecommendations(p) \/ UpdateRecommendation(p)
      BY <3>1, <3>2, <3>3, <3>4 DEF Next
    <3>. QED
      BY <2>2, <2>3, <3>5
  <2>5. /\ p \in Busy /\ proc[p].kind = "observe" /\ proc[p].on.recommendation # 0 /\ Unlinked(p)
    <3>1. p \in Busy /\ Head(proc[p].todo) = "link"
      BY <2>4 DEF LinkObservation, At
    <3>. QED
      BY <3>1, KindOf, Forecaster, Filer, Giver, Watcher, Observer DEF AllKinds
  <2>6. proc[p].on.recommendation = r
    BY <2>1, <2>4 DEF LinkObservation
  <2>. QED
    BY <2>5, <2>6 DEF Unlinked
<1>. QED
  BY <1>1, Invariant, PTL DEF Spec, LinkKept

\* The data of every model are what the schema of its type says, and data that
\* are, are refused only by an IndexError; if loading a file does what
\* schema/typing.py does (the run computes it from the schemas).
THEOREM WellFormed ==
  ASSUME LoadsChecked
  PROVE  Spec => []ModelsWellFormed
<1>1. IInv => ModelsWellFormed
  <2> SUFFICES ASSUME IInv PROVE ModelsWellFormed
    OBVIOUS
  <2>1. \A p \in Started : proc[p].kind = "forecast" => Forecasting(p)
    BY DEF IInv, Stage, Started
  <2>2. \A m \in models : m.conforms
    BY DEF IInv, Modelled
  <2>. QED
    BY <2>1, <2>2 DEF ModelsWellFormed, Forecasting
<1>. QED
  BY <1>1, Invariant, PTL
==============================================================================
