------------------------- MODULE ObjectRecords_proofs -------------------------
(***************************************************************************)
(* Theorems about ObjectRecords, for any number of programs, things,       *)
(* classes and alerts.                                                     *)
(***************************************************************************)
EXTENDS ObjectRecords, SequenceTheorems, WellFoundedInduction, TLAPS

(***************************************************************************)
(* What each program has still to do.                                      *)
(***************************************************************************)
StepNames ==
  {"from_name", "search_name", "search_object", "get_record", "object_type", "add_type",
   "reload", "update", "add_object", "find_object", "add_observation", "add_alert",
   "backfill_database", "next_alert", "find_tag", "add_tag", "name_tag", "load_object",
   "add_alias", "update_prediction"}

\* An object's attributes are sought; then its type; then they are written.
Asking ==
  {<<"search_name", "search_object", "object_type", "update">>,
   <<"search_object", "object_type", "update">>, <<"get_record", "object_type", "update">>}
Typing(last) == {<<"object_type", last>>, <<"add_type", last>>}
Writing == {<<"reload", "update">>, <<"update">>}

\* What is left of an alert; rest is what comes after it, if any.
Rests == {<<>>, <<"backfill_database">>, <<"next_alert">>}
Seeking(rest) == <<"find_object", "add_observation", "add_alert">> \o rest
Adding(rest) == <<"add_object", "add_observation", "add_alert">> \o rest
Observing(rest) == <<"add_observation", "add_alert">> \o rest
Alerting(rest) == <<"add_alert">> \o rest

\* What is left of a tag.
TagSteps ==
  {<<"find_tag">>, <<"add_tag", "name_tag", "load_object", "add_alias">>,
   <<"name_tag", "load_object", "add_alias">>, <<"load_object", "add_alias">>}
------------------------------------------------------------------------------
(***************************************************************************)
(* The inductive invariant.                                                *)
(***************************************************************************)
Row(T) ==
  [of : Things, names : SUBSET Providers, class : T, history : Seq(T \cup SUBSET Procs),
   version : 0..MaxVersion, pred : SUBSET Procs, added : Procs \cup {None},
   had : SUBSET (T \cup SUBSET Procs), stale : BOOLEAN]
Call(T) ==
  [kind : AllKinds \cup {None}, of : Things \cup {None}, by : Given \cup {None},
   todo : Seq(StepNames), row : Nat, snap : Row(T) \cup {None},
   answer : TNSRecords \cup (SUBSET (1..MaxTime)) \cup {None}, time : 0..MaxTime,
   previous : SUBSET (1..MaxTime), met : SUBSET Procs,
   end : Ends \cup {None}]

\* Every variable has its type.
Typed ==
  /\ tns \in [Things -> TNSRecords] /\ today \in 0..MaxDay
  /\ file # None => file \in [day : 0..today, tns : [Things -> TNSRecords]]
  /\ held # None =>
       /\ held \in [updated : 0..today, day : 0..today, tns : [Things -> TNSRecords]]
       /\ held.updated <= held.day
  /\ Unknown \in types /\ types \subseteq Classes \cup {Unknown} /\ rows \in Seq(Row(types))
  /\ tags \in Seq([object : DOMAIN rows, by : Procs, named : BOOLEAN])
  /\ observations \in Seq([object : DOMAIN rows, time : 1..MaxTime, by : Started, new : BOOLEAN])
  /\ alerts \subseteq DOMAIN observations
  /\ proc \in [Procs -> Call(types)]
  /\ \A i \in DOMAIN rows : IF rows[i].added = None THEN i = 1 ELSE rows[i].added \in Started

\* p holds an object as it was loaded: the names that the stream and the
\* catalog gave it are its own still, and no name is gone but from a stale row.
Loaded(p) ==
  LET run == proc[p]
      row == rows[run.row] IN
  /\ run.row \in DOMAIN rows /\ run.snap \in Row(types)
  /\ \A name \in {"antares", "ztf"} : name \in run.snap.names <=> name \in row.names
  /\ row.stale \/ run.snap.names \subseteq row.names

\* The type that TNS gives is there, or p is yet to look for it or to add it.
Told(p) == proc[p].answer \in TNSRecords
Knows(p) == Told(p) /\ proc[p].answer.class \in types
Types(p, last) ==
  /\ Told(p) /\ proc[p].todo \in Typing(last)
  /\ proc[p].todo = <<"add_type", last>> /\ proc[p].answer.class \in types => proc[p].met # {}

\* An object that has a name of a survey under which p adds the thing was added
\* by one that p has met.
Unseen(p) ==
  \A i \in DOMAIN rows, name \in {"antares", "ztf"} :
    rows[i].of = proc[p].of /\ name \in rows[i].names =>
      rows[i].added \in proc[p].met \/ (proc[p].kind = "catalog" /\ proc[p].by # name)

\* An update_object of either manager.
UpdatingObject(p) ==
  LET run == proc[p] IN
  \/ run.kind \in {"query", "catalog"} /\ run.row = 0 /\ run.todo = <<"from_name">>
  \/ /\ run.kind \in {"query", "catalog"} /\ Loaded(p)
     /\ run.todo \in Asking \/ Types(p, "update") \/ (run.todo \in Writing /\ Knows(p))
  \/ /\ run.kind = "catalog" /\ run.row = 0 /\ Unseen(p)
     /\ run.todo = AddNew \/ Types(p, "add_object") \/ (run.todo = <<"add_object">> /\ Knows(p))

\* The observations that p has added, and those of programs that were over
\* when p began.
Own(p) == {i \in DOMAIN observations : observations[i].by = p}
Before(p) == {i \in DOMAIN observations : observations[i].by \notin proc[p].met \cup {p}}

\* p does not find object i by the names of its alert: another is found first.
Unfound(p, i) ==
  /\ rows[i].of = proc[p].of => "antares" \notin rows[i].names
  /\ rows[i].of = proc[p].of /\ "ztf" \in rows[i].names =>
       \E k \in DOMAIN rows : rows[k].of = proc[p].of /\ "antares" \in rows[k].names

\* The times of the alerts that p has still to write after this one.
Later(p, rest) == IF rest = <<"next_alert">> THEN proc[p].answer ELSE proc[p].previous
Found(p) == proc[p].row \in DOMAIN rows /\ rows[proc[p].row].of = proc[p].of

\* p has no observation of a time in T; those before p that have were not of
\* what it finds; and of the times that are not in T there are observations.
ToWrite(p, T, rest) ==
  /\ T \subseteq 1..MaxTime /\ \A i \in Own(p) : observations[i].time \notin T
  /\ rest = <<>> => proc[p].previous = {}
  /\ rest = <<"next_alert">> =>
       /\ \A i \in Before(p) : observations[i].time \in T => Unfound(p, observations[i].object)
       /\ \A t \in proc[p].previous \ T : \E i \in DOMAIN observations :
            observations[i].time = t /\ rows[observations[i].object].of = proc[p].of
Written(p) == Own(p) \subseteq alerts /\ \E i \in Own(p) : observations[i].new

\* The next alert of p is to be written.
Pending(p, rest) ==
  /\ proc[p].time \in (1..MaxTime) \ Later(p, rest)
  /\ ToWrite(p, Later(p, rest) \cup {proc[p].time}, rest)
  /\ IF rest = <<"next_alert">> THEN Written(p) ELSE Own(p) = {}

\* Whatever was written of objects that p finds was of the object it found.
FoundFirst(p) ==
  \A i \in Before(p) : observations[i].object = proc[p].row \/ Unfound(p, observations[i].object)

\* persist_to_database: an object is to be found, or added; then an observation
\* of it; then its alert; then what comes after this alert.
ToFind(p, rest) == proc[p].todo = Seeking(rest) /\ Pending(p, rest)
ToAdd(p, rest) ==
  /\ proc[p].todo = Adding(rest) /\ Pending(p, rest)
  /\ \A i \in Before(p) : Unfound(p, observations[i].object)
  /\ Unseen(p)
ToObserve(p, rest) ==
  /\ proc[p].todo = Observing(rest) /\ Found(p) /\ FoundFirst(p) /\ Pending(p, rest)
  /\ rest = <<"next_alert">> => \A i \in Before(p) :
       observations[i].time = proc[p].time => observations[i].object # proc[p].row
ToAlert(p, rest) ==
  /\ proc[p].todo = Alerting(rest) /\ Found(p) /\ FoundFirst(p)
  /\ ToWrite(p, Later(p, rest), rest) /\ \E i \in Own(p) : observations[i].new
  /\ \E i \in Own(p) : \A j \in Own(p) : j <= i /\ (j = i \/ j \in alerts)
ToGoOn(p, rest) ==
  /\ rest # <<>> /\ proc[p].todo = rest /\ Found(p) /\ FoundFirst(p)
  /\ ToWrite(p, Later(p, rest), rest) /\ Written(p)
Ingesting(p, rest) ==
  \/ ToFind(p, rest) \/ ToAdd(p, rest) \/ ToObserve(p, rest) \/ ToAlert(p, rest)
  \/ ToGoOn(p, rest)

\* get_or_create of a tag, and the prediction of a forecast.
Tagging(p) ==
  LET run == proc[p] IN
  /\ run.row \in DOMAIN rows
  /\ run.todo \in TagSteps \/ (run.todo = <<"add_alias">> /\ Loaded(p))
  /\ Head(run.todo) = "add_tag" /\ TagsOf(run.row) # {} => run.met # {}
Predicting(p) ==
  LET run == proc[p] IN
  /\ run.row \in DOMAIN rows
  /\ \/ run.todo = <<"load_object", "update_prediction">>
     \/ run.todo = <<"update_prediction">> /\ Loaded(p)

\* A program is at a step of its kind.
Doing(p) ==
  \/ UpdatingObject(p)
  \/ proc[p].kind = "ingest" /\ \E rest \in Rests : Ingesting(p, rest)
  \/ proc[p].kind = "tag" /\ Tagging(p)
  \/ proc[p].kind = "forecast" /\ Predicting(p)

\* What a delivery has written that came to its end.
Complete(p) ==
  /\ Written(p)
  /\ \A t \in proc[p].previous : \E i \in DOMAIN observations :
       observations[i].time = t /\ rows[observations[i].object].of = proc[p].of

\* Every program that was started is at its work, or is over.
AtWork(p) ==
  LET run == proc[p] IN
  /\ run.kind = None => run = Unstarted
  /\ run.kind # None =>
       /\ run.of \in Things /\ run.row \in 0..Len(rows) /\ run.met \subseteq Started
       /\ IF run.end = None THEN Doing(p) ELSE run.todo = <<>>
  /\ run.kind = "ingest" /\ run.end = "done" => Complete(p)
WorkInv == \A p \in Procs : AtWork(p)

\* Two programs that are at work have met.
MetInv == \A p, q \in Busy : p # q => p \in proc[q].met

\* A tag is whole, but for what was written over, or the program that added it
\* and is to make it so is at work or was stopped.
Naming(p, t) ==
  LET run == proc[p] IN
  /\ run.kind = "tag" /\ run.row = tags[t].object /\ tags[t].by = p
  /\ \/ run.end = "stopped"
     \/ /\ run.end = None
        /\ \/ run.todo = <<"name_tag", "load_object", "add_alias">>
           \/ tags[t].named /\ run.todo \in {<<"load_object", "add_alias">>, <<"add_alias">>}
TagInv ==
  \A t \in DOMAIN tags : LET row == rows[tags[t].object] IN
    \/ tags[t].named /\ ("tag" \in row.names \/ row.stale)
    \/ \E p \in Procs : Naming(p, t)

\* The inductive invariant of the objects and their tables (data/broker, data/tns, model.py).
IInv ==
  /\ Typed /\ WorkInv /\ MetInv /\ TagInv
  /\ HistoryComplete /\ ObservedOnce /\ OneObjectPerName /\ RaisedForCause
------------------------------------------------------------------------------
(***************************************************************************)
(* What is left to do, and the ways in which a program changes.            *)
(***************************************************************************)
\* The first step of what is left, and what is left after it.
LEMMA ConcatTail ==
  ASSUME NEW S, NEW s \in Seq(S), NEW t \in Seq(S), s # <<>>
  PROVE  /\ s \o t \in Seq(S) /\ s \o t # <<>>
         /\ Head(s \o t) = Head(s) /\ Tail(s \o t) = Tail(s) \o t
<1>1. Len(s) \in Nat /\ Len(s) > 0 /\ Len(t) \in Nat
  BY EmptySeq, LenProperties
<1>2. /\ s \o t \in Seq(S) /\ Len(s \o t) = Len(s) + Len(t)
      /\ \A i \in 1..(Len(s) + Len(t)) : (s \o t)[i] = IF i <= Len(s) THEN s[i] ELSE t[i - Len(s)]
  BY ConcatProperties
<1>3. s \o t # <<>>
  BY <1>1, <1>2
<1>4. /\ Tail(s) \in Seq(S) /\ Len(Tail(s)) = Len(s) - 1
      /\ \A i \in 1..Len(Tail(s)) : Tail(s)[i] = s[i + 1]
  BY HeadTailProperties
<1>5. /\ Tail(s \o t) \in Seq(S) /\ Len(Tail(s \o t)) = Len(s) + Len(t) - 1
      /\ \A i \in 1..(Len(s) + Len(t) - 1) : Tail(s \o t)[i] = (s \o t)[i + 1]
  BY <1>2, <1>3, HeadTailProperties
<1>6. /\ Tail(s) \o t \in Seq(S) /\ Len(Tail(s) \o t) = Len(s) - 1 + Len(t)
      /\ \A i \in 1..(Len(s) - 1 + Len(t)) :
           (Tail(s) \o t)[i] = IF i <= Len(s) - 1 THEN Tail(s)[i] ELSE t[i - (Len(s) - 1)]
  BY <1>4, ConcatProperties
<1>7. ASSUME NEW i \in 1..(Len(s) + Len(t) - 1) PROVE Tail(s \o t)[i] = (Tail(s) \o t)[i]
  BY <1>1, <1>2, <1>4, <1>5, <1>6, <1>7
<1>8. Tail(s \o t) = Tail(s) \o t
  BY <1>1, <1>5, <1>6, <1>7, SeqEqual
<1>9. Head(s \o t) = Head(s)
  BY <1>1, <1>2
<1>. QED
  BY <1>2, <1>3, <1>8, <1>9

\* One step is put before others (Then).
LEMMA PutFirst ==
  ASSUME NEW S, NEW a \in S, NEW b \in S, NEW c \in S
  PROVE  <<a>> \o <<b>> = <<a, b>> /\ <<a>> \o <<b, c>> = <<a, b, c>>
<1>1. /\ <<a>> \in Seq(S) /\ <<b>> \in Seq(S) /\ <<b, c>> \in Seq(S)
      /\ <<a, b>> \in Seq(S) /\ <<a, b, c>> \in Seq(S)
      /\ Len(<<a>>) = 1 /\ Len(<<b>>) = 1 /\ Len(<<b, c>>) = 2
      /\ Len(<<a, b>>) = 2 /\ Len(<<a, b, c>>) = 3
  OBVIOUS
<1>2. <<a>> \o <<b>> = <<a, b>>
  <2> DEFINE s == <<a>> \o <<b>>
  <2>1. s \in Seq(S) /\ Len(s) = 2 /\ s[1] = a /\ s[2] = b
    BY <1>1, ConcatProperties
  <2> HIDE DEF s
  <2>2. \A i \in 1..2 : s[i] = <<a, b>>[i]
    BY <2>1
  <2>3. s = <<a, b>>
    BY <1>1, <2>1, <2>2, SeqEqual
  <2>. QED
    BY <2>3 DEF s
<1>3. <<a>> \o <<b, c>> = <<a, b, c>>
  <2> DEFINE s == <<a>> \o <<b, c>>
  <2>1. s \in Seq(S) /\ Len(s) = 3 /\ s[1] = a /\ s[2] = b /\ s[3] = c
    BY <1>1, ConcatProperties
  <2> HIDE DEF s
  <2>2. \A i \in 1..3 : s[i] = <<a, b, c>>[i]
    BY <2>1
  <2>3. s = <<a, b, c>>
    BY <1>1, <2>1, <2>2, SeqEqual
  <2>. QED
    BY <2>3 DEF s
<1>. QED
  BY <1>2, <1>3

\* An alert is written in three or four steps (data/broker/alert.py to_database).
LEMMA AlertSteps ==
  ASSUME NEW rest \in Rests
  PROVE  /\ rest \in Seq(StepNames)
         /\ {Seeking(rest), Adding(rest), Observing(rest), Alerting(rest)} \subseteq Seq(StepNames)
         /\ Head(Seeking(rest)) = "find_object" /\ Tail(Seeking(rest)) = Observing(rest)
         /\ Head(Adding(rest)) = "add_object" /\ Tail(Adding(rest)) = Observing(rest)
         /\ Head(Observing(rest)) = "add_observation" /\ Tail(Observing(rest)) = Alerting(rest)
         /\ Head(Alerting(rest)) = "add_alert" /\ Tail(Alerting(rest)) = rest
         /\ <<>> \notin {Seeking(rest), Adding(rest), Observing(rest), Alerting(rest)}
         /\ <<"add_object">> \o Observing(rest) = Adding(rest)
<1>1. rest \in Seq(StepNames)
  <2>1. /\ <<>> \in Seq(StepNames) /\ <<"backfill_database">> \in Seq(StepNames)
        /\ <<"next_alert">> \in Seq(StepNames)
    BY DEF StepNames
  <2>. QED
    BY <2>1 DEF Rests
<1>2. /\ <<"find_object", "add_observation", "add_alert">> \in Seq(StepNames)
      /\ <<"add_object", "add_observation", "add_alert">> \in Seq(StepNames)
      /\ <<"add_observation", "add_alert">> \in Seq(StepNames)
      /\ <<"add_alert">> \in Seq(StepNames) /\ <<"add_object">> \in Seq(StepNames)
  BY DEF StepNames
<1>3. /\ Seeking(rest) \in Seq(StepNames) /\ Seeking(rest) # <<>>
      /\ Head(Seeking(rest)) = "find_object" /\ Tail(Seeking(rest)) = Observing(rest)
  <2>1. /\ Head(<<"find_object", "add_observation", "add_alert">>) = "find_object"
        /\ Tail(<<"find_object", "add_observation", "add_alert">>) = <<"add_observation", "add_alert">>
    OBVIOUS
  <2>. QED
    BY <1>1, <1>2, <2>1, ConcatTail DEF Seeking, Observing
<1>4. /\ Adding(rest) \in Seq(StepNames) /\ Adding(rest) # <<>>
      /\ Head(Adding(rest)) = "add_object" /\ Tail(Adding(rest)) = Observing(rest)
  <2>1. /\ Head(<<"add_object", "add_observation", "add_alert">>) = "add_object"
        /\ Tail(<<"add_object", "add_observation", "add_alert">>) = <<"add_observation", "add_alert">>
    OBVIOUS
  <2>. QED
    BY <1>1, <1>2, <2>1, ConcatTail DEF Adding, Observing
<1>5. /\ Observing(rest) \in Seq(StepNames) /\ Observing(rest) # <<>>
      /\ Head(Observing(rest)) = "add_observation" /\ Tail(Observing(rest)) = Alerting(rest)
  <2>1. /\ Head(<<"add_observation", "add_alert">>) = "add_observation"
        /\ Tail(<<"add_observation", "add_alert">>) = <<"add_alert">>
    OBVIOUS
  <2>. QED
    BY <1>1, <1>2, <2>1, ConcatTail DEF Observing, Alerting
<1>6. /\ Alerting(rest) \in Seq(StepNames) /\ Alerting(rest) # <<>>
      /\ Head(Alerting(rest)) = "add_alert" /\ Tail(Alerting(rest)) = rest
  <2>1. Head(<<"add_alert">>) = "add_alert" /\ Tail(<<"add_alert">>) = <<>>
    OBVIOUS
  <2>2. <<>> \o rest = rest
    BY <1>1, ConcatEmptySeq
  <2>. QED
    BY <1>1, <1>2, <2>1, <2>2, ConcatTail DEF Alerting
<1>7. <<"add_object">> \o Observing(rest) = Adding(rest)
  <2>1. <<"add_object">> \o <<"add_observation", "add_alert">> = <<"add_object",
                                                                   "add_observation", "add_alert">>
    <3>1. /\ "add_object" \in StepNames /\ "add_observation" \in StepNames
          /\ "add_alert" \in StepNames
      BY DEF StepNames
    <3>. QED
      BY <3>1, PutFirst
  <2>2. (<<"add_object">> \o <<"add_observation", "add_alert">>) \o rest = <<"add_object">> \o Observing(rest)
    BY <1>1, <1>2, ConcatAssociative DEF Observing
  <2>. QED
    BY <2>1, <2>2 DEF Adding
<1>. QED
  BY <1>1, <1>3, <1>4, <1>5, <1>6, <1>7

\* The steps of the other programs (data/tns/manager.py, model.py).
LEMMA TodoSteps ==
  /\ \A todo \in Asking \cup Typing("update") \cup Typing("add_object") \cup Writing \cup TagSteps
                 \cup {<<>>, AddNew, <<"from_name">>, <<"add_object">>, <<"add_alias">>,
                       <<"load_object", "update_prediction">>, <<"update_prediction">>} :
       todo \in Seq(StepNames)
  /\ \A last \in {"update", "add_object"} :
       /\ Tail(<<"object_type", last>>) = <<last>> /\ Tail(<<"add_type", last>>) = <<last>>
       /\ <<"add_type">> \o <<last>> = <<"add_type", last>>
       /\ <<"reload">> \o <<last>> = <<"reload", last>>
<1>1. /\ <<"search_name", "search_object", "object_type", "update">> \in Seq(StepNames)
      /\ <<"search_object", "object_type", "update">> \in Seq(StepNames)
      /\ <<"get_record", "object_type", "update">> \in Seq(StepNames)
      /\ <<"get_record", "object_type", "add_object">> \in Seq(StepNames)
      /\ <<"object_type", "update">> \in Seq(StepNames) /\ <<"add_type", "update">> \in Seq(StepNames)
      /\ <<"object_type", "add_object">> \in Seq(StepNames)
      /\ <<"add_type", "add_object">> \in Seq(StepNames)
      /\ <<"reload", "update">> \in Seq(StepNames) /\ <<"update">> \in Seq(StepNames)
  BY DEF StepNames
<1>2. /\ <<"find_tag">> \in Seq(StepNames)
      /\ <<"add_tag", "name_tag", "load_object", "add_alias">> \in Seq(StepNames)
      /\ <<"name_tag", "load_object", "add_alias">> \in Seq(StepNames)
      /\ <<"load_object", "add_alias">> \in Seq(StepNames)
      /\ <<>> \in Seq(StepNames) /\ <<"from_name">> \in Seq(StepNames)
      /\ <<"add_object">> \in Seq(StepNames) /\ <<"add_alias">> \in Seq(StepNames)
      /\ <<"load_object", "update_prediction">> \in Seq(StepNames)
      /\ <<"update_prediction">> \in Seq(StepNames)
  BY DEF StepNames
<1>3. ASSUME NEW last \in {"update", "add_object"}
      PROVE  /\ Tail(<<"object_type", last>>) = <<last>> /\ Tail(<<"add_type", last>>) = <<last>>
             /\ <<"add_type">> \o <<last>> = <<"add_type", last>>
             /\ <<"reload">> \o <<last>> = <<"reload", last>>
  <2>1. Tail(<<"object_type", last>>) = <<last>> /\ Tail(<<"add_type", last>>) = <<last>>
    OBVIOUS
  <2>2. last \in StepNames /\ "add_type" \in StepNames /\ "reload" \in StepNames
    BY DEF StepNames
  <2>. QED
    BY <2>1, <2>2, PutFirst
<1>. QED
  BY <1>1, <1>2, <1>3 DEF Asking, Typing, Writing, TagSteps, AddNew


\* An alert of the backfill is written as the new one is (alert.py backfill_database).
LEMMA AgainSteps ==
  /\ <<"find_object", "add_observation", "add_alert", "next_alert">> \in Seq(StepNames)
  /\ Seeking(<<"next_alert">>) = <<"find_object", "add_observation", "add_alert", "next_alert">>
<1> DEFINE steps == <<"find_object", "add_observation", "add_alert", "next_alert">>
           s == <<"find_object", "add_observation", "add_alert">> \o <<"next_alert">>
<1>1. /\ steps \in Seq(StepNames) /\ Len(steps) = 4
      /\ <<"find_object", "add_observation", "add_alert">> \in Seq(StepNames)
      /\ Len(<<"find_object", "add_observation", "add_alert">>) = 3
      /\ <<"next_alert">> \in Seq(StepNames) /\ Len(<<"next_alert">>) = 1
  BY DEF StepNames
<1>2. /\ s \in Seq(StepNames) /\ Len(s) = 4 /\ s[1] = "find_object" /\ s[2] = "add_observation"
      /\ s[3] = "add_alert" /\ s[4] = "next_alert"
  BY <1>1, ConcatProperties
<1> HIDE DEF s
<1>3. \A i \in 1..4 : s[i] = steps[i]
  BY <1>2
<1>4. s = steps
  BY <1>1, <1>2, <1>3, SeqEqual
<1>. QED
  BY <1>1, <1>4 DEF Seeking, s
\* Only p changes, and remains the call that it is.
Kept(p) ==
  /\ \A q \in Procs \ {p} : proc'[q] = proc[q]
  /\ proc'[p].kind = proc[p].kind /\ proc'[p].of = proc[p].of /\ proc'[p].by = proc[p].by
  /\ proc'[p].previous = proc[p].previous /\ proc'[p].met = proc[p].met

\* A type that is added does not take from what there may be (model.py ObjectType).
LEMMA MoreTypes ==
  ASSUME NEW S, NEW T, S \subseteq T
  PROVE  Row(S) \subseteq Row(T) /\ Call(S) \subseteq Call(T)
<1>1. \A s \in Seq(S \cup SUBSET Procs) : s \in Seq(T \cup SUBSET Procs)
  <2>1. ASSUME NEW s \in Seq(S \cup SUBSET Procs) PROVE s \in Seq(T \cup SUBSET Procs)
    <3>1. s \in [1..Len(s) -> T \cup SUBSET Procs] /\ Len(s) \in Nat
      BY LenProperties, ElementOfSeq
    <3>. QED
      BY <3>1, SeqDef
  <2>. QED
    BY <2>1
<1>2. Row(S) \subseteq Row(T)
  BY <1>1 DEF Row
<1>. QED
  BY <1>2, Zenon DEF Call

\* p goes on, and nothing is over (Then).
LEMMA ThenGoes ==
  ASSUME Typed, NEW p \in Procs, NEW steps \in Seq(StepNames), Then(p, steps),
         proc[p].todo # <<>>
  PROVE  /\ proc' \in [Procs -> Call(types)] /\ Kept(p)
         /\ proc'[p].todo = steps \o Tail(proc[p].todo)
         /\ proc'[p].row = proc[p].row /\ proc'[p].snap = proc[p].snap
         /\ proc'[p].answer = proc[p].answer /\ proc'[p].time = proc[p].time
         /\ proc'[p].end = proc[p].end
<1> DEFINE todo == steps \o Tail(proc[p].todo)
<1>1. proc \in [Procs -> Call(types)] /\ proc[p] \in Call(types)
  BY DEF Typed
<1>2. todo \in Seq(StepNames)
  <2>1. Tail(proc[p].todo) \in Seq(StepNames)
    BY <1>1, HeadTailProperties DEF Call
  <2>. QED
    BY <2>1, ConcatProperties
<1>3. proc' = [proc EXCEPT ![p] = [proc[p] EXCEPT !.todo = todo]]
  BY <1>1 DEF Then
<1> HIDE DEF todo
<1>4. [proc[p] EXCEPT !.todo = todo] \in Call(types)
  BY <1>1, <1>2, ZenonT(40) DEF Call
<1>5. proc' \in [Procs -> Call(types)] /\ proc'[p] = [proc[p] EXCEPT !.todo = todo]
  BY <1>1, <1>3, <1>4
<1>6. \A q \in Procs \ {p} : proc'[q] = proc[q]
  BY <1>1, <1>3
<1>7. proc'[p].todo = todo
  BY <1>1, <1>5 DEF Call
<1>. QED
  BY <1>1, <1>5, <1>6, <1>7 DEF Call, Kept, todo

\* p is over (End).
LEMMA EndGoes ==
  ASSUME Typed, NEW p \in Procs, NEW how \in Ends,
         End(p, how)
  PROVE  /\ proc' \in [Procs -> Call(types)] /\ Kept(p)
         /\ proc'[p].todo = <<>> /\ proc'[p].row = proc[p].row /\ proc'[p].end = how
<1> DEFINE todo == <<>>
           now == [proc[p] EXCEPT !.todo = todo, !.end = how, !.snap = None, !.answer = None]
<1>1. proc \in [Procs -> Call(types)] /\ proc[p] \in Call(types)
  BY DEF Typed
<1>2. todo \in Seq(StepNames)
  BY TodoSteps
<1>3. proc' = [proc EXCEPT ![p] = now]
  BY <1>1 DEF End
<1> HIDE DEF todo
<1>4. now \in Call(types)
  <2>1. how \in Ends \cup {None}
    OBVIOUS
  <2>2. None \in Row(types) \cup {None}
    BY Zenon
  <2>3. None \in TNSRecords \cup (SUBSET (1..MaxTime)) \cup {None}
    OBVIOUS
  <2>. QED
    BY <1>1, <1>2, <2>1, <2>2, <2>3, ZenonT(40) DEF Call
<1>5. now.todo = todo /\ now.end = how /\ now.row = proc[p].row
  BY <1>1 DEF Call
<1>6. /\ now.kind = proc[p].kind /\ now.of = proc[p].of /\ now.by = proc[p].by
      /\ now.previous = proc[p].previous /\ now.met = proc[p].met
  BY <1>1 DEF Call
<1> HIDE DEF now
<1>7. /\ proc' \in [Procs -> Call(types)] /\ proc'[p] = now
      /\ \A q \in Procs \ {p} : proc'[q] = proc[q]
  BY <1>1, <1>3, <1>4
<1>. QED
  BY <1>5, <1>6, <1>7 DEF Kept, todo

\* p loads object i (Load).
LEMMA LoadGoes ==
  ASSUME Typed, NEW p \in Procs, NEW i \in DOMAIN rows, NEW steps \in Seq(StepNames),
         Load(p, i, steps), proc[p].todo # <<>>
  PROVE  /\ proc' \in [Procs -> Call(types)] /\ Kept(p)
         /\ proc'[p].todo = steps \o Tail(proc[p].todo)
         /\ proc'[p].row = i /\ proc'[p].snap = rows[i]
         /\ proc'[p].answer = proc[p].answer /\ proc'[p].time = proc[p].time
         /\ proc'[p].end = proc[p].end
<1> DEFINE todo == steps \o Tail(proc[p].todo)
           snap == rows[i]
           now == [proc[p] EXCEPT !.todo = todo, !.row = i, !.snap = snap]
<1>1. proc \in [Procs -> Call(types)] /\ proc[p] \in Call(types)
  BY DEF Typed
<1>2. todo \in Seq(StepNames)
  <2>1. Tail(proc[p].todo) \in Seq(StepNames)
    BY <1>1, HeadTailProperties DEF Call
  <2>. QED
    BY <2>1, ConcatProperties
<1>3. i \in Nat /\ snap \in Row(types) \cup {None}
  <2>1. rows \in Seq(Row(types))
    BY DEF Typed
  <2>. QED
    BY <2>1, ElementOfSeq, LenProperties
<1>4. proc' = [proc EXCEPT ![p] = now]
  BY <1>1 DEF Load
<1> HIDE DEF todo, snap
<1>5. now \in Call(types)
  BY <1>1, <1>2, <1>3, ZenonT(40) DEF Call
<1>6. /\ now.todo = todo /\ now.row = i /\ now.snap = snap /\ now.answer = proc[p].answer
      /\ now.time = proc[p].time /\ now.end = proc[p].end
  BY <1>1 DEF Call
<1>7. /\ now.kind = proc[p].kind /\ now.of = proc[p].of /\ now.by = proc[p].by
      /\ now.previous = proc[p].previous /\ now.met = proc[p].met
  BY <1>1 DEF Call
<1> HIDE DEF now
<1>8. /\ proc' \in [Procs -> Call(types)] /\ proc'[p] = now
      /\ \A q \in Procs \ {p} : proc'[q] = proc[q]
  BY <1>1, <1>4, <1>5
<1>. QED
  BY <1>6, <1>7, <1>8 DEF Kept, todo, snap

\* p has an answer of TNS (manager.py).
LEMMA AnswerGoes ==
  ASSUME Typed, NEW p \in Procs, NEW answer \in TNSRecords, proc[p].todo # <<>>,
         proc' = [proc EXCEPT ![p].todo = Tail(@), ![p].answer = answer]
  PROVE  /\ proc' \in [Procs -> Call(types)] /\ Kept(p)
         /\ proc'[p].todo = Tail(proc[p].todo) /\ proc'[p].answer = answer
         /\ proc'[p].row = proc[p].row /\ proc'[p].snap = proc[p].snap
         /\ proc'[p].time = proc[p].time /\ proc'[p].end = proc[p].end
<1> DEFINE todo == Tail(proc[p].todo)
           now == [proc[p] EXCEPT !.todo = todo, !.answer = answer]
<1>1. proc \in [Procs -> Call(types)] /\ proc[p] \in Call(types)
  BY DEF Typed
<1>2. todo \in Seq(StepNames)
  BY <1>1, HeadTailProperties DEF Call
<1>3. proc' = [proc EXCEPT ![p] = now]
  BY <1>1
<1> HIDE DEF todo
<1>4. now \in Call(types)
  <2>1. answer \in TNSRecords \cup (SUBSET (1..MaxTime)) \cup {None}
    OBVIOUS
  <2>. QED
    BY <1>1, <1>2, <2>1, ZenonT(40) DEF Call
<1>5. /\ now.todo = todo /\ now.row = proc[p].row /\ now.snap = proc[p].snap
      /\ now.answer = answer /\ now.time = proc[p].time /\ now.end = proc[p].end
  BY <1>1 DEF Call
<1>6. /\ now.kind = proc[p].kind /\ now.of = proc[p].of /\ now.by = proc[p].by
      /\ now.previous = proc[p].previous /\ now.met = proc[p].met
  BY <1>1 DEF Call
<1> HIDE DEF now
<1>7. /\ proc' \in [Procs -> Call(types)] /\ proc'[p] = now
      /\ \A q \in Procs \ {p} : proc'[q] = proc[q]
  BY <1>1, <1>3, <1>4
<1>. QED
  BY <1>5, <1>6, <1>7 DEF Kept, todo

\* p has found the object, or added it (data/broker/alert.py).
LEMMA RowGoes ==
  ASSUME Typed, NEW p \in Procs, NEW row \in Nat, proc[p].todo # <<>>,
         proc' = [proc EXCEPT ![p].todo = Tail(@), ![p].row = row]
  PROVE  /\ proc' \in [Procs -> Call(types)] /\ Kept(p)
         /\ proc'[p].todo = Tail(proc[p].todo) /\ proc'[p].row = row
         /\ proc'[p].answer = proc[p].answer /\ proc'[p].time = proc[p].time
         /\ proc'[p].end = proc[p].end
<1> DEFINE todo == Tail(proc[p].todo)
           now == [proc[p] EXCEPT !.todo = todo, !.row = row]
<1>1. proc \in [Procs -> Call(types)] /\ proc[p] \in Call(types)
  BY DEF Typed
<1>2. todo \in Seq(StepNames)
  BY <1>1, HeadTailProperties DEF Call
<1>3. proc' = [proc EXCEPT ![p] = now]
  BY <1>1
<1> HIDE DEF todo
<1>4. now \in Call(types)
  BY <1>1, <1>2, ZenonT(40) DEF Call
<1>5. /\ now.todo = todo /\ now.row = row
      /\ now.answer = proc[p].answer /\ now.time = proc[p].time /\ now.end = proc[p].end
  BY <1>1 DEF Call
<1>6. /\ now.kind = proc[p].kind /\ now.of = proc[p].of /\ now.by = proc[p].by
      /\ now.previous = proc[p].previous /\ now.met = proc[p].met
  BY <1>1 DEF Call
<1> HIDE DEF now
<1>7. /\ proc' \in [Procs -> Call(types)] /\ proc'[p] = now
      /\ \A q \in Procs \ {p} : proc'[q] = proc[q]
  BY <1>1, <1>3, <1>4
<1>. QED
  BY <1>5, <1>6, <1>7 DEF Kept, todo

\* p turns to an earlier alert (data/broker/alert.py backfill_database).
LEMMA TimeGoes ==
  ASSUME Typed, NEW p \in Procs, NEW time \in 1..MaxTime, NEW answer \in SUBSET (1..MaxTime),
         NEW todo \in Seq(StepNames),
         proc' = [proc EXCEPT ![p] =
                    [proc[p] EXCEPT !.time = time, !.answer = answer, !.todo = todo]]
  PROVE  /\ proc' \in [Procs -> Call(types)] /\ Kept(p)
         /\ proc'[p].todo = todo /\ proc'[p].row = proc[p].row
         /\ proc'[p].answer = answer /\ proc'[p].time = time /\ proc'[p].end = proc[p].end
<1> DEFINE now == [proc[p] EXCEPT !.time = time, !.answer = answer, !.todo = todo]
<1>1. proc \in [Procs -> Call(types)] /\ proc[p] \in Call(types)
  BY DEF Typed
<1>2. proc' = [proc EXCEPT ![p] = now]
  BY <1>1
<1>3. now \in Call(types)
  <2>1. answer \in TNSRecords \cup (SUBSET (1..MaxTime)) \cup {None} /\ time \in 0..MaxTime
    BY BoundsAssumption
  <2>. QED
    BY <1>1, <2>1, ZenonT(40) DEF Call
<1>4. /\ now.todo = todo /\ now.row = proc[p].row
      /\ now.answer = answer /\ now.time = time /\ now.end = proc[p].end
  BY <1>1 DEF Call
<1>5. /\ now.kind = proc[p].kind /\ now.of = proc[p].of /\ now.by = proc[p].by
      /\ now.previous = proc[p].previous /\ now.met = proc[p].met
  BY <1>1 DEF Call
<1> HIDE DEF now
<1>6. /\ proc' \in [Procs -> Call(types)] /\ proc'[p] = now
      /\ \A q \in Procs \ {p} : proc'[q] = proc[q]
  BY <1>1, <1>2, <1>3
<1>. QED
  BY <1>4, <1>5, <1>6 DEF Kept


\* p goes on, or is over when nothing is left (Proceed).
LEMMA ProceedGoes ==
  ASSUME Typed, NEW p \in Procs, Proceed(p), proc[p].todo # <<>>
  PROVE  /\ proc' \in [Procs -> Call(types)] /\ Kept(p) /\ proc'[p].row = proc[p].row
         /\ Tail(proc[p].todo) = <<>> => proc'[p].todo = <<>> /\ proc'[p].end = "done"
         /\ Tail(proc[p].todo) # <<>> =>
              /\ proc'[p].todo = Tail(proc[p].todo) /\ proc'[p].snap = proc[p].snap
              /\ proc'[p].answer = proc[p].answer /\ proc'[p].time = proc[p].time
              /\ proc'[p].end = proc[p].end
<1> DEFINE todo == proc[p].todo
<1>1. todo \in Seq(StepNames)
  BY DEF Typed, Call
<1>2. /\ Tail(todo) \in Seq(StepNames) /\ Len(todo) \in Nat /\ Len(Tail(todo)) = Len(todo) - 1
      /\ <<>> \o Tail(todo) = Tail(todo) /\ <<>> \in Seq(StepNames)
  BY <1>1, LenProperties, HeadTailProperties, ConcatEmptySeq
<1>3. Tail(todo) = <<>> <=> Len(todo) = 1
  <2>1. Tail(todo) = <<>> <=> Len(Tail(todo)) = 0
    BY <1>2, EmptySeq
  <2>. QED
    BY <1>2, <2>1
<1>4. CASE Len(todo) = 1
  BY <1>3, <1>4, EndGoes DEF Proceed, Ends
<1>5. CASE Len(todo) # 1
  <2>1. Then(p, <<>>)
    BY <1>5 DEF Proceed
  <2>. QED
    BY <1>2, <1>3, <1>5, <2>1, ThenGoes
<1>. QED
  BY <1>4, <1>5
\* The first step that is left says what p is at (data/tns/manager.py).
LEMMA UpdatePhases ==
  ASSUME NEW p \in Procs, UpdatingObject(p)
  PROVE  LET run == proc[p] IN
    /\ run.kind \in {"query", "catalog"}
    /\ Head(run.todo) \in {"from_name", "search_name", "search_object", "get_record",
                           "object_type", "add_type", "reload", "update", "add_object"}
    /\ Head(run.todo) = "from_name" => run.row = 0 /\ run.todo = <<"from_name">>
    /\ Head(run.todo) = "search_name" =>
         Loaded(p) /\ run.todo = <<"search_name", "search_object", "object_type", "update">>
    /\ Head(run.todo) = "search_object" =>
         Loaded(p) /\ run.todo = <<"search_object", "object_type", "update">>
    /\ Head(run.todo) = "get_record" =>
         \/ Loaded(p) /\ run.todo = <<"get_record", "object_type", "update">>
         \/ run.kind = "catalog" /\ run.row = 0 /\ run.todo = AddNew /\ Unseen(p)
    /\ Head(run.todo) \in {"object_type", "add_type"} =>
         \/ Loaded(p) /\ Types(p, "update")
         \/ run.kind = "catalog" /\ run.row = 0 /\ Unseen(p) /\ Types(p, "add_object")
    /\ Head(run.todo) = "reload" => Loaded(p) /\ Knows(p) /\ run.todo = <<"reload", "update">>
    /\ Head(run.todo) = "update" => Loaded(p) /\ Knows(p) /\ run.todo = <<"update">>
    /\ Head(run.todo) = "add_object" =>
         /\ run.kind = "catalog" /\ run.row = 0 /\ Unseen(p)
         /\ Knows(p) /\ run.todo = <<"add_object">>
<1> DEFINE run == proc[p]
<1>1. CASE run.kind \in {"query", "catalog"} /\ run.row = 0 /\ run.todo = <<"from_name">>
  BY <1>1
<1>2. CASE run.kind \in {"query", "catalog"} /\ Loaded(p) /\ run.todo \in Asking
  BY <1>2 DEF Asking
<1>3. CASE run.kind \in {"query", "catalog"} /\ Loaded(p) /\ Types(p, "update")
  <2>1. Head(run.todo) \in {"object_type", "add_type"}
    BY <1>3 DEF Types, Typing
  <2>. QED
    BY <1>3, <2>1
<1>4. CASE run.kind \in {"query", "catalog"} /\ Loaded(p) /\ run.todo \in Writing /\ Knows(p)
  BY <1>4 DEF Writing
<1>5. CASE run.kind = "catalog" /\ run.row = 0 /\ Unseen(p) /\ run.todo = AddNew
  BY <1>5 DEF AddNew
<1>6. CASE run.kind = "catalog" /\ run.row = 0 /\ Unseen(p) /\ Types(p, "add_object")
  <2>1. Head(run.todo) \in {"object_type", "add_type"}
    BY <1>6 DEF Types, Typing
  <2>. QED
    BY <1>6, <2>1
<1>7. CASE /\ run.kind = "catalog" /\ run.row = 0 /\ Unseen(p)
           /\ run.todo = <<"add_object">> /\ Knows(p)
  BY <1>7
<1>. QED
  BY <1>1, <1>2, <1>3, <1>4, <1>5, <1>6, <1>7 DEF UpdatingObject

\* The same of an alert (data/broker/alert.py).
LEMMA IngestPhases ==
  ASSUME NEW p \in Procs, NEW rest \in Rests, Ingesting(p, rest)
  PROVE  LET first == Head(proc[p].todo) IN
    /\ first \in {"find_object", "add_object", "add_observation", "add_alert",
                  "backfill_database", "next_alert"}
    /\ first = "find_object" => ToFind(p, rest)
    /\ first = "add_object" => ToAdd(p, rest)
    /\ first = "add_observation" => ToObserve(p, rest)
    /\ first = "add_alert" => ToAlert(p, rest)
    /\ first \in {"backfill_database", "next_alert"} => ToGoOn(p, rest) /\ rest = <<first>>
<1> DEFINE first == Head(proc[p].todo)
<1>1. ASSUME ToFind(p, rest) PROVE first = "find_object"
  BY <1>1, AlertSteps DEF ToFind
<1>2. ASSUME ToAdd(p, rest) PROVE first = "add_object"
  BY <1>2, AlertSteps DEF ToAdd
<1>3. ASSUME ToObserve(p, rest) PROVE first = "add_observation"
  BY <1>3, AlertSteps DEF ToObserve
<1>4. ASSUME ToAlert(p, rest) PROVE first = "add_alert"
  BY <1>4, AlertSteps DEF ToAlert
<1>5. ASSUME ToGoOn(p, rest)
      PROVE  first \in {"backfill_database", "next_alert"} /\ rest = <<first>>
  <2>1. Head(<<"backfill_database">>) = "backfill_database" /\ Head(<<"next_alert">>) = "next_alert"
    OBVIOUS
  <2>. QED
    BY <1>5, <2>1 DEF ToGoOn, Rests
<1> HIDE DEF first
<1>. QED
  BY <1>1, <1>2, <1>3, <1>4, <1>5 DEF Ingesting, first

\* The same of a tag and a forecast (model.py, apps/refitt/forecast/publish.py).
LEMMA OtherPhases ==
  ASSUME NEW p \in Procs
  PROVE  LET run == proc[p] IN
    /\ Tagging(p) =>
         /\ Head(run.todo) \in {"find_tag", "add_tag", "name_tag", "load_object", "add_alias"}
         /\ Head(run.todo) = "find_tag" => run.todo = <<"find_tag">>
         /\ Head(run.todo) = "add_tag" =>
              run.todo = <<"add_tag", "name_tag", "load_object", "add_alias">>
         /\ Head(run.todo) = "name_tag" => run.todo = <<"name_tag", "load_object", "add_alias">>
         /\ Head(run.todo) = "load_object" => run.todo = <<"load_object", "add_alias">>
         /\ Head(run.todo) = "add_alias" => Loaded(p) /\ run.todo = <<"add_alias">>
    /\ Predicting(p) =>
         /\ Head(run.todo) \in {"load_object", "update_prediction"}
         /\ Head(run.todo) = "load_object" => run.todo = <<"load_object", "update_prediction">>
         /\ Head(run.todo) = "update_prediction" =>
              Loaded(p) /\ run.todo = <<"update_prediction">>
BY DEF Tagging, Predicting, TagSteps

\* Every step is taken by programs of its kind, with what they have found before.
LEMMA Phases ==
  ASSUME WorkInv, NEW p \in Procs, NEW step, At(p, step)
  PROVE  LET run == proc[p] IN
    /\ run.kind \in AllKinds /\ run.end = None /\ run.of \in Things /\ run.row \in 0..Len(rows)
    /\ run.met \subseteq Started
    /\ step \in {"from_name", "search_name", "search_object", "get_record", "object_type",
                 "add_type", "reload", "update"} =>
         run.kind \in {"query", "catalog"} /\ UpdatingObject(p)
    /\ step = "add_object" =>
         \/ run.kind = "catalog" /\ UpdatingObject(p)
         \/ run.kind = "ingest" /\ \E rest \in Rests : ToAdd(p, rest)
    /\ step = "find_object" => run.kind = "ingest" /\ \E rest \in Rests : ToFind(p, rest)
    /\ step = "add_observation" => run.kind = "ingest" /\ \E rest \in Rests : ToObserve(p, rest)
    /\ step = "add_alert" => run.kind = "ingest" /\ \E rest \in Rests : ToAlert(p, rest)
    /\ step \in {"backfill_database", "next_alert"} =>
         run.kind = "ingest" /\ \E rest \in Rests : ToGoOn(p, rest) /\ rest = <<step>>
    /\ step \in {"find_tag", "add_tag", "name_tag", "add_alias"} => run.kind = "tag" /\ Tagging(p)
    /\ step = "load_object" =>
         (run.kind = "tag" /\ Tagging(p)) \/ (run.kind = "forecast" /\ Predicting(p))
    /\ step = "update_prediction" => run.kind = "forecast" /\ Predicting(p)
<1> DEFINE run == proc[p]
<1>1. /\ p \in Started /\ run.kind # None /\ run.end = None /\ Doing(p) /\ Head(run.todo) = step
      /\ run.of \in Things /\ run.row \in 0..Len(rows) /\ run.met \subseteq Started
  BY DEF At, Busy, Started, WorkInv, AtWork
<1>2. CASE UpdatingObject(p)
  BY <1>1, <1>2, UpdatePhases DEF AllKinds
<1>3. CASE run.kind = "ingest" /\ \E rest \in Rests : Ingesting(p, rest)
  BY <1>1, <1>3, IngestPhases DEF AllKinds
<1>4. CASE run.kind = "tag" /\ Tagging(p)
  BY <1>1, <1>4, OtherPhases DEF AllKinds
<1>5. CASE run.kind = "forecast" /\ Predicting(p)
  BY <1>1, <1>5, OtherPhases DEF AllKinds
<1>. QED
  BY <1>1, <1>2, <1>3, <1>4, <1>5 DEF Doing
------------------------------------------------------------------------------
(***************************************************************************)
(* What a program's step leaves to the others.                             *)
(***************************************************************************)
\* No row is taken away, what is new is p's, and an object that loses a name is
\* marked as written over.
Grows(p) ==
  /\ types \subseteq types' /\ alerts \subseteq alerts'
  /\ Len(rows') \in Nat /\ Len(rows) <= Len(rows')
  /\ \A i \in DOMAIN rows :
       /\ i \in DOMAIN rows' /\ rows'[i].of = rows[i].of /\ rows'[i].added = rows[i].added
       /\ \A name \in {"antares", "ztf"} : name \in rows'[i].names <=> name \in rows[i].names
       /\ rows[i].stale => rows'[i].stale
       /\ rows'[i].stale \/ rows[i].names \subseteq rows'[i].names
  /\ \A i \in DOMAIN rows' \ DOMAIN rows : rows'[i].added = p
  /\ \A t \in DOMAIN tags :
       /\ t \in DOMAIN tags' /\ tags'[t].object = tags[t].object /\ tags'[t].by = tags[t].by
       /\ tags[t].named => tags'[t].named
  /\ \A i \in DOMAIN observations : i \in DOMAIN observations' /\ observations'[i] = observations[i]
  /\ \A i \in DOMAIN observations' \ DOMAIN observations : observations'[i].by = p

\* What the tables refer to is there (model.py).
LEMMA RowsThere ==
  ASSUME Typed
  PROVE  /\ Len(rows) \in Nat /\ DOMAIN rows = 1..Len(rows)
         /\ \A i \in DOMAIN rows : rows[i] \in Row(types)
         /\ \A i \in DOMAIN observations :
              /\ observations[i].object \in DOMAIN rows /\ observations[i].time \in 1..MaxTime
              /\ observations[i].by \in Started
         /\ \A t \in DOMAIN tags : tags[t].object \in DOMAIN rows
         /\ Len(observations) \in Nat /\ DOMAIN observations = 1..Len(observations)
         /\ \A p \in Procs : proc[p] \in Call(types)
<1>1. rows \in Seq(Row(types))
  BY DEF Typed
<1>2. Len(rows) \in Nat /\ DOMAIN rows = 1..Len(rows) /\ \A i \in DOMAIN rows : rows[i] \in Row(types)
  BY <1>1, LenProperties, ElementOfSeq
<1>3. observations \in Seq([object : DOMAIN rows, time : 1..MaxTime, by : Started, new : BOOLEAN])
  BY DEF Typed
<1>4. /\ Len(observations) \in Nat /\ DOMAIN observations = 1..Len(observations)
      /\ \A i \in DOMAIN observations :
           observations[i] \in [object : DOMAIN rows, time : 1..MaxTime, by : Started, new : BOOLEAN]
  BY <1>3, LenProperties, ElementOfSeq
<1>5. tags \in Seq([object : DOMAIN rows, by : Procs, named : BOOLEAN])
  BY DEF Typed
<1>6. \A t \in DOMAIN tags : tags[t] \in [object : DOMAIN rows, by : Procs, named : BOOLEAN]
  BY <1>5, LenProperties, ElementOfSeq
<1>7. \A p \in Procs : proc[p] \in Call(types)
  BY DEF Typed
<1>. QED
  BY <1>2, <1>4, <1>6, <1>7

\* What q has written, and what there was before it, is what it was.
LEMMA OthersSee ==
  ASSUME Typed, NEW p \in Procs, NEW q \in Procs, q # p, Grows(p), proc'[q] = proc[q]
  PROVE  /\ Own(q)' = Own(q)
         /\ p \in proc[q].met => Before(q)' = Before(q)
         /\ \A i \in DOMAIN rows : Unfound(q, i) => Unfound(q, i)'
         /\ Found(q) => Found(q)'
         /\ Written(q) => Written(q)'
         /\ p \in proc[q].met /\ Unseen(q) => Unseen(q)'
<1>1. Own(q)' = Own(q)
  BY DEF Own, Grows
<1>2. p \in proc[q].met => Before(q)' = Before(q)
  BY DEF Before, Grows
<1>3. \A i \in DOMAIN rows : Unfound(q, i) => Unfound(q, i)'
  <2> SUFFICES ASSUME NEW i \in DOMAIN rows, Unfound(q, i) PROVE Unfound(q, i)'
    OBVIOUS
  <2>1. /\ i \in DOMAIN rows' /\ rows'[i].of = rows[i].of
        /\ "antares" \in rows'[i].names <=> "antares" \in rows[i].names
        /\ "ztf" \in rows'[i].names <=> "ztf" \in rows[i].names
    BY DEF Grows
  <2>2. ASSUME NEW k \in DOMAIN rows, rows[k].of = proc[q].of, "antares" \in rows[k].names
        PROVE  k \in DOMAIN rows' /\ rows'[k].of = proc'[q].of /\ "antares" \in rows'[k].names
    BY <2>2 DEF Grows
  <2>. QED
    BY <2>1, <2>2 DEF Unfound
<1>4. Found(q) => Found(q)'
  BY DEF Found, Grows
<1>5. Written(q) => Written(q)'
  <2>1. Own(q) \subseteq DOMAIN observations
    BY DEF Own
  <2>. QED
    BY <1>1, <2>1 DEF Written, Grows
<1>6. ASSUME p \in proc[q].met, Unseen(q) PROVE Unseen(q)'
  <2> SUFFICES ASSUME NEW i \in DOMAIN rows', NEW name \in {"antares", "ztf"},
                      rows'[i].of = proc[q].of, name \in rows'[i].names
               PROVE  rows'[i].added \in proc[q].met \/ (proc[q].kind = "catalog" /\ proc[q].by # name)
    BY DEF Unseen
  <2>1. CASE i \in DOMAIN rows
    <3>1. rows[i].of = proc[q].of /\ name \in rows[i].names /\ rows'[i].added = rows[i].added
      BY <2>1 DEF Grows
    <3>. QED
      BY <1>6, <2>1, <3>1 DEF Unseen
  <2>2. CASE i \notin DOMAIN rows
    BY <1>6, <2>2 DEF Grows
  <2>. QED
    BY <2>1, <2>2
<1>. QED
  BY <1>1, <1>2, <1>3, <1>4, <1>5, <1>6

\* An object that q has loaded has what it had of the stream's and the catalog's names.
LEMMA OthersLoaded ==
  ASSUME Typed, NEW p \in Procs, NEW q \in Procs, q # p, Grows(p), proc'[q] = proc[q], Loaded(q)
  PROVE  Loaded(q)'
<1> DEFINE i == proc[q].row
<1>1. /\ i \in DOMAIN rows /\ proc[q].snap \in Row(types)
      /\ \A name \in {"antares", "ztf"} : name \in proc[q].snap.names <=> name \in rows[i].names
      /\ rows[i].stale \/ proc[q].snap.names \subseteq rows[i].names
  BY DEF Loaded
<1>2. proc[q].snap \in Row(types')
  BY <1>1, MoreTypes DEF Grows
<1>3. /\ i \in DOMAIN rows'
      /\ \A name \in {"antares", "ztf"} : name \in rows'[i].names <=> name \in rows[i].names
      /\ rows[i].stale => rows'[i].stale
      /\ rows'[i].stale \/ rows[i].names \subseteq rows'[i].names
  BY <1>1 DEF Grows
<1>. QED
  BY <1>1, <1>2, <1>3 DEF Loaded

\* An alert that q is writing is written as if q were alone.
LEMMA OthersIngest ==
  ASSUME Typed, NEW p \in Procs, NEW q \in Procs, q # p, Grows(p), proc'[q] = proc[q],
         p \in proc[q].met, NEW rest \in Rests, Ingesting(q, rest)
  PROVE  Ingesting(q, rest)'
<1>1. /\ Own(q)' = Own(q) /\ Before(q)' = Before(q)
      /\ \A i \in DOMAIN rows : Unfound(q, i) => Unfound(q, i)'
      /\ Found(q) => Found(q)'
      /\ Written(q) => Written(q)'
      /\ Unseen(q) => Unseen(q)'
  BY OthersSee
<1>2. \A i \in DOMAIN observations :
        /\ observations[i].object \in DOMAIN rows /\ i \in DOMAIN observations'
        /\ observations'[i] = observations[i]
        /\ rows'[observations[i].object].of = rows[observations[i].object].of
  BY RowsThere DEF Grows
<1>3. Own(q) \subseteq DOMAIN observations /\ Before(q) \subseteq DOMAIN observations
  BY DEF Own, Before
<1>4. Later(q, rest)' = Later(q, rest)
  BY DEF Later
<1>5. ASSUME NEW T, ToWrite(q, T, rest)
      PROVE  /\ T \subseteq 1..MaxTime /\ \A i \in Own(q)' : observations'[i].time \notin T
             /\ rest = <<>> => proc'[q].previous = {}
             /\ rest = <<"next_alert">> =>
                  /\ \A i \in Before(q)' : observations'[i].time \in T =>
                       Unfound(q, observations[i].object)'
                  /\ \A t \in proc'[q].previous \ T : \E i \in DOMAIN observations' :
                       observations'[i].time = t /\ rows'[observations'[i].object].of = proc'[q].of
  <2>1. T \subseteq 1..MaxTime /\ \A i \in Own(q)' : observations'[i].time \notin T
    BY <1>1, <1>2, <1>3, <1>5 DEF ToWrite
  <2>2. rest = <<>> => proc'[q].previous = {}
    BY <1>5 DEF ToWrite
  <2>3. ASSUME rest = <<"next_alert">>, NEW i \in Before(q)', observations'[i].time \in T
        PROVE  Unfound(q, observations[i].object)'
    BY <1>1, <1>2, <1>3, <1>5, <2>3 DEF ToWrite
  <2>4. ASSUME rest = <<"next_alert">>, NEW t \in proc'[q].previous \ T
        PROVE  \E i \in DOMAIN observations' :
                 observations'[i].time = t /\ rows'[observations'[i].object].of = proc'[q].of
    BY <1>2, <1>5, <2>4 DEF ToWrite
  <2>. QED
    BY <2>1, <2>2, <2>3, <2>4
<1>6. Pending(q, rest) => Pending(q, rest)'
  <2> SUFFICES ASSUME Pending(q, rest) PROVE Pending(q, rest)'
    OBVIOUS
  <2> DEFINE T == Later(q, rest) \cup {proc[q].time}
  <2>1. ToWrite(q, T, rest) /\ proc[q].time \in (1..MaxTime) \ Later(q, rest)
    BY DEF Pending
  <2>2. T' = T
    BY <1>4
  <2>3. ToWrite(q, T, rest)'
    BY <1>2, <1>3, <1>1, <1>5, <2>1, <2>2 DEF ToWrite
  <2>4. IF rest = <<"next_alert">> THEN Written(q)' ELSE Own(q)' = {}
    BY <1>1 DEF Pending
  <2>. QED
    BY <1>4, <2>1, <2>3, <2>4 DEF Pending
<1>7. ToWrite(q, Later(q, rest), rest) => ToWrite(q, Later(q, rest), rest)'
  BY <1>1, <1>2, <1>3, <1>4, <1>5 DEF ToWrite
<1>8. FoundFirst(q) => FoundFirst(q)'
  BY <1>1, <1>2, <1>3 DEF FoundFirst
<1>9. CASE ToFind(q, rest)
  BY <1>6, <1>9 DEF ToFind, Ingesting
<1>10. CASE ToAdd(q, rest)
  <2>1. \A i \in Before(q)' : Unfound(q, observations[i].object)' /\ observations'[i] = observations[i]
    BY <1>1, <1>2, <1>3, <1>10 DEF ToAdd
  <2>. QED
    BY <1>1, <1>6, <1>10, <2>1 DEF ToAdd, Ingesting
<1>11. CASE ToObserve(q, rest)
  <2>1. rest = <<"next_alert">> => \A i \in Before(q)' :
          observations'[i].time = proc'[q].time => observations'[i].object # proc'[q].row
    BY <1>1, <1>2, <1>3, <1>11 DEF ToObserve
  <2>. QED
    BY <1>1, <1>6, <1>8, <1>11, <2>1 DEF ToObserve, Ingesting
<1>12. CASE ToAlert(q, rest)
  <2>1. \E i \in Own(q)' : observations'[i].new
    BY <1>1, <1>2, <1>3, <1>12 DEF ToAlert
  <2>2. \E i \in Own(q)' : \A j \in Own(q)' : j <= i /\ (j = i \/ j \in alerts')
    BY <1>1, <1>12 DEF ToAlert, Grows
  <2>. QED
    BY <1>1, <1>7, <1>8, <1>12, <2>1, <2>2 DEF ToAlert, Ingesting
<1>13. CASE ToGoOn(q, rest)
  BY <1>1, <1>7, <1>8, <1>13 DEF ToGoOn, Ingesting
<1>. QED
  BY <1>9, <1>10, <1>11, <1>12, <1>13 DEF Ingesting

\* A program that p leaves alone goes on with its work, or remains what it was.
LEMMA OthersWork ==
  ASSUME Typed, WorkInv, MetInv, NEW p \in Busy, NEW q \in Procs, q # p, Grows(p), Kept(p)
  PROVE  AtWork(q)'
<1>1. /\ p \in Procs /\ proc'[q] = proc[q] /\ Started' = Started
      /\ Len(rows) \in Nat /\ Len(rows') \in Nat /\ Len(rows) <= Len(rows')
      /\ types \subseteq types' /\ AtWork(q)
  <2>1. p \in Procs
    BY DEF Busy, Started
  <2>2. Started' = Started
    BY <2>1 DEF Started, Kept
  <2>. QED
    BY <2>1, <2>2, RowsThere DEF Kept, Grows, WorkInv
<1>2. CASE proc[q].kind = None
  <2>1. proc'[q].kind # "ingest"
    BY <1>1, <1>2, NoneAssumption DEF AllKinds
  <2>. QED
    BY <1>1, <1>2, <2>1 DEF AtWork, Unstarted
<1>3. proc[q].kind # None => proc[q].row \in 0..Len(rows')
  BY <1>1 DEF AtWork
<1>4. Complete(q) => Complete(q)'
  <2>1. Written(q) => Written(q)'
    BY <1>1, OthersSee
  <2>2. ASSUME NEW t, NEW i \in DOMAIN observations, observations[i].time = t,
               rows[observations[i].object].of = proc[q].of
        PROVE  /\ i \in DOMAIN observations' /\ observations'[i].time = t
               /\ rows'[observations'[i].object].of = proc'[q].of
    BY <1>1, <2>2, RowsThere DEF Grows
  <2>. QED
    BY <1>1, <2>1, <2>2 DEF Complete
<1>5. CASE proc[q].kind # None /\ proc[q].end # None
  BY <1>1, <1>3, <1>4, <1>5 DEF AtWork
<1>6. CASE proc[q].kind # None /\ proc[q].end = None
  <2>1. q \in Busy /\ p \in proc[q].met /\ Doing(q)
    BY <1>1, <1>6 DEF Busy, Started, AtWork, MetInv
  <2>2. Loaded(q) => Loaded(q)'
    BY <1>1, OthersLoaded
  <2>3. Told(q)' = Told(q) /\ (Knows(q) => Knows(q)')
    BY <1>1 DEF Told, Knows
  <2>4. \A last : Types(q, last) => Types(q, last)'
    BY <1>1, <2>1, <2>3 DEF Types
  <2>5. UpdatingObject(q) => UpdatingObject(q)'
    <3>1. Unseen(q) => Unseen(q)'
      BY <1>1, <2>1, OthersSee
    <3>. QED
      BY <1>1, <2>2, <2>3, <2>4, <3>1 DEF UpdatingObject
  <2>6. \A rest \in Rests : Ingesting(q, rest) => Ingesting(q, rest)'
    BY <1>1, <2>1, OthersIngest
  <2>7. proc[q].row \in DOMAIN rows => proc'[q].row \in DOMAIN rows'
    BY <1>1 DEF Grows
  <2>8. Tagging(q) => Tagging(q)'
    BY <1>1, <2>1, <2>2, <2>7 DEF Tagging
  <2>9. Predicting(q) => Predicting(q)'
    BY <1>1, <2>2, <2>7 DEF Predicting
  <2>10. Doing(q)'
    BY <1>1, <2>1, <2>5, <2>6, <2>8, <2>9 DEF Doing
  <2>11. proc[q].end # "done"
    BY <1>6, NoneAssumption DEF Ends
  <2>. QED
    BY <1>1, <1>3, <1>6, <2>10, <2>11 DEF AtWork
<1>. QED
  BY <1>2, <1>5, <1>6

\* A step of p keeps the invariant if it leaves p at work, and keeps what it writes whole.
LEMMA StepHolds ==
  ASSUME IInv, NEW p \in Busy, Grows(p), Kept(p), Typed', AtWork(p)', HistoryComplete',
         observations' = observations \/ ObservedOnce',
         proc'[p].end = "raised" =>
           proc[p].met # {} \/ \E i, j \in DOMAIN rows : i # j /\ rows[i].of = rows[j].of,
         \A t \in DOMAIN tags : Naming(p, t) =>
           LET row == rows'[tags'[t].object] IN
           (tags'[t].named /\ ("tag" \in row.names \/ row.stale)) \/ Naming(p, t)',
         \A t \in DOMAIN tags' \ DOMAIN tags : Naming(p, t)',
         \A i, j \in DOMAIN rows' : j \notin DOMAIN rows =>
           (i < j => i \in DOMAIN rows) /\ rows'[j].of = proc[p].of /\ Unseen(p)
  PROVE  IInv'
<1>1. /\ p \in Procs /\ proc[p].end = None /\ Started' = Started
      /\ \A q \in Procs : /\ proc'[q].met = proc[q].met /\ proc'[q].kind = proc[q].kind
                           /\ proc'[q].by = proc[q].by
      /\ \A q \in Procs \ {p} : proc'[q] = proc[q]
  <2>1. p \in Procs /\ proc[p].end = None
    BY DEF Busy, Started
  <2>2. \A q \in Procs : /\ proc'[q].met = proc[q].met /\ proc'[q].kind = proc[q].kind
                         /\ proc'[q].by = proc[q].by
    BY <2>1 DEF Kept
  <2>. QED
    BY <2>1, <2>2 DEF Started, Kept
<1>2. Typed /\ WorkInv /\ MetInv
  BY DEF IInv
<1>3. WorkInv'
  BY <1>2, OthersWork DEF WorkInv
<1>4. MetInv'
  <2>1. Busy' \subseteq Busy
    BY <1>1 DEF Busy, Started
  <2>2. Busy \subseteq Procs
    BY DEF Busy, Started
  <2>. QED
    BY <1>1, <1>2, <2>1, <2>2 DEF MetInv
<1>5. TagInv'
  <2> SUFFICES ASSUME NEW t \in DOMAIN tags'
               PROVE  \/ /\ tags'[t].named
                         /\ "tag" \in rows'[tags'[t].object].names \/ rows'[tags'[t].object].stale
                      \/ \E q \in Procs : Naming(q, t)'
    BY DEF TagInv
  <2>1. CASE t \notin DOMAIN tags
    BY <1>1, <2>1
  <2>2. CASE t \in DOMAIN tags
    <3> DEFINE i == tags[t].object
    <3>1. /\ i \in DOMAIN rows /\ tags'[t].object = i /\ tags'[t].by = tags[t].by
          /\ tags[t].named => tags'[t].named
          /\ rows[i].stale => rows'[i].stale
          /\ rows'[i].stale \/ rows[i].names \subseteq rows'[i].names
      BY <1>2, <2>2, RowsThere DEF Grows
    <3>2. \/ tags[t].named /\ ("tag" \in rows[i].names \/ rows[i].stale)
          \/ \E q \in Procs : Naming(q, t)
      BY <2>2 DEF IInv, TagInv
    <3>3. ASSUME NEW q \in Procs, q # p, Naming(q, t) PROVE Naming(q, t)'
      BY <1>1, <3>1, <3>3 DEF Naming
    <3>. QED
      BY <1>1, <2>2, <3>1, <3>2, <3>3
  <2>. QED
    BY <2>1, <2>2
<1>6. ObservedOnce'
  <2>1. ASSUME observations' = observations PROVE ObservedOnce'
    <3>1. \A i \in DOMAIN observations : observations[i].by \in Procs
      BY <1>2, RowsThere DEF Started
    <3>. QED
      BY <1>1, <2>1, <3>1 DEF IInv, ObservedOnce
  <2>. QED
    BY <2>1
<1>7. OneObjectPerName'
  <2> SUFFICES ASSUME NEW i \in DOMAIN rows', NEW j \in DOMAIN rows', NEW name \in {"antares", "ztf"},
                      i < j, rows'[i].of = rows'[j].of, name \in rows'[i].names \cap rows'[j].names
               PROVE  LET q == rows'[j].added IN
                      \/ rows'[i].added \in proc'[q].met
                      \/ proc'[q].kind = "catalog" /\ proc'[q].by # name
    BY DEF OneObjectPerName
  <2>1. CASE j \notin DOMAIN rows
    <3>1. /\ rows'[j].added = p /\ i \in DOMAIN rows /\ rows'[i].added = rows[i].added
          /\ rows[i].of = proc[p].of /\ name \in rows[i].names /\ Unseen(p)
      BY <2>1 DEF Grows
    <3>2. rows[i].added \in proc[p].met \/ (proc[p].kind = "catalog" /\ proc[p].by # name)
      BY <3>1 DEF Unseen
    <3>. QED
      BY <1>1, <3>1, <3>2
  <2>2. CASE j \in DOMAIN rows
    <3>1. i \in DOMAIN rows /\ j # 1
      <4>1. /\ Len(rows) \in Nat /\ DOMAIN rows = 1..Len(rows)
            /\ DOMAIN rows' = 1..Len(rows') /\ Len(rows') \in Nat
        BY <1>2, RowsThere, LenProperties DEF Typed
      <4>. QED
        BY <2>2, <4>1
    <3>2. /\ rows'[i].of = rows[i].of /\ rows'[j].of = rows[j].of
          /\ rows'[i].added = rows[i].added /\ rows'[j].added = rows[j].added
          /\ name \in rows[i].names \cap rows[j].names
      BY <2>2, <3>1 DEF Grows
    <3>3. LET q == rows[j].added IN
          rows[i].added \in proc[q].met \/ (proc[q].kind = "catalog" /\ proc[q].by # name)
      BY <2>2, <3>1, <3>2 DEF IInv, OneObjectPerName
    <3>4. rows[j].added \in Procs
      BY <1>2, <2>2, <3>1 DEF Typed, Started
    <3>. QED
      BY <1>1, <3>2, <3>3, <3>4
  <2>. QED
    BY <2>1, <2>2
<1>8. RaisedForCause'
  <2> SUFFICES ASSUME NEW q \in Started', proc'[q].end = "raised"
               PROVE  proc'[q].met # {} \/ \E i, j \in DOMAIN rows' : i # j /\ rows'[i].of = rows'[j].of
    BY DEF RaisedForCause
  <2>1. proc[q].met # {} \/ \E i, j \in DOMAIN rows : i # j /\ rows[i].of = rows[j].of
    BY <1>1 DEF Started, IInv, RaisedForCause
  <2>2. \A i \in DOMAIN rows : i \in DOMAIN rows' /\ rows'[i].of = rows[i].of
    BY DEF Grows
  <2>3. q \in Procs
    BY DEF Started
  <2>. QED
    BY <1>1, <2>1, <2>2, <2>3
<1>. QED
  BY <1>3, <1>4, <1>5, <1>6, <1>7, <1>8 DEF IInv
------------------------------------------------------------------------------
(***************************************************************************)
(* Steps that only read the tables.                                        *)
(***************************************************************************)
\* Tables that are left alone have their types still (model.py).
LEMMA TypedStays ==
  ASSUME Typed, NEW p \in Procs, Kept(p), UNCHANGED store, proc' \in [Procs -> Call(types)]
  PROVE  /\ Started' = Started /\ Grows(p)
         /\ UNCHANGED world => Typed'
<1>1. Started' = Started
  BY DEF Started, Kept
<1>2. Len(rows) \in Nat
  BY RowsThere
<1>3. Grows(p)
  BY <1>2 DEF Grows, store
<1>4. UNCHANGED world => Typed'
  BY <1>1, Zenon DEF Typed, store, world
<1>. QED
  BY <1>1, <1>3, <1>4

\* A step that only reads keeps the invariant if it leaves p at work.
LEMMA ReadHolds ==
  ASSUME IInv, NEW p \in Busy, Kept(p), UNCHANGED store, Typed', AtWork(p)',
         proc'[p].end = "raised" =>
           proc[p].met # {} \/ \E i, j \in DOMAIN rows : i # j /\ rows[i].of = rows[j].of,
         \A t \in DOMAIN tags : Naming(p, t) => Naming(p, t)'
  PROVE  IInv'
<1>1. /\ Typed /\ p \in Procs /\ UNCHANGED <<types, rows, tags, observations, alerts>>
      /\ HistoryComplete
  BY DEF IInv, Busy, Started, store
<1>2. Grows(p)
  <2>1. Len(rows) \in Nat
    BY <1>1, RowsThere
  <2>. QED
    BY <1>1, <2>1 DEF Grows
<1>3. HistoryComplete'
  BY <1>1 DEF HistoryComplete
<1>4. \A t \in DOMAIN tags : Naming(p, t) =>
           LET row == rows'[tags'[t].object] IN
           (tags'[t].named /\ ("tag" \in row.names \/ row.stale)) \/ Naming(p, t)'
  OBVIOUS
<1>5. \A t \in DOMAIN tags' \ DOMAIN tags : Naming(p, t)'
  BY <1>1
<1>6. \A i, j \in DOMAIN rows' : j \notin DOMAIN rows =>
           (i < j => i \in DOMAIN rows) /\ rows'[j].of = proc[p].of /\ Unseen(p)
  BY <1>1
<1>. QED
  BY <1>1, <1>2, <1>3, <1>4, <1>5, <1>6, StepHolds

\* A program that is over is so whatever it was at, if what it wrote is complete.
LEMMA EndWorks ==
  ASSUME Typed, WorkInv, NEW p \in Busy, Kept(p), Len(rows') \in Nat, Len(rows) <= Len(rows'),
         proc'[p].todo = <<>>, proc'[p].row = proc[p].row, proc'[p].end # None,
         proc[p].kind = "ingest" /\ proc'[p].end = "done" => Complete(p)'
  PROVE  AtWork(p)'
<1>1. /\ p \in Procs /\ proc[p].kind # None /\ proc[p].of \in Things
      /\ proc[p].row \in 0..Len(rows) /\ proc[p].met \subseteq Started
  BY DEF Busy, Started, WorkInv, AtWork
<1>2. Started' = Started
  BY <1>1 DEF Started, Kept
<1>3. proc[p].row \in 0..Len(rows')
  BY <1>1, RowsThere
<1>. QED
  BY <1>1, <1>2, <1>3 DEF AtWork, Kept

\* p is not about to name a tag, unless it is at one of the steps of that (model.py).
LEMMA NotNaming ==
  ASSUME NEW p \in Procs, NEW step, At(p, step),
         step \notin {"name_tag", "load_object", "add_alias"}
  PROVE  \A t \in DOMAIN tags : ~Naming(p, t)
<1>1. Head(proc[p].todo) = step /\ proc[p].end = None
  BY DEF At, Busy
<1>2. ASSUME NEW t \in DOMAIN tags, Naming(p, t) PROVE FALSE
  BY <1>1, <1>2, NoneAssumption DEF Naming, Ends
<1>. QED
  BY <1>2

\* A program that gives up, or is killed, leaves the tables as they are.
LEMMA GivesUp ==
  ASSUME IInv, NEW p \in Busy, NEW how \in Ends \ {"done"}, End(p, how),
         UNCHANGED store, UNCHANGED world \/ Typed',
         how = "raised" =>
           proc[p].met # {} \/ \E i, j \in DOMAIN rows : i # j /\ rows[i].of = rows[j].of,
         how # "stopped" => \A t \in DOMAIN tags : ~Naming(p, t)
  PROVE  IInv'
<1>1. p \in Procs /\ Typed /\ WorkInv
  BY DEF Busy, Started, IInv
<1>2. /\ proc' \in [Procs -> Call(types)] /\ Kept(p)
      /\ proc'[p].todo = <<>> /\ proc'[p].row = proc[p].row /\ proc'[p].end = how
  BY <1>1, EndGoes
<1>3. Typed'
  BY <1>1, <1>2, TypedStays
<1>4. how # None /\ how # "done"
  BY NoneAssumption DEF Ends
<1>5. AtWork(p)'
  <2>1. Len(rows') \in Nat /\ Len(rows) <= Len(rows')
    BY <1>1, RowsThere DEF store
  <2>. QED
    BY <1>1, <1>2, <1>4, <2>1, EndWorks
<1>6. \A t \in DOMAIN tags : Naming(p, t) => Naming(p, t)'
  BY <1>2 DEF Naming, Kept, store
<1>. QED
  BY <1>2, <1>3, <1>5, <1>6, ReadHolds

\* An alert is left as it is by what only reads.
LEMMA SameSight ==
  ASSUME NEW p \in Procs, Kept(p), UNCHANGED store
  PROVE  /\ Own(p)' = Own(p) /\ Before(p)' = Before(p) /\ Written(p)' = Written(p)
         /\ \A i : Unfound(p, i)' = Unfound(p, i)
BY DEF Own, Before, Written, Unfound, Kept, store

\* A program that is at its next step is at work.
LEMMA GoesOn ==
  ASSUME WorkInv, NEW p \in Busy, Kept(p), proc'[p].row \in 0..Len(rows'),
         proc'[p].end = None, Doing(p)'
  PROVE  AtWork(p)'
<1>1. /\ p \in Procs /\ proc[p].kind # None /\ proc[p].of \in Things /\ proc[p].met \subseteq Started
  BY DEF Busy, Started, WorkInv, AtWork
<1>2. Started' = Started
  BY <1>1 DEF Started, Kept
<1>3. proc'[p].end # "done"
  BY NoneAssumption DEF Ends
<1>. QED
  BY <1>1, <1>2, <1>3 DEF AtWork, Kept

\* A program of TNS that reads and goes on keeps the invariant (data/tns/manager.py).
LEMMA AsksOn ==
  ASSUME IInv, NEW p \in Procs, NEW step, At(p, step),
         step \notin {"name_tag", "load_object", "add_alias"},
         Kept(p), proc' \in [Procs -> Call(types)], proc'[p].end = proc[p].end,
         proc'[p].row \in 0..Len(rows), UNCHANGED store, UNCHANGED world \/ Typed', Doing(p)'
  PROVE  IInv'
<1>1. p \in Busy /\ Typed /\ WorkInv /\ proc[p].end = None
  BY DEF At, Busy, IInv
<1>2. Typed'
  BY <1>1, TypedStays
<1>3. AtWork(p)'
  BY <1>1, GoesOn DEF store
<1>4. \A t \in DOMAIN tags : ~Naming(p, t)
  BY NotNaming
<1>5. proc'[p].end # "raised"
  BY <1>1, NoneAssumption DEF Ends
<1>. QED
  BY <1>1, <1>2, <1>3, <1>4, <1>5, ReadHolds

\* An object is loaded by its id or its name (model.py from_id, from_alias).
LEMMA LoadsWell ==
  ASSUME Typed, NEW p \in Procs, NEW i \in DOMAIN rows, UNCHANGED store,
         proc'[p].row = i, proc'[p].snap = rows[i]
  PROVE  Loaded(p)' /\ proc'[p].row \in 0..Len(rows)
<1>1. rows[i] \in Row(types) /\ i \in 0..Len(rows)
  BY RowsThere
<1>. QED
  BY <1>1 DEF Loaded, store

\* p knows the object that it is to ask TNS about (manager.py from_name).
LEMMA FromNameHolds ==
  ASSUME IInv, NEW p \in Procs, FromName(p)
  PROVE  IInv'
<1> DEFINE found == from_alias(proc[p].of, proc[p].by)
<1>1. /\ At(p, "from_name") /\ p \in Busy /\ Typed /\ WorkInv /\ UNCHANGED store /\ UNCHANGED world
      /\ proc[p].kind \in {"query", "catalog"} /\ UpdatingObject(p) /\ proc[p].end = None
  <2>1. At(p, "from_name") /\ Typed /\ WorkInv /\ UNCHANGED store /\ UNCHANGED world
    BY DEF FromName, IInv
  <2>. QED
    BY <2>1, Phases DEF At
<1>2. proc[p].row = 0 /\ proc[p].todo = <<"from_name">>
  BY <1>1, UpdatePhases DEF At
<1>3. \A t \in DOMAIN tags : ~Naming(p, t)
  BY <1>1, NotNaming
<1>4. found \subseteq DOMAIN rows
  BY DEF from_alias
<1>5. Tail(proc[p].todo) = <<>> /\ proc[p].todo # <<>>
  BY <1>2
<1>6. CASE NotDistinct(found) /\ End(p, "raised")
  <2>1. \E i, j \in DOMAIN rows : i # j /\ rows[i].of = rows[j].of
    BY <1>6 DEF NotDistinct, from_alias
  <2>. QED
    BY <1>1, <1>3, <1>6, <2>1, GivesUp DEF Ends
<1>7. CASE NotFound(found) /\ proc[p].kind = "query" /\ End(p, "reported")
  BY <1>1, <1>3, <1>7, GivesUp DEF Ends
<1>8. CASE NotFound(found) /\ proc[p].kind = "catalog" /\ Then(p, AddNew)
  <2>1. AddNew \in Seq(StepNames) /\ AddNew \o <<>> = AddNew
    BY TodoSteps, ConcatEmptySeq
  <2>2. /\ proc' \in [Procs -> Call(types)] /\ Kept(p) /\ proc'[p].todo = AddNew
        /\ proc'[p].row = 0 /\ proc'[p].end = proc[p].end
    BY <1>1, <1>2, <1>5, <1>8, <2>1, ThenGoes
  <2>3. Unseen(p)'
    BY <1>1, <1>8, <2>2 DEF Unseen, NotFound, from_alias, Kept, store
  <2>4. Doing(p)'
    BY <1>8, <2>2, <2>3 DEF Doing, UpdatingObject, Kept
  <2>5. proc'[p].row \in 0..Len(rows)
    BY <1>1, <2>2, RowsThere
  <2>. QED
    BY <1>1, <2>2, <2>4, <2>5, AsksOn
<1>9. CASE ~NotFound(found) /\ ~NotDistinct(found)
  <2> DEFINE i == One(found)
             steps == IF proc[p].kind = "query" THEN Query(rows[i].names) ELSE Catalog(rows[i].names)
  <2>1. i \in DOMAIN rows
    BY <1>4, <1>9 DEF One, NotFound
  <2>2. IF steps = <<>> THEN End(p, "reported") ELSE Load(p, i, steps)
    BY <1>9 DEF FromName, NotFound, NotDistinct
  <2>3. steps \in Asking \cup {<<>>}
    BY DEF Asking, Query, Catalog
  <2> HIDE DEF i, steps
  <2>4. CASE End(p, "reported")
    BY <1>1, <1>3, <2>4, GivesUp DEF Ends
  <2>5. CASE steps \in Asking /\ Load(p, i, steps)
    <3>1. steps \in Seq(StepNames) /\ steps \o <<>> = steps
      BY <2>5, TodoSteps, ConcatEmptySeq
    <3>2. /\ proc' \in [Procs -> Call(types)] /\ Kept(p) /\ proc'[p].todo = steps
          /\ proc'[p].row = i /\ proc'[p].snap = rows[i] /\ proc'[p].end = proc[p].end
      BY <1>1, <1>5, <2>1, <2>5, <3>1, LoadGoes
    <3>3. Loaded(p)' /\ proc'[p].row \in 0..Len(rows)
      BY <1>1, <2>1, <3>2, LoadsWell
    <3>4. Doing(p)'
      BY <1>1, <2>5, <3>2, <3>3 DEF Doing, UpdatingObject, Kept
    <3>. QED
      BY <1>1, <3>2, <3>3, <3>4, AsksOn
  <2>. QED
    BY <2>2, <2>3, <2>4, <2>5
<1>. QED
  BY <1>1, <1>6, <1>7, <1>8, <1>9 DEF FromName

\* A request to TNS fails (interface.py, manager.py).
LEMMA TNSFailsHolds ==
  ASSUME IInv, NEW p \in Procs, TNSFails(p)
  PROVE  IInv'
<1>1. PICK step \in {"search_name", "search_object", "get_record"} : At(p, step)
  BY DEF TNSFails
<1>2. PICK how \in {"unanswered", "unreachable"} : End(p, how)
  BY DEF TNSFails
<1>3. p \in Busy /\ UNCHANGED store /\ UNCHANGED world /\ how \in Ends \ {"done"} /\ how # "raised"
  BY <1>1, <1>2 DEF At, TNSFails, Ends
<1>4. \A t \in DOMAIN tags : ~Naming(p, t)
  BY <1>1, NotNaming
<1>. QED
  BY <1>2, <1>3, <1>4, GivesUp

\* What p is at, when it asks TNS about an object.
LEMMA Asks ==
  ASSUME IInv, NEW p \in Procs, NEW step, At(p, step),
         step \in {"search_name", "search_object", "get_record", "object_type", "add_type",
                   "reload", "update"}
  PROVE  /\ p \in Busy /\ Typed /\ WorkInv /\ proc[p].end = None
         /\ proc[p].kind \in {"query", "catalog"} /\ UpdatingObject(p) /\ proc[p].of \in Things
         /\ proc[p].row \in 0..Len(rows) /\ Head(proc[p].todo) = step
         /\ proc[p].todo # <<>> /\ \A t \in DOMAIN tags : ~Naming(p, t)
<1>1. Typed /\ WorkInv
  BY DEF IInv
<1>2. /\ p \in Busy /\ proc[p].end = None /\ proc[p].kind \in {"query", "catalog"}
      /\ UpdatingObject(p) /\ proc[p].of \in Things /\ Head(proc[p].todo) = step
      /\ proc[p].row \in 0..Len(rows)
  BY <1>1, Phases DEF At
<1>3. \A t \in DOMAIN tags : ~Naming(p, t)
  BY NotNaming
<1>4. proc[p].todo # <<>>
  BY <1>2 DEF UpdatingObject, Asking, Types, Typing, Writing, AddNew
<1>. QED
  BY <1>1, <1>2, <1>3, <1>4

\* The name is one that TNS lists, or not (manager.py search_name).
LEMMA SearchNameHolds ==
  ASSUME IInv, NEW p \in Procs, SearchName(p)
  PROVE  IInv'
<1>1. At(p, "search_name") /\ UNCHANGED store /\ UNCHANGED world
  BY DEF SearchName
<1>2. /\ p \in Busy /\ Typed /\ WorkInv /\ proc[p].end = None
      /\ proc[p].kind \in {"query", "catalog"} /\ UpdatingObject(p)
      /\ proc[p].row \in 0..Len(rows) /\ Head(proc[p].todo) = "search_name"
      /\ proc[p].todo # <<>> /\ \A t \in DOMAIN tags : ~Naming(p, t)
  BY <1>1, Asks
<1>3. Loaded(p) /\ proc[p].todo = <<"search_name", "search_object", "object_type", "update">>
  BY <1>2, UpdatePhases
<1>4. CASE End(p, "reported")
  BY <1>1, <1>2, <1>4, GivesUp DEF Ends
<1>5. CASE Proceed(p)
  <2>1. Tail(proc[p].todo) = <<"search_object", "object_type", "update">>
    BY <1>3
  <2>2. /\ proc' \in [Procs -> Call(types)] /\ Kept(p) /\ proc'[p].row = proc[p].row
        /\ proc'[p].todo = <<"search_object", "object_type", "update">>
        /\ proc'[p].snap = proc[p].snap /\ proc'[p].end = proc[p].end
    <3>1. Tail(proc[p].todo) # <<>>
      BY <2>1
    <3>. QED
      BY <1>2, <1>5, <2>1, <3>1, ProceedGoes
  <2>3. Loaded(p)'
    BY <1>1, <1>3, <2>2 DEF Loaded, store
  <2>4. Doing(p)'
    BY <1>2, <2>2, <2>3 DEF Doing, UpdatingObject, Asking, Kept
  <2>. QED
    BY <1>1, <1>2, <2>2, <2>4, AsksOn
<1>. QED
  BY <1>4, <1>5 DEF SearchName

\* p has the answer of TNS, and is to look for the type (manager.py update_object).
LEMMA AnswerHolds ==
  ASSUME IInv, NEW p \in Procs, NEW step \in {"search_object", "get_record"}, At(p, step),
         NEW answer \in TNSRecords, UNCHANGED store, UNCHANGED world \/ Typed',
         proc' = [proc EXCEPT ![p].todo = Tail(@), ![p].answer = answer]
  PROVE  IInv'
<1>1. /\ p \in Busy /\ Typed /\ WorkInv /\ proc[p].end = None
      /\ proc[p].kind \in {"query", "catalog"} /\ UpdatingObject(p)
      /\ proc[p].row \in 0..Len(rows) /\ Head(proc[p].todo) = step /\ proc[p].todo # <<>>
  BY Asks
<1>2. \/ Loaded(p) /\ Tail(proc[p].todo) = <<"object_type", "update">>
      \/ /\ proc[p].kind = "catalog" /\ proc[p].row = 0 /\ Unseen(p)
         /\ Tail(proc[p].todo) = <<"object_type", "add_object">>
  <2>1. CASE step = "search_object"
    <3>1. Loaded(p) /\ proc[p].todo = <<"search_object", "object_type", "update">>
      BY <1>1, <2>1, UpdatePhases
    <3>. QED
      BY <3>1
  <2>2. CASE step = "get_record"
    <3>1. \/ Loaded(p) /\ proc[p].todo = <<"get_record", "object_type", "update">>
          \/ /\ proc[p].kind = "catalog" /\ proc[p].row = 0 /\ proc[p].todo = AddNew
             /\ Unseen(p)
      BY <1>1, <2>2, UpdatePhases
    <3>2. /\ Tail(<<"get_record", "object_type", "update">>) = <<"object_type", "update">>
          /\ Tail(AddNew) = <<"object_type", "add_object">>
      BY DEF AddNew
    <3>. QED
      BY <3>1, <3>2, Zenon
  <2>. QED
    BY <2>1, <2>2
<1>3. /\ proc' \in [Procs -> Call(types)] /\ Kept(p)
      /\ proc'[p].todo = Tail(proc[p].todo) /\ proc'[p].answer = answer
      /\ proc'[p].row = proc[p].row /\ proc'[p].snap = proc[p].snap /\ proc'[p].end = proc[p].end
  BY <1>1, AnswerGoes
<1>4. Told(p)'
  BY <1>3 DEF Told
<1>5. (Loaded(p) => Loaded(p)') /\ (Unseen(p) => Unseen(p)')
  <2>1. Loaded(p) => Loaded(p)'
    BY <1>3 DEF Loaded, Kept, store
  <2>2. Unseen(p) => Unseen(p)'
    BY <1>3 DEF Unseen, Kept, store
  <2>. QED
    BY <2>1, <2>2
<1>6. \A last : proc'[p].todo = <<"object_type", last>> => Types(p, last)'
  <2>1. \A last : <<"object_type", last>> # <<"add_type", last>>
    OBVIOUS
  <2>. QED
    BY <1>4, <2>1 DEF Types, Typing
<1>7. UpdatingObject(p)'
  BY <1>1, <1>2, <1>3, <1>5, <1>6 DEF UpdatingObject, Kept
<1>8. Doing(p)'
  BY <1>7 DEF Doing
<1>. QED
  BY <1>1, <1>3, <1>8, AsksOn

\* TNS replies, or has no such object (manager.py search_object).
LEMMA SearchObjectHolds ==
  ASSUME IInv, NEW p \in Procs, SearchObject(p)
  PROVE  IInv'
<1>1. At(p, "search_object") /\ UNCHANGED store /\ UNCHANGED world
  BY DEF SearchObject
<1>2. p \in Busy /\ proc[p].of \in Things /\ \A t \in DOMAIN tags : ~Naming(p, t)
  BY <1>1, Asks
<1>3. tns[proc[p].of] \in TNSRecords
  BY <1>2 DEF IInv, Typed
<1>4. CASE End(p, "reported")
  BY <1>1, <1>2, <1>4, GivesUp DEF Ends
<1>5. CASE proc' = [proc EXCEPT ![p].todo = Tail(@), ![p].answer = tns[proc[p].of]]
  BY <1>1, <1>3, <1>5, AnswerHolds
<1>. QED
  BY <1>4, <1>5 DEF SearchObject

\* The catalog that is held is no older than what it was last updated to (catalog.py refresh).
LEMMA RefreshGoes ==
  ASSUME Typed, Refresh, UNCHANGED <<tns, today>>
  PROVE  /\ held' \in [updated : 0..today, day : 0..today, tns : [Things -> TNSRecords]]
         /\ held'.updated <= held'.day /\ held'.day = today
         /\ file' # None => file' \in [day : 0..today, tns : [Things -> TNSRecords]]
<1> DEFINE Files == [day : 0..today, tns : [Things -> TNSRecords]]
           Catalogs == [updated : 0..today, day : 0..today, tns : [Things -> TNSRecords]]
<1>1. today \in Nat /\ tns \in [Things -> TNSRecords] /\ (file # None => file \in Files)
  BY BoundsAssumption DEF Typed
<1>2. Download \in Files /\ Download.day = today
  BY <1>1 DEF Download
<1>3. CASE held = None
  <2> DEFINE data == IF Fetches THEN Download ELSE file
  <2>1. data \in Files
    BY <1>1, <1>2, <1>3 DEF Fetches
  <2>2. data.day \in 0..today /\ data.tns \in [Things -> TNSRecords]
    BY <2>1
  <2>3. data.day = today
    BY <1>1, <1>2, <1>3 DEF Fetches, Expired
  <2>4. held' = [updated |-> data.day, day |-> data.day, tns |-> data.tns] /\ file' = data
    BY <1>3 DEF Refresh
  <2> HIDE DEF data
  <2>. QED
    BY <1>1, <2>1, <2>2, <2>3, <2>4
<1>4. CASE held # None
  <2>1. held \in Catalogs /\ held.updated <= held.day
    BY <1>4 DEF Typed
  <2>2. held.updated \in 0..today /\ held.day \in 0..today
    BY <2>1
  <2>3. CASE Expired(held.updated)
    <3>1. held' = [updated |-> held.updated, day |-> today, tns |-> tns] /\ file' = Download
      BY <1>4, <2>3 DEF Refresh, Fetches
    <3>. QED
      BY <1>1, <1>2, <2>2, <3>1
  <2>4. CASE ~Expired(held.updated)
    <3>1. held' = held /\ file' = file
      BY <1>4, <2>4 DEF Refresh, Fetches
    <3>. QED
      BY <1>1, <2>1, <2>2, <2>4, <3>1 DEF Expired
  <2>. QED
    BY <2>3, <2>4
<1>. QED
  BY <1>3, <1>4

\* p finds the name in the catalog, or not (catalog.py get).
LEMMA GetRecordHolds ==
  ASSUME IInv, NEW p \in Procs, GetRecord(p)
  PROVE  IInv'
<1> DEFINE record == held'.tns[proc[p].of]
<1>1. At(p, "get_record") /\ Refresh /\ UNCHANGED <<tns, today>> /\ UNCHANGED store
  BY DEF GetRecord
<1>2. /\ p \in Busy /\ Typed /\ proc[p].of \in Things /\ proc[p].todo # <<>>
      /\ \A t \in DOMAIN tags : ~Naming(p, t)
  BY <1>1, Asks
<1>3. /\ held' \in [updated : 0..today, day : 0..today, tns : [Things -> TNSRecords]]
      /\ held'.updated <= held'.day
      /\ file' # None => file' \in [day : 0..today, tns : [Things -> TNSRecords]]
  BY <1>1, <1>2, RefreshGoes
<1>4. record \in TNSRecords
  BY <1>2, <1>3
<1>5. ASSUME proc' \in [Procs -> Call(types)], Kept(p) PROVE Typed'
  <2>1. p \in Procs /\ Started' = Started
    BY <1>5 DEF Started, Kept
  <2>. QED
    BY <1>1, <1>2, <1>3, <1>5, <2>1, Zenon DEF Typed, store
<1> HIDE DEF record
<1>6. CASE End(p, "reported")
  <2>1. Typed'
    BY <1>2, <1>5, <1>6, EndGoes DEF Ends
  <2>. QED
    BY <1>1, <1>2, <1>6, <2>1, GivesUp DEF Ends
<1>7. CASE proc' = [proc EXCEPT ![p].todo = Tail(@), ![p].answer = record]
  <2>1. Typed'
    BY <1>2, <1>4, <1>5, <1>7, AnswerGoes
  <2>. QED
    BY <1>1, <1>4, <1>7, <2>1, AnswerHolds
<1>. QED
  BY <1>6, <1>7 DEF GetRecord, record

\* The type is known, or is to be added (model.py ObjectType.get_or_create).
LEMMA FindTypeHolds ==
  ASSUME IInv, NEW p \in Procs, FindType(p)
  PROVE  IInv'
<1>1. At(p, "object_type") /\ UNCHANGED store /\ UNCHANGED world
  BY DEF FindType
<1>2. /\ p \in Busy /\ Typed /\ proc[p].end = None /\ proc[p].kind \in {"query", "catalog"}
      /\ UpdatingObject(p) /\ proc[p].row \in 0..Len(rows) /\ Head(proc[p].todo) = "object_type"
      /\ proc[p].todo # <<>>
  BY <1>1, Asks
<1>3. PICK last \in {"update", "add_object"} :
        /\ Types(p, last)
        /\ \/ last = "update" /\ Loaded(p)
           \/ last = "add_object" /\ proc[p].kind = "catalog" /\ proc[p].row = 0 /\ Unseen(p)
  BY <1>2, UpdatePhases
<1>4. Told(p) /\ proc[p].todo = <<"object_type", last>> /\ Tail(proc[p].todo) = <<last>>
  <2>1. proc[p].todo \in {<<"object_type", last>>, <<"add_type", last>>} /\ Told(p)
    BY <1>3 DEF Types, Typing
  <2>2. Head(<<"add_type", last>>) = "add_type" /\ Tail(<<"object_type", last>>) = <<last>>
    OBVIOUS
  <2>. QED
    BY <1>2, <2>1, <2>2
<1>5. ASSUME Kept(p), proc' \in [Procs -> Call(types)], proc'[p].row = proc[p].row,
             proc'[p].end = proc[p].end, proc'[p].snap = proc[p].snap,
             proc'[p].answer = proc[p].answer,
             \/ proc'[p].todo = <<last>> /\ Knows(p)
             \/ proc'[p].todo = <<"add_type", last>> /\ ~Knows(p)
      PROVE  IInv'
  <2>1. /\ Told(p)' /\ Knows(p)' = Knows(p)
        /\ (Loaded(p) => Loaded(p)') /\ (Unseen(p) => Unseen(p)')
    BY <1>1, <1>4, <1>5 DEF Told, Loaded, Unseen, Knows, Kept, store
  <2>2. proc'[p].todo = <<"add_type", last>> /\ ~Knows(p) => Types(p, last)'
    BY <1>1, <1>4, <1>5, <2>1 DEF Types, Typing, Knows, store
  <2>3. UpdatingObject(p)'
    BY <1>2, <1>3, <1>5, <2>1, <2>2 DEF UpdatingObject, Writing, Kept
  <2>4. Doing(p)'
    BY <2>3 DEF Doing
  <2>. QED
    BY <1>1, <1>2, <1>5, <2>4, AsksOn
<1>6. CASE proc[p].answer.class \in types
  <2>1. Proceed(p) /\ Knows(p)
    BY <1>4, <1>6 DEF FindType, Knows
  <2>2. <<last>> # <<>>
    OBVIOUS
  <2>3. /\ proc' \in [Procs -> Call(types)] /\ Kept(p) /\ proc'[p].row = proc[p].row
        /\ proc'[p].todo = <<last>> /\ proc'[p].snap = proc[p].snap
        /\ proc'[p].answer = proc[p].answer /\ proc'[p].end = proc[p].end
    BY <1>2, <1>4, <2>1, <2>2, ProceedGoes
  <2>. QED
    BY <1>5, <2>1, <2>3
<1>7. CASE proc[p].answer.class \notin types
  <2>1. Then(p, <<"add_type">>) /\ ~Knows(p)
    BY <1>7 DEF FindType, Knows
  <2>2. <<"add_type">> \in Seq(StepNames)
    BY DEF StepNames
  <2>3. /\ proc' \in [Procs -> Call(types)] /\ Kept(p) /\ proc'[p].row = proc[p].row
        /\ proc'[p].todo = <<"add_type">> \o <<last>> /\ proc'[p].snap = proc[p].snap
        /\ proc'[p].answer = proc[p].answer /\ proc'[p].end = proc[p].end
    BY <1>2, <1>4, <2>1, <2>2, ThenGoes
  <2>4. proc'[p].todo = <<"add_type", last>>
    BY <2>3, TodoSteps
  <2>. QED
    BY <1>5, <2>1, <2>3, <2>4
<1>. QED
  BY <1>6, <1>7

\* The commit made the session load the object again (model.py).
LEMMA ReloadHolds ==
  ASSUME IInv, NEW p \in Procs, Reload(p)
  PROVE  IInv'
<1>1. At(p, "reload") /\ Load(p, proc[p].row, <<>>) /\ UNCHANGED store /\ UNCHANGED world
  BY DEF Reload
<1>2. /\ p \in Busy /\ Typed /\ proc[p].end = None /\ proc[p].kind \in {"query", "catalog"}
      /\ UpdatingObject(p) /\ Head(proc[p].todo) = "reload" /\ proc[p].todo # <<>>
  BY <1>1, Asks
<1>3. Loaded(p) /\ Knows(p) /\ proc[p].todo = <<"reload", "update">>
  BY <1>2, UpdatePhases
<1>4. Tail(proc[p].todo) = <<"update">> /\ <<>> \in Seq(StepNames) /\ <<>> \o <<"update">> = <<"update">>
  BY <1>3, TodoSteps, ConcatEmptySeq DEF Writing
<1>5. /\ proc' \in [Procs -> Call(types)] /\ Kept(p) /\ proc'[p].todo = <<"update">>
      /\ proc'[p].row = proc[p].row /\ proc'[p].snap = rows[proc[p].row]
      /\ proc'[p].answer = proc[p].answer /\ proc'[p].end = proc[p].end
  <2>1. proc[p].row \in DOMAIN rows /\ Load(p, proc[p].row, <<>>)
    BY <1>1, <1>3 DEF Loaded
  <2>2. <<>> \o Tail(proc[p].todo) = <<"update">>
    BY <1>3, <1>4
  <2>3. /\ proc' \in [Procs -> Call(types)] /\ Kept(p)
        /\ proc'[p].todo = <<>> \o Tail(proc[p].todo)
        /\ proc'[p].row = proc[p].row /\ proc'[p].snap = rows[proc[p].row]
        /\ proc'[p].answer = proc[p].answer /\ proc'[p].end = proc[p].end
    BY <1>2, <1>4, <2>1, LoadGoes
  <2>. QED
    BY <2>2, <2>3
<1>6. Loaded(p)' /\ proc'[p].row \in 0..Len(rows)
  BY <1>1, <1>2, <1>3, <1>5, LoadsWell DEF Loaded
<1>7. Knows(p)'
  BY <1>1, <1>3, <1>5 DEF Knows, Told, store
<1>8. Doing(p)'
  BY <1>2, <1>5, <1>6, <1>7 DEF Doing, UpdatingObject, Writing, Kept
<1>. QED
  BY <1>1, <1>2, <1>5, <1>6, <1>8, AsksOn

\* What an alert has still to do is at its next step (data/broker/alert.py).
LEMMA IngestsOn ==
  ASSUME NEW p \in Procs, NEW rest \in Rests, Kept(p), proc[p].kind = "ingest",
         Ingesting(p, rest)'
  PROVE  Doing(p)'
BY DEF Doing, Kept

\* The times that are still to be written are those that were, as long as p has
\* the same answer (data/broker/alert.py).
LEMMA SamePending ==
  ASSUME NEW p \in Procs, NEW rest \in Rests, Kept(p), UNCHANGED store,
         proc'[p].time = proc[p].time, proc'[p].answer = proc[p].answer
  PROVE  Later(p, rest)' = Later(p, rest) /\ (Pending(p, rest) => Pending(p, rest)')
<1>1. /\ Own(p)' = Own(p) /\ Before(p)' = Before(p) /\ Written(p)' = Written(p)
      /\ \A i : Unfound(p, i)' = Unfound(p, i)
  BY SameSight
<1>2. Later(p, rest)' = Later(p, rest)
  BY DEF Later, Kept
<1>3. UNCHANGED <<rows, observations>> /\ proc'[p].of = proc[p].of
      /\ proc'[p].previous = proc[p].previous
  BY DEF store, Kept
<1> DEFINE T == Later(p, rest) \cup {proc[p].time}
<1>4. T' = T
  BY <1>2
<1>5. ToWrite(p, T, rest) => ToWrite(p, T, rest)'
  BY <1>1, <1>3, <1>4 DEF ToWrite
<1>. QED
  BY <1>1, <1>2, <1>5 DEF Pending

\* The object of an alert is found, or is to be added (alert.py _get_object_id).
LEMMA FindObjectHolds ==
  ASSUME IInv, NEW p \in Procs, FindObject(p)
  PROVE  IInv'
<1> DEFINE antares == from_alias(proc[p].of, "antares")
           ztf == from_alias(proc[p].of, "ztf")
           found == IF antares = {} THEN ztf ELSE antares
<1>1. /\ At(p, "find_object") /\ p \in Busy /\ Typed /\ WorkInv
      /\ UNCHANGED store /\ UNCHANGED world
  BY DEF FindObject, At, IInv
<1>2. PICK rest \in Rests : ToFind(p, rest)
  BY <1>1, Phases
<1>3. /\ proc[p].kind = "ingest" /\ proc[p].end = None /\ proc[p].of \in Things
      /\ proc[p].row \in 0..Len(rows)
  BY <1>1, Phases
<1>4. /\ proc[p].todo = Seeking(rest) /\ Pending(p, rest) /\ proc[p].todo # <<>>
      /\ Tail(proc[p].todo) = Observing(rest)
  BY <1>2, AlertSteps DEF ToFind
<1>5. \A t \in DOMAIN tags : ~Naming(p, t)
  BY <1>1, NotNaming
<1>6. /\ antares = {i \in DOMAIN rows : rows[i].of = proc[p].of /\ "antares" \in rows[i].names}
      /\ ztf = {i \in DOMAIN rows : rows[i].of = proc[p].of /\ "ztf" \in rows[i].names}
  BY DEF from_alias
<1> HIDE DEF antares, ztf
<1>7. CASE NotDistinct(found) /\ End(p, "raised")
  <2>1. \E i, j \in DOMAIN rows : i # j /\ rows[i].of = rows[j].of
    BY <1>6, <1>7 DEF NotDistinct
  <2>. QED
    BY <1>1, <1>5, <1>7, <2>1, GivesUp DEF Ends
<1>8. CASE NotFound(found) /\ Then(p, <<"add_object">>)
  <2>1. <<"add_object">> \in Seq(StepNames) /\ <<"add_object">> \o Observing(rest) = Adding(rest)
    BY AlertSteps, TodoSteps
  <2>2. /\ proc' \in [Procs -> Call(types)] /\ Kept(p) /\ proc'[p].todo = Adding(rest)
        /\ proc'[p].row = proc[p].row /\ proc'[p].answer = proc[p].answer
        /\ proc'[p].time = proc[p].time /\ proc'[p].end = proc[p].end
    BY <1>1, <1>4, <1>8, <2>1, ThenGoes
  <2>3. Pending(p, rest)'
    BY <1>1, <1>4, <2>2, SamePending
  <2>4. antares = {} /\ ztf = {}
    BY <1>8 DEF NotFound
  <2>5. \A i \in DOMAIN rows : Unfound(p, i)
    BY <1>6, <2>4 DEF Unfound
  <2>6. \A i \in Before(p) : observations[i].object \in DOMAIN rows
    BY <1>1, RowsThere DEF Before
  <2>7. ToAdd(p, rest)'
    <3>1. \A i \in Before(p)' : Unfound(p, observations[i].object)'
      BY <1>1, <2>2, <2>5, <2>6, SameSight DEF store
    <3>2. Unseen(p)'
      BY <1>1, <1>6, <2>2, <2>4 DEF Unseen, Kept, store
    <3>. QED
      BY <1>1, <2>2, <2>3, <3>1, <3>2 DEF ToAdd, Kept, store
  <2>8. Doing(p)'
    BY <1>3, <2>2, <2>7, IngestsOn DEF Ingesting
  <2>. QED
    BY <1>1, <1>3, <2>2, <2>8, AsksOn
<1>9. CASE /\ ~NotFound(found) /\ ~NotDistinct(found)
           /\ proc' = [proc EXCEPT ![p].todo = Tail(@), ![p].row = One(found)]
  <2> DEFINE k == One(found)
  <2>1. k \in found /\ \A i \in found : i = k
    BY <1>9 DEF One, NotFound, NotDistinct
  <2>2. k \in DOMAIN rows /\ rows[k].of = proc[p].of /\ k \in 0..Len(rows) /\ k \in Nat
    <3>1. k \in DOMAIN rows /\ rows[k].of = proc[p].of
      BY <1>6, <2>1
    <3> HIDE DEF k
    <3>. QED
      BY <1>1, <3>1, RowsThere
  <2>3. /\ proc' \in [Procs -> Call(types)] /\ Kept(p) /\ proc'[p].todo = Observing(rest)
        /\ proc'[p].row = k /\ proc'[p].answer = proc[p].answer
        /\ proc'[p].time = proc[p].time /\ proc'[p].end = proc[p].end
    BY <1>1, <1>4, <1>9, <2>2, RowGoes
  <2> HIDE DEF k, found
  <2>4. Pending(p, rest)' /\ Found(p)'
    BY <1>1, <1>4, <2>2, <2>3, SamePending DEF Found, Kept, store
  <2>5. ASSUME NEW i \in DOMAIN rows, i # k PROVE Unfound(p, i)
    <3>1. CASE antares = {}
      BY <1>6, <2>1, <2>5, <3>1 DEF Unfound, found
    <3>2. CASE antares # {}
      BY <1>6, <2>1, <2>5, <3>2 DEF Unfound, found
    <3>. QED
      BY <3>1, <3>2
  <2>6. ~Unfound(p, k)
    <3>1. CASE antares = {}
      BY <1>6, <2>1, <3>1 DEF Unfound, found
    <3>2. CASE antares # {}
      BY <1>6, <2>1, <3>2 DEF Unfound, found
    <3>. QED
      BY <3>1, <3>2
  <2>7. \A i \in Before(p) : observations[i].object \in DOMAIN rows
    BY <1>1, RowsThere DEF Before
  <2>8. FoundFirst(p)'
    <3>1. \A i \in Before(p)' : observations[i].object = k \/ Unfound(p, observations[i].object)'
      BY <1>1, <2>3, <2>5, <2>7, SameSight DEF store
    <3>. QED
      BY <1>1, <2>3, <3>1 DEF FoundFirst, store
  <2>9. ASSUME rest = <<"next_alert">>, NEW i \in Before(p), observations[i].time = proc[p].time
        PROVE  observations[i].object # k
    BY <1>4, <2>6, <2>9 DEF Pending, ToWrite
  <2>10. ToObserve(p, rest)'
    <3>1. rest = <<"next_alert">> => \A i \in Before(p)' :
            observations'[i].time = proc'[p].time => observations'[i].object # proc'[p].row
      BY <1>1, <2>3, <2>9, SameSight DEF store
    <3>. QED
      BY <2>3, <2>4, <2>8, <3>1 DEF ToObserve
  <2>11. Doing(p)'
    BY <1>3, <2>3, <2>10, IngestsOn DEF Ingesting
  <2>. QED
    BY <1>1, <2>2, <2>3, <2>11, AsksOn
<1>. QED
  <2>1. \/ NotDistinct(found) /\ End(p, "raised")
        \/ NotFound(found) /\ Then(p, <<"add_object">>)
        \/ /\ ~NotFound(found) /\ ~NotDistinct(found)
           /\ proc' = [proc EXCEPT ![p].todo = Tail(@), ![p].row = One(found)]
    BY DEF FindObject, antares, ztf
  <2>. QED
    BY <1>7, <1>8, <1>9, <2>1

\* A set of times that is not empty has a last one.
LEMMA Latest ==
  ASSUME NEW n \in Nat, NEW T \in SUBSET (1..n), T # {}
  PROVE  \E t \in T : \A u \in T : u <= t
<1> DEFINE Less == OpToRel(<, Nat)
           Away == {k \in Nat : n - k \in T}
<1>1. IsWellFoundedOn(Less, Nat)
  BY NatLessThanWellFounded
<1>2. \A a, b \in Nat : <<a, b>> \in Less <=> a < b
  BY DEF OpToRel
<1> HIDE DEF Less
<1>3. Away \subseteq Nat /\ Away # {}
  <2>1. PICK u \in T : TRUE
    OBVIOUS
  <2>2. n - u \in Nat /\ n - (n - u) = u
    BY <2>1
  <2>. QED
    BY <2>1, <2>2
<1>4. PICK a \in Away : \A b \in Away : ~(<<b, a>> \in Less)
  <2> HIDE DEF Away
  <2>. QED
    BY <1>1, <1>3, WFMin
<1>5. n - a \in T /\ a \in Nat
  BY <1>4
<1>6. ASSUME NEW u \in T PROVE u <= n - a
  <2>1. n - u \in Nat /\ n - (n - u) = u /\ u \in Nat
    OBVIOUS
  <2>2. n - u \in Away
    BY <2>1
  <2>3. ~(n - u < a)
    BY <1>2, <1>4, <1>5, <2>1, <2>2
  <2>. QED
    BY <1>5, <2>1, <2>3
<1>. QED
  BY <1>5, <1>6

\* What came before an alert is written one by one, the last first (alert.py
\* backfill_database); when all is there, the delivery is complete.
LEMMA BackfillHolds ==
  ASSUME IInv, NEW p \in Procs, BackfillDatabase(p)
  PROVE  IInv'
<1>1. PICK step \in {"backfill_database", "next_alert"} : At(p, step)
  BY DEF BackfillDatabase
<1>2. /\ p \in Busy /\ Typed /\ WorkInv /\ UNCHANGED store /\ UNCHANGED world
      /\ Len(rows) \in Nat
  <2>1. Typed /\ WorkInv
    BY DEF IInv
  <2>. QED
    BY <1>1, <2>1, RowsThere DEF BackfillDatabase, At
<1> DEFINE rest == <<step>>
<1>3. /\ proc[p].kind = "ingest" /\ proc[p].end = None /\ proc[p].row \in 0..Len(rows)
      /\ Head(proc[p].todo) = step /\ rest \in Rests /\ ToGoOn(p, rest)
  <2>1. /\ proc[p].kind = "ingest" /\ proc[p].end = None /\ proc[p].row \in 0..Len(rows)
        /\ \E r \in Rests : ToGoOn(p, r) /\ r = <<step>>
    BY <1>1, <1>2, Phases
  <2>. QED
    BY <1>1, <2>1 DEF At
<1>4. /\ rest # <<>> /\ proc[p].todo = rest /\ Found(p) /\ FoundFirst(p)
      /\ ToWrite(p, Later(p, rest), rest) /\ Written(p)
  BY <1>3 DEF ToGoOn
<1>5. proc[p].todo # <<>> /\ Tail(proc[p].todo) = <<>>
  BY <1>4
<1>6. \A t \in DOMAIN tags : ~Naming(p, t)
  BY <1>1, NotNaming
<1> DEFINE missing == IF step = "next_alert" THEN proc[p].answer ELSE Missing(p)
<1>7. Backfill(p, missing)
  <2>1. At(p, "next_alert") <=> step = "next_alert"
    BY <1>1, <1>3 DEF At
  <2>. QED
    BY <2>1 DEF BackfillDatabase
<1>8. Later(p, rest) = IF step = "next_alert" THEN proc[p].answer ELSE proc[p].previous
  <2>1. <<step>> = <<"next_alert">> <=> step = "next_alert"
    OBVIOUS
  <2>. QED
    BY <2>1 DEF Later
<1>9. /\ missing \in SUBSET (1..MaxTime) /\ missing \subseteq Later(p, rest)
      /\ \A t \in proc[p].previous \ missing : \E i \in DOMAIN observations :
           observations[i].time = t /\ rows[observations[i].object].of = proc[p].of
      /\ \A i \in Before(p) : observations[i].time \in missing => Unfound(p, observations[i].object)
  <2>1. CASE step = "next_alert"
    BY <1>4, <1>8, <2>1 DEF ToWrite
  <2>2. CASE step = "backfill_database"
    <3>1. missing = Missing(p) /\ Later(p, rest) = proc[p].previous
      BY <1>8, <2>2
    <3>2. missing \in SUBSET (1..MaxTime) /\ missing \subseteq Later(p, rest)
      BY <1>4, <3>1 DEF ToWrite, Missing
    <3>3. ASSUME NEW t \in proc[p].previous \ missing
          PROVE  \E i \in DOMAIN observations :
                   observations[i].time = t /\ rows[observations[i].object].of = proc[p].of
      BY <1>4, <3>1, <3>3 DEF Missing, Found
    <3>4. ASSUME NEW i \in Before(p), observations[i].time \in missing
          PROVE  Unfound(p, observations[i].object)
      <4>1. observations[i].object # proc[p].row
        BY <3>1, <3>4 DEF Missing, Before
      <4>. QED
        BY <1>4, <4>1 DEF FoundFirst
    <3>. QED
      BY <3>2, <3>3, <3>4
  <2>. QED
    BY <2>1, <2>2
<1> HIDE DEF missing
<1>10. CASE missing = {}
  <2>1. Proceed(p)
    BY <1>7, <1>10 DEF Backfill
  <2>2. /\ proc' \in [Procs -> Call(types)] /\ Kept(p) /\ proc'[p].row = proc[p].row
        /\ proc'[p].todo = <<>> /\ proc'[p].end = "done"
    BY <1>2, <1>5, <2>1, ProceedGoes
  <2>3. Complete(p)'
    BY <1>2, <1>4, <1>9, <1>10, <2>2, SameSight DEF Complete, Kept, store
  <2>4. AtWork(p)'
    BY <1>2, <2>2, <2>3, NoneAssumption, EndWorks DEF store, Ends
  <2>5. Typed'
    BY <1>2, <2>2, TypedStays
  <2>. QED
    BY <1>2, <1>6, <2>2, <2>4, <2>5, ReadHolds
<1>11. CASE missing # {}
  <2> DEFINE next == <<"find_object", "add_observation", "add_alert", "next_alert">>
  <2>1. PICK t \in missing :
          proc' = [proc EXCEPT ![p].time = t, ![p].answer = missing \ {t}, ![p].todo = next]
    <3>1. \E u \in missing : \A v \in missing : v <= u
      BY <1>9, <1>11, BoundsAssumption, Latest
    <3>. QED
      BY <1>7, <1>11, <3>1 DEF Backfill
  <2>2. PICK left \in SUBSET (1..MaxTime) : left = missing \ {t}
    BY <1>9
  <2>3. next \in Seq(StepNames) /\ next = Seeking(<<"next_alert">>)
    BY AgainSteps
  <2> HIDE DEF next
  <2>4. t \in 1..MaxTime
    BY <1>9
  <2>5. /\ proc' \in [Procs -> Call(types)] /\ Kept(p) /\ proc'[p].todo = next
        /\ proc'[p].row = proc[p].row /\ proc'[p].answer = left
        /\ proc'[p].time = t /\ proc'[p].end = proc[p].end
    <3>1. proc' = [proc EXCEPT ![p] = [proc[p] EXCEPT !.time = t, !.answer = left, !.todo = next]]
      BY <1>2, <2>1, <2>2 DEF Typed
    <3>2. proc \in [Procs -> Call(types)] /\ proc[p] \in Call(types)
      BY <1>2 DEF Typed
    <3>3. proc' \in [Procs -> Call(types)] /\ Kept(p) /\ proc'[p].time = t
      BY <1>2, <2>3, <2>4, <3>1, TimeGoes
    <3>4. /\ proc'[p].todo = next /\ proc'[p].row = proc[p].row /\ proc'[p].answer = left
          /\ proc'[p].end = proc[p].end
      BY <3>1, <3>2 DEF Call
    <3>. QED
      BY <3>3, <3>4
  <2> DEFINE then == <<"next_alert">>
  <2>6. Later(p, then)' = left
    BY <2>5 DEF Later
  <2>7. ToWrite(p, Later(p, then) \cup {proc[p].time}, then)'
    <3>1. (Later(p, then) \cup {proc[p].time})' = missing
      BY <2>2, <2>5, <2>6
    <3>2. \A i \in Own(p)' : observations'[i].time \notin missing
      BY <1>2, <1>4, <1>9, <2>5, SameSight DEF ToWrite, store
    <3>3. then # <<>>
      OBVIOUS
    <3>4. \A i \in Before(p)' : observations'[i].time \in missing =>
            Unfound(p, observations[i].object)'
      BY <1>2, <1>9, <2>5, SameSight DEF store
    <3>5. \A s \in proc'[p].previous \ missing : \E i \in DOMAIN observations' :
            observations'[i].time = s /\ rows'[observations'[i].object].of = proc'[p].of
      BY <1>2, <1>9, <2>5 DEF store, Kept
    <3>. QED
      BY <1>9, <3>1, <3>2, <3>3, <3>4, <3>5 DEF ToWrite
  <2>8. Pending(p, then)'
    <3>1. Written(p)'
      BY <1>2, <1>4, <2>5, SameSight
    <3>. QED
      BY <2>2, <2>4, <2>5, <2>6, <2>7, <3>1 DEF Pending
  <2>9. Doing(p)'
    <3>1. ToFind(p, then)' /\ then \in Rests
      BY <2>3, <2>5, <2>8 DEF ToFind, Rests
    <3>. QED
      BY <1>3, <2>5, <3>1, IngestsOn DEF Ingesting
  <2>. QED
    BY <1>1, <1>2, <1>3, <2>5, <2>9, AsksOn
<1>. QED
  BY <1>10, <1>11

\* What p is at, when it makes a tag or a prediction.
LEMMA Publishes ==
  ASSUME IInv, NEW p \in Procs, NEW step, At(p, step),
         step \in {"find_tag", "add_tag", "name_tag", "load_object", "add_alias",
                   "update_prediction"}
  PROVE  /\ p \in Busy /\ Typed /\ WorkInv /\ proc[p].end = None /\ Head(proc[p].todo) = step
         /\ proc[p].row \in DOMAIN rows /\ proc[p].row \in 0..Len(rows) /\ proc[p].todo # <<>>
         /\ \/ proc[p].kind = "tag" /\ Tagging(p) /\ step # "update_prediction"
            \/ /\ proc[p].kind = "forecast" /\ Predicting(p)
               /\ step \in {"load_object", "update_prediction"}
<1>1. Typed /\ WorkInv
  BY DEF IInv
<1>2. /\ p \in Busy /\ proc[p].end = None /\ Head(proc[p].todo) = step
      /\ proc[p].row \in 0..Len(rows)
      /\ \/ proc[p].kind = "tag" /\ Tagging(p) /\ step # "update_prediction"
         \/ /\ proc[p].kind = "forecast" /\ Predicting(p)
            /\ step \in {"load_object", "update_prediction"}
  BY <1>1, Phases DEF At
<1>3. proc[p].row \in DOMAIN rows
  BY <1>2 DEF Tagging, Predicting
<1>4. proc[p].todo # <<>>
  BY <1>2 DEF Tagging, Predicting, TagSteps
<1>. QED
  BY <1>1, <1>2, <1>3, <1>4

\* The object has a tag, or is to have one (model.py RecommendationTag.get_or_create).
LEMMA FindTagHolds ==
  ASSUME IInv, NEW p \in Procs, FindTag(p)
  PROVE  IInv'
<1>1. At(p, "find_tag") /\ UNCHANGED store /\ UNCHANGED world
  BY DEF FindTag
<1>2. /\ p \in Busy /\ Typed /\ WorkInv /\ proc[p].end = None /\ Head(proc[p].todo) = "find_tag"
      /\ proc[p].row \in DOMAIN rows /\ proc[p].row \in 0..Len(rows) /\ proc[p].todo # <<>>
      /\ proc[p].kind = "tag" /\ Tagging(p)
  BY <1>1, Publishes
<1>3. proc[p].todo = <<"find_tag">> /\ Tail(<<"find_tag">>) = <<>>
  BY <1>2, OtherPhases
<1>4. \A t \in DOMAIN tags : ~Naming(p, t)
  BY <1>1, NotNaming
<1>5. CASE Proceed(p)
  <2>1. /\ proc' \in [Procs -> Call(types)] /\ Kept(p) /\ proc'[p].row = proc[p].row
        /\ proc'[p].todo = <<>> /\ proc'[p].end = "done"
    BY <1>2, <1>3, <1>5, ProceedGoes
  <2>2. Typed'
    BY <1>1, <1>2, <2>1, TypedStays
  <2>3. AtWork(p)'
    <3>1. Len(rows') \in Nat /\ Len(rows) <= Len(rows')
      BY <1>1, <1>2, RowsThere DEF store
    <3>. QED
      BY <1>2, <2>1, <3>1, NoneAssumption, EndWorks DEF Ends
  <2>. QED
    BY <1>1, <1>2, <1>4, <2>1, <2>2, <2>3, ReadHolds
<1>6. CASE TagsOf(proc[p].row) = {} /\ Then(p, <<"add_tag", "name_tag", "load_object", "add_alias">>)
  <2> DEFINE steps == <<"add_tag", "name_tag", "load_object", "add_alias">>
  <2>1. steps \in Seq(StepNames) /\ steps \o <<>> = steps /\ steps \in TagSteps
    BY TodoSteps, ConcatEmptySeq DEF TagSteps
  <2> HIDE DEF steps
  <2>2. Then(p, steps)
    BY <1>6 DEF steps
  <2>3. /\ proc' \in [Procs -> Call(types)] /\ Kept(p) /\ proc'[p].todo = steps
        /\ proc'[p].row = proc[p].row /\ proc'[p].end = proc[p].end
    BY <1>2, <1>3, <2>1, <2>2, ThenGoes
  <2>4. Tagging(p)'
    BY <1>1, <1>2, <1>6, <2>1, <2>3 DEF Tagging, TagsOf, store
  <2>5. Doing(p)'
    BY <1>2, <2>3, <2>4 DEF Doing, Kept
  <2>. QED
    BY <1>1, <1>2, <2>3, <2>5, AsksOn
<1>. QED
  BY <1>5, <1>6 DEF FindTag

\* The object is loaded to get its alias, or its prediction (model.py from_id).
LEMMA LoadObjectHolds ==
  ASSUME IInv, NEW p \in Procs, LoadObject(p)
  PROVE  IInv'
<1>1. /\ At(p, "load_object") /\ Load(p, proc[p].row, <<>>)
      /\ UNCHANGED store /\ UNCHANGED world
  BY DEF LoadObject
<1>2. /\ p \in Busy /\ Typed /\ WorkInv /\ proc[p].end = None
      /\ Head(proc[p].todo) = "load_object"
      /\ proc[p].row \in DOMAIN rows /\ proc[p].todo # <<>>
      /\ \/ proc[p].kind = "tag" /\ Tagging(p)
         \/ proc[p].kind = "forecast" /\ Predicting(p)
  BY <1>1, Publishes
<1>3. <<>> \in Seq(StepNames) /\ Tail(proc[p].todo) \in Seq(StepNames)
  BY <1>2, TodoSteps, HeadTailProperties DEF Typed, Call
<1>4. /\ proc' \in [Procs -> Call(types)] /\ Kept(p) /\ proc'[p].todo = Tail(proc[p].todo)
      /\ proc'[p].row = proc[p].row /\ proc'[p].snap = rows[proc[p].row]
      /\ proc'[p].end = proc[p].end
  BY <1>1, <1>2, <1>3, LoadGoes, ConcatEmptySeq
<1>5. Loaded(p)' /\ proc'[p].row \in 0..Len(rows)
  BY <1>1, <1>2, <1>4, LoadsWell
<1>6. /\ proc[p].kind = "tag" => proc[p].todo = <<"load_object", "add_alias">>
      /\ proc[p].kind = "forecast" => proc[p].todo = <<"load_object", "update_prediction">>
  BY <1>2, OtherPhases
<1>7. /\ proc[p].kind = "tag" => proc'[p].todo = <<"add_alias">>
      /\ proc[p].kind = "forecast" => proc'[p].todo = <<"update_prediction">>
  <2>1. /\ Tail(<<"load_object", "add_alias">>) = <<"add_alias">>
        /\ Tail(<<"load_object", "update_prediction">>) = <<"update_prediction">>
    OBVIOUS
  <2>. QED
    BY <1>4, <1>6, <2>1
<1>8. Doing(p)'
  <2>1. CASE proc[p].kind = "tag"
    <3>1. Head(<<"add_alias">>) # "add_tag"
      OBVIOUS
    <3>2. Tagging(p)'
      BY <1>1, <1>2, <1>4, <1>5, <1>7, <2>1, <3>1 DEF Tagging, store
    <3>. QED
      BY <1>4, <2>1, <3>2 DEF Doing, Kept
  <2>2. CASE proc[p].kind = "forecast"
    <3>1. Predicting(p)'
      BY <1>1, <1>2, <1>4, <1>5, <1>7, <2>2 DEF Predicting, store
    <3>. QED
      BY <1>4, <2>2, <3>1 DEF Doing, Kept
  <2>. QED
    BY <1>2, <2>1, <2>2
<1>9. AtWork(p)'
  BY <1>1, <1>2, <1>4, <1>5, <1>8, GoesOn DEF store
<1>10. \A t \in DOMAIN tags : Naming(p, t) => Naming(p, t)'
  <2>1. <<"load_object", "add_alias">> # <<"name_tag", "load_object", "add_alias">>
    OBVIOUS
  <2>2. None # "stopped"
    BY NoneAssumption DEF Ends
  <2>. QED
    BY <1>1, <1>2, <1>4, <1>6, <1>7, <2>1, <2>2 DEF Naming, Kept, store
<1>11. Typed'
  BY <1>1, <1>2, <1>4, TypedStays
<1>12. proc'[p].end # "raised"
  BY <1>2, <1>4, NoneAssumption DEF Ends
<1>. QED
  BY <1>1, <1>2, <1>4, <1>9, <1>10, <1>11, <1>12, ReadHolds

\* A program is killed at any of its steps.
LEMMA StopHolds ==
  ASSUME IInv, NEW p \in Procs, Stop(p)
  PROVE  IInv'
<1>1. p \in Busy /\ End(p, "stopped") /\ UNCHANGED store /\ UNCHANGED world
  BY DEF Stop
<1>. QED
  BY <1>1, GivesUp DEF Ends
------------------------------------------------------------------------------
(***************************************************************************)
(* Steps that write objects.                                               *)
(***************************************************************************)
\* What the session writes of an object, column by column (model.py ModelBase.update).
LEMMA MergedGoes ==
  ASSUME NEW T, NEW row \in Row(T), NEW snap \in Row(T), NEW new \in Row(T),
         new.had = snap.had, new.stale = snap.stale
  PROVE  LET merged == Merged(row, snap, new) IN
    /\ merged \in Row(T)
    /\ merged.of = (IF new.of = snap.of THEN row.of ELSE new.of)
    /\ merged.names = (IF new.names = snap.names THEN row.names ELSE new.names)
    /\ merged.class = (IF new.class = snap.class THEN row.class ELSE new.class)
    /\ merged.history = (IF new.history = snap.history THEN row.history ELSE new.history)
    /\ merged.pred = (IF new.pred = snap.pred THEN row.pred ELSE new.pred)
    /\ merged.added = (IF new.added = snap.added THEN row.added ELSE new.added)
    /\ merged.had = row.had \cup {new[c] : c \in {d \in {"class", "pred"} : new[d] # snap[d]}}
    /\ merged.stale = (row.stale \/ (new # snap /\ snap # row))
<1> DEFINE Columns == {"of", "names", "class", "history", "version", "pred", "added", "had",
                       "stale"}
           plain == [c \in DOMAIN row |-> IF new[c] = snap[c] THEN row[c] ELSE new[c]]
           had == row.had \cup {new[c] : c \in {d \in {"class", "pred"} : new[d] # snap[d]}}
           stale == row.stale \/ (new # snap /\ snap # row)
           merged == [plain EXCEPT !.had = had, !.stale = stale]
<1>1. DOMAIN row = Columns
  BY DEF Row
<1>2. plain = [of |-> IF new.of = snap.of THEN row.of ELSE new.of,
               names |-> IF new.names = snap.names THEN row.names ELSE new.names,
               class |-> IF new.class = snap.class THEN row.class ELSE new.class,
               history |-> IF new.history = snap.history THEN row.history ELSE new.history,
               version |-> IF new.version = snap.version THEN row.version ELSE new.version,
               pred |-> IF new.pred = snap.pred THEN row.pred ELSE new.pred,
               added |-> IF new.added = snap.added THEN row.added ELSE new.added,
               had |-> row.had, stale |-> row.stale]
  BY <1>1 DEF Row
<1>3. plain \in Row(T)
  BY <1>2 DEF Row
<1>4. had \in SUBSET (T \cup SUBSET Procs)
  BY DEF Row
<1>5. stale \in BOOLEAN
  BY DEF Row
<1> HIDE DEF plain, had, stale
<1>6. merged \in Row(T)
  BY <1>3, <1>4, <1>5, ZenonT(40) DEF Row
<1>7. /\ merged.of = plain.of /\ merged.names = plain.names /\ merged.class = plain.class
      /\ merged.history = plain.history /\ merged.pred = plain.pred /\ merged.added = plain.added
      /\ merged.had = had /\ merged.stale = stale
  BY <1>3 DEF Row
<1>8. Merged(row, snap, new) = merged
  BY DEF Merged, plain, had, stale
<1> HIDE DEF merged
<1>. QED
  BY <1>2, <1>6, <1>7, <1>8 DEF had, stale

\* An object is written from what was loaded of it: of what others wrote
\* meanwhile nothing is lost, unless the row says so.
LEMMA WritesWell ==
  ASSUME Typed, NEW p \in Procs, Loaded(p), NEW new \in Row(types),
         new.of = proc[p].snap.of, new.added = proc[p].snap.added, new.had = proc[p].snap.had,
         new.stale = proc[p].snap.stale, proc[p].snap.names \subseteq new.names,
         \A name \in {"antares", "ztf"} : name \in new.names => name \in proc[p].snap.names,
         rows' = [rows EXCEPT ![proc[p].row] = Merged(@, proc[p].snap, new)],
         UNCHANGED <<types, tags, observations, alerts>>
  PROVE  /\ rows' \in Seq(Row(types)) /\ DOMAIN rows' = DOMAIN rows /\ Len(rows') = Len(rows)
         /\ rows'[proc[p].row] = Merged(rows[proc[p].row], proc[p].snap, new)
         /\ \A i \in DOMAIN rows : i # proc[p].row => rows'[i] = rows[i]
         /\ Grows(p)
<1> DEFINE i == proc[p].row
           row == rows[i]
           snap == proc[p].snap
           merged == Merged(row, snap, new)
<1>1. /\ i \in DOMAIN rows /\ snap \in Row(types) /\ row \in Row(types)
      /\ \A name \in {"antares", "ztf"} : name \in snap.names <=> name \in row.names
      /\ row.stale \/ snap.names \subseteq row.names
  BY RowsThere DEF Loaded
<1>2. /\ merged \in Row(types) /\ merged.of = row.of /\ merged.added = row.added
      /\ merged.names = (IF new.names = snap.names THEN row.names ELSE new.names)
      /\ merged.stale = (row.stale \/ (new # snap /\ snap # row))
  BY <1>1, MergedGoes
<1>3. rows \in Seq(Row(types)) /\ Len(rows) \in Nat /\ DOMAIN rows = 1..Len(rows)
  BY RowsThere DEF Typed
<1>4. rows' = [rows EXCEPT ![i] = merged]
  OBVIOUS
<1>5. \A name \in {"antares", "ztf"} : name \in merged.names <=> name \in row.names
  BY <1>1, <1>2
<1>6. row.stale => merged.stale
  BY <1>2
<1>7. merged.stale \/ row.names \subseteq merged.names
  <2>1. CASE new.names = snap.names
    BY <1>2, <2>1
  <2>2. CASE new.names # snap.names /\ snap = row
    BY <1>2, <2>2
  <2>3. CASE new.names # snap.names /\ snap # row
    BY <1>2, <2>3
  <2>. QED
    BY <2>1, <2>2, <2>3
<1> HIDE DEF merged
<1>8. /\ rows' \in Seq(Row(types)) /\ DOMAIN rows' = DOMAIN rows /\ Len(rows') = Len(rows)
      /\ rows'[i] = merged /\ \A k \in DOMAIN rows : k # i => rows'[k] = rows[k]
  BY <1>1, <1>2, <1>3, <1>4, ExceptSeq
<1>9. ASSUME NEW k \in DOMAIN rows
      PROVE  /\ k \in DOMAIN rows' /\ rows'[k].of = rows[k].of /\ rows'[k].added = rows[k].added
             /\ \A name \in {"antares", "ztf"} : name \in rows'[k].names <=> name \in rows[k].names
             /\ rows[k].stale => rows'[k].stale
             /\ rows'[k].stale \/ rows[k].names \subseteq rows'[k].names
  <2>1. CASE k = i
    BY <1>2, <1>5, <1>6, <1>7, <1>8, <2>1
  <2>2. CASE k # i
    BY <1>8, <2>2
  <2>. QED
    BY <2>1, <2>2
<1>10. Len(rows') \in Nat /\ Len(rows) <= Len(rows') /\ DOMAIN rows' \ DOMAIN rows = {}
  BY <1>3, <1>8
<1>11. Grows(p)
  BY <1>9, <1>10, Zenon DEF Grows
<1>. QED
  BY <1>8, <1>11 DEF merged

\* What a history says.
Entries(history) == {history[n] : n \in DOMAIN history}

\* What was in the history of the object, and what it was, is so still.
LEMMA HistoryKept ==
  ASSUME NEW T, NEW row \in Row(T), NEW snap \in Row(T), NEW new \in Row(T),
         new.had = snap.had, new.stale = snap.stale,
         row.stale \/ row.had = {row.class, row.pred} \cup Entries(row.history),
         new = snap \/ {new.class, new.pred} \cup Entries(new.history) =
           {new.class, new.pred, snap.class, snap.pred} \cup
             Entries(snap.history)
  PROVE  LET merged == Merged(row, snap, new) IN
         merged.stale \/
           merged.had = {merged.class, merged.pred} \cup
                          Entries(merged.history)
<1> DEFINE merged == Merged(row, snap, new)
<1>1. /\ merged.class = (IF new.class = snap.class THEN row.class ELSE new.class)
      /\ merged.history = (IF new.history = snap.history THEN row.history ELSE new.history)
      /\ merged.pred = (IF new.pred = snap.pred THEN row.pred ELSE new.pred)
      /\ merged.had = row.had \cup {new[c] : c \in {d \in {"class", "pred"} : new[d] # snap[d]}}
      /\ merged.stale = (row.stale \/ (new # snap /\ snap # row))
  BY MergedGoes
<1>2. {new[c] : c \in {d \in {"class", "pred"} : new[d] # snap[d]}} =
        (IF new.class # snap.class THEN {new.class} ELSE {}) \cup
        (IF new.pred # snap.pred THEN {new.pred} ELSE {})
  BY DEF Row
<1> SUFFICES merged.stale \/ merged.had = {merged.class, merged.pred} \cup Entries(merged.history)
  OBVIOUS
<1> HIDE DEF merged
<1>3. CASE row.stale
  BY <1>1, <1>3
<1>4. CASE new = snap /\ ~row.stale
  BY <1>1, <1>2, <1>4
<1>5. CASE new # snap /\ snap # row
  BY <1>1, <1>5
<1>6. CASE new # snap /\ snap = row /\ ~row.stale
  <2>1. merged.class = new.class /\ merged.pred = new.pred /\ merged.history = new.history
    BY <1>1, <1>6
  <2>2. Entries(new.history) \cup {new.class, new.pred} =
          {new.class, new.pred, row.class, row.pred} \cup Entries(row.history)
    BY <1>6
  <2>3. row.had = {row.class, row.pred} \cup Entries(row.history)
    BY <1>6
  <2>4. merged.had = {row.class, row.pred, new.class, new.pred} \cup Entries(row.history)
    <3>1. merged.had = ({row.class, row.pred} \cup Entries(row.history)) \cup
            ((IF new.class # row.class THEN {new.class} ELSE {}) \cup
             (IF new.pred # row.pred THEN {new.pred} ELSE {}))
      BY <1>1, <1>2, <1>6, <2>3
    <3>. QED
      BY <3>1
  <2>. QED
    BY <2>1, <2>2, <2>4
<1>. QED
  BY <1>3, <1>4, <1>5, <1>6

\* A program that writes what it has loaded and is over keeps the invariant.
LEMMA WriteHolds ==
  ASSUME IInv, NEW p \in Busy, Loaded(p), NEW new \in Row(types),
         new.of = proc[p].snap.of, new.added = proc[p].snap.added, new.had = proc[p].snap.had,
         new.stale = proc[p].snap.stale, proc[p].snap.names \subseteq new.names,
         \A name \in {"antares", "ztf"} : name \in new.names => name \in proc[p].snap.names,
         \/ new = proc[p].snap
         \/ {new.class, new.pred} \cup Entries(new.history) =
              {new.class, new.pred, proc[p].snap.class, proc[p].snap.pred} \cup
                Entries(proc[p].snap.history),
         rows' = [rows EXCEPT ![proc[p].row] = Merged(@, proc[p].snap, new)],
         Proceed(p), proc[p].todo # <<>>, Tail(proc[p].todo) = <<>>, proc[p].kind # "ingest",
         UNCHANGED world, UNCHANGED <<types, tags, observations, alerts>>,
         \A t \in DOMAIN tags : Naming(p, t) => tags[t].named /\ "tag" \in new.names
  PROVE  IInv'
<1> DEFINE k == proc[p].row
           snap == proc[p].snap
<1>1. p \in Procs /\ Typed /\ WorkInv /\ HistoryComplete
  BY DEF Busy, Started, IInv
<1>2. /\ rows' \in Seq(Row(types)) /\ DOMAIN rows' = DOMAIN rows /\ Len(rows') = Len(rows)
      /\ rows'[k] = Merged(rows[k], snap, new)
      /\ \A i \in DOMAIN rows : i # k => rows'[i] = rows[i]
      /\ Grows(p)
  BY <1>1, WritesWell
<1>3. /\ proc' \in [Procs -> Call(types)] /\ Kept(p) /\ proc'[p].row = proc[p].row
      /\ proc'[p].todo = <<>> /\ proc'[p].end = "done"
  BY <1>1, ProceedGoes
<1>4. Started' = Started
  BY <1>1, <1>3 DEF Started, Kept
<1>5. \A i \in DOMAIN rows : rows'[i].added = rows[i].added
  BY <1>2 DEF Grows
<1>6. Typed'
  <2>1. \A i \in DOMAIN rows' : IF rows'[i].added = None THEN i = 1 ELSE rows'[i].added \in Started'
    BY <1>1, <1>2, <1>4, <1>5 DEF Typed
  <2>. QED
    BY <1>1, <1>2, <1>3, <1>4, <2>1 DEF Typed, world
<1>7. AtWork(p)'
  <2>1. Len(rows') \in Nat /\ Len(rows) <= Len(rows')
    BY <1>1, <1>2, RowsThere
  <2>. QED
    BY <1>1, <1>3, <2>1, NoneAssumption, EndWorks DEF Ends
<1>8. k \in DOMAIN rows /\ snap \in Row(types) /\ rows[k] \in Row(types)
  BY <1>1, RowsThere DEF Loaded
<1>9. HistoryComplete'
  <2>1. ASSUME NEW i \in DOMAIN rows
        PROVE  rows[i].stale \/
          rows[i].had = {rows[i].class, rows[i].pred} \cup Entries(rows[i].history)
    BY <1>1 DEF HistoryComplete, Entries
  <2> DEFINE merged == Merged(rows[k], snap, new)
  <2>2. merged.stale \/
          merged.had = {merged.class, merged.pred} \cup Entries(merged.history)
    <3>1. rows[k].stale \/
            rows[k].had = {rows[k].class, rows[k].pred} \cup
                            Entries(rows[k].history)
      BY <1>8, <2>1
    <3>2. /\ new.had = snap.had /\ new.stale = snap.stale
          /\ new = snap \/ {new.class, new.pred} \cup Entries(new.history) =
               {new.class, new.pred, snap.class, snap.pred} \cup
                 Entries(snap.history)
      OBVIOUS
    <3> HIDE DEF k, snap
    <3>. QED
      BY <1>8, <3>1, <3>2, HistoryKept
  <2> HIDE DEF merged
  <2>3. ASSUME NEW i \in DOMAIN rows'
        PROVE  rows'[i].stale \/
          rows'[i].had = {rows'[i].class, rows'[i].pred} \cup Entries(rows'[i].history)
    <3>1. CASE i = k
      BY <1>2, <2>2, <3>1 DEF merged
    <3>2. CASE i # k
      BY <1>2, <2>1, <3>2
    <3>. QED
      BY <3>1, <3>2
  <2>. QED
    BY <2>3 DEF HistoryComplete, Entries
<1>10. ASSUME NEW t \in DOMAIN tags, Naming(p, t)
       PROVE  /\ tags'[t].named
              /\ "tag" \in rows'[tags'[t].object].names \/ rows'[tags'[t].object].stale
  <2>1. tags[t].object = k /\ tags[t].named /\ "tag" \in new.names /\ tags' = tags
    BY <1>10 DEF Naming
  <2> DEFINE merged == Merged(rows[k], snap, new)
  <2>2. /\ merged.names = (IF new.names = snap.names THEN rows[k].names ELSE new.names)
        /\ merged.stale = (rows[k].stale \/ (new # snap /\ snap # rows[k]))
    BY <1>8, MergedGoes
  <2>3. rows[k].stale \/ snap.names \subseteq rows[k].names
    BY DEF Loaded
  <2> HIDE DEF merged
  <2>4. "tag" \in merged.names \/ merged.stale
    BY <2>1, <2>2, <2>3
  <2>5. rows'[k] = merged
    BY <1>2 DEF merged
  <2>. QED
    BY <2>1, <2>4, <2>5
<1>11. proc'[p].end # "raised"
  BY <1>3
<1>12. \A t \in DOMAIN tags' \ DOMAIN tags : Naming(p, t)'
  OBVIOUS
<1>13. \A i, j \in DOMAIN rows' : j \notin DOMAIN rows =>
           (i < j => i \in DOMAIN rows) /\ rows'[j].of = proc[p].of /\ Unseen(p)
  BY <1>2
<1>. QED
  BY <1>2, <1>3, <1>6, <1>7, <1>9, <1>10, <1>11, <1>12, <1>13, StepHolds

\* An element that is appended is in the range of the sequence.
LEMMA AppendRange ==
  ASSUME NEW S, NEW s \in Seq(S), NEW e
  PROVE  Entries(Append(s, e)) = Entries(s) \cup {e}
<1>1. s \in Seq(S \cup {e}) /\ e \in S \cup {e}
  <2>1. Len(s) \in Nat /\ s \in [1..Len(s) -> S]
    BY LenProperties
  <2>. QED
    BY <2>1, SeqDef
<1>2. /\ Append(s, e) \in Seq(S \cup {e}) /\ Len(Append(s, e)) = Len(s) + 1
      /\ \A i \in 1..Len(s) : Append(s, e)[i] = s[i]
      /\ Append(s, e)[Len(s) + 1] = e
  BY <1>1, AppendProperties
<1>3. /\ Len(s) \in Nat /\ DOMAIN s = 1..Len(s)
      /\ DOMAIN Append(s, e) = 1..(Len(s) + 1)
  BY <1>1, <1>2, LenProperties
<1>. QED
  BY <1>2, <1>3 DEF Entries

\* The class, the name and the history that TNS gives are written (Object.update).
LEMMA UpdateHolds ==
  ASSUME IInv, NEW p \in Procs, Update(p)
  PROVE  IInv'
<1> DEFINE snap == proc[p].snap
           answer == proc[p].answer
           new == build_info(snap, answer, proc[p].kind = "query")
           history == Append(snap.history, snap.class)
<1>1. /\ At(p, "update") /\ Proceed(p) /\ UNCHANGED world
      /\ UNCHANGED <<types, tags, observations, alerts>>
      /\ rows' = [rows EXCEPT ![proc[p].row] = Merged(@, snap, new)]
  BY DEF Update
<1>2. /\ p \in Busy /\ Typed /\ proc[p].kind \in {"query", "catalog"} /\ UpdatingObject(p)
      /\ Head(proc[p].todo) = "update" /\ proc[p].todo # <<>>
      /\ \A t \in DOMAIN tags : ~Naming(p, t)
  BY <1>1, Asks
<1>3. Loaded(p) /\ Knows(p) /\ proc[p].todo = <<"update">>
  BY <1>2, UpdatePhases
<1>4. Tail(proc[p].todo) = <<>>
  BY <1>3
<1>5. /\ snap \in Row(types) /\ answer \in TNSRecords /\ answer.class \in types
      /\ answer.version \in 0..MaxVersion /\ snap.names \cup {"iau"} \in SUBSET Providers
  BY <1>3 DEF Loaded, Knows, Told, TNSRecords, Row, Providers, Given
<1>6. history \in Seq(types \cup SUBSET Procs)
  BY <1>5, AppendProperties DEF Row
<1>7. Entries(history) = Entries(snap.history) \cup {snap.class}
  <2>1. snap.history \in Seq(types \cup SUBSET Procs)
    BY <1>5 DEF Row
  <2>. QED
    BY <2>1, AppendRange
<1> HIDE DEF history
<1>8. CASE answer.class # snap.class
  <2> DEFINE names == snap.names \cup {"iau"}
             version == answer.version
             class == answer.class
             made == [snap EXCEPT !.class = class, !.names = names, !.version = version,
                                  !.history = history]
  <2>1. new = made
    BY <1>8 DEF build_info, history
  <2>2. names \in SUBSET Providers /\ version \in 0..MaxVersion /\ class \in types
    BY <1>5
  <2>3. /\ snap.names \subseteq names
        /\ \A name \in {"antares", "ztf"} : name \in names => name \in snap.names
    OBVIOUS
  <2> HIDE DEF names, version, class
  <2>4. made \in Row(types)
    BY <1>5, <1>6, <2>2, ZenonT(40) DEF Row
  <2>5. /\ made.of = snap.of /\ made.added = snap.added /\ made.had = snap.had
        /\ made.stale = snap.stale /\ made.names = names /\ made.class = class
        /\ made.pred = snap.pred /\ made.history = history
    BY <1>5 DEF Row
  <2> HIDE DEF made, snap
  <2>6. {made.class, made.pred} \cup Entries(made.history) =
          {made.class, made.pred, snap.class, snap.pred} \cup
            Entries(snap.history)
    BY <1>7, <2>5
  <2>7. rows' = [rows EXCEPT ![proc[p].row] = Merged(@, proc[p].snap, made)]
    BY <1>1, <2>1 DEF snap
  <2>. QED
    BY <1>1, <1>2, <1>3, <1>4, <2>3, <2>4, <2>5, <2>6, <2>7, WriteHolds DEF snap
<1>9. CASE answer.class = snap.class /\ new # snap
  <2> DEFINE names == snap.names \cup {"iau"}
             version == answer.version
             made == [snap EXCEPT !.names = names, !.version = version]
  <2>1. new = made
    BY <1>9 DEF build_info
  <2>2. names \in SUBSET Providers /\ version \in 0..MaxVersion
    BY <1>5
  <2>3. /\ snap.names \subseteq names
        /\ \A name \in {"antares", "ztf"} : name \in names => name \in snap.names
    OBVIOUS
  <2> HIDE DEF names, version
  <2>4. made \in Row(types)
    BY <1>5, <2>2, ZenonT(40) DEF Row
  <2>5. /\ made.of = snap.of /\ made.added = snap.added /\ made.had = snap.had
        /\ made.stale = snap.stale /\ made.names = names /\ made.class = snap.class
        /\ made.pred = snap.pred /\ made.history = snap.history
    BY <1>5 DEF Row
  <2> HIDE DEF made, snap
  <2>6. {made.class, made.pred} \cup Entries(made.history) =
          {made.class, made.pred, snap.class, snap.pred} \cup
            Entries(snap.history)
    BY <2>5
  <2>7. rows' = [rows EXCEPT ![proc[p].row] = Merged(@, proc[p].snap, made)]
    BY <1>1, <2>1 DEF snap
  <2>. QED
    BY <1>1, <1>2, <1>3, <1>4, <2>3, <2>4, <2>5, <2>6, <2>7, WriteHolds DEF snap
<1>10. CASE new = snap
  <2>1. rows' = [rows EXCEPT ![proc[p].row] = Merged(@, proc[p].snap, snap)]
    BY <1>1, <1>10
  <2>. QED
    BY <1>1, <1>2, <1>3, <1>4, <1>5, <2>1, WriteHolds
<1>. QED
  <2>1. answer.class # snap.class \/ (answer.class = snap.class /\ new # snap) \/ new = snap
    BY Zenon
  <2>. QED
    BY <1>8, <1>9, <1>10, <2>1

\* The object gets its tag as an alias (model.py Object.add_alias).
LEMMA AddAliasHolds ==
  ASSUME IInv, NEW p \in Procs, AddAlias(p)
  PROVE  IInv'
<1> DEFINE snap == proc[p].snap
           names == snap.names \cup {"tag"}
           new == [snap EXCEPT !.names = names]
<1>1. /\ At(p, "add_alias") /\ Proceed(p) /\ UNCHANGED world
      /\ UNCHANGED <<types, tags, observations, alerts>>
      /\ rows' = [rows EXCEPT ![proc[p].row] = Merged(@, proc[p].snap, new)]
  BY DEF AddAlias
<1>2. /\ p \in Busy /\ proc[p].kind = "tag" /\ Tagging(p) /\ proc[p].todo # <<>>
      /\ Head(proc[p].todo) = "add_alias"
  BY <1>1, Publishes
<1>3. Loaded(p) /\ proc[p].todo = <<"add_alias">>
  BY <1>2, OtherPhases
<1>4. Tail(proc[p].todo) = <<>>
  BY <1>3
<1>5. snap \in Row(types) /\ names \in SUBSET Providers
  BY <1>3 DEF Loaded, Row, Providers
<1>6. /\ snap.names \subseteq names /\ "tag" \in names
      /\ \A name \in {"antares", "ztf"} : name \in names => name \in snap.names
  OBVIOUS
<1> HIDE DEF names
<1>7. new \in Row(types)
  BY <1>5, ZenonT(40) DEF Row
<1>8. /\ new.of = snap.of /\ new.added = snap.added /\ new.had = snap.had
      /\ new.stale = snap.stale /\ new.names = names /\ new.class = snap.class
      /\ new.pred = snap.pred /\ new.history = snap.history
  BY <1>5 DEF Row
<1>9. \A t \in DOMAIN tags : Naming(p, t) => tags[t].named /\ "tag" \in new.names
  <2>1. <<"add_alias">> # <<"name_tag", "load_object", "add_alias">>
    OBVIOUS
  <2>2. proc[p].end # "stopped"
    BY <1>2, NoneAssumption DEF Busy, Ends
  <2>. QED
    BY <1>3, <1>6, <1>8, <2>1, <2>2 DEF Naming
<1> HIDE DEF new, snap
<1>10. {new.class, new.pred} \cup Entries(new.history) =
         {new.class, new.pred, snap.class, snap.pred} \cup Entries(snap.history)
  BY <1>8
<1>. QED
  BY <1>1, <1>2, <1>3, <1>4, <1>6, <1>7, <1>8, <1>9, <1>10, WriteHolds DEF snap

\* The type that is predicted is as it was, or what was predicted before goes
\* to the history (apps/refitt/forecast/publish.py update_object).
LEMMA UpdatePredictionHolds ==
  ASSUME IInv, NEW p \in Procs, UpdatePrediction(p)
  PROVE  IInv'
<1> DEFINE snap == proc[p].snap
           history == Append(snap.history, snap.pred)
<1>1. /\ At(p, "update_prediction") /\ Proceed(p) /\ UNCHANGED world
      /\ UNCHANGED <<types, tags, observations, alerts>>
  BY DEF UpdatePrediction
<1>2. /\ p \in Busy /\ proc[p].kind = "forecast" /\ Predicting(p) /\ proc[p].todo # <<>>
      /\ Head(proc[p].todo) = "update_prediction"
  BY <1>1, Publishes
<1>3. Loaded(p) /\ proc[p].todo = <<"update_prediction">>
  BY <1>2, OtherPhases
<1>4. Tail(proc[p].todo) = <<>>
  BY <1>3
<1>5. /\ snap \in Row(types) /\ snap.history \in Seq(types \cup SUBSET Procs)
      /\ snap.pred \in SUBSET Procs
  BY <1>3 DEF Loaded, Row
<1>6. PICK pred \in SUBSET Procs :
        rows' = [rows EXCEPT ![proc[p].row] = Merged(@, proc[p].snap, predict(proc[p].snap, pred))]
  <2>1. PICK pred \in {snap.pred} \cup {others \cup {p} : others \in SUBSET snap.pred} :
          rows' = [rows EXCEPT ![proc[p].row] = Merged(@, proc[p].snap, predict(proc[p].snap, pred))]
    BY DEF UpdatePrediction
  <2>2. pred \in SUBSET Procs
    BY <1>5
  <2>. QED
    BY <2>1, <2>2
<1>7. \A t \in DOMAIN tags : ~Naming(p, t)
  BY <1>1, NotNaming
<1>8. CASE pred = snap.pred
  <2>1. rows' = [rows EXCEPT ![proc[p].row] = Merged(@, proc[p].snap, snap)]
    BY <1>6, <1>8 DEF predict
  <2>. QED
    BY <1>1, <1>2, <1>3, <1>4, <1>5, <1>7, <2>1, WriteHolds
<1>9. CASE pred # snap.pred
  <2> DEFINE new == [snap EXCEPT !.pred = pred, !.history = history]
  <2>1. rows' = [rows EXCEPT ![proc[p].row] = Merged(@, proc[p].snap, new)]
    BY <1>6, <1>9 DEF predict
  <2>2. history \in Seq(types \cup SUBSET Procs)
    BY <1>5, AppendProperties
  <2>3. Entries(history) = Entries(snap.history) \cup {snap.pred}
    BY <1>5, AppendRange
  <2> HIDE DEF history
  <2>4. new \in Row(types)
    BY <1>5, <2>2, ZenonT(40) DEF Row
  <2>5. /\ new.of = snap.of /\ new.added = snap.added /\ new.had = snap.had
        /\ new.stale = snap.stale /\ new.names = snap.names /\ new.class = snap.class
        /\ new.pred = pred /\ new.history = history
    BY <1>5 DEF Row
  <2> HIDE DEF new, snap
  <2>6. {new.class, new.pred} \cup Entries(new.history) =
          {new.class, new.pred, snap.class, snap.pred} \cup Entries(snap.history)
    BY <2>3, <2>5
  <2>. QED
    BY <1>1, <1>2, <1>3, <1>4, <1>7, <2>1, <2>4, <2>5, <2>6, WriteHolds DEF snap
<1>. QED
  BY <1>8, <1>9

\* A row that is added is there, after those that were (model.py Object.add).
LEMMA AddsWell ==
  ASSUME Typed, NEW p \in Procs, NEW new \in Row(types), new.added = p,
         rows' = Append(rows, new), UNCHANGED <<types, tags, observations, alerts>>
  PROVE  /\ rows' \in Seq(Row(types)) /\ Len(rows') = Len(rows) + 1
         /\ DOMAIN rows' = DOMAIN rows \cup {Len(rows) + 1} /\ Len(rows) + 1 \notin DOMAIN rows
         /\ rows'[Len(rows) + 1] = new /\ \A i \in DOMAIN rows : rows'[i] = rows[i]
         /\ Grows(p)
<1>1. rows \in Seq(Row(types)) /\ Len(rows) \in Nat /\ DOMAIN rows = 1..Len(rows)
  BY RowsThere DEF Typed
<1>2. /\ rows' \in Seq(Row(types)) /\ Len(rows') = Len(rows) + 1
      /\ \A i \in 1..Len(rows) : rows'[i] = rows[i]
      /\ rows'[Len(rows) + 1] = new
  BY <1>1, AppendProperties
<1>3. DOMAIN rows' = 1..(Len(rows) + 1)
  BY <1>1, <1>2, LenProperties
<1>4. DOMAIN rows' = DOMAIN rows \cup {Len(rows) + 1} /\ Len(rows) + 1 \notin DOMAIN rows
  BY <1>1, <1>3
<1>5. Len(rows') \in Nat /\ Len(rows) <= Len(rows')
  BY <1>1, <1>2
<1>6. Grows(p)
  <2>1. \A i \in DOMAIN rows : rows'[i] = rows[i] /\ i \in DOMAIN rows'
    BY <1>1, <1>2, <1>4
  <2>2. \A i \in DOMAIN rows' \ DOMAIN rows : rows'[i].added = p
    BY <1>2, <1>4
  <2>. QED
    BY <1>5, <2>1, <2>2 DEF Grows
<1>. QED
  BY <1>1, <1>2, <1>4, <1>6

\* A program that adds an object keeps the invariant, if it met those who added
\* the others under that name (data/broker/alert.py, manager.py).
LEMMA AddHolds ==
  ASSUME IInv, NEW p \in Busy, NEW new \in Row(types), new.added = p,
         rows' = Append(rows, new), UNCHANGED <<types, tags, observations, alerts>>, UNCHANGED world,
         new.had = {new.class, {}}, new.pred = {}, new.history = <<>>,
         new.of = proc[p].of, Unseen(p),
         proc' \in [Procs -> Call(types)], Kept(p), AtWork(p)', proc'[p].end # "raised",
         \A t \in DOMAIN tags : ~Naming(p, t)
  PROVE  IInv'
<1>1. p \in Procs /\ Typed /\ HistoryComplete
  BY DEF Busy, Started, IInv
<1>2. /\ rows' \in Seq(Row(types)) /\ Len(rows') = Len(rows) + 1 /\ Len(rows) \in Nat
      /\ DOMAIN rows = 1..Len(rows)
      /\ DOMAIN rows' = DOMAIN rows \cup {Len(rows) + 1} /\ Len(rows) + 1 \notin DOMAIN rows
      /\ rows'[Len(rows) + 1] = new /\ \A i \in DOMAIN rows : rows'[i] = rows[i]
      /\ Grows(p)
  BY <1>1, AddsWell, RowsThere
<1>3. Started' = Started /\ p \in Started
  BY <1>1 DEF Started, Kept, Busy
<1>4. Typed'
  <2>1. \A i \in DOMAIN rows' : IF rows'[i].added = None THEN i = 1 ELSE rows'[i].added \in Started'
    <3>1. ASSUME NEW i \in DOMAIN rows
          PROVE  IF rows'[i].added = None THEN i = 1 ELSE rows'[i].added \in Started'
      BY <1>1, <1>2, <1>3 DEF Typed
    <3>2. p # None
      BY <1>1, NoneAssumption
    <3>. QED
      BY <1>2, <1>3, <3>1, <3>2
  <2>2. tags' \in Seq([object : DOMAIN rows', by : Procs, named : BOOLEAN])
    <3> DEFINE S == [object : DOMAIN rows, by : Procs, named : BOOLEAN]
               T == [object : DOMAIN rows', by : Procs, named : BOOLEAN]
    <3>1. tags \in Seq(S) /\ S \subseteq T
      BY <1>1, <1>2 DEF Typed
    <3> HIDE DEF S, T
    <3>2. tags \in Seq(T)
      BY <3>1, SeqMonotonic
    <3>. QED
      BY <3>2 DEF T
  <2>3. observations' \in Seq([object : DOMAIN rows', time : 1..MaxTime, by : Started', new : BOOLEAN])
    <3> DEFINE S == [object : DOMAIN rows, time : 1..MaxTime, by : Started, new : BOOLEAN]
               T == [object : DOMAIN rows', time : 1..MaxTime, by : Started', new : BOOLEAN]
    <3>1. observations \in Seq(S) /\ S \subseteq T
      BY <1>1, <1>2, <1>3 DEF Typed
    <3> HIDE DEF S, T
    <3>2. observations \in Seq(T)
      BY <3>1, SeqMonotonic
    <3>. QED
      BY <3>2 DEF T
  <2>. QED
    BY <1>1, <1>2, <2>1, <2>2, <2>3 DEF Typed, world
<1>5. HistoryComplete'
  <2>1. ASSUME NEW i \in DOMAIN rows'
        PROVE  rows'[i].stale \/
                 rows'[i].had = {rows'[i].class, rows'[i].pred} \cup Entries(rows'[i].history)
    <3>1. CASE i \in DOMAIN rows
      BY <1>1, <1>2, <3>1 DEF HistoryComplete, Entries
    <3>2. CASE i = Len(rows) + 1
      <4>1. Entries(<<>>) = {}
        BY DEF Entries
      <4>2. new.had = {new.class, new.pred} \cup Entries(new.history)
        BY <4>1
      <4>. QED
        BY <1>2, <3>2, <4>2
    <3>. QED
      BY <1>2, <3>1, <3>2
  <2>. QED
    BY <2>1 DEF HistoryComplete, Entries
<1>6. \A i, j \in DOMAIN rows' : j \notin DOMAIN rows =>
        (i < j => i \in DOMAIN rows) /\ rows'[j].of = proc[p].of /\ Unseen(p)
  <2> SUFFICES ASSUME NEW i \in DOMAIN rows', NEW j \in DOMAIN rows', j \notin DOMAIN rows
               PROVE  (i < j => i \in DOMAIN rows) /\ rows'[j].of = proc[p].of
    OBVIOUS
  <2>1. j = Len(rows) + 1 /\ (i < j => i \in DOMAIN rows)
    BY <1>2
  <2>. QED
    BY <1>2, <2>1
<1>. QED
  BY <1>2, <1>4, <1>5, <1>6, StepHolds

\* A type is added, unless another added it meanwhile (model.py ObjectType.add).
LEMMA AddTypeHolds ==
  ASSUME IInv, NEW p \in Procs, AddType(p)
  PROVE  IInv'
<1> DEFINE class == proc[p].answer.class
<1>1. /\ At(p, "add_type") /\ UNCHANGED <<rows, tags, observations, alerts>> /\ UNCHANGED world
      /\ \/ class \in types /\ End(p, "raised") /\ UNCHANGED types
         \/ /\ types' = types \cup {class}
            /\ Then(p, IF proc[p].row = 0 THEN <<>> ELSE <<"reload">>)
  BY DEF AddType
<1>2. /\ p \in Busy /\ Typed /\ WorkInv /\ proc[p].end = None /\ HistoryComplete
      /\ proc[p].kind \in {"query", "catalog"} /\ UpdatingObject(p)
      /\ proc[p].row \in 0..Len(rows) /\ Head(proc[p].todo) = "add_type"
      /\ proc[p].todo # <<>> /\ \A t \in DOMAIN tags : ~Naming(p, t)
  BY <1>1, Asks DEF IInv
<1>3. PICK last \in {"update", "add_object"} :
        /\ Types(p, last)
        /\ \/ last = "update" /\ Loaded(p)
           \/ last = "add_object" /\ proc[p].kind = "catalog" /\ proc[p].row = 0 /\ Unseen(p)
  BY <1>2, UpdatePhases
<1>4. Told(p) /\ proc[p].todo = <<"add_type", last>> /\ Tail(proc[p].todo) = <<last>>
  <2>1. proc[p].todo \in {<<"object_type", last>>, <<"add_type", last>>} /\ Told(p)
    BY <1>3 DEF Types, Typing
  <2>2. Head(<<"object_type", last>>) = "object_type" /\ Tail(<<"add_type", last>>) = <<last>>
    OBVIOUS
  <2>. QED
    BY <1>2, <2>1, <2>2
<1>5. CASE class \in types /\ End(p, "raised") /\ UNCHANGED types
  <2>1. proc[p].met # {}
    BY <1>3, <1>4, <1>5 DEF Types
  <2>. QED
    BY <1>1, <1>2, <1>5, <2>1, GivesUp DEF store, Ends
<1>6. CASE /\ types' = types \cup {class}
           /\ Then(p, IF proc[p].row = 0 THEN <<>> ELSE <<"reload">>)
  <2> DEFINE steps == IF proc[p].row = 0 THEN <<>> ELSE <<"reload">>
             todo == steps \o <<last>>
  <2>1. steps \in Seq(StepNames)
    <3>1. <<"reload">> \in Seq(StepNames)
      BY DEF StepNames
    <3>. QED
      BY <3>1, TodoSteps
  <2>2. \/ proc[p].row = 0 /\ todo = <<last>>
        \/ proc[p].row # 0 /\ todo = <<"reload", last>>
    <3>1. <<last>> \in Seq(StepNames)
      BY DEF StepNames
    <3>. QED
      BY <3>1, TodoSteps, ConcatEmptySeq
  <2>3. /\ proc' \in [Procs -> Call(types)] /\ Kept(p) /\ proc'[p].todo = todo
        /\ proc'[p].row = proc[p].row /\ proc'[p].snap = proc[p].snap
        /\ proc'[p].answer = proc[p].answer /\ proc'[p].end = proc[p].end
    BY <1>2, <1>4, <1>6, <2>1, ThenGoes
  <2> HIDE DEF todo, steps
  <2>4. Started' = Started /\ p \in Procs
    BY <2>3 DEF Started, Kept
  <2>5. Len(rows) \in Nat
    BY <1>2, RowsThere
  <2>6. Grows(p)
    BY <1>1, <1>6, <2>5 DEF Grows
  <2>7. Typed'
    <3>1. types' \subseteq Classes \cup {Unknown}
      BY <1>2, <1>4, <1>6 DEF Typed, Told, TNSRecords
    <3>2. types \subseteq types'
      BY <1>6
    <3>3. Row(types) \subseteq Row(types') /\ Call(types) \subseteq Call(types')
      BY <3>2, MoreTypes
    <3>4. rows \in Seq(Row(types'))
      <4>1. rows \in Seq(Row(types))
        BY <1>2 DEF Typed
      <4>. QED
        BY <3>3, <4>1, SeqMonotonic
    <3>5. proc' \in [Procs -> Call(types')]
      BY <2>3, <3>3
    <3>. QED
      BY <1>1, <1>2, <2>4, <3>1, <3>4, <3>5 DEF Typed, world
  <2>8. Loaded(p) => Loaded(p)'
    <3>1. Row(types) \subseteq Row(types')
      BY <1>6, MoreTypes
    <3>. QED
      BY <1>1, <2>3, <3>1 DEF Loaded
  <2>9. Knows(p)'
    BY <1>4, <1>6, <2>3 DEF Knows, Told
  <2>10. Doing(p)'
    <3>1. Loaded(p) => proc[p].row # 0
      BY <2>5, <1>2, RowsThere DEF Loaded
    <3>2. \/ last = "update" /\ todo = <<"reload", "update">> /\ Loaded(p)'
          \/ /\ last = "add_object" /\ proc[p].kind = "catalog" /\ proc[p].row = 0 /\ Unseen(p)'
             /\ todo = <<"add_object">>
      <4>1. Unseen(p) => Unseen(p)'
        BY <1>1, <2>3 DEF Unseen, Kept
      <4>. QED
        BY <1>3, <2>2, <2>8, <3>1, <4>1
    <3>3. UpdatingObject(p)'
      BY <1>2, <2>3, <2>9, <3>2 DEF UpdatingObject, Writing, Kept
    <3>. QED
      BY <3>3 DEF Doing
  <2>11. AtWork(p)'
    BY <1>1, <1>2, <2>3, <2>10, GoesOn
  <2>12. HistoryComplete'
    BY <1>1, <1>2 DEF HistoryComplete
  <2>13. proc'[p].end # "raised"
    BY <1>2, <2>3, NoneAssumption DEF Ends
  <2>. QED
    BY <1>1, <1>2, <2>3, <2>6, <2>7, <2>11, <2>12, <2>13, StepHolds
<1>. QED
  BY <1>1, <1>5, <1>6

\* An object as it is added: of no name or type that was lost yet.
IsNew(p, new) ==
  /\ new \in Row(types) /\ new.added = p /\ new.of = proc[p].of
  /\ new.had = {new.class, {}} /\ new.pred = {} /\ new.history = <<>>

\* What an object is when it is added (model.py Object.add).
LEMMA NewObjectFields ==
  ASSUME NEW p, NEW names, NEW class, NEW version
  PROVE  NewObject(p, names, class, version)
           = [of |-> proc[p].of, names |-> names, class |-> class, history |-> <<>>,
              version |-> version, pred |-> {}, added |-> p, had |-> {class, {}}, stale |-> FALSE]
BY DEF NewObject

LEMMA NewObjectGoes ==
  ASSUME Typed, NEW p \in Procs, proc[p].of \in Things, NEW names \in SUBSET Providers,
         NEW class \in types, NEW version \in 0..MaxVersion
  PROVE  IsNew(p, NewObject(p, names, class, version))
<1> DEFINE new == NewObject(p, names, class, version)
           history == <<>>
           had == {class, {}}
           pred == {}
<1>1. history \in Seq(types \cup SUBSET Procs)
  OBVIOUS
<1>2. had \in SUBSET (types \cup SUBSET Procs)
  OBVIOUS
<1>3. pred \in SUBSET Procs /\ p \in Procs \cup {None} /\ FALSE \in BOOLEAN
  OBVIOUS
<1>4. new = [of |-> proc[p].of, names |-> names, class |-> class, history |-> history,
             version |-> version, pred |-> pred, added |-> p, had |-> had, stale |-> FALSE]
  BY NewObjectFields
<1> HIDE DEF new, history, had, pred
<1>5. new \in Row(types)
  BY <1>1, <1>2, <1>3, <1>4 DEF Row
<1>6. /\ new \in Row(types) /\ new.added = p /\ new.of = proc[p].of
      /\ new.had = {new.class, {}} /\ new.pred = {} /\ new.history = <<>>
  BY <1>4, <1>5 DEF history, had, pred
<1>. QED
  BY <1>6 DEF IsNew, new

\* An object that p adds is not one that p would have found: of what it is to
\* write of an alert nothing changes (data/broker/alert.py).
LEMMA SightGrows ==
  ASSUME Typed, NEW p \in Procs, Kept(p), Grows(p), UNCHANGED <<observations, alerts>>
  PROVE  /\ Own(p)' = Own(p) /\ Before(p)' = Before(p) /\ Written(p)' = Written(p)
         /\ \A i \in DOMAIN rows : Unfound(p, i) => Unfound(p, i)'
         /\ \A rest \in Rests :
              proc'[p].time = proc[p].time /\ proc'[p].answer = proc[p].answer /\ Pending(p, rest) =>
                Pending(p, rest)'
<1>1. Own(p)' = Own(p) /\ Before(p)' = Before(p) /\ Written(p)' = Written(p)
  BY DEF Own, Before, Written, Kept
<1>2. \A i \in DOMAIN rows : Unfound(p, i) => Unfound(p, i)'
  <2> SUFFICES ASSUME NEW i \in DOMAIN rows, Unfound(p, i) PROVE Unfound(p, i)'
    OBVIOUS
  <2>1. /\ i \in DOMAIN rows' /\ rows'[i].of = rows[i].of /\ proc'[p].of = proc[p].of
        /\ "antares" \in rows'[i].names <=> "antares" \in rows[i].names
        /\ "ztf" \in rows'[i].names <=> "ztf" \in rows[i].names
    BY DEF Grows, Kept
  <2>2. ASSUME NEW k \in DOMAIN rows, rows[k].of = proc[p].of, "antares" \in rows[k].names
        PROVE  k \in DOMAIN rows' /\ rows'[k].of = proc'[p].of /\ "antares" \in rows'[k].names
    BY <2>1, <2>2 DEF Grows
  <2>. QED
    BY <2>1, <2>2 DEF Unfound
<1>3. \A i \in DOMAIN observations :
        /\ observations[i].object \in DOMAIN rows
        /\ rows'[observations[i].object].of = rows[observations[i].object].of
  BY RowsThere DEF Grows
<1>4. proc'[p].of = proc[p].of /\ proc'[p].previous = proc[p].previous
  BY DEF Kept
<1>5. ASSUME NEW rest \in Rests, proc'[p].time = proc[p].time, proc'[p].answer = proc[p].answer,
             Pending(p, rest)
      PROVE  Pending(p, rest)'
  <2>1. Later(p, rest)' = Later(p, rest)
    BY <1>4, <1>5 DEF Later
  <2> DEFINE T == Later(p, rest) \cup {proc[p].time}
  <2>2. T' = T
    BY <1>5, <2>1
  <2>3. ToWrite(p, T, rest)
    BY <1>5 DEF Pending
  <2>4. \A i \in Before(p) : Unfound(p, observations[i].object) => Unfound(p, observations[i].object)'
    BY <1>2, <1>3 DEF Before
  <2>5. ToWrite(p, T, rest)'
    BY <1>1, <1>3, <1>4, <2>2, <2>3, <2>4 DEF ToWrite
  <2>. QED
    BY <1>1, <1>5, <2>1, <2>5 DEF Pending
<1>. QED
  BY <1>1, <1>2, <1>5

\* An object that TNS lists is added by the catalog, or one that is found in
\* an alert by the stream (data/tns/manager.py, data/broker/alert.py).
LEMMA AddObjectHolds ==
  ASSUME IInv, NEW p \in Procs, AddObject(p)
  PROVE  IInv'
<1>1. /\ At(p, "add_object") /\ p \in Busy /\ Typed /\ WorkInv
      /\ UNCHANGED <<types, tags, observations, alerts>> /\ UNCHANGED world
  BY DEF AddObject, At, IInv
<1>2. /\ proc[p].end = None /\ proc[p].of \in Things /\ proc[p].row \in 0..Len(rows)
      /\ Head(proc[p].todo) = "add_object"
      /\ \/ proc[p].kind = "catalog" /\ UpdatingObject(p)
         \/ proc[p].kind = "ingest" /\ \E rest \in Rests : ToAdd(p, rest)
  BY <1>1, Phases DEF At
<1>3. \A t \in DOMAIN tags : ~Naming(p, t)
  BY <1>1, NotNaming
<1>4. CASE proc[p].kind = "catalog" /\ UpdatingObject(p)
  <2> DEFINE names == get_names(proc[p].answer)
             class == proc[p].answer.class
             version == proc[p].answer.version
             new == NewObject(p, names, class, version)
  <2>1. Knows(p) /\ Unseen(p) /\ proc[p].todo = <<"add_object">>
    BY <1>2, <1>4, UpdatePhases
  <2>2. names \in SUBSET Providers /\ class \in types /\ version \in 0..MaxVersion
    BY <2>1 DEF Knows, Told, TNSRecords, get_names, Providers, Given
  <2>3. rows' = Append(rows, new) /\ Proceed(p)
    BY <1>4 DEF AddObject
  <2>4. /\ new \in Row(types) /\ new.added = p /\ new.of = proc[p].of
        /\ new.had = {new.class, {}} /\ new.pred = {} /\ new.history = <<>>
    <3>1. new = NewObject(p, names, class, version)
      OBVIOUS
    <3> HIDE DEF names, class, version, new
    <3>2. IsNew(p, NewObject(p, names, class, version))
      BY <1>1, <1>2, <2>2, NewObjectGoes, Zenon
    <3>. QED
      BY <3>1, <3>2 DEF IsNew
  <2> HIDE DEF names, class, version, new
  <2>5. Tail(proc[p].todo) = <<>> /\ proc[p].todo # <<>>
    BY <2>1
  <2>6. /\ proc' \in [Procs -> Call(types)] /\ Kept(p) /\ proc'[p].row = proc[p].row
        /\ proc'[p].todo = <<>> /\ proc'[p].end = "done"
    BY <1>1, <2>3, <2>5, ProceedGoes
  <2>7. Len(rows') \in Nat /\ Len(rows) <= Len(rows')
    BY <1>1, <2>3, <2>4, AddsWell, RowsThere
  <2>8. AtWork(p)'
    BY <1>1, <1>4, <2>6, <2>7, NoneAssumption, EndWorks DEF Ends
  <2>. QED
    BY <1>1, <1>3, <2>1, <2>3, <2>4, <2>6, <2>8, AddHolds
<1>5. CASE proc[p].kind = "ingest" /\ \E rest \in Rests : ToAdd(p, rest)
  <2> DEFINE names == {"antares", "ztf"}
             class == Unknown
             version == 0
             new == NewObject(p, names, class, version)
             k == Len(rows) + 1
  <2>1. PICK rest \in Rests : ToAdd(p, rest)
    BY <1>5
  <2>2. /\ proc[p].todo = Adding(rest) /\ Pending(p, rest) /\ proc[p].todo # <<>>
        /\ Tail(proc[p].todo) = Observing(rest)
        /\ \A i \in Before(p) : Unfound(p, observations[i].object)
        /\ Unseen(p)
    BY <2>1, AlertSteps DEF ToAdd
  <2>3. rows' = Append(rows, new) /\ proc' = [proc EXCEPT ![p].todo = Tail(@), ![p].row = k]
    BY <1>5, NoneAssumption DEF AddObject
  <2>4. /\ new \in Row(types) /\ new.added = p /\ new.of = proc[p].of
        /\ new.had = {new.class, {}} /\ new.pred = {} /\ new.history = <<>>
    <3>1. names \in SUBSET Providers /\ version \in 0..MaxVersion
      BY BoundsAssumption DEF Providers, Given
    <3>2. class \in types /\ proc[p].of \in Things /\ Typed
      BY <1>1, <1>2 DEF Typed
    <3>3. new = NewObject(p, names, class, version)
      OBVIOUS
    <3> HIDE DEF names, class, version, new
    <3>4. IsNew(p, NewObject(p, names, class, version))
      BY <3>1, <3>2, NewObjectGoes, Zenon
    <3>. QED
      BY <3>3, <3>4 DEF IsNew
  <2> HIDE DEF new
  <2>5. /\ Len(rows) \in Nat /\ Len(rows') = k /\ DOMAIN rows' = DOMAIN rows \cup {k}
        /\ k \notin DOMAIN rows /\ rows'[k] = new /\ Grows(p)
    BY <1>1, <2>3, <2>4, AddsWell, RowsThere
  <2>6. k \in Nat
    BY <2>5
  <2> HIDE DEF k
  <2>7. /\ proc' \in [Procs -> Call(types)] /\ Kept(p)
        /\ proc'[p].todo = Observing(rest) /\ proc'[p].row = k
        /\ proc'[p].answer = proc[p].answer /\ proc'[p].time = proc[p].time
        /\ proc'[p].end = proc[p].end
    BY <1>1, <2>2, <2>3, <2>6, RowGoes
  <2>8. Pending(p, rest)' /\ Before(p)' = Before(p)
    BY <1>1, <2>2, <2>5, <2>7, SightGrows
  <2>9. Found(p)'
    BY <2>4, <2>5, <2>7 DEF Found, Kept
  <2>10. \A i \in Before(p) : observations[i].object \in DOMAIN rows
    BY <1>1, RowsThere DEF Before
  <2>11. \A i \in Before(p) : Unfound(p, observations[i].object)'
    BY <1>1, <2>2, <2>5, <2>7, <2>10, SightGrows
  <2>12. ToObserve(p, rest)'
    <3>1. FoundFirst(p)'
      BY <1>1, <2>8, <2>11 DEF FoundFirst
    <3>2. \A i \in Before(p)' : observations'[i].object # proc'[p].row
      BY <1>1, <2>5, <2>7, <2>8, <2>10
    <3>. QED
      BY <2>7, <2>8, <2>9, <3>1, <3>2 DEF ToObserve
  <2>13. AtWork(p)'
    <3>1. Doing(p)'
      BY <1>5, <2>7, <2>12, IngestsOn DEF Ingesting
    <3>2. proc'[p].row \in 0..Len(rows')
      BY <2>5, <2>6, <2>7
    <3>. QED
      BY <1>1, <1>2, <2>7, <3>1, <3>2, GoesOn
  <2>14. proc'[p].end # "raised"
    BY <1>2, <2>7, NoneAssumption DEF Ends
  <2>. QED
    BY <1>1, <1>3, <2>2, <2>3, <2>4, <2>7, <2>13, <2>14, AddHolds
<1>. QED
  BY <1>2, <1>4, <1>5

\* What is appended is last (model.py Observation.add, RecommendationTag.add).
LEMMA AppendGoes ==
  ASSUME NEW S, NEW T, NEW s \in Seq(S), NEW e \in T, S \subseteq T
  PROVE  /\ Append(s, e) \in Seq(T) /\ DOMAIN Append(s, e) = DOMAIN s \cup {Len(s) + 1}
         /\ Len(s) \in Nat /\ DOMAIN s = 1..Len(s) /\ Len(s) + 1 \notin DOMAIN s
         /\ Append(s, e)[Len(s) + 1] = e /\ \A i \in DOMAIN s : Append(s, e)[i] = s[i]
<1>1. s \in Seq(T)
  BY SeqMonotonic
<1>2. /\ Append(s, e) \in Seq(T) /\ Len(Append(s, e)) = Len(s) + 1
      /\ \A i \in 1..Len(s) : Append(s, e)[i] = s[i]
      /\ Append(s, e)[Len(s) + 1] = e
  BY <1>1, AppendProperties
<1>3. /\ Len(s) \in Nat /\ DOMAIN s = 1..Len(s)
      /\ DOMAIN Append(s, e) = 1..(Len(s) + 1)
  BY <1>1, <1>2, LenProperties
<1>. QED
  BY <1>2, <1>3

\* A tag is added without a name, unless the object has one (model.py RecommendationTag.new).
LEMMA AddTagHolds ==
  ASSUME IInv, NEW p \in Procs, AddTag(p)
  PROVE  IInv'
<1>1. /\ At(p, "add_tag") /\ UNCHANGED <<types, rows, observations, alerts>> /\ UNCHANGED world
  BY DEF AddTag
<1>2. /\ p \in Busy /\ Typed /\ WorkInv /\ proc[p].end = None /\ Head(proc[p].todo) = "add_tag"
      /\ proc[p].row \in DOMAIN rows /\ proc[p].row \in 0..Len(rows) /\ proc[p].todo # <<>>
      /\ proc[p].kind = "tag" /\ Tagging(p) /\ HistoryComplete
  BY <1>1, Publishes DEF IInv
<1>3. /\ proc[p].todo = <<"add_tag", "name_tag", "load_object", "add_alias">>
      /\ Tail(proc[p].todo) = <<"name_tag", "load_object", "add_alias">>
      /\ Tail(proc[p].todo) # <<>>
  <2>1. proc[p].todo = <<"add_tag", "name_tag", "load_object", "add_alias">>
    BY <1>2, OtherPhases
  <2>. QED
    BY <2>1
<1>4. \A t \in DOMAIN tags : ~Naming(p, t)
  BY <1>1, NotNaming
<1>5. CASE TagsOf(proc[p].row) # {} /\ End(p, "raised") /\ UNCHANGED tags
  <2>1. proc[p].met # {}
    BY <1>2, <1>5 DEF Tagging
  <2>. QED
    BY <1>1, <1>2, <1>4, <1>5, <2>1, GivesUp DEF store, Ends
<1>6. CASE /\ tags' = Append(tags, [object |-> proc[p].row, by |-> p, named |-> FALSE])
           /\ Proceed(p)
  <2> DEFINE Tags == [object : DOMAIN rows, by : Procs, named : BOOLEAN]
             new == [object |-> proc[p].row, by |-> p, named |-> FALSE]
             k == Len(tags) + 1
  <2>1. tags \in Seq(Tags) /\ new \in Tags /\ new.object = proc[p].row /\ new.by = p
    BY <1>2 DEF Typed
  <2> HIDE DEF Tags, new
  <2>2. /\ tags' \in Seq(Tags) /\ DOMAIN tags' = DOMAIN tags \cup {k} /\ k \notin DOMAIN tags
        /\ tags'[k] = new /\ \A t \in DOMAIN tags : tags'[t] = tags[t]
    BY <1>6, <2>1, AppendGoes DEF new
  <2> HIDE DEF k
  <2>3. /\ proc' \in [Procs -> Call(types)] /\ Kept(p) /\ proc'[p].row = proc[p].row
        /\ proc'[p].todo = <<"name_tag", "load_object", "add_alias">>
        /\ proc'[p].end = proc[p].end
    BY <1>2, <1>3, <1>6, ProceedGoes
  <2>4. Started' = Started
    BY <2>3 DEF Started, Kept
  <2>5. Len(rows) \in Nat
    BY <1>2, RowsThere
  <2>6. Grows(p)
    BY <1>1, <2>2, <2>5 DEF Grows
  <2>7. Typed'
    <3>1. tags' \in Seq([object : DOMAIN rows, by : Procs, named : BOOLEAN])
      BY <2>2 DEF Tags
    <3>. QED
      BY <1>1, <1>2, <2>3, <2>4, <3>1 DEF Typed, world
  <2>8. Doing(p)'
    <3>1. Head(<<"name_tag", "load_object", "add_alias">>) # "add_tag"
      OBVIOUS
    <3>2. Tagging(p)'
      BY <1>1, <1>2, <2>3, <3>1 DEF Tagging, TagSteps
    <3>. QED
      BY <1>2, <2>3, <3>2 DEF Doing, Kept
  <2>9. AtWork(p)'
    BY <1>1, <1>2, <2>3, <2>8, GoesOn
  <2>10. HistoryComplete'
    BY <1>1, <1>2 DEF HistoryComplete
  <2>11. proc'[p].end # "raised"
    BY <1>2, <2>3, NoneAssumption DEF Ends
  <2>12. \A t \in DOMAIN tags' \ DOMAIN tags : Naming(p, t)'
    BY <1>2, <2>1, <2>2, <2>3 DEF Naming, Kept
  <2>. QED
    BY <1>1, <1>2, <1>4, <2>3, <2>6, <2>7, <2>9, <2>10, <2>11, <2>12, StepHolds
<1>. QED
  BY <1>5, <1>6 DEF AddTag

\* The tag gets its name (model.py RecommendationTag.new).
LEMMA NameTagHolds ==
  ASSUME IInv, NEW p \in Procs, NameTag(p)
  PROVE  IInv'
<1>1. /\ At(p, "name_tag") /\ Proceed(p)
      /\ UNCHANGED <<types, rows, observations, alerts>> /\ UNCHANGED world
      /\ tags' = [t \in DOMAIN tags |-> [tags[t] EXCEPT !.named = @ \/ t \in TagsOf(proc[p].row)]]
  BY DEF NameTag
<1>2. /\ p \in Busy /\ Typed /\ WorkInv /\ proc[p].end = None /\ Head(proc[p].todo) = "name_tag"
      /\ proc[p].row \in DOMAIN rows /\ proc[p].row \in 0..Len(rows) /\ proc[p].todo # <<>>
      /\ proc[p].kind = "tag" /\ Tagging(p) /\ HistoryComplete
  BY <1>1, Publishes DEF IInv
<1>3. /\ proc[p].todo = <<"name_tag", "load_object", "add_alias">>
      /\ Tail(proc[p].todo) = <<"load_object", "add_alias">>
      /\ Tail(proc[p].todo) # <<>>
  <2>1. proc[p].todo = <<"name_tag", "load_object", "add_alias">>
    BY <1>2, OtherPhases
  <2>. QED
    BY <2>1
<1> DEFINE Tags == [object : DOMAIN rows, by : Procs, named : BOOLEAN]
<1>4. tags \in Seq(Tags) /\ Len(tags) \in Nat /\ DOMAIN tags = 1..Len(tags)
      /\ \A t \in DOMAIN tags : tags[t] \in Tags
  <2>1. tags \in Seq(Tags)
    BY <1>2 DEF Typed
  <2> HIDE DEF Tags
  <2>. QED
    BY <2>1, LenProperties, ElementOfSeq
<1>5. \A t \in DOMAIN tags : (t \in TagsOf(proc[p].row)) \in BOOLEAN
  OBVIOUS
<1>6. ASSUME NEW t \in DOMAIN tags
      PROVE  /\ tags'[t] \in Tags /\ tags'[t].object = tags[t].object /\ tags'[t].by = tags[t].by
             /\ tags[t].named => tags'[t].named
             /\ tags[t].object = proc[p].row => tags'[t].named
  <2> DEFINE named == tags[t].named \/ t \in TagsOf(proc[p].row)
  <2>1. tags[t] \in Tags /\ named \in BOOLEAN
    BY <1>4
  <2>2. tags'[t] = [tags[t] EXCEPT !.named = named]
    BY <1>1
  <2>3. (tags[t].named => named) /\ (tags[t].object = proc[p].row => named)
    BY DEF TagsOf
  <2> HIDE DEF named
  <2>4. /\ tags'[t] \in Tags /\ tags'[t].named = named /\ tags'[t].object = tags[t].object
        /\ tags'[t].by = tags[t].by
    BY <2>1, <2>2
  <2>. QED
    BY <2>3, <2>4
<1>7. tags' \in Seq(Tags) /\ DOMAIN tags' = DOMAIN tags
  <2>1. DOMAIN tags' = 1..Len(tags) /\ tags' \in [1..Len(tags) -> Tags]
    BY <1>1, <1>4, <1>6
  <2> HIDE DEF Tags
  <2>. QED
    BY <1>4, <2>1, SeqDef
<1>8. /\ proc' \in [Procs -> Call(types)] /\ Kept(p) /\ proc'[p].row = proc[p].row
      /\ proc'[p].todo = <<"load_object", "add_alias">>
      /\ proc'[p].end = proc[p].end
  BY <1>1, <1>2, <1>3, ProceedGoes
<1>9. Started' = Started /\ Len(rows) \in Nat
  BY <1>2, <1>8, RowsThere DEF Started, Kept
<1>10. Grows(p)
  <2>1. \A t \in DOMAIN tags :
          /\ t \in DOMAIN tags' /\ tags'[t].object = tags[t].object /\ tags'[t].by = tags[t].by
          /\ tags[t].named => tags'[t].named
    BY <1>6, <1>7
  <2>2. types' = types /\ rows' = rows /\ alerts' = alerts /\ observations' = observations
    BY <1>1
  <2>. QED
    BY <1>9, <2>1, <2>2 DEF Grows
<1>11. Typed'
  BY <1>1, <1>2, <1>7, <1>8, <1>9 DEF Typed, world
<1>12. Doing(p)'
  <2>1. Head(<<"load_object", "add_alias">>) # "add_tag"
    OBVIOUS
  <2>2. Tagging(p)'
    BY <1>1, <1>2, <1>8, <2>1 DEF Tagging, TagSteps
  <2>. QED
    BY <1>2, <1>8, <2>2 DEF Doing, Kept
<1>13. AtWork(p)'
  BY <1>1, <1>2, <1>8, <1>12, GoesOn
<1>14. HistoryComplete'
  BY <1>1, <1>2 DEF HistoryComplete
<1>15. proc'[p].end # "raised"
  BY <1>2, <1>8, NoneAssumption DEF Ends
<1>16. \A t \in DOMAIN tags : Naming(p, t) => Naming(p, t)'
  BY <1>2, <1>6, <1>8 DEF Naming, Kept
<1>. QED
  BY <1>1, <1>2, <1>7, <1>8, <1>10, <1>11, <1>13, <1>14, <1>15, <1>16, StepHolds

\* The observation of an alert is added (data/broker/alert.py to_database): it
\* is of a time that p has not yet written of the object, nor one before p.
LEMMA AddObservationHolds ==
  ASSUME IInv, NEW p \in Procs, AddObservation(p)
  PROVE  IInv'
<1> DEFINE first == \A i \in DOMAIN observations : observations[i].by # p
           new == [object |-> proc[p].row, time |-> proc[p].time, by |-> p, new |-> first]
           k == Len(observations) + 1
           S == [object : DOMAIN rows, time : 1..MaxTime, by : Started, new : BOOLEAN]
<1>1. /\ At(p, "add_observation") /\ Proceed(p) /\ observations' = Append(observations, new)
      /\ UNCHANGED <<types, rows, tags, alerts>> /\ UNCHANGED world
  BY DEF AddObservation
<1>2. /\ p \in Busy /\ p \in Started /\ Typed /\ WorkInv /\ HistoryComplete /\ ObservedOnce
      /\ Len(rows) \in Nat
  <2>1. Typed /\ WorkInv /\ HistoryComplete /\ ObservedOnce
    BY DEF IInv
  <2>. QED
    BY <1>1, <2>1, RowsThere DEF At, Busy
<1>3. /\ proc[p].kind = "ingest" /\ proc[p].end = None /\ proc[p].row \in 0..Len(rows)
      /\ \E rest \in Rests : ToObserve(p, rest)
  BY <1>1, <1>2, Phases
<1>4. PICK rest \in Rests : ToObserve(p, rest)
  BY <1>3
<1>5. /\ proc[p].todo = Observing(rest) /\ Found(p) /\ FoundFirst(p) /\ Pending(p, rest)
      /\ rest = <<"next_alert">> => \A i \in Before(p) :
           observations[i].time = proc[p].time => observations[i].object # proc[p].row
      /\ proc[p].todo # <<>> /\ Tail(proc[p].todo) = Alerting(rest) /\ Alerting(rest) # <<>>
  BY <1>4, AlertSteps DEF ToObserve
<1>6. \A t \in DOMAIN tags : ~Naming(p, t)
  BY <1>1, NotNaming
<1>7. /\ proc' \in [Procs -> Call(types)] /\ Kept(p) /\ proc'[p].row = proc[p].row
      /\ proc'[p].todo = Alerting(rest) /\ proc'[p].answer = proc[p].answer
      /\ proc'[p].time = proc[p].time /\ proc'[p].end = proc[p].end
  BY <1>1, <1>2, <1>5, ProceedGoes
<1>8. new \in S /\ new.object = proc[p].row /\ new.time = proc[p].time /\ new.by = p /\ new.new = first
  <2>1. proc[p].row \in DOMAIN rows /\ proc[p].time \in 1..MaxTime
    BY <1>5 DEF Found, Pending
  <2>. QED
    BY <1>2, <2>1
<1> HIDE DEF new, S
<1>9. /\ observations' \in Seq(S) /\ DOMAIN observations' = DOMAIN observations \cup {k}
      /\ Len(observations) \in Nat /\ DOMAIN observations = 1..Len(observations)
      /\ k \notin DOMAIN observations /\ observations'[k] = new
      /\ \A i \in DOMAIN observations : observations'[i] = observations[i]
  <2>1. observations \in Seq(S)
    BY <1>2 DEF Typed, S
  <2>. QED
    BY <1>1, <1>8, <2>1, AppendGoes
<1>10. \A i \in DOMAIN observations : i < k /\ ~(k < i)
  BY <1>9
<1>11. k \in Nat
  BY <1>9
<1> HIDE DEF k
<1>12. Started' = Started /\ p \in Procs
  BY <1>7 DEF Started, Kept
<1>13. Grows(p)
  BY <1>1, <1>2, <1>8, <1>9 DEF Grows
<1>14. Typed'
  <2>1. observations' \in Seq([object : DOMAIN rows, time : 1..MaxTime, by : Started, new : BOOLEAN])
    BY <1>9 DEF S
  <2>2. alerts \subseteq DOMAIN observations'
    BY <1>2, <1>9 DEF Typed
  <2>. QED
    BY <1>1, <1>2, <1>7, <1>12, <2>1, <2>2 DEF Typed, world
<1>15. Own(p)' = Own(p) \cup {k} /\ Before(p)' = Before(p)
  BY <1>7, <1>8, <1>9 DEF Own, Before, Kept
<1>16. Own(p) \subseteq DOMAIN observations /\ Before(p) \subseteq DOMAIN observations
  BY DEF Own, Before
<1>17. \A i : Unfound(p, i)' = Unfound(p, i)
  BY <1>1, <1>7 DEF Unfound, Kept
<1> DEFINE T == Later(p, rest)
           all == T \cup {proc[p].time}
<1>18. /\ proc[p].time \notin T /\ ToWrite(p, all, rest)
       /\ IF rest = <<"next_alert">> THEN Written(p) ELSE Own(p) = {}
  BY <1>5 DEF Pending
<1>19. T' = T
  BY <1>7 DEF Later, Kept
<1>20. ToWrite(p, T, rest)'
  <2>1. T \subseteq 1..MaxTime /\ (rest = <<>> => proc'[p].previous = {})
    BY <1>7, <1>18 DEF ToWrite, Kept
  <2>2. \A i \in Own(p)' : observations'[i].time \notin T
    BY <1>8, <1>9, <1>15, <1>16, <1>18 DEF ToWrite
  <2>3. ASSUME rest = <<"next_alert">>, NEW i \in Before(p), observations[i].time \in T
        PROVE  Unfound(p, observations[i].object)
    BY <1>18, <2>3 DEF ToWrite
  <2>4. ASSUME rest = <<"next_alert">>, NEW t \in proc[p].previous \ T
        PROVE  \E i \in DOMAIN observations' :
                 observations'[i].time = t /\ rows[observations'[i].object].of = proc[p].of
    <3>1. CASE t = proc[p].time
      BY <1>5, <1>8, <1>9, <3>1 DEF Found
    <3>2. CASE t # proc[p].time
      <4>1. PICK i \in DOMAIN observations :
              observations[i].time = t /\ rows[observations[i].object].of = proc[p].of
        BY <1>18, <2>4, <3>2 DEF ToWrite
      <4>. QED
        BY <1>9, <4>1
    <3>. QED
      BY <3>1, <3>2
  <2>5. proc'[p].previous = proc[p].previous /\ proc'[p].of = proc[p].of
    BY <1>7 DEF Kept
  <2>6. rest = <<"next_alert">> => \A i \in Before(p)' : observations'[i].time \in T =>
          Unfound(p, observations[i].object)' /\ observations'[i] = observations[i]
    BY <1>9, <1>15, <1>16, <1>17, <2>3
  <2>7. rest = <<"next_alert">> => \A t \in proc'[p].previous \ T : \E i \in DOMAIN observations' :
          observations'[i].time = t /\ rows'[observations'[i].object].of = proc'[p].of
    BY <1>1, <2>4, <2>5
  <2> HIDE DEF T
  <2>. QED
    BY <1>19, <2>1, <2>2, <2>6, <2>7 DEF ToWrite
<1>21. Found(p)' /\ FoundFirst(p)'
  <2>1. Found(p)'
    BY <1>1, <1>5, <1>7 DEF Found, Kept
  <2>2. FoundFirst(p)'
    BY <1>5, <1>7, <1>9, <1>15, <1>16, <1>17 DEF FoundFirst
  <2>. QED
    BY <2>1, <2>2
<1>22. \E i \in Own(p)' : observations'[i].new
  <2>1. CASE Own(p) = {}
    <3>1. first
      BY <2>1 DEF Own
    <3>. QED
      BY <1>8, <1>9, <1>15, <3>1
  <2>2. CASE Written(p)
    BY <1>9, <1>15, <1>16, <2>2 DEF Written
  <2>. QED
    BY <1>18, <2>1, <2>2
<1>23. \E i \in Own(p)' : \A j \in Own(p)' : j <= i /\ (j = i \/ j \in alerts')
  <2>1. Own(p) \subseteq alerts
    BY <1>18 DEF Written
  <2>2. \A j \in Own(p) : j <= k /\ j \in alerts'
    BY <1>1, <1>9, <1>10, <1>11, <1>16, <2>1
  <2>. QED
    BY <1>11, <1>15, <2>2
<1>24. AtWork(p)'
  <2>1. ToAlert(p, rest)'
    BY <1>7, <1>20, <1>21, <1>22, <1>23 DEF ToAlert
  <2>2. Doing(p)'
    BY <1>3, <1>7, <2>1, IngestsOn DEF Ingesting
  <2>. QED
    BY <1>1, <1>2, <1>3, <1>7, <2>2, GoesOn
<1>25. ObservedOnce'
  <2>1. \A q \in Procs : proc'[q].met = proc[q].met
    BY <1>7 DEF Kept
  <2> SUFFICES ASSUME NEW i \in DOMAIN observations', NEW j \in DOMAIN observations', i < j,
                      observations'[i].object = observations'[j].object,
                      observations'[i].time = observations'[j].time
               PROVE  observations'[j].new \/ observations'[i].by \in proc'[observations'[j].by].met
    BY DEF ObservedOnce
  <2>2. CASE j \in DOMAIN observations
    <3>1. i \in DOMAIN observations
      BY <1>9, <1>10, <2>2
    <3>2. observations[j].by \in Procs
      BY <1>2, <2>2, RowsThere DEF Started
    <3>. QED
      BY <1>2, <1>9, <2>1, <2>2, <3>1, <3>2 DEF ObservedOnce
  <2>3. CASE j = k
    <3>1. i \in DOMAIN observations /\ observations'[i] = observations[i]
      BY <1>9, <1>11, <2>3
    <3>2. observations[i].object = proc[p].row /\ observations[i].time = proc[p].time
      BY <1>8, <1>9, <2>3, <3>1
    <3>3. CASE Own(p) = {}
      <4>1. first
        BY <3>3 DEF Own
      <4>. QED
        BY <1>8, <1>9, <2>3, <4>1
    <3>4. CASE rest = <<"next_alert">>
      <4>1. i \notin Own(p)
        BY <1>18, <3>2 DEF ToWrite
      <4>2. i \notin Before(p)
        BY <1>5, <3>2, <3>4
      <4>3. observations[i].by \in proc[p].met
        BY <3>1, <4>1, <4>2 DEF Own, Before
      <4>. QED
        BY <1>8, <1>9, <1>12, <2>1, <2>3, <3>1, <4>3
    <3>. QED
      BY <1>18, <3>3, <3>4
  <2>. QED
    BY <1>9, <2>2, <2>3
<1>26. HistoryComplete' /\ proc'[p].end # "raised"
  BY <1>1, <1>2, <1>3, <1>7, NoneAssumption DEF HistoryComplete, Ends
<1>. QED
  BY <1>1, <1>2, <1>6, <1>7, <1>13, <1>14, <1>24, <1>25, <1>26, StepHolds

\* The alert is of the latest of the program's observations, which alone had none.
LEMMA LastAlert ==
  ASSUME IInv, NEW p \in Procs, AddAlert(p)
  PROVE  /\ Own(p) \subseteq alerts'
         /\ \E m \in DOMAIN observations : alerts' = alerts \cup {m}
<1>2. /\ p \in Busy /\ At(p, "add_alert") /\ Typed /\ WorkInv /\ DOMAIN observations \subseteq Nat
  <2>1. Typed /\ WorkInv
    BY DEF IInv
  <2>. QED
    BY <2>1, RowsThere DEF AddAlert, At
<1>4. PICK rest \in Rests : ToAlert(p, rest)
  BY <1>2, Phases
<1>7. PICK last \in Own(p) : \A j \in Own(p) : j <= last /\ (j = last \/ j \in alerts)
  BY <1>4 DEF ToAlert
<1>8. PICK m \in DOMAIN observations :
        /\ alerts' = alerts \cup {m} /\ observations[m].by = p
        /\ \A j \in DOMAIN observations : observations[j].by = p => j <= m
  <2>1. \E i \in DOMAIN observations :
          /\ observations[i].by = p
          /\ \A j \in DOMAIN observations : observations[j].by = p => j <= i
    BY <1>7 DEF Own
  <2>. QED
    BY <2>1 DEF AddAlert
<1>9. m = last
  <2>1. m \in Own(p) /\ last \in DOMAIN observations /\ observations[last].by = p
    BY <1>7, <1>8 DEF Own
  <2>2. m <= last /\ last <= m
    BY <1>7, <1>8, <2>1
  <2>. QED
    BY <1>2, <1>8, <2>1, <2>2
<1>10. Own(p) \subseteq alerts'
  BY <1>7, <1>8, <1>9
<1>. QED
  BY <1>8, <1>10

\* The alert is added, and the delivery is over or goes on with what came
\* before (data/broker/alert.py).
LEMMA AddAlertHolds ==
  ASSUME IInv, NEW p \in Procs, AddAlert(p)
  PROVE  IInv'
<1>1. /\ At(p, "add_alert") /\ Proceed(p)
      /\ UNCHANGED <<types, rows, tags, observations>> /\ UNCHANGED world
  BY DEF AddAlert
<1>2. /\ p \in Busy /\ Typed /\ WorkInv /\ HistoryComplete /\ Len(rows) \in Nat
      /\ DOMAIN observations \subseteq Nat
  <2>1. Typed /\ WorkInv /\ HistoryComplete
    BY DEF IInv
  <2>. QED
    BY <1>1, <2>1, RowsThere DEF At
<1>3. /\ proc[p].kind = "ingest" /\ proc[p].end = None /\ proc[p].row \in 0..Len(rows)
      /\ \E rest \in Rests : ToAlert(p, rest)
  BY <1>1, <1>2, Phases
<1>4. PICK rest \in Rests : ToAlert(p, rest)
  BY <1>3
<1>5. /\ proc[p].todo = Alerting(rest) /\ Found(p) /\ FoundFirst(p)
      /\ ToWrite(p, Later(p, rest), rest) /\ \E i \in Own(p) : observations[i].new
      /\ proc[p].todo # <<>> /\ Tail(proc[p].todo) = rest
  BY <1>4, AlertSteps DEF ToAlert
<1>6. \A t \in DOMAIN tags : ~Naming(p, t)
  BY <1>1, NotNaming
<1>8. PICK m \in DOMAIN observations : alerts' = alerts \cup {m}
  BY LastAlert
<1>10. Own(p) \subseteq alerts'
  BY LastAlert
<1>11. proc' \in [Procs -> Call(types)] /\ Kept(p) /\ proc'[p].row = proc[p].row
  BY <1>1, <1>2, <1>5, ProceedGoes
<1>12. Started' = Started /\ p \in Procs
  BY <1>11 DEF Started, Kept
<1>13. Grows(p)
  BY <1>1, <1>2, <1>8 DEF Grows
<1>14. Typed'
  <2>1. alerts' \subseteq DOMAIN observations
    BY <1>2, <1>8 DEF Typed
  <2>. QED
    BY <1>1, <1>2, <1>11, <1>12, <2>1 DEF Typed, world
<1>15. /\ Own(p)' = Own(p) /\ Before(p)' = Before(p) /\ \A i : Unfound(p, i)' = Unfound(p, i)
  BY <1>1, <1>11 DEF Own, Before, Unfound, Kept
<1>16. Written(p)'
  BY <1>1, <1>5, <1>10, <1>15 DEF Written
<1>17. CASE rest = <<>>
  <2>1. proc'[p].todo = <<>> /\ proc'[p].end = "done"
    BY <1>1, <1>2, <1>5, <1>17, ProceedGoes
  <2>2. Complete(p)'
    BY <1>5, <1>11, <1>16, <1>17 DEF Complete, ToWrite, Kept
  <2>3. AtWork(p)'
    <3>1. Len(rows') \in Nat /\ Len(rows) <= Len(rows')
      BY <1>1, <1>2
    <3>. QED
      BY <1>2, <1>11, <2>1, <2>2, <3>1, NoneAssumption, EndWorks DEF Ends
  <2>4. HistoryComplete' /\ proc'[p].end # "raised"
    BY <1>1, <1>2, <2>1 DEF HistoryComplete
  <2>. QED
    BY <1>1, <1>2, <1>6, <1>11, <1>13, <1>14, <2>3, <2>4, StepHolds
<1>18. CASE rest # <<>>
  <2>1. /\ proc'[p].todo = rest /\ proc'[p].answer = proc[p].answer
        /\ proc'[p].time = proc[p].time /\ proc'[p].end = proc[p].end
    BY <1>1, <1>2, <1>5, <1>18, ProceedGoes
  <2>2. Later(p, rest)' = Later(p, rest)
    BY <1>11, <2>1 DEF Later, Kept
  <2>3. ToWrite(p, Later(p, rest), rest)'
    BY <1>1, <1>5, <1>11, <1>15, <2>2 DEF ToWrite, Kept
  <2>4. Found(p)' /\ FoundFirst(p)'
    BY <1>1, <1>5, <1>11, <1>15 DEF Found, FoundFirst, Kept
  <2>5. ToGoOn(p, rest)'
    BY <1>16, <1>18, <2>1, <2>3, <2>4 DEF ToGoOn
  <2>6. Doing(p)'
    BY <1>3, <1>11, <2>5, IngestsOn DEF Ingesting
  <2>7. AtWork(p)'
    BY <1>1, <1>2, <1>3, <1>11, <2>1, <2>6, GoesOn
  <2>8. HistoryComplete' /\ proc'[p].end # "raised"
    BY <1>1, <1>2, <1>3, <2>1, NoneAssumption DEF HistoryComplete, Ends
  <2>. QED
    BY <1>1, <1>2, <1>6, <1>11, <1>13, <1>14, <2>7, <2>8, StepHolds
<1>. QED
  BY <1>17, <1>18
------------------------------------------------------------------------------
(***************************************************************************)
(* Programs that are started, and the world outside.                       *)
(***************************************************************************)
\* q is the call that it was, but for those that it has met.
SameCall(q) ==
  /\ proc'[q].kind = proc[q].kind /\ proc'[q].of = proc[q].of /\ proc'[q].by = proc[q].by
  /\ proc'[q].todo = proc[q].todo /\ proc'[q].row = proc[q].row /\ proc'[q].snap = proc[q].snap
  /\ proc'[q].answer = proc[q].answer /\ proc'[q].time = proc[q].time
  /\ proc'[q].previous = proc[q].previous /\ proc'[q].end = proc[q].end

\* What a program was at it is at still, when it meets one that has written nothing yet.
LEMMA MeetingWorks ==
  ASSUME Typed, NEW q \in Procs, SameCall(q), UNCHANGED store, proc[q].met \subseteq proc'[q].met,
         Before(q)' = Before(q), \A i \in DOMAIN rows : rows[i].added \in proc[q].met =>
           rows[i].added \in proc'[q].met
  PROVE  /\ Doing(q) => Doing(q)'
         /\ Complete(q) => Complete(q)'
<1>1. UNCHANGED <<types, rows, tags, observations, alerts>>
  BY DEF store
<1>2. /\ Own(q)' = Own(q) /\ Written(q)' = Written(q) /\ Found(q)' = Found(q)
      /\ \A i : Unfound(q, i)' = Unfound(q, i)
  BY <1>1 DEF Own, Written, Found, Unfound, SameCall
<1>3. /\ Loaded(q)' = Loaded(q) /\ Told(q)' = Told(q) /\ Knows(q)' = Knows(q)
      /\ \A last : Types(q, last) => Types(q, last)'
  <2>1. Loaded(q)' = Loaded(q) /\ Told(q)' = Told(q) /\ Knows(q)' = Knows(q)
    BY <1>1 DEF Loaded, Told, Knows, SameCall
  <2>2. \A last : Types(q, last) => Types(q, last)'
    BY <1>1, <2>1 DEF Types, SameCall
  <2>. QED
    BY <2>1, <2>2
<1>4. Unseen(q) => Unseen(q)'
  BY <1>1 DEF Unseen, SameCall
<1>10. UpdatingObject(q) => UpdatingObject(q)'
  BY <1>3, <1>4 DEF UpdatingObject, SameCall
<1>5. FoundFirst(q)' = FoundFirst(q)
  BY <1>1, <1>2 DEF FoundFirst, SameCall
<1>6. ASSUME NEW rest \in Rests PROVE Ingesting(q, rest) => Ingesting(q, rest)'
  <2>1. Later(q, rest)' = Later(q, rest)
    BY DEF Later, SameCall
  <2>2. ToWrite(q, Later(q, rest), rest)' = ToWrite(q, Later(q, rest), rest)
    BY <1>1, <1>2, <2>1 DEF ToWrite, SameCall
  <2>3. Pending(q, rest)' = Pending(q, rest)
    <3> DEFINE T == Later(q, rest) \cup {proc[q].time}
    <3>1. T' = T
      BY <2>1 DEF SameCall
    <3>2. ToWrite(q, T, rest)' = ToWrite(q, T, rest)
      BY <1>1, <1>2, <3>1 DEF ToWrite, SameCall
    <3>. QED
      BY <1>2, <2>1, <3>2 DEF Pending, SameCall
  <2>4. ToFind(q, rest) => ToFind(q, rest)'
    BY <2>3 DEF ToFind, SameCall
  <2>5. ToAdd(q, rest) => ToAdd(q, rest)'
    BY <1>1, <1>2, <1>4, <2>3 DEF ToAdd, SameCall
  <2>6. ToObserve(q, rest) => ToObserve(q, rest)'
    BY <1>1, <1>2, <1>5, <2>3 DEF ToObserve, SameCall
  <2>7. ToAlert(q, rest) => ToAlert(q, rest)'
    BY <1>1, <1>2, <1>5, <2>2 DEF ToAlert, SameCall
  <2>8. ToGoOn(q, rest) => ToGoOn(q, rest)'
    BY <1>2, <1>5, <2>2 DEF ToGoOn, SameCall
  <2>. QED
    BY <2>4, <2>5, <2>6, <2>7, <2>8 DEF Ingesting
<1>7. Tagging(q) => Tagging(q)'
  BY <1>1, <1>3 DEF Tagging, TagsOf, SameCall
<1>8. Predicting(q) => Predicting(q)'
  BY <1>1, <1>3 DEF Predicting, SameCall
<1>9. Complete(q) => Complete(q)'
  BY <1>1, <1>2 DEF Complete, SameCall
<1>. QED
  BY <1>6, <1>7, <1>8, <1>9, <1>10 DEF Doing, SameCall

\* The world outside changes, and the programs and the tables are as they were.
LEMMA WorldHolds ==
  ASSUME IInv, UNCHANGED <<store, proc>>, Typed'
  PROVE  IInv'
<1>1. Typed /\ WorkInv /\ MetInv /\ TagInv
  BY DEF IInv
<1>2. UNCHANGED <<types, rows, tags, observations, alerts>>
  BY DEF store
<1>3. Started' = Started /\ Busy' = Busy
  BY DEF Started, Busy
<1>4. WorkInv'
  <2> SUFFICES ASSUME NEW q \in Procs PROVE AtWork(q)'
    BY DEF WorkInv
  <2>1. AtWork(q)
    BY <1>1 DEF WorkInv
  <2>2. SameCall(q)
    BY DEF SameCall
  <2>3. Before(q)' = Before(q)
    BY <1>2 DEF Before
  <2>4. (Doing(q) => Doing(q)') /\ (Complete(q) => Complete(q)')
    BY <1>1, <2>2, <2>3, MeetingWorks
  <2>. QED
    BY <1>2, <1>3, <2>1, <2>4 DEF AtWork
<1>5. MetInv'
  BY <1>1, <1>3 DEF MetInv
<1>6. TagInv'
  <2>1. \A q \in Procs : \A t \in DOMAIN tags : Naming(q, t)' = Naming(q, t)
    BY <1>2 DEF Naming
  <2>. QED
    BY <1>1, <1>2, <2>1 DEF TagInv
<1>7. HistoryComplete' /\ ObservedOnce' /\ OneObjectPerName'
  BY <1>2 DEF IInv, HistoryComplete, ObservedOnce, OneObjectPerName
<1>8. RaisedForCause'
  BY <1>2, <1>3 DEF IInv, RaisedForCause
<1>. QED
  BY <1>4, <1>5, <1>6, <1>7, <1>8 DEF IInv

\* TNS says something new, a day passes, or the catalog service starts again.
LEMMA OutsideHolds ==
  ASSUME IInv, (\E x \in Things : Report(x)) \/ Tick \/ Restart \/ UNCHANGED vars
  PROVE  IInv'
<1>1. Typed /\ today \in Nat /\ today \in 0..MaxDay
  BY BoundsAssumption DEF IInv, Typed
<1>2. CASE \E x \in Things : Report(x)
  <2>1. PICK x \in Things : Report(x)
    BY <1>2
  <2>2. PICK class \in Classes :
          tns' = [tns EXCEPT ![x].class = class, ![x].version = @ + 1]
    BY <2>1 DEF Report
  <2>3. UNCHANGED <<today, file, held, store, proc>> /\ tns[x].version < MaxVersion
    BY <2>1 DEF Report
  <2>4. tns' \in [Things -> TNSRecords]
    <3> DEFINE version == tns[x].version + 1
    <3>1. tns \in [Things -> TNSRecords] /\ tns[x] \in TNSRecords
      BY <1>1 DEF Typed
    <3>2. version \in 0..MaxVersion /\ class \in Classes \cup {Unknown}
      BY <2>3, <3>1, BoundsAssumption DEF TNSRecords
    <3>3. tns' = [tns EXCEPT ![x] = [tns[x] EXCEPT !.class = class, !.version = version]]
      BY <2>2, <3>1 DEF TNSRecords
    <3> HIDE DEF version
    <3>4. [tns[x] EXCEPT !.class = class, !.version = version] \in TNSRecords
      BY <3>1, <3>2, ZenonT(40) DEF TNSRecords
    <3>. QED
      BY <3>1, <3>3, <3>4
  <2>5. Started' = Started
    BY <2>3 DEF Started
  <2>6. Typed'
    BY <1>1, <2>3, <2>4, <2>5 DEF Typed, store
  <2>. QED
    BY <2>3, <2>6, WorldHolds
<1>3. CASE Tick
  <2>1. UNCHANGED <<tns, file, held, store, proc>> /\ today' = today + 1 /\ today < MaxDay
    BY <1>3 DEF Tick
  <2>2. today' \in 0..MaxDay /\ 0..today \subseteq 0..today'
    BY <1>1, <2>1, BoundsAssumption
  <2>3. Started' = Started
    BY <2>1 DEF Started
  <2>4. file' # None => file' \in [day : 0..today', tns : [Things -> TNSRecords]]
    BY <1>1, <2>1, <2>2 DEF Typed
  <2>5. held' # None =>
         /\ held' \in [updated : 0..today', day : 0..today', tns : [Things -> TNSRecords]]
         /\ held'.updated <= held'.day
    BY <1>1, <2>1, <2>2 DEF Typed
  <2>6. Typed'
    BY <1>1, <2>1, <2>2, <2>3, <2>4, <2>5 DEF Typed, store
  <2>. QED
    BY <2>1, <2>6, WorldHolds
<1>4. CASE Restart
  <2>1. UNCHANGED <<tns, today, file, store, proc>> /\ held' = None
    BY <1>4 DEF Restart
  <2>2. Started' = Started
    BY <2>1 DEF Started
  <2>3. Typed'
    BY <1>1, <2>1, <2>2 DEF Typed, store
  <2>. QED
    BY <2>1, <2>3, WorldHolds
<1>5. CASE UNCHANGED vars
  <2>1. UNCHANGED <<tns, today, file, held>> /\ UNCHANGED <<store, proc>>
    BY <1>5 DEF vars, world
  <2>2. Started' = Started
    BY <2>1 DEF Started
  <2>3. Typed'
    BY <1>1, <2>1, <2>2 DEF Typed, store
  <2>. QED
    BY <2>1, <2>3, WorldHolds
<1>. QED
  BY <1>2, <1>3, <1>4, <1>5

\* The first steps of a program (Steps).
LEMMA FirstSteps ==
  /\ \A kind \in {"query", "catalog"} : Steps[kind] \o <<>> = <<"from_name">>
  /\ Steps["ingest"] \o <<>> = Seeking(<<>>)
  /\ Steps["ingest"] \o <<"backfill_database">> = Seeking(<<"backfill_database">>)
  /\ Steps["tag"] \o <<>> = <<"find_tag">>
  /\ Steps["forecast"] \o <<>> = <<"load_object", "update_prediction">>
  /\ <<"from_name">> \in Seq(StepNames) /\ <<"find_tag">> \in Seq(StepNames)
  /\ <<"load_object", "update_prediction">> \in Seq(StepNames)
<1>1. /\ <<"from_name">> \in Seq(StepNames) /\ <<"find_tag">> \in Seq(StepNames)
      /\ <<"load_object", "update_prediction">> \in Seq(StepNames)
  BY DEF StepNames
<1>2. /\ Steps["query"] = <<"from_name">> /\ Steps["catalog"] = <<"from_name">>
      /\ Steps["tag"] = <<"find_tag">> /\ Steps["forecast"] = <<"load_object", "update_prediction">>
      /\ Steps["ingest"] = <<"find_object", "add_observation", "add_alert">>
  BY DEF Steps
<1>. QED
  BY <1>1, <1>2, ConcatEmptySeq DEF Seeking

\* What a program is when it is started: nobody has heard of it.
LEMMA StartGoes ==
  ASSUME Typed, NEW p \in Procs, Start(p)
  PROVE  \E kind \in AllKinds, x \in Things, by \in Given, i \in 0..Len(rows), t \in 0..MaxTime,
            previous \in SUBSET (1..MaxTime), todo \in Seq(StepNames) :
    /\ proc' \in [Procs -> Call(types)] /\ UNCHANGED store /\ UNCHANGED world
    /\ proc[p].kind = None
    /\ \A q \in Procs \ {p} : SameCall(q) /\
         proc'[q].met = proc[q].met \cup IF q \in Busy THEN {p} ELSE {}
    /\ \A q \in Procs \ {p} : q \notin Busy => proc'[q] = proc[q]
    /\ proc'[p].kind = kind /\ proc'[p].of = x /\ proc'[p].row = i /\ proc'[p].todo = todo
    /\ proc'[p].time = t /\ proc'[p].previous = previous /\ proc'[p].met = Busy
    /\ proc'[p].end = None
    /\ kind \in {"query", "catalog"} => i = 0 /\ todo = <<"from_name">>
    /\ kind = "tag" => i > 0 /\ todo = <<"find_tag">>
    /\ kind = "forecast" => i > 0 /\ todo = <<"load_object", "update_prediction">>
    /\ kind = "ingest" =>
         /\ i = 0 /\ t > 0
         /\ \/ todo = Seeking(<<>>) /\ previous = {}
            \/ todo = Seeking(<<"backfill_database">>) /\ previous = 1..(t - 1)
<1>1. /\ proc[p].kind = None /\ UNCHANGED store /\ UNCHANGED world
      /\ proc \in [Procs -> Call(types)]
  BY DEF Start, Typed
<1>2. PICK kind \in Kinds, x \in Things, by \in Given, i \in 0..Len(rows), t \in 0..MaxTime,
           backfill \in BOOLEAN :
       /\ kind = "catalog" => ~CatalogRuns
       /\ kind \notin {"query", "catalog"} => by = "iau"
       /\ IF kind \in {"tag", "forecast"} THEN i > 0 /\ rows[i].of = x ELSE i = 0
       /\ IF kind = "ingest" THEN t > 0 ELSE t = 0 /\ ~backfill
       /\ proc' = [q \in Procs |->
            IF q = p THEN
              [Unstarted EXCEPT !.kind = kind, !.of = x, !.by = by, !.row = i, !.time = t,
               !.previous = IF backfill THEN 1..(t - 1) ELSE {}, !.met = Busy,
               !.todo = Steps[kind] \o IF backfill THEN <<"backfill_database">> ELSE <<>>]
            ELSE IF q \in Busy THEN [proc[q] EXCEPT !.met = @ \cup {p}]
            ELSE proc[q]]
  BY DEF Start
<1> DEFINE previous == IF backfill THEN 1..(t - 1) ELSE {}
           todo == Steps[kind] \o IF backfill THEN <<"backfill_database">> ELSE <<>>
           run == [Unstarted EXCEPT !.kind = kind, !.of = x, !.by = by, !.row = i, !.time = t,
                   !.previous = previous, !.met = Busy, !.todo = todo]
<1>3. kind \in AllKinds
  BY KindsAssumption
<1>4. previous \in SUBSET (1..MaxTime)
  BY BoundsAssumption
<1>5. /\ kind \in {"query", "catalog"} => i = 0 /\ todo = <<"from_name">>
      /\ kind = "tag" => i > 0 /\ todo = <<"find_tag">>
      /\ kind = "forecast" => i > 0 /\ todo = <<"load_object", "update_prediction">>
      /\ kind = "ingest" =>
           /\ i = 0 /\ t > 0
           /\ \/ todo = Seeking(<<>>) /\ previous = {}
              \/ todo = Seeking(<<"backfill_database">>) /\ previous = 1..(t - 1)
  <2>1. CASE kind \in {"query", "catalog"}
    BY <1>2, <2>1, FirstSteps
  <2>2. CASE kind = "tag"
    BY <1>2, <2>2, FirstSteps
  <2>3. CASE kind = "forecast"
    BY <1>2, <2>3, FirstSteps
  <2>4. CASE kind = "ingest" /\ backfill
    BY <1>2, <2>4, FirstSteps
  <2>5. CASE kind = "ingest" /\ ~backfill
    BY <1>2, <2>5, FirstSteps
  <2>. QED
    BY <1>3, <2>1, <2>2, <2>3, <2>4, <2>5 DEF AllKinds
<1>6. todo \in Seq(StepNames)
  <2>1. Seeking(<<>>) \in Seq(StepNames) /\ Seeking(<<"backfill_database">>) \in Seq(StepNames)
    BY AlertSteps DEF Rests
  <2> HIDE DEF todo, previous
  <2>. QED
    BY <1>3, <1>5, <2>1, FirstSteps DEF AllKinds
<1>7. /\ Busy \in SUBSET Procs /\ i \in Nat /\ t \in 0..MaxTime
      /\ p \notin Busy
  <2>1. Len(rows) \in Nat
    BY RowsThere
  <2>. QED
    BY <1>1, <2>1 DEF Busy, Started
<1> HIDE DEF todo, previous
<1> DEFINE half == [Unstarted EXCEPT !.kind = kind, !.of = x, !.by = by, !.row = i]
           met == Busy
<1>8. half \in Call(types) /\ half.kind = kind /\ half.of = x /\ half.row = i /\ half.end = None
  <2>1. Unstarted \in Call(types) /\ Unstarted.end = None
    <3>1. <<>> \in Seq(StepNames) /\ {} \in SUBSET (1..MaxTime) /\ {} \in SUBSET Procs
      OBVIOUS
    <3>2. 0 \in 0..MaxTime
      BY BoundsAssumption
    <3>. QED
      BY <3>1, <3>2 DEF Unstarted, Call
  <2>2. half \in Call(types)
    BY <1>3, <1>7, <2>1, ZenonT(40) DEF Call
  <2>3. half.kind = kind /\ half.of = x /\ half.row = i /\ half.end = None
    BY <2>1 DEF Call
  <2>. QED
    BY <2>2, <2>3
<1>9. run = [half EXCEPT !.time = t, !.previous = previous, !.met = met, !.todo = todo]
  OBVIOUS
<1>10. /\ run \in Call(types)
       /\ run.kind = kind /\ run.of = x /\ run.row = i /\ run.todo = todo
       /\ run.time = t /\ run.previous = previous /\ run.met = Busy /\ run.end = None
  <2> HIDE DEF run, half
  <2>1. met \in SUBSET Procs
    BY <1>7
  <2> HIDE DEF met
  <2>2. run \in Call(types)
    BY <1>4, <1>6, <1>7, <1>8, <1>9, <2>1, ZenonT(40) DEF Call
  <2>3. /\ run.kind = half.kind /\ run.of = half.of /\ run.row = half.row /\ run.todo = todo
        /\ run.time = t /\ run.previous = previous /\ run.met = met /\ run.end = half.end
    BY <1>8, <1>9 DEF Call
  <2>. QED
    BY <1>8, <2>2, <2>3 DEF met
<1> HIDE DEF half, met
<1>11. proc' = [q \in Procs |-> IF q = p THEN run
                  ELSE IF q \in Busy THEN [proc[q] EXCEPT !.met = @ \cup {p}] ELSE proc[q]]
  BY <1>2 DEF todo, previous
<1> HIDE DEF run
<1>12. proc'[p] = run
  BY <1>11
<1>13. ASSUME NEW q \in Procs \ {p}
       PROVE  /\ proc'[q] \in Call(types) /\ SameCall(q)
              /\ proc'[q].met = proc[q].met \cup IF q \in Busy THEN {p} ELSE {}
              /\ q \notin Busy => proc'[q] = proc[q]
  <2> DEFINE now == proc[q].met \cup {p}
  <2>1. proc[q] \in Call(types)
    BY <1>1
  <2>2. now \in SUBSET Procs
    BY <2>1 DEF Call
  <2>3. CASE q \in Busy
    <3>1. proc'[q] = [proc[q] EXCEPT !.met = now]
      BY <1>11, <2>3
    <3> HIDE DEF now
    <3>2. [proc[q] EXCEPT !.met = now] \in Call(types)
      BY <2>1, <2>2, ZenonT(40) DEF Call
    <3>3. SameCall(q)
      BY <2>1, <3>1 DEF SameCall, Call
    <3>4. proc'[q].met = now
      BY <2>1, <3>1 DEF Call
    <3>. QED
      BY <2>3, <3>1, <3>2, <3>3, <3>4 DEF now
  <2>4. CASE q \notin Busy
    <3>1. proc'[q] = proc[q]
      BY <1>11, <2>4
    <3>. QED
      BY <2>1, <2>4, <3>1 DEF SameCall
  <2>. QED
    BY <2>3, <2>4
<1>14. proc' \in [Procs -> Call(types)]
  BY <1>10, <1>11, <1>12, <1>13
<1>. QED
  BY <1>1, <1>3, <1>4, <1>5, <1>6, <1>10, <1>12, <1>13, <1>14

\* A program that is started begins its work, and has met those that are at theirs.
LEMMA StartHolds ==
  ASSUME IInv, NEW p \in Procs, Start(p)
  PROVE  IInv'
<1>1. Typed /\ WorkInv /\ MetInv /\ TagInv
  BY DEF IInv
<1>2. PICK kind \in AllKinds, x \in Things, by \in Given, row \in 0..Len(rows), t \in 0..MaxTime,
           previous \in SUBSET (1..MaxTime), todo \in Seq(StepNames) :
    /\ proc' \in [Procs -> Call(types)] /\ UNCHANGED store /\ UNCHANGED world
    /\ proc[p].kind = None
    /\ \A q \in Procs \ {p} : SameCall(q) /\
         proc'[q].met = proc[q].met \cup IF q \in Busy THEN {p} ELSE {}
    /\ \A q \in Procs \ {p} : q \notin Busy => proc'[q] = proc[q]
    /\ proc'[p].kind = kind /\ proc'[p].of = x /\ proc'[p].row = row /\ proc'[p].todo = todo
    /\ proc'[p].time = t /\ proc'[p].previous = previous /\ proc'[p].met = Busy
    /\ proc'[p].end = None
    /\ kind \in {"query", "catalog"} => row = 0 /\ todo = <<"from_name">>
    /\ kind = "tag" => row > 0 /\ todo = <<"find_tag">>
    /\ kind = "forecast" => row > 0 /\ todo = <<"load_object", "update_prediction">>
    /\ kind = "ingest" =>
         /\ row = 0 /\ t > 0
         /\ \/ todo = Seeking(<<>>) /\ previous = {}
            \/ todo = Seeking(<<"backfill_database">>) /\ previous = 1..(t - 1)
  BY <1>1, StartGoes
<1>3. UNCHANGED <<types, rows, tags, observations, alerts>>
  BY <1>2 DEF store
<1>4. /\ p \notin Started /\ Started' = Started \cup {p} /\ Busy' = Busy \cup {p}
      /\ Busy \subseteq Started /\ Started \subseteq Procs /\ kind # None
  <2>1. kind # None /\ p \notin Started
    BY <1>2, NoneAssumption DEF Started
  <2>. QED
    BY <1>2, <2>1 DEF Started, Busy, SameCall
<1>5. \A i \in DOMAIN observations : observations[i].by # p
  BY <1>1, <1>4, RowsThere
<1>6. \A q \in Procs \ {p} : proc[q].met \subseteq proc'[q].met
  BY <1>2
<1>7. Typed'
  <2>1. observations \in Seq([object : DOMAIN rows, time : 1..MaxTime, by : Started', new : BOOLEAN])
    <3> DEFINE S == [object : DOMAIN rows, time : 1..MaxTime, by : Started, new : BOOLEAN]
               T == [object : DOMAIN rows, time : 1..MaxTime, by : Started', new : BOOLEAN]
    <3>1. observations \in Seq(S) /\ S \subseteq T
      BY <1>1, <1>4 DEF Typed
    <3> HIDE DEF S, T
    <3>2. observations \in Seq(T)
      BY <3>1, SeqMonotonic
    <3>. QED
      BY <3>2 DEF T
  <2>2. \A i \in DOMAIN rows : IF rows[i].added = None THEN i = 1 ELSE rows[i].added \in Started'
    BY <1>1, <1>4 DEF Typed
  <2>. QED
    BY <1>1, <1>2, <1>3, <2>1, <2>2 DEF Typed, world
<1>8. AtWork(p)'
  <2>1. row \in DOMAIN rows \/ row = 0
    BY <1>1, RowsThere
  <2>2. ASSUME kind \in {"query", "catalog"} PROVE Doing(p)'
    BY <1>2, <2>2 DEF Doing, UpdatingObject
  <2>3. ASSUME kind = "tag" PROVE Doing(p)'
    <3>1. <<"find_tag">> \in TagSteps /\ Head(<<"find_tag">>) # "add_tag"
      BY DEF TagSteps
    <3>2. Tagging(p)'
      BY <1>2, <1>3, <2>1, <2>3, <3>1 DEF Tagging
    <3>. QED
      BY <1>2, <2>3, <3>2 DEF Doing
  <2>4. ASSUME kind = "forecast" PROVE Doing(p)'
    <3>1. Predicting(p)'
      BY <1>2, <1>3, <2>1, <2>4 DEF Predicting
    <3>. QED
      BY <1>2, <2>4, <3>1 DEF Doing
  <2>5. ASSUME kind = "ingest" PROVE Doing(p)'
    <3>1. PICK rest \in {<<>>, <<"backfill_database">>} :
            /\ todo = Seeking(rest) /\ (rest = <<>> => previous = {})
            /\ previous \subseteq 1..(t - 1)
      BY <1>2, <2>5
    <3>2. rest \in Rests /\ rest # <<"next_alert">>
      <4>1. <<"backfill_database">> # <<"next_alert">> /\ <<>> # <<"next_alert">>
        OBVIOUS
      <4>. QED
        BY <4>1 DEF Rests
    <3>3. Later(p, rest)' = previous
      BY <1>2, <3>2 DEF Later
    <3>4. Own(p)' = {}
      BY <1>3, <1>5 DEF Own
    <3>5. t \in (1..MaxTime) \ previous
      BY <1>2, <2>5, <3>1, BoundsAssumption
    <3>6. ToWrite(p, Later(p, rest) \cup {proc[p].time}, rest)'
      <4>1. (Later(p, rest) \cup {proc[p].time})' = previous \cup {t}
        BY <1>2, <3>3
      <4>. QED
        BY <1>2, <3>1, <3>2, <3>4, <3>5, <4>1 DEF ToWrite
    <3>7. Pending(p, rest)'
      BY <1>2, <3>2, <3>3, <3>4, <3>5, <3>6 DEF Pending
    <3>8. ToFind(p, rest)'
      BY <1>2, <3>1, <3>7 DEF ToFind
    <3>. QED
      BY <1>2, <2>5, <3>2, <3>8 DEF Doing, Ingesting
  <2>6. Doing(p)'
    BY <2>2, <2>3, <2>4, <2>5 DEF AllKinds
  <2>7. None # "done"
    BY NoneAssumption DEF Ends
  <2>. QED
    BY <1>2, <1>3, <1>4, <2>6, <2>7 DEF AtWork
<1>9. WorkInv'
  <2> SUFFICES ASSUME NEW q \in Procs PROVE AtWork(q)'
    BY DEF WorkInv
  <2>1. CASE q # p
    <3>1. AtWork(q) /\ SameCall(q) /\ proc[q].met \subseteq proc'[q].met
      BY <1>1, <1>2, <1>6, <2>1 DEF WorkInv
    <3>2. Before(q)' = Before(q)
      BY <1>2, <1>3, <1>5, <2>1 DEF Before
    <3>3. (Doing(q) => Doing(q)') /\ (Complete(q) => Complete(q)')
      BY <1>1, <1>2, <3>1, <3>2, MeetingWorks
    <3>4. proc'[q].met \subseteq Started'
      BY <1>2, <1>4, <2>1, <3>1 DEF AtWork, Busy, Started, Unstarted
    <3>5. proc[q].kind = None => proc'[q] = proc[q]
      BY <1>2, <2>1 DEF Busy, Started
    <3>. QED
      BY <1>3, <3>1, <3>3, <3>4, <3>5 DEF AtWork, SameCall
  <2>. QED
    BY <1>8, <2>1
<1>10. MetInv'
  <2> SUFFICES ASSUME NEW q \in Busy', NEW r \in Busy', q # r PROVE q \in proc'[r].met
    BY DEF MetInv
  <2>1. CASE r = p
    BY <1>2, <1>4, <2>1
  <2>2. CASE q = p
    BY <1>2, <1>4, <2>2
  <2>3. CASE q # p /\ r # p
    BY <1>1, <1>2, <1>4, <2>3 DEF MetInv
  <2>. QED
    BY <2>1, <2>2, <2>3
<1>11. TagInv'
  <2>1. ASSUME NEW q \in Procs, NEW s \in DOMAIN tags, Naming(q, s) PROVE Naming(q, s)'
    <3>1. q # p
      BY <1>2, <2>1, NoneAssumption DEF Naming, AllKinds
    <3>. QED
      BY <1>2, <1>3, <2>1, <3>1 DEF Naming, SameCall
  <2>. QED
    BY <1>1, <1>3, <2>1 DEF TagInv
<1>12. HistoryComplete'
  BY <1>3 DEF IInv, HistoryComplete
<1>13. ObservedOnce'
  <2>1. \A i \in DOMAIN observations :
          proc[observations[i].by].met \subseteq proc'[observations[i].by].met
    <3>1. \A i \in DOMAIN observations : observations[i].by \in Started
      BY <1>1, RowsThere
    <3>. QED
      BY <1>5, <1>6, <3>1 DEF Started
  <2>. QED
    BY <1>3, <2>1 DEF IInv, ObservedOnce
<1>14. OneObjectPerName'
  <2>1. \A j \in DOMAIN rows : j # 1 => LET q == rows[j].added IN
          /\ proc[q].met \subseteq proc'[q].met
          /\ proc'[q].kind = proc[q].kind /\ proc'[q].by = proc[q].by
    <3>1. \A j \in DOMAIN rows : j # 1 => rows[j].added \in Procs \ {p}
      BY <1>1, <1>4 DEF Typed
    <3>2. \A q \in Procs \ {p} : proc'[q].kind = proc[q].kind /\ proc'[q].by = proc[q].by
      BY <1>2, Zenon DEF SameCall
    <3>. QED
      BY <1>6, <3>1, <3>2, Zenon
  <2>2. \A i, j \in DOMAIN rows : i < j => j # 1
    BY <1>1, RowsThere
  <2>. QED
    BY <1>3, <2>1, <2>2 DEF IInv, OneObjectPerName
<1>15. RaisedForCause'
  <2> SUFFICES ASSUME NEW q \in Started', proc'[q].end = "raised"
               PROVE  proc'[q].met # {} \/ \E i, j \in DOMAIN rows' : i # j /\ rows'[i].of = rows'[j].of
    BY DEF RaisedForCause
  <2>1. q # p
    BY <1>2, NoneAssumption DEF Ends
  <2>2. q \in Started /\ proc[q].end = "raised" /\ proc[q].met \subseteq proc'[q].met
    BY <1>2, <1>4, <1>6, <2>1 DEF SameCall
  <2>. QED
    BY <1>3, <2>2 DEF IInv, RaisedForCause
<1>. QED
  BY <1>7, <1>9, <1>10, <1>11, <1>12, <1>13, <1>14, <1>15 DEF IInv
------------------------------------------------------------------------------
(***************************************************************************)
(* The theorems.                                                           *)
(***************************************************************************)
\* At first no program runs, and there is an object at the most.
LEMMA InitHolds == Init => IInv
<1> SUFFICES ASSUME Init PROVE IInv
  OBVIOUS
<1>1. /\ tns \in [Things -> [class : {Unknown}, version : {0}, lists : Listed]]
      /\ today = 0 /\ file = None /\ held = None /\ types = {Unknown}
      /\ tags = <<>> /\ observations = <<>> /\ alerts = {}
      /\ proc = [p \in Procs |-> Unstarted]
  BY DEF Init
<1>2. /\ rows \in Seq(Row(types))
      /\ \A i \in DOMAIN rows :
           /\ i = 1 /\ rows[i].added = None /\ rows[i].had = {rows[i].class, rows[i].pred}
           /\ rows[i].history = <<>>
  <2>1. CASE rows = <<>>
    BY <2>1
  <2>2. CASE rows # <<>>
    <3>1. PICK x \in Things, names \in {{"antares", "ztf"}, {"antares", "ztf", "iau"}} :
            rows = << [of |-> x, names |-> names, class |-> Unknown, history |-> <<>>, version |-> 0,
                       pred |-> {}, added |-> None, had |-> {Unknown, {}}, stale |-> FALSE] >>
      BY <2>2 DEF Init
    <3> DEFINE history == <<>>
               had == {Unknown, {}}
               pred == {}
               row == [of |-> x, names |-> names, class |-> Unknown, history |-> history,
                       version |-> 0, pred |-> pred, added |-> None, had |-> had, stale |-> FALSE]
    <3>2. names \in SUBSET Providers
      BY DEF Providers, Given
    <3>3. had \in SUBSET (types \cup SUBSET Procs) /\ Unknown \in types
      BY <1>1
    <3>4. history \in Seq(types \cup SUBSET Procs)
      OBVIOUS
    <3>5. 0 \in 0..MaxVersion
      BY BoundsAssumption
    <3>6. None \in Procs \cup {None} /\ pred \in SUBSET Procs /\ FALSE \in BOOLEAN
      OBVIOUS
    <3>7. rows = <<row>>
      BY <3>1
    <3> HIDE DEF history, had, pred
    <3>8. row \in Row(types)
      BY <3>2, <3>3, <3>4, <3>5, <3>6 DEF Row
    <3>9. row.added = None /\ row.had = had /\ row.class = Unknown /\ row.pred = pred
          /\ row.history = history
      OBVIOUS
    <3> HIDE DEF row
    <3>10. rows \in Seq(Row(types)) /\ DOMAIN rows = {1} /\ rows[1] = row
      BY <3>7, <3>8
    <3>. QED
      BY <3>9, <3>10 DEF history, had, pred
  <2>. QED
    BY <2>1, <2>2
<1>3. Started = {} /\ Busy = {}
  BY <1>1 DEF Started, Busy, Unstarted
<1>4. Unstarted \in Call(types)
  <2>1. <<>> \in Seq(StepNames) /\ {} \in SUBSET (1..MaxTime) /\ {} \in SUBSET Procs
    OBVIOUS
  <2>2. 0 \in 0..MaxTime
    BY BoundsAssumption
  <2>. QED
    BY <2>1, <2>2 DEF Unstarted, Call
<1>5. Typed
  <2>1. tns \in [Things -> TNSRecords]
    BY <1>1, BoundsAssumption DEF TNSRecords
  <2>2. today \in 0..MaxDay /\ Unknown \in types /\ types \subseteq Classes \cup {Unknown}
    BY <1>1, BoundsAssumption
  <2>3. /\ tags \in Seq([object : DOMAIN rows, by : Procs, named : BOOLEAN])
        /\ observations \in Seq([object : DOMAIN rows, time : 1..MaxTime, by : Started, new : BOOLEAN])
    BY <1>1
  <2>4. alerts \subseteq DOMAIN observations /\ proc \in [Procs -> Call(types)]
    BY <1>1, <1>4
  <2>. QED
    BY <1>1, <1>2, <2>1, <2>2, <2>3, <2>4 DEF Typed
<1>6. WorkInv
  BY <1>1, NoneAssumption DEF WorkInv, AtWork, Unstarted, AllKinds
<1>7. MetInv /\ RaisedForCause
  BY <1>3 DEF MetInv, RaisedForCause
<1>8. TagInv /\ ObservedOnce
  BY <1>1 DEF TagInv, ObservedOnce
<1>9. HistoryComplete
  BY <1>2 DEF HistoryComplete
<1>10. OneObjectPerName
  BY <1>2 DEF OneObjectPerName
<1>. QED
  BY <1>5, <1>6, <1>7, <1>8, <1>9, <1>10 DEF IInv

\* A step of a program that is at work.
Works(p) ==
  \/ FromName(p) \/ TNSFails(p) \/ SearchName(p) \/ SearchObject(p) \/ GetRecord(p)
  \/ FindType(p) \/ AddType(p) \/ Reload(p) \/ Update(p) \/ AddObject(p)
  \/ FindObject(p) \/ AddObservation(p) \/ AddAlert(p) \/ BackfillDatabase(p)
  \/ FindTag(p) \/ AddTag(p) \/ NameTag(p) \/ LoadObject(p) \/ AddAlias(p)
  \/ UpdatePrediction(p)

\* Every step is one of the world, or of one program (Next).
LEMMA StepsOf ==
  ASSUME [Next]_vars
  PROVE  \/ (\E x \in Things : Report(x)) \/ Tick \/ Restart \/ UNCHANGED vars
         \/ \E p \in Procs : Start(p) \/ Stop(p) \/ Works(p)
BY Zenon DEF Next, Finished, Works

\* Every step of every program keeps the invariant.
LEMMA NextHolds == IInv /\ [Next]_vars => IInv'
<1> SUFFICES ASSUME IInv, [Next]_vars PROVE IInv'
  OBVIOUS
<1>1. CASE (\E x \in Things : Report(x)) \/ Tick \/ Restart \/ UNCHANGED vars
  BY <1>1, OutsideHolds
<1>2. ASSUME NEW p \in Procs, Start(p) PROVE IInv'
  BY <1>2, StartHolds
<1>3. ASSUME NEW p \in Procs, Stop(p) PROVE IInv'
  BY <1>3, StopHolds
<1>4. ASSUME NEW p \in Procs, Works(p) PROVE IInv'
  <2>1. CASE FromName(p) \/ TNSFails(p) \/ SearchName(p) \/ SearchObject(p) \/ GetRecord(p)
    BY <2>1, FromNameHolds, TNSFailsHolds, SearchNameHolds, SearchObjectHolds, GetRecordHolds
  <2>2. CASE FindType(p) \/ AddType(p) \/ Reload(p) \/ Update(p) \/ AddObject(p)
    BY <2>2, FindTypeHolds, AddTypeHolds, ReloadHolds, UpdateHolds, AddObjectHolds
  <2>3. CASE FindObject(p) \/ AddObservation(p) \/ AddAlert(p) \/ BackfillDatabase(p)
    BY <2>3, FindObjectHolds, AddObservationHolds, AddAlertHolds, BackfillHolds
  <2>4. CASE FindTag(p) \/ AddTag(p) \/ NameTag(p) \/ LoadObject(p) \/ AddAlias(p)
    BY <2>4, FindTagHolds, AddTagHolds, NameTagHolds, LoadObjectHolds, AddAliasHolds
  <2>5. CASE UpdatePrediction(p)
    BY <2>5, UpdatePredictionHolds
  <2>. QED
    BY <1>4, <2>1, <2>2, <2>3, <2>4, <2>5 DEF Works
<1>. QED
  BY <1>1, <1>2, <1>3, <1>4, StepsOf

\* The inductive invariant holds in every state that the programs reach.
THEOREM Invariant == Spec => []IInv
<1>1. Init => IInv
  BY InitHolds
<1>2. IInv /\ [Next]_vars => IInv'
  BY NextHolds
<1>. QED
  BY <1>1, <1>2, PTL DEF Spec

\* A program that is at work has something to do.
LEMMA WorkLeft ==
  ASSUME NEW p \in Procs, Doing(p)
  PROVE  proc[p].todo # <<>>
<1>1. CASE UpdatingObject(p)
  <2>1. proc[p].todo \in Asking \cup Typing("update") \cup Typing("add_object") \cup Writing
                        \cup {<<"from_name">>, AddNew, <<"add_object">>}
    BY <1>1 DEF UpdatingObject, Types
  <2>2. <<>> \notin Asking \cup Typing("update") \cup Typing("add_object") \cup Writing
                   \cup {<<"from_name">>, AddNew, <<"add_object">>}
    BY DEF Asking, Typing, Writing, AddNew
  <2>. QED
    BY <2>1, <2>2
<1>2. ASSUME NEW rest \in Rests, Ingesting(p, rest) PROVE proc[p].todo # <<>>
  BY <1>2, AlertSteps DEF Ingesting, ToFind, ToAdd, ToObserve, ToAlert, ToGoOn
<1>3. CASE Tagging(p)
  BY <1>3 DEF Tagging, TagSteps
<1>4. CASE Predicting(p)
  BY <1>4 DEF Predicting
<1>. QED
  BY <1>1, <1>2, <1>3, <1>4 DEF Doing

\* An object's row, its history and its tags are whole but for what a program
\* that was stopped, or wrote over another's work, has left (model.py
\* Object.update, RecommendationTag.new).
THEOREM RecordsHold == Spec => []RecordInv
<1>1. IInv => RecordInv
  <2> SUFFICES ASSUME IInv PROVE RecordInv
    OBVIOUS
  <2>1. Typed /\ WorkInv /\ TagInv /\ HistoryComplete
    BY DEF IInv
  <2>2. \A i \in DOMAIN rows :
       /\ rows[i].of \in Things /\ rows[i].names \subseteq Providers
       /\ rows[i].class \in types /\ rows[i].version \in 0..MaxVersion
       /\ rows[i].history \in Seq(types \cup SUBSET Procs)
       /\ rows[i].had \subseteq types \cup SUBSET Procs /\ rows[i].pred \subseteq Procs
       /\ rows[i].added \in Procs \cup {None} /\ rows[i].stale \in BOOLEAN
    BY <2>1, RowsThere DEF Row
  <2>3. \A t \in DOMAIN tags : /\ tags[t].object \in DOMAIN rows /\ tags[t].named \in BOOLEAN
                             /\ tags[t].by \in Procs
    <3> DEFINE Tags == [object : DOMAIN rows, by : Procs, named : BOOLEAN]
    <3>1. tags \in Seq(Tags)
      BY <2>1 DEF Typed
    <3> HIDE DEF Tags
    <3>2. \A t \in DOMAIN tags : tags[t] \in Tags
      BY <3>1, LenProperties, ElementOfSeq
    <3>. QED
      BY <3>2 DEF Tags
  <2>4. \A i \in DOMAIN observations :
          observations[i].object \in DOMAIN rows /\ observations[i].time \in 1..MaxTime
    BY <2>1, RowsThere
  <2>5. ASSUME NEW p \in Started
        PROVE  /\ proc[p].row \in 0..Len(rows)
               /\ proc[p].end \in Ends \cup {None}
               /\ p \in Busy <=> proc[p].todo # <<>>
    <3>1. p \in Procs /\ proc[p].kind # None /\ AtWork(p) /\ proc[p] \in Call(types)
      BY <2>1 DEF Started, WorkInv, Typed
    <3>2. proc[p].end \in Ends \cup {None}
      BY <3>1 DEF Call
    <3>. QED
      BY <3>1, <3>2, WorkLeft DEF AtWork, Busy
  <2>6. held # None => held \in [updated : 0..today, day : 0..today, tns : [Things -> TNSRecords]]
    BY <2>1 DEF Typed
  <2>7. TypeOK
    BY <2>1, <2>2, <2>3, <2>4, <2>5, <2>6 DEF TypeOK, Typed
  <2>8. TagComplete
    BY <2>1 DEF TagInv, TagComplete, Naming
  <2>. QED
    BY <2>1, <2>7, <2>8 DEF RecordInv
<1>. QED
  BY <1>1, Invariant, PTL

\* A step of one program is not one of another.
LEMMA StepsOfOne ==
  ASSUME NEW p \in Procs, NEW q \in Procs, q # p, Typed, Works(p) \/ Stop(p)
  PROVE  proc'[q] = proc[q]
<1>1. proc \in [Procs -> Call(types)]
  BY DEF Typed
<1>2. \A step : Then(p, step) => proc'[q] = proc[q]
  BY <1>1 DEF Then
<1>3. \A how : End(p, how) => proc'[q] = proc[q]
  BY <1>1 DEF End
<1>4. Proceed(p) => proc'[q] = proc[q]
  BY <1>2, <1>3 DEF Proceed
<1>5. \A i, steps : Load(p, i, steps) => proc'[q] = proc[q]
  BY <1>1 DEF Load
<1>6. CASE Stop(p)
  BY <1>3, <1>6 DEF Stop
<1>7. CASE FromName(p)
  <2>1. \/ \E how : End(p, how)
        \/ Then(p, AddNew)
        \/ \E i, steps : Load(p, i, steps)
    BY <1>7 DEF FromName
  <2>. QED
    BY <1>2, <1>3, <1>5, <2>1
<1>8. CASE TNSFails(p)
  BY <1>3, <1>8 DEF TNSFails
<1>9. CASE SearchName(p)
  BY <1>3, <1>4, <1>9 DEF SearchName
<1>10. CASE SearchObject(p)
  BY <1>1, <1>3, <1>10 DEF SearchObject
<1>11. CASE GetRecord(p)
  BY <1>1, <1>3, <1>11 DEF GetRecord
<1>12. CASE FindType(p) \/ AddType(p)
  BY <1>2, <1>3, <1>4, <1>12 DEF FindType, AddType
<1>13. CASE Reload(p) \/ LoadObject(p)
  BY <1>5, <1>13 DEF Reload, LoadObject
<1>14. CASE Update(p) \/ UpdatePrediction(p) \/ AddAlias(p) \/ NameTag(p)
  BY <1>4, <1>14 DEF Update, UpdatePrediction, AddAlias, NameTag
<1>15. CASE AddObject(p)
  BY <1>1, <1>4, <1>15 DEF AddObject
<1>16. CASE FindObject(p)
  BY <1>1, <1>2, <1>3, <1>16 DEF FindObject
<1>17. CASE AddObservation(p) \/ AddAlert(p)
  BY <1>4, <1>17 DEF AddObservation, AddAlert
<1>18. CASE BackfillDatabase(p)
  BY <1>1, <1>4, <1>18 DEF BackfillDatabase, Backfill
<1>19. CASE FindTag(p) \/ AddTag(p)
  BY <1>2, <1>3, <1>4, <1>19 DEF FindTag, AddTag
<1>. QED
  BY <1>6, <1>7, <1>8, <1>9, <1>10, <1>11, <1>12, <1>13, <1>14, <1>15, <1>16, <1>17, <1>18, <1>19
     DEF Works

\* An observation was added by a program that was started.
LEMMA ByStarted ==
  ASSUME Typed
  PROVE  \A i \in DOMAIN observations : observations[i].by \in Started
<1>1. observations \in Seq([object : DOMAIN rows, time : 1..MaxTime, by : Started, new : BOOLEAN])
  BY DEF Typed
<1> DEFINE Made == [object : DOMAIN rows, time : 1..MaxTime, by : Started, new : BOOLEAN]
<1> HIDE DEF Made
<1>2. \A i \in DOMAIN observations : observations[i] \in Made
  BY <1>1, LenProperties, ElementOfSeq DEF Made
<1>. QED
  BY <1>2 DEF Made

\* What p has observed has its alert, but between its two commits.
Settled(p) == Own(p) \subseteq alerts \/ At(p, "add_alert") \/ proc[p].end = "stopped"

\* p's steps but these two leave observations and alerts, and its next step is not the second.
LEMMA OtherSteps ==
  ASSUME NEW p \in Procs, Works(p), ~AddObservation(p), ~AddAlert(p)
  PROVE  UNCHANGED <<observations, alerts>> /\ p \in Busy /\ ~At(p, "add_alert")
<1>1. CASE FromName(p) \/ TNSFails(p) \/ SearchName(p) \/ SearchObject(p) \/ GetRecord(p)
  BY <1>1 DEF FromName, TNSFails, SearchName, SearchObject, GetRecord, At, store
<1>2. CASE FindType(p) \/ AddType(p) \/ Reload(p) \/ Update(p) \/ AddObject(p)
  BY <1>2 DEF FindType, AddType, Reload, Update, AddObject, At, store
<1>3. CASE FindObject(p) \/ BackfillDatabase(p)
  BY <1>3 DEF FindObject, BackfillDatabase, At, store
<1>4. CASE FindTag(p) \/ AddTag(p) \/ NameTag(p)
  BY <1>4 DEF FindTag, AddTag, NameTag, At, store
<1>5. CASE LoadObject(p) \/ AddAlias(p) \/ UpdatePrediction(p)
  BY <1>5 DEF LoadObject, AddAlias, UpdatePrediction, At, store
<1>. QED
  BY <1>1, <1>2, <1>3, <1>4, <1>5 DEF Works

\* After an observation its alert is next.
LEMMA ThenAlerts ==
  ASSUME IInv, NEW p \in Procs, AddObservation(p)
  PROVE  At(p, "add_alert")'
<1>1. At(p, "add_observation") /\ Proceed(p) /\ p \in Busy /\ Typed /\ WorkInv
  BY DEF AddObservation, At, IInv
<1>2. PICK rest \in Rests : ToObserve(p, rest)
  BY <1>1, Phases
<1>3. proc[p].todo # <<>> /\ Tail(proc[p].todo) = Alerting(rest) /\ Alerting(rest) # <<>>
      /\ Head(Alerting(rest)) = "add_alert" /\ proc[p].end = None
  BY <1>1, <1>2, AlertSteps DEF ToObserve, Busy
<1>4. Kept(p) /\ proc'[p].todo = Alerting(rest) /\ proc'[p].end = None
  BY <1>1, <1>3, ProceedGoes
<1>. QED
  BY <1>1, <1>3, <1>4 DEF At, Busy, Started, Kept

\* What one program observes is its own: the others are as settled as they were.
LEMMA OthersSettled ==
  ASSUME IInv, NEW p \in Procs, Works(p) \/ Stop(p), NEW q \in Procs, q # p, Settled(q)
  PROVE  Settled(q)'
<1>1. Typed /\ proc'[q] = proc[q]
  BY StepsOfOne DEF IInv
<1>2. At(q, "add_alert")' = At(q, "add_alert")
  BY <1>1 DEF At, Busy, Started
<1>3. alerts \subseteq alerts'
  BY LastAlert, OtherSteps DEF AddObservation, Stop, store
<1>4. Own(q)' \subseteq Own(q)
  <2>1. CASE AddObservation(p)
    <3> DEFINE new == [object |-> proc[p].row, time |-> proc[p].time, by |-> p,
                       new |-> \A i \in DOMAIN observations : observations[i].by # p]
    <3>1. observations' = Append(observations, new)
      BY <2>1 DEF AddObservation
    <3>2. observations \in Seq([object : DOMAIN rows, time : 1..MaxTime, by : Started, new : BOOLEAN])
      BY <1>1 DEF Typed
    <3>3. new.by = p
      OBVIOUS
    <3> DEFINE Made == [object : DOMAIN rows, time : 1..MaxTime, by : Started, new : BOOLEAN]
               All == Made \cup {new}
    <3>5. observations \in Seq(Made) /\ new \in All /\ Made \subseteq All
      BY <3>2
    <3> HIDE DEF new, Made, All
    <3>4. ASSUME NEW i \in DOMAIN observations', observations'[i].by = q
          PROVE  i \in DOMAIN observations /\ observations[i].by = q
      <4>1. /\ DOMAIN observations' = DOMAIN observations \cup {Len(observations) + 1}
            /\ observations'[Len(observations) + 1] = new
            /\ \A k \in DOMAIN observations : observations'[k] = observations[k]
        BY <3>1, <3>5, AppendGoes
      <4>. QED
        BY <3>3, <3>4, <4>1
    <3>. QED
      BY <3>4 DEF Own
  <2>2. CASE ~AddObservation(p)
    <3>1. observations' = observations
      BY <2>2, OtherSteps DEF AddAlert, Stop, store
    <3>. QED
      BY <3>1 DEF Own
  <2>. QED
    BY <2>1, <2>2
<1>. QED
  BY <1>1, <1>2, <1>3, <1>4 DEF Settled

\* A program's own steps keep its observations settled.
LEMMA OwnSettled ==
  ASSUME IInv, NEW p \in Procs, Works(p), Settled(p)
  PROVE  Settled(p)'
<1>1. CASE AddObservation(p)
  BY <1>1, ThenAlerts DEF Settled
<1>2. CASE AddAlert(p)
  <2>1. Own(p)' = Own(p)
    BY <1>2 DEF Own, AddAlert
  <2>. QED
    BY <1>2, <2>1, LastAlert DEF Settled
<1>3. CASE ~AddObservation(p) /\ ~AddAlert(p)
  <2>1. UNCHANGED <<observations, alerts>> /\ p \in Busy /\ ~At(p, "add_alert")
    BY <1>3, OtherSteps
  <2>2. proc[p].end # "stopped"
    BY <2>1, NoneAssumption DEF Busy, Ends
  <2>. QED
    BY <2>1, <2>2 DEF Settled, Own
<1>. QED
  BY <1>1, <1>2, <1>3

\* Every step of every program, its start and its death leave all settled.
LEMMA SettledStays ==
  ASSUME IInv, [Next]_vars, \A q \in Procs : Settled(q)
  PROVE  \A q \in Procs : Settled(q)'
<1> SUFFICES ASSUME NEW q \in Procs PROVE Settled(q)'
  OBVIOUS
<1>1. CASE (\E x \in Things : Report(x)) \/ Tick \/ Restart \/ UNCHANGED vars
  <2>1. UNCHANGED <<store, proc>>
    BY <1>1 DEF Report, Tick, Restart, vars
  <2>. QED
    BY <2>1 DEF Settled, Own, At, Busy, Started, store
<1>2. ASSUME NEW p \in Procs, Start(p) PROVE Settled(q)'
  <2>1. UNCHANGED store /\ Typed
    BY <1>2 DEF Start, IInv
  <2>2. Own(q)' = Own(q) /\ alerts' = alerts
    BY <2>1 DEF Own, store
  <2>3. CASE q # p
    <3>1. SameCall(q)
      BY <1>2, <2>1, <2>3, StartGoes
    <3>. QED
      BY <2>2, <3>1 DEF Settled, SameCall, At, Busy, Started
  <2>4. CASE q = p
    <3>1. q \notin Started
      BY <1>2, <2>4 DEF Start, Started
    <3>2. Own(q) = {}
      BY <2>1, <3>1, ByStarted DEF Own
    <3>. QED
      BY <2>2, <3>2 DEF Settled
  <2>. QED
    BY <2>3, <2>4
<1>3. ASSUME NEW p \in Procs, Stop(p) PROVE Settled(q)'
  <2>1. CASE q = p
    <3>1. Typed /\ End(p, "stopped")
      BY <1>3 DEF IInv, Stop
    <3>2. proc'[p].end = "stopped"
      BY <3>1 DEF End, Typed, Call
    <3>. QED
      BY <2>1, <3>2 DEF Settled
  <2>. QED
    BY <1>3, <2>1, OthersSettled
<1>4. ASSUME NEW p \in Procs, Works(p) PROVE Settled(q)'
  BY <1>4, OthersSettled, OwnSettled
<1>. QED
  BY <1>1, <1>2, <1>3, <1>4, StepsOf

\* A delivery that returned has written its alert, and of each before it there is an
\* observation; no alert is written twice but by deliveries at once; an observation has
\* its alert unless its delivery was stopped between the two, and an object is added
\* once but by two at once (data/broker persist_to_database, to_database).
THEOREM AlertsIngested == Spec => []IngestInv
<1> DEFINE AllSettled == \A q \in Procs : Settled(q)
<1>1. Init => AllSettled
  BY DEF Init, Settled, Own
<1>2. IInv /\ AllSettled /\ [Next]_vars => AllSettled'
  BY SettledStays
<1>3. IInv /\ AllSettled => IngestInv
  <2> SUFFICES ASSUME IInv, AllSettled PROVE IngestInv
    OBVIOUS
  <2>1. ASSUME NEW p \in Started, proc[p].kind = "ingest", proc[p].end = "done"
        PROVE  /\ \A i \in DOMAIN observations : observations[i].by = p => i \in alerts
               /\ \E i \in DOMAIN observations : observations[i].by = p /\ observations[i].new
               /\ \A t \in proc[p].previous : \E i \in DOMAIN observations :
                    observations[i].time = t /\ rows[observations[i].object].of = proc[p].of
    <3>1. Complete(p)
      BY <2>1 DEF IInv, WorkInv, AtWork, Started
    <3>. QED
      BY <3>1 DEF Complete, Written, Own
  <2>2. IngestComplete
    BY <2>1 DEF IngestComplete
  <2>3. \A i \in DOMAIN observations : observations[i].by \in Procs
    BY ByStarted DEF IInv, Started
  <2>4. AlertedOrStopped
    BY <2>3 DEF AlertedOrStopped, Settled, Own
  <2>. QED
    BY <2>2, <2>4 DEF IInv, IngestInv
<1>. QED
  BY <1>1, <1>2, <1>3, Invariant, PTL DEF Spec

\* No program is ended by an exception, other than by a request to TNS, unless an
\* object had been added twice or another program was at work meanwhile (model.py
\* from_alias, ObjectType.add).
THEOREM RaisedWithCause == Spec => []RaisedForCause
<1>1. IInv => RaisedForCause
  BY DEF IInv
<1>. QED
  BY <1>1, Invariant, PTL

\* What a program that does not write objects' rows leaves of them.
LEMMA RowsStay ==
  ASSUME NEW p \in Procs, Typed, Works(p) \/ Stop(p) \/ Start(p)
  PROVE  \/ Update(p) \/ AddAlias(p) \/ UpdatePrediction(p)
         \/ \A i \in DOMAIN rows : rows'[i] = rows[i]
<1>1. CASE AddObject(p)
  <2>1. PICK new : rows' = Append(rows, new)
    BY <1>1 DEF AddObject
  <2>2. rows \in Seq(Row(types)) /\ new \in Row(types) \cup {new} /\ Row(types) \subseteq Row(types) \cup {new}
    BY DEF Typed
  <2>. QED
    BY <2>1, <2>2, AppendGoes
<1>2. CASE AddType(p) \/ AddObservation(p) \/ AddAlert(p) \/ AddTag(p) \/ NameTag(p)
  BY <1>2 DEF AddType, AddObservation, AddAlert, AddTag, NameTag
<1>3. CASE \/ Start(p) \/ Stop(p) \/ FromName(p) \/ TNSFails(p) \/ SearchName(p)
           \/ SearchObject(p) \/ GetRecord(p) \/ FindType(p) \/ Reload(p)
  <2>1. UNCHANGED store
    BY <1>3 DEF Start, Stop, FromName, TNSFails, SearchName, SearchObject, GetRecord, FindType,
       Reload
  <2>. QED
    BY <2>1 DEF store
<1>4. CASE FindObject(p) \/ BackfillDatabase(p) \/ FindTag(p) \/ LoadObject(p)
  <2>1. UNCHANGED store
    BY <1>4 DEF FindObject, BackfillDatabase, FindTag, LoadObject
  <2>. QED
    BY <2>1 DEF store
<1>. QED
  BY <1>1, <1>2, <1>3, <1>4 DEF Works

\* The names that an object has when it is written over are those that are
\* written, unless the program had changed none (model.py ModelBase.update).
LEMMA LosesOnly ==
  ASSUME Typed, NEW p \in Procs, Loaded(p), NEW new,
         proc[p].snap.names \subseteq new.names,
         rows' = [rows EXCEPT ![proc[p].row] = Merged(@, proc[p].snap, new)],
         NEW i \in DOMAIN rows, NEW name, Loses(i, name)
  PROVE  /\ i = proc[p].row /\ name \notin proc[p].snap.names
         /\ new.names # proc[p].snap.names
<1> DEFINE k == proc[p].row
           snap == proc[p].snap
           row == rows[k]
           plain == [c \in DOMAIN row |-> IF new[c] = snap[c] THEN row[c] ELSE new[c]]
           had == row.had \cup {new[c] : c \in {d \in {"class", "pred"} : new[d] # snap[d]}}
           stale == row.stale \/ (new # snap /\ snap # row)
           merged == [plain EXCEPT !.had = had, !.stale = stale]
<1>1. k \in DOMAIN rows /\ row \in Row(types)
  BY RowsThere DEF Loaded
<1>2. "names" \in DOMAIN row
  BY <1>1 DEF Row
<1>3. plain.names = IF new.names = snap.names THEN row.names ELSE new.names
  BY <1>2
<1>4. "names" \in DOMAIN plain
  BY <1>2
<1>5. rows' = [rows EXCEPT ![k] = merged]
  BY DEF Merged
<1> HIDE DEF plain, had, stale
<1>6. merged.names = plain.names
  BY <1>4
<1> HIDE DEF merged
<1>7. rows'[k] = merged /\ \A j \in DOMAIN rows : j # k => rows'[j] = rows[j]
  BY <1>1, <1>5
<1>8. i = k
  BY <1>7 DEF Loses
<1>. QED
  BY <1>3, <1>6, <1>7, <1>8 DEF Loses

\* An object loses a name only to a program that had loaded it before it had
\* the name (model.py Object.update and add_alias write the whole of aliases).
THEOREM NamesStay == Spec => NamesKept
<1>1. ASSUME IInv, [Next]_vars, NEW i \in DOMAIN rows, NEW name \in Providers, Loses(i, name)
      PROVE  \E p \in Procs : /\ At(p, "update") \/ At(p, "add_alias")
                              /\ proc[p].row = i /\ name \notin proc[p].snap.names
  <2>1. Typed
    BY <1>1 DEF IInv
  <2>2. ~((\E x \in Things : Report(x)) \/ Tick \/ Restart \/ UNCHANGED vars)
    <3>1. rows' # rows
      BY <1>1 DEF Loses
    <3>. QED
      BY <3>1 DEF Report, Tick, Restart, vars, store
  <2>3. PICK p \in Procs : Update(p) \/ AddAlias(p) \/ UpdatePrediction(p)
    <3>1. PICK p \in Procs : Start(p) \/ Stop(p) \/ Works(p)
      BY <1>1, <2>2, StepsOf
    <3>2. ~\A j \in DOMAIN rows : rows'[j] = rows[j]
      BY <1>1 DEF Loses
    <3>. QED
      BY <2>1, <3>1, <3>2, RowsStay
  <2> DEFINE snap == proc[p].snap
  <2>4. CASE Update(p)
    <3> DEFINE new == build_info(snap, proc[p].answer, proc[p].kind = "query")
    <3>1. /\ At(p, "update")
          /\ rows' = [rows EXCEPT ![proc[p].row] = Merged(@, snap, new)]
      BY <2>4 DEF Update
    <3>2. Loaded(p)
      BY <1>1, <3>1, Asks, UpdatePhases
    <3>3. snap.names \subseteq new.names
      BY <3>2 DEF Loaded, Row, build_info
    <3> HIDE DEF new
    <3>4. proc[p].row = i /\ name \notin snap.names
      BY <1>1, <2>1, <3>1, <3>2, <3>3, LosesOnly
    <3>. QED
      BY <3>1, <3>4
  <2>5. CASE AddAlias(p)
    <3> DEFINE new == [snap EXCEPT !.names = @ \cup {"tag"}]
    <3>1. /\ At(p, "add_alias")
          /\ rows' = [rows EXCEPT ![proc[p].row] = Merged(@, snap, new)]
      BY <2>5 DEF AddAlias
    <3>2. Loaded(p)
      BY <1>1, <3>1, Publishes, OtherPhases
    <3>3. snap.names \subseteq new.names
      BY <3>2 DEF Loaded, Row
    <3> HIDE DEF new
    <3>4. proc[p].row = i /\ name \notin snap.names
      BY <1>1, <2>1, <3>1, <3>2, <3>3, LosesOnly
    <3>. QED
      BY <3>1, <3>4
  <2>6. CASE UpdatePrediction(p)
    <3>1. PICK pred : /\ At(p, "update_prediction")
                      /\ rows' = [rows EXCEPT ![proc[p].row] = Merged(@, snap, predict(snap, pred))]
      BY <2>6 DEF UpdatePrediction
    <3> DEFINE new == predict(snap, pred)
    <3>2. Loaded(p)
      BY <1>1, <3>1, Publishes, OtherPhases
    <3>3. snap.names = new.names
      <4>1. snap \in Row(types)
        BY <3>2 DEF Loaded
      <4>2. \A row, value, history :
              row \in Row(types) => [row EXCEPT !.pred = value, !.history = history].names = row.names
        BY DEF Row
      <4> HIDE DEF snap
      <4>. QED
        BY <4>1, <4>2 DEF predict
    <3>4. rows' = [rows EXCEPT ![proc[p].row] = Merged(@, proc[p].snap, new)]
      BY <3>1
    <3> HIDE DEF new
    <3>. QED
      BY <1>1, <2>1, <3>2, <3>3, <3>4, LosesOnly
  <2>. QED
    BY <2>3, <2>4, <2>5, <2>6
<1>2. IInv /\ [Next]_vars =>
        [\A i \in DOMAIN rows, name \in Providers : Loses(i, name) =>
           \E p \in Procs : /\ At(p, "update") \/ At(p, "add_alias")
                           /\ proc[p].row = i /\ name \notin proc[p].snap.names]_vars
  BY <1>1
<1>. QED
  BY <1>2, Invariant, PTL DEF Spec, NamesKept

\* What a catalog update is told of is of the day, however old the catalog's
\* file or the catalog that the service holds may be; when TNS cannot be asked
\* the update ends without an answer (data/tns/catalog.py).
THEOREM CatalogIsFresh == Spec => CatalogFresh
<1>1. ASSUME IInv, [Next]_vars, NEW p \in Procs, At(p, "get_record"), ~At(p, "get_record")',
             proc'[p].end \notin {"stopped", "unanswered", "unreachable"}
      PROVE  held'.day = today
  <2>1. Typed /\ p \in Busy /\ Head(proc[p].todo) = "get_record" /\ proc[p].todo # <<>>
    BY <1>1, Asks DEF At
  <2>2. proc[p].kind # None /\ proc[p].end = None
    BY <2>1 DEF Busy, Started
  <2>3. ~(SameCall(p) \/ proc'[p] = proc[p])
    BY <1>1, <2>1, <2>2 DEF At, Busy, Started, SameCall
  <2>4. ~((\E x \in Things : Report(x)) \/ Tick \/ Restart \/ UNCHANGED vars)
    BY <2>3 DEF Report, Tick, Restart, vars
  <2>5. PICK q \in Procs : Start(q) \/ Stop(q) \/ Works(q)
    BY <1>1, <2>4, StepsOf
  <2>6. ~Start(q)
    <3> SUFFICES ASSUME Start(q) PROVE FALSE
      OBVIOUS
    <3>1. q # p
      BY <2>2 DEF Start
    <3>2. SameCall(p)
      BY <2>1, <3>1, StartGoes
    <3>. QED
      BY <2>3, <3>2
  <2>7. q = p
    BY <2>1, <2>3, <2>5, <2>6, StepsOfOne
  <2>8. ~Stop(p)
    <3> SUFFICES ASSUME Stop(p) PROVE FALSE
      OBVIOUS
    <3>1. End(p, "stopped")
      BY DEF Stop
    <3>2. proc'[p].end = "stopped"
      BY <2>1, <3>1, EndGoes DEF Ends
    <3>. QED
      BY <1>1, <3>2
  <2>9. ~TNSFails(p)
    <3> SUFFICES ASSUME TNSFails(p) PROVE FALSE
      OBVIOUS
    <3>1. PICK how \in {"unanswered", "unreachable"} : End(p, how)
      BY DEF TNSFails
    <3>2. proc'[p].end = how
      BY <2>1, <3>1, EndGoes DEF Ends
    <3>. QED
      BY <1>1, <3>2
  <2>10. GetRecord(p)
    <3>1. \A step : At(p, step) => step = "get_record"
      BY <2>1 DEF At
    <3>2. ~(FromName(p) \/ SearchName(p) \/ SearchObject(p) \/ FindType(p) \/ AddType(p) \/ Reload(p))
      BY <3>1 DEF FromName, SearchName, SearchObject, FindType, AddType, Reload
    <3>3. ~(Update(p) \/ AddObject(p) \/ FindObject(p) \/ AddObservation(p) \/ AddAlert(p))
      BY <3>1 DEF Update, AddObject, FindObject, AddObservation, AddAlert
    <3>4. ~(BackfillDatabase(p) \/ FindTag(p) \/ AddTag(p) \/ NameTag(p) \/ LoadObject(p))
      BY <3>1 DEF BackfillDatabase, FindTag, AddTag, NameTag, LoadObject
    <3>5. ~(AddAlias(p) \/ UpdatePrediction(p))
      BY <3>1 DEF AddAlias, UpdatePrediction
    <3>. QED
      BY <2>5, <2>6, <2>7, <2>8, <2>9, <3>2, <3>3, <3>4, <3>5 DEF Works
  <2>11. Refresh /\ UNCHANGED <<tns, today>>
    BY <2>10 DEF GetRecord
  <2>. QED
    BY <2>1, <2>11, RefreshGoes
<1>2. IInv /\ [Next]_vars =>
        [\A p \in Procs : At(p, "get_record") /\ ~At(p, "get_record")'
           /\ proc'[p].end \notin {"stopped", "unanswered", "unreachable"} => held'.day = today]_vars
  BY <1>1
<1>. QED
  BY <1>2, Invariant, PTL DEF Spec, CatalogFresh
==============================================================================
