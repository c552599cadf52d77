------------------------- MODULE ObservedUpload_proofs -------------------------
(***************************************************************************)
(* Theorems about ObservedUpload, for any number of requests, workers and  *)
(* values.                                                                 *)
(***************************************************************************)
EXTENDS ObservedUpload, TLAPS

\* Only requests that were over are before a request, which is never before
\* one of these.
HistoryInv ==
  \A q, r \in Requests : q \in before[r] =>
    pc[q] \in Over /\ pc[r] # "unsent" /\ r \notin before[q]

\* What each request has posted.
KindInv ==
  \A r \in Requests :
    /\ pc[r] = "unsent" => kind[r] = "observed" /\ before[r] = {}
    /\ pc[r] # "unsent" /\ kind[r] = "observed" => data[r] \in Data
    /\ pc[r] \in {"source", "add_source", "reload", "add", "link", "load", "update"} =>
         kind[r] = "observed"
    /\ pc[r] \in {"refused", "file", "add_file", "update_file"} => kind[r] = "file"

\* A request adds a row once it is at "link", where the row is what it posted.
AddedInv ==
  \A r \in Requests :
    /\ observation[r] # None => kind[r] = "observed" /\ pc[r] \in {"link", "answer"} \cup Over
    /\ pc[r] = "link" => observation[r] = data[r]

\* Request s may have been shown: it has added a row and is past "link".
Linked(s) ==
  /\ s \in Requests /\ kind[s] = "observed" /\ observation[s] \in Data
  /\ pc[s] \in {"answer"} \cup Over

\* The recommendation shows a row, as did all that it has shown before, which
\* overlapped this one.
SeenInv ==
  /\ shown # None => Linked(shown)
  /\ \A f \in Requests : seen[f] # None =>
       /\ Linked(seen[f]) /\ shown # None
       /\ shown = seen[f] \/ Overlap(shown, seen[f])
  /\ \A f \in Requests : pc[f] \in {"load", "update", "file", "add_file", "update_file"} =>
       seen[f] # None

\* Request q has seen that the recommendation has no observation.
SawNone(q) == pc[q] \in {"add", "link"} \/ (pc[q] = "source" /\ seen[q] = None)

\* Nothing that was over when such a request began was ever shown.
NoneInv ==
  \A q \in Requests : SawNone(q) =>
    /\ shown \notin before[q]
    /\ \A f \in Requests : seen[f] \notin before[q]
    /\ \A r \in before[q] : pc[r] = "answered" => observation[r] = None

\* AssociatedOrRaced, from the moment the request is done.
AssociatedInv ==
  \A r \in Requests : pc[r] \in {"answer", "answered"} /\ observation[r] # None =>
    shown # None /\ (shown = r \/ Overlap(shown, r))

\* A row that is there when a request is about to add it was added by a
\* request that overlapped it.
RaceInv ==
  \A r \in Requests :
    (\/ pc[r] = "critical"
     \/ pc[r] = "add_source" /\ source
     \/ pc[r] = "add_file" /\ file[seen[r]] # None) => \E q \in Requests : Overlap(q, r)

\* What a file goes with is what the recommendation shows or has shown
\* before; once uploaded it stays, or an upload that was not over when it
\* began has replaced it.
GoesWithShown(f) ==
  /\ seen[f] # None
  /\ shown = seen[f] \/ shown \notin before[f]
  /\ pc[f] \in {"answer", "answered"} =>
       file[seen[f]] # None /\ file[seen[f]] \notin before[f]

\* So it is from the moment that a file upload has seen what is shown.
FileInv ==
  \A f \in Requests :
    kind[f] = "file" /\ pc[f] \in {"file", "add_file", "update_file", "answer", "answered"} =>
      GoesWithShown(f)

\* What u posted in column c is shown, and u was not over when upload v began
\* that is done, or that is about to leave the column as it is.
Outlives(u, c, v) ==
  /\ kind[v] = "observed" /\ pc[v] \in {"answer", "answered"} => u \notin before[v]
  /\ pc[v] \in {"source", "load"} /\ seen[v] # None => seen[v] = shown \/ u \notin before[v]
  /\ pc[v] = "update" =>
       \/ seen[v] = shown /\ base[v][c] = observation[shown][c]
       \/ u \notin before[v]

\* from[c] is the upload that posted what column c shows.
Shows(from) ==
  \A c \in Columns :
    /\ data[from[c]][c] = observation[shown][c]
    /\ \A v \in Requests : Outlives(from[c], c, v)
    /\ \A d \in Columns : from[c] = from[d] \/ Overlap(from[c], from[d])

\* LatestShown, and what an update in progress will make of it.
ShownInv == shown # None => \E from \in [Columns -> Uploads] : Shows(from)

\* The inductive invariant of the uploads (recommendation.py).
IInv ==
  /\ TypeOK /\ HistoryInv /\ KindInv /\ AddedInv /\ SeenInv
  /\ NoneInv /\ AssociatedInv /\ RaceInv /\ FileInv /\ ShownInv
------------------------------------------------------------------------------
(***************************************************************************)
(* Steps of the requests, and what all of them leave alone.                *)
(***************************************************************************)
\* A step is one request's (recommendation.py), or none's.
Step(r) ==
  \/ Receive(r) \/ Begin(r)
  \/ FindSource(r) \/ AddSource(r) \/ Reload(r)
  \/ AddObservation(r) \/ LinkObservation(r)
  \/ LoadObservation(r) \/ UpdateObservation(r)
  \/ FindFile(r) \/ AddFile(r) \/ UpdateFile(r)
  \/ Answer(r) \/ Lose(r)

\* Every step is a request's, or changes nothing (recommendation.py).
LEMMA Steps ==
  ASSUME [Next]_vars
  PROVE  (\E r \in Requests : Step(r)) \/ UNCHANGED vars
BY DEF Next, Step, Finished

\* A request stays what it was received as, and ends once (api.py).
LEMMA Frame ==
  ASSUME TypeOK, [Next]_vars, NEW q \in Requests
  PROVE  /\ pc[q] \in Over => pc'[q] = pc[q]
         /\ pc[q] # "unsent" =>
              /\ pc'[q] # "unsent" /\ before'[q] = before[q]
              /\ kind'[q] = kind[q] /\ data'[q] = data[q]
<1>1. CASE UNCHANGED vars
  BY <1>1 DEF vars
<1>2. ASSUME NEW r \in Requests, Receive(r)
      PROVE  /\ pc[r] = "unsent"
             /\ q # r => pc'[q] = pc[q] /\ before'[q] = before[q]
                          /\ kind'[q] = kind[q] /\ data'[q] = data[q]
  BY <1>2 DEF Receive, TypeOK, Goto
<1>3. ASSUME NEW r \in Requests, Step(r), ~Receive(r)
      PROVE  /\ pc[r] \notin Over /\ pc[r] # "unsent" /\ pc'[r] # "unsent"
             /\ q # r => pc'[q] = pc[q]
             /\ UNCHANGED <<kind, data, before>>
  BY <1>3 DEF Step, Begin, FindSource, AddSource, Reload, AddObservation, LinkObservation,
              LoadObservation, UpdateObservation, FindFile, AddFile, UpdateFile, Answer, Lose,
              TypeOK, Goto, AddOrUpdate, Over, Running
<1>. QED
  BY <1>1, <1>2, <1>3, Steps DEF Over

\* What overlaps goes on to have overlapped (api.py).
LEMMA OverlapKept ==
  ASSUME TypeOK, [Next]_vars, NEW q \in Requests, NEW r \in Requests, Overlap(q, r)
  PROVE  Overlap(q, r)'
BY Frame DEF Overlap

\* Two requests that are not over overlap (api.py).
LEMMA RunningOverlap ==
  ASSUME HistoryInv, NEW q \in Requests, NEW r \in Requests, q # r,
         pc[q] \notin Over, pc[r] \notin Over, pc[q] # "unsent", pc[r] # "unsent"
  PROVE  Overlap(q, r)
BY DEF HistoryInv, Overlap
------------------------------------------------------------------------------
(***************************************************************************)
(* Each part of the inductive invariant is kept by every step.             *)
(***************************************************************************)
\* The tables and requests keep their types (recommendation.py).
LEMMA TypeStep == IInv /\ [Next]_vars => TypeOK'
<1> SUFFICES ASSUME IInv, [Next]_vars PROVE TypeOK'
  OBVIOUS
<1> USE DEF IInv, TypeOK, Goto, Over, Running
<1>1. CASE UNCHANGED vars
  BY <1>1 DEF vars, rows
<1>2. ASSUME NEW r \in Requests, Receive(r) PROVE TypeOK'
  BY <1>2 DEF Receive, rows
<1>3. ASSUME NEW r \in Requests, Begin(r) \/ FindSource(r) \/ AddSource(r) \/ Reload(r)
      PROVE  TypeOK'
  <2>1. CASE Begin(r)
    BY <2>1 DEF Begin, rows
  <2>2. CASE FindSource(r)
    BY <2>2 DEF FindSource, AddOrUpdate, rows
  <2>3. CASE AddSource(r)
    BY <2>3 DEF AddSource
  <2>4. CASE Reload(r)
    BY <2>4 DEF Reload, AddOrUpdate, rows
  <2>. QED
    BY <1>3, <2>1, <2>2, <2>3, <2>4
<1>4. ASSUME NEW r \in Requests, AddObservation(r) \/ LinkObservation(r) PROVE TypeOK'
  BY <1>4 DEF AddObservation, LinkObservation
<1>5. ASSUME NEW r \in Requests, LoadObservation(r) PROVE TypeOK'
  BY <1>5 DEF LoadObservation, SeenInv, Linked, rows
<1>6. ASSUME NEW r \in Requests, UpdateObservation(r) PROVE TypeOK'
  <2>1. data[r] \in Data /\ observation[seen[r]] \in Data /\ seen[r] \in Requests
    BY <1>6 DEF UpdateObservation, SeenInv, KindInv, Linked
  <2>2. observation' \in [Requests -> Data \cup {None}]
    BY <1>6, <2>1 DEF UpdateObservation, Data
  <2>. QED
    BY <1>6, <2>2 DEF UpdateObservation
<1>7. ASSUME NEW r \in Requests, FindFile(r) \/ AddFile(r) \/ UpdateFile(r) PROVE TypeOK'
  BY <1>7 DEF FindFile, AddFile, UpdateFile, rows
<1>8. ASSUME NEW r \in Requests, Answer(r) \/ Lose(r) PROVE TypeOK'
  BY <1>8 DEF Answer, Lose, rows
<1>. QED
  BY <1>1, <1>2, <1>3, <1>4, <1>5, <1>6, <1>7, <1>8, Steps DEF Step

\* A request is received after those that were over, and before none (api.py).
LEMMA HistoryStep == IInv /\ [Next]_vars => HistoryInv'
<1> SUFFICES ASSUME IInv, [Next]_vars, NEW q \in Requests, NEW r \in Requests, q \in before'[r]
             PROVE  pc'[q] \in Over /\ pc'[r] # "unsent" /\ r \notin before'[q]
  BY DEF HistoryInv
<1> USE DEF IInv, HistoryInv
<1>1. CASE pc[r] # "unsent"
  BY <1>1, Frame DEF Over
<1>2. CASE pc[r] = "unsent"
  <2>1. Receive(r)
    <3>1. ASSUME NEW s \in Requests, Step(s), ~Receive(r) PROVE before'[r] = before[r]
      BY <3>1 DEF Step, Receive, Begin, FindSource, AddSource, Reload, AddObservation,
         LinkObservation, LoadObservation, UpdateObservation, FindFile, AddFile, UpdateFile,
         Answer, Lose, TypeOK
    <3>2. CASE UNCHANGED vars
      BY <1>2, <3>2 DEF vars
    <3>. QED
      BY <1>2, <3>1, <3>2, Steps
  <2>2. pc[q] \in Over /\ pc'[r] = "begin"
    BY <2>1 DEF Receive, TypeOK, Goto
  <2>. QED
    BY <1>2, <2>2, Frame DEF Over
<1>. QED
  BY <1>1, <1>2

\* A request goes through the steps of what it posts (recommendation.py).
LEMMA KindStep == IInv /\ [Next]_vars => KindInv'
<1> SUFFICES ASSUME IInv, [Next]_vars PROVE KindInv'
  OBVIOUS
<1> USE DEF IInv, TypeOK, KindInv, Goto, Over, Running
<1>1. CASE UNCHANGED vars
  BY <1>1 DEF vars
<1>2. ASSUME NEW r \in Requests, Receive(r) PROVE KindInv'
  BY <1>2 DEF Receive
<1>3. ASSUME NEW r \in Requests, Begin(r) \/ FindSource(r) \/ AddSource(r) \/ Reload(r)
      PROVE  KindInv'
  BY <1>3 DEF Begin, FindSource, AddSource, Reload, AddOrUpdate
<1>4. ASSUME NEW r \in Requests,
             \/ AddObservation(r) \/ LinkObservation(r) \/ LoadObservation(r)
             \/ UpdateObservation(r)
      PROVE  KindInv'
  BY <1>4 DEF AddObservation, LinkObservation, LoadObservation, UpdateObservation
<1>5. ASSUME NEW r \in Requests, FindFile(r) \/ AddFile(r) \/ UpdateFile(r) PROVE KindInv'
  BY <1>5 DEF FindFile, AddFile, UpdateFile
<1>6. ASSUME NEW r \in Requests, Answer(r) \/ Lose(r) PROVE KindInv'
  BY <1>6 DEF Answer, Lose
<1>. QED
  BY <1>1, <1>2, <1>3, <1>4, <1>5, <1>6, Steps DEF Step

\* A row is added by one request, and changed only once it may be shown
\* (recommendation.py add_recommendation_observed).
LEMMA AddedStep == IInv /\ [Next]_vars => AddedInv'
<1> SUFFICES ASSUME IInv, [Next]_vars PROVE AddedInv'
  OBVIOUS
<1> USE DEF IInv, TypeOK, AddedInv, Goto, Over, Running
<1>1. CASE UNCHANGED vars
  BY <1>1 DEF vars, rows
<1>2. ASSUME NEW r \in Requests, Receive(r) PROVE AddedInv'
  BY <1>2 DEF Receive, rows
<1>3. ASSUME NEW r \in Requests, Begin(r) \/ FindSource(r) \/ AddSource(r) \/ Reload(r)
      PROVE  AddedInv'
  BY <1>3 DEF Begin, FindSource, AddSource, Reload, AddOrUpdate, rows
<1>4. ASSUME NEW r \in Requests, AddObservation(r) \/ LinkObservation(r) \/ LoadObservation(r)
      PROVE  AddedInv'
  BY <1>4 DEF AddObservation, LinkObservation, LoadObservation, KindInv, rows
<1>5. ASSUME NEW r \in Requests, UpdateObservation(r) PROVE AddedInv'
  <2>1. Linked(seen[r])
    BY <1>5 DEF UpdateObservation, SeenInv
  <2>2. pc[r] = "update" /\ observation[seen[r]] # None
    BY <1>5, <2>1, NoneAssumption DEF UpdateObservation, Linked
  <2>. QED
    BY <1>5, <2>1, <2>2 DEF UpdateObservation, Linked
<1>6. ASSUME NEW r \in Requests, FindFile(r) \/ AddFile(r) \/ UpdateFile(r) PROVE AddedInv'
  BY <1>6 DEF FindFile, AddFile, UpdateFile, rows
<1>7. ASSUME NEW r \in Requests, Answer(r) \/ Lose(r) PROVE AddedInv'
  BY <1>7 DEF Answer, Lose, rows
<1>. QED
  BY <1>1, <1>2, <1>3, <1>4, <1>5, <1>6, <1>7, Steps DEF Step

\* What has been shown is still there, and nothing has been shown again
\* (recommendation.py add_recommendation_observed).
LEMMA LinkedKept ==
  ASSUME IInv, [Next]_vars, NEW s \in Requests, Linked(s)
  PROVE  Linked(s)'
<1> USE DEF IInv, TypeOK, Linked, Goto
<1>1. pc[s] # "unsent" /\ kind'[s] = "observed"
  BY Frame DEF Over
<1>2. pc'[s] \in {"answer"} \cup Over
  <2>1. CASE pc[s] = "answer"
    <3>1. ASSUME NEW r \in Requests,
                 \/ Receive(r) \/ Begin(r) \/ FindSource(r) \/ AddSource(r) \/ Reload(r)
                 \/ AddObservation(r) \/ LinkObservation(r)
          PROVE  pc'[s] = pc[s]
      BY <2>1, <3>1 DEF Receive, Begin, FindSource, AddSource, Reload, AddObservation,
                        LinkObservation
    <3>2. ASSUME NEW r \in Requests,
                 \/ LoadObservation(r) \/ UpdateObservation(r)
                 \/ FindFile(r) \/ AddFile(r) \/ UpdateFile(r)
          PROVE  pc'[s] = pc[s]
      BY <2>1, <3>2 DEF LoadObservation, UpdateObservation, FindFile, AddFile, UpdateFile
    <3>3. ASSUME NEW r \in Requests, Answer(r) \/ Lose(r)
          PROVE  pc'[s] \in {"answer"} \cup Over
      BY <2>1, <3>3 DEF Answer, Lose, Over
    <3>4. UNCHANGED vars => pc'[s] = pc[s]
      BY DEF vars
    <3>. QED
      BY <2>1, <3>1, <3>2, <3>3, <3>4, Steps DEF Step
  <2>. QED
    BY <2>1, Frame
<1>3. observation'[s] \in Data
  <2>1. ASSUME NEW r \in Requests, UpdateObservation(r) PROVE observation'[s] \in Data
    <3>1. data[r] \in Data
      BY <2>1 DEF UpdateObservation, KindInv
    <3>2. CASE seen[r] = s
      BY <2>1, <3>1, <3>2 DEF UpdateObservation, Data
    <3>3. CASE seen[r] # s
      BY <2>1, <3>3 DEF UpdateObservation
    <3>. QED
      BY <3>2, <3>3
  <2>2. ASSUME NEW r \in Requests, AddObservation(r) PROVE observation'[s] \in Data
    BY <2>2 DEF AddObservation, Over
  <2>3. ASSUME NEW r \in Requests, Step(r), ~UpdateObservation(r), ~AddObservation(r)
        PROVE  observation'[s] \in Data
    BY <2>3 DEF Step, Receive, Begin, FindSource, AddSource, Reload, LinkObservation,
       LoadObservation, FindFile, AddFile, UpdateFile, Answer, Lose, rows
  <2>4. CASE UNCHANGED vars
    BY <2>4 DEF vars, rows
  <2>. QED
    BY <2>1, <2>2, <2>3, <2>4, Steps
<1>. QED
  BY <1>1, <1>2, <1>3

\* What is shown changes at "link" only, to a request that overlaps all that
\* was shown before (recommendation.py add_recommendation_observed).
LEMMA ShownStep ==
  ASSUME IInv, [Next]_vars
  PROVE  \/ shown' = shown
         \/ \E q \in Requests : LinkObservation(q)
BY Steps DEF Step, Receive, Begin, FindSource, AddSource, Reload, AddObservation,
   LoadObservation, UpdateObservation, FindFile, AddFile, UpdateFile, Answer, Lose, vars, rows

\* The request whose row comes to be shown overlapped what was shown before
\* it, whenever that was seen (recommendation.py add_recommendation_observed).
LEMMA LinkOverlaps ==
  ASSUME IInv, NEW q \in Requests, LinkObservation(q)
  PROVE  /\ pc[q] = "link" /\ pc'[q] = "answer" /\ shown' = q
         /\ UNCHANGED <<source, observation, file, kind, data, seen, base, before>>
         /\ kind[q] = "observed" /\ observation[q] = data[q] /\ data[q] \in Data
         /\ \A r \in Requests : q \notin before[r]
         /\ \A r \in Requests : r # q => pc'[r] = pc[r]
         /\ shown # None => Overlap(q, shown)
         /\ \A f \in Requests : seen[f] # None => Overlap(q, seen[f]) /\ seen[f] # q
<1> USE DEF IInv, TypeOK, LinkObservation, Goto
<1>1. /\ pc[q] = "link" /\ pc'[q] = "answer" /\ shown' = q
      /\ UNCHANGED <<source, observation, file, kind, data, seen, base, before>>
      /\ \A r \in Requests : r # q => pc'[r] = pc[r]
  OBVIOUS
<1>2. kind[q] = "observed" /\ observation[q] = data[q] /\ data[q] \in Data
  BY <1>1 DEF KindInv, AddedInv
<1>3. \A r \in Requests : q \notin before[r]
  BY <1>1 DEF HistoryInv, Over
<1>4. ASSUME NEW s, Linked(s), s \notin before[q] PROVE Overlap(q, s) /\ s # q
  BY <1>1, <1>3, <1>4 DEF Linked, Overlap, Over
<1>5. shown \notin before[q] /\ \A f \in Requests : seen[f] \notin before[q]
  BY <1>1 DEF NoneInv, SawNone
<1>. QED
  BY <1>1, <1>2, <1>3, <1>4, <1>5 DEF SeenInv

\* What a request has seen was shown (recommendation.py from_id).
LEMMA SeenStep == IInv /\ [Next]_vars => SeenInv'
<1> SUFFICES ASSUME IInv, [Next]_vars PROVE SeenInv'
  OBVIOUS
<1> USE DEF IInv
<1>1. ASSUME shown' # None PROVE Linked(shown)'
  <2>1. CASE shown' = shown
    <3>1. PICK s \in Requests : s = shown /\ Linked(s)
      BY <1>1, <2>1 DEF SeenInv, Linked
    <3>2. Linked(s)'
      BY <3>1, LinkedKept
    <3>. QED
      BY <2>1, <3>1, <3>2 DEF Linked
  <2>2. ASSUME NEW q \in Requests, LinkObservation(q) PROVE Linked(shown)'
    BY <2>2, LinkOverlaps DEF Linked
  <2>. QED
    BY <2>1, <2>2, ShownStep
<1>2. ASSUME NEW f \in Requests, seen'[f] # None
      PROVE  /\ Linked(seen[f])' /\ shown' # None
             /\ shown' = seen'[f] \/ Overlap(shown, seen[f])'
  <2>1. seen'[f] = seen[f] \/ (seen'[f] = shown /\ shown' = shown)
    <3>1. ASSUME NEW r \in Requests, Begin(r) \/ Reload(r)
          PROVE  seen'[f] = seen[f] \/ (seen'[f] = shown /\ shown' = shown)
      BY <3>1 DEF Begin, Reload, rows, TypeOK
    <3>2. ASSUME NEW r \in Requests, Step(r), ~(Begin(r) \/ Reload(r)) PROVE seen'[f] = seen[f]
      BY <3>2 DEF Step, Receive, FindSource, AddSource, AddObservation, LinkObservation,
         LoadObservation, UpdateObservation, FindFile, AddFile, UpdateFile, Answer, Lose
    <3>. QED
      BY <3>1, <3>2, Steps DEF vars, rows
  <2>2. CASE seen'[f] = seen[f]
    <3>1. PICK s \in Requests : s = seen[f] /\ s # None /\ Linked(s)
      BY <1>2, <2>2 DEF SeenInv, Linked
    <3>2. PICK t \in Requests : t = shown
      BY <3>1 DEF SeenInv, Linked
    <3>3. Linked(s)' /\ t # None /\ (t = s \/ Overlap(t, s))
      BY <3>1, <3>2, LinkedKept DEF SeenInv
    <3>4. CASE shown' = shown
      <4>1. t = s \/ Overlap(t, s)'
        BY <3>3, OverlapKept
      <4>. QED
        BY <2>2, <3>1, <3>2, <3>3, <3>4, <4>1 DEF Linked, Overlap
    <3>5. ASSUME NEW q \in Requests, LinkObservation(q)
          PROVE  /\ Linked(seen[f])' /\ shown' # None
                 /\ Overlap(shown, seen[f])'
      <4>1. Overlap(q, s)' /\ shown' = q
        BY <3>1, <3>5, LinkOverlaps, OverlapKept
      <4>. QED
        BY <2>2, <3>1, <3>3, <4>1, UploadAssumption DEF Linked, Overlap
    <3>. QED
      BY <3>4, <3>5, ShownStep
  <2>3. CASE seen'[f] = shown /\ shown' = shown
    BY <1>1, <1>2, <2>3 DEF Linked
  <2>. QED
    BY <2>1, <2>2, <2>3
<1>3. ASSUME NEW f \in Requests, pc'[f] \in {"load", "update", "file", "add_file", "update_file"}
      PROVE  seen'[f] # None
  <2>1. CASE UNCHANGED vars
    BY <1>3, <2>1 DEF vars, SeenInv
  <2>2. ASSUME NEW r \in Requests, Begin(r) PROVE seen'[f] # None
    BY <1>3, <2>2 DEF Begin, TypeOK, SeenInv, Goto
  <2>3. ASSUME NEW r \in Requests, FindSource(r) \/ AddSource(r) \/ Reload(r) PROVE seen'[f] # None
    BY <1>3, <2>3 DEF FindSource, AddSource, Reload, TypeOK, SeenInv, Goto, AddOrUpdate
  <2>4. ASSUME NEW r \in Requests, Step(r),
               ~(Begin(r) \/ FindSource(r) \/ AddSource(r) \/ Reload(r))
        PROVE  seen'[f] # None
    BY <1>3, <2>4 DEF Step, Receive, AddObservation, LinkObservation, LoadObservation,
       UpdateObservation, FindFile, AddFile, UpdateFile, Answer, Lose, TypeOK, SeenInv, Goto
  <2>. QED
    BY <2>1, <2>2, <2>3, <2>4, Steps
<1>. QED
  BY <1>1, <1>2, <1>3 DEF SeenInv

\* A request that sees nothing shown began before anything was linked
\* (recommendation.py add_recommendation_observed).
LEMMA NoneStep == IInv /\ [Next]_vars => NoneInv'
<1> SUFFICES ASSUME IInv, [Next]_vars, NEW q \in Requests, SawNone(q)'
             PROVE  /\ shown' \notin before'[q]
                    /\ \A f \in Requests : seen'[f] \notin before'[q]
                    /\ \A r \in before'[q] : pc'[r] = "answered" => observation'[r] = None
  BY DEF NoneInv
<1> USE DEF IInv
<1>1. before'[q] = before[q] /\ before[q] \subseteq Requests /\ pc[q] # "unsent"
  <2>1. pc[q] # "unsent"
    <3>1. ASSUME NEW r \in Requests, Receive(r) PROVE pc'[q] = pc[q] \/ pc'[q] = "begin"
      BY <3>1 DEF Receive, Goto, TypeOK
    <3>2. ASSUME NEW r \in Requests, Step(r), ~Receive(r), pc[q] = "unsent" PROVE pc'[q] = "unsent"
      BY <3>2 DEF Step, Begin, FindSource, AddSource, Reload, AddObservation, LinkObservation,
         LoadObservation, UpdateObservation, FindFile, AddFile, UpdateFile, Answer, Lose,
         Goto, TypeOK, Running
    <3>. QED
      BY <3>1, <3>2, Steps DEF SawNone, vars
  <2>. QED
    BY <2>1, Frame DEF TypeOK
\* Nothing was shown when q saw that, or it was so before the step.
<1>2. SawNone(q) \/ shown = None
  <2>1. CASE UNCHANGED vars
    BY <2>1 DEF vars, SawNone
  <2>2. ASSUME NEW r \in Requests, Begin(r) \/ Reload(r) PROVE SawNone(q) \/ shown = None
    BY <2>2 DEF Begin, Reload, AddOrUpdate, Goto, TypeOK, SawNone
  <2>3. ASSUME NEW r \in Requests, Receive(r) \/ FindSource(r) PROVE SawNone(q)
    BY <2>3 DEF Receive, FindSource, AddOrUpdate, Goto, TypeOK, SawNone
  <2>4. ASSUME NEW r \in Requests, Step(r),
               ~(Receive(r) \/ FindSource(r) \/ Begin(r) \/ Reload(r))
        PROVE  SawNone(q)
    BY <2>4 DEF Step, AddSource, AddObservation, LinkObservation, LoadObservation,
       UpdateObservation, FindFile, AddFile, UpdateFile, Answer, Lose, Goto, TypeOK, SawNone
  <2>. QED
    BY <2>1, <2>2, <2>3, <2>4, Steps
<1>3. /\ shown \notin before[q]
      /\ \A f \in Requests : seen[f] \notin before[q]
      /\ \A r \in before[q] : pc[r] = "answered" => observation[r] = None
  <2>1. CASE SawNone(q)
    BY <2>1 DEF NoneInv
  <2>2. CASE shown = None
    BY <1>1, <2>2, UploadAssumption DEF SeenInv, AssociatedInv
  <2>. QED
    BY <1>2, <2>1, <2>2
<1>4. shown' \notin before[q]
  BY <1>1, <1>3, ShownStep, LinkOverlaps
<1>5. ASSUME NEW f \in Requests PROVE seen'[f] \notin before[q]
  <2>1. ASSUME NEW r \in Requests, Begin(r) \/ Reload(r)
        PROVE  seen'[f] = seen[f] \/ seen'[f] = shown
    BY <2>1 DEF Begin, Reload, TypeOK
  <2>2. ASSUME NEW r \in Requests, Step(r), ~(Begin(r) \/ Reload(r)) PROVE seen'[f] = seen[f]
    BY <2>2 DEF Step, Receive, FindSource, AddSource, AddObservation, LinkObservation,
       LoadObservation, UpdateObservation, FindFile, AddFile, UpdateFile, Answer, Lose
  <2>. QED
    BY <1>3, <2>1, <2>2, Steps DEF vars
<1>6. ASSUME NEW r \in before[q], pc'[r] = "answered" PROVE observation'[r] = None
  <2>1. r \in Requests /\ pc[r] = "answered" /\ observation[r] = None
    BY <1>1, <1>3, <1>6, Frame DEF HistoryInv
  <2>2. ASSUME NEW x \in Requests, UpdateObservation(x) PROVE observation'[r] = None
    BY <1>3, <2>1, <2>2 DEF UpdateObservation, TypeOK
  <2>3. ASSUME NEW x \in Requests, AddObservation(x) PROVE observation'[r] = None
    BY <2>1, <2>3 DEF AddObservation, TypeOK
  <2>4. ASSUME NEW x \in Requests, Step(x), ~UpdateObservation(x), ~AddObservation(x)
        PROVE  observation'[r] = None
    BY <2>1, <2>4 DEF Step, Receive, Begin, FindSource, AddSource, Reload, LinkObservation,
       LoadObservation, FindFile, AddFile, UpdateFile, Answer, Lose, rows
  <2>. QED
    BY <2>1, <2>2, <2>3, <2>4, Steps DEF vars, rows
<1>. QED
  BY <1>1, <1>4, <1>5, <1>6

\* A request that is done with the row it added has overlapped what is shown
\* instead (recommendation.py add_recommendation_observed).
LEMMA AssociatedStep == IInv /\ [Next]_vars => AssociatedInv'
<1> SUFFICES ASSUME IInv, [Next]_vars, NEW r \in Requests,
                    pc'[r] \in {"answer", "answered"}, observation'[r] # None
             PROVE  shown' # None /\ (shown' = r \/ Overlap(shown, r)')
  BY DEF AssociatedInv, Overlap
<1> USE DEF IInv
<1>1. ASSUME NEW q \in Requests, LinkObservation(q)
      PROVE  shown' # None /\ (shown' = r \/ Overlap(shown, r)')
  <2>1. CASE q = r
    BY <1>1, <2>1, LinkOverlaps, UploadAssumption
  <2>2. CASE q # r
    <3>1. pc[r] \in {"answer", "answered"} /\ observation[r] # None
      BY <1>1, <2>2, LinkOverlaps
    <3>2. r \notin before[q]
      <4>1. pc[q] = "link"
        BY <1>1, LinkOverlaps
      <4>. QED
        BY <3>1, <4>1 DEF NoneInv, SawNone, HistoryInv, Over
    <3>3. Overlap(q, r)'
      <4>1. Overlap(q, r)
        BY <1>1, <2>2, <3>1, <3>2, LinkOverlaps DEF Overlap
      <4>. QED
        BY <4>1, OverlapKept
    <3>. QED
      BY <1>1, <3>3, LinkOverlaps, UploadAssumption DEF Overlap
  <2>. QED
    BY <2>1, <2>2
<1>2. CASE shown' = shown /\ shown # None /\ (shown = r \/ Overlap(shown, r))
  <2>1. PICK s \in Requests : s = shown
    BY <1>2 DEF TypeOK
  <2>2. s = r \/ Overlap(s, r)'
    BY <1>2, <2>1, OverlapKept
  <2>. QED
    BY <1>2, <2>1, <2>2 DEF Overlap
<1>3. ASSUME ~\E q \in Requests : LinkObservation(q)
      PROVE  pc[r] \in {"answer", "answered"} /\ observation[r] # None
  <2> USE DEF AddedInv, TypeOK, Goto, Over
  <2>1. CASE UNCHANGED vars
    BY <2>1 DEF vars, rows
  <2>2. ASSUME NEW x \in Requests, UpdateObservation(x)
        PROVE  pc[r] \in {"answer", "answered"} /\ observation[r] # None
    <3>1. Linked(seen[x]) /\ seen[x] # x
      BY <2>2 DEF UpdateObservation, SeenInv, Linked
    <3>2. observation[r] # None
      BY <2>2, <3>1, NoneAssumption DEF UpdateObservation, Linked
    <3>. QED
      BY <2>2, <3>1, <3>2 DEF UpdateObservation
  <2>3. ASSUME NEW x \in Requests, Receive(x) \/ Begin(x) \/ FindSource(x) \/ AddSource(x) \/ Reload(x)
        PROVE  pc[r] \in {"answer", "answered"} /\ observation[r] # None
    BY <2>3 DEF Receive, Begin, FindSource, AddSource, Reload, AddOrUpdate, rows
  <2>4. ASSUME NEW x \in Requests, Step(x), ~LinkObservation(x), ~UpdateObservation(x),
               ~(Receive(x) \/ Begin(x) \/ FindSource(x) \/ AddSource(x) \/ Reload(x))
        PROVE  pc[r] \in {"answer", "answered"} /\ observation[r] # None
    BY <2>4 DEF Step, AddObservation, LoadObservation, FindFile, AddFile, UpdateFile,
       Answer, Lose, rows
  <2>. QED
    BY <1>3, <2>1, <2>2, <2>3, <2>4, Steps
<1>. QED
  BY <1>1, <1>2, <1>3, ShownStep DEF AssociatedInv

\* What a request finds in its way was put there by one that it overlapped
\* (recommendation.py, response.py endpoint).
LEMMA RaceStep == IInv /\ [Next]_vars => RaceInv'
<1> SUFFICES ASSUME IInv, [Next]_vars, NEW r \in Requests,
                    \/ pc'[r] = "critical"
                    \/ pc'[r] = "add_source" /\ source'
                    \/ pc'[r] = "add_file" /\ file'[seen'[r]] # None
             PROVE  \E q \in Requests : Overlap(q, r)'
  BY DEF RaceInv, Overlap
<1> USE DEF IInv, TypeOK, Goto
<1>1. ASSUME NEW q \in Requests, Overlap(q, r) PROVE \E x \in Requests : Overlap(x, r)'
  BY <1>1, OverlapKept
<1>2. ASSUME NEW q \in Requests, q # r, pc[q] \in Running, pc[r] \in Running
      PROVE  \E x \in Requests : Overlap(x, r)'
  BY <1>1, <1>2, RunningOverlap DEF Running, Over
<1>3. SUFFICES ASSUME ~\E q \in Requests : Overlap(q, r)
               PROVE  \E q \in Requests : q # r /\ pc[q] \in Running /\ pc[r] \in Running
  BY <1>1, <1>2
<1>4. /\ pc[r] # "critical"
      /\ ~(pc[r] = "add_source" /\ source)
      /\ ~(pc[r] = "add_file" /\ file[seen[r]] # None)
  BY <1>3 DEF RaceInv
<1>5. CASE UNCHANGED vars
  BY <1>4, <1>5 DEF vars, rows
<1>6. ASSUME NEW q \in Requests, AddSource(q)
      PROVE  q # r /\ pc[q] \in Running /\ pc[r] \in Running
  BY <1>4, <1>6 DEF AddSource, Running
<1>7. ASSUME NEW q \in Requests, AddFile(q) \/ UpdateFile(q)
      PROVE  q # r /\ pc[q] \in Running /\ pc[r] \in Running
  BY <1>4, <1>7 DEF AddFile, UpdateFile, Running
<1>8. ASSUME NEW q \in Requests, Begin(q) \/ FindSource(q) \/ FindFile(q) \/ Reload(q) PROVE FALSE
  BY <1>4, <1>8 DEF Begin, FindSource, FindFile, Reload, AddOrUpdate, rows
<1>9. ASSUME NEW q \in Requests, Step(q),
             ~(Begin(q) \/ FindSource(q) \/ FindFile(q) \/ Reload(q)),
             ~(AddSource(q) \/ AddFile(q) \/ UpdateFile(q))
      PROVE  FALSE
  BY <1>4, <1>9 DEF Step, Receive, AddObservation, LinkObservation, LoadObservation,
     UpdateObservation, Answer, Lose, rows
<1>. QED
  BY <1>5, <1>6, <1>7, <1>8, <1>9, Steps

\* What a file goes with, and the file, are what they were or newer than the
\* upload (recommendation.py add_recommendation_observed_file).
LEMMA FileStep == IInv /\ [Next]_vars => FileInv'
<1> SUFFICES ASSUME IInv, [Next]_vars, NEW f \in Requests, kind'[f] = "file",
                    pc'[f] \in {"file", "add_file", "update_file", "answer", "answered"}
             PROVE  GoesWithShown(f)'
  BY DEF FileInv
<1> USE UploadAssumption DEF IInv, TypeOK, Goto, FileInv, GoesWithShown
<1>1. CASE UNCHANGED vars
  BY <1>1 DEF vars, rows
<1>2. /\ pc[f] \in Running \cup Over /\ kind[f] = "file"
      /\ before'[f] = before[f] /\ before[f] \subseteq Requests
  <2>1. pc[f] # "unsent"
    <3>1. ASSUME NEW r \in Requests, Receive(r), pc[f] = "unsent" PROVE FALSE
      BY <3>1 DEF Receive
    <3>2. ASSUME NEW r \in Requests, Step(r), ~Receive(r), pc[f] = "unsent" PROVE FALSE
      BY <3>2 DEF Step, Begin, FindSource, AddSource, Reload, AddObservation, LinkObservation,
         LoadObservation, UpdateObservation, FindFile, AddFile, UpdateFile, Answer, Lose, Running
    <3>. QED
      BY <3>1, <3>2, Steps DEF vars
  <2>. QED
    BY <2>1, Frame
\* No file that was over when f began is uploaded now.
<1>3. ASSUME NEW r \in Requests, AddFile(r) \/ UpdateFile(r)
      PROVE  GoesWithShown(f)'
  <2>1. r \notin before[f] /\ seen[r] \in Requests
    BY <1>3 DEF AddFile, UpdateFile, HistoryInv, Over, SeenInv, Linked
  <2>. QED
    BY <1>2, <1>3, <2>1 DEF AddFile, UpdateFile
<1>4. ASSUME NEW q \in Requests, LinkObservation(q)
      PROVE  GoesWithShown(f)'
  <2>1. q # f
    BY <1>2, <1>4, LinkOverlaps
  <2>. QED
    BY <1>4, <2>1, LinkOverlaps
<1>5. ASSUME NEW r \in Requests, Begin(r) \/ Reload(r)
      PROVE  GoesWithShown(f)'
  BY <1>2, <1>5 DEF Begin, Reload, AddOrUpdate, KindInv, rows
<1>6. ASSUME NEW r \in Requests, Receive(r) \/ FindSource(r) \/ FindFile(r)
      PROVE  GoesWithShown(f)'
  BY <1>2, <1>6 DEF Receive, FindSource, FindFile, AddOrUpdate, rows, Running, Over
<1>7. ASSUME NEW r \in Requests,
             \/ AddSource(r) \/ AddObservation(r) \/ LoadObservation(r)
             \/ UpdateObservation(r) \/ Answer(r) \/ Lose(r)
      PROVE  GoesWithShown(f)'
  BY <1>2, <1>7 DEF AddSource, AddObservation, LoadObservation, UpdateObservation, Answer, Lose,
     rows, KindInv
<1>. QED
  BY <1>1, <1>3, <1>4, <1>5, <1>6, <1>7, Steps DEF Step

\* What a step leaves as it was still shows what it did
\* (recommendation.py add_recommendation_observed).
LEMMA ShowsKept ==
  ASSUME IInv, [Next]_vars, NEW from \in [Columns -> Uploads], Shows(from), shown # None,
         ~\E q \in Requests : LinkObservation(q),
         ~\E q \in Requests : UpdateObservation(q) /\ seen[q] = shown
  PROVE  from \in [Columns -> Uploads'] /\ Shows(from)'
<1> USE DEF IInv, TypeOK, Goto
<1>1. from \in [Columns -> Uploads'] /\ from \in [Columns -> Requests]
  BY Frame DEF Uploads
<1>2. shown' = shown /\ observation'[shown] = observation[shown] /\ shown \in Requests
  <2>1. shown' = shown /\ Linked(shown)
    BY ShownStep DEF SeenInv
  <2>2. ASSUME NEW x \in Requests, AddObservation(x) PROVE observation'[shown] = observation[shown]
    BY <2>1, <2>2 DEF AddObservation, Linked, Over
  <2>3. ASSUME NEW x \in Requests, UpdateObservation(x)
        PROVE  observation'[shown] = observation[shown]
    BY <2>1, <2>3 DEF UpdateObservation, Linked
  <2>4. ASSUME NEW x \in Requests, Step(x), ~AddObservation(x), ~UpdateObservation(x)
        PROVE  observation' = observation
    BY <2>4 DEF Step, Receive, Begin, FindSource, AddSource, Reload, LinkObservation,
       LoadObservation, FindFile, AddFile, UpdateFile, Answer, Lose, rows
  <2>. QED
    BY <2>1, <2>2, <2>3, <2>4, Steps DEF Linked, vars, rows
<1>3. ASSUME NEW c \in Columns
      PROVE  data'[from[c]][c] = observation'[shown'][c]
  BY <1>1, <1>2, <1>3, Frame DEF Shows, Uploads
<1>4. ASSUME NEW c \in Columns, NEW d \in Columns
      PROVE  from[c] = from[d] \/ Overlap(from[c], from[d])'
  BY <1>1, <1>4, OverlapKept DEF Shows
<1>5. ASSUME NEW c \in Columns, NEW v \in Requests
      PROVE  Outlives(from[c], c, v)'
  <2>1. PICK u \in Requests : u = from[c]
    BY <1>1, <1>5
  <2>2. Outlives(u, c, v)
    BY <1>5, <2>1 DEF Shows
  <2> USE DEF Outlives
  <2>3. CASE UNCHANGED vars
    BY <1>2, <2>1, <2>2, <2>3 DEF vars, rows
  <2>4. ASSUME NEW x \in Requests, Receive(x) PROVE Outlives(u, c, v)'
    BY <1>2, <2>2, <2>4 DEF Receive, rows
  <2>5. ASSUME NEW x \in Requests, Begin(x) PROVE Outlives(u, c, v)'
    BY <1>2, <2>2, <2>5 DEF Begin, rows
  <2>6. ASSUME NEW x \in Requests, FindSource(x) PROVE Outlives(u, c, v)'
    BY <1>2, <2>2, <2>6 DEF FindSource, AddOrUpdate, rows
  <2>7. ASSUME NEW x \in Requests, Reload(x) PROVE Outlives(u, c, v)'
    BY <1>2, <2>2, <2>7 DEF Reload, AddOrUpdate, rows
  <2>8. ASSUME NEW x \in Requests, AddSource(x) \/ AddObservation(x) PROVE Outlives(u, c, v)'
    BY <1>2, <2>2, <2>8 DEF AddSource, AddObservation
  <2>9. ASSUME NEW x \in Requests, LoadObservation(x) PROVE Outlives(u, c, v)'
    BY <1>2, <2>2, <2>9 DEF LoadObservation, SeenInv, rows
  <2>10. ASSUME NEW x \in Requests, UpdateObservation(x) PROVE Outlives(u, c, v)'
    BY <1>2, <2>2, <2>10 DEF UpdateObservation
  <2>11. ASSUME NEW x \in Requests, FindFile(x) \/ AddFile(x) \/ UpdateFile(x)
         PROVE  Outlives(u, c, v)'
    BY <1>2, <2>2, <2>11 DEF FindFile, AddFile, UpdateFile, rows, KindInv
  <2>12. ASSUME NEW x \in Requests, Answer(x) \/ Lose(x) PROVE Outlives(u, c, v)'
    BY <1>2, <2>2, <2>12 DEF Answer, Lose, rows
  <2>. QED
    BY <2>1, <2>3, <2>4, <2>5, <2>6, <2>7, <2>8, <2>9, <2>10, <2>11, <2>12, Steps DEF Step
<1>. QED
  BY <1>1, <1>3, <1>4, <1>5 DEF Shows

\* A row that comes to be shown is as its request posted it
\* (recommendation.py add_recommendation_observed).
LEMMA LinkShows ==
  ASSUME IInv, [Next]_vars, NEW q \in Requests, LinkObservation(q)
  PROVE  \E from \in [Columns -> Uploads'] : Shows(from)'
<1> DEFINE from == [c \in Columns |-> q]
<1>1. q \in Uploads'
  BY LinkOverlaps DEF Uploads, IInv, TypeOK
<1>2. \A c \in Columns : data'[from[c]][c] = observation'[shown'][c]
  BY LinkOverlaps
<1>3. ASSUME NEW c \in Columns, NEW v \in Requests PROVE Outlives(from[c], c, v)'
  <2>1. from[c] = q /\ q \notin before'[v]
    BY LinkOverlaps
  <2>. QED
    BY <2>1 DEF Outlives
<1>4. \A c \in Columns, d \in Columns : from[c] = from[d]
  OBVIOUS
<1>5. from \in [Columns -> Uploads']
  BY <1>1
<1>6. Shows(from)'
  BY <1>2, <1>3, <1>4 DEF Shows
<1>. QED
  BY <1>5, <1>6

\* What an update of the row shown leaves as it is was posted by an upload
\* that overlapped it (database/model.py update).
LEMMA UpdateShows ==
  ASSUME IInv, [Next]_vars, NEW old \in [Columns -> Uploads], Shows(old), shown # None,
         NEW x \in Requests, UpdateObservation(x), seen[x] = shown
  PROVE  \E from \in [Columns -> Uploads'] : Shows(from)'
<1> USE DEF IInv, TypeOK, Goto
<1> DEFINE wrote(c) == observation'[shown][c] = data[x][c]
<1>1. /\ pc[x] = "update" /\ pc'[x] = "answer" /\ kind[x] = "observed"
      /\ shown \in Requests /\ observation[shown] \in Data
      /\ \A r \in Requests : r # x => pc'[r] = pc[r]
      /\ UNCHANGED <<shown, kind, data, seen, base, before>>
  BY DEF UpdateObservation, KindInv, SeenInv, Linked
<1>2. old \in [Columns -> Requests] /\ old \in [Columns -> Uploads'] /\ x \in Uploads'
  BY <1>1, Frame DEF Uploads
<1>3. PICK from \in [Columns -> Uploads'] :
        \A c \in Columns : from[c] = IF wrote(c) THEN x ELSE old[c]
  <2>1. [c \in Columns |-> IF wrote(c) THEN x ELSE old[c]] \in [Columns -> Uploads']
    BY <1>2
  <2>. QED
    BY <2>1
<1>4. \A v \in Requests : x \notin before[v]
  BY <1>1 DEF HistoryInv, Over
\* A column that shows something else was not written, as it has changed
\* since x loaded it.
<1>5. ASSUME NEW c \in Columns, ~wrote(c)
      PROVE  /\ observation'[shown][c] = observation[shown][c]
             /\ old[c] \notin before[x]
  <2>1. observation'[shown][c] = IF data[x][c] = base[x][c] THEN observation[shown][c] ELSE data[x][c]
    BY <1>1, <1>5 DEF UpdateObservation
  <2>2. observation'[shown][c] = observation[shown][c] /\ observation[shown][c] # base[x][c]
    BY <1>5, <2>1
  <2>3. Outlives(old[c], c, x)
    BY <1>5 DEF Shows
  <2>. QED
    BY <1>1, <2>2, <2>3 DEF Outlives
<1>6. ASSUME NEW c \in Columns PROVE data'[from[c]][c] = observation'[shown'][c]
  <2>1. CASE wrote(c)
    BY <1>1, <1>3, <2>1
  <2>2. CASE ~wrote(c)
    BY <1>1, <1>3, <1>5, <2>2 DEF Shows
  <2>. QED
    BY <2>1, <2>2
<1>7. ASSUME NEW c \in Columns, NEW v \in Requests PROVE Outlives(from[c], c, v)'
  <2>1. CASE wrote(c)
    BY <1>1, <1>3, <1>4, <2>1 DEF Outlives
  <2>2. CASE ~wrote(c)
    <3>1. Outlives(old[c], c, v) /\ from[c] = old[c]
      BY <1>3, <1>7, <2>2 DEF Shows
    <3>2. CASE v = x
      BY <1>1, <1>5, <2>2, <3>1, <3>2 DEF Outlives
    <3>3. CASE v # x
      BY <1>1, <1>5, <2>2, <3>1, <3>3 DEF Outlives
    <3>. QED
      BY <3>2, <3>3
  <2>. QED
    BY <2>1, <2>2
<1>8. ASSUME NEW c \in Columns, NEW d \in Columns
      PROVE  from[c] = from[d] \/ Overlap(from[c], from[d])'
  <2>1. ASSUME NEW e \in Columns, ~wrote(e)
        PROVE  old[e] = x \/ (Overlap(old[e], x)' /\ Overlap(x, old[e])')
    <3>1. PICK u \in Requests : u = old[e] /\ pc[u] # "unsent"
      BY <2>1, Frame DEF Uploads
    <3>2. u = x \/ Overlap(u, x)
      BY <1>1, <1>4, <1>5, <2>1, <3>1 DEF Overlap
    <3>3. u = x \/ Overlap(u, x)'
      BY <3>2, OverlapKept
    <3>. QED
      BY <3>1, <3>3 DEF Overlap
  <2>2. old[c] = old[d] \/ Overlap(old[c], old[d])'
    BY <1>2, <1>8, OverlapKept DEF Shows
  <2>. QED
    BY <1>3, <2>1, <2>2
<1>9. Shows(from)'
  BY <1>6, <1>7, <1>8 DEF Shows
<1>. QED
  BY <1>3, <1>9

\* Every step keeps what is shown an upload's (recommendation.py).
LEMMA ShownInvStep == IInv /\ [Next]_vars => ShownInv'
<1> SUFFICES ASSUME IInv, [Next]_vars, shown' # None
             PROVE  \E from \in [Columns -> Uploads'] : Shows(from)'
  BY DEF ShownInv
<1>1. CASE \E q \in Requests : LinkObservation(q)
  BY <1>1, LinkShows
<1>2. CASE ~\E q \in Requests : LinkObservation(q)
  <2>1. shown # None
    BY <1>2, ShownStep
  <2>2. PICK from \in [Columns -> Uploads] : Shows(from)
    BY <2>1 DEF IInv, ShownInv
  <2>. QED
    BY <1>2, <2>1, <2>2, ShowsKept, UpdateShows
<1>. QED
  BY <1>1, <1>2
------------------------------------------------------------------------------
(***************************************************************************)
(* The inductive invariant, and what follows from it.                      *)
(***************************************************************************)
\* All of this holds while nothing was uploaded (recommendation.py), and every
\* step keeps it.
LEMMA Inductive == Spec => []IInv
<1>1. Init => IInv
  <2> SUFFICES ASSUME Init PROVE IInv
    OBVIOUS
  <2> USE UploadAssumption DEF Init
  <2>1. TypeOK
    BY DEF TypeOK
  <2>2. HistoryInv /\ KindInv /\ AddedInv /\ SeenInv
    BY DEF HistoryInv, KindInv, AddedInv, SeenInv
  <2>3. NoneInv /\ AssociatedInv /\ RaceInv /\ FileInv /\ ShownInv
    BY DEF NoneInv, SawNone, AssociatedInv, RaceInv, FileInv, ShownInv
  <2>. QED
    BY <2>1, <2>2, <2>3 DEF IInv
<1>2. IInv /\ [Next]_vars => IInv'
  BY TypeStep, HistoryStep, KindStep, AddedStep, SeenStep, NoneStep, AssociatedStep, RaceStep,
     FileStep, ShownInvStep DEF IInv
<1>. QED
  BY <1>1, <1>2, PTL DEF Spec

\* A request fails on a uniqueness constraint only when it has lost a race, and
\* the tables and requests are well formed (recommendation.py, response.py).
THEOREM Uploaded == Spec => []UploadInv
<1>1. IInv => UploadInv
  BY DEF IInv, RaceInv, UploadInv, CriticalRaced
<1>. QED
  BY <1>1, Inductive, PTL

\* The recommendation shows what an upload posted that no later upload has
\* replaced, column by column (recommendation.py add_recommendation_observed).
THEOREM Latest == Spec => []LatestShown
<1>1. IInv => LatestShown
  <2> SUFFICES ASSUME IInv, shown # None PROVE LatestShown
    BY DEF LatestShown
  <2>1. PICK from \in [Columns -> Uploads] : Shows(from)
    BY DEF IInv, ShownInv
  <2>2. ASSUME NEW c \in Columns PROVE Current(from[c])
    BY <2>1, <2>2 DEF Current, Uploads, Answered, Shows, Outlives
  <2>. QED
    BY <2>1, <2>2 DEF LatestShown, Shows
<1>. QED
  BY <1>1, Inductive, PTL

\* An upload that was answered is associated with the recommendation, or has
\* lost a race (recommendation.py add_recommendation_observed).
THEOREM Associated == Spec => []AssociatedOrRaced
<1>1. IInv => AssociatedOrRaced
  BY DEF IInv, AssociatedInv, AssociatedOrRaced, Answered
<1>. QED
  BY <1>1, Inductive, PTL

\* A file that was answered stays with what is shown, unless it was replaced or
\* its observation has lost a race (recommendation.py
\* add_recommendation_observed_file).
THEOREM FileStays == Spec => []FileKept
<1>1. IInv => FileKept
  <2> SUFFICES ASSUME IInv, NEW f \in Requests, pc[f] = "answered", kind[f] = "file"
               PROVE  \/ shown = seen[f] /\ file[shown] # None /\ file[shown] \notin before[f]
                      \/ Overlap(shown, seen[f]) /\ shown \notin before[f]
    BY DEF FileKept, Answered
  <2>1. GoesWithShown(f)
    BY DEF IInv, FileInv
  <2>. QED
    BY <2>1 DEF IInv, SeenInv, GoesWithShown
<1>. QED
  BY <1>1, Inductive, PTL
==============================================================================
