--------------------------- MODULE TNSService_proofs ---------------------------
(***************************************************************************)
(* Theorems about TNSService, for any number of threads and any source     *)
(* without empty lines.                                                    *)
(***************************************************************************)
EXTENDS TNSService, FiniteSetTheorems, SequenceTheorems, TLAPS

\* There is a whole number of threads (service.py __init__).
LEMMA ThreadsNat == Threads \in Nat
BY FS_CardinalityType, WorkersAssumption DEF Threads

\* A place in a longer queue (service.py run) that is not the last one.
LEMMA NotLast ==
  ASSUME NEW n \in Nat, NEW j \in 1..(n + 1), j # n + 1
  PROVE  j \in 1..n
OBVIOUS

\* What put() does to the names in the queue.
LEMMA PutNames ==
  ASSUME NEW S, NEW s \in Seq(S), NEW e \in S
  PROVE  /\ Append(s, e) \in Seq(S)
         /\ Len(Append(s, e)) = Len(s) + 1
         /\ \A i \in 1..Len(s) : Append(s, e)[i] = s[i]
         /\ Append(s, e)[Len(s) + 1] = e
         /\ {Append(s, e)[i] : i \in 1..Len(Append(s, e))} = {s[i] : i \in 1..Len(s)} \cup {e}
<1>1. /\ Append(s, e) \in Seq(S)
      /\ Len(Append(s, e)) = Len(s) + 1
      /\ \A i \in 1..Len(s) : Append(s, e)[i] = s[i]
      /\ Append(s, e)[Len(s) + 1] = e
  BY AppendProperties
<1>2. Len(s) \in Nat
  OBVIOUS
<1>3. 1..(Len(s) + 1) = (1..Len(s)) \cup {Len(s) + 1}
  BY <1>2
<1>4. {Append(s, e)[i] : i \in 1..Len(Append(s, e))} = {s[i] : i \in 1..Len(s)} \cup {e}
  BY <1>1, <1>3, Zenon
<1>. QED
  BY <1>1, <1>4

\* What get() does to the names in the queue.
LEMMA GetNames ==
  ASSUME NEW S, NEW s \in Seq(S), s # <<>>
  PROVE  /\ Tail(s) \in Seq(S) /\ Head(s) \in S
         /\ Len(s) >= 1 /\ Len(Tail(s)) = Len(s) - 1
         /\ Head(s) = s[1]
         /\ \A i \in 1..Len(Tail(s)) : i + 1 \in 1..Len(s) /\ Tail(s)[i] = s[i + 1]
<1>1. Len(s) \in Nat /\ Len(s) >= 1
  BY EmptySeq
<1>2. /\ Tail(s) \in Seq(S) /\ Head(s) \in S
      /\ Len(Tail(s)) = Len(s) - 1
      /\ Head(s) = s[1]
      /\ \A i \in 1..Len(Tail(s)) : Tail(s)[i] = s[i + 1]
  BY HeadTailProperties
<1>. QED
  BY <1>1, <1>2

(***************************************************************************)
(* Every variable keeps its type; a busy thread has a name of the source.  *)
(***************************************************************************)
\* The inductive invariant of the service (service.py).
IInv == blank = {} /\ TypeOK /\ ServiceInv

\* A step of the service (service.py run, update_object) keeps every type.
LEMMA TypeStep == IInv /\ [Next]_vars => TypeOK'
<1> SUFFICES ASSUME IInv, [Next]_vars PROVE TypeOK'
  OBVIOUS
<1> USE NamesAssumption, ThreadsNat DEF IInv, TypeOK, Names
<1>1. 0 \in 0..MaxNames /\ length \in Nat /\ next \in Nat
  OBVIOUS
<1>2. CASE Feed
  <2>1. next \in 0..MaxNames /\ next + 1 \in 1..(length + 1)
    BY <1>2 DEF Feed
  <2>2. queue' = Append(queue, next)
    BY <1>2 DEF Feed
  <2>3. queue' \in Seq(0..MaxNames)
    BY <2>1, <2>2, PutNames
  <2>. QED
    BY <1>2, <2>1, <2>3 DEF Feed
<1>3. CASE FeedStop
  <2>1. queue' \in Seq(0..MaxNames)
    BY <1>1, <1>3, PutNames DEF FeedStop, STOP_ITER
  <2>. QED
    BY <1>3, <2>1 DEF FeedStop
<1>4. CASE Join
  BY <1>4 DEF Join
<1>5. ASSUME NEW w \in Workers, Get(w) PROVE TypeOK'
  <2>1. queue' \in Seq(0..MaxNames) /\ Head(queue) \in 0..MaxNames
    BY <1>5, GetNames DEF Get
  <2>. QED
    BY <1>5, <2>1 DEF Get
<1>6. ASSUME NEW w \in Workers, Update(w) PROVE TypeOK'
  <2>1. current[w] \in Fed
    BY <1>6 DEF Update, ServiceInv, Accounted
  <2>2. current[w] \in Names
    BY <1>1, <2>1 DEF Fed
  <2>. QED
    BY <1>6, <2>2 DEF Update
<1>7. CASE Finished \/ UNCHANGED vars
  BY <1>7 DEF Finished, vars
<1>. QED
  BY <1>2, <1>3, <1>4, <1>5, <1>6, <1>7 DEF Next

(***************************************************************************)
(* The names in the queue and the sentinels behind them.                   *)
(***************************************************************************)
\* Putting one more name, or one more sentinel, keeps the queue in order
\* (service.py run).
LEMMA QueuePut ==
  ASSUME IInv, Feed \/ FeedStop
  PROVE  QueueInv'
<1> USE NamesAssumption, ThreadsNat DEF IInv, TypeOK
<1> DEFINE e == IF Feed THEN next ELSE STOP_ITER
<1>1. QueueInv
  BY DEF ServiceInv
<1>2. length \in Nat /\ next \in Nat /\ Len(queue) \in Nat /\ stops \in Nat
  OBVIOUS
<1>3. e \in 0..MaxNames
  BY <1>2 DEF Feed, STOP_ITER
<1>4. queue' = Append(queue, e) /\ Len(queue) < Threads
  BY DEF Feed, FeedStop, e
<1>5. /\ Len(queue') = Len(queue) + 1
      /\ \A i \in 1..Len(queue) : queue'[i] = queue[i]
      /\ queue'[Len(queue) + 1] = e
      /\ InQueue' = InQueue \cup {e}
  <2>. HIDE DEF e
  <2>. QED
    BY <1>3, <1>4, PutNames DEF InQueue
<1>6. CASE Feed
  <2>0. next > 0
    OBVIOUS
  <2>1. e = next /\ next' = next + 1 /\ stops' = stops /\ main' = main
        /\ main = "feeding" /\ length' = length /\ next <= length
    BY <1>6 DEF Feed
  <2>2. stops = 0
    BY <1>1, <1>2, <2>1 DEF QueueInv
  <2>3. Fed' = Fed \cup {next}
    BY <1>2, <2>1 DEF Fed, TypeOK
  <2>4. InQueue' \subseteq Fed' \cup {STOP_ITER}
    BY <1>1, <1>5, <2>1, <2>3 DEF QueueInv
  <2>5. next \notin InQueue
    BY <1>1, <1>2, <2>0 DEF QueueInv, Fed, STOP_ITER
  <2>6. \A i, j \in 1..Len(queue') : i < j /\ queue'[i] = queue'[j] => queue'[i] = STOP_ITER
    <3> SUFFICES ASSUME NEW i \in 1..Len(queue'), NEW j \in 1..Len(queue'),
                        i < j, queue'[i] = queue'[j]
                 PROVE  queue'[i] = STOP_ITER
      OBVIOUS
    <3>1. i \in 1..Len(queue) /\ queue[i] \in InQueue /\ queue'[i] = queue[i]
      BY <1>2, <1>5 DEF InQueue
    <3>2. j \in 1..Len(queue)
      <4>1. j # Len(queue) + 1
        BY <1>5, <2>1, <2>5, <3>1
      <4>2. j \in 1..(Len(queue) + 1)
        BY <1>5
      <4>. QED
        BY <1>2, <4>1, <4>2, NotLast
    <3>3. queue'[j] = queue[j]
      BY <1>5, <3>2
    <3>. QED
      BY <1>1, <3>1, <3>2, <3>3 DEF QueueInv
  <2>. QED
    BY <1>1, <1>2, <1>4, <1>5, <2>1, <2>2, <2>4, <2>6 DEF QueueInv
<1>7. CASE FeedStop
  <2>1. e = STOP_ITER /\ next' = next /\ stops' = stops + 1 /\ next = length + 1
        /\ length' = length /\ main' = (IF stops' = Threads THEN "joining" ELSE main)
        /\ main = "feeding"
    BY <1>2, <1>7 DEF FeedStop, Feed
  <2>2. Fed' = Fed
    BY <2>1 DEF Fed
  <2>3. \A i, j \in 1..Len(queue') : i < j /\ queue'[i] = queue'[j] => queue'[i] = STOP_ITER
    <3> SUFFICES ASSUME NEW i \in 1..Len(queue'), NEW j \in 1..Len(queue'),
                        i < j, queue'[i] = queue'[j]
                 PROVE  queue'[i] = STOP_ITER
      OBVIOUS
    <3>0. i \in 1..(Len(queue) + 1) /\ j \in 1..(Len(queue) + 1)
      BY <1>5
    <3>1. i \in 1..Len(queue) /\ queue'[i] = queue[i]
      BY <1>2, <1>5
    <3>2. CASE j = Len(queue) + 1
      BY <1>5, <2>1, <3>2
    <3>3. CASE j # Len(queue) + 1
      <4>1. j \in 1..Len(queue)
        BY <1>2, <3>0, <3>3
      <4>2. queue'[j] = queue[j]
        BY <1>5, <4>1
      <4>. QED
        BY <1>1, <3>1, <4>1, <4>2 DEF QueueInv
    <3>. QED
      BY <3>2, <3>3
  <2>4. \A i \in 1..Len(queue') : queue'[i] # STOP_ITER => i + stops' <= Len(queue')
    <3> SUFFICES ASSUME NEW i \in 1..Len(queue'), queue'[i] # STOP_ITER
                 PROVE  i + stops' <= Len(queue')
      OBVIOUS
    <3>1. i # Len(queue) + 1
      BY <1>5, <2>1
    <3>2. i \in 1..Len(queue) /\ queue'[i] = queue[i]
      BY <1>2, <1>5, <3>1
    <3>3. i + stops <= Len(queue)
      BY <1>1, <3>2 DEF QueueInv
    <3>. QED
      BY <1>2, <1>5, <2>1, <3>3
  <2>. QED
    BY <1>1, <1>2, <1>4, <1>5, <2>1, <2>2, <2>3, <2>4 DEF QueueInv
<1>. QED
  BY <1>6, <1>7

\* Taking the first of the queue keeps the others in order (service.py
\* from_queue).
LEMMA QueueGet ==
  ASSUME IInv, NEW w \in Workers, Get(w)
  PROVE  QueueInv' /\ InQueue = InQueue' \cup {Head(queue)}
         /\ (Head(queue) # STOP_ITER => Head(queue) \notin InQueue')
<1> USE NamesAssumption, ThreadsNat DEF IInv, TypeOK
<1>1. QueueInv
  BY DEF ServiceInv
<1>2. Len(queue) \in Nat /\ stops \in Nat
  OBVIOUS
<1>3. queue # <<>> /\ queue' = Tail(queue)
  BY DEF Get
<1>4. /\ Len(queue) >= 1 /\ Len(queue') = Len(queue) - 1
      /\ Head(queue) = queue[1]
      /\ \A i \in 1..Len(queue') : i + 1 \in 1..Len(queue) /\ queue'[i] = queue[i + 1]
  BY <1>3, GetNames
<1>5. InQueue = InQueue' \cup {Head(queue)}
  <2>1. ASSUME NEW i \in 1..Len(queue) PROVE queue[i] \in InQueue' \cup {Head(queue)}
    <3>1. CASE i = 1
      BY <1>4, <3>1
    <3>2. CASE i # 1
      <4>1. i - 1 \in 1..Len(queue') /\ i = (i - 1) + 1
        BY <1>2, <1>4, <3>2
      <4>. QED
        BY <1>4, <4>1 DEF InQueue
    <3>. QED
      BY <3>1, <3>2
  <2>2. InQueue' \subseteq InQueue
    <3>1. \A i \in 1..Len(queue') : queue'[i] \in InQueue
      BY <1>4 DEF InQueue
    <3>. QED
      BY <3>1 DEF InQueue
  <2>3. 1 \in 1..Len(queue)
    BY <1>2, <1>4
  <2>4. Head(queue) \in InQueue
    BY <1>4, <2>3 DEF InQueue
  <2>5. InQueue \subseteq InQueue' \cup {Head(queue)}
    BY <2>1 DEF InQueue
  <2>. QED
    BY <2>2, <2>4, <2>5
<1>6. \A i, j \in 1..Len(queue') : i < j /\ queue'[i] = queue'[j] => queue'[i] = STOP_ITER
  <2> SUFFICES ASSUME NEW i \in 1..Len(queue'), NEW j \in 1..Len(queue'),
                      i < j, queue'[i] = queue'[j]
               PROVE  queue'[i] = STOP_ITER
    OBVIOUS
  <2>1. queue[i + 1] = queue[j + 1] /\ i + 1 \in 1..Len(queue) /\ j + 1 \in 1..Len(queue)
    BY <1>4
  <2>2. i + 1 < j + 1
    BY <1>2, <1>4
  <2>. QED
    BY <1>1, <1>4, <2>1, <2>2 DEF QueueInv
<1>7. \A i \in 1..Len(queue') : queue'[i] # STOP_ITER => i + stops <= Len(queue')
  <2> SUFFICES ASSUME NEW i \in 1..Len(queue'), queue'[i] # STOP_ITER
               PROVE  i + stops <= Len(queue')
    OBVIOUS
  <2>1. i + 1 \in 1..Len(queue) /\ queue[i + 1] # STOP_ITER
    BY <1>4
  <2>2. i + 1 + stops <= Len(queue)
    BY <1>1, <2>1 DEF QueueInv
  <2>. QED
    BY <1>2, <1>4, <2>2
<1>8. ASSUME Head(queue) # STOP_ITER PROVE Head(queue) \notin InQueue'
  <2>1. \A i \in 1..Len(queue') : 1 \in 1..Len(queue) /\ 1 < i + 1
    BY <1>2, <1>4
  <2>2. \A i \in 1..Len(queue') : queue'[i] # Head(queue)
    BY <1>1, <1>4, <1>8, <2>1 DEF QueueInv
  <2>. QED
    BY <2>2 DEF InQueue
<1>9. UNCHANGED <<length, next, stops, main>>
  BY DEF Get
<1>10. Fed' = Fed
  BY <1>9 DEF Fed
<1>. QED
  BY <1>1, <1>2, <1>4, <1>5, <1>6, <1>7, <1>8, <1>9, <1>10 DEF QueueInv

\* Every step (service.py run, from_queue, update_object) keeps the queue in
\* order.
LEMMA QueueStep == IInv /\ [Next]_vars => QueueInv'
<1> SUFFICES ASSUME IInv, [Next]_vars PROVE QueueInv'
  OBVIOUS
<1> USE DEF IInv, ServiceInv, QueueInv, InQueue, Fed
<1>1. CASE Join
  BY <1>1 DEF Join
<1>2. ASSUME NEW w \in Workers, Update(w) PROVE QueueInv'
  BY <1>2 DEF Update
<1>3. CASE Finished \/ UNCHANGED vars
  BY <1>3 DEF Finished, vars
<1>. QED
  BY <1>1, <1>2, <1>3, QueuePut, QueueGet DEF Next

(***************************************************************************)
(* Where each name is.                                                     *)
(***************************************************************************)
\* A step keeps the account of the names that were fed, and each with one
\* thread (service.py run, from_queue, update_object).
LEMMA AccountStep ==
  IInv /\ [Next]_vars => Accounted' /\ OneWorkerPerName'
<1> SUFFICES ASSUME IInv, [Next]_vars
             PROVE  Accounted' /\ OneWorkerPerName'
  OBVIOUS
<1>1. TypeOK /\ QueueInv /\ Accounted /\ OneWorkerPerName
  BY DEF IInv, ServiceInv
<1>2. CASE Feed
  <2>1. next \in Nat /\ next > 0 /\ next \in 0..MaxNames /\ queue \in Seq(0..MaxNames)
    BY <1>1, <1>2, NamesAssumption DEF TypeOK, Feed
  <2>2. queue' = Append(queue, next)
    BY <1>2 DEF Feed, IInv
  <2>3. InQueue' = InQueue \cup {next}
    BY <2>1, <2>2, PutNames DEF InQueue
  <2>4. next' = next + 1 /\ UNCHANGED <<worker, current, handled>>
    BY <1>2 DEF Feed
  <2>5. Fed' = Fed \cup {next} /\ next \notin Fed
    BY <2>1, <2>4 DEF Fed
  <2>6. Accounted'
    BY <1>1, <2>3, <2>4, <2>5 DEF Accounted
  <2>7. OneWorkerPerName'
    BY <1>1, <2>3, <2>4, <2>5 DEF Accounted, OneWorkerPerName
  <2>. QED
    BY <2>6, <2>7
<1>3. CASE FeedStop
  <2>1. STOP_ITER \in 0..MaxNames /\ queue \in Seq(0..MaxNames)
    BY <1>1, NamesAssumption DEF TypeOK, STOP_ITER
  <2>2. queue' = Append(queue, STOP_ITER)
    BY <1>3 DEF FeedStop
  <2>3. InQueue' = InQueue \cup {STOP_ITER}
    BY <2>1, <2>2, PutNames DEF InQueue
  <2>4. next' = next /\ UNCHANGED <<worker, current, handled>>
    BY <1>3 DEF FeedStop
  <2>5. Fed' = Fed /\ STOP_ITER \notin Fed
    BY <2>4 DEF Fed, STOP_ITER
  <2>6. Accounted'
    BY <1>1, <2>3, <2>4, <2>5 DEF Accounted
  <2>7. OneWorkerPerName'
    BY <1>1, <2>3, <2>4, <2>5 DEF Accounted, OneWorkerPerName
  <2>. QED
    BY <2>6, <2>7
<1>4. CASE Join
  BY <1>1, <1>4 DEF Join, Accounted, OneWorkerPerName, Fed, InQueue
<1>5. ASSUME NEW w \in Workers, Get(w) PROVE Accounted' /\ OneWorkerPerName'
  <2>1. /\ InQueue = InQueue' \cup {Head(queue)}
        /\ Head(queue) # STOP_ITER => Head(queue) \notin InQueue'
    BY <1>5, QueueGet
  <2>2. handled' = handled /\ next' = next /\ worker[w] = "waiting"
    BY <1>5 DEF Get
  <2>3. Fed' = Fed /\ STOP_ITER \notin Fed
    BY <2>2 DEF Fed, STOP_ITER
  <2>4. CASE Head(queue) = STOP_ITER
    <3>1. worker' = [worker EXCEPT ![w] = "stopped"] /\ current' = current
      BY <1>5, <2>4 DEF Get
    <3>. QED
      BY <1>1, <2>1, <2>2, <2>3, <2>4, <3>1 DEF TypeOK, Accounted, OneWorkerPerName
  <2>5. CASE Head(queue) # STOP_ITER
    <3>1. /\ worker' = [worker EXCEPT ![w] = "busy"]
          /\ current' = [current EXCEPT ![w] = Head(queue)]
      BY <1>5, <2>5 DEF Get
    <3>2. /\ Head(queue) \in Fed /\ Head(queue) \notin handled
          /\ worker'[w] = "busy" /\ current'[w] = Head(queue)
          /\ \A v \in Workers \ {w} : worker'[v] = worker[v] /\ current'[v] = current[v]
      BY <1>1, <2>1, <2>5, <3>1 DEF TypeOK, QueueInv, Accounted
    <3>3. Accounted'
      <4>1. ASSUME NEW n \in Fed
            PROVE  \/ n \in handled \cup InQueue'
                   \/ \E v \in Workers :
                        worker'[v] \in {"busy", "raised"} /\ current'[v] = n
        <5>1. CASE n = Head(queue)
          BY <3>2, <5>1
        <5>2. CASE n \in handled \cup InQueue /\ n # Head(queue)
          BY <2>1, <5>2
        <5>3. ASSUME NEW v \in Workers, worker[v] \in {"busy", "raised"}, current[v] = n
              PROVE  worker'[v] \in {"busy", "raised"} /\ current'[v] = n
          BY <2>2, <3>2, <5>3
        <5>. QED
          BY <1>1, <5>1, <5>2, <5>3 DEF Accounted
      <4>. QED
        BY <1>1, <2>1, <2>2, <2>3, <3>2, <4>1 DEF Accounted
    <3>4. OneWorkerPerName'
      <4>1. \A v \in Workers \ {w} : worker[v] = "busy" => current[v] # Head(queue)
        BY <1>1, <2>1 DEF OneWorkerPerName
      <4>. QED
        BY <1>1, <2>1, <2>2, <2>5, <3>2, <4>1 DEF OneWorkerPerName
    <3>. QED
      BY <3>3, <3>4
  <2>. QED
    BY <2>4, <2>5
<1>6. ASSUME NEW w \in Workers, Update(w) PROVE Accounted' /\ OneWorkerPerName'
  <2>1. /\ worker[w] = "busy" /\ UNCHANGED <<next, queue, current>>
        /\ \A v \in Workers \ {w} : worker'[v] = worker[v]
    BY <1>1, <1>6 DEF TypeOK, Update
  <2>2. Fed' = Fed /\ InQueue' = InQueue
    BY <2>1 DEF Fed, InQueue
  <2>3. current[w] \in Fed /\ current[w] \notin handled \cup InQueue
    BY <1>1, <2>1 DEF Accounted, OneWorkerPerName
  <2>4. CASE worker'[w] = "waiting" /\ handled' = handled \cup {current[w]}
    <3>1. Accounted'
      BY <1>1, <2>1, <2>2, <2>3, <2>4 DEF Accounted
    <3>2. OneWorkerPerName'
      BY <1>1, <2>1, <2>2, <2>4 DEF OneWorkerPerName
    <3>. QED
      BY <3>1, <3>2
  <2>5. CASE worker'[w] = "raised" /\ handled' = handled
    <3>1. Accounted'
      BY <1>1, <2>1, <2>2, <2>5 DEF Accounted
    <3>2. OneWorkerPerName'
      BY <1>1, <2>1, <2>2, <2>5 DEF OneWorkerPerName
    <3>. QED
      BY <3>1, <3>2
  <2>. QED
    <3>1. worker \in [Workers -> {"waiting", "busy", "stopped", "raised"}]
      BY <1>1 DEF TypeOK
    <3>2. \/ worker'[w] = "waiting" /\ handled' = handled \cup {current[w]}
          \/ worker'[w] = "raised" /\ handled' = handled
      BY <1>6, <3>1 DEF Update
    <3>. QED
      BY <2>4, <2>5, <3>2
<1>7. CASE Finished \/ UNCHANGED vars
  <2>1. UNCHANGED <<next, queue, worker, current, handled>>
    BY <1>7 DEF Finished, vars
  <2>2. Fed' = Fed /\ InQueue' = InQueue
    BY <2>1 DEF Fed, InQueue
  <2>. QED
    BY <1>1, <2>1, <2>2 DEF Accounted, OneWorkerPerName
<1>. QED
  BY <1>2, <1>3, <1>4, <1>5, <1>6, <1>7 DEF Next

\* The program goes on from the joins only when the threads have ended
\* (service.py run).
LEMMA JoinedStep == IInv /\ [Next]_vars => Joined'
<1> SUFFICES ASSUME IInv, [Next]_vars PROVE Joined'
  OBVIOUS
<1> USE DEF IInv, ServiceInv, TypeOK, Joined, Ended
<1>1. CASE Feed \/ FeedStop
  BY <1>1 DEF Feed, FeedStop
<1>2. CASE Join
  BY <1>2 DEF Join
<1>3. ASSUME NEW w \in Workers, Get(w) \/ Update(w) PROVE Joined'
  BY <1>3 DEF Get, Update
<1>4. CASE Finished \/ UNCHANGED vars
  BY <1>4 DEF Finished, vars
<1>. QED
  BY <1>1, <1>2, <1>3, <1>4 DEF Next

(***************************************************************************)
(* The theorems.                                                           *)
(***************************************************************************)
\* The invariant holds for a source without empty lines (service.py).
LEMMA Inductive == ASSUME BlankLines = FALSE PROVE Spec => []IInv
<1>1. Init => IInv
  <2> SUFFICES ASSUME Init PROVE IInv
    OBVIOUS
  <2>1. blank = {} /\ TypeOK
    BY NamesAssumption DEF Init, TypeOK, Names
  <2>2. Fed = {} /\ InQueue = {} /\ Len(queue) = 0
    BY DEF Init, Fed, InQueue
  <2>3. QueueInv
    BY <2>2, ThreadsNat DEF Init, QueueInv
  <2>4. Accounted /\ Joined /\ OneWorkerPerName
    BY <2>2 DEF Init, Accounted, Joined, OneWorkerPerName
  <2>. QED
    BY <2>1, <2>3, <2>4 DEF IInv, ServiceInv
<1>2. IInv /\ [Next]_vars => IInv'
  <2>1. IInv /\ [Next]_vars => blank' = {}
    BY DEF IInv, Next, Feed, FeedStop, Join, Get, Update, Finished, vars
  <2>. QED
    BY <2>1, TypeStep, QueueStep, AccountStep, JoinedStep DEF IInv, ServiceInv
<1>. QED
  BY <1>1, <1>2, PTL DEF Spec

\* Every reachable state of the service (service.py) is well typed.
THEOREM TypeCorrect == ASSUME BlankLines = FALSE PROVE Spec => []TypeOK
BY Inductive, PTL DEF IInv

\* No name is dropped, repeated or overtaken by the sentinels (service.py run,
\* from_queue), for any number of threads and names.
THEOREM ServiceInvariant == ASSUME BlankLines = FALSE PROVE Spec => []ServiceInv
BY Inductive, PTL DEF IInv

\* No name is with two threads, or with one after it was handled (service.py
\* from_queue).
THEOREM Exclusive == ASSUME BlankLines = FALSE PROVE Spec => []OneWorkerPerName
BY Inductive, PTL DEF IInv, ServiceInv

\* When the service has ended, every name was handled but those a thread
\* raised on (service.py run: the sentinels, then join).
THEOREM Complete == ASSUME BlankLines = FALSE PROVE Spec => []AllHandled
<1>1. IInv => AllHandled
  <2> SUFFICES ASSUME IInv, main = "done", NEW n \in Names
               PROVE  n \in handled \/ \E w \in Workers : worker[w] = "raised" /\ current[w] = n
    BY DEF AllHandled
  <2> USE DEF IInv, TypeOK, ServiceInv
  <2>1. n \in Fed
    BY NamesAssumption DEF QueueInv, Fed, Names
  <2>2. n \notin InQueue
    <3>1. SUFFICES ASSUME NEW i \in 1..Len(queue), queue[i] = n PROVE FALSE
      BY DEF InQueue
    <3>2. queue[i] # STOP_ITER
      BY <3>1, NamesAssumption DEF Names, STOP_ITER
    <3>3. i + Threads <= Len(queue) /\ Len(queue) <= Threads
      BY <3>2 DEF QueueInv
    <3>4. i \in Nat /\ i >= 1 /\ Len(queue) \in Nat
      OBVIOUS
    <3>. QED
      BY <3>3, <3>4, ThreadsNat
  <2>3. \A w \in Workers : worker[w] \in {"stopped", "raised"}
    BY DEF Joined, Ended
  <2>. QED
    BY <2>1, <2>2, <2>3 DEF Accounted
<1>. QED
  BY <1>1, Inductive, PTL
==============================================================================
