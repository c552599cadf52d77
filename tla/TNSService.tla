------------------------------ MODULE TNSService ------------------------------
(***************************************************************************)
(* The TNS service (data/tns/service.py): the main thread feeds the names  *)
(* of a source to a bounded queue.Queue, worker threads take them and ask  *)
(* a TNSManager to update the object, and a sentinel for each worker ends  *)
(* the threads when the source is exhausted.                               *)
(*                                                                         *)
(* A name is modelled by its place in the source, so that an object whose  *)
(* name comes twice is two names here.  What update_object does to the     *)
(* database is left out; it returns, or raises a TNSError, or raises       *)
(* something else.  Names ending in _M are mistakes the code does not      *)
(* make, used to test the properties.                                      *)
(***************************************************************************)
EXTENDS Naturals, Sequences, FiniteSets

CONSTANTS
  Workers,       \* the threads
  MaxNames,      \* bound: length of the source
  BlankLines,    \* may the source have empty lines (from_io)
  OtherErrors    \* may update_object raise what is not a TNSError

ASSUME WorkersAssumption == Workers # {} /\ IsFiniteSet(Workers)
ASSUME NamesAssumption == MaxNames \in Nat
ASSUME FaultsAssumption == BlankLines \in BOOLEAN /\ OtherErrors \in BOOLEAN

VARIABLES
  length,     \* the number of names in the source
  blank,      \* those that are empty lines
  next,       \* the next name of the source
  queue,      \* TNSService.queue
  stops,      \* number of sentinels the main thread has put
  main,       \* "feeding", "joining" or "done"
  worker,     \* "waiting", "busy", "stopped" or "raised"
  current,    \* the name each worker is busy with, or had when it raised
  handled     \* the names whose update returned or was reported

vars == <<length, blank, next, queue, stops, main, worker, current, handled>>

STOP_ITER == 0
Names == 1..length
Threads == Cardinality(Workers)
Ended(w) == worker[w] \in {"stopped", "raised"}
InQueue == {queue[i] : i \in 1..Len(queue)}

\* Every variable has its type (the queue and threads of data/tns/service.py).
TypeOK ==
  /\ length \in 0..MaxNames
  /\ blank \subseteq Names
  /\ next \in 1..(length + 1)
  /\ queue \in Seq(0..MaxNames)
  /\ stops \in Nat
  /\ main \in {"feeding", "joining", "done"}
  /\ worker \in [Workers -> {"waiting", "busy", "stopped", "raised"}]
  /\ current \in [Workers -> 0..MaxNames]
  /\ handled \subseteq Names
------------------------------------------------------------------------------
Init ==
  /\ length \in 0..MaxNames
  /\ blank \in (IF BlankLines THEN SUBSET Names ELSE {{}})
  /\ next = 1
  /\ queue = <<>>
  /\ stops = 0
  /\ main = "feeding"
  /\ worker = [w \in Workers |-> "waiting"]
  /\ current = [w \in Workers |-> 0]
  /\ handled = {}

\* put() of the next name; an empty line is the sentinel.
Feed ==
  /\ main = "feeding"
  /\ next <= length
  /\ Len(queue) < Threads
  /\ queue' = Append(queue, IF next \in blank THEN STOP_ITER ELSE next)
  /\ next' = next + 1
  /\ UNCHANGED <<length, blank, stops, main, worker, current, handled>>

\* One sentinel, as if there were one worker.
FeedStop_M ==
  /\ main = "feeding"
  /\ next = length + 1
  /\ stops < 1
  /\ Len(queue) < Threads
  /\ queue' = Append(queue, STOP_ITER)
  /\ stops' = stops + 1
  /\ main' = "joining"
  /\ UNCHANGED <<length, blank, next, worker, current, handled>>

\* The sentinels go in one name too early.
FeedStopEarly_M ==
  /\ main = "feeding"
  /\ next >= length
  /\ stops < Threads
  /\ Len(queue) < Threads
  /\ queue' = Append(queue, STOP_ITER)
  /\ stops' = stops + 1
  /\ main' = IF stops' = Threads THEN "joining" ELSE main
  /\ UNCHANGED <<length, blank, next, worker, current, handled>>

\* put() of the sentinels, one for each worker.
FeedStop ==
  /\ main = "feeding"
  /\ next = length + 1
  /\ stops < Threads
  /\ Len(queue) < Threads
  /\ queue' = Append(queue, STOP_ITER)
  /\ stops' = stops + 1
  /\ main' = IF stops' = Threads THEN "joining" ELSE main
  /\ UNCHANGED <<length, blank, next, worker, current, handled>>

\* The main thread waits for one thread only.
Join_M ==
  /\ main = "joining"
  /\ \E w \in Workers : Ended(w)
  /\ main' = "done"
  /\ UNCHANGED <<length, blank, next, queue, stops, worker, current, handled>>

\* join() of every thread; one that raised has ended too.
Join ==
  /\ main = "joining"
  /\ \A w \in Workers : Ended(w)
  /\ main' = "done"
  /\ UNCHANGED <<length, blank, next, queue, stops, worker, current, handled>>

\* iter(queue.get, STOP_ITER): the sentinel ends the thread.
Get(w) ==
  /\ worker[w] = "waiting"
  /\ queue # <<>>
  /\ queue' = Tail(queue)
  /\ \/ /\ Head(queue) = STOP_ITER
        /\ worker' = [worker EXCEPT ![w] = "stopped"]
        /\ UNCHANGED current
     \/ /\ Head(queue) # STOP_ITER
        /\ worker' = [worker EXCEPT ![w] = "busy"]
        /\ current' = [current EXCEPT ![w] = Head(queue)]
  /\ UNCHANGED <<length, blank, next, stops, main, handled>>

\* update_object: returned, or a TNSError was logged; any other exception
\* ends the thread, without a word to the main thread.
Update(w) ==
  /\ worker[w] = "busy"
  /\ \/ /\ worker' = [worker EXCEPT ![w] = "waiting"]
        /\ handled' = handled \cup {current[w]}
     \/ /\ OtherErrors
        /\ worker' = [worker EXCEPT ![w] = "raised"]
        /\ UNCHANGED handled
  /\ UNCHANGED <<length, blank, next, queue, stops, main, current>>

\* The program ends.
Finished ==
  /\ main = "done"
  /\ UNCHANGED vars
------------------------------------------------------------------------------
Next ==
  \/ Feed \/ FeedStop \/ Join \/ Finished
  \/ \E w \in Workers : Get(w) \/ Update(w)

Spec == Init /\ [][Next]_vars

\* The threads are scheduled, and a request to TNS comes back.
Fairness ==
  /\ WF_vars(Feed \/ FeedStop \/ Join)
  /\ \A w \in Workers : WF_vars(Get(w) \/ Update(w))

FairSpec == Spec /\ Fairness
------------------------------------------------------------------------------
(***************************************************************************)
(* Properties.                                                             *)
(***************************************************************************)
\* When the service has ended, every name of the source was handled, but
\* those a worker raised on.
AllHandled ==
  main = "done" =>
    \A n \in Names \ blank :
      n \in handled \/ \E w \in Workers : worker[w] = "raised" /\ current[w] = n

\* No two workers are busy with the same name of the source, and none with
\* one that was handled.
OneWorkerPerName ==
  \A w \in Workers : worker[w] = "busy" =>
    /\ current[w] \notin handled \cup InQueue
    /\ \A v \in Workers \ {w} : worker[v] = "busy" => current[v] # current[w]

\* A service with a finite source ends, unless no thread is left to take the
\* names (service.py run: the main thread then waits in put for ever).
ServiceEnds == <>(main = "done" \/ \A w \in Workers : worker[w] = "raised")

(***************************************************************************)
(* Why these hold, when there is no blank line.  The sentinels come after  *)
(* the names, so a name in the queue is followed by every sentinel that    *)
(* was put; and since there are as many sentinels as the queue has places, *)
(* no name is left when the last one has been put, even if no thread is    *)
(* left to take it.                                                        *)
(***************************************************************************)
Fed == 1..(next - 1)

QueueInv ==
  /\ Len(queue) <= Threads
  /\ InQueue \subseteq Fed \cup {STOP_ITER}
  /\ \A i \in 1..Len(queue) : queue[i] # STOP_ITER => i + stops <= Len(queue)
  /\ \A i, j \in 1..Len(queue) : i < j /\ queue[i] = queue[j] => queue[i] = STOP_ITER
  /\ stops > 0 => next = length + 1
  /\ main # "feeding" => next = length + 1 /\ stops = Threads

\* A name that was fed is in the queue, with a worker, or handled, and nothing
\* else is.
Accounted ==
  /\ \A n \in Fed :
       \/ n \in handled \cup InQueue
       \/ \E w \in Workers : worker[w] \in {"busy", "raised"} /\ current[w] = n
  /\ \A w \in Workers : worker[w] \in {"busy", "raised"} => current[w] \in Fed
  /\ handled \subseteq Fed /\ handled \cap InQueue = {}

Joined == main = "done" => \A w \in Workers : Ended(w)

\* Together with OneWorkerPerName: no name is dropped, repeated or overtaken
\* by the sentinels between the queue, the workers and what was handled
\* (service.py run, from_queue).
ServiceInv == TypeOK /\ QueueInv /\ Accounted /\ Joined /\ OneWorkerPerName
==============================================================================
