------------------------ MODULE DaemonControl_proofs -------------------------
(***************************************************************************)
(* Theorems about DaemonControl, for any number of clients, any requests   *)
(* and any faults.                                                         *)
(***************************************************************************)
EXTENDS DaemonControl, SequenceTheorems, TLAPS


(***************************************************************************)
(* Queues of at most one element.                                          *)
(***************************************************************************)
\* A queue that has no room for one element less is empty (maxsize=1).
LEMMA FullOrEmpty ==
  ASSUME NEW S, NEW s \in Seq(S), Len(s) < 1
  PROVE  s = <<>>
BY EmptySeq

\* Taking the only element out of a queue of at most one leaves it empty.
LEMMA ShortQueue ==
  ASSUME NEW S, NEW s \in Seq(S), Len(s) <= 1, s # <<>>
  PROVE  Len(s) = 1 /\ Head(s) \in S /\ Tail(s) = <<>>
<1> DEFINE n == Len(s)
<1>1. n \in Nat \ {0} /\ n <= 1
  BY EmptySeq
<1> HIDE DEF n
<1>2. n = 1
  BY <1>1
<1>3. Head(s) \in S /\ Tail(s) \in Seq(S) /\ Len(Tail(s)) = Len(s) - 1
  BY HeadTailProperties
<1>4. Len(Tail(s)) < 1
  BY <1>2, <1>3
<1>5. Tail(s) = <<>>
  BY <1>3, <1>4, FullOrEmpty
<1>. QED
  BY <1>2, <1>3, <1>5

\* Putting into an empty queue leaves the one element that was put.
LEMMA PutInEmpty ==
  ASSUME NEW S, NEW e \in S
  PROVE  /\ Append(<<>>, e) # <<>>
         /\ Len(Append(<<>>, e)) = 1
         /\ Head(Append(<<>>, e)) = e
OBVIOUS

(***************************************************************************)
(* Every variable keeps its type.                                          *)
(***************************************************************************)
\* A step of the channel (server.py, client.py) keeps every type.
LEMMA TypeStep == TypeOK /\ [Next]_vars => TypeOK'
<1> SUFFICES ASSUME TypeOK, [Next]_vars PROVE TypeOK'
  OBVIOUS
<1> USE RequestsAssumption, MaxEpochAssumption
    DEF TypeOK, ServerStates, ClientStates, Putting, StatusSteps, MaxSize,
        clientVars, serverVars, vars
<1>1. ASSUME NEW c \in Clients, Invoke(c) PROVE TypeOK'
  <2>1. asked' \in [Clients -> Nat] /\ UNCHANGED <<queue, slot, gone, held, serverVars>>
    BY <1>1 DEF Invoke
  <2>2. \E state \in ClientStates : pc' = [pc EXCEPT ![c] = state]
    BY <1>1 DEF Invoke
  <2>3. pc' \in [Clients -> ClientStates]
    BY <2>2
  <2>. QED
    BY <2>1, <2>3
<1>2. ASSUME NEW c \in Clients, Request(c) PROVE TypeOK'
  <2>1. Message(pc[c]) \in {"status", "flush"} \cup Requests
    BY <1>2 DEF Request, Message
  <2>2. After(pc[c]) \in ClientStates
    BY <1>2 DEF Request, After
  <2>3. queue' \in Seq({"status", "flush"} \cup Requests)
    BY <1>2, <2>1 DEF Request
  <2>. QED
    BY <1>2, <2>2, <2>3 DEF Request
<1>3. ASSUME NEW c \in Clients, RequestTimeout(c) PROVE TypeOK'
  BY <1>3 DEF RequestTimeout
<1>4. ASSUME NEW c \in Clients, PollGet(c) PROVE TypeOK'
  BY <1>4 DEF PollGet
<1>5. ASSUME NEW c \in Clients, PollPut(c) PROVE TypeOK'
  BY <1>5 DEF PollPut
<1>6. ASSUME NEW c \in Clients, Die(c) PROVE TypeOK'
  BY <1>6 DEF Die
<1>7. CASE TakeAction
  BY <1>7 DEF TakeAction
<1>8. CASE Refresh
  BY <1>8 DEF Refresh, RestartServices
<1>9. CASE Restart
  BY <1>9 DEF Restart, RestartServices
<1>10. CASE Reload
  BY <1>10 DEF Reload, RestartServices
<1>11. CASE Snapshot
  BY <1>11 DEF Snapshot
<1>12. CASE SetGet
  BY <1>12 DEF SetGet
<1>13. CASE SetPut
  BY <1>13 DEF SetPut
<1>14. CASE Close
  BY <1>14 DEF Close
<1>15. CASE StopServices
  BY <1>15 DEF StopServices
<1>16. CASE Interrupt
  BY <1>16 DEF Interrupt
<1>17. CASE ServiceDies
  BY <1>17 DEF ServiceDies
<1>18. CASE Finished \/ UNCHANGED vars
  BY <1>18 DEF Finished
<1>. QED
  BY <1>1, <1>2, <1>3, <1>4, <1>5, <1>6, <1>7, <1>8, <1>9, <1>10, <1>11, <1>12,
     <1>13, <1>14, <1>15, <1>16, <1>17, <1>18
  DEF Next, ClientStep, ServerStep

\* Every reachable state of the channel (server.py, client.py) is well typed.
THEOREM TypeCorrect == Spec => []TypeOK
<1>1. Init => TypeOK
  BY DEF Init, TypeOK, ServerStates, ClientStates
<1>. QED
  BY <1>1, TypeStep, PTL DEF Spec

(***************************************************************************)
(* The status has one owner at a time.                                     *)
(***************************************************************************)
\* A step keeps the status with one owner: slot, client or daemon.
LEMMA ExclusiveStep ==
  TypeOK /\ StatusExclusive /\ [Next]_vars => StatusExclusive'
<1> SUFFICES ASSUME TypeOK, StatusExclusive, [Next]_vars PROVE StatusExclusive'
  OBVIOUS
<1> USE DEF TypeOK, StatusExclusive, Holders, MaxSize, clientVars, serverVars
<1>1. ASSUME NEW c \in Clients, Invoke(c) PROVE StatusExclusive'
  <2>1. UNCHANGED <<slot, server>> /\ pc'[c] # "held" /\ \A d \in Clients \ {c} : pc'[d] = pc[d]
    BY <1>1, RequestsAssumption DEF Invoke
  <2>2. Holders' \subseteq Holders
    BY <2>1
  <2> HIDE DEF Holders
  <2>. QED
    BY <2>1, <2>2
<1>2. ASSUME NEW c \in Clients, Request(c) PROVE StatusExclusive'
  <2>1. After(pc[c]) # "held"
    BY DEF After
  <2>. QED
    BY <1>2, <2>1 DEF Request
<1>3. ASSUME NEW c \in Clients, RequestTimeout(c) PROVE StatusExclusive'
  BY <1>3 DEF RequestTimeout
<1>4. ASSUME NEW c \in Clients, PollGet(c) PROVE StatusExclusive'
  <2>1. slot' = <<>> /\ Len(slot') <= 1
    BY <1>4, ShortQueue DEF PollGet
  <2>2. Holders = {} /\ server \notin {"set_put", "down"}
    BY <1>4 DEF PollGet
  <2>3. Holders' = {c}
    BY <1>4, <2>2 DEF PollGet
  <2>. QED
    BY <1>4, <2>1, <2>2, <2>3 DEF PollGet
<1>5. ASSUME NEW c \in Clients, PollPut(c) PROVE StatusExclusive'
  <2>1. c \in Holders
    BY <1>5 DEF PollPut
  <2>2. Holders' = {}
    BY <1>5, <2>1 DEF PollPut
  <2>3. Len(slot') <= 1
    BY <1>5 DEF PollPut
  <2>. QED
    BY <1>5, <2>1, <2>2, <2>3 DEF PollPut
<1>6. ASSUME NEW c \in Clients, Die(c) PROVE StatusExclusive'
  BY <1>6 DEF Die
<1>7. CASE TakeAction
  BY <1>7 DEF TakeAction
<1>8. CASE Refresh
  BY <1>8 DEF Refresh, RestartServices
<1>9. CASE Restart
  BY <1>9 DEF Restart, RestartServices
<1>10. CASE Reload
  BY <1>10 DEF Reload, RestartServices
<1>11. CASE Snapshot
  BY <1>11 DEF Snapshot
<1>12. CASE SetGet
  <2>1. slot' = <<>> /\ Len(slot') <= 1 /\ Holders = {}
    BY <1>12, ShortQueue DEF SetGet
  <2>. QED
    BY <1>12, <2>1 DEF SetGet
<1>13. CASE SetPut
  <2>1. slot = <<>> /\ Len(slot') <= 1
    BY <1>13, FullOrEmpty DEF SetPut
  <2>. QED
    BY <1>13, <2>1 DEF SetPut
<1>14. CASE Close
  <2>1. slot' = <<>> /\ Len(slot') <= 1
    BY <1>14, ShortQueue DEF Close
  <2>. QED
    BY <1>14, <2>1 DEF Close
<1>15. CASE StopServices \/ Interrupt \/ ServiceDies
  BY <1>15 DEF StopServices, Interrupt, ServiceDies
<1>16. CASE Finished \/ UNCHANGED vars
  BY <1>16 DEF Finished, vars
<1>. QED
  BY <1>1, <1>2, <1>3, <1>4, <1>5, <1>6, <1>7, <1>8, <1>9, <1>10, <1>11, <1>12,
     <1>13, <1>14, <1>15, <1>16
  DEF Next, ClientStep, ServerStep

\* The status has one owner at a time, for any number of clients (server.py
\* status, client.py _poll_status).
THEOREM Exclusion == Spec => []StatusExclusive
<1>1. Init => StatusExclusive
  BY DEF Init, StatusExclusive, Holders, MaxSize
<1>. QED
  BY <1>1, ExclusiveStep, TypeCorrect, PTL DEF Spec

(***************************************************************************)
(* Where a status request can be.  ChannelInv is the inductive invariant.  *)
(***************************************************************************)
\* A step keeps the slot, the snapshot and the history of the board in line.
LEMMA BoardStep == ChannelInv /\ [Next]_vars => BoardInv'
<1> SUFFICES ASSUME ChannelInv, [Next]_vars PROVE BoardInv'
  OBVIOUS
<1> USE DEF ChannelInv, TypeOK, StatusExclusive, StatusInv, BoardInv, Holders, MaxSize,
            clientVars, serverVars
<1>1. ASSUME NEW c \in Clients,
             Invoke(c) \/ Request(c) \/ RequestTimeout(c) \/ Die(c)
      PROVE  BoardInv'
  BY <1>1 DEF Invoke, Request, RequestTimeout, Die
<1>2. ASSUME NEW c \in Clients, PollGet(c) PROVE BoardInv'
  <2>1. slot' = <<>>
    BY <1>2, ShortQueue DEF PollGet
  <2>. QED
    BY <1>2, <2>1 DEF PollGet
<1>3. ASSUME NEW c \in Clients, PollPut(c) PROVE BoardInv'
  <2>1. slot = <<>>
    BY <1>3, FullOrEmpty DEF PollPut
  <2>2. held[c] = board /\ held[c] \in Nat
    BY <1>3 DEF PollPut, RequestInv
  <2>3. Head(slot') = board
    BY <1>3, <2>1, <2>2, PutInEmpty DEF PollPut
  <2>. QED
    BY <1>3, <2>3 DEF PollPut
<1>4. CASE TakeAction \/ Refresh \/ Restart \/ Reload
  BY <1>4 DEF TakeAction, Refresh, Restart, Reload, RestartServices
<1>5. CASE Snapshot
  BY <1>5 DEF Snapshot
<1>6. CASE SetGet
  <2>1. slot' = <<>>
    BY <1>6, ShortQueue DEF SetGet
  <2>. QED
    BY <1>6, <2>1 DEF SetGet
<1>7. CASE SetPut
  <2>1. slot = <<>>
    BY <1>7, FullOrEmpty DEF SetPut
  <2>2. Head(slot') = snap
    BY <1>7, <2>1, PutInEmpty DEF SetPut
  <2>. QED
    BY <1>7, <2>2 DEF SetPut
<1>8. CASE Close
  <2>1. slot' = <<>>
    BY <1>8, ShortQueue DEF Close
  <2>. QED
    BY <1>8, <2>1 DEF Close
<1>9. CASE StopServices \/ Interrupt \/ ServiceDies \/ Finished \/ UNCHANGED vars
  BY <1>9 DEF StopServices, Interrupt, ServiceDies, Finished, vars
<1>. QED
  BY <1>1, <1>2, <1>3, <1>4, <1>5, <1>6, <1>7, <1>8, <1>9
  DEF Next, ClientStep, ServerStep

\* A step keeps every client's status request in the queue, being served, or
\* served (client.py status).
LEMMA RequestStep ==
  ASSUME ChannelInv, [Next]_vars, NEW d \in Clients
  PROVE  RequestInv(d)'
<1> USE DEF ChannelInv, TypeOK, StatusInv, BoardInv, RequestInv, Served, Serving, Leaving,
            Holders, clientVars, serverVars, MaxSize
<1>0. RequestInv(d)
  OBVIOUS
<1>1. ASSUME NEW c \in Clients, Invoke(c) PROVE RequestInv(d)'
  BY <1>0, <1>1, RequestsAssumption DEF Invoke
<1>2. ASSUME NEW c \in Clients, Request(c) PROVE RequestInv(d)'
  <2>1. queue = <<>>
    BY <1>2, FullOrEmpty DEF Request
  <2>2. Message(pc[c]) \in {"status", "flush"} \cup Requests
    BY <1>2 DEF Request, Message, Putting, StatusSteps
  <2>3. queue' # <<>> /\ Head(queue') = Message(pc[c])
    BY <1>2, <2>1, <2>2, PutInEmpty DEF Request
  <2>4. CASE c # d
    BY <1>0, <1>2, <2>1, <2>3, <2>4 DEF Request
  <2>5. CASE c = d
    <3>1. pc[d] # "held" /\ pc'[d] = IF d \in gone THEN "off" ELSE After(pc[d])
      BY <1>2, <2>5, RequestsAssumption DEF Request, Putting, StatusSteps
    <3>2. CASE d \in gone \/ pc[d] \notin StatusSteps
      <4>1. pc'[d] = "off"
        BY <3>1, <3>2 DEF After, StatusSteps
      <4>. QED
        BY <1>0, <1>2, <3>1, <4>1 DEF Request
    <3>3. CASE d \notin gone /\ pc[d] = "status"
      <4>1. pc'[d] = "flush1" /\ Head(queue') = "status"
        BY <2>3, <2>5, <3>1, <3>3 DEF After, Message
      <4>. QED
        BY <1>0, <1>2, <2>3, <3>1, <4>1 DEF Request
    <3>4. CASE d \notin gone /\ pc[d] = "flush1"
      <4>1. pc'[d] = "flush2"
        BY <3>1, <3>4 DEF After
      <4>. QED
        BY <1>0, <1>2, <2>1, <2>3, <3>1, <3>4, <4>1 DEF Request
    <3>5. CASE d \notin gone /\ pc[d] = "flush2"
      <4>1. pc'[d] = "poll"
        BY <3>1, <3>5 DEF After
      <4>. QED
        BY <1>0, <1>2, <2>1, <3>1, <3>5, <4>1 DEF Request
    <3>. QED
      BY <3>2, <3>3, <3>4, <3>5 DEF StatusSteps
  <2>. QED
    BY <2>4, <2>5
<1>3. ASSUME NEW c \in Clients, RequestTimeout(c) PROVE RequestInv(d)'
  BY <1>0, <1>3, RequestsAssumption DEF RequestTimeout, Putting, StatusSteps
<1>4. ASSUME NEW c \in Clients, PollGet(c) PROVE RequestInv(d)'
  BY <1>0, <1>4 DEF PollGet
<1>5. ASSUME NEW c \in Clients, PollPut(c) PROVE RequestInv(d)'
  BY <1>0, <1>5 DEF PollPut
<1>6. ASSUME NEW c \in Clients, Die(c) PROVE RequestInv(d)'
  BY <1>0, <1>6 DEF Die
<1>7. CASE TakeAction
  BY <1>0, <1>7 DEF TakeAction
<1>8. CASE Refresh \/ Restart \/ Reload
  BY <1>0, <1>8 DEF Refresh, Restart, Reload, RestartServices
<1>9. CASE Snapshot
  BY <1>0, <1>9 DEF Snapshot
<1>10. CASE SetGet
  BY <1>0, <1>10 DEF SetGet
<1>11. CASE SetPut
  \* nobody holds the status while the daemon does
  <2>1. pc[d] # "held"
    BY <1>11 DEF SetPut, StatusExclusive
  <2>. QED
    BY <1>0, <1>11, <2>1 DEF SetPut
<1>12. CASE Close
  BY <1>0, <1>12 DEF Close
<1>13. CASE StopServices \/ Interrupt \/ ServiceDies
  BY <1>0, <1>13 DEF StopServices, Interrupt, ServiceDies
<1>14. CASE Finished \/ UNCHANGED vars
  BY <1>0, <1>14 DEF Finished, vars
<1>. QED
  BY <1>1, <1>2, <1>3, <1>4, <1>5, <1>6, <1>7, <1>8, <1>9, <1>10, <1>11, <1>12,
     <1>13, <1>14
  DEF Next, ClientStep, ServerStep

\* The inductive invariant of the channel holds in every reachable state.
LEMMA Inductive == Spec => []ChannelInv
<1>1. Init => ChannelInv
  BY PutInEmpty
  DEF Init, ChannelInv, TypeOK, ServerStates, ClientStates, StatusExclusive, Holders, MaxSize,
      StatusInv, BoardInv, RequestInv
<1>2. ChannelInv /\ [Next]_vars => ChannelInv'
  BY TypeStep, ExclusiveStep, BoardStep, RequestStep DEF ChannelInv, StatusInv
<1>. QED
  BY <1>1, <1>2, PTL DEF Spec

\* Every client's status request is in the queue, being served or served, and
\* the slot holds the newest status, in every reachable state (client.py).
THEOREM ChannelInvariant == Spec => []ChannelInv
BY Inductive

(***************************************************************************)
(* `refittctl status` never prints a status older than the request.        *)
(***************************************************************************)
\* The status a client takes out of the slot was computed after it asked for
\* it (client.py status and its two flushes).
THEOREM Freshness == Spec => []FreshStatus
<1>1. ChannelInv => FreshStatus
  BY DEF ChannelInv, StatusInv, RequestInv, FreshStatus, Served
<1>. QED
  BY <1>1, Inductive, PTL

(***************************************************************************)
(* The channel implements StatusBoard: a snapshot is taken, the setter     *)
(* posts it, and a client is answered when it takes the status out.        *)
(***************************************************************************)
\* A step of the channel is a step of the abstract board, or leaves it alone.
LEMMA BoardRefinementStep == ChannelInv /\ [Next]_vars => [Board!Next]_(Board!vars)
<1> SUFFICES ASSUME ChannelInv, [Next]_vars PROVE [Board!Next]_(Board!vars)
  OBVIOUS
<1> USE DEF ChannelInv, TypeOK, StatusInv, BoardInv, RequestInv, Served, clientVars,
            serverVars, Board!Next, Board!vars
<1>1. ASSUME NEW c \in Clients, Invoke(c) PROVE Board!Ask(c)
  BY <1>1 DEF Invoke, Board!Ask
<1>2. ASSUME NEW c \in Clients, PollGet(c) PROVE Board!Answer(c)
  BY <1>2 DEF PollGet, Board!Answer
<1>3. ASSUME NEW c \in Clients, PollPut(c) PROVE Board!Forget({c})
  BY <1>3 DEF PollPut, Board!Forget
<1>4. ASSUME NEW c \in Clients, Request(c) \/ RequestTimeout(c) \/ Die(c)
      PROVE  UNCHANGED Board!vars
  BY <1>4 DEF Request, RequestTimeout, Die
<1>5. CASE Snapshot
  BY <1>5 DEF Snapshot, Board!Take
<1>6. CASE SetPut
  BY <1>6 DEF SetPut, Board!Post
<1>7. CASE Close
  <2>1. Board!Forget(Clients)
    BY <1>7 DEF Close, Board!Forget
  <2>. QED
    BY <2>1
<1>8. CASE \/ TakeAction \/ Refresh \/ Restart \/ Reload \/ SetGet \/ StopServices
           \/ Interrupt \/ ServiceDies \/ Finished \/ UNCHANGED vars
  BY <1>8 DEF TakeAction, Refresh, Restart, Reload, RestartServices, SetGet,
              StopServices, Interrupt, ServiceDies, Finished, vars
<1>. QED
  BY <1>1, <1>2, <1>3, <1>4, <1>5, <1>6, <1>7, <1>8
  DEF Next, ClientStep, ServerStep

\* The channel of server.py and client.py implements StatusBoard.
THEOREM Refinement == Spec => BoardSpec
<1>1. Init => Board!Init
  BY DEF Init, Board!Init
<1>2. ChannelInv /\ [Next]_vars => [Board!Next]_(Board!vars)
  BY BoardRefinementStep
<1>. QED
  BY <1>1, <1>2, Inductive, PTL DEF Spec, BoardSpec, Board!Spec
==============================================================================
