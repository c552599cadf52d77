---------------------- MODULE ServiceSupervisor_proofs ----------------------
(***************************************************************************)
(* Theorems about ServiceSupervisor, with their proofs.                    *)
(*                                                                         *)
(* An invariant says of each service what a daemon may have to do with it: *)
(* while it waits, and while the daemon is at it.  For any number of       *)
(* daemons, which may be killed, it follows that a daemon that exits       *)
(* leaves none of its processes.  For one daemon that is not killed, whose *)
(* services stop when they are told to, a second part relates each         *)
(* service's operations to its pidfile and its processes.                  *)
(***************************************************************************)
EXTENDS ServiceSupervisor, SequenceTheorems, TLAPS

(***************************************************************************)
(* The inductive invariant.                                                *)
(***************************************************************************)
\* What there may be left to do with a service whose turn has not come.
Waiting(m) ==
  CASE m = "off"      -> {<<>>}
    [] m = "starting" -> {<<>>, StartNew}
    [] m = "serving"  -> {<<>>, StartNew, RestartOps, <<"check">>, <<"reload">>, <<"pop", "stop">>}
    [] m = "exiting"  -> {<<>>, <<"stop">>}

\* What there may be left to do with the service that a daemon is at.
Starting == {<<"start">>, <<"popen">>, <<"lock">>}
Replacing == {<<"stop", "define", "start">>, <<"unlock", "define", "start">>, StartNew}
InTurn(m) ==
  CASE m = "off"      -> {}
    [] m = "starting" -> Starting
    [] m = "serving"  -> Starting \cup Replacing
                           \cup {RestartOps, <<"unlock", "start">>, <<"stop">>, <<"unlock">>}
    [] m = "exiting"  -> {<<"unlock">>}
Plans == UNION {Waiting(m) \cup InTurn(m) : m \in {"off", "starting", "serving", "exiting"}}

\* A service that its daemon has is defined as it was last read; with --all
\* those that the daemon has are those that were read.
Current(d, s) ==
  /\ all[d] => defined[d][s] = read[d][s]
  /\ defined[d][s] = None \/ read[d][s] = None \/ defined[d][s] = read[d][s]

\* What the dictionary and the configuration hold for what is left to do.
InDictionary(d, s) ==
  LET plan == todo[d][s] IN
  /\ mode[d] = "off" => defined[d][s] = None /\ process[d][s] = None
  /\ plan \in {StartNew, <<"reload">>} \cup Replacing => read[d][s] # None
  /\ plan \in Starting \cup {RestartOps, <<"unlock", "start">>, <<"check">>} =>
       defined[d][s] # None /\ Current(d, s)
  /\ plan \in {<<"reload">>, <<"stop", "define", "start">>, <<"unlock", "define", "start">>} =>
       defined[d][s] # None
  /\ plan = <<"pop", "stop">> => defined[d][s] # None /\ read[d][s] = None
  /\ mode[d] = "serving" /\ plan \in {<<"stop">>, <<"unlock">>} =>
       defined[d][s] = None /\ read[d][s] = None
  /\ mode[d] \in {"starting", "serving"} /\ plan = <<>> => Current(d, s)

\* A process that its daemon has started is alive only while the daemon still
\* has the service, or is about to stop it.
AliveInDictionary(d, s) ==
  IsAlive(d, s) =>
    \/ todo[d][s] = <<"stop">>
    \/ /\ mode[d] # "exiting" /\ defined[d][s] # None
       /\ todo[d][s] \in {<<>>, <<"lock">>, <<"check">>, RestartOps, <<"reload">>,
                          <<"stop", "define", "start">>, <<"pop", "stop">>}

Stage(d, s) ==
  /\ todo[d][s] \in IF at[d] = s THEN InTurn(mode[d]) ELSE Waiting(mode[d])
  /\ InDictionary(d, s)
  /\ "stubborn" \notin Faults => AliveInDictionary(d, s)

\* The inductive invariant of any number of daemons (daemon/service.py, apps/refittd).
IInv == TypeOK /\ \A d \in Daemons, s \in Services : Stage(d, s)

\* One daemon that is not killed, and services that stop when they are told to.
OneDaemon == (\E d : Daemons = {d}) /\ Faults \subseteq {"popen_fails"}

\* Nothing of a service is there; its process and its pidfile are there, and
\* are its daemon's.
Gone(s) == \A p \in running : p.service # s
Ours(d, s) == \A p \in running : p.service = s => p.pid = process[d][s]
AsDefined(d, s) == \A p \in running : p.service = s => p.version = defined[d][s]
Locked(d, s) == process[d][s] # None /\ pidfile[s] = process[d][s] /\ Ours(d, s)

\* What there is of a service for what is left to do.
Sole(d, s) ==
  LET plan == todo[d][s] IN
  /\ plan \in {StartNew, <<"start">>, <<"popen">>} => pidfile[s] = None /\ Gone(s)
  /\ plan = <<"lock">> => /\ pidfile[s] = None /\ process[d][s] # None
                         /\ Ours(d, s) /\ AsDefined(d, s)
  /\ plan \in {<<"unlock">>, <<"unlock", "start">>, <<"unlock", "define", "start">>} => Gone(s)
  /\ plan \in {<<"check">>, RestartOps, <<"reload">>, <<"pop", "stop">>,
               <<"stop", "define", "start">>} => Locked(d, s) /\ AsDefined(d, s)
  /\ plan = <<"stop">> => Locked(d, s) \/ (pidfile[s] = None /\ Gone(s))
  /\ plan = <<>> => IF mode[d] \in {"starting", "serving"} /\ defined[d][s] # None
                   THEN Locked(d, s) /\ AsDefined(d, s)
                   ELSE pidfile[s] = None /\ Gone(s)

\* The inductive invariant of one daemon (daemon/service.py start, stop, lock).
SoleInv == OneProcess /\ \A d \in Daemons, s \in Services : Sole(d, s)
------------------------------------------------------------------------------
(***************************************************************************)
(* What is left to do, and what an operation makes of it.                  *)
(***************************************************************************)
\* There is always a finite number of operations left (service.py, refittd).
LEMMA PlanTypes == Plans \subseteq Seq(Operations)
<1>1. /\ <<>> \in Seq(Operations) /\ <<"start">> \in Seq(Operations)
      /\ <<"popen">> \in Seq(Operations) /\ <<"lock">> \in Seq(Operations)
      /\ <<"stop">> \in Seq(Operations) /\ <<"unlock">> \in Seq(Operations)
      /\ <<"check">> \in Seq(Operations) /\ <<"reload">> \in Seq(Operations)
  BY DEF Operations
<1>2. /\ <<"define", "start">> \in Seq(Operations) /\ <<"stop", "start">> \in Seq(Operations)
      /\ <<"pop", "stop">> \in Seq(Operations) /\ <<"unlock", "start">> \in Seq(Operations)
      /\ <<"stop", "define", "start">> \in Seq(Operations)
      /\ <<"unlock", "define", "start">> \in Seq(Operations)
  BY DEF Operations
<1>. QED
  BY <1>1, <1>2 DEF Plans, Waiting, InTurn, Starting, Replacing, StartNew, RestartOps

\* The operation that is next says what is left after it.
LEMMA NextOperation ==
  ASSUME NEW plan \in Plans, plan # <<>>
  PROVE  /\ Head(plan) = "define" => plan = StartNew
         /\ Head(plan) = "start" => plan = <<"start">>
         /\ Head(plan) = "popen" => plan = <<"popen">>
         /\ Head(plan) = "lock" => plan = <<"lock">>
         /\ Head(plan) = "stop" => plan \in {<<"stop">>, RestartOps, <<"stop", "define", "start">>}
         /\ Head(plan) = "unlock" =>
              plan \in {<<"unlock">>, <<"unlock", "start">>, <<"unlock", "define", "start">>}
         /\ Head(plan) = "check" => plan = <<"check">>
         /\ Head(plan) = "pop" => plan = <<"pop", "stop">>
         /\ Head(plan) = "reload" => plan = <<"reload">>
<1>1. /\ Head(<<"start">>) = "start" /\ Head(<<"popen">>) = "popen" /\ Head(<<"lock">>) = "lock"
      /\ Head(<<"stop">>) = "stop" /\ Head(<<"unlock">>) = "unlock" /\ Head(<<"check">>) = "check"
      /\ Head(<<"reload">>) = "reload" /\ Head(<<"define", "start">>) = "define"
      /\ Head(<<"stop", "start">>) = "stop" /\ Head(<<"pop", "stop">>) = "pop"
      /\ Head(<<"unlock", "start">>) = "unlock"
      /\ Head(<<"stop", "define", "start">>) = "stop"
      /\ Head(<<"unlock", "define", "start">>) = "unlock"
  OBVIOUS
<1>. QED
  BY <1>1, Zenon DEF Plans, Waiting, InTurn, Starting, Replacing, StartNew, RestartOps

\* What is left after an operation.
LEMMA AfterOperation ==
  /\ Tail(StartNew) = <<"start">> /\ Tail(RestartOps) = <<"start">>
  /\ Tail(<<"start">>) = <<>> /\ Tail(<<"popen">>) = <<>> /\ Tail(<<"lock">>) = <<>>
  /\ Tail(<<"stop">>) = <<>> /\ Tail(<<"unlock">>) = <<>> /\ Tail(<<"check">>) = <<>>
  /\ Tail(<<"reload">>) = <<>> /\ Tail(<<"pop", "stop">>) = <<"stop">>
  /\ Tail(<<"unlock", "start">>) = <<"start">>
  /\ Tail(<<"stop", "define", "start">>) = StartNew
  /\ Tail(<<"unlock", "define", "start">>) = StartNew
  BY DEF StartNew, RestartOps

\* One operation is put before one or two others.
LEMMA OneFirst ==
  ASSUME NEW S, NEW a \in S, NEW b \in S, NEW c \in S
  PROVE  <<a>> \o <<b>> = <<a, b>> /\ <<a>> \o <<b, c>> = <<a, b, c>>
<1>1. /\ <<a>> \in Seq(S) /\ <<b>> \in Seq(S) /\ <<b, c>> \in Seq(S)
      /\ <<a, b>> \in Seq(S) /\ <<a, b, c>> \in Seq(S)
      /\ Len(<<a>>) = 1 /\ Len(<<b>>) = 1 /\ Len(<<b, c>>) = 2
      /\ Len(<<a, b>>) = 2 /\ Len(<<a, b, c>>) = 3
  OBVIOUS
<1>2. <<a>> \o <<b>> = <<a, b>>
  <2> DEFINE s == <<a>> \o <<b>>
  <2>1. s \in Seq(S) /\ Len(s) = 2 /\ s[1] = a /\ s[2] = b
    BY <1>1, ConcatProperties
  <2> HIDE DEF s
  <2>2. \A i \in 1..2 : s[i] = <<a, b>>[i]
    BY <2>1
  <2>3. s = <<a, b>>
    BY <1>1, <2>1, <2>2, SeqEqual
  <2>. QED
    BY <2>3 DEF s
<1>3. <<a>> \o <<b, c>> = <<a, b, c>>
  <2> DEFINE s == <<a>> \o <<b, c>>
  <2>1. s \in Seq(S) /\ Len(s) = 3 /\ s[1] = a /\ s[2] = b /\ s[3] = c
    BY <1>1, ConcatProperties
  <2> HIDE DEF s
  <2>2. \A i \in 1..3 : s[i] = <<a, b, c>>[i]
    BY <2>1
  <2>3. s = <<a, b, c>>
    BY <1>1, <2>1, <2>2, SeqEqual
  <2>. QED
    BY <2>3 DEF s
<1>. QED
  BY <1>2, <1>3

\* What start, stop, keep_alive and reload_service put before what is left.
LEMMA PutFirst ==
  /\ <<"popen">> \o <<>> = <<"popen">> /\ <<"lock">> \o <<>> = <<"lock">>
  /\ <<"unlock">> \o <<>> = <<"unlock">> /\ <<"unlock">> \o <<"start">> = <<"unlock", "start">>
  /\ <<"unlock">> \o StartNew = <<"unlock", "define", "start">>
  /\ RestartOps \o <<>> = RestartOps
  /\ <<"stop">> \o StartNew \o <<>> = <<"stop", "define", "start">>
<1>1. /\ {"popen", "lock", "unlock", "stop", "define", "start"} \subseteq Operations
      /\ <<"popen">> \in Seq(Operations) /\ <<"lock">> \in Seq(Operations)
      /\ <<"unlock">> \in Seq(Operations) /\ <<"stop", "start">> \in Seq(Operations)
      /\ <<"stop", "define", "start">> \in Seq(Operations)
  BY DEF Operations
<1>2. /\ <<"unlock">> \o <<"start">> = <<"unlock", "start">>
      /\ <<"unlock">> \o <<"define", "start">> = <<"unlock", "define", "start">>
      /\ <<"stop">> \o <<"define", "start">> = <<"stop", "define", "start">>
  <2>1. \A a, b, c \in Operations : <<a>> \o <<b>> = <<a, b>> /\ <<a>> \o <<b, c>> = <<a, b, c>>
    BY OneFirst
  <2>2. /\ <<"unlock">> \o <<"start">> = <<"unlock", "start">>
        /\ <<"unlock">> \o <<"define", "start">> = <<"unlock", "define", "start">>
    BY <1>1, <2>1, Zenon
  <2>3. <<"stop">> \o <<"define", "start">> = <<"stop", "define", "start">>
    BY <1>1, <2>1, Zenon
  <2>. QED
    BY <2>2, <2>3
<1>. QED
  BY <1>1, <1>2, ConcatEmptySeq DEF StartNew, RestartOps

\* An operation is one that is left to do, of the service that d is at or of
\* one whose turn has come (refittd for loops).
LEMMA DoingGoes ==
  ASSUME IInv, NEW d \in Daemons, NEW s \in Services, NEW op, Doing(d, op, s)
  PROVE  /\ todo[d][s] \in Plans /\ todo[d][s] # <<>> /\ Head(todo[d][s]) = op
         /\ at[d] \in {None, s} /\ mode[d] \in {"starting", "serving", "exiting"}
         /\ todo[d][s] \in IF at[d] = s THEN InTurn(mode[d]) ELSE Waiting(mode[d])
         /\ InDictionary(d, s) /\ ("stubborn" \notin Faults => AliveInDictionary(d, s))
<1>1. Stage(d, s) /\ TypeOK
  BY DEF IInv
<1>2. mode[d] \in {"off", "starting", "serving", "exiting"}
  BY <1>1 DEF TypeOK
<1>3. at[d] \in {None, s} /\ todo[d][s] # <<>> /\ Head(todo[d][s]) = op
  BY DEF Doing
<1>4. todo[d][s] \in IF at[d] = s THEN InTurn(mode[d]) ELSE Waiting(mode[d])
  BY <1>1 DEF Stage
<1>5. mode[d] # "off"
  BY <1>3, <1>4 DEF InTurn, Waiting
<1>6. todo[d][s] \in Plans
  BY <1>2, <1>4, Zenon DEF Plans
<1>. QED
  BY <1>1, <1>2, <1>3, <1>4, <1>5, <1>6 DEF Stage

\* d goes on with s; the other services and daemons wait.
LEMMA ThenGoes ==
  ASSUME TypeOK, NEW d \in Daemons, NEW s \in Services, NEW ops \in Plans, Then(d, s, ops),
         at[d] \in {None, s}
  PROVE  /\ todo' \in [Daemons -> [Services -> Seq(Operations)]]
         /\ at' \in [Daemons -> Services \cup {None}]
         /\ todo'[d][s] = ops /\ at'[d] = (IF ops = <<>> THEN None ELSE s)
         /\ \A e \in Daemons, r \in Services : e # d \/ r # s =>
              todo'[e][r] = todo[e][r] /\ (at'[e] = r <=> at[e] = r)
<1>1. /\ todo \in [Daemons -> [Services -> Seq(Operations)]]
      /\ at \in [Daemons -> Services \cup {None}]
  BY DEF TypeOK
<1>2. ops \in Seq(Operations)
  BY PlanTypes
<1>3. /\ todo' = [todo EXCEPT ![d][s] = ops]
      /\ at' = [at EXCEPT ![d] = IF ops = <<>> THEN None ELSE s]
  BY DEF Then
<1>4. /\ todo' \in [Daemons -> [Services -> Seq(Operations)]] /\ todo'[d][s] = ops
      /\ \A e \in Daemons, r \in Services : e # d \/ r # s => todo'[e][r] = todo[e][r]
  BY <1>1, <1>2, <1>3
<1>5. /\ at' \in [Daemons -> Services \cup {None}]
      /\ at'[d] = (IF ops = <<>> THEN None ELSE s)
      /\ \A e \in Daemons : e # d => at'[e] = at[e]
  BY <1>1, <1>3
<1>6. \A r \in Services : r # None
  BY NoneAssumption
<1>7. ASSUME NEW e \in Daemons, NEW r \in Services, e # d \/ r # s
      PROVE  at'[e] = r <=> at[e] = r
  BY <1>5, <1>6, <1>7
<1>. QED
  BY <1>4, <1>5, <1>7

\* The same, for whichever operations are left.
LEMMA GoesOn ==
  ASSUME IInv, NEW d \in Daemons, NEW s \in Services, NEW op, Doing(d, op, s)
  PROVE  \A ops \in Plans : Then(d, s, ops) =>
           todo'[d][s] = ops /\ at'[d] = IF ops = <<>> THEN None ELSE s
<1>1. TypeOK /\ at[d] \in {None, s}
  BY DoingGoes DEF IInv
<1>. QED
  BY <1>1, ThenGoes

\* A daemon that has nothing to do with this service leaves its stage as it is.
LEMMA OthersStay ==
  ASSUME NEW e \in Daemons, NEW r \in Services, Stage(e, r),
         todo'[e][r] = todo[e][r], defined'[e][r] = defined[e][r], process'[e][r] = process[e][r],
         mode'[e] = mode[e], all'[e] = all[e], read'[e][r] = read[e][r],
         at'[e] = r <=> at[e] = r, IsAlive(e, r)' => IsAlive(e, r)
  PROVE  Stage(e, r)'
<1>1. todo'[e][r] \in IF at'[e] = r THEN InTurn(mode'[e]) ELSE Waiting(mode'[e])
  BY DEF Stage
<1>2. InDictionary(e, r)'
  <2>1. InDictionary(e, r) /\ (Current(e, r)' <=> Current(e, r))
    BY DEF Stage, Current
  <2>. QED
    BY <2>1 DEF InDictionary
<1>3. "stubborn" \notin Faults => AliveInDictionary(e, r)'
  BY DEF Stage, AliveInDictionary
<1>. QED
  BY <1>1, <1>2, <1>3 DEF Stage, InTurn, Waiting

\* An operation of d on s changes nothing of what there is of others.
LEMMA OperationHolds ==
  ASSUME IInv, NEW d \in Daemons, NEW s \in Services, NEW ops \in Plans, Then(d, s, ops),
         at[d] \in {None, s}, UNCHANGED <<config, read, port, mode, all>>,
         pidfile' \in [Services -> Pids \cup {None}], running' \subseteq Processes,
         defined' \in [Daemons -> [Services -> Versions \cup {None}]],
         process' \in [Daemons -> [Services -> Pids \cup {None}]],
         \A e \in Daemons, r \in Services : e # d \/ r # s =>
           /\ defined'[e][r] = defined[e][r] /\ process'[e][r] = process[e][r]
           /\ IsAlive(e, r)' => IsAlive(e, r),
         Stage(d, s)'
  PROVE  IInv'
<1>1. TypeOK /\ \A e \in Daemons, r \in Services : Stage(e, r)
  BY DEF IInv
<1>2. /\ todo' \in [Daemons -> [Services -> Seq(Operations)]]
      /\ at' \in [Daemons -> Services \cup {None}]
      /\ \A e \in Daemons, r \in Services : e # d \/ r # s =>
           todo'[e][r] = todo[e][r] /\ (at'[e] = r <=> at[e] = r)
  BY <1>1, ThenGoes
<1>3. TypeOK'
  BY <1>1, <1>2 DEF TypeOK
<1>4. ASSUME NEW e \in Daemons, NEW r \in Services, e # d \/ r # s PROVE Stage(e, r)'
  BY <1>1, <1>2, <1>4, OthersStay
<1>. QED
  BY <1>3, <1>4 DEF IInv
------------------------------------------------------------------------------
(***************************************************************************)
(* The operations, for any number of daemons.                              *)
(***************************************************************************)
\* What there may be left to do with the service that a daemon is at.
LEMMA ArePlans ==
  /\ {<<>>, <<"start">>, <<"popen">>, <<"lock">>, <<"stop">>, <<"unlock">>, StartNew, RestartOps,
      <<"unlock", "start">>, <<"stop", "define", "start">>, <<"unlock", "define", "start">>}
       \subseteq Plans
  /\ {<<"start">>, <<"popen">>, <<"lock">>} \subseteq InTurn("starting")
  /\ {<<"start">>, <<"popen">>, <<"lock">>, <<"stop">>, <<"unlock">>, StartNew, RestartOps,
      <<"unlock", "start">>, <<"stop", "define", "start">>, <<"unlock", "define", "start">>}
       \subseteq InTurn("serving")
  /\ <<"unlock">> \in InTurn("exiting") /\ <<>> \notin InTurn("serving")
<1>1. <<>> \in Waiting("off")
  BY DEF Waiting
<1>2. /\ {<<"start">>, <<"popen">>, <<"lock">>} \subseteq InTurn("starting")
      /\ {<<"start">>, <<"popen">>, <<"lock">>, <<"stop">>, <<"unlock">>, StartNew, RestartOps,
          <<"unlock", "start">>, <<"stop", "define", "start">>, <<"unlock", "define", "start">>}
           \subseteq InTurn("serving")
      /\ <<"unlock">> \in InTurn("exiting")
  BY DEF InTurn, Starting, Replacing
<1>3. /\ Waiting("off") \subseteq Plans /\ InTurn("serving") \subseteq Plans
  BY DEF Plans
<1>4. <<>> \notin InTurn("serving")
  BY DEF InTurn, Starting, Replacing, StartNew, RestartOps
<1>. QED
  BY <1>1, <1>2, <1>3, <1>4

\* A service is put in the dictionary (service.py __init__).
LEMMA DefineHolds ==
  ASSUME IInv, NEW d \in Daemons, NEW s \in Services, Define(d, s)
  PROVE  IInv'
<1>1. Doing(d, "define", s) /\ TypeOK
  BY DEF Define, IInv
<1>2. /\ todo[d][s] = StartNew /\ at[d] \in {None, s} /\ mode[d] \in {"starting", "serving", "exiting"}
      /\ todo[d][s] \in IF at[d] = s THEN InTurn(mode[d]) ELSE Waiting(mode[d])
      /\ InDictionary(d, s)
  BY <1>1, DoingGoes, NextOperation
<1>3. mode[d] \in {"starting", "serving"}
  BY <1>2 DEF InTurn, Waiting, StartNew
<1>4. read[d][s] # None
  BY <1>2 DEF InDictionary
<1>5. <<"start">> \in Plans /\ Then(d, s, <<"start">>)
  BY <1>2, AfterOperation, ArePlans DEF Define, Rest
<1>6. /\ todo'[d][s] = <<"start">> /\ at'[d] = s
  <2>1. <<"start">> # <<>>
    OBVIOUS
  <2>. QED
    BY <1>1, <1>5, <2>1, GoesOn
<1>7. /\ defined' \in [Daemons -> [Services -> Versions \cup {None}]]
      /\ process' \in [Daemons -> [Services -> Pids \cup {None}]]
      /\ defined'[d][s] = read[d][s] /\ process'[d][s] = None
      /\ \A e \in Daemons, r \in Services : e # d \/ r # s =>
           defined'[e][r] = defined[e][r] /\ process'[e][r] = process[e][r]
  BY <1>1 DEF Define, TypeOK
<1>8. UNCHANGED <<config, read, pidfile, running, port, mode, all>>
  BY DEF Define
<1>9. ~IsAlive(d, s)'
  BY <1>1, <1>7, <1>8, NoneAssumption DEF TypeOK, IsAlive, Processes
<1>10. Stage(d, s)'
  <2>1. todo'[d][s] \in InTurn(mode'[d])
    BY <1>3, <1>6, <1>8 DEF InTurn, Starting
  <2>2. Current(d, s)' /\ defined'[d][s] # None
    BY <1>4, <1>7, <1>8 DEF Current
  <2>3. InDictionary(d, s)'
    BY <1>3, <1>6, <1>8, <2>2 DEF InDictionary, Replacing, StartNew
  <2>. QED
    BY <1>6, <1>9, <2>1, <2>3 DEF Stage, AliveInDictionary
<1>11. \A e \in Daemons, r \in Services : e # d \/ r # s => (IsAlive(e, r)' => IsAlive(e, r))
  BY <1>7, <1>8 DEF IsAlive
<1>12. pidfile' \in [Services -> Pids \cup {None}] /\ running' \subseteq Processes
  BY <1>1, <1>8 DEF TypeOK
<1>. QED
  BY <1>2, <1>5, <1>7, <1>8, <1>10, <1>11, <1>12, OperationHolds

\* A service that is not locked is to be started (service.py start).
LEMMA UnlockedHolds ==
  ASSUME IInv, NEW d \in Daemons, NEW s \in Services, Doing(d, "start", s),
         Then(d, s, <<"popen">> \o Rest(d, s)),
         UNCHANGED <<config, read, pidfile, running, port, mode, all, defined, process>>
  PROVE  IInv'
<1>1. /\ todo[d][s] = <<"start">> /\ at[d] \in {None, s} /\ mode[d] \in {"starting", "serving", "exiting"}
      /\ todo[d][s] \in IF at[d] = s THEN InTurn(mode[d]) ELSE Waiting(mode[d])
      /\ InDictionary(d, s) /\ ("stubborn" \notin Faults => AliveInDictionary(d, s))
  BY DoingGoes, NextOperation
<1>2. TypeOK
  BY DEF IInv
<1>3. mode[d] \in {"starting", "serving"}
  BY <1>1 DEF InTurn, Waiting, StartNew
<1>4. <<"popen">> \in Plans /\ Then(d, s, <<"popen">>)
  BY <1>1, AfterOperation, ArePlans, PutFirst DEF Rest
<1>5. todo'[d][s] = <<"popen">> /\ at'[d] = s
  <2>1. <<"popen">> # <<>>
    OBVIOUS
  <2>. QED
    BY <1>4, <2>1, GoesOn
<1>6. "stubborn" \notin Faults => ~IsAlive(d, s)
  BY <1>1 DEF AliveInDictionary, RestartOps
<1>7. \A e \in Daemons, r \in Services : IsAlive(e, r)' <=> IsAlive(e, r)
  BY DEF IsAlive
<1>8. Stage(d, s)'
  <2>1. todo'[d][s] \in InTurn(mode'[d])
    BY <1>3, <1>5, ArePlans
  <2>2. Current(d, s)' /\ defined'[d][s] # None
    BY <1>1 DEF Current, InDictionary, Starting
  <2>3. InDictionary(d, s)'
    BY <1>3, <1>5, <2>2 DEF InDictionary, Replacing, StartNew
  <2>. QED
    BY <1>5, <1>6, <1>7, <2>1, <2>3 DEF Stage, AliveInDictionary
<1>. QED
  BY <1>1, <1>2, <1>4, <1>7, <1>8, OperationHolds DEF TypeOK

\* A process is started (service.py start).
LEMMA StartedHolds ==
  ASSUME IInv, NEW d \in Daemons, NEW s \in Services, Doing(d, "popen", s),
         NEW pid \in FreePids,
         running' = running \cup {[pid |-> pid, service |-> s, version |-> defined[d][s]]},
         process' = [process EXCEPT ![d][s] = pid],
         Then(d, s, <<"lock">> \o Rest(d, s)),
         UNCHANGED <<config, read, pidfile, port, mode, all, defined>>
  PROVE  IInv'
<1>1. /\ todo[d][s] = <<"popen">> /\ at[d] \in {None, s} /\ mode[d] \in {"starting", "serving", "exiting"}
      /\ todo[d][s] \in IF at[d] = s THEN InTurn(mode[d]) ELSE Waiting(mode[d])
      /\ InDictionary(d, s)
  BY DoingGoes, NextOperation
<1>2. TypeOK
  BY DEF IInv
<1>3. mode[d] \in {"starting", "serving"}
  BY <1>1 DEF InTurn, Waiting, StartNew
<1>4. <<"lock">> \in Plans /\ Then(d, s, <<"lock">>)
  BY <1>1, AfterOperation, ArePlans, PutFirst DEF Rest
<1>5. todo'[d][s] = <<"lock">> /\ at'[d] = s
  <2>1. <<"lock">> # <<>>
    OBVIOUS
  <2>. QED
    BY <1>4, <2>1, GoesOn
<1>6. defined[d][s] \in Versions /\ Current(d, s)
  BY <1>1, <1>2 DEF InDictionary, Starting, TypeOK
<1>7. /\ pid \in Pids /\ \A p \in running : p.pid # pid
      /\ \A e \in Daemons, r \in Services : process[e][r] # pid
  BY DEF FreePids
<1>8. /\ process' \in [Daemons -> [Services -> Pids \cup {None}]] /\ process'[d][s] = pid
      /\ \A e \in Daemons, r \in Services : e # d \/ r # s => process'[e][r] = process[e][r]
  BY <1>2, <1>7 DEF TypeOK
<1>9. running' \subseteq Processes
  BY <1>2, <1>6, <1>7 DEF TypeOK, Processes
<1>10. ASSUME NEW e \in Daemons, NEW r \in Services, e # d \/ r # s, IsAlive(e, r)'
       PROVE  IsAlive(e, r)
  BY <1>7, <1>8, <1>10 DEF IsAlive
<1>11. Stage(d, s)'
  <2>1. todo'[d][s] \in InTurn(mode'[d])
    BY <1>3, <1>5, ArePlans
  <2>2. Current(d, s)' /\ defined'[d][s] # None
    BY <1>6, NoneAssumption DEF Current
  <2>3. InDictionary(d, s)'
    BY <1>3, <1>5, <2>2 DEF InDictionary, Replacing, StartNew
  <2>4. AliveInDictionary(d, s)'
    BY <1>3, <1>5, <2>2 DEF AliveInDictionary
  <2>. QED
    BY <1>5, <2>1, <2>3, <2>4 DEF Stage
<1>. QED
  BY <1>1, <1>2, <1>4, <1>8, <1>9, <1>10, <1>11, OperationHolds DEF TypeOK

\* The pidfile of a process is written (service.py lock).
LEMMA LockHolds ==
  ASSUME IInv, NEW d \in Daemons, NEW s \in Services, Lock(d, s)
  PROVE  IInv'
<1>1. Doing(d, "lock", s)
  BY DEF Lock
<1>2. /\ todo[d][s] = <<"lock">> /\ at[d] \in {None, s} /\ mode[d] \in {"starting", "serving", "exiting"}
      /\ todo[d][s] \in IF at[d] = s THEN InTurn(mode[d]) ELSE Waiting(mode[d])
      /\ InDictionary(d, s) /\ TypeOK
  BY <1>1, DoingGoes, NextOperation DEF IInv
<1>3. mode[d] \in {"starting", "serving"}
  BY <1>2 DEF InTurn, Waiting, StartNew
<1>4. <<>> \in Plans /\ Then(d, s, <<>>)
  BY <1>2, AfterOperation, ArePlans DEF Lock, Rest
<1>5. todo'[d][s] = <<>> /\ at'[d] = None
  BY <1>1, <1>4, GoesOn
<1>6. UNCHANGED <<config, read, running, port, mode, all, defined, process>>
  BY DEF Lock
<1>7. pidfile' \in [Services -> Pids \cup {None}]
  BY <1>2 DEF Lock, TypeOK
<1>8. \A e \in Daemons, r \in Services : IsAlive(e, r)' <=> IsAlive(e, r)
  BY <1>6 DEF IsAlive
<1>9. Stage(d, s)'
  <2>1. todo'[d][s] \in Waiting(mode'[d]) /\ at'[d] # s
    BY <1>3, <1>5, <1>6, NoneAssumption DEF Waiting
  <2>2. Current(d, s)' /\ defined'[d][s] # None
    BY <1>2, <1>6 DEF Current, InDictionary, Starting
  <2>3. InDictionary(d, s)'
    BY <1>3, <1>5, <1>6, <2>2
       DEF InDictionary, Starting, Replacing, StartNew, RestartOps
  <2>4. AliveInDictionary(d, s)'
    BY <1>3, <1>5, <1>6, <2>2 DEF AliveInDictionary
  <2>. QED
    BY <2>1, <2>3, <2>4 DEF Stage
<1>. QED
  BY <1>2, <1>4, <1>6, <1>7, <1>8, <1>9, OperationHolds DEF TypeOK

\* A process is told to stop (service.py stop).
LEMMA StopServiceHolds ==
  ASSUME IInv, NEW d \in Daemons, NEW s \in Services, StopService(d, s)
  PROVE  IInv'
<1>1. Doing(d, "stop", s) /\ TypeOK
  BY DEF StopService, IInv
<1>2. /\ todo[d][s] \in {<<"stop">>, RestartOps, <<"stop", "define", "start">>}
      /\ at[d] \in {None, s} /\ mode[d] \in {"starting", "serving", "exiting"}
      /\ todo[d][s] \in IF at[d] = s THEN InTurn(mode[d]) ELSE Waiting(mode[d])
      /\ InDictionary(d, s)
  BY <1>1, DoingGoes, NextOperation
<1> DEFINE ops == <<"unlock">> \o Rest(d, s)
<1>3. \/ todo[d][s] = <<"stop">> /\ ops = <<"unlock">>
      \/ todo[d][s] = RestartOps /\ ops = <<"unlock", "start">>
      \/ todo[d][s] = <<"stop", "define", "start">> /\ ops = <<"unlock", "define", "start">>
  BY <1>2, AfterOperation, PutFirst DEF Rest
<1>4. ops \in Plans /\ ops # <<>>
  BY <1>3, ArePlans
<1>5. Then(d, s, ops) /\ UNCHANGED <<config, read, pidfile, port, mode, all, defined, process>>
  BY DEF StopService
<1>6. running' \subseteq running
  BY DEF StopService
<1>7. "stubborn" \notin Faults => ~IsAlive(d, s)'
  BY <1>5 DEF StopService, IsAlive
<1> HIDE DEF ops
<1>8. todo'[d][s] = ops /\ at'[d] = s
  BY <1>1, <1>4, <1>5, GoesOn
<1>9. \A e \in Daemons, r \in Services : IsAlive(e, r)' => IsAlive(e, r)
  BY <1>5, <1>6 DEF IsAlive
<1>10. Stage(d, s)'
  <2>1. CASE todo[d][s] = <<"stop">> /\ ops = <<"unlock">>
    <3>1. mode[d] \in {"serving", "exiting"}
      BY <1>2, <2>1 DEF InTurn, Waiting, Starting, StartNew
    <3>2. todo'[d][s] \in InTurn(mode'[d])
      BY <1>5, <1>8, <2>1, <3>1, ArePlans
    <3>3. InDictionary(d, s)'
      BY <1>2, <1>5, <1>8, <2>1, <3>1
         DEF InDictionary, Starting, Replacing, StartNew, RestartOps
    <3>. QED
      BY <1>7, <1>8, <3>2, <3>3 DEF Stage, AliveInDictionary
  <2>2. CASE todo[d][s] = RestartOps /\ ops = <<"unlock", "start">>
    <3>1. mode[d] = "serving"
      BY <1>2, <2>2 DEF InTurn, Waiting, Starting, StartNew, RestartOps
    <3>2. todo'[d][s] \in InTurn(mode'[d])
      BY <1>5, <1>8, <2>2, <3>1, ArePlans
    <3>3. Current(d, s)' /\ defined'[d][s] # None
      BY <1>2, <1>5, <2>2 DEF Current, InDictionary
    <3>4. InDictionary(d, s)'
      BY <1>5, <1>8, <2>2, <3>1, <3>3
         DEF InDictionary, Starting, Replacing, StartNew, RestartOps
    <3>. QED
      BY <1>7, <1>8, <3>2, <3>4 DEF Stage, AliveInDictionary
  <2>3. CASE todo[d][s] = <<"stop", "define", "start">> /\ ops = <<"unlock", "define", "start">>
    <3>1. mode[d] = "serving"
      BY <1>2, <2>3 DEF InTurn, Waiting, Starting, StartNew
    <3>2. todo'[d][s] \in InTurn(mode'[d])
      BY <1>5, <1>8, <2>3, <3>1, ArePlans
    <3>3. read'[d][s] # None /\ defined'[d][s] # None
      BY <1>2, <1>5, <2>3 DEF InDictionary, Replacing
    <3>4. InDictionary(d, s)'
      BY <1>5, <1>8, <2>3, <3>1, <3>3
         DEF InDictionary, Starting, Replacing, StartNew, RestartOps
    <3>. QED
      BY <1>7, <1>8, <3>2, <3>4 DEF Stage, AliveInDictionary
  <2>. QED
    BY <1>3, <2>1, <2>2, <2>3
<1>. QED
  BY <1>1, <1>2, <1>4, <1>5, <1>6, <1>9, <1>10, OperationHolds DEF TypeOK

\* The pidfile is removed (service.py unlock).
LEMMA UnlockHolds ==
  ASSUME IInv, NEW d \in Daemons, NEW s \in Services, Unlock(d, s)
  PROVE  IInv'
<1>1. Doing(d, "unlock", s) /\ TypeOK
  BY DEF Unlock, IInv
<1>2. /\ todo[d][s] \in {<<"unlock">>, <<"unlock", "start">>, <<"unlock", "define", "start">>}
      /\ at[d] \in {None, s} /\ mode[d] \in {"starting", "serving", "exiting"}
      /\ todo[d][s] \in IF at[d] = s THEN InTurn(mode[d]) ELSE Waiting(mode[d])
      /\ InDictionary(d, s) /\ ("stubborn" \notin Faults => AliveInDictionary(d, s))
  BY <1>1, DoingGoes, NextOperation
<1> DEFINE ops == Rest(d, s)
<1>3. \/ todo[d][s] = <<"unlock">> /\ ops = <<>>
      \/ todo[d][s] = <<"unlock", "start">> /\ ops = <<"start">>
      \/ todo[d][s] = <<"unlock", "define", "start">> /\ ops = StartNew
  BY <1>2, AfterOperation DEF Rest
<1>4. ops \in Plans
  BY <1>3, ArePlans
<1>5. Then(d, s, ops) /\ UNCHANGED <<config, read, running, port, mode, all, defined, process>>
  BY DEF Unlock
<1> HIDE DEF ops
<1>6. todo'[d][s] = ops /\ at'[d] = IF ops = <<>> THEN None ELSE s
  BY <1>1, <1>4, <1>5, GoesOn
<1>7. pidfile' \in [Services -> Pids \cup {None}]
  BY <1>1 DEF Unlock, TypeOK
<1>8. \A e \in Daemons, r \in Services : IsAlive(e, r)' <=> IsAlive(e, r)
  BY <1>5 DEF IsAlive
<1>9. "stubborn" \notin Faults => ~IsAlive(d, s)
  BY <1>2 DEF AliveInDictionary, RestartOps
<1>10. Stage(d, s)'
  <2>1. CASE todo[d][s] = <<"unlock">> /\ ops = <<>>
    <3>1. mode[d] \in {"serving", "exiting"}
      BY <1>2, <2>1 DEF InTurn, Waiting, Starting, StartNew
    <3>2. todo'[d][s] \in Waiting(mode'[d]) /\ at'[d] # s
      BY <1>5, <1>6, <2>1, <3>1, NoneAssumption DEF Waiting
    <3>3. mode[d] = "serving" => defined'[d][s] = None /\ read'[d][s] = None
      BY <1>2, <1>5, <2>1 DEF InDictionary
    <3>4. InDictionary(d, s)'
      BY <1>5, <1>6, <2>1, <3>1, <3>3
         DEF InDictionary, Current, Starting, Replacing, StartNew, RestartOps
    <3>. QED
      BY <1>8, <1>9, <3>2, <3>4 DEF Stage, AliveInDictionary
  <2>2. CASE todo[d][s] = <<"unlock", "start">> /\ ops = <<"start">>
    <3>1. mode[d] = "serving"
      BY <1>2, <2>2 DEF InTurn, Waiting, Starting, StartNew, RestartOps
    <3>2. todo'[d][s] \in InTurn(mode'[d]) /\ at'[d] = s
      BY <1>5, <1>6, <2>2, <3>1, ArePlans
    <3>3. Current(d, s)' /\ defined'[d][s] # None
      BY <1>2, <1>5, <2>2 DEF Current, InDictionary
    <3>4. InDictionary(d, s)'
      BY <1>5, <1>6, <2>2, <3>1, <3>3
         DEF InDictionary, Starting, Replacing, StartNew, RestartOps
    <3>. QED
      BY <1>8, <1>9, <3>2, <3>4 DEF Stage, AliveInDictionary
  <2>3. CASE todo[d][s] = <<"unlock", "define", "start">> /\ ops = StartNew
    <3>1. mode[d] = "serving"
      BY <1>2, <2>3 DEF InTurn, Waiting, Starting, StartNew
    <3>2. todo'[d][s] \in InTurn(mode'[d]) /\ at'[d] = s
      BY <1>5, <1>6, <2>3, <3>1, ArePlans DEF StartNew
    <3>3. read'[d][s] # None /\ defined'[d][s] # None
      BY <1>2, <1>5, <2>3 DEF InDictionary, Replacing
    <3>4. InDictionary(d, s)'
      BY <1>5, <1>6, <2>3, <3>1, <3>3
         DEF InDictionary, Starting, Replacing, StartNew, RestartOps
    <3>. QED
      BY <1>8, <1>9, <3>2, <3>4 DEF Stage, AliveInDictionary
  <2>. QED
    BY <1>3, <2>1, <2>2, <2>3
<1>. QED
  BY <1>1, <1>2, <1>4, <1>5, <1>7, <1>8, <1>10, OperationHolds DEF TypeOK

\* A service that died is restarted (service.py keep_alive).
LEMMA CheckHolds ==
  ASSUME IInv, NEW d \in Daemons, NEW s \in Services, KeepAliveService(d, s)
  PROVE  IInv'
<1>1. Doing(d, "check", s) /\ TypeOK
  BY DEF KeepAliveService, IInv
<1>2. /\ todo[d][s] = <<"check">>
      /\ at[d] \in {None, s} /\ mode[d] \in {"starting", "serving", "exiting"}
      /\ todo[d][s] \in IF at[d] = s THEN InTurn(mode[d]) ELSE Waiting(mode[d])
      /\ InDictionary(d, s) /\ ("stubborn" \notin Faults => AliveInDictionary(d, s))
  BY <1>1, DoingGoes, NextOperation
<1> DEFINE ops == IF IsAlive(d, s) THEN Rest(d, s) ELSE RestartOps \o Rest(d, s)
<1>3. ops = IF IsAlive(d, s) THEN <<>> ELSE RestartOps
  BY <1>2, AfterOperation, PutFirst DEF Rest
<1>4. ops \in Plans
  BY <1>3, ArePlans
<1>5. /\ Then(d, s, ops)
      /\ UNCHANGED <<config, read, pidfile, running, port, mode, all, defined, process>>
  BY DEF KeepAliveService
<1> HIDE DEF ops
<1>6. todo'[d][s] = ops /\ at'[d] = IF ops = <<>> THEN None ELSE s
  BY <1>1, <1>4, <1>5, GoesOn
<1>7. \A e \in Daemons, r \in Services : IsAlive(e, r)' <=> IsAlive(e, r)
  BY <1>5 DEF IsAlive
<1>8. mode[d] = "serving"
  BY <1>2 DEF InTurn, Waiting, Starting, Replacing, StartNew, RestartOps
<1>9. Current(d, s)' /\ defined'[d][s] # None
  BY <1>2, <1>5 DEF Current, InDictionary
<1>10. Stage(d, s)'
  <2>1. CASE ops = <<>>
    <3>1. todo'[d][s] \in Waiting(mode'[d]) /\ at'[d] # s
      BY <1>5, <1>6, <1>8, <2>1, NoneAssumption DEF Waiting
    <3>2. InDictionary(d, s)'
      BY <1>5, <1>6, <1>8, <1>9, <2>1
         DEF InDictionary, Starting, Replacing, StartNew, RestartOps
    <3>. QED
      BY <1>5, <1>6, <1>8, <1>9, <2>1, <3>1, <3>2 DEF Stage, AliveInDictionary
  <2>2. CASE ops = RestartOps
    <3>1. todo'[d][s] \in InTurn(mode'[d]) /\ at'[d] = s
      <4>1. RestartOps # <<>>
        BY DEF RestartOps
      <4>. QED
        BY <1>5, <1>6, <1>8, <2>2, <4>1, ArePlans
    <3>2. InDictionary(d, s)'
      BY <1>5, <1>6, <1>8, <1>9, <2>2
         DEF InDictionary, Starting, Replacing, StartNew, RestartOps
    <3>. QED
      BY <1>5, <1>6, <1>8, <1>9, <2>2, <3>1, <3>2 DEF Stage, AliveInDictionary
  <2>. QED
    BY <1>3, <2>1, <2>2
<1>. QED
  BY <1>1, <1>2, <1>4, <1>5, <1>7, <1>10, OperationHolds DEF TypeOK

\* A service is taken out of the dictionary (refittd reload).
LEMMA PopHolds ==
  ASSUME IInv, NEW d \in Daemons, NEW s \in Services, PopService(d, s)
  PROVE  IInv'
<1>1. Doing(d, "pop", s) /\ TypeOK
  BY DEF PopService, IInv
<1>2. /\ todo[d][s] = <<"pop", "stop">>
      /\ at[d] \in {None, s} /\ mode[d] \in {"starting", "serving", "exiting"}
      /\ todo[d][s] \in IF at[d] = s THEN InTurn(mode[d]) ELSE Waiting(mode[d])
      /\ InDictionary(d, s)
  BY <1>1, DoingGoes, NextOperation
<1>3. <<"stop">> \in Plans /\ Then(d, s, <<"stop">>)
  BY <1>2, AfterOperation, ArePlans DEF PopService, Rest
<1>4. todo'[d][s] = <<"stop">> /\ at'[d] = s
  <2>1. <<"stop">> # <<>>
    OBVIOUS
  <2>. QED
    BY <1>1, <1>3, <2>1, GoesOn
<1>5. UNCHANGED <<config, read, pidfile, running, port, mode, all, process>>
  BY DEF PopService
<1>6. /\ defined' \in [Daemons -> [Services -> Versions \cup {None}]] /\ defined'[d][s] = None
      /\ \A e \in Daemons, r \in Services : e # d \/ r # s => defined'[e][r] = defined[e][r]
  BY <1>1 DEF PopService, TypeOK
<1>7. \A e \in Daemons, r \in Services : IsAlive(e, r)' <=> IsAlive(e, r)
  BY <1>5 DEF IsAlive
<1>8. mode[d] = "serving"
  BY <1>2 DEF InTurn, Waiting, Starting, Replacing, StartNew, RestartOps
<1>9. Stage(d, s)'
  <2>1. todo'[d][s] \in InTurn(mode'[d])
    BY <1>4, <1>5, <1>8, ArePlans
  <2>2. read'[d][s] = None
    BY <1>2, <1>5 DEF InDictionary
  <2>3. InDictionary(d, s)'
    <3>1. todo'[d][s] = <<"stop">> /\ mode'[d] = "serving" /\ defined'[d][s] = None
      BY <1>4, <1>5, <1>6, <1>8
    <3>2. <<"stop">> \notin {<<>>, StartNew, RestartOps, <<"reload">>, <<"check">>, <<"pop", "stop">>,
                           <<"unlock", "start">>} \cup Starting \cup Replacing
      BY DEF Starting, Replacing, StartNew, RestartOps
    <3>. QED
      BY <2>2, <3>1, <3>2 DEF InDictionary
  <2>. QED
    BY <1>4, <2>1, <2>3 DEF Stage, AliveInDictionary
<1>. QED
  <2>1. /\ pidfile' \in [Services -> Pids \cup {None}] /\ running' \subseteq Processes
        /\ process' \in [Daemons -> [Services -> Pids \cup {None}]] /\ at[d] \in {None, s}
        /\ UNCHANGED <<config, read, port, mode, all, process>>
    BY <1>1, <1>2, <1>5 DEF TypeOK
  <2>2. \A e \in Daemons, r \in Services : e # d \/ r # s =>
          /\ defined'[e][r] = defined[e][r] /\ process'[e][r] = process[e][r]
          /\ IsAlive(e, r)' => IsAlive(e, r)
    BY <1>6, <1>7, <2>1
  <2>. QED
    BY <1>3, <1>6, <1>9, <2>1, <2>2, OperationHolds

\* A service is replaced if its definition changed (refittd reload_service).
LEMMA ReloadServiceHolds ==
  ASSUME IInv, NEW d \in Daemons, NEW s \in Services, ReloadService(d, s)
  PROVE  IInv'
<1>1. Doing(d, "reload", s) /\ TypeOK
  BY DEF ReloadService, IInv
<1>2. /\ todo[d][s] = <<"reload">>
      /\ at[d] \in {None, s} /\ mode[d] \in {"starting", "serving", "exiting"}
      /\ todo[d][s] \in IF at[d] = s THEN InTurn(mode[d]) ELSE Waiting(mode[d])
      /\ InDictionary(d, s) /\ ("stubborn" \notin Faults => AliveInDictionary(d, s))
  BY <1>1, DoingGoes, NextOperation
<1> DEFINE ops == IF defined[d][s] = read[d][s] THEN Rest(d, s)
                  ELSE <<"stop">> \o StartNew \o Rest(d, s)
<1>3. ops = IF defined[d][s] = read[d][s] THEN <<>> ELSE <<"stop", "define", "start">>
  BY <1>2, AfterOperation, PutFirst DEF Rest
<1>4. ops \in Plans
  BY <1>3, ArePlans
<1>5. /\ Then(d, s, ops)
      /\ UNCHANGED <<config, read, pidfile, running, port, mode, all, defined, process>>
  BY DEF ReloadService
<1> HIDE DEF ops
<1>6. todo'[d][s] = ops /\ at'[d] = IF ops = <<>> THEN None ELSE s
  BY <1>1, <1>4, <1>5, GoesOn
<1>7. \A e \in Daemons, r \in Services : IsAlive(e, r)' <=> IsAlive(e, r)
  BY <1>5 DEF IsAlive
<1>8. mode[d] = "serving"
  BY <1>2 DEF InTurn, Waiting, Starting, Replacing, StartNew, RestartOps
<1>9. defined'[d][s] # None /\ read'[d][s] # None
  BY <1>2, <1>5 DEF InDictionary
<1>10. Stage(d, s)'
  <2>1. CASE ops = <<>>
    <3>1. todo'[d][s] \in Waiting(mode'[d]) /\ at'[d] # s
      BY <1>5, <1>6, <1>8, <2>1, NoneAssumption DEF Waiting
    <3>2. defined'[d][s] = read'[d][s]
      <4>1. <<"stop", "define", "start">> # <<>>
        OBVIOUS
      <4>. QED
        BY <1>3, <1>5, <2>1, <4>1
    <3>3. InDictionary(d, s)'
      BY <1>5, <1>6, <1>8, <1>9, <2>1, <3>2
         DEF InDictionary, Current, Starting, Replacing, StartNew, RestartOps
    <3>. QED
      BY <1>5, <1>6, <1>8, <1>9, <2>1, <3>1, <3>3 DEF Stage, AliveInDictionary
  <2>2. CASE ops = <<"stop", "define", "start">>
    <3>1. todo'[d][s] \in InTurn(mode'[d]) /\ at'[d] = s
      BY <1>5, <1>6, <1>8, <2>2, ArePlans
    <3>2. InDictionary(d, s)'
      BY <1>5, <1>6, <1>8, <1>9, <2>2
         DEF InDictionary, Starting, Replacing, StartNew, RestartOps
    <3>. QED
      BY <1>5, <1>6, <1>8, <1>9, <2>2, <3>1, <3>2 DEF Stage, AliveInDictionary
  <2>. QED
    BY <1>3, <2>1, <2>2
<1>. QED
  BY <1>1, <1>2, <1>4, <1>5, <1>7, <1>10, OperationHolds DEF TypeOK
------------------------------------------------------------------------------
(***************************************************************************)
(* What a daemon decides to do, for any number of daemons.                 *)
(***************************************************************************)
\* A daemon that has nothing left to do is at no service (refittd for loops).
LEMMA AtNone ==
  ASSUME IInv, NEW d \in Daemons, Done(d)
  PROVE  \A s \in Services : /\ at[d] # s /\ todo[d][s] = <<>> /\ Stage(d, s)
                             /\ todo[d][s] \in Waiting(mode[d])
<1>1. ASSUME NEW s \in Services
      PROVE  at[d] # s /\ todo[d][s] = <<>> /\ Stage(d, s) /\ todo[d][s] \in Waiting(mode[d])
  <2>1. Stage(d, s) /\ TypeOK /\ todo[d][s] = <<>>
    BY DEF IInv, Done
  <2>2. mode[d] \in {"off", "starting", "serving", "exiting"}
    BY <2>1 DEF TypeOK
  <2>3. at[d] # s
    BY <2>1, <2>2 DEF Stage, InTurn, Starting, Replacing, StartNew, RestartOps
  <2>. QED
    BY <2>1, <2>3 DEF Stage
<1>. QED
  BY <1>1

\* A daemon that has nothing left to do is not about to stop a service
\* (refittd await_action).
LEMMA StopIsLeft ==
  ASSUME NEW d, Done(d)
  PROVE  \A s \in Services : todo[d][s] # <<"stop">>
<1>1. <<"stop">> # <<>>
  OBVIOUS
<1>. QED
  BY <1>1, Zenon DEF Done

\* Each service of a daemon that goes to other things waits for its turn.
LEMMA GotoGoes ==
  ASSUME TypeOK, NEW d \in Daemons, NEW plan \in [Services -> Plans], Goto(d, plan)
  PROVE  /\ todo' \in [Daemons -> [Services -> Seq(Operations)]]
         /\ at' \in [Daemons -> Services \cup {None}]
         /\ \A s \in Services : todo'[d][s] = plan[s] /\ at'[d] # s
         /\ \A e \in Daemons : e # d => todo'[e] = todo[e] /\ at'[e] = at[e]
<1>1. plan \in [Services -> Seq(Operations)]
  BY PlanTypes
<1>. QED
  BY <1>1, NoneAssumption DEF TypeOK, Goto

\* What one daemon does changes nothing of what there is of the others.
LEMMA DaemonHolds ==
  ASSUME IInv, NEW d \in Daemons, TypeOK', UNCHANGED running,
         \A e \in Daemons : e # d =>
           /\ todo'[e] = todo[e] /\ at'[e] = at[e] /\ mode'[e] = mode[e] /\ all'[e] = all[e]
           /\ read'[e] = read[e] /\ defined'[e] = defined[e] /\ process'[e] = process[e],
         \A s \in Services : Stage(d, s)'
  PROVE  IInv'
<1>1. ASSUME NEW e \in Daemons, NEW r \in Services, e # d PROVE Stage(e, r)'
  <2>1. Stage(e, r)
    BY DEF IInv
  <2>2. IsAlive(e, r)' => IsAlive(e, r)
    BY <1>1 DEF IsAlive
  <2>. QED
    BY <1>1, <2>1, <2>2, OthersStay
<1>. QED
  BY <1>1 DEF IInv

\* A daemon on its way out stops every service that it has (refittd __exit__).
LEMMA LeaveHolds ==
  ASSUME IInv, NEW d \in Daemons, mode[d] \in {"starting", "serving"}, Leave(d),
         UNCHANGED <<config, read, pidfile, running, all, defined, process>>,
         \A s \in Services : todo[d][s] # <<"stop">>
  PROVE  IInv'
<1>1. TypeOK /\ \A s \in Services : Stage(d, s)
  BY DEF IInv
<1> DEFINE plan == ForEach(Named(defined[d]), <<"stop">>)
<1>2. /\ plan \in [Services -> Plans]
      /\ \A s \in Services : plan[s] = IF defined[d][s] # None THEN <<"stop">> ELSE <<>>
  BY ArePlans DEF ForEach, Named
<1>3. Goto(d, plan) /\ mode' = [mode EXCEPT ![d] = "exiting"]
      /\ port' \in {port, None}
  BY DEF Leave
<1> HIDE DEF plan
<1>4. /\ todo' \in [Daemons -> [Services -> Seq(Operations)]]
      /\ at' \in [Daemons -> Services \cup {None}]
      /\ \A s \in Services : todo'[d][s] = plan[s] /\ at'[d] # s
      /\ \A e \in Daemons : e # d => todo'[e] = todo[e] /\ at'[e] = at[e]
  BY <1>1, <1>2, <1>3, GotoGoes
<1>5. TypeOK' /\ mode'[d] = "exiting" /\ \A e \in Daemons : e # d => mode'[e] = mode[e]
  BY <1>1, <1>3, <1>4 DEF TypeOK
<1>6. ASSUME NEW s \in Services PROVE Stage(d, s)'
  <2>1. todo'[d][s] = IF defined[d][s] # None THEN <<"stop">> ELSE <<>>
    BY <1>2, <1>4
  <2>2. todo'[d][s] \in Waiting(mode'[d]) /\ at'[d] # s
    BY <1>4, <1>5, <2>1 DEF Waiting
  <2>3. InDictionary(d, s)'
    BY <1>5, <2>1 DEF InDictionary, Starting, Replacing, StartNew, RestartOps
  <2>4. "stubborn" \notin Faults => AliveInDictionary(d, s)'
    BY <1>1, <2>1 DEF Stage, AliveInDictionary, IsAlive
  <2>. QED
    BY <2>2, <2>3, <2>4 DEF Stage
<1>. QED
  BY <1>3, <1>4, <1>5, <1>6, DaemonHolds

\* A daemon is started with the names of services (refittd start_services).
LEMMA LaunchHolds ==
  ASSUME IInv, NEW d \in Daemons, Launch(d)
  PROVE  IInv'
<1>1. TypeOK /\ \A s \in Services : Stage(d, s)
  BY DEF IInv
<1>2. PICK S \in SUBSET Named(config), a \in BOOLEAN :
        /\ S # {} /\ (a => S = Named(config))
        /\ all' = [all EXCEPT ![d] = a]
        /\ Goto(d, ForEach(S, StartNew))
  BY DEF Launch
<1>3. /\ mode[d] = "off" /\ mode' = [mode EXCEPT ![d] = "starting"]
      /\ read' = [read EXCEPT ![d] = config]
      /\ UNCHANGED <<config, pidfile, running, port, defined, process>>
  BY DEF Launch
<1> DEFINE plan == ForEach(S, StartNew)
<1>4. plan \in [Services -> Plans] /\ \A s \in Services : plan[s] = IF s \in S THEN StartNew ELSE <<>>
  BY ArePlans DEF ForEach
<1>5. Goto(d, plan)
  BY <1>2
<1> HIDE DEF plan
<1>6. /\ todo' \in [Daemons -> [Services -> Seq(Operations)]]
      /\ at' \in [Daemons -> Services \cup {None}]
      /\ \A s \in Services : todo'[d][s] = plan[s] /\ at'[d] # s
      /\ \A e \in Daemons : e # d => todo'[e] = todo[e] /\ at'[e] = at[e]
  BY <1>1, <1>4, <1>5, GotoGoes
<1>7. /\ TypeOK' /\ mode'[d] = "starting" /\ read'[d] = config /\ all'[d] = a
      /\ \A e \in Daemons : e # d => mode'[e] = mode[e] /\ all'[e] = all[e] /\ read'[e] = read[e]
  BY <1>1, <1>2, <1>3, <1>6 DEF TypeOK
<1>8. ASSUME NEW s \in Services PROVE Stage(d, s)'
  <2>1. todo'[d][s] = IF s \in S THEN StartNew ELSE <<>>
    BY <1>4, <1>6
  <2>2. todo'[d][s] \in Waiting(mode'[d]) /\ at'[d] # s
    BY <1>6, <1>7, <2>1 DEF Waiting
  <2>3. /\ defined'[d][s] = None /\ process'[d][s] = None /\ (s \in S => read'[d][s] # None)
        /\ (s \notin S /\ all'[d] => read'[d][s] = None)
    BY <1>1, <1>2, <1>3, <1>7 DEF Stage, InDictionary, Named
  <2>4. InDictionary(d, s)'
    BY <1>7, <2>1, <2>3 DEF InDictionary, Current, Starting, Replacing, StartNew, RestartOps
  <2>5. ~IsAlive(d, s)'
    BY <1>7, <2>3, NoneAssumption DEF TypeOK, IsAlive, Processes
  <2>. QED
    BY <2>2, <2>4, <2>5 DEF Stage, AliveInDictionary
<1>. QED
  BY <1>3, <1>6, <1>7, <1>8, DaemonHolds

\* The daemon awaits actions, or cannot bind the port (apps/refittd run).
LEMMA ServeHolds ==
  ASSUME IInv, NEW d \in Daemons, Serve(d)
  PROVE  IInv'
<1>1. /\ mode[d] = "starting" /\ Done(d)
      /\ UNCHANGED <<config, read, pidfile, running, all, defined, process>>
  BY DEF Serve
<1>2. CASE /\ port' = d
           /\ mode' = [mode EXCEPT ![d] = "serving"]
           /\ UNCHANGED <<todo, at>>
  <2>1. TypeOK
    BY DEF IInv
  <2>2. TypeOK' /\ mode'[d] = "serving" /\ \A e \in Daemons : e # d => mode'[e] = mode[e]
    BY <1>1, <1>2, <2>1 DEF TypeOK
  <2>3. ASSUME NEW s \in Services PROVE Stage(d, s)'
    <3>1. at[d] # s /\ todo[d][s] = <<>> /\ Stage(d, s)
      BY <1>1, AtNone
    <3>2. todo'[d][s] \in Waiting(mode'[d]) /\ at'[d] # s
      BY <1>2, <2>2, <3>1 DEF Waiting
    <3>3. InDictionary(d, s)'
      BY <1>1, <1>2, <2>2, <3>1
         DEF Stage, InDictionary, Current, Starting, Replacing, StartNew, RestartOps
    <3>4. "stubborn" \notin Faults => AliveInDictionary(d, s)'
      BY <1>1, <1>2, <2>2, <3>1 DEF Stage, AliveInDictionary, IsAlive
    <3>. QED
      BY <3>2, <3>3, <3>4 DEF Stage
  <2>. QED
    BY <1>1, <1>2, <2>2, <2>3, DaemonHolds
<1>3. CASE Leave(d)
  <2>1. \A s \in Services : todo[d][s] # <<"stop">>
    BY <1>1, StopIsLeft
  <2>. QED
    BY <1>1, <1>3, <2>1, LeaveHolds
<1>. QED
  BY <1>2, <1>3 DEF Serve

\* A daemon that was asked to stop leaves (refittd stop).
LEMMA StopHolds ==
  ASSUME IInv, NEW d \in Daemons, Stop(d)
  PROVE  IInv'
<1>1. \A s \in Services : todo[d][s] # <<"stop">>
  BY StopIsLeft DEF Stop, Idle
<1>. QED
  BY <1>1, LeaveHolds DEF Stop, Idle

\* A daemon that awaits actions has the definitions of the configuration that
\* it read last, and goes through its services (refittd keep_alive, restart).
LEMMA RoundHolds ==
  ASSUME IInv, NEW d \in Daemons, Idle(d), NEW ops \in {<<"check">>, RestartOps},
         Goto(d, ForEach(Named(defined[d]), ops)),
         UNCHANGED <<config, read, pidfile, running, port, mode, all, defined, process>>
  PROVE  IInv'
<1>1. TypeOK /\ \A s \in Services : Stage(d, s)
  BY DEF IInv
<1>2. ops \in Plans /\ ops \in Waiting("serving") /\ ops # <<>>
  BY DEF Plans, Waiting, RestartOps
<1> DEFINE plan == ForEach(Named(defined[d]), ops)
<1>3. /\ plan \in [Services -> Plans]
      /\ \A s \in Services : plan[s] = IF defined[d][s] # None THEN ops ELSE <<>>
  BY <1>2, ArePlans DEF ForEach, Named
<1>4. Goto(d, plan)
  OBVIOUS
<1> HIDE DEF plan
<1>5. /\ todo' \in [Daemons -> [Services -> Seq(Operations)]]
      /\ at' \in [Daemons -> Services \cup {None}]
      /\ \A s \in Services : todo'[d][s] = plan[s] /\ at'[d] # s
      /\ \A e \in Daemons : e # d => todo'[e] = todo[e] /\ at'[e] = at[e]
  BY <1>1, <1>3, <1>4, GotoGoes
<1>6. TypeOK'
  BY <1>1, <1>5 DEF TypeOK
<1>7. ASSUME NEW s \in Services PROVE Stage(d, s)'
  <2>1. todo'[d][s] = IF defined[d][s] # None THEN ops ELSE <<>>
    BY <1>3, <1>5
  <2>2. todo[d][s] = <<>> /\ mode[d] = "serving"
    BY AtNone DEF Idle
  <2>3. todo'[d][s] \in Waiting(mode'[d]) /\ at'[d] # s
    BY <1>2, <1>5, <2>1, <2>2 DEF Waiting
  <2>4. Current(d, s)'
    BY <1>1, <2>2 DEF Stage, InDictionary, Current
  <2>5. InDictionary(d, s)'
    <3>1. mode'[d] = "serving" /\ defined'[d][s] = defined[d][s]
      BY <2>2
    <3>2. CASE defined[d][s] = None
      BY <2>1, <2>4, <3>1, <3>2
         DEF InDictionary, Starting, Replacing, StartNew, RestartOps
    <3>3. CASE defined[d][s] # None /\ ops = <<"check">>
      BY <2>1, <2>4, <3>1, <3>3
         DEF InDictionary, Starting, Replacing, StartNew, RestartOps
    <3>4. CASE defined[d][s] # None /\ ops = RestartOps
      BY <2>1, <2>4, <3>1, <3>4
         DEF InDictionary, Starting, Replacing, StartNew, RestartOps
    <3>. QED
      BY <3>2, <3>3, <3>4
  <2>6. "stubborn" \notin Faults => AliveInDictionary(d, s)'
    BY <1>1, <2>1, <2>2 DEF Stage, AliveInDictionary, IsAlive
  <2>. QED
    BY <2>3, <2>5, <2>6 DEF Stage
<1>. QED
  BY <1>5, <1>6, <1>7, DaemonHolds

\* The services are checked after a while without a request (refittd keep_alive).
LEMMA RefreshHolds ==
  ASSUME IInv, NEW d \in Daemons, Refresh(d)
  PROVE  IInv'
  BY RoundHolds DEF Refresh

\* All services are restarted (refittd restart).
LEMMA RestartHolds ==
  ASSUME IInv, NEW d \in Daemons, Restart(d)
  PROVE  IInv'
  BY RoundHolds DEF Restart

\* The configuration is read again, or has no service left (refittd reload).
LEMMA ReloadHolds ==
  ASSUME IInv, NEW d \in Daemons, Reload(d)
  PROVE  IInv'
<1>1. TypeOK /\ (\A s \in Services : Stage(d, s)) /\ Idle(d) /\ mode[d] = "serving"
  BY DEF IInv, Reload, Idle
<1>2. UNCHANGED <<config, pidfile, running, all, defined, process>>
  BY DEF Reload
<1>3. CASE /\ Goto(d, ReloadOps(d))
           /\ read' = [read EXCEPT ![d] = config]
           /\ UNCHANGED <<mode, port>>
  <2> DEFINE plan == ReloadOps(d)
  <2>1. /\ plan \in [Services -> Plans]
        /\ \A s \in Services : plan[s] =
             IF defined[d][s] # None /\ config[s] # None THEN <<"reload">>
             ELSE IF ~all[d] THEN <<>>
             ELSE IF defined[d][s] # None THEN <<"pop", "stop">>
             ELSE IF config[s] # None THEN StartNew
             ELSE <<>>
    <3>1. {<<"reload">>, <<"pop", "stop">>, StartNew, <<>>} \subseteq Waiting("serving")
      BY DEF Waiting
    <3>2. Waiting("serving") \subseteq Plans
      BY DEF Plans
    <3>. QED
      BY <3>1, <3>2 DEF ReloadOps, Named
  <2>2. Goto(d, plan)
    BY <1>3
  <2> HIDE DEF plan
  <2>3. /\ todo' \in [Daemons -> [Services -> Seq(Operations)]]
        /\ at' \in [Daemons -> Services \cup {None}]
        /\ \A s \in Services : todo'[d][s] = plan[s] /\ at'[d] # s
        /\ \A e \in Daemons : e # d => todo'[e] = todo[e] /\ at'[e] = at[e]
    BY <1>1, <2>1, <2>2, GotoGoes
  <2>4. TypeOK' /\ read'[d] = config /\ \A e \in Daemons : e # d => read'[e] = read[e]
    BY <1>1, <1>2, <1>3, <2>3 DEF TypeOK
  <2>5. ASSUME NEW s \in Services PROVE Stage(d, s)'
    <3>1. todo'[d][s] =
             IF defined[d][s] # None /\ config[s] # None THEN <<"reload">>
             ELSE IF ~all[d] THEN <<>>
             ELSE IF defined[d][s] # None THEN <<"pop", "stop">>
             ELSE IF config[s] # None THEN StartNew
             ELSE <<>>
      BY <2>1, <2>3
    <3>2. todo[d][s] = <<>>
      BY <1>1, AtNone DEF Idle
    <3>3. todo'[d][s] \in Waiting(mode'[d]) /\ at'[d] # s
      BY <1>1, <1>3, <2>3, <3>1 DEF Waiting
    <3>4. InDictionary(d, s)'
      BY <1>1, <1>2, <1>3, <2>4, <3>1
         DEF InDictionary, Current, Starting, Replacing, StartNew, RestartOps
    <3>5. "stubborn" \notin Faults => AliveInDictionary(d, s)'
      BY <1>1, <1>2, <1>3, <3>1, <3>2 DEF Stage, AliveInDictionary, IsAlive
    <3>. QED
      BY <3>3, <3>4, <3>5 DEF Stage
  <2>. QED
    BY <1>2, <1>3, <2>3, <2>4, <2>5, DaemonHolds
<1>4. CASE Leave(d) /\ UNCHANGED read
  <2>1. \A s \in Services : todo[d][s] # <<"stop">>
    BY <1>1, StopIsLeft DEF Idle
  <2>. QED
    BY <1>1, <1>2, <1>4, <2>1, LeaveHolds
<1>. QED
  BY <1>3, <1>4 DEF Reload

\* The daemon's objects end with it (apps/refittd run).
LEMMA EndHolds ==
  ASSUME IInv, NEW d \in Daemons, \A s \in Services : todo'[d][s] = <<>> /\ at'[d] # s,
         \A e \in Daemons : e # d => todo'[e] = todo[e] /\ at'[e] = at[e],
         todo' \in [Daemons -> [Services -> Seq(Operations)]],
         at' \in [Daemons -> Services \cup {None}],
         mode' = [mode EXCEPT ![d] = "off"], port' \in {port, None},
         defined' = [defined EXCEPT ![d] = [s \in Services |-> None]],
         process' = [process EXCEPT ![d] = [s \in Services |-> None]],
         all' = [all EXCEPT ![d] = FALSE],
         UNCHANGED <<config, read, pidfile, running>>
  PROVE  IInv'
<1>1. TypeOK
  BY DEF IInv
<1>2. /\ TypeOK' /\ mode'[d] = "off"
      /\ \A s \in Services : defined'[d][s] = None /\ process'[d][s] = None
      /\ \A e \in Daemons : e # d =>
           /\ mode'[e] = mode[e] /\ all'[e] = all[e]
           /\ defined'[e] = defined[e] /\ process'[e] = process[e]
  BY <1>1 DEF TypeOK
<1>3. ASSUME NEW s \in Services PROVE Stage(d, s)'
  <2>1. todo'[d][s] \in Waiting(mode'[d]) /\ at'[d] # s
    BY <1>2 DEF Waiting
  <2>2. InDictionary(d, s)'
    <3>1. /\ todo'[d][s] = <<>> /\ mode'[d] = "off"
          /\ defined'[d][s] = None /\ process'[d][s] = None
      BY <1>2
    <3>. QED
      BY <3>1 DEF InDictionary, Starting, Replacing, StartNew, RestartOps
  <2>3. ~IsAlive(d, s)'
    BY <1>2, NoneAssumption DEF TypeOK, IsAlive, Processes
  <2>. QED
    BY <2>1, <2>2, <2>3 DEF Stage, AliveInDictionary
<1>. QED
  BY <1>2, <1>3, DaemonHolds

\* The daemon ends by itself (apps/refittd run).
LEMMA ExitHolds ==
  ASSUME IInv, NEW d \in Daemons, Exit(d)
  PROVE  IInv'
<1>1. /\ Done(d) /\ UNCHANGED <<config, read, pidfile, running, port, todo, at>>
      /\ mode' = [mode EXCEPT ![d] = "off"]
      /\ defined' = [defined EXCEPT ![d] = [s \in Services |-> None]]
      /\ process' = [process EXCEPT ![d] = [s \in Services |-> None]]
      /\ all' = [all EXCEPT ![d] = FALSE]
  BY DEF Exit
<1>2. \A s \in Services : todo'[d][s] = <<>> /\ at'[d] # s
  BY <1>1, AtNone
<1>3. /\ todo' \in [Daemons -> [Services -> Seq(Operations)]]
      /\ at' \in [Daemons -> Services \cup {None}]
  BY <1>1 DEF IInv, TypeOK
<1>. QED
  BY <1>1, <1>2, <1>3, EndHolds

\* The daemon is killed (daemon/service.py: no __exit__ runs).
LEMMA KilledHolds ==
  ASSUME IInv, NEW d \in Daemons, Killed(d)
  PROVE  IInv'
<1>1. TypeOK
  BY DEF IInv
<1> DEFINE plan == ForEach({}, <<>>)
<1>2. plan \in [Services -> Plans] /\ \A s \in Services : plan[s] = <<>>
  BY ArePlans DEF ForEach
<1>3. /\ Goto(d, plan) /\ port' \in {port, None}
      /\ mode' = [mode EXCEPT ![d] = "off"]
      /\ defined' = [defined EXCEPT ![d] = [s \in Services |-> None]]
      /\ process' = [process EXCEPT ![d] = [s \in Services |-> None]]
      /\ all' = [all EXCEPT ![d] = FALSE]
      /\ UNCHANGED <<config, read, pidfile, running>>
  BY DEF Killed
<1> HIDE DEF plan
<1>4. /\ todo' \in [Daemons -> [Services -> Seq(Operations)]]
      /\ at' \in [Daemons -> Services \cup {None}]
      /\ \A s \in Services : todo'[d][s] = plan[s] /\ at'[d] # s
      /\ \A e \in Daemons : e # d => todo'[e] = todo[e] /\ at'[e] = at[e]
  BY <1>1, <1>2, <1>3, GotoGoes
<1>5. \A s \in Services : todo'[d][s] = <<>> /\ at'[d] # s
  BY <1>2, <1>4
<1>. QED
  BY <1>3, <1>4, <1>5, EndHolds

\* A process cannot be started, or the service is locked: the daemon leaves
\* (service.py start).
LEMMA FailedHolds ==
  ASSUME IInv, NEW d \in Daemons, NEW s \in Services, NEW op \in {"start", "popen"},
         Doing(d, op, s), Leave(d),
         UNCHANGED <<config, read, pidfile, running, all, defined, process>>
  PROVE  IInv'
<1>1. /\ todo[d][s] \in {<<"start">>, <<"popen">>}
      /\ at[d] \in {None, s} /\ mode[d] \in {"starting", "serving", "exiting"}
      /\ todo[d][s] \in IF at[d] = s THEN InTurn(mode[d]) ELSE Waiting(mode[d])
  BY DoingGoes, NextOperation
<1>2. mode[d] \in {"starting", "serving"} /\ at[d] = s
  BY <1>1 DEF InTurn, Waiting, StartNew, RestartOps
<1>3. ASSUME NEW r \in Services PROVE todo[d][r] # <<"stop">>
  <2>1. CASE r = s
    BY <1>1, <2>1
  <2>2. CASE r # s
    <3>1. todo[d][r] \in Waiting(mode[d])
      BY <1>2, <2>2 DEF IInv, Stage
    <3>2. Waiting("starting") = {<<>>, StartNew}
      BY DEF Waiting
    <3>3. Waiting("serving") =
            {<<>>, StartNew, RestartOps, <<"check">>, <<"reload">>, <<"pop", "stop">>}
      BY DEF Waiting
    <3>4. /\ <<"stop">> # <<>> /\ <<"stop">> # StartNew /\ <<"stop">> # RestartOps
          /\ <<"stop">> # <<"check">> /\ <<"stop">> # <<"reload">> /\ <<"stop">> # <<"pop", "stop">>
      BY DEF StartNew, RestartOps
    <3>. QED
      BY <1>2, <3>1, <3>2, <3>3, <3>4, Zenon
  <2>. QED
    BY <2>1, <2>2
<1>. QED
  BY <1>2, <1>3, LeaveHolds

\* The daemon's thread does one operation of one service (refittd, service.py).
LEMMA OperateHolds ==
  ASSUME IInv, NEW d \in Daemons, Operate(d)
  PROVE  IInv'
<1>1. PICK s \in Services :
        \/ Define(d, s) \/ StartService(d, s) \/ Popen(d, s) \/ Lock(d, s)
        \/ StopService(d, s) \/ Unlock(d, s)
        \/ KeepAliveService(d, s) \/ PopService(d, s) \/ ReloadService(d, s)
  BY DEF Operate
<1>2. CASE StartService(d, s)
  <2>1. CASE Then(d, s, <<"popen">> \o Rest(d, s)) /\ UNCHANGED <<mode, port>>
    BY <1>2, <2>1, UnlockedHolds DEF StartService
  <2>2. CASE Leave(d)
    BY <1>2, <2>2, FailedHolds DEF StartService
  <2>. QED
    BY <1>2, <2>1, <2>2 DEF StartService
<1>3. CASE Popen(d, s)
  <2>1. CASE /\ \E pid \in FreePids :
                  /\ running' = running \cup
                       {[pid |-> pid, service |-> s, version |-> defined[d][s]]}
                  /\ process' = [process EXCEPT ![d][s] = pid]
             /\ Then(d, s, <<"lock">> \o Rest(d, s))
             /\ UNCHANGED <<mode, port>>
    BY <1>3, <2>1, StartedHolds DEF Popen
  <2>2. CASE Leave(d) /\ UNCHANGED <<running, process>>
    BY <1>3, <2>2, FailedHolds DEF Popen
  <2>. QED
    BY <1>3, <2>1, <2>2 DEF Popen
<1>. QED
  BY <1>1, <1>2, <1>3, DefineHolds, LockHolds, StopServiceHolds, UnlockHolds,
     CheckHolds, PopHolds, ReloadServiceHolds

\* What the daemon does not do: an edit, and the end of a process or of a server
\* that was left behind, change nothing that it keeps (refittd reads the configuration only when told to).
LEMMA OutsideHolds ==
  ASSUME IInv,
         (\E s \in Services : Edit(s)) \/ ProcessExits \/ ServerEnds \/ UNCHANGED vars
  PROVE  IInv'
<1>1. /\ UNCHANGED <<read, pidfile, mode, all, todo, at, defined, process>>
      /\ running' \subseteq running
  BY DEF Edit, ProcessExits, ServerEnds, vars
<1>2. /\ config \in [Services -> Versions \cup {None}] /\ port \in Daemons \cup {None}
      /\ TypeOK
  BY DEF IInv, TypeOK
<1>3. config' \in [Services -> Versions \cup {None}] /\ port' \in Daemons \cup {None}
  <2>1. CASE \E s \in Services : Edit(s)
    BY <1>2, <2>1 DEF Edit
  <2>2. CASE ProcessExits \/ ServerEnds \/ UNCHANGED vars
    BY <1>2, <2>2 DEF ProcessExits, ServerEnds, vars
  <2>. QED
    BY <2>1, <2>2
<1>4. TypeOK'
  BY <1>1, <1>2, <1>3 DEF TypeOK
<1>5. ASSUME NEW e \in Daemons, NEW r \in Services PROVE Stage(e, r)'
  <2>1. Stage(e, r)
    BY DEF IInv
  <2>2. IsAlive(e, r)' => IsAlive(e, r)
    BY <1>1 DEF IsAlive
  <2>. QED
    BY <1>1, <2>1, <2>2, OthersStay
<1>. QED
  BY <1>4, <1>5 DEF IInv

\* Nothing is there before the first daemon (apps/refittd).
LEMMA InitHolds == Init => IInv
<1>. SUFFICES ASSUME Init PROVE IInv
  OBVIOUS
<1>1. TypeOK
  <2>1. <<>> \in Seq(Operations) /\ Pids \cup {None} # {} /\ None \in Versions \cup {None}
    OBVIOUS
  <2>. QED
    BY <2>1 DEF Init, TypeOK, ForEach
<1>2. ASSUME NEW d \in Daemons, NEW s \in Services PROVE Stage(d, s)
  <2>1. /\ todo[d][s] = <<>> /\ at[d] # s /\ mode[d] = "off" /\ running = {}
        /\ defined[d][s] = None /\ process[d][s] = None
    BY NoneAssumption DEF Init, ForEach
  <2>. QED
    BY <2>1 DEF Stage, Waiting, InDictionary, Starting, Replacing, StartNew, RestartOps,
                AliveInDictionary, IsAlive
<1>. QED
  BY <1>1, <1>2 DEF IInv

\* The invariant is inductive, for any number of daemons (apps/refittd).
LEMMA NextHolds == IInv /\ [Next]_vars => IInv'
  BY LaunchHolds, ServeHolds, OperateHolds, RefreshHolds, RestartHolds, ReloadHolds,
     StopHolds, ExitHolds, KilledHolds, OutsideHolds
     DEF Next

\* Every daemon goes through its services one by one, and what it does next
\* fits what it has (daemon/service.py, apps/refittd).
THEOREM Invariant == Spec => []IInv
  BY InitHolds, NextHolds, PTL DEF Spec

\* Every variable has its type, for any number of daemons (apps/refittd).
THEOREM TypeCorrect == Spec => []TypeOK
  BY Invariant, PTL DEF IInv

\* However many daemons there are, and whichever of them are killed: a daemon
\* on its way out leaves none of the processes that it started, as long as no
\* process outlives SIGTERM (service.py stop; refittd __exit__).
THEOREM StopsOwn == ("stubborn" \notin Faults) => (Spec => []ExitStopsOwn)
<1>. SUFFICES ASSUME "stubborn" \notin Faults PROVE Spec => []ExitStopsOwn
  OBVIOUS
<1>1. IInv => ExitStopsOwn
  <2> SUFFICES ASSUME IInv, NEW d \in Daemons, mode[d] = "exiting", Done(d), NEW s \in Services
               PROVE  ~IsAlive(d, s)
    BY DEF ExitStopsOwn
  <2>1. todo[d][s] = <<>> /\ Stage(d, s)
    BY AtNone
  <2>2. <<"stop">> # <<>>
    OBVIOUS
  <2>. QED
    BY <2>1, <2>2 DEF Stage, AliveInDictionary
<1>. QED
  BY <1>1, Invariant, PTL

\* However many daemons there are: one that awaits actions has the
\* definitions that it read last (refittd reload).
THEOREM Reloaded == Spec => []ReloadComplete
<1>1. IInv => ReloadComplete
  <2> SUFFICES ASSUME IInv, NEW d \in Daemons, Idle(d)
               PROVE  /\ all[d] => defined[d] = read[d]
                      /\ \A s \in Named(defined[d]) \cap Named(read[d]) :
                           defined[d][s] = read[d][s]
    BY DEF ReloadComplete
  <2>1. ASSUME NEW s \in Services PROVE Current(d, s)
    BY AtNone DEF Idle, Stage, InDictionary
  <2>2. defined[d] \in [Services -> Versions \cup {None}] /\ read[d] \in [Services -> Versions \cup {None}]
    BY DEF IInv, TypeOK
  <2>3. all[d] => defined[d] = read[d]
    BY <2>1, <2>2 DEF Current
  <2>. QED
    BY <2>1, <2>3 DEF Current, Named
<1>. QED
  BY <1>1, Invariant, PTL
------------------------------------------------------------------------------
(***************************************************************************)
(* One daemon that is not killed.                                          *)
(***************************************************************************)
\* A service that the daemon is not at is as it was.
LEMMA SoleStays ==
  ASSUME NEW d \in Daemons, NEW r \in Services, Sole(d, r),
         todo'[d][r] = todo[d][r], mode'[d] = mode[d], pidfile'[r] = pidfile[r],
         process'[d][r] = process[d][r], defined'[d][r] = defined[d][r],
         \A p \in running' : p.service = r => p \in running
  PROVE  Sole(d, r)'
<1>1. /\ Gone(r) => Gone(r)'
      /\ Ours(d, r) => Ours(d, r)'
      /\ AsDefined(d, r) => AsDefined(d, r)'
  BY DEF Gone, Ours, AsDefined
<1>2. Locked(d, r) => Locked(d, r)'
  BY <1>1 DEF Locked
<1>. QED
  BY <1>1, <1>2 DEF Sole

\* An operation of the daemon on s changes nothing of what there is of other
\* services.
LEMMA SoleOperation ==
  ASSUME IInv, OneDaemon, SoleInv, NEW d \in Daemons, NEW s \in Services, NEW ops \in Plans,
         Then(d, s, ops), at[d] \in {None, s}, mode' = mode,
         \A r \in Services : r # s =>
           /\ pidfile'[r] = pidfile[r] /\ process'[d][r] = process[d][r]
           /\ defined'[d][r] = defined[d][r]
           /\ \A p \in running' : p.service = r => p \in running,
         Sole(d, s)', OneProcess'
  PROVE  SoleInv'
<1>1. \A r \in Services : r # s => todo'[d][r] = todo[d][r]
  BY ThenGoes DEF IInv
<1>2. ASSUME NEW r \in Services, r # s PROVE Sole(d, r)'
  BY <1>1, <1>2, SoleStays DEF SoleInv
<1>3. \A e \in Daemons : e = d
  BY DEF OneDaemon
<1>. QED
  BY <1>2, <1>3 DEF SoleInv

\* Processes that end leave no second one.
LEMMA FewerProcesses ==
  ASSUME OneProcess, running' \subseteq running
  PROVE  OneProcess'
  BY DEF OneProcess

\* A service is put in the dictionary (service.py __init__).
LEMMA DefineSole ==
  ASSUME IInv, OneDaemon, SoleInv, NEW d \in Daemons, NEW s \in Services, Define(d, s)
  PROVE  SoleInv'
<1>1. Doing(d, "define", s) /\ TypeOK
  BY DEF Define, IInv
<1>2. todo[d][s] = StartNew /\ at[d] \in {None, s}
  BY <1>1, DoingGoes, NextOperation
<1>3. <<"start">> \in Plans /\ Then(d, s, <<"start">>)
  BY <1>2, AfterOperation, ArePlans DEF Define, Rest
<1>4. todo'[d][s] = <<"start">>
  BY <1>1, <1>3, GoesOn
<1>5. /\ UNCHANGED <<pidfile, running, mode>>
      /\ \A r \in Services : r # s =>
           defined'[d][r] = defined[d][r] /\ process'[d][r] = process[d][r]
  BY <1>1 DEF Define, TypeOK
<1>6. Sole(d, s)'
  <2>1. pidfile[s] = None /\ Gone(s)
    BY <1>2 DEF SoleInv, Sole
  <2>2. pidfile'[s] = None /\ Gone(s)'
    BY <1>5, <2>1 DEF Gone
  <2>. QED
    BY <1>4, <2>2 DEF Sole, RestartOps
<1>7. OneProcess'
  BY <1>5, FewerProcesses DEF SoleInv
<1>. QED
  BY <1>2, <1>3, <1>5, <1>6, <1>7, SoleOperation

\* The service is not locked: its process is to be started (service.py start).
LEMMA UnlockedSole ==
  ASSUME IInv, OneDaemon, SoleInv, NEW d \in Daemons, NEW s \in Services,
         StartService(d, s)
  PROVE  SoleInv'
<1>1. Doing(d, "start", s)
  BY DEF StartService
<1>2. todo[d][s] = <<"start">> /\ at[d] \in {None, s}
  BY <1>1, DoingGoes, NextOperation
<1>3. pidfile[s] = None /\ Gone(s)
  BY <1>2 DEF SoleInv, Sole
<1>4. <<"popen">> \in Plans /\ Then(d, s, <<"popen">>)
      /\ UNCHANGED <<pidfile, running, mode, defined, process>>
  BY <1>2, <1>3, AfterOperation, ArePlans, PutFirst DEF StartService, Rest
<1>5. todo'[d][s] = <<"popen">>
  BY <1>1, <1>4, GoesOn
<1>6. Sole(d, s)'
  <2>1. pidfile'[s] = None /\ Gone(s)'
    BY <1>3, <1>4 DEF Gone
  <2>. QED
    BY <1>5, <2>1 DEF Sole, RestartOps
<1>7. OneProcess'
  BY <1>4, FewerProcesses DEF SoleInv
<1>. QED
  BY <1>2, <1>4, <1>6, <1>7, SoleOperation

\* A process is started where there is none (service.py start).
LEMMA StartedSole ==
  ASSUME IInv, OneDaemon, SoleInv, NEW d \in Daemons, NEW s \in Services, Doing(d, "popen", s),
         NEW pid \in FreePids,
         running' = running \cup {[pid |-> pid, service |-> s, version |-> defined[d][s]]},
         process' = [process EXCEPT ![d][s] = pid],
         Then(d, s, <<"lock">> \o Rest(d, s)),
         UNCHANGED <<pidfile, mode, defined>>
  PROVE  SoleInv'
<1>1. todo[d][s] = <<"popen">> /\ at[d] \in {None, s} /\ TypeOK
  BY DoingGoes, NextOperation DEF IInv
<1>2. <<"lock">> \in Plans /\ Then(d, s, <<"lock">>)
  BY <1>1, AfterOperation, ArePlans, PutFirst DEF Rest
<1>3. todo'[d][s] = <<"lock">>
  BY <1>2, GoesOn
<1>4. pidfile[s] = None /\ Gone(s)
  BY <1>1 DEF SoleInv, Sole
<1>5. /\ pid \in Pids /\ process'[d][s] = pid
      /\ \A r \in Services : r # s => process'[d][r] = process[d][r]
  BY <1>1 DEF TypeOK, FreePids
<1>6. Sole(d, s)'
  <2>1. pidfile'[s] = None /\ process'[d][s] # None
    BY <1>4, <1>5, NoneAssumption
  <2>2. Ours(d, s)' /\ AsDefined(d, s)'
    BY <1>4, <1>5 DEF Ours, AsDefined, Gone
  <2>. QED
    BY <1>3, <2>1, <2>2 DEF Sole, RestartOps, StartNew
<1>7. OneProcess'
  BY <1>4 DEF SoleInv, OneProcess, Gone
<1>8. \A r \in Services : r # s => \A p \in running' : p.service = r => p \in running
  OBVIOUS
<1>. QED
  BY <1>1, <1>2, <1>5, <1>6, <1>7, <1>8, SoleOperation

\* The pidfile of the process is written (service.py lock).
LEMMA LockSole ==
  ASSUME IInv, OneDaemon, SoleInv, NEW d \in Daemons, NEW s \in Services, Lock(d, s)
  PROVE  SoleInv'
<1>1. Doing(d, "lock", s) /\ TypeOK
  BY DEF Lock, IInv
<1>2. /\ todo[d][s] = <<"lock">> /\ at[d] \in {None, s} /\ mode[d] \in {"starting", "serving", "exiting"}
      /\ todo[d][s] \in IF at[d] = s THEN InTurn(mode[d]) ELSE Waiting(mode[d])
      /\ InDictionary(d, s)
  BY <1>1, DoingGoes, NextOperation
<1>3. mode[d] \in {"starting", "serving"} /\ defined[d][s] # None
  BY <1>2 DEF InTurn, Waiting, StartNew, InDictionary, Starting
<1>4. <<>> \in Plans /\ Then(d, s, <<>>)
  BY <1>2, AfterOperation, ArePlans DEF Lock, Rest
<1>5. todo'[d][s] = <<>>
  BY <1>1, <1>4, GoesOn
<1>6. /\ UNCHANGED <<running, mode, defined, process>> /\ pidfile'[s] = process[d][s]
      /\ \A r \in Services : r # s => pidfile'[r] = pidfile[r]
  BY <1>1 DEF Lock, TypeOK
<1>7. Sole(d, s)'
  <2>1. process[d][s] # None /\ Ours(d, s) /\ AsDefined(d, s)
    BY <1>2 DEF SoleInv, Sole
  <2>2. Locked(d, s)' /\ AsDefined(d, s)'
    BY <1>6, <2>1 DEF Locked, Ours, AsDefined
  <2>. QED
    BY <1>3, <1>5, <1>6, <2>2 DEF Sole, RestartOps, StartNew
<1>8. OneProcess'
  BY <1>6, FewerProcesses DEF SoleInv
<1>. QED
  BY <1>2, <1>4, <1>6, <1>7, <1>8, SoleOperation

\* A process that was told to stop is gone before the next operation
\* (service.py stop: wait).
LEMMA StopServiceSole ==
  ASSUME IInv, OneDaemon, SoleInv, NEW d \in Daemons, NEW s \in Services, StopService(d, s)
  PROVE  SoleInv'
<1>1. Doing(d, "stop", s)
  BY DEF StopService
<1>2. todo[d][s] \in {<<"stop">>, RestartOps, <<"stop", "define", "start">>} /\ at[d] \in {None, s}
  BY <1>1, DoingGoes, NextOperation
<1> DEFINE ops == <<"unlock">> \o Rest(d, s)
<1>3. ops \in {<<"unlock">>, <<"unlock", "start">>, <<"unlock", "define", "start">>}
  BY <1>2, AfterOperation, PutFirst DEF Rest
<1>4. ops \in Plans
  BY <1>3, ArePlans
<1>5. /\ Then(d, s, ops) /\ UNCHANGED <<pidfile, mode, defined, process>>
      /\ running' = {p \in running : p.pid # process[d][s]}
  BY DEF StopService, OneDaemon
<1> HIDE DEF ops
<1>6. todo'[d][s] = ops
  BY <1>1, <1>4, <1>5, GoesOn
<1>7. Sole(d, s)'
  <2>1. Locked(d, s) \/ Gone(s)
    BY <1>2 DEF SoleInv, Sole
  <2>2. Gone(s)'
    BY <1>5, <2>1 DEF Locked, Ours, Gone
  <2>. QED
    BY <1>3, <1>6, <2>2 DEF Sole, RestartOps, StartNew
<1>8. OneProcess'
  BY <1>5, FewerProcesses DEF SoleInv
<1>. QED
  BY <1>2, <1>4, <1>5, <1>7, <1>8, SoleOperation

\* The pidfile is removed when no process is left (service.py unlock).
LEMMA UnlockSole ==
  ASSUME IInv, OneDaemon, SoleInv, NEW d \in Daemons, NEW s \in Services, Unlock(d, s)
  PROVE  SoleInv'
<1>1. Doing(d, "unlock", s) /\ TypeOK
  BY DEF Unlock, IInv
<1>2. /\ todo[d][s] \in {<<"unlock">>, <<"unlock", "start">>, <<"unlock", "define", "start">>}
      /\ at[d] \in {None, s} /\ mode[d] \in {"starting", "serving", "exiting"}
      /\ todo[d][s] \in IF at[d] = s THEN InTurn(mode[d]) ELSE Waiting(mode[d])
      /\ InDictionary(d, s)
  BY <1>1, DoingGoes, NextOperation
<1> DEFINE ops == Rest(d, s)
<1>3. \/ todo[d][s] = <<"unlock">> /\ ops = <<>>
      \/ todo[d][s] = <<"unlock", "start">> /\ ops = <<"start">>
      \/ todo[d][s] = <<"unlock", "define", "start">> /\ ops = StartNew
  BY <1>2, AfterOperation DEF Rest
<1>4. ops \in Plans
  BY <1>3, ArePlans
<1>5. Then(d, s, ops) /\ UNCHANGED <<running, mode, defined, process>>
  BY DEF Unlock
<1> HIDE DEF ops
<1>6. todo'[d][s] = ops
  BY <1>1, <1>4, <1>5, GoesOn
<1>7. pidfile'[s] = None /\ \A r \in Services : r # s => pidfile'[r] = pidfile[r]
  BY <1>1 DEF Unlock, TypeOK
<1>8. Sole(d, s)'
  <2>1. Gone(s)
    BY <1>2 DEF SoleInv, Sole
  <2>2. Gone(s)'
    BY <1>5, <2>1 DEF Gone
  <2>3. CASE todo[d][s] = <<"unlock">> /\ ops = <<>>
    <3>1. mode[d] \in {"serving", "exiting"}
      BY <1>2, <2>3 DEF InTurn, Waiting, Starting, StartNew
    <3>2. mode[d] = "serving" => defined[d][s] = None
      BY <1>2, <2>3 DEF InDictionary
    <3>. QED
      BY <1>5, <1>6, <1>7, <2>2, <2>3, <3>1, <3>2 DEF Sole, RestartOps, StartNew
  <2>4. CASE ops \in {<<"start">>, StartNew}
    BY <1>6, <1>7, <2>2, <2>4 DEF Sole, RestartOps, StartNew
  <2>. QED
    BY <1>3, <2>3, <2>4
<1>9. OneProcess'
  BY <1>5, FewerProcesses DEF SoleInv
<1>. QED
  BY <1>2, <1>4, <1>5, <1>7, <1>8, <1>9, SoleOperation

\* A service whose process has died is to be restarted, its pidfile still
\* there (service.py keep_alive).
LEMMA CheckSole ==
  ASSUME IInv, OneDaemon, SoleInv, NEW d \in Daemons, NEW s \in Services, KeepAliveService(d, s)
  PROVE  SoleInv'
<1>1. Doing(d, "check", s)
  BY DEF KeepAliveService
<1>2. /\ todo[d][s] = <<"check">>
      /\ at[d] \in {None, s} /\ mode[d] \in {"starting", "serving", "exiting"}
      /\ todo[d][s] \in IF at[d] = s THEN InTurn(mode[d]) ELSE Waiting(mode[d])
      /\ InDictionary(d, s)
  BY <1>1, DoingGoes, NextOperation
<1> DEFINE ops == IF IsAlive(d, s) THEN Rest(d, s) ELSE RestartOps \o Rest(d, s)
<1>3. ops \in {<<>>, RestartOps}
  BY <1>2, AfterOperation, PutFirst DEF Rest
<1>4. ops \in Plans
  BY <1>3, ArePlans
<1>5. Then(d, s, ops) /\ UNCHANGED <<pidfile, running, mode, defined, process>>
  BY DEF KeepAliveService
<1> HIDE DEF ops
<1>6. todo'[d][s] = ops
  BY <1>1, <1>4, <1>5, GoesOn
<1>7. mode[d] = "serving" /\ defined[d][s] # None
  BY <1>2 DEF InTurn, Waiting, Starting, Replacing, StartNew, RestartOps, InDictionary
<1>8. Sole(d, s)'
  <2>1. Locked(d, s) /\ AsDefined(d, s)
    BY <1>2 DEF SoleInv, Sole
  <2>2. Locked(d, s)' /\ AsDefined(d, s)'
    BY <1>5, <2>1 DEF Locked, Ours, AsDefined
  <2>3. CASE ops = <<>>
    BY <1>5, <1>6, <1>7, <2>2, <2>3 DEF Sole, RestartOps, StartNew
  <2>4. CASE ops = RestartOps
    BY <1>6, <2>2, <2>4 DEF Sole, RestartOps, StartNew
  <2>. QED
    BY <1>3, <2>3, <2>4
<1>9. OneProcess'
  BY <1>5, FewerProcesses DEF SoleInv
<1>. QED
  BY <1>2, <1>4, <1>5, <1>8, <1>9, SoleOperation

\* A service taken out of the dictionary still has its process (refittd reload).
LEMMA PopSole ==
  ASSUME IInv, OneDaemon, SoleInv, NEW d \in Daemons, NEW s \in Services, PopService(d, s)
  PROVE  SoleInv'
<1>1. Doing(d, "pop", s) /\ TypeOK
  BY DEF PopService, IInv
<1>2. todo[d][s] = <<"pop", "stop">> /\ at[d] \in {None, s}
  BY <1>1, DoingGoes, NextOperation
<1>3. <<"stop">> \in Plans /\ Then(d, s, <<"stop">>)
  BY <1>2, AfterOperation, ArePlans DEF PopService, Rest
<1>4. todo'[d][s] = <<"stop">>
  BY <1>1, <1>3, GoesOn
<1>5. /\ UNCHANGED <<pidfile, running, mode, process>>
      /\ \A r \in Services : r # s => defined'[d][r] = defined[d][r]
  BY <1>1 DEF PopService, TypeOK
<1>6. Sole(d, s)'
  <2>1. Locked(d, s)
    BY <1>2 DEF SoleInv, Sole
  <2>2. Locked(d, s)'
    BY <1>5, <2>1 DEF Locked, Ours
  <2>. QED
    BY <1>4, <2>2 DEF Sole, RestartOps, StartNew
<1>7. OneProcess'
  BY <1>5, FewerProcesses DEF SoleInv
<1>. QED
  BY <1>2, <1>3, <1>5, <1>6, <1>7, SoleOperation

\* A service whose definition changed is to be stopped before it is defined
\* again (refittd reload_service).
LEMMA ReloadServiceSole ==
  ASSUME IInv, OneDaemon, SoleInv, NEW d \in Daemons, NEW s \in Services, ReloadService(d, s)
  PROVE  SoleInv'
<1>1. Doing(d, "reload", s)
  BY DEF ReloadService
<1>2. /\ todo[d][s] = <<"reload">>
      /\ at[d] \in {None, s} /\ mode[d] \in {"starting", "serving", "exiting"}
      /\ todo[d][s] \in IF at[d] = s THEN InTurn(mode[d]) ELSE Waiting(mode[d])
      /\ InDictionary(d, s)
  BY <1>1, DoingGoes, NextOperation
<1> DEFINE ops == IF defined[d][s] = read[d][s] THEN Rest(d, s)
                  ELSE <<"stop">> \o StartNew \o Rest(d, s)
<1>3. ops \in {<<>>, <<"stop", "define", "start">>}
  BY <1>2, AfterOperation, PutFirst DEF Rest
<1>4. ops \in Plans
  BY <1>3, ArePlans
<1>5. Then(d, s, ops) /\ UNCHANGED <<pidfile, running, mode, defined, process>>
  BY DEF ReloadService
<1> HIDE DEF ops
<1>6. todo'[d][s] = ops
  BY <1>1, <1>4, <1>5, GoesOn
<1>7. mode[d] = "serving" /\ defined[d][s] # None
  BY <1>2 DEF InTurn, Waiting, Starting, Replacing, StartNew, RestartOps, InDictionary
<1>8. Sole(d, s)'
  <2>1. Locked(d, s) /\ AsDefined(d, s)
    BY <1>2 DEF SoleInv, Sole
  <2>2. Locked(d, s)' /\ AsDefined(d, s)'
    BY <1>5, <2>1 DEF Locked, Ours, AsDefined
  <2>3. CASE ops = <<>>
    BY <1>5, <1>6, <1>7, <2>2, <2>3 DEF Sole, RestartOps, StartNew
  <2>4. CASE ops = <<"stop", "define", "start">>
    BY <1>6, <2>2, <2>4 DEF Sole, RestartOps, StartNew
  <2>. QED
    BY <1>3, <2>3, <2>4
<1>9. OneProcess'
  BY <1>5, FewerProcesses DEF SoleInv
<1>. QED
  BY <1>2, <1>4, <1>5, <1>8, <1>9, SoleOperation
------------------------------------------------------------------------------
\* What the daemon decides to do touches no pidfile and no process.
LEMMA SoleDaemon ==
  ASSUME OneDaemon, SoleInv, NEW d \in Daemons, UNCHANGED <<pidfile, running>>,
         \A s \in Services : Sole(d, s)'
  PROVE  SoleInv'
<1>1. OneProcess'
  BY FewerProcesses DEF SoleInv
<1>2. \A e \in Daemons : e = d
  BY DEF OneDaemon
<1>. QED
  BY <1>1, <1>2 DEF SoleInv

\* A daemon on its way out stops the services that it has; nothing is left of
\* the others (refittd __exit__).
LEMMA LeaveSole ==
  ASSUME IInv, OneDaemon, SoleInv, NEW d \in Daemons, mode[d] \in {"starting", "serving"},
         Leave(d), UNCHANGED <<pidfile, running, defined, process>>,
         \A s \in Services : todo[d][s] \in Waiting(mode[d]) \cup {<<"popen">>}
  PROVE  SoleInv'
<1>1. TypeOK
  BY DEF IInv
<1> DEFINE plan == ForEach(Named(defined[d]), <<"stop">>)
<1>2. /\ plan \in [Services -> Plans]
      /\ \A s \in Services : plan[s] = IF defined[d][s] # None THEN <<"stop">> ELSE <<>>
  BY ArePlans DEF ForEach, Named
<1>3. Goto(d, plan) /\ mode' = [mode EXCEPT ![d] = "exiting"]
  BY DEF Leave
<1> HIDE DEF plan
<1>4. \A s \in Services : todo'[d][s] = plan[s]
  BY <1>1, <1>2, <1>3, GotoGoes
<1>5. mode'[d] = "exiting"
  BY <1>1, <1>3 DEF TypeOK
<1>6. ASSUME NEW s \in Services PROVE Sole(d, s)'
  <2>1. todo'[d][s] = IF defined[d][s] # None THEN <<"stop">> ELSE <<>>
    BY <1>2, <1>4
  <2>2. todo[d][s] \in {<<>>, StartNew, RestartOps, <<"check">>, <<"reload">>,
                        <<"pop", "stop">>, <<"popen">>}
    BY DEF Waiting
  <2>3. Sole(d, s) /\ InDictionary(d, s)
    BY DEF SoleInv, IInv, Stage
  <2>4. \/ Locked(d, s) /\ defined[d][s] # None
        \/ pidfile[s] = None /\ Gone(s)
    <3>1. CASE todo[d][s] = <<>>
      BY <2>3, <3>1 DEF Sole
    <3>2. CASE todo[d][s] \in {StartNew, <<"popen">>}
      BY <2>3, <3>2 DEF Sole
    <3>3. CASE todo[d][s] \in {RestartOps, <<"check">>, <<"reload">>, <<"pop", "stop">>}
      BY <2>3, <3>3 DEF Sole, InDictionary
    <3>. QED
      BY <2>2, <3>1, <3>2, <3>3
  <2>5. \/ Locked(d, s)' /\ defined[d][s] # None
        \/ pidfile'[s] = None /\ Gone(s)'
    BY <2>4 DEF Locked, Ours, Gone
  <2>6. CASE defined[d][s] # None
    BY <2>1, <2>5, <2>6 DEF Sole, RestartOps, StartNew
  <2>7. CASE defined[d][s] = None
    BY <1>5, <2>1, <2>5, <2>7 DEF Sole, RestartOps, StartNew
  <2>. QED
    BY <2>6, <2>7
<1>. QED
  BY <1>6, SoleDaemon

\* What there is of a service that the daemon has nothing left to do with.
LEMMA SoleDone ==
  ASSUME SoleInv, NEW d \in Daemons, Done(d), NEW s \in Services
  PROVE  IF mode[d] \in {"starting", "serving"} /\ defined[d][s] # None
         THEN Locked(d, s) /\ AsDefined(d, s)
         ELSE pidfile[s] = None /\ Gone(s)
  BY DEF SoleInv, Sole, Done

\* A daemon that starts has no service yet (refittd start_services).
LEMMA LaunchSole ==
  ASSUME IInv, OneDaemon, SoleInv, NEW d \in Daemons, Launch(d)
  PROVE  SoleInv'
<1>1. TypeOK
  BY DEF IInv
<1>2. PICK S \in SUBSET Named(config) : Goto(d, ForEach(S, StartNew))
  BY DEF Launch
<1> DEFINE plan == ForEach(S, StartNew)
<1>3. plan \in [Services -> Plans] /\ \A s \in Services : plan[s] \in {StartNew, <<>>}
  BY ArePlans DEF ForEach
<1>4. Goto(d, plan)
  BY <1>2
<1> HIDE DEF plan
<1>5. \A s \in Services : todo'[d][s] \in {StartNew, <<>>}
  BY <1>1, <1>3, <1>4, GotoGoes
<1>6. mode[d] = "off" /\ UNCHANGED <<pidfile, running, defined, process>>
  BY DEF Launch
<1>7. ASSUME NEW s \in Services PROVE Sole(d, s)'
  <2>1. Stage(d, s) /\ Sole(d, s)
    BY DEF IInv, SoleInv
  <2>2. todo[d][s] = <<>> /\ defined[d][s] = None
    BY <1>6, <2>1 DEF Stage, InTurn, Waiting, InDictionary
  <2>3. pidfile'[s] = None /\ Gone(s)' /\ defined'[d][s] = None
    BY <1>6, <2>1, <2>2 DEF Sole, Gone
  <2>4. CASE todo'[d][s] = <<>>
    BY <2>3, <2>4 DEF Sole, RestartOps, StartNew
  <2>5. CASE todo'[d][s] = StartNew
    BY <2>3, <2>5 DEF Sole, RestartOps, StartNew
  <2>. QED
    BY <1>5, <2>4, <2>5
<1>. QED
  BY <1>6, <1>7, SoleDaemon

\* The daemon awaits actions, or leaves (apps/refittd run).
LEMMA ServeSole ==
  ASSUME IInv, OneDaemon, SoleInv, NEW d \in Daemons, Serve(d)
  PROVE  SoleInv'
<1>1. mode[d] = "starting" /\ Done(d) /\ UNCHANGED <<pidfile, running, defined, process>> /\ TypeOK
  BY DEF Serve, IInv
<1>2. CASE mode' = [mode EXCEPT ![d] = "serving"] /\ UNCHANGED <<todo, at>>
  <2>1. mode'[d] = "serving"
    BY <1>1, <1>2 DEF TypeOK
  <2>2. ASSUME NEW s \in Services PROVE Sole(d, s)'
    <3>1. IF defined[d][s] # None THEN Locked(d, s) /\ AsDefined(d, s)
          ELSE pidfile[s] = None /\ Gone(s)
      BY <1>1, SoleDone
    <3>2. IF defined[d][s] # None THEN Locked(d, s)' /\ AsDefined(d, s)'
          ELSE pidfile'[s] = None /\ Gone(s)'
      BY <1>1, <3>1 DEF Locked, Ours, AsDefined, Gone
    <3>3. todo'[d][s] = <<>>
      BY <1>1, <1>2 DEF Done
    <3>. QED
      BY <1>1, <2>1, <3>2, <3>3 DEF Sole, RestartOps, StartNew
  <2>. QED
    BY <1>1, <2>2, SoleDaemon
<1>3. CASE Leave(d)
  BY <1>1, <1>3, AtNone, LeaveSole
<1>. QED
  BY <1>2, <1>3 DEF Serve

\* The daemon goes through the services that it has (refittd keep_alive,
\* restart, reload).
LEMMA RoundSole ==
  ASSUME IInv, OneDaemon, SoleInv, NEW d \in Daemons, Idle(d),
         UNCHANGED <<pidfile, running, mode, defined, process>>,
         \A s \in Services :
           \/ todo'[d][s] = <<>>
           \/ todo'[d][s] \in {<<"check">>, RestartOps, <<"reload">>, <<"pop", "stop">>}
                /\ defined[d][s] # None
           \/ todo'[d][s] = StartNew /\ defined[d][s] = None
  PROVE  SoleInv'
<1>1. mode[d] = "serving" /\ Done(d)
  BY DEF Idle
<1>2. ASSUME NEW s \in Services PROVE Sole(d, s)'
  <2>1. IF defined[d][s] # None THEN Locked(d, s) /\ AsDefined(d, s)
        ELSE pidfile[s] = None /\ Gone(s)
    BY <1>1, SoleDone
  <2>2. IF defined[d][s] # None THEN Locked(d, s)' /\ AsDefined(d, s)'
        ELSE pidfile'[s] = None /\ Gone(s)'
    BY <2>1 DEF Locked, Ours, AsDefined, Gone
  <2>3. CASE todo'[d][s] = <<>>
    BY <1>1, <2>2, <2>3 DEF Sole, RestartOps, StartNew
  <2>4. CASE todo'[d][s] \in {<<"check">>, RestartOps, <<"reload">>, <<"pop", "stop">>}
               /\ defined[d][s] # None
    BY <2>2, <2>4 DEF Sole, RestartOps, StartNew
  <2>5. CASE todo'[d][s] = StartNew /\ defined[d][s] = None
    BY <2>2, <2>5 DEF Sole, RestartOps, StartNew
  <2>. QED
    BY <2>3, <2>4, <2>5
<1>. QED
  BY <1>2, SoleDaemon

\* The services are checked, or restarted (refittd keep_alive, restart).
LEMMA GoneThroughSole ==
  ASSUME IInv, OneDaemon, SoleInv, NEW d \in Daemons, Refresh(d) \/ Restart(d)
  PROVE  SoleInv'
<1>1. Idle(d) /\ UNCHANGED <<pidfile, running, mode, defined, process>> /\ TypeOK
  BY DEF Refresh, Restart, IInv
<1>2. PICK ops \in {<<"check">>, RestartOps} : Goto(d, ForEach(Named(defined[d]), ops))
  BY DEF Refresh, Restart
<1> DEFINE plan == ForEach(Named(defined[d]), ops)
<1>3. ops \in Plans
  BY DEF Plans, Waiting, RestartOps
<1>4. /\ plan \in [Services -> Plans]
      /\ \A s \in Services : plan[s] = IF defined[d][s] # None THEN ops ELSE <<>>
  BY <1>3, ArePlans DEF ForEach, Named
<1>5. Goto(d, plan)
  BY <1>2
<1> HIDE DEF plan
<1>6. \A s \in Services : todo'[d][s] = IF defined[d][s] # None THEN ops ELSE <<>>
  BY <1>1, <1>4, <1>5, GotoGoes
<1>. QED
  BY <1>1, <1>6, RoundSole

\* The configuration is read again (refittd reload).
LEMMA ReloadSole ==
  ASSUME IInv, OneDaemon, SoleInv, NEW d \in Daemons, Reload(d)
  PROVE  SoleInv'
<1>1. Idle(d) /\ UNCHANGED <<pidfile, running, defined, process>> /\ TypeOK
  BY DEF Reload, IInv
<1>2. CASE Goto(d, ReloadOps(d)) /\ UNCHANGED <<mode, port>>
  <2> DEFINE plan == ReloadOps(d)
  <2>1. /\ plan \in [Services -> Plans]
        /\ \A s \in Services :
             \/ plan[s] = <<>>
             \/ plan[s] \in {<<"reload">>, <<"pop", "stop">>} /\ defined[d][s] # None
             \/ plan[s] = StartNew /\ defined[d][s] = None
    <3>1. {<<"reload">>, <<"pop", "stop">>, StartNew, <<>>} \subseteq Waiting("serving")
      BY DEF Waiting
    <3>2. Waiting("serving") \subseteq Plans
      BY DEF Plans
    <3>. QED
      BY <3>1, <3>2 DEF ReloadOps, Named
  <2>2. Goto(d, plan)
    BY <1>2
  <2> HIDE DEF plan
  <2>3. \A s \in Services : todo'[d][s] = plan[s]
    BY <1>1, <2>1, <2>2, GotoGoes
  <2>. QED
    BY <1>1, <1>2, <2>1, <2>3, RoundSole
<1>3. CASE Leave(d)
  <2>1. mode[d] = "serving"
    BY <1>1 DEF Idle
  <2>. QED
    BY <1>1, <1>3, <2>1, AtNone, LeaveSole DEF Idle
<1>. QED
  BY <1>2, <1>3 DEF Reload

\* Nothing is left when the daemon ends (refittd __exit__).
LEMMA ExitSole ==
  ASSUME IInv, OneDaemon, SoleInv, NEW d \in Daemons, Exit(d)
  PROVE  SoleInv'
<1>1. /\ mode[d] = "exiting" /\ Done(d) /\ UNCHANGED <<pidfile, running, todo>>
      /\ mode' = [mode EXCEPT ![d] = "off"] /\ TypeOK
  BY DEF Exit, IInv
<1>2. mode'[d] = "off"
  BY <1>1 DEF TypeOK
<1>3. ASSUME NEW s \in Services PROVE Sole(d, s)'
  <2>1. pidfile'[s] = None /\ Gone(s)' /\ todo'[d][s] = <<>>
    BY <1>1, SoleDone DEF Gone, Done
  <2>. QED
    BY <1>2, <2>1 DEF Sole, RestartOps, StartNew
<1>. QED
  BY <1>1, <1>3, SoleDaemon

\* The daemon's thread does one operation of one service (refittd, service.py).
LEMMA OperateSole ==
  ASSUME IInv, OneDaemon, SoleInv, NEW d \in Daemons, Operate(d)
  PROVE  SoleInv'
<1>1. PICK s \in Services :
        \/ Define(d, s) \/ StartService(d, s) \/ Popen(d, s) \/ Lock(d, s)
        \/ StopService(d, s) \/ Unlock(d, s)
        \/ KeepAliveService(d, s) \/ PopService(d, s) \/ ReloadService(d, s)
  BY DEF Operate
<1>2. CASE Popen(d, s)
  <2>1. CASE /\ \E pid \in FreePids :
                  /\ running' = running \cup
                       {[pid |-> pid, service |-> s, version |-> defined[d][s]]}
                  /\ process' = [process EXCEPT ![d][s] = pid]
             /\ Then(d, s, <<"lock">> \o Rest(d, s))
             /\ UNCHANGED <<mode, port>>
    BY <1>2, <2>1, StartedSole DEF Popen
  <2>2. CASE Leave(d) /\ UNCHANGED <<running, process>>
    <3>1. Doing(d, "popen", s) /\ UNCHANGED <<pidfile, running, defined, process>>
      BY <1>2, <2>2 DEF Popen
    <3>2. /\ todo[d][s] = <<"popen">>
          /\ at[d] \in {None, s} /\ mode[d] \in {"starting", "serving", "exiting"}
          /\ todo[d][s] \in IF at[d] = s THEN InTurn(mode[d]) ELSE Waiting(mode[d])
      BY <3>1, DoingGoes, NextOperation
    <3>3. mode[d] \in {"starting", "serving"} /\ at[d] = s
      BY <3>2 DEF InTurn, Waiting, StartNew, RestartOps
    <3>4. \A r \in Services : todo[d][r] \in Waiting(mode[d]) \cup {<<"popen">>}
      BY <3>2, <3>3 DEF IInv, Stage
    <3>. QED
      BY <2>2, <3>1, <3>3, <3>4, LeaveSole
  <2>. QED
    BY <1>2, <2>1, <2>2 DEF Popen
<1>. QED
  BY <1>1, <1>2, DefineSole, UnlockedSole, LockSole, StopServiceSole, UnlockSole,
     CheckSole, PopSole, ReloadServiceSole

\* A process or a server that ends, or an edit, leaves pidfiles and pids as they are
\* (service.py is_alive; refittd reload).
LEMMA OutsideSole ==
  ASSUME SoleInv,
         (\E s \in Services : Edit(s)) \/ ProcessExits \/ ServerEnds \/ UNCHANGED vars
  PROVE  SoleInv'
<1>1. UNCHANGED <<pidfile, mode, todo, defined, process>> /\ running' \subseteq running
  BY DEF Edit, ProcessExits, ServerEnds, vars
<1>2. ASSUME NEW d \in Daemons, NEW s \in Services PROVE Sole(d, s)'
  BY <1>1, SoleStays DEF SoleInv
<1>3. OneProcess'
  BY <1>1, FewerProcesses DEF SoleInv
<1>. QED
  BY <1>2, <1>3 DEF SoleInv

\* Nothing is there before the daemon (apps/refittd).
LEMMA InitSole == Init => SoleInv
<1>. SUFFICES ASSUME Init PROVE SoleInv
  OBVIOUS
<1>1. OneProcess
  BY DEF Init, OneProcess
<1>2. ASSUME NEW d \in Daemons, NEW s \in Services PROVE Sole(d, s)
  <2>1. todo[d][s] = <<>> /\ pidfile[s] = None /\ running = {} /\ defined[d][s] = None
    BY DEF Init, ForEach
  <2>. QED
    BY <2>1 DEF Sole, Gone, RestartOps, StartNew
<1>. QED
  BY <1>1, <1>2 DEF SoleInv

\* What there is of each service fits what the daemon has left to do with it
\* (daemon/service.py, apps/refittd).
LEMMA SoleHolds == ASSUME OneDaemon PROVE IInv /\ SoleInv /\ [Next]_vars => SoleInv'
<1>. SUFFICES ASSUME IInv, SoleInv, [Next]_vars PROVE SoleInv'
  OBVIOUS
<1>1. ASSUME NEW d \in Daemons PROVE ~Killed(d)
  BY DEF OneDaemon, Killed
<1>2. ASSUME NEW d \in Daemons, Stop(d) PROVE SoleInv'
  <2>1. Idle(d) /\ Leave(d) /\ UNCHANGED <<pidfile, running, defined, process>>
    BY <1>2 DEF Stop
  <2>2. mode[d] = "serving"
    BY <2>1 DEF Idle
  <2>. QED
    BY <2>1, <2>2, AtNone, LeaveSole DEF Idle
<1>. QED
  BY <1>1, <1>2, LaunchSole, ServeSole, OperateSole, GoneThroughSole, ReloadSole, ExitSole,
     OutsideSole
     DEF Next

\* The same, of every behaviour (daemon/service.py, apps/refittd).
LEMMA SoleInvariant == ASSUME OneDaemon PROVE Spec => [](IInv /\ SoleInv)
<1>1. Init => IInv /\ SoleInv
  BY InitHolds, InitSole
<1>2. IInv /\ SoleInv /\ [Next]_vars => (IInv /\ SoleInv)'
  BY NextHolds, SoleHolds
<1>. QED
  BY <1>1, <1>2, PTL DEF Spec

\* No service of the daemon runs twice, none of its processes escapes it, and
\* when it awaits actions it has the pidfile of each service, whatever was
\* asked of it and whichever Popen failed (service.py start, stop, lock).
THEOREM ProcessesSupervised == ASSUME OneDaemon PROVE Spec => []ProcessInv
<1>1. IInv /\ SoleInv => Supervised
  <2> SUFFICES ASSUME IInv, SoleInv, NEW p \in running
               PROVE  \E d \in Daemons :
                        /\ process[d][p.service] = p.pid
                        /\ pidfile[p.service] = p.pid \/ Doing(d, "lock", p.service)
    BY DEF Supervised
  <2>1. PICK d \in Daemons : TRUE
    BY DEF OneDaemon
  <2> DEFINE s == p.service
  <2>2. s \in Services
    BY DEF IInv, TypeOK, Processes
  <2> HIDE DEF s
  <2>3. TypeOK /\ Stage(d, s) /\ Sole(d, s) /\ ~Gone(s)
    BY <2>1, <2>2 DEF IInv, SoleInv, Gone, s
  <2>4. mode[d] \in {"off", "starting", "serving", "exiting"}
    BY <2>1, <2>3 DEF TypeOK
  <2>5. todo[d][s] \in IF at[d] = s THEN InTurn(mode[d]) ELSE Waiting(mode[d])
    BY <2>3 DEF Stage
  <2>6. todo[d][s] \in Plans
    BY <2>4, <2>5, Zenon DEF Plans
  <2>7. \/ Locked(d, s)
        \/ todo[d][s] = <<"lock">> /\ Ours(d, s)
    BY <2>3, <2>6 DEF Plans, Waiting, InTurn, Starting, Replacing, Sole
  <2>8. todo[d][s] = <<"lock">> => Doing(d, "lock", s)
    <3>1. SUFFICES ASSUME todo[d][s] = <<"lock">> PROVE Doing(d, "lock", s)
      OBVIOUS
    <3>2. at[d] = s
      BY <2>4, <2>5, <3>1 DEF Waiting, StartNew, RestartOps
    <3>. QED
      BY <3>1, <3>2 DEF Doing
  <2>. QED
    BY <2>1, <2>7, <2>8 DEF Locked, Ours, s
<1>2. IInv /\ SoleInv => PidIsPidfile
  <2> SUFFICES ASSUME IInv, SoleInv, NEW d \in Daemons, Idle(d), NEW s \in Named(defined[d])
               PROVE  process[d][s] # None /\ pidfile[s] = process[d][s]
    BY DEF PidIsPidfile
  <2>. QED
    BY SoleDone DEF Idle, Named, Locked
<1>3. IInv /\ SoleInv => ProcessInv
  BY <1>1, <1>2 DEF ProcessInv, IInv, SoleInv
<1>. QED
  BY <1>3, SoleInvariant, PTL

\* What runs has the definition that the daemon has, and that is the one it
\* read last, after any edits and reloads (refittd reload_service).
THEOREM Definitions == ASSUME OneDaemon PROVE Spec => []DefinedInv
<1>1. IInv /\ SoleInv => RunsAsDefined
  <2> SUFFICES ASSUME IInv, SoleInv, NEW d \in Daemons, Idle(d), NEW p \in running
               PROVE  defined[d][p.service] = p.version
    BY DEF RunsAsDefined
  <2>1. p.service \in Services
    BY DEF IInv, TypeOK, Processes
  <2>2. AsDefined(d, p.service)
    BY <2>1, SoleDone DEF Idle, Gone
  <2>. QED
    BY <2>1, <2>2 DEF AsDefined
<1>2. Spec => [](RunsAsDefined)
  BY <1>1, SoleInvariant, PTL
<1>3. RunsAsDefined /\ ReloadComplete => DefinedInv
  BY DEF DefinedInv
<1>. QED
  BY <1>2, <1>3, Reloaded, PTL

\* The daemon leaves no process and no pidfile, whichever way it left: by
\* request, by a Popen that failed, or by a configuration without a service
\* (refittd __exit__, service.py stop).
THEOREM LeavesNothing == ASSUME OneDaemon PROVE Spec => []CleanExit
<1>1. IInv /\ SoleInv => CleanExit
  <2> SUFFICES ASSUME IInv, SoleInv, \A d \in Daemons : mode[d] = "off"
               PROVE  running = {} /\ \A s \in Services : pidfile[s] = None
    BY DEF CleanExit
  <2>1. PICK d \in Daemons : TRUE
    BY DEF OneDaemon
  <2>2. \A s \in Services : todo[d][s] = <<>>
    <3> SUFFICES ASSUME NEW s \in Services PROVE todo[d][s] = <<>>
      OBVIOUS
    <3>1. Stage(d, s) /\ mode[d] = "off"
      BY <2>1 DEF IInv
    <3>. QED
      BY <3>1 DEF Stage, InTurn, Waiting
  <2>3. \A s \in Services : pidfile[s] = None /\ Gone(s)
    BY <2>1, <2>2, SoleDone DEF Done
  <2>. QED
    BY <2>3 DEF IInv, TypeOK, Processes, Gone
<1>. QED
  BY <1>1, SoleInvariant, PTL
==============================================================================
