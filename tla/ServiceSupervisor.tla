-------------------------- MODULE ServiceSupervisor --------------------------
(***************************************************************************)
(* The processes that `refittd` supervises: DaemonService (daemon/         *)
(* service.py) and the parts of RefittDaemonApp (apps/refittd) that start, *)
(* stop, restart, reload and keep alive the services.  Several daemons may *)
(* be started on one machine; they share the pidfiles and the port of the  *)
(* control channel, and nothing else.                                      *)
(*                                                                         *)
(* A daemon is a single thread.  What it still has to do with each service *)
(* is a sequence of operations, each as long as what the code does without *)
(* looking at anything another process can change: start() is a test of    *)
(* the pidfile, a Popen and the writing of the pidfile; stop() is a signal *)
(* and a wait, and the removal of the pidfile.  It goes on with a service  *)
(* until that has no operation left.  Which is next depends on the order   *)
(* of the command line, the configuration files or the dictionary, and may *)
(* be any.  An exception throws away what is left to do and runs the with  *)
(* blocks' exits.                                                          *)
(*                                                                         *)
(* A service's definition (argv, cwd) is modelled by its version.  Names   *)
(* ending in _M are mistakes the code does not make, used to test the      *)
(* properties.                                                             *)
(***************************************************************************)
EXTENDS Naturals, Sequences

CONSTANTS
  Daemons,       \* runs of refittd
  Services,      \* the names of the services
  Versions,      \* the definitions a service may have
  KeepAlive,     \* refittd --keep-alive
  Requests,      \* what the daemon is asked: subset of {"restart", "reload", "stop"}
  Faults,        \* subset of {"daemon_killed", "popen_fails", "stubborn"}
  Pids,          \* bound: the pids that there are
  None

ASSUME SupervisorAssumption ==
  /\ KeepAlive \in BOOLEAN
  /\ Requests \subseteq {"restart", "reload", "stop"}
  /\ Faults \subseteq {"daemon_killed", "popen_fails", "stubborn"}
ASSUME NoneAssumption == None \notin Daemons \cup Services \cup Versions \cup Pids

VARIABLES
  config,     \* the service section of the configuration files
  read,       \* the configuration as each daemon last read it
  pidfile,    \* what refittd.<name>.pid holds
  running,    \* the processes of the services
  port,       \* the daemon whose server has the port of the control channel
  mode,       \* "off", "starting", "serving" or "exiting"
  all,        \* was each daemon started with --all, or with all the names
  todo,       \* the operations each daemon has still to do with each service
  at,         \* the service it is at
  defined,    \* RefittDaemonApp.services: the version of each service it has
  process     \* DaemonService.process: the pid of each service it started

vars == <<config, read, pidfile, running, port, mode, all, todo, at, defined, process>>

Processes == [pid : Pids, service : Services, version : Versions]
Operations ==
  {"define", "start", "popen", "lock", "stop", "unlock", "check", "pop", "reload"}

\* Every variable has its type (the daemon's dictionary, the pidfiles and the
\* processes of daemon/service.py and apps/refittd).
TypeOK ==
  /\ config \in [Services -> Versions \cup {None}]
  /\ read \in [Daemons -> [Services -> Versions \cup {None}]]
  /\ pidfile \in [Services -> Pids \cup {None}]
  /\ running \subseteq Processes
  /\ port \in Daemons \cup {None}
  /\ mode \in [Daemons -> {"off", "starting", "serving", "exiting"}]
  /\ all \in [Daemons -> BOOLEAN]
  /\ todo \in [Daemons -> [Services -> Seq(Operations)]]
  /\ at \in [Daemons -> Services \cup {None}]
  /\ defined \in [Daemons -> [Services -> Versions \cup {None}]]
  /\ process \in [Daemons -> [Services -> Pids \cup {None}]]

\* The names in a configuration or in a daemon's dictionary.
Named(f) == {s \in Services : f[s] # None}

\* The same operations for each of the names.
ForEach(names, ops) == [s \in Services |-> IF s \in names THEN ops ELSE <<>>]

StartNew == <<"define", "start">>

\* The old process is not stopped.
RestartOps_M == <<"unlock", "start">>

RestartOps == <<"stop", "start">>

IsAlive(d, s) == \E p \in running : p.pid = process[d][s] /\ p.service = s

\* d has other things to do, and is at none of them.
Goto(d, plan) ==
  /\ todo' = [todo EXCEPT ![d] = plan]
  /\ at' = [at EXCEPT ![d] = None]

Done(d) == \A s \in Services : todo[d][s] = <<>>

\* The server of a daemon that was killed has the port still.
Orphaned == port # None /\ mode[port] # "serving"

\* The exits of DaemonServer and of the application: leave the port and stop
\* every service in the dictionary.
Leave(d) ==
  /\ mode' = [mode EXCEPT ![d] = "exiting"]
  /\ port' = IF port = d /\ ~Orphaned THEN None ELSE port
  /\ Goto(d, ForEach(Named(defined[d]), <<"stop">>))
------------------------------------------------------------------------------
\* No refittd has run yet, or all have left cleanly.
Init ==
  /\ config \in [Services -> Versions \cup {None}]
  /\ Named(config) # {}
  /\ read = [d \in Daemons |-> [s \in Services |-> None]]
  /\ pidfile = [s \in Services |-> None]
  /\ running = {}
  /\ port = None
  /\ mode = [d \in Daemons |-> "off"]
  /\ all = [d \in Daemons |-> FALSE]
  /\ todo = [d \in Daemons |-> ForEach({}, <<>>)]
  /\ at = [d \in Daemons |-> None]
  /\ defined = [d \in Daemons |-> [s \in Services |-> None]]
  /\ process = [d \in Daemons |-> [s \in Services |-> None]]

\* Somebody edits the configuration.
Edit(s) ==
  /\ \E v \in (Versions \cup {None}) \ {config[s]} : config' = [config EXCEPT ![s] = v]
  /\ UNCHANGED <<read, pidfile, running, port, mode, all, todo, at, defined, process>>

\* A service's process ends by itself.
ProcessExits ==
  /\ \E p \in running : running' = running \ {p}
  /\ UNCHANGED <<config, read, pidfile, port, mode, all, todo, at, defined, process>>
------------------------------------------------------------------------------
(***************************************************************************)
(* The daemon's thread, one operation at a time.                           *)
(***************************************************************************)
\* start_services: --all, or some names, which must be in the configuration;
\* without a service in the configuration nothing is started.
Launch(d) ==
  /\ mode[d] = "off"
  /\ \E S \in SUBSET Named(config), a \in BOOLEAN :
       /\ S # {} /\ (a => S = Named(config))
       /\ all' = [all EXCEPT ![d] = a]
       /\ Goto(d, ForEach(S, StartNew))
  /\ mode' = [mode EXCEPT ![d] = "starting"]
  /\ read' = [read EXCEPT ![d] = config]
  /\ UNCHANGED <<config, pidfile, running, port, defined, process>>

\* A daemon that cannot bind the port just ends.
Serve_M(d) ==
  /\ mode[d] = "starting"
  /\ Done(d)
  /\ port' = IF port = None THEN d ELSE port
  /\ mode' = [mode EXCEPT ![d] = IF port = None THEN "serving" ELSE "exiting"]
  /\ UNCHANGED <<config, read, pidfile, running, all, todo, at, defined, process>>

\* All are started: DaemonServer binds the port and the daemon awaits actions.
Serve(d) ==
  /\ mode[d] = "starting"
  /\ Done(d)
  /\ \/ /\ port = None
        /\ port' = d
        /\ mode' = [mode EXCEPT ![d] = "serving"]
        /\ UNCHANGED <<todo, at>>
     \/ /\ port # None
        /\ Leave(d)
  /\ UNCHANGED <<config, read, pidfile, running, all, defined, process>>

Idle(d) == mode[d] = "serving" /\ Done(d)

\* No request for a while: keep_alive() of every service.
Refresh(d) ==
  /\ Idle(d)
  /\ KeepAlive
  /\ \E s \in Named(defined[d]) : ~IsAlive(d, s)
  /\ Goto(d, ForEach(Named(defined[d]), <<"check">>))
  /\ UNCHANGED <<config, read, pidfile, running, port, mode, all, defined, process>>

Restart(d) ==
  /\ Idle(d)
  /\ "restart" \in Requests
  /\ Goto(d, ForEach(Named(defined[d]), RestartOps))
  /\ UNCHANGED <<config, read, pidfile, running, port, mode, all, defined, process>>

\* Services that are gone from the configuration are left alone.
ReloadOps_M(d) ==
  [s \in Services |->
     IF s \in Named(defined[d]) \cap Named(config) THEN <<"reload">>
     ELSE IF all[d] /\ s \in Named(config) THEN StartNew
     ELSE <<>>]

\* reload(); with --all it also stops what is no longer in the configuration
\* and starts what is new.
ReloadOps(d) ==
  [s \in Services |->
     IF s \in Named(defined[d]) \cap Named(config) THEN <<"reload">>
     ELSE IF ~all[d] THEN <<>>
     ELSE IF s \in Named(defined[d]) THEN <<"pop", "stop">>
     ELSE IF s \in Named(config) THEN StartNew
     ELSE <<>>]

\* ConfigurationError, when there is no service left, ends the daemon.
Reload(d) ==
  /\ Idle(d)
  /\ "reload" \in Requests
  /\ \/ /\ Named(config) # {}
        /\ Goto(d, ReloadOps(d))
        /\ read' = [read EXCEPT ![d] = config]
        /\ UNCHANGED <<mode, port>>
     \/ /\ Named(config) = {}
        /\ Leave(d)
        /\ UNCHANGED read
  /\ UNCHANGED <<config, pidfile, running, all, defined, process>>

Stop(d) ==
  /\ Idle(d)
  /\ "stop" \in Requests
  /\ Leave(d)
  /\ UNCHANGED <<config, read, pidfile, running, all, defined, process>>

\* The daemon process ends.
Exit(d) ==
  /\ mode[d] = "exiting"
  /\ Done(d)
  /\ mode' = [mode EXCEPT ![d] = "off"]
  /\ defined' = [defined EXCEPT ![d] = [s \in Services |-> None]]
  /\ process' = [process EXCEPT ![d] = [s \in Services |-> None]]
  /\ all' = [all EXCEPT ![d] = FALSE]
  /\ UNCHANGED <<config, read, pidfile, running, port, todo, at>>

\* SIGKILL: no exit runs; the services' processes go on, and so does the one
\* that BaseManager started to serve the port.
Killed(d) ==
  /\ "daemon_killed" \in Faults
  /\ mode[d] # "off"
  /\ mode' = [mode EXCEPT ![d] = "off"]
  /\ Goto(d, ForEach({}, <<>>))
  /\ defined' = [defined EXCEPT ![d] = [s \in Services |-> None]]
  /\ process' = [process EXCEPT ![d] = [s \in Services |-> None]]
  /\ all' = [all EXCEPT ![d] = FALSE]
  /\ UNCHANGED <<config, read, pidfile, running, port>>

\* Somebody ends the server that a killed daemon has left.
ServerEnds ==
  /\ Orphaned
  /\ port' = None
  /\ UNCHANGED <<config, read, pidfile, running, mode, all, todo, at, defined, process>>
------------------------------------------------------------------------------
(***************************************************************************)
(* The operations.                                                         *)
(***************************************************************************)
\* What is new is started after all else is done (reload).
Doing(d, op, s) ==
  /\ todo[d][s] # <<>> /\ Head(todo[d][s]) = op
  /\ \/ at[d] = s
     \/ /\ at[d] = None
        /\ op = "define" => \A r \in Services : todo[d][r] \in {<<>>, StartNew}

\* d goes on with s, if there is something left to do.
Then(d, s, ops) ==
  /\ todo' = [todo EXCEPT ![d][s] = ops]
  /\ at' = [at EXCEPT ![d] = IF ops = <<>> THEN None ELSE s]
Rest(d, s) == Tail(todo[d][s])

\* services[name] = DaemonService(name, ...): a new object has no process.
Define(d, s) ==
  /\ Doing(d, "define", s)
  /\ defined' = [defined EXCEPT ![d][s] = read[d][s]]
  /\ process' = [process EXCEPT ![d][s] = None]
  /\ Then(d, s, Rest(d, s))
  /\ UNCHANGED <<config, read, pidfile, running, port, mode, all>>

\* start(): "already running" when there is a pidfile.
StartService(d, s) ==
  /\ Doing(d, "start", s)
  /\ \/ /\ pidfile[s] = None
        /\ Then(d, s, <<"popen">> \o Rest(d, s))
        /\ UNCHANGED <<mode, port>>
     \/ /\ pidfile[s] # None
        /\ Leave(d)
  /\ UNCHANGED <<config, read, pidfile, running, all, defined, process>>

\* The pids that no process has and that no Popen object waits for.
FreePids ==
  Pids \ ({p.pid : p \in running} \cup {process[d][s] : d \in Daemons, s \in Services})

Popen(d, s) ==
  /\ Doing(d, "popen", s)
  /\ \/ /\ \E pid \in FreePids :
             /\ running' = running \cup
                  {[pid |-> pid, service |-> s, version |-> defined[d][s]]}
             /\ process' = [process EXCEPT ![d][s] = pid]
        /\ Then(d, s, <<"lock">> \o Rest(d, s))
        /\ UNCHANGED <<mode, port>>
     \/ /\ "popen_fails" \in Faults
        /\ Leave(d)
        /\ UNCHANGED <<running, process>>
  /\ UNCHANGED <<config, read, pidfile, all, defined>>

Lock(d, s) ==
  /\ Doing(d, "lock", s)
  /\ pidfile' = [pidfile EXCEPT ![s] = process[d][s]]
  /\ Then(d, s, Rest(d, s))
  /\ UNCHANGED <<config, read, running, port, mode, all, defined, process>>

\* Only a service that is alive is unlocked.
StopService_M(d, s) ==
  /\ Doing(d, "stop", s)
  /\ running' = {p \in running : p.pid # process[d][s]}
  /\ Then(d, s, IF IsAlive(d, s) THEN <<"unlock">> \o Rest(d, s) ELSE Rest(d, s))
  /\ UNCHANGED <<config, read, pidfile, port, mode, all, defined, process>>

\* SIGINT and wait(); a process that is stubborn survives that, and
\* terminate() and wait() too.
StopService(d, s) ==
  /\ Doing(d, "stop", s)
  /\ \/ running' = {p \in running : p.pid # process[d][s]}
     \/ IsAlive(d, s) /\ "stubborn" \in Faults /\ UNCHANGED running
  /\ Then(d, s, <<"unlock">> \o Rest(d, s))
  /\ UNCHANGED <<config, read, pidfile, port, mode, all, defined, process>>

\* unlock() removes the pidfile, whoever wrote it.
Unlock(d, s) ==
  /\ Doing(d, "unlock", s)
  /\ pidfile' = [pidfile EXCEPT ![s] = None]
  /\ Then(d, s, Rest(d, s))
  /\ UNCHANGED <<config, read, running, port, mode, all, defined, process>>

\* A process that died is forgotten, not replaced.
KeepAliveService_M(d, s) ==
  /\ Doing(d, "check", s)
  /\ Then(d, s, IF IsAlive(d, s) THEN Rest(d, s) ELSE <<"stop">> \o Rest(d, s))
  /\ UNCHANGED <<config, read, pidfile, running, port, mode, all, defined, process>>

\* DaemonService.keep_alive().
KeepAliveService(d, s) ==
  /\ Doing(d, "check", s)
  /\ Then(d, s, IF IsAlive(d, s) THEN Rest(d, s) ELSE RestartOps \o Rest(d, s))
  /\ UNCHANGED <<config, read, pidfile, running, port, mode, all, defined, process>>

\* services.pop(name): the service is stopped after it is forgotten.
PopService(d, s) ==
  /\ Doing(d, "pop", s)
  /\ defined' = [defined EXCEPT ![d][s] = None]
  /\ Then(d, s, Rest(d, s))
  /\ UNCHANGED <<config, read, pidfile, running, port, mode, all, process>>

\* reload_service(): the first field that differs replaces the service, and
\* then none differs any more.
ReloadService(d, s) ==
  /\ Doing(d, "reload", s)
  /\ Then(d, s, IF defined[d][s] = read[d][s] THEN Rest(d, s)
                ELSE <<"stop">> \o StartNew \o Rest(d, s))
  /\ UNCHANGED <<config, read, pidfile, running, port, mode, all, defined, process>>
------------------------------------------------------------------------------
Operate(d) ==
  \E s \in Services :
    \/ Define(d, s) \/ StartService(d, s) \/ Popen(d, s) \/ Lock(d, s)
    \/ StopService(d, s) \/ Unlock(d, s)
    \/ KeepAliveService(d, s) \/ PopService(d, s) \/ ReloadService(d, s)

Next ==
  \/ \E s \in Services : Edit(s)
  \/ ProcessExits \/ ServerEnds
  \/ \E d \in Daemons :
       \/ Launch(d) \/ Serve(d) \/ Operate(d)
       \/ Refresh(d) \/ Restart(d) \/ Reload(d) \/ Stop(d)
       \/ Exit(d) \/ Killed(d)

Spec == Init /\ [][Next]_vars

\* The daemon's thread is scheduled, and the wait for requests times out.
Fairness ==
  \A d \in Daemons : WF_vars(Operate(d) \/ Serve(d) \/ Exit(d)) /\ WF_vars(Refresh(d))

FairSpec == Spec /\ Fairness
------------------------------------------------------------------------------
(***************************************************************************)
(* Properties.                                                             *)
(***************************************************************************)
\* No service runs twice, through any sequence of restarts, reloads and
\* relaunches (service.py start: "already running").
OneProcess ==
  \A p, q \in running : p.service = q.service => p = q

\* A process of a service is the one that its daemon holds, and its pidfile
\* names it, but for the moment between Popen and lock: no process escapes
\* the daemon that has to stop it.
Supervised ==
  \A p \in running : \E d \in Daemons :
    /\ process[d][p.service] = p.pid
    /\ pidfile[p.service] = p.pid \/ Doing(d, "lock", p.service)

\* A daemon that awaits actions has the pidfile of each of its services
\* (service.py pid: "the PID of the current pidfile").
PidIsPidfile ==
  \A d \in Daemons : Idle(d) =>
    \A s \in Named(defined[d]) : process[d][s] # None /\ pidfile[s] = process[d][s]

\* What runs has the definition that the daemon has, also after a reload: no
\* service is left running with an old one.
RunsAsDefined ==
  \A d \in Daemons : Idle(d) =>
    \A p \in running : defined[d][p.service] = p.version

\* When every daemon has left, by request, by an error on the way up or by a
\* failed reload, no process and no pidfile is left behind.
CleanExit ==
  (\A d \in Daemons : mode[d] = "off") =>
     running = {} /\ \A s \in Services : pidfile[s] = None

\* A daemon that has done all it does on its way out leaves no process that it
\* started, even if another daemon removed or replaced the pidfiles, as long
\* as no process is stubborn.
ExitStopsOwn ==
  \A d \in Daemons : mode[d] = "exiting" /\ Done(d) =>
    \A s \in Services : ~IsAlive(d, s)

\* With --keep-alive, a service that has died is running again, or has been
\* given up by its daemon.
Relaunched ==
  \A d \in Daemons, s \in Services :
    (Idle(d) /\ defined[d][s] # None /\ ~IsAlive(d, s))
      ~> (IsAlive(d, s) \/ defined[d][s] = None)

\* A daemon that awaits actions has the definitions of the configuration it
\* read last; with --all, it also has no service more and none less.
ReloadComplete ==
  \A d \in Daemons : Idle(d) =>
    /\ all[d] => defined[d] = read[d]
    /\ \A s \in Named(defined[d]) \cap Named(read[d]) : defined[d][s] = read[d][s]

\* No service runs twice, no process escapes its daemon, and a daemon that
\* awaits actions has its pidfiles, through any sequence of edits, restarts,
\* reloads, relaunches and failures (service.py start, stop, lock).
ProcessInv == TypeOK /\ OneProcess /\ Supervised /\ PidIsPidfile

\* After any sequence of edits and reloads the daemon's dictionary is what was
\* read last, and what runs is what the dictionary says (apps/refittd reload).
DefinedInv == RunsAsDefined /\ ReloadComplete
==============================================================================
