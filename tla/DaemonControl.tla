---------------------------- MODULE DaemonControl ----------------------------
(***************************************************************************)
(* The control channel between `refittctl` and `refittd`: the queue of     *)
(* actions and the one-place queue that holds the status of the services   *)
(* (daemon/server.py, daemon/client.py), the daemon's action loop          *)
(* (apps/refittd) and the control program's requests (apps/refittctl).     *)
(*                                                                         *)
(* Both queues are multiprocessing.JoinableQueue(maxsize=1) objects that   *)
(* live in the manager process; a client's put and get are run for it by a *)
(* thread of the manager, which goes on when the client dies.  The status  *)
(* queue is a slot: it is created holding one value, and whoever wants to  *)
(* read or replace it takes that value out and puts one back.              *)
(*                                                                         *)
(* A status is modelled by the number of the snapshot it is; the services  *)
(* are modelled as one, by whether they run.  asked and board are history  *)
(* variables: the code does not have them.                                 *)
(*                                                                         *)
(* The operators whose names end in _M are mistakes the code does not      *)
(* make; PROJECT.json pairs each with a property that notices it.          *)
(***************************************************************************)
EXTENDS Naturals, Sequences, FiniteSets

CONSTANTS
  Clients,       \* the refittctl processes
  Requests,      \* the actions they request, other than status
  KeepAlive,     \* was the daemon started with --keep-alive
  Faults,        \* what may go wrong: subset of {"client_dies", "interrupt"}
  MaxEpoch       \* bound: no status is asked for after so many snapshots

ASSUME ClientsAssumption == Clients # {}
ASSUME RequestsAssumption ==
  Requests \subseteq {"stop", "restart", "reload", "flush", "unknown"}
ASSUME KeepAliveAssumption == KeepAlive \in BOOLEAN
ASSUME FaultsAssumption == Faults \subseteq {"client_dies", "interrupt"}
ASSUME MaxEpochAssumption == MaxEpoch \in Nat

VARIABLES
  queue,      \* DaemonServer._queue: the actions requested and not yet taken
  slot,       \* DaemonServer._status: empty, or the current status
  server,     \* where the daemon's main thread is
  snap,       \* the status it is about to publish
  services,   \* "alive", "dead" or "stopped"
  pc,         \* where each client is
  gone,       \* the clients whose process has died
  held,       \* the status each client took out of the slot, or 0
  epoch,      \* number of snapshots taken
  asked,      \* epoch when each client asked for the status (history)
  board       \* the last status put in the slot (history)

clientVars == <<pc, gone, held, asked>>
serverVars == <<server, snap, services, epoch, board>>
vars == <<queue, slot, server, snap, services, pc, gone, held, epoch, asked, board>>

MaxSize == 1

\* The steps of a status request, each named for the message it puts.
StatusSteps == {"status", "flush1", "flush2"}

\* One flush instead of two.
After_M(step) ==
  CASE step = "status" -> "flush1"
    [] step = "flush1" -> "poll"
    [] OTHER -> "off"

\* A request goes from its put to the state named here; the other actions
\* end with their only put.
After(step) ==
  CASE step = "status" -> "flush1"
    [] step = "flush1" -> "flush2"
    [] step = "flush2" -> "poll"
    [] OTHER -> "off"

Message(step) == IF step \in {"flush1", "flush2"} THEN "flush" ELSE step

Putting == StatusSteps \cup Requests

ServerStates == {"await", "status", "set_get", "set_put", "restart", "reload",
                 "closing", "down"}
ClientStates == Putting \cup {"off", "raised", "poll", "held"}

\* Every variable has its type (the queues and states of server.py and
\* client.py).
TypeOK ==
  /\ queue \in Seq({"status", "flush"} \cup Requests)
  /\ slot \in Seq(Nat)
  /\ server \in ServerStates
  /\ snap \in Nat
  /\ services \in {"alive", "dead", "stopped"}
  /\ pc \in [Clients -> ClientStates]
  /\ gone \subseteq Clients
  /\ held \in [Clients -> Nat]
  /\ epoch \in Nat
  /\ asked \in [Clients -> Nat]
  /\ board \in Nat
------------------------------------------------------------------------------
\* DaemonServer.__init__ leaves an empty status in the slot, numbered 0.
Init ==
  /\ queue = <<>>
  /\ slot = <<0>>
  /\ server = "await"
  /\ snap = 0
  /\ services = "alive"
  /\ pc = [c \in Clients |-> "off"]
  /\ gone = {}
  /\ held = [c \in Clients |-> 0]
  /\ epoch = 0
  /\ asked = [c \in Clients |-> 0]
  /\ board = 0
------------------------------------------------------------------------------
(***************************************************************************)
(* refittctl: DaemonClient.request, DaemonClient.status.                   *)
(***************************************************************************)
\* A new refittctl connects; "start" does not go through the channel.
Invoke(c) ==
  /\ server # "down"
  /\ c \notin gone
  /\ pc[c] \in {"off", "raised"}
  /\ \/ /\ epoch < MaxEpoch
        /\ pc' = [pc EXCEPT ![c] = "status"]
     \/ \E r \in Requests : pc' = [pc EXCEPT ![c] = r]
  /\ asked' = [asked EXCEPT ![c] = epoch]
  /\ UNCHANGED <<queue, slot, gone, held, serverVars>>

\* One request() of client c: the put succeeds.
Request(c) ==
  /\ pc[c] \in Putting
  /\ Len(queue) < MaxSize
  /\ queue' = Append(queue, Message(pc[c]))
  /\ pc' = [pc EXCEPT ![c] = IF c \in gone THEN "off" ELSE After(pc[c])]
  /\ UNCHANGED <<slot, gone, held, asked, serverVars>>

\* The timeout is logged and the client goes on, as if it had been served.
RequestTimeout_M(c) ==
  /\ pc[c] \in Putting
  /\ Len(queue) >= MaxSize
  /\ pc' = [pc EXCEPT ![c] = IF c \in gone THEN "off" ELSE After(pc[c])]
  /\ UNCHANGED <<queue, slot, gone, held, asked, serverVars>>

\* The put times out.  It raises queue.Full, which the handler of
\* multiprocessing.TimeoutError does not catch: the program ends.
RequestTimeout(c) ==
  /\ pc[c] \in Putting
  /\ Len(queue) >= MaxSize
  /\ pc' = [pc EXCEPT ![c] = IF c \in gone THEN "off" ELSE "raised"]
  /\ UNCHANGED <<queue, slot, gone, held, asked, serverVars>>

\* _poll_status takes the status out of the slot ...
PollGet(c) ==
  /\ pc[c] = "poll"
  /\ slot # <<>>
  /\ held' = [held EXCEPT ![c] = Head(slot)]
  /\ slot' = Tail(slot)
  /\ pc' = [pc EXCEPT ![c] = "held"]
  /\ UNCHANGED <<queue, gone, asked, serverVars>>

\* ... and, if there is still a process to do so, puts it back and returns.
PollPut(c) ==
  /\ pc[c] = "held"
  /\ c \notin gone
  /\ Len(slot) < MaxSize
  /\ slot' = Append(slot, held[c])
  /\ pc' = [pc EXCEPT ![c] = "off"]
  /\ held' = [held EXCEPT ![c] = 0]
  /\ UNCHANGED <<queue, gone, asked, serverVars>>

\* A client's process dies (SIGINT, SIGKILL).  The call it was in, if it had
\* been sent, is still carried out by the manager's thread.
Die(c) ==
  /\ "client_dies" \in Faults
  /\ c \notin gone
  /\ pc[c] \notin {"off", "raised"}
  /\ gone' = gone \cup {c}
  /\ \/ UNCHANGED pc
     \/ pc[c] # "held" /\ pc' = [pc EXCEPT ![c] = "off"]
  /\ UNCHANGED <<queue, slot, held, asked, serverVars>>
------------------------------------------------------------------------------
(***************************************************************************)
(* refittd: RefittDaemonApp.await_action and DaemonServer.                 *)
(***************************************************************************)
\* restart() or keep_alive() of the services, which may raise; the exception
\* leaves await_action and runs DaemonServer.__exit__.
RestartServices ==
  \/ services' = "alive" /\ server' = "await"
  \/ services' = "dead" /\ server' = "closing"

\* get_action and the choice of what to do.  A flush does nothing; an action
\* that is not recognized is logged.
TakeAction ==
  /\ server = "await"
  /\ queue # <<>>
  /\ queue' = Tail(queue)
  /\ server' = CASE Head(queue) = "stop" -> "closing"
                 [] Head(queue) \in {"status", "restart", "reload"} -> Head(queue)
                 [] OTHER -> "await"
  /\ UNCHANGED <<slot, snap, services, epoch, board, clientVars>>

\* keep_alive only notes that the service has died.
Refresh_M ==
  /\ server = "await"
  /\ queue = <<>>
  /\ KeepAlive
  /\ services = "dead"
  /\ UNCHANGED vars

\* get_action raises Empty after refresh seconds without a request.
Refresh ==
  /\ server = "await"
  /\ queue = <<>>
  /\ KeepAlive
  /\ services = "dead"
  /\ RestartServices
  /\ UNCHANGED <<queue, slot, snap, epoch, board, clientVars>>

Restart ==
  /\ server = "restart"
  /\ RestartServices
  /\ UNCHANGED <<queue, slot, snap, epoch, board, clientVars>>

\* reload() restarts only the services whose configuration has changed; it
\* raises when there is no configuration.
Reload ==
  /\ server = "reload"
  /\ \/ RestartServices
     \/ server' \in {"await", "closing"} /\ UNCHANGED services
  /\ UNCHANGED <<queue, slot, snap, epoch, board, clientVars>>

\* self.status() is computed before the setter takes the old value out.
Snapshot ==
  /\ server = "status"
  /\ epoch' = epoch + 1
  /\ snap' = epoch + 1
  /\ server' = "set_get"
  /\ UNCHANGED <<queue, slot, services, board, clientVars>>

SetGet ==
  /\ server = "set_get"
  /\ slot # <<>>
  /\ slot' = Tail(slot)
  /\ server' = "set_put"
  /\ UNCHANGED <<queue, snap, services, epoch, board, clientVars>>

\* The setter puts back what it took out, as the getter does.
SetPut_M ==
  /\ server = "set_put"
  /\ Len(slot) < MaxSize
  /\ slot' = Append(slot, board)
  /\ board' = snap
  /\ server' = "await"
  /\ UNCHANGED <<queue, snap, services, epoch, clientVars>>

SetPut ==
  /\ server = "set_put"
  /\ Len(slot) < MaxSize
  /\ slot' = Append(slot, snap)
  /\ board' = snap
  /\ server' = "await"
  /\ UNCHANGED <<queue, snap, services, epoch, clientVars>>

\* The manager is not shut down, and the clients' calls go on.
Close_M ==
  /\ server = "closing"
  /\ slot # <<>>
  /\ slot' = Tail(slot)
  /\ server' = "down"
  /\ UNCHANGED <<queue, snap, services, epoch, board, clientVars>>

\* __exit__ waits for the status, then shuts the manager down, which ends
\* the call every client is in.
Close ==
  /\ server = "closing"
  /\ slot # <<>>
  /\ slot' = Tail(slot)
  /\ server' = "down"
  /\ pc' = [c \in Clients |-> "off"]
  /\ held' = [c \in Clients |-> 0]
  /\ UNCHANGED <<queue, snap, services, epoch, board, gone, asked>>

\* Only the services that are alive are stopped.
StopServices_M ==
  /\ server = "down"
  /\ services = "alive"
  /\ services' = "stopped"
  /\ UNCHANGED <<queue, slot, server, snap, epoch, board, clientVars>>

\* RefittDaemonApp.__exit__, after the server's.
StopServices ==
  /\ server = "down"
  /\ services # "stopped"
  /\ services' = "stopped"
  /\ UNCHANGED <<queue, slot, server, snap, epoch, board, clientVars>>

\* KeyboardInterrupt in the daemon's main thread leaves the with block from
\* wherever it is.
Interrupt ==
  /\ "interrupt" \in Faults
  /\ server \notin {"closing", "down"}
  /\ server' = "closing"
  /\ UNCHANGED <<queue, slot, snap, services, epoch, board, clientVars>>

ServiceDies ==
  /\ services = "alive"
  /\ services' = "dead"
  /\ UNCHANGED <<queue, slot, server, snap, epoch, board, clientVars>>

\* The daemon has exited and nobody can connect any more.
Finished ==
  /\ server = "down"
  /\ UNCHANGED vars
------------------------------------------------------------------------------
ClientStep(c) == Request(c) \/ RequestTimeout(c) \/ PollGet(c) \/ PollPut(c)

ServerStep ==
  \/ TakeAction \/ Refresh \/ Restart \/ Reload
  \/ Snapshot \/ SetGet \/ SetPut
  \/ Close \/ StopServices

Next ==
  \/ \E c \in Clients : Invoke(c) \/ ClientStep(c) \/ Die(c)
  \/ ServerStep
  \/ Interrupt
  \/ ServiceDies
  \/ Finished

Spec == Init /\ [][Next]_vars

\* The daemon's thread and the manager's threads are scheduled; nobody has to
\* invoke refittctl, and nothing has to fail.
Fairness ==
  /\ WF_vars(ServerStep)
  /\ \A c \in Clients : WF_vars(ClientStep(c))

FairSpec == Spec /\ Fairness
------------------------------------------------------------------------------
(***************************************************************************)
(* Properties.                                                             *)
(***************************************************************************)
Holders == {c \in Clients : pc[c] = "held"}

\* The status is in the slot, or in the hands of one client, or of the
\* daemon: a put on the slot never finds it full and never replaces a status
\* that somebody else is about to put back (client.py _poll_status, server.py
\* status).
StatusExclusive ==
  /\ Len(slot) <= MaxSize
  /\ slot # <<>> => Holders = {} /\ server \notin {"set_put", "down"}
  /\ Holders # {} => server \notin {"set_put", "down"}
  /\ \A c, d \in Holders : c = d

\* The status that refittctl prints was taken after it was asked for,
\* whatever the other clients did in between: the purpose of the two flushes
\* of DaemonClient.status.
FreshStatus == \A c \in Clients : pc[c] = "held" => held[c] > asked[c]

(***************************************************************************)
(* Why FreshStatus holds.  A client's status request is either in the      *)
(* queue, or being served, or served; after the first flush it is no       *)
(* longer in the queue, and the queue is not empty until it is served;     *)
(* after the second flush it has been served.                              *)
(***************************************************************************)
Served(c) == board > asked[c]
Serving(c) ==
  \/ server = "status"
  \/ server \in {"set_get", "set_put"} /\ snap > asked[c]
Leaving == server \in {"closing", "down"}

BoardInv ==
  /\ board <= epoch
  /\ server \in {"set_get", "set_put"} => snap = epoch /\ board < epoch
  /\ slot # <<>> => Head(slot) = board

RequestInv(c) ==
  /\ asked[c] <= epoch
  /\ held[c] = IF pc[c] = "held" THEN board ELSE 0
  /\ pc[c] = "flush1" =>
       \/ Served(c) \/ Serving(c) \/ Leaving
       \/ queue # <<>> /\ Head(queue) = "status"
  /\ pc[c] = "flush2" =>
       Served(c) \/ (queue # <<>> /\ (Serving(c) \/ Leaving))
  /\ pc[c] \in {"poll", "held"} => Served(c)

\* The two together, for every client, in every state of the channel
\* (client.py status, server.py status).
StatusInv == BoardInv /\ \A c \in Clients : RequestInv(c)

\* The status has one owner, is the newest one, and is on its way to whoever
\* asked for it, whatever dies or is interrupted: the inductive invariant
\* (client.py status and _poll_status, server.py status).
ChannelInv == TypeOK /\ StatusExclusive /\ StatusInv

\* The channel implements the board: a status request is answered with what
\* the board shows at the instant the client takes it out of the slot.
Board == INSTANCE StatusBoard WITH taken <- epoch, answer <- held

\* Every step of the channel is a step of the board or leaves it as it is
\* (client.py status, server.py status).
BoardSpec == Board!Spec

\* Every refittctl comes to an end: answered, timed out or cut off.
ClientsReturn ==
  \A c \in Clients : (pc[c] # "off") ~> (pc[c] \in {"off", "raised"})

\* A daemon that is asked to stop, is interrupted or fails stops its services.
StopHonoured == (server = "closing") ~> (services = "stopped")

\* --keep-alive: "Automatically relaunch services" (apps/refittd).
KeptAlive == (services = "dead") ~> (services # "dead")
==============================================================================
