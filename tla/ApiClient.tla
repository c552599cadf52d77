------------------------------- MODULE ApiClient -------------------------------
(***************************************************************************)
(* The client's side of the web API: web/request.py with its global KEY,   *)
(* SECRET and TOKEN, the programs that use it (apps/refitt/api.py,         *)
(* whoami.py, login.py), and core/config.py, by which all processes of a   *)
(* person share one configuration file.                                    *)
(*                                                                         *)
(* A step is one request to the server, one access of the file, or one     *)
(* answer of the person.  A key stands for key and secret.  The server     *)
(* knows two users: the person ("user"), who may replace the key, and      *)
(* "other", whose token or key a program may be given.  A process reads    *)
(* the configuration once, when it starts.                                 *)
(* Fields from begun on are history.                                       *)
(* Names ending in _M are mistakes the code does not make.                 *)
(***************************************************************************)
EXTENDS Naturals, Sequences, FiniteSets

CONSTANTS
  Procs, None,
  MaxKey,       \* bound: keys of the person
  MaxSecond,    \* bound: seconds, the names of backup files
  MaxRequests   \* bound: requests of one process

ASSUME BoundsAssumption == {MaxKey, MaxSecond, MaxRequests} \subseteq Nat \ {0}

\* What is not there is neither a process, a key, a token, the content of a file nor a word.
ASSUME NoneAssumption ==
  /\ None \notin Procs \cup [of : {"user", "other"}, n : Nat]
  /\ None \notin [of : {"user", "other"}, by : Procs \cup {None}, n : Nat]
  /\ None \notin [key : [of : {"user", "other"}, n : Nat] \cup {None},
                  token : [of : {"user", "other"}, by : Procs \cup {None}, n : Nat] \cup {None}]
  /\ None \notin {"api", "library", "login", "config", "token", "auth",
                  "done", "expired", "refused", "stopped"}

VARIABLES
  key,       \* server: the person's key that is valid
  expired,   \* server: the tokens whose time is over
  config,    \* the configuration file
  backups,   \* its backups, by the second in their name
  second,    \* the time
  proc       \* the processes

server == <<key, expired>>
disk == <<config, backups>>
vars == <<server, disk, second, proc>>

Empty == [key |-> None, token |-> None]
Key(of, n) == [of |-> of, n |-> n]
Token(of, by, n) == [of |-> of, by |-> by, n |-> n]
Given == Token("other", None, 0)      \* --admin, or config.api.admin_token
OtherKey == Key("other", 0)

Unstarted ==
  [kind |-> None, mode |-> None, persist |-> FALSE, config |-> Empty, KEY |-> None, TOKEN |-> None,
   old |-> None, partial |-> Empty, parsed |-> Empty, todo |-> <<>>, sent |-> 0, end |-> None,
   begun |-> 0, requests |-> 0, tokens |-> <<>>, ran |-> 0, as |-> None, whole |-> TRUE,
   wrote |-> 0, overlap |-> FALSE, replaced |-> FALSE, lent |-> FALSE]

Started == {p \in Procs : proc[p].kind # None}
Busy == {p \in Started : proc[p].end = None}
At(p, step) == p \in Busy /\ Head(proc[p].todo) = step
\* Who is at work on the file, or has a key for it.
Updating == {p \in Busy : proc[p].partial.key # None \/ Head(proc[p].todo) \in {"read", "open", "write"}}
------------------------------------------------------------------------------
Init ==
  /\ key = 1 /\ expired = {} /\ second = 1
  /\ config \in {Empty, [key |-> Key("user", 1), token |-> None],
                 [key |-> Key("user", 1), token |-> Token("user", None, 0)]}
  /\ backups = [s \in 1..MaxSecond |-> None]
  /\ proc = [p \in Procs |-> Unstarted]

Pass == second < MaxSecond /\ second' = second + 1 /\ UNCHANGED <<server, disk, proc>>

Expire ==
  /\ \E t \in {proc[p].TOKEN : p \in Busy} \cup {config.token} :
       t # None /\ t \notin expired /\ expired' = expired \cup {t}
  /\ UNCHANGED <<key, disk, second, proc>>
------------------------------------------------------------------------------
(***************************************************************************)
(* Programs.                                                               *)
(***************************************************************************)
\* use_token and use_auth set a global for the time of a request,
Use(state, mode) ==
  CASE mode = "config" -> state
    [] mode = "token"  -> [state EXCEPT !.old = state.TOKEN, !.TOKEN = Given]
    [] mode = "auth"   -> [state EXCEPT !.old = state.KEY, !.KEY = OtherKey]

\* and put the old value back.
Leave_M(state) == state

Leave(state) ==
  CASE state.mode = "token" -> [state EXCEPT !.TOKEN = state.old, !.old = None]
    [] state.mode = "auth"  -> [state EXCEPT !.KEY = state.old, !.old = None]
    [] OTHER                -> state

\* Nothing has come of another request yet.
Another(state) ==
  [state EXCEPT !.requests = @ + 1, !.sent = 0, !.ran = 0, !.as = None, !.whole = TRUE,
     !.tokens = <<>>, !.end = None]

\* authenticated: a request with no token gets one first.
Authenticated(state, mode) ==
  LET now == Another(Use(state, mode)) IN
  [now EXCEPT !.mode = mode, !.lent = @ \/ mode = "auth",
     !.todo = IF now.TOKEN = None THEN <<"refresh_token", "send">> ELSE <<"send">>]

New(kind) ==
  [Unstarted EXCEPT !.kind = kind, !.config = config,
     !.begun = IF \E q \in Busy : proc[q].partial.key # None THEN 0 ELSE key]

\* refitt api and whoami keep a new token in the file; another program that
\* uses the module does not.
StartRequest(p) ==
  /\ proc[p].kind = None
  /\ \/ \E mode \in {"config", "token"} :
          proc' = [proc EXCEPT ![p] = Authenticated([New("api") EXCEPT !.persist = TRUE], mode)]
     \/ \E mode \in {"config", "token", "auth"} :
          proc' = [proc EXCEPT ![p] = Authenticated(New("library"), mode)]
  /\ UNCHANGED <<server, disk, second>>

\* refitt login --force asks for a key; without --force, only when none is
\* configured.
StartLogin(p) ==
  /\ proc[p].kind = None
  /\ \E force \in BOOLEAN :
       /\ force \/ config.key = None
       /\ proc' = [proc EXCEPT ![p] = [New("login") EXCEPT !.todo = <<"prompt">>]]
  /\ UNCHANGED <<server, disk, second>>

\* A program makes another request, with what it then has.
Again(p) ==
  /\ proc[p].kind = "library" /\ proc[p].end \notin {None, "stopped"}
  /\ proc[p].requests < MaxRequests
  /\ proc' = [proc EXCEPT ![p] = Authenticated(@, "config")]
  /\ UNCHANGED <<server, disk, second>>

\* A process that will make no other request keeps nothing.
End(p, state, how) ==
  LET left == Leave([state EXCEPT !.todo = <<>>, !.partial = Empty, !.parsed = Empty, !.end = how])
      exits == how = "stopped" \/ state.kind # "library" \/ state.requests = MaxRequests
  IN proc' = [proc EXCEPT ![p] =
       IF exits THEN [left EXCEPT !.KEY = None, !.TOKEN = None, !.old = None] ELSE left]
------------------------------------------------------------------------------
(***************************************************************************)
(* login and refresh_token.                                                *)
(***************************************************************************)
UpdateConfig == <<"backup", "read", "open", "write">>
Continue(p, state) == IF state.todo = <<>> THEN End(p, state, "done")
                   ELSE proc' = [proc EXCEPT ![p] = state]

\* The person gets a new key on the web site, which replaces the old one, and
\* pastes it; it is written to the configuration file.
Prompt_M(p) ==
  /\ At(p, "prompt") /\ key < MaxKey
  /\ key' = key + 1
  /\ Continue(p, [proc[p] EXCEPT !.KEY = Key("user", key'), !.todo = Tail(@)])
  /\ UNCHANGED <<expired, disk, second>>

Prompt(p) ==
  /\ At(p, "prompt") /\ key < MaxKey
  /\ key' = key + 1
  /\ proc' = [proc EXCEPT ![p].KEY = Key("user", key'), ![p].todo = UpdateConfig \o Tail(@),
                          ![p].partial = [key |-> Key("user", key'), token |-> None]]
  /\ UNCHANGED <<expired, disk, second>>

\* refresh_token: the token that was configured when the process started, or
\* one for the global key, for the configured one, or for one that is asked for.
RefreshToken(p) ==
  /\ At(p, "refresh_token")
  /\ LET configured == proc[p].config
         force == proc[p].sent > 0
         now == IF proc[p].KEY # None THEN proc[p].KEY ELSE configured.key
         done == configured.token # None /\ ~force
     IN proc' = [proc EXCEPT ![p].KEY = IF done THEN @ ELSE now,
          ![p].TOKEN = configured.token,
          ![p].todo = IF done THEN Tail(@)
                      ELSE (IF now = None THEN <<"prompt">> ELSE <<>>) \o <<"get_token">> \o Tail(@)]
  /\ UNCHANGED <<server, disk, second>>

\* GET /token; any answer but OK is raised.
GetToken(p) ==
  /\ At(p, "get_token")
  /\ LET by == proc[p].KEY
         new == Token(by.of, p, 2 * proc[p].requests + proc[p].sent)
     IN IF by.of = "user" /\ by.n # key THEN End(p, proc[p], "refused")
        ELSE proc' = [proc EXCEPT ![p].TOKEN = new,
               ![p].partial = IF proc[p].persist THEN [key |-> None, token |-> new] ELSE @,
               ![p].todo = (IF proc[p].persist THEN UpdateConfig ELSE <<>>) \o Tail(@)]
  /\ UNCHANGED <<server, disk, second>>
------------------------------------------------------------------------------
(***************************************************************************)
(* request: the server checks the token and runs the route, which answers  *)
(* with success or fails, as it does to the program when the answer is     *)
(* lost.  Only the answer 'Token expired' makes the wrapper repeat the request, once, with a new  *)
(* token.  A file is read from a stream, which is at its end the second    *)
(* time.                                                                   *)
(***************************************************************************)
Repeat(state) ==
  [state EXCEPT !.sent = 1, !.tokens = <<state.TOKEN>>, !.todo = <<"refresh_token", "send">>]
Sent(state) == [state EXCEPT !.sent = @ + 1, !.tokens = Append(@, state.TOKEN)]
Ran(state) == [Sent(state) EXCEPT !.ran = @ + 1, !.as = state.TOKEN.of, !.whole = state.sent = 0]

Send_M(p) ==
  /\ At(p, "send")
  /\ LET state == proc[p] IN
     CASE state.TOKEN \in expired ->
            IF state.sent = 0 THEN proc' = [proc EXCEPT ![p] = Repeat(state)]
            ELSE End(p, Sent(state), "expired")
       [] OTHER -> \/ End(p, Ran(state), "done")
                   \/ IF state.sent = 0 THEN proc' = [proc EXCEPT ![p] = Repeat(Ran(state))]
                      ELSE End(p, Ran(state), "done")
  /\ UNCHANGED <<server, disk, second>>

Send(p) ==
  /\ At(p, "send")
  /\ LET state == proc[p] IN
     CASE state.TOKEN \in expired ->
            IF state.sent = 0 THEN proc' = [proc EXCEPT ![p] = Repeat(state)]
            ELSE End(p, Sent(state), "expired")
       [] OTHER -> End(p, Ran(state), "done")
  /\ UNCHANGED <<server, disk, second>>
------------------------------------------------------------------------------
(***************************************************************************)
(* update of core/config.py.                                               *)
(***************************************************************************)
\* The file is copied, under a name that has the second in it,
Backup(p) ==
  /\ At(p, "backup")
  /\ backups' = [backups EXCEPT ![second] = config]
  /\ proc' = [q \in Procs |->
       LET others == Updating \ {p}
           meets == IF q = p THEN others # {} ELSE q \in others
           next == IF q = p THEN [proc[q] EXCEPT !.todo = Tail(@)] ELSE proc[q]
       IN [next EXCEPT !.overlap = @ \/ meets,
                       !.replaced = @ \/ (q = p /\ backups[second] # None)]]
  /\ UNCHANGED <<server, config, second>>

\* read,
Read(p) ==
  /\ At(p, "read")
  /\ proc' = [proc EXCEPT ![p].parsed = config, ![p].todo = Tail(@)]
  /\ UNCHANGED <<server, disk, second>>

\* opened, by which it is empty, and written: what is new and what was read.
Open(p) ==
  /\ At(p, "open")
  /\ config' = Empty
  /\ proc' = [proc EXCEPT ![p].todo = Tail(@)]
  /\ UNCHANGED <<server, backups, second>>

inplace_update_M(original, partial) == partial

inplace_update(original, partial) ==
  [entry \in DOMAIN original |-> IF partial[entry] # None THEN partial[entry] ELSE original[entry]]

Write(p) ==
  /\ At(p, "write")
  /\ config' = inplace_update(proc[p].parsed, proc[p].partial)
  /\ LET new == proc[p].partial.key IN
     Continue(p, [proc[p] EXCEPT !.todo = Tail(@), !.partial = Empty, !.parsed = Empty,
                 !.wrote = IF new = None THEN @ ELSE new.n])
  /\ UNCHANGED <<server, backups, second>>

\* A process is interrupted.
Stop(p) == p \in Busy /\ End(p, proc[p], "stopped") /\ UNCHANGED <<server, disk, second>>

Finished == Busy = {} /\ UNCHANGED vars

Next ==
  \/ Pass \/ Expire \/ Finished
  \/ \E p \in Procs :
       \/ StartRequest(p) \/ StartLogin(p) \/ Again(p) \/ Stop(p)
       \/ Prompt(p) \/ RefreshToken(p) \/ GetToken(p) \/ Send(p)
       \/ Backup(p) \/ Read(p) \/ Open(p) \/ Write(p)

Spec == Init /\ [][Next]_vars
------------------------------------------------------------------------------
(***************************************************************************)
(* Properties.                                                             *)
(***************************************************************************)
Has(content, n) == content # None /\ content.key # None /\ content.key.n >= n
Apart == \A p \in Started : ~proc[p].overlap
Opened == \E p \in Procs : At(p, "write")

\* Keys and tokens are of whom they may be; who holds no token asks for one.
TypeOK ==
  /\ key \in 1..MaxKey /\ config.key # None => config.key.n \in 1..key
  /\ config.token # None => config.token.of = "user"
  /\ \A p \in Started :
       /\ proc[p].end \in {None, "done", "expired", "refused", "stopped"}
       /\ p \in Busy <=> proc[p].todo # <<>>
       /\ At(p, "send") => proc[p].TOKEN # None
       /\ At(p, "get_token") => proc[p].KEY # None

\* A request that is repeated has not run before, so that each runs at most
\* once and, when its program hears of success or of an error of the route,
\* just once; and it runs with its whole file, if it was not repeated.
RanOnce ==
  \A p \in Started : LET run == proc[p] IN
    /\ run.ran <= 1 /\ run.sent <= 2
    /\ run.kind # "login" /\ run.end = "done" => run.ran = 1
    /\ run.ran = 1 => run.whole = (run.sent = 1)

\* A program is told 'Token expired' only if the token that was issued for the
\* repetition expired before it was used.
FreshOnRepeat ==
  \A p \in Started : Len(proc[p].tokens) = 2 =>
    proc[p].tokens[2].by = p /\ proc[p].tokens[2] # proc[p].tokens[1]

\* A program is refused only if the key was
\* replaced since it read the configuration, or the configuration is behind
\* because updates of it overlapped or one was interrupted.
RefusedForCause ==
  \A p \in Started : proc[p].end = "refused" =>
    \/ key > proc[p].begun
    \/ ~Apart \/ \E q \in Started : proc[q].end = "stopped"

\* A request runs as the person unless it was given another's token or key, or
\* the program used another's key before and kept its token; and one that was
\* given a token or a key runs as its owner, unless that token had expired, or
\* a token was there and the key not needed.
AsWhom ==
  \A p \in Started : LET run == proc[p] IN run.ran = 1 =>
    /\ run.as = "other" => run.mode = "token" \/ run.lent
    /\ run.as = "user" /\ run.mode = "token" => run.tokens[1] = Given /\ Given \in expired
    /\ run.as = "user" /\ run.mode = "auth" => run.config.token # None \/ run.requests > 1

\* "Extend the current configuration and commit it to disk" (update): a key
\* that was written stays in the file until a newer one is written, if updates
\* do not overlap and none is interrupted; and in the file or a backup if one is
\* interrupted, but no two backups are of one second.
KeyKept ==
  \A p \in Started : proc[p].wrote > 0 /\ Apart =>
    /\ (\A q \in Started : proc[q].end # "stopped") /\ ~Opened => Has(config, proc[p].wrote)
    /\ (\A q \in Started : ~proc[q].replaced) =>
         \E content \in {config} \cup {backups[s] : s \in 1..MaxSecond} : Has(content, proc[p].wrote)

\* A request runs once at most, whatever token it has or gets (web/request.py
\* authenticated, refresh_token).
RequestInv == TypeOK /\ RanOnce /\ FreshOnRepeat
==============================================================================
