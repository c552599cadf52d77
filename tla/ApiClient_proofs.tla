---------------------------- MODULE ApiClient_proofs ----------------------------
(***************************************************************************)
(* Theorems about ApiClient, for any number of processes, keys, seconds    *)
(* and requests.                                                           *)
(***************************************************************************)
EXTENDS ApiClient, SequenceTheorems, TLAPS

Owner == {"user", "other"}
Keys == [of : Owner, n : Nat]
Tokens == [of : Owner, by : Procs \cup {None}, n : Nat]
Content == [key : Keys \cup {None}, token : Tokens \cup {None}]

\* The steps of an update that are left, and what comes after it.
WriteSteps == {UpdateConfig, <<"read", "open", "write">>, <<"open", "write">>, <<"write">>}
Rests == {<<>>, <<"send">>, <<"get_token", "send">>}
Steps == {"prompt", "refresh_token", "get_token", "send", "backup", "read", "open", "write"}

Run ==
  [kind : {None, "api", "library", "login"}, mode : {None, "config", "token", "auth"},
   persist : BOOLEAN, config : Content, KEY : Keys \cup {None}, TOKEN : Tokens \cup {None},
   old : {None}, partial : Content, parsed : Content, todo : Seq(Steps), sent : 0..2,
   end : {None, "done", "expired", "refused", "stopped"}, begun : Nat, requests : Nat,
   tokens : Seq(Tokens), ran : 0..1, as : Owner \cup {None}, whole : BOOLEAN, wrote : Nat,
   overlap : BOOLEAN, replaced : BOOLEAN, lent : BOOLEAN]

\* Every variable has its type.
Typed ==
  /\ key \in 1..MaxKey /\ second \in 1..MaxSecond /\ expired \subseteq Tokens
  /\ config \in Content /\ backups \in [1..MaxSecond -> Content \cup {None}]
  /\ proc \in [Procs -> Run]

\* A key that is of the person is one that was issued.
Issued(k) == k # None /\ k.of = "user" => k.n \in 1..key

\* The file holds the person's keys and tokens, which started processes got.
Mine(content) ==
  /\ content.key # None => content.key.of = "user" /\ Issued(content.key)
  /\ content.token # None =>
       content.token.of = "user" /\ \A p \in Procs : content.token.by = p => proc[p].kind # None

\* No token that p got is newer than its n-th.
OwnUpTo(p, token, n) == token # None /\ token.by = p => token.n <= n

\* What a process has, whatever it does next.
Having(p) ==
  LET run == proc[p] IN
  /\ run.kind = None => run = Unstarted
  /\ Mine(run.config) /\ Mine(run.partial) /\ Mine(run.parsed)
  /\ run.config.token # None => run.config.token.by # p
  /\ Issued(run.KEY) /\ (run.KEY # None /\ run.KEY.of = "other" => run.lent)
  /\ OwnUpTo(p, run.TOKEN, 2 * run.requests + 1)
  /\ run.TOKEN # None /\ run.TOKEN.of = "other" => run.lent \/ (run.mode = "token" /\ run.end = None)
  /\ run.persist <=> run.kind = "api"
  /\ run.kind = "api" => ~run.lent
  /\ run.wrote <= key /\ run.begun <= key

HasInv == Mine(config) /\ \A p \in Procs : Having(p)

\* A request that is under way has not run, and was sent once at most.
Requesting(p) ==
  LET run == proc[p] IN
  /\ run.kind \in {"api", "library"} /\ run.mode # None /\ run.ran = 0
  /\ \/ run.sent = 0 /\ run.tokens = <<>> /\ OwnUpTo(p, run.TOKEN, 2 * run.requests)
     \/ /\ run.sent = 1 /\ run.tokens = <<run.tokens[1]>>
        /\ OwnUpTo(p, run.tokens[1], 2 * run.requests)
        /\ run.mode = "token" => run.tokens[1] = Given /\ Given \in expired
  /\ run.mode = "token" /\ run.sent = 0 => run.todo = <<"send">> /\ run.TOKEN = Given
  /\ run.mode = "auth" /\ run.config.token = None =>
       run.KEY = OtherKey /\ (run.TOKEN = None \/ run.TOKEN.of = "other")

\* A login makes no request.
LoggingIn(p) == proc[p].kind = "login" /\ proc[p].ran = 0 /\ proc[p].tokens = <<>>

\* What holds of p when rest is what it has to do after an update, if any.
Continuing(p, rest) ==
  LET run == proc[p] IN
  \/ rest = <<>> /\ LoggingIn(p)
  \/ rest = <<"get_token", "send">> /\ Requesting(p) /\ run.KEY # None
  \/ /\ rest = <<"send">> /\ Requesting(p) /\ run.TOKEN # None
     /\ run.sent = 1 => run.TOKEN.by = p /\ run.TOKEN.n = 2 * run.requests + 1

\* A process that is busy is at a step of its program.
Doing(p) ==
  LET run == proc[p] IN
  \/ /\ run.partial = Empty /\ run.parsed = Empty
     /\ \/ run.todo = <<"prompt">> /\ LoggingIn(p)
        \/ run.todo = <<"refresh_token", "send">> /\ Requesting(p)
        \/ run.todo = <<"prompt", "get_token", "send">> /\ Requesting(p) /\ run.KEY = None
        \/ run.todo \in Rests \ {<<>>} /\ Continuing(p, run.todo)
  \/ \E steps \in WriteSteps, rest \in Rests : run.todo = steps \o rest /\ Continuing(p, rest)

\* What a process has done that has come to an end.
Done(p) ==
  LET run == proc[p] IN
  /\ run.todo = <<>> /\ run.partial = Empty /\ run.parsed = Empty
  /\ run.mode = "token" => run.TOKEN = None
  /\ run.kind # "login" /\ run.end = "done" => run.ran = 1
  /\ run.ran = 1 =>
       /\ run.whole = (run.sent = 1)
       /\ run.as = "other" => run.mode = "token" \/ run.lent
       /\ run.as = "user" /\ run.mode = "token" => run.tokens[1] = Given /\ Given \in expired
       /\ run.as = "user" /\ run.mode = "auth" => run.config.token # None
  /\ Len(run.tokens) = 2 => run.tokens[2].by = p /\ run.tokens[2] # run.tokens[1]

\* Every process that was started is at its work, or has done it.
AtWork(p) == proc[p].kind # None => IF proc[p].end = None THEN Doing(p) ELSE Done(p)
LocalInv == \A p \in Procs : AtWork(p)

\* Has a process made its backup, and not written yet; has it a key to write.
Past(p) == At(p, "read") \/ At(p, "open") \/ At(p, "write")
Holder(p) == p \in Busy /\ proc[p].partial.key # None
NewKey(p) == proc[p].partial.key.n

\* No process was interrupted; no backup was replaced.
NoStop == \A p \in Procs : proc[p].end # "stopped"
NoReplaced == \A p \in Procs : ~proc[p].replaced

\* While updates do not overlap, one process is past its backup; a key that
\* is then held by another was issued later, and those written before.
ApartInv ==
  Apart => \A p, q \in Procs :
    /\ Past(p) /\ Past(q) => p = q
    /\ Past(p) /\ Holder(p) /\ Holder(q) /\ p # q => NewKey(p) < NewKey(q)
    /\ Holder(q) => proc[p].wrote <= NewKey(q)

\* No key that was written is newer than the one in content.
UpToDate(content) == \A p \in Procs : proc[p].wrote > 0 => Has(content, proc[p].wrote)

\* The file is up to date unless it is open; then what was read of it is.
FileInv ==
  Apart /\ NoStop =>
    /\ ~Opened => UpToDate(config)
    /\ \A p \in Procs : At(p, "open") \/ At(p, "write") => UpToDate(proc[p].parsed)

\* One of the file and its backups is up to date, and before the file is
\* opened there is a backup of it.
BackupInv ==
  Apart /\ NoReplaced =>
    /\ \E content \in {config} \cup {backups[s] : s \in 1..MaxSecond} : UpToDate(content)
    /\ \A p \in Procs :
         /\ At(p, "read") \/ At(p, "open") => \E s \in 1..MaxSecond : backups[s] = config
         /\ At(p, "write") => config = Empty

\* The key in the file is the last one, unless a newer is about to be written.
Newest ==
  \/ \E p \in Procs : Holder(p) /\ NewKey(p) = key
  \/ /\ \A p \in Procs : ~Holder(p)
     /\ config.key # None => config.key.n = key
     /\ \A p \in Procs : (At(p, "open") \/ At(p, "write")) /\ proc[p].parsed.key # None =>
          proc[p].parsed.key.n = key

\* The person's key that p has was the last one when p was started, or is newer.
SinceBegun(p) ==
  /\ proc[p].config.key # None => proc[p].config.key.n >= proc[p].begun
  /\ proc[p].KEY # None => proc[p].KEY.of = "other" \/ proc[p].KEY.n >= proc[p].begun

KeyInv == Apart /\ NoStop => Newest /\ \A p \in Procs : SinceBegun(p)

\* RefusedForCause, for any process.
RefusedInv ==
  \A p \in Procs : proc[p].end = "refused" => key > proc[p].begun \/ ~Apart \/ ~NoStop

\* The inductive invariant of the client (web/request.py, core/config.py).
IInv ==
  Typed /\ HasInv /\ LocalInv /\ ApartInv /\ FileInv /\ BackupInv /\ KeyInv /\ RefusedInv
------------------------------------------------------------------------------
(***************************************************************************)
(* What is left of a program.                                              *)
(***************************************************************************)
\* The first step of what is left, and what is left after it
\* (core/config.py update).
LEMMA ConcatTail ==
  ASSUME NEW s \in Seq(Steps), NEW t \in Seq(Steps), s # <<>>
  PROVE  /\ s \o t \in Seq(Steps) /\ s \o t # <<>>
         /\ Head(s \o t) = Head(s) /\ Tail(s \o t) = Tail(s) \o t
<1>1. Len(s) \in Nat /\ Len(s) > 0 /\ Len(t) \in Nat
  BY EmptySeq, LenProperties
<1>2. /\ s \o t \in Seq(Steps) /\ Len(s \o t) = Len(s) + Len(t)
      /\ \A i \in 1..(Len(s) + Len(t)) : (s \o t)[i] = IF i <= Len(s) THEN s[i] ELSE t[i - Len(s)]
  BY ConcatProperties
<1>3. s \o t # <<>>
  BY <1>1, <1>2
<1>4. /\ Tail(s) \in Seq(Steps) /\ Len(Tail(s)) = Len(s) - 1
      /\ \A i \in 1..Len(Tail(s)) : Tail(s)[i] = s[i + 1]
  BY HeadTailProperties
<1>5. /\ Tail(s \o t) \in Seq(Steps) /\ Len(Tail(s \o t)) = Len(s) + Len(t) - 1
      /\ \A i \in 1..(Len(s) + Len(t) - 1) : Tail(s \o t)[i] = (s \o t)[i + 1]
  BY <1>2, <1>3, HeadTailProperties
<1>6. /\ Tail(s) \o t \in Seq(Steps) /\ Len(Tail(s) \o t) = Len(s) - 1 + Len(t)
      /\ \A i \in 1..(Len(s) - 1 + Len(t)) :
           (Tail(s) \o t)[i] = IF i <= Len(s) - 1 THEN Tail(s)[i] ELSE t[i - (Len(s) - 1)]
  BY <1>4, ConcatProperties
<1>7. ASSUME NEW i \in 1..(Len(s) + Len(t) - 1) PROVE Tail(s \o t)[i] = (Tail(s) \o t)[i]
  BY <1>1, <1>2, <1>4, <1>5, <1>6, <1>7
<1>8. Tail(s \o t) = Tail(s) \o t
  BY <1>1, <1>5, <1>6, <1>7, SeqEqual
<1>9. Head(s \o t) = Head(s)
  BY <1>1, <1>2
<1>. QED
  BY <1>2, <1>3, <1>8, <1>9

\* An update is four steps, one after the other (core/config.py update).
LEMMA UpdateSteps ==
  ASSUME NEW rest \in Rests
  PROVE  /\ rest \in Seq(Steps) /\ \A steps \in WriteSteps : steps \o rest \in Seq(Steps)
         /\ LET left(steps) == steps \o rest IN
            /\ \A steps \in WriteSteps : left(steps) # <<>>
            /\ Head(left(UpdateConfig)) = "backup"
            /\ Tail(left(UpdateConfig)) = left(<<"read", "open", "write">>)
            /\ Head(left(<<"read", "open", "write">>)) = "read"
            /\ Tail(left(<<"read", "open", "write">>)) = left(<<"open", "write">>)
            /\ Head(left(<<"open", "write">>)) = "open"
            /\ Tail(left(<<"open", "write">>)) = left(<<"write">>)
            /\ Head(left(<<"write">>)) = "write"
            /\ Tail(left(<<"write">>)) = rest
<1>1. rest \in Seq(Steps)
  <2>1. <<>> \in Seq(Steps) /\ <<"send">> \in Seq(Steps) /\ <<"get_token", "send">> \in Seq(Steps)
    BY DEF Steps
  <2>. QED
    BY <2>1 DEF Rests
<1>2. /\ UpdateConfig \in Seq(Steps) /\ UpdateConfig # <<>>
      /\ Head(UpdateConfig) = "backup" /\ Tail(UpdateConfig) = <<"read", "open", "write">>
  BY DEF UpdateConfig, Steps
<1>3. /\ <<"read", "open", "write">> \in Seq(Steps) /\ <<"read", "open", "write">> # <<>>
      /\ Head(<<"read", "open", "write">>) = "read"
      /\ Tail(<<"read", "open", "write">>) = <<"open", "write">>
  BY DEF Steps
<1>4. /\ <<"open", "write">> \in Seq(Steps) /\ <<"open", "write">> # <<>>
      /\ Head(<<"open", "write">>) = "open" /\ Tail(<<"open", "write">>) = <<"write">>
  BY DEF Steps
<1>5. /\ <<"write">> \in Seq(Steps) /\ <<"write">> # <<>>
      /\ Head(<<"write">>) = "write" /\ Tail(<<"write">>) = <<>>
  BY DEF Steps
<1>6. <<>> \o rest = rest
  BY <1>1, ConcatEmptySeq
<1>7. \A steps \in WriteSteps : steps \in Seq(Steps) /\ steps # <<>>
  BY <1>2, <1>3, <1>4, <1>5 DEF WriteSteps
<1>8. \A steps \in WriteSteps :
        /\ steps \o rest \in Seq(Steps) /\ steps \o rest # <<>>
        /\ Head(steps \o rest) = Head(steps) /\ Tail(steps \o rest) = Tail(steps) \o rest
  BY <1>1, <1>7, ConcatTail
<1>. QED
  BY <1>1, <1>2, <1>3, <1>4, <1>5, <1>6, <1>8 DEF WriteSteps

\* Two programs of the same steps are the same.
LEMMA SameSteps ==
  ASSUME NEW s \in Seq(Steps), NEW t \in Seq(Steps), NEW n \in Nat, Len(s) = n, Len(t) = n,
         \A i \in 1..n : s[i] = t[i]
  PROVE  s = t
BY SeqEqual

\* What GET /token leaves to be done after it (web/request.py refresh_token).
LEMMA RefreshSteps ==
  /\ <<>> \o <<"get_token">> \o <<"send">> = <<"get_token", "send">>
  /\ <<"prompt">> \o <<"get_token">> \o <<"send">> = <<"prompt", "get_token", "send">>
  /\ <<>> \o <<"send">> = <<"send">>
<1>1. /\ <<"prompt">> \in Seq(Steps) /\ <<"get_token">> \in Seq(Steps) /\ <<"send">> \in Seq(Steps)
      /\ <<"prompt", "get_token">> \in Seq(Steps) /\ <<"get_token", "send">> \in Seq(Steps)
      /\ <<"prompt", "get_token", "send">> \in Seq(Steps)
  BY DEF Steps
<1>2. <<>> \o <<"get_token">> = <<"get_token">> /\ <<>> \o <<"send">> = <<"send">>
  BY <1>1, ConcatEmptySeq
<1>3. <<"get_token">> \o <<"send">> = <<"get_token", "send">>
  <2>1. /\ Len(<<"get_token">> \o <<"send">>) = 2
        /\ (<<"get_token">> \o <<"send">>)[1] = "get_token"
        /\ (<<"get_token">> \o <<"send">>)[2] = "send"
        /\ <<"get_token">> \o <<"send">> \in Seq(Steps)
    BY <1>1, ConcatProperties
  <2>2. /\ Len(<<"get_token", "send">>) = 2
        /\ \A i \in 1..2 : (<<"get_token">> \o <<"send">>)[i] = <<"get_token", "send">>[i]
    BY <2>1
  <2>. QED
    BY <1>1, <2>1, <2>2, SameSteps
<1>4. <<"prompt">> \o <<"get_token">> = <<"prompt", "get_token">>
  <2>1. /\ Len(<<"prompt">> \o <<"get_token">>) = 2
        /\ (<<"prompt">> \o <<"get_token">>)[1] = "prompt"
        /\ (<<"prompt">> \o <<"get_token">>)[2] = "get_token"
        /\ <<"prompt">> \o <<"get_token">> \in Seq(Steps)
    BY <1>1, ConcatProperties
  <2>2. /\ Len(<<"prompt", "get_token">>) = 2
        /\ \A i \in 1..2 : (<<"prompt">> \o <<"get_token">>)[i] = <<"prompt", "get_token">>[i]
    BY <2>1
  <2>. QED
    BY <1>1, <2>1, <2>2, SameSteps
<1>5. <<"prompt", "get_token">> \o <<"send">> = <<"prompt", "get_token", "send">>
  <2>1. /\ Len(<<"prompt", "get_token">> \o <<"send">>) = 3
        /\ (<<"prompt", "get_token">> \o <<"send">>)[1] = "prompt"
        /\ (<<"prompt", "get_token">> \o <<"send">>)[2] = "get_token"
        /\ (<<"prompt", "get_token">> \o <<"send">>)[3] = "send"
        /\ <<"prompt", "get_token">> \o <<"send">> \in Seq(Steps)
    BY <1>1, ConcatProperties
  <2> DEFINE joined == <<"prompt", "get_token">> \o <<"send">>
             whole == <<"prompt", "get_token", "send">>
  <2>2. Len(whole) = 3 /\ whole[1] = "prompt" /\ whole[2] = "get_token" /\ whole[3] = "send"
    OBVIOUS
  <2>3. /\ Len(joined) = 3 /\ joined[1] = "prompt" /\ joined[2] = "get_token" /\ joined[3] = "send"
        /\ joined \in Seq(Steps) /\ whole \in Seq(Steps)
    BY <1>1, <2>1
  <2> HIDE DEF joined, whole
  <2>4. \A i \in 1..3 : joined[i] = whole[i]
    BY <2>2, <2>3
  <2>5. joined = whole
    BY <2>2, <2>3, <2>4, SameSteps
  <2>. QED
    BY <2>5 DEF joined, whole
<1>. QED
  BY <1>2, <1>3, <1>4, <1>5
------------------------------------------------------------------------------
(***************************************************************************)
(* What the steps do to a process.                                         *)
(***************************************************************************)
\* Nothing is known of a process that was not started, and of an empty file.
LEMMA EmptyTyped ==
  /\ Empty \in Content /\ Unstarted \in Run /\ <<>> \in Seq(Steps) /\ <<>> \in Seq(Tokens)
  /\ Given \in Tokens /\ OtherKey \in Keys /\ Given # None /\ OtherKey # None
<1>1. <<>> \in Seq(Steps) /\ <<>> \in Seq(Tokens)
  OBVIOUS
<1>2. Empty \in Content /\ Given \in Tokens /\ OtherKey \in Keys
  BY DEF Empty, Content, Given, Token, Tokens, OtherKey, Key, Keys, Owner
<1>3. Given # None /\ OtherKey # None
  BY <1>2, NoneAssumption DEF Tokens, Keys, Owner
<1>4. Unstarted \in Run
  BY <1>1, <1>2 DEF Unstarted, Run
<1>. QED
  BY <1>1, <1>2, <1>3, <1>4

\* Where a process is that is busy (web/request.py, core/config.py update).
LEMMA Phases ==
  ASSUME IInv, NEW p \in Procs, p \in Busy
  PROVE  LET run == proc[p] IN
    /\ run \in Run /\ run.todo # <<>> /\ Doing(p)
    /\ Head(run.todo) = "prompt" =>
         /\ run.partial = Empty /\ run.parsed = Empty
         /\ \/ Tail(run.todo) = <<>> /\ LoggingIn(p)
            \/ Tail(run.todo) = <<"get_token", "send">> /\ Requesting(p) /\ run.KEY = None
    /\ Head(run.todo) = "refresh_token" =>
         /\ run.partial = Empty /\ run.parsed = Empty
         /\ Tail(run.todo) = <<"send">> /\ Requesting(p) /\ run.todo = <<"refresh_token", "send">>
    /\ Head(run.todo) = "get_token" =>
         /\ run.partial = Empty /\ run.parsed = Empty /\ run.todo # <<"send">>
         /\ Tail(run.todo) = <<"send">> /\ Requesting(p) /\ run.KEY # None
    /\ Head(run.todo) = "send" =>
         /\ run.partial = Empty /\ run.parsed = Empty /\ run.todo = <<"send">>
         /\ Continuing(p, <<"send">>)
    /\ Head(run.todo) \in {"backup", "read", "open", "write"} =>
         \E rest \in Rests :
           /\ Continuing(p, rest)
           /\ Tail(run.todo) =
                CASE Head(run.todo) = "backup" -> <<"read", "open", "write">> \o rest
                  [] Head(run.todo) = "read"   -> <<"open", "write">> \o rest
                  [] Head(run.todo) = "open"   -> <<"write">> \o rest
                  [] Head(run.todo) = "write"  -> rest
<1> DEFINE run == proc[p]
<1>1. run \in Run /\ Doing(p)
  BY DEF IInv, Typed, LocalInv, AtWork, Busy, Started
<1>2. CASE \E steps \in WriteSteps, rest \in Rests : run.todo = steps \o rest /\ Continuing(p, rest)
  <2>1. PICK steps \in WriteSteps, rest \in Rests : run.todo = steps \o rest /\ Continuing(p, rest)
    BY <1>2
  <2>2. run.todo # <<>>
    BY <2>1, UpdateSteps
  <2>3. CASE steps = UpdateConfig
    <3>1. Head(run.todo) = "backup" /\ Tail(run.todo) = <<"read", "open", "write">> \o rest
      BY <2>1, <2>3, UpdateSteps DEF WriteSteps
    <3>. QED
      BY <1>1, <2>1, <2>2, <3>1
  <2>4. CASE steps = <<"read", "open", "write">>
    <3>1. Head(run.todo) = "read" /\ Tail(run.todo) = <<"open", "write">> \o rest
      BY <2>1, <2>4, UpdateSteps DEF WriteSteps
    <3>. QED
      BY <1>1, <2>1, <2>2, <3>1
  <2>5. CASE steps = <<"open", "write">>
    <3>1. Head(run.todo) = "open" /\ Tail(run.todo) = <<"write">> \o rest
      BY <2>1, <2>5, UpdateSteps DEF WriteSteps
    <3>. QED
      BY <1>1, <2>1, <2>2, <3>1
  <2>6. CASE steps = <<"write">>
    <3>1. Head(run.todo) = "write" /\ Tail(run.todo) = rest
      BY <2>1, <2>6, UpdateSteps DEF WriteSteps
    <3>. QED
      BY <1>1, <2>1, <2>2, <3>1
  <2>. QED
    BY <2>3, <2>4, <2>5, <2>6 DEF WriteSteps
<1>3. CASE ~\E steps \in WriteSteps, rest \in Rests : run.todo = steps \o rest /\ Continuing(p, rest)
  <2>1. run.partial = Empty /\ run.parsed = Empty
    BY <1>1, <1>3 DEF Doing
  <2>2. CASE run.todo = <<"prompt">> /\ LoggingIn(p)
    BY <1>1, <2>1, <2>2
  <2>3. CASE run.todo = <<"refresh_token", "send">> /\ Requesting(p)
    BY <1>1, <2>1, <2>3
  <2>4. CASE run.todo = <<"prompt", "get_token", "send">> /\ Requesting(p) /\ run.KEY = None
    BY <1>1, <2>1, <2>4
  <2>5. CASE run.todo = <<"send">> /\ Continuing(p, <<"send">>)
    BY <1>1, <2>1, <2>5
  <2>6. CASE run.todo = <<"get_token", "send">> /\ Continuing(p, <<"get_token", "send">>)
    BY <1>1, <2>1, <2>6 DEF Continuing
  <2>. QED
    BY <1>1, <1>3, <2>2, <2>3, <2>4, <2>5, <2>6 DEF Doing, Rests
<1>. QED
  BY <1>2, <1>3

\* What a process keeps when a request comes to an end.
Same(now, state) ==
  /\ now.kind = state.kind /\ now.mode = state.mode /\ now.persist = state.persist
  /\ now.config = state.config /\ now.sent = state.sent /\ now.begun = state.begun
  /\ now.requests = state.requests /\ now.tokens = state.tokens /\ now.ran = state.ran
  /\ now.as = state.as /\ now.whole = state.whole /\ now.wrote = state.wrote
  /\ now.overlap = state.overlap /\ now.replaced = state.replaced /\ now.lent = state.lent

\* A token, or a key, is put in the place of the old one (web/request.py
\* use_token, use_auth).
LEMMA SwapTyped ==
  ASSUME NEW state \in Run, NEW old \in {None}, NEW newKey \in Keys \cup {None},
         NEW newToken \in Tokens \cup {None}
  PROVE  /\ [state EXCEPT !.TOKEN = newToken, !.old = old] \in Run
         /\ [state EXCEPT !.KEY = newKey, !.old = old] \in Run
<1>1. [state EXCEPT !.TOKEN = newToken, !.old = old] \in Run
  BY ZenonT(40) DEF Run
<1>2. [state EXCEPT !.KEY = newKey, !.old = old] \in Run
  BY ZenonT(40) DEF Run
<1>. QED
  BY <1>1, <1>2

\* A token or key that was lent is put back (web/request.py use_token, use_auth).
LEMMA Leaves ==
  ASSUME NEW state \in Run
  PROVE  LET now == Leave(state) IN
    /\ now \in Run /\ Same(now, state)
    /\ now.todo = state.todo /\ now.partial = state.partial /\ now.parsed = state.parsed
    /\ now.end = state.end
    /\ now.KEY \in {state.KEY, None} /\ now.TOKEN \in {state.TOKEN, None}
    /\ state.mode = "token" => now.TOKEN = None
<1>0. state.old = None
  BY DEF Run
<1>1. CASE state.mode = "token"
  <2>1. Leave(state) = [state EXCEPT !.TOKEN = None, !.old = None]
    BY <1>0, <1>1 DEF Leave
  <2>2. Leave(state) \in Run
    BY <2>1, SwapTyped
  <2>. QED
    BY <1>1, <2>1, <2>2 DEF Run, Same
<1>2. CASE state.mode = "auth"
  <2>1. Leave(state) = [state EXCEPT !.KEY = None, !.old = None]
    BY <1>0, <1>2 DEF Leave
  <2>2. Leave(state) \in Run
    BY <2>1, SwapTyped
  <2>. QED
    BY <1>2, <2>1, <2>2 DEF Run, Same
<1>3. CASE state.mode \notin {"token", "auth"}
  <2>1. Leave(state) = state
    BY <1>3 DEF Leave
  <2>. QED
    BY <1>3, <2>1 DEF Same
<1>. QED
  BY <1>1, <1>2, <1>3

\* Nothing is left to be done (web/request.py).
LEMMA EndedTyped ==
  ASSUME NEW state \in Run, NEW how \in {"done", "expired", "refused", "stopped"},
         NEW todo \in Seq(Steps), NEW empty \in Content
  PROVE  [state EXCEPT !.todo = todo, !.partial = empty, !.parsed = empty, !.end = how] \in Run
<1>1. how \in {None, "done", "expired", "refused", "stopped"}
  OBVIOUS
<1>. QED
  BY <1>1, ZenonT(40) DEF Run

\* A request, or a program, comes to an end (web/request.py use_token).
LEMMA Ends ==
  ASSUME proc \in [Procs -> Run], NEW p \in Procs, NEW state \in Run,
         NEW how \in {"done", "expired", "refused", "stopped"}, End(p, state, how)
  PROVE  LET now == proc'[p] IN
    /\ proc' \in [Procs -> Run] /\ \A q \in Procs : q # p => proc'[q] = proc[q]
    /\ Same(now, state)
    /\ now.todo = <<>> /\ now.partial = Empty /\ now.parsed = Empty /\ now.end = how
    /\ now.KEY \in {state.KEY, None} /\ now.TOKEN \in {state.TOKEN, None}
    /\ state.mode = "token" => now.TOKEN = None
<1> DEFINE ended == [state EXCEPT !.todo = <<>>, !.partial = Empty, !.parsed = Empty, !.end = how]
           left == Leave(ended)
           gone == [left EXCEPT !.KEY = None, !.TOKEN = None, !.old = None]
<1>1. /\ ended \in Run /\ Same(ended, state)
      /\ ended.todo = <<>> /\ ended.partial = Empty /\ ended.parsed = Empty /\ ended.end = how
      /\ ended.KEY = state.KEY /\ ended.TOKEN = state.TOKEN
  <2>1. ended \in Run
    BY EmptyTyped, EndedTyped
  <2>. QED
    BY <2>1 DEF Run, Same
<1>2. /\ left \in Run /\ Same(left, state)
      /\ left.todo = <<>> /\ left.partial = Empty /\ left.parsed = Empty /\ left.end = how
      /\ left.KEY \in {state.KEY, None} /\ left.TOKEN \in {state.TOKEN, None}
      /\ state.mode = "token" => left.TOKEN = None
  <2>. HIDE DEF ended
  <2>. QED
    BY <1>1, Leaves DEF Same
<1>3. /\ gone \in Run /\ Same(gone, state)
      /\ gone.todo = <<>> /\ gone.partial = Empty /\ gone.parsed = Empty /\ gone.end = how
      /\ gone.KEY = None /\ gone.TOKEN = None
  <2>. HIDE DEF left
  <2>. QED
    BY <1>2 DEF Run, Same
<1>4. proc' = [proc EXCEPT ![p] = left] \/ proc' = [proc EXCEPT ![p] = gone]
  BY DEF End
<1>. HIDE DEF left, gone
<1>. QED
  BY <1>2, <1>3, <1>4

\* What a process has when it uses a token or a key (web/request.py use_auth).
LEMMA LentTyped ==
  ASSUME NEW state \in Run, NEW mode \in {None, "config", "token", "auth"},
         NEW lent \in BOOLEAN, NEW todo \in Seq(Steps)
  PROVE  [state EXCEPT !.mode = mode, !.lent = lent, !.todo = todo] \in Run
BY Zenon DEF Run

\* What a process has when it gets a key or a token (web/request.py refresh_token).
LEMMA AskedTyped ==
  ASSUME NEW state \in Run, NEW KEY \in Keys \cup {None}, NEW TOKEN \in Tokens \cup {None},
         NEW todo \in Seq(Steps)
  PROVE  [state EXCEPT !.KEY = KEY, !.TOKEN = TOKEN, !.todo = todo] \in Run
BY Zenon DEF Run

\* What a process has when it got a token (web/request.py refresh_token).
LEMMA GotTyped ==
  ASSUME NEW state \in Run, NEW TOKEN \in Tokens \cup {None}, NEW partial \in Content,
         NEW todo \in Seq(Steps)
  PROVE  [state EXCEPT !.TOKEN = TOKEN, !.partial = partial, !.todo = todo] \in Run
BY Zenon DEF Run

\* What a process has when it got a key (web/request.py login).
LEMMA PastedTyped ==
  ASSUME NEW state \in Run, NEW KEY \in Keys \cup {None}, NEW todo \in Seq(Steps),
         NEW partial \in Content
  PROVE  [state EXCEPT !.KEY = KEY, !.todo = todo, !.partial = partial] \in Run
BY Zenon DEF Run

\* What is known of a request that was sent (web/request.py request).
LEMMA SentTyped ==
  ASSUME NEW state \in Run, NEW sent \in 0..2, NEW tokens \in Seq(Tokens), NEW todo \in Seq(Steps)
  PROVE  /\ [state EXCEPT !.sent = sent, !.tokens = tokens] \in Run
         /\ [state EXCEPT !.sent = sent, !.tokens = tokens, !.todo = todo] \in Run
BY Zenon DEF Run

\* What is known of a request that ran (web/request.py request).
LEMMA RanTyped ==
  ASSUME NEW state \in Run, NEW ran \in 0..1, NEW as \in Owner \cup {None}, NEW whole \in BOOLEAN
  PROVE  [state EXCEPT !.ran = ran, !.as = as, !.whole = whole] \in Run
BY Zenon DEF Run

\* What is known of a program that keeps its token (apps/refitt/api.py).
LEMMA PersistTyped ==
  ASSUME NEW state \in Run
  PROVE  [state EXCEPT !.persist = TRUE] \in Run
BY DEF Run

\* What is known of a process that goes on to its next step (core/config.py update).
LEMMA TodoTyped ==
  ASSUME NEW state \in Run, NEW todo \in Seq(Steps)
  PROVE  [state EXCEPT !.todo = todo] \in Run
BY Zenon DEF Run

\* What is known of a process when updates meet (core/config.py update).
LEMMA NotedTyped ==
  ASSUME NEW state \in Run, NEW overlap \in BOOLEAN, NEW replaced \in BOOLEAN
  PROVE  [state EXCEPT !.overlap = overlap, !.replaced = replaced] \in Run
BY Zenon DEF Run

\* What is known of a process that read the file (core/config.py update).
LEMMA ParsedTyped ==
  ASSUME NEW state \in Run, NEW parsed \in Content, NEW todo \in Seq(Steps)
  PROVE  [state EXCEPT !.parsed = parsed, !.todo = todo] \in Run
BY Zenon DEF Run

\* What is known of a process that wrote the file (core/config.py update).
LEMMA WrittenTyped ==
  ASSUME NEW state \in Run, NEW todo \in Seq(Steps), NEW partial \in Content,
         NEW parsed \in Content, NEW wrote \in Nat
  PROVE  [state EXCEPT !.todo = todo, !.partial = partial, !.parsed = parsed, !.wrote = wrote] \in Run
BY Zenon DEF Run

\* A request is about to be made (web/request.py authenticated).
LEMMA Authenticates ==
  ASSUME NEW state \in Run, NEW mode \in {"config", "token", "auth"},
         mode = "config" \/ (state.KEY = None /\ state.TOKEN = None)
  PROVE  LET now == Authenticated(state, mode) IN
    /\ now \in Run
    /\ now.kind = state.kind /\ now.persist = state.persist /\ now.config = state.config
    /\ now.begun = state.begun /\ now.wrote = state.wrote
    /\ now.overlap = state.overlap /\ now.replaced = state.replaced
    /\ now.partial = state.partial /\ now.parsed = state.parsed
    /\ now.mode = mode /\ now.requests = state.requests + 1 /\ now.sent = 0 /\ now.ran = 0
    /\ now.tokens = <<>> /\ now.end = None /\ now.lent = (state.lent \/ mode = "auth")
    /\ now.KEY = IF mode = "auth" THEN OtherKey ELSE state.KEY
    /\ now.TOKEN = IF mode = "token" THEN Given ELSE state.TOKEN
    /\ now.todo = IF now.TOKEN = None THEN <<"refresh_token", "send">> ELSE <<"send">>
<1> DEFINE using == Use(state, mode)
<1>1. /\ using \in Run /\ Same(using, state)
      /\ using.partial = state.partial /\ using.parsed = state.parsed
      /\ using.KEY = IF mode = "auth" THEN OtherKey ELSE state.KEY
      /\ using.TOKEN = IF mode = "token" THEN Given ELSE state.TOKEN
  <2>1. CASE mode = "config"
    BY <2>1 DEF Use, Same
  <2>2. CASE mode = "token"
    <3>1. state.TOKEN = None
      BY <2>2
    <3>2. using = [state EXCEPT !.TOKEN = Given, !.old = None]
      BY <2>2, <3>1 DEF Use, Run
    <3>3. [state EXCEPT !.TOKEN = Given, !.old = None] \in Run
      BY EmptyTyped, SwapTyped
    <3> HIDE DEF using
    <3>4. using.TOKEN = Given /\ Same(using, state)
      BY <3>2 DEF Run, Same
    <3>. QED
      BY <2>2, <3>2, <3>3, <3>4 DEF Run
  <2>3. CASE mode = "auth"
    <3>1. state.KEY = None
      BY <2>3
    <3>2. using = [state EXCEPT !.KEY = OtherKey, !.old = None]
      BY <2>3, <3>1 DEF Use, Run
    <3>3. [state EXCEPT !.KEY = OtherKey, !.old = None] \in Run
      BY EmptyTyped, SwapTyped
    <3> HIDE DEF using
    <3>4. using.KEY = OtherKey /\ Same(using, state)
      BY <3>2 DEF Run, Same
    <3>. QED
      BY <2>3, <3>2, <3>3, <3>4 DEF Run
  <2>. QED
    BY <2>1, <2>2, <2>3
<1> DEFINE another == Another(using)
<1>2. /\ another \in Run
      /\ another.kind = using.kind /\ another.persist = using.persist
      /\ another.config = using.config /\ another.begun = using.begun
      /\ another.wrote = using.wrote /\ another.overlap = using.overlap
      /\ another.replaced = using.replaced /\ another.lent = using.lent
      /\ another.partial = using.partial /\ another.parsed = using.parsed
      /\ another.KEY = using.KEY /\ another.TOKEN = using.TOKEN
      /\ another.requests = using.requests + 1 /\ another.sent = 0 /\ another.ran = 0
      /\ another.tokens = <<>> /\ another.end = None
  <2>1. using \in Run
    BY <1>1
  <2>. HIDE DEF using
  <2>2. using.requests + 1 \in Nat /\ 0 \in 0..2 /\ 0 \in 0..1
    BY <2>1 DEF Run
  <2>3. another \in Run
    BY <2>1, <2>2, EmptyTyped, ZenonT(40) DEF Another, Run
  <2>. QED
    BY <2>1, <2>3 DEF Another, Run
<1> HIDE DEF using
<1>3. PICK lent \in BOOLEAN : lent = (another.lent \/ mode = "auth")
  OBVIOUS
<1>4. PICK todo \in Seq(Steps) :
        todo = IF another.TOKEN = None THEN <<"refresh_token", "send">> ELSE <<"send">>
  <2>1. <<"refresh_token", "send">> \in Seq(Steps) /\ <<"send">> \in Seq(Steps)
    BY DEF Steps
  <2>. QED
    BY <2>1
<1>5. Authenticated(state, mode) = [another EXCEPT !.mode = mode, !.lent = lent, !.todo = todo]
  BY <1>3, <1>4 DEF Authenticated, using
<1> HIDE DEF another
<1>6. Authenticated(state, mode) \in Run
  <2>1. another \in Run /\ mode \in {None, "config", "token", "auth"}
    BY <1>2
  <2>2. [another EXCEPT !.mode = mode, !.lent = lent, !.todo = todo] \in Run
    BY <2>1, LentTyped
  <2>. QED
    BY <1>5, <2>2
<1>7. /\ Authenticated(state, mode).lent = (state.lent \/ mode = "auth")
      /\ Authenticated(state, mode).mode = mode
  BY <1>1, <1>2, <1>3, <1>5 DEF Run, Same
<1>. QED
  BY <1>1, <1>2, <1>4, <1>5, <1>6, <1>7, SMTT(20) DEF Run, Same

\* A process starts with the configuration that it reads (core/config.py).
LEMMA News ==
  ASSUME Typed, NEW kind \in {"api", "library", "login"}
  PROVE  LET now == New(kind) IN
    /\ now \in Run /\ now.kind = kind /\ now.config = config /\ now.persist = FALSE
    /\ now.KEY = None /\ now.TOKEN = None /\ now.partial = Empty /\ now.parsed = Empty
    /\ now.tokens = <<>> /\ now.end = None /\ now.requests = 0 /\ now.ran = 0 /\ now.sent = 0
    /\ now.wrote = 0 /\ ~now.overlap /\ ~now.replaced /\ ~now.lent
    /\ now.begun = IF \E q \in Procs : Holder(q) THEN 0 ELSE key
<1>1. Unstarted \in Run
  BY EmptyTyped
<1>2. (\E q \in Busy : proc[q].partial.key # None) <=> \E q \in Procs : Holder(q)
  BY DEF Holder, Busy, Started
<1>3. New(kind) = [Unstarted EXCEPT !.kind = kind, !.config = config,
                     !.begun = IF \E q \in Procs : Holder(q) THEN 0 ELSE key]
  BY <1>2 DEF New
<1>4. (IF \E q \in Procs : Holder(q) THEN 0 ELSE key) \in Nat
  BY BoundsAssumption DEF Typed
<1>5. New(kind) \in Run
  <2> DEFINE begun == IF \E q \in Procs : Holder(q) THEN 0 ELSE key
  <2>1. New(kind) = [Unstarted EXCEPT !.kind = kind, !.config = config, !.begun = begun]
    BY <1>3
  <2>2. begun \in Nat /\ config \in Content /\ kind \in {None, "api", "library", "login"}
    BY <1>4 DEF Typed
  <2> HIDE DEF begun
  <2>3. [Unstarted EXCEPT !.kind = kind, !.config = config, !.begun = begun] \in Run
    BY <1>1, <2>2, ZenonT(40) DEF Run
  <2>. QED
    BY <2>1, <2>3
<1>. QED
  BY <1>3, <1>5 DEF Unstarted
------------------------------------------------------------------------------
(***************************************************************************)
(* What each action does.                                                  *)
(***************************************************************************)
\* The others do not notice what p does.
OthersSame(p) == \A q \in Procs : q # p => proc'[q] = proc[q]

\* refresh_token gets the token of the configuration, or a key to get one for
\* (web/request.py refresh_token).
LEMMA Refreshes ==
  ASSUME IInv, NEW p \in Procs, RefreshToken(p)
  PROVE  LET run == proc[p]
             now == proc'[p]
         IN
    /\ p \in Busy /\ run.todo = <<"refresh_token", "send">> /\ Requesting(p) /\ run.partial = Empty
    /\ proc' \in [Procs -> Run] /\ OthersSame(p)
    /\ Same(now, run) /\ now.partial = Empty /\ now.parsed = Empty /\ now.end = None
    /\ now.TOKEN = run.config.token
    /\ \/ /\ run.config.token # None /\ run.sent = 0
          /\ now.KEY = run.KEY /\ now.todo = <<"send">>
       \/ /\ run.config.token = None \/ run.sent > 0
          /\ now.KEY = IF run.KEY # None THEN run.KEY ELSE run.config.key
          /\ now.todo = IF now.KEY = None THEN <<"prompt", "get_token", "send">>
                        ELSE <<"get_token", "send">>
<1> DEFINE run == proc[p]
           asked == IF run.KEY # None THEN run.KEY ELSE run.config.key
           done == run.config.token # None /\ ~(run.sent > 0)
<1>1. /\ p \in Busy /\ run \in Run /\ run.partial = Empty /\ run.parsed = Empty /\ run.end = None
      /\ Tail(run.todo) = <<"send">> /\ Requesting(p) /\ run.todo = <<"refresh_token", "send">>
      /\ proc \in [Procs -> Run]
  BY Phases DEF RefreshToken, At, IInv, Typed, Busy
<1>2. PICK KEY \in Keys \cup {None} : KEY = IF done THEN run.KEY ELSE asked
  BY <1>1 DEF Run, Content
<1>3. PICK todo \in Seq(Steps) :
        todo = IF done THEN <<"send">>
               ELSE IF asked = None THEN <<"prompt", "get_token", "send">> ELSE <<"get_token", "send">>
  <2>1. /\ <<"send">> \in Seq(Steps) /\ <<"get_token", "send">> \in Seq(Steps)
        /\ <<"prompt", "get_token", "send">> \in Seq(Steps)
    BY DEF Steps
  <2>. QED
    BY <2>1
<1>4. proc' = [proc EXCEPT ![p] = [run EXCEPT !.KEY = KEY, !.TOKEN = run.config.token, !.todo = todo]]
  <2>1. (IF asked = None THEN <<"prompt">> ELSE <<>>) \o <<"get_token">> \o <<"send">> =
          IF asked = None THEN <<"prompt", "get_token", "send">> ELSE <<"get_token", "send">>
    BY RefreshSteps
  <2>. QED
    <3>1. (IF done THEN Tail(run.todo)
           ELSE (IF asked = None THEN <<"prompt">> ELSE <<>>) \o <<"get_token">> \o Tail(run.todo)) = todo
      BY <1>1, <1>3, <2>1
    <3>. QED
      BY <1>1, <1>2, <3>1 DEF RefreshToken
<1>5. run.config.token \in Tokens \cup {None}
  BY <1>1 DEF Run, Content
<1>6. [run EXCEPT !.KEY = KEY, !.TOKEN = run.config.token, !.todo = todo] \in Run
  BY <1>1, <1>5, AskedTyped
<1>7. /\ Same(proc'[p], run) /\ proc'[p].partial = Empty /\ proc'[p].parsed = Empty
      /\ proc'[p].end = None /\ proc'[p].TOKEN = run.config.token
      /\ proc'[p].KEY = KEY /\ proc'[p].todo = todo
  BY <1>1, <1>4 DEF Same, Run
<1>8. run.sent \in 0..2
  BY <1>1 DEF Run
<1>9. proc' \in [Procs -> Run] /\ OthersSame(p)
  BY <1>1, <1>4, <1>6 DEF OthersSame
<1>. QED
  BY <1>1, <1>2, <1>3, <1>7, <1>8, <1>9

\* GET /token answers with a token of the key's owner, that the programs of
\* refitt keep in the file, or refuses the key (web/request.py refresh_token).
LEMMA GetsToken ==
  ASSUME IInv, NEW p \in Procs, GetToken(p)
  PROVE  LET run == proc[p]
             now == proc'[p]
             new == Token(run.KEY.of, p, 2 * run.requests + run.sent)
         IN
    /\ p \in Busy /\ run.todo # <<"send">> /\ Requesting(p) /\ run.KEY # None
    /\ run.partial = Empty /\ run.parsed = Empty
    /\ proc' \in [Procs -> Run] /\ OthersSame(p)
    /\ Same(now, run) /\ now.parsed = Empty
    /\ \/ /\ run.KEY.of = "user" /\ run.KEY.n # key
          /\ now.todo = <<>> /\ now.end = "refused" /\ now.partial = Empty
          /\ now.KEY \in {run.KEY, None} /\ now.TOKEN \in {run.TOKEN, None}
          /\ run.mode = "token" => now.TOKEN = None
       \/ /\ ~(run.KEY.of = "user" /\ run.KEY.n # key)
          /\ now.KEY = run.KEY /\ now.TOKEN = new /\ new \in Tokens /\ now.end = None
          /\ \/ /\ run.persist /\ now.partial = [key |-> None, token |-> new]
                /\ now.todo = UpdateConfig \o <<"send">>
             \/ ~run.persist /\ now.partial = Empty /\ now.todo = <<"send">>
<1> DEFINE run == proc[p]
           new == Token(run.KEY.of, p, 2 * run.requests + run.sent)
<1>1. /\ p \in Busy /\ run \in Run /\ run.partial = Empty /\ run.parsed = Empty /\ run.end = None
      /\ Tail(run.todo) = <<"send">> /\ Requesting(p) /\ run.todo # <<"send">> /\ run.KEY # None
      /\ proc \in [Procs -> Run]
  BY Phases DEF GetToken, At, IInv, Typed, Busy
<1>2. CASE run.KEY.of = "user" /\ run.KEY.n # key
  <2>1. End(p, run, "refused")
    BY <1>2 DEF GetToken
  <2>. QED
    BY <1>1, <1>2, <2>1, Ends DEF OthersSame
<1>3. CASE ~(run.KEY.of = "user" /\ run.KEY.n # key)
  <2>1. new \in Tokens
    <3>1. run.KEY \in Keys /\ run.sent \in 0..2 /\ run.requests \in Nat
      BY <1>1 DEF Run
    <3>. QED
      BY <3>1 DEF Token, Tokens, Keys
  <2>2. PICK token \in Tokens : token = new
    BY <2>1
  <2>3. PICK partial \in Content :
          partial = IF run.persist THEN [key |-> None, token |-> token] ELSE Empty
    BY EmptyTyped DEF Content
  <2>4. PICK todo \in Seq(Steps) :
          todo = IF run.persist THEN UpdateConfig \o <<"send">> ELSE <<"send">>
    BY UpdateSteps DEF Rests, WriteSteps
  <2>. HIDE DEF new
  <2>5. proc' = [proc EXCEPT ![p] = [run EXCEPT !.TOKEN = token, !.partial = partial, !.todo = todo]]
    <3>1. (IF run.persist THEN UpdateConfig ELSE <<>>) \o Tail(run.todo) = todo
      BY <1>1, <2>4, RefreshSteps
    <3>2. (IF run.persist THEN [key |-> None, token |-> token] ELSE run.partial) = partial
      BY <1>1, <2>3
    <3>. QED
      BY <1>3, <2>2, <3>1, <3>2 DEF GetToken, new
  <2>6. [run EXCEPT !.TOKEN = token, !.partial = partial, !.todo = todo] \in Run
    BY <1>1, GotTyped
  <2>7. /\ Same(proc'[p], run) /\ proc'[p].partial = partial /\ proc'[p].parsed = Empty
        /\ proc'[p].end = None /\ proc'[p].TOKEN = new
        /\ proc'[p].KEY = run.KEY /\ proc'[p].todo = todo
    BY <1>1, <2>2, <2>5 DEF Same, Run
  <2>. QED
    BY <1>1, <1>3, <2>1, <2>2, <2>3, <2>4, <2>5, <2>6, <2>7 DEF OthersSame, new
<1>. QED
  BY <1>2, <1>3

\* The person's new key is pasted, and written to the file (web/request.py login).
LEMMA Prompts ==
  ASSUME IInv, NEW p \in Procs, Prompt(p)
  PROVE  LET run == proc[p]
             now == proc'[p]
         IN
    /\ p \in Busy /\ run.partial = Empty /\ run.parsed = Empty
    /\ key' = key + 1 /\ key' \in 1..MaxKey /\ UNCHANGED <<expired, disk, second>>
    /\ proc' \in [Procs -> Run] /\ OthersSame(p)
    /\ Same(now, run) /\ now.TOKEN = run.TOKEN /\ now.parsed = Empty /\ now.end = None
    /\ now.KEY = Key("user", key') /\ now.KEY \in Keys
    /\ now.partial = [key |-> now.KEY, token |-> None]
    /\ \E rest \in Rests :
         /\ now.todo = UpdateConfig \o rest
         /\ \/ rest = <<>> /\ LoggingIn(p)
            \/ rest = <<"get_token", "send">> /\ Requesting(p) /\ run.KEY = None
<1> DEFINE run == proc[p]
<1>1. /\ p \in Busy /\ run \in Run /\ run.partial = Empty /\ run.parsed = Empty /\ run.end = None
      /\ \/ Tail(run.todo) = <<>> /\ LoggingIn(p)
         \/ Tail(run.todo) = <<"get_token", "send">> /\ Requesting(p) /\ run.KEY = None
      /\ proc \in [Procs -> Run]
  BY Phases DEF Prompt, At, IInv, Typed, Busy
<1>2. /\ key' = key + 1 /\ key' \in 1..MaxKey /\ UNCHANGED <<expired, disk, second>>
      /\ key' \in Nat
  BY BoundsAssumption DEF Prompt, IInv, Typed
<1>3. PICK KEY \in Keys : KEY = Key("user", key')
  BY <1>2 DEF Key, Keys, Owner
<1>4. PICK partial \in Content : partial = [key |-> KEY, token |-> None]
  BY DEF Content
<1>5. PICK rest \in Rests : rest = Tail(run.todo)
  BY <1>1 DEF Rests
<1>6. PICK todo \in Seq(Steps) : todo = UpdateConfig \o rest
  BY UpdateSteps DEF WriteSteps
<1>7. proc' = [proc EXCEPT ![p] = [run EXCEPT !.KEY = KEY, !.todo = todo, !.partial = partial]]
  BY <1>1, <1>3, <1>4, <1>5, <1>6 DEF Prompt
<1>8. [run EXCEPT !.KEY = KEY, !.todo = todo, !.partial = partial] \in Run
  BY <1>1, PastedTyped
<1>9. /\ Same(proc'[p], run) /\ proc'[p].TOKEN = run.TOKEN /\ proc'[p].parsed = Empty
      /\ proc'[p].end = None /\ proc'[p].KEY = KEY /\ proc'[p].todo = todo
      /\ proc'[p].partial = partial
  BY <1>1, <1>7 DEF Same, Run
<1>. QED
  BY <1>1, <1>2, <1>3, <1>4, <1>5, <1>6, <1>7, <1>8, <1>9 DEF OthersSame

\* What a process keeps when it makes a request, or updates the file.
Lasting(now, state) ==
  /\ now.kind = state.kind /\ now.mode = state.mode /\ now.persist = state.persist
  /\ now.config = state.config /\ now.begun = state.begun
  /\ now.requests = state.requests /\ now.lent = state.lent

\* A request is made; it may have to be repeated (web/request.py authenticated).
LEMMA Sends ==
  ASSUME IInv, NEW p \in Procs, Send(p)
  PROVE  LET run == proc[p]
             now == proc'[p]
         IN
    /\ p \in Busy /\ run.partial = Empty /\ run.parsed = Empty
    /\ Requesting(p) /\ run.TOKEN \in Tokens /\ run.sent \in 0..1 /\ run.todo = <<"send">>
    /\ run.sent = 1 => run.TOKEN.by = p /\ run.TOKEN.n = 2 * run.requests + 1
    /\ proc' \in [Procs -> Run] /\ OthersSame(p)
    /\ Lasting(now, run) /\ now.wrote = run.wrote
    /\ now.overlap = run.overlap /\ now.replaced = run.replaced
    /\ now.partial = Empty /\ now.parsed = Empty
    /\ now.KEY \in {run.KEY, None} /\ now.TOKEN \in {run.TOKEN, None}
    /\ \/ /\ run.sent = 0 /\ run.TOKEN \in expired /\ now.end = None
          /\ now.sent = 1 /\ now.tokens = <<run.TOKEN>> /\ now.ran = 0
          /\ now.TOKEN = run.TOKEN /\ now.KEY = run.KEY
          /\ now.todo = <<"refresh_token", "send">>
       \/ /\ now.todo = <<>> /\ (run.mode = "token" => now.TOKEN = None)
          /\ now.sent = run.sent + 1 /\ now.tokens = Append(run.tokens, run.TOKEN)
          /\ \/ run.sent = 1 /\ now.ran = 0 /\ now.end = "expired"
             \/ /\ run.TOKEN \notin expired /\ now.ran = 1 /\ now.end = "done"
                /\ now.as = run.TOKEN.of /\ now.whole = (run.sent = 0)
<1> DEFINE run == proc[p]
<1>1. /\ p \in Busy /\ run \in Run /\ run.partial = Empty /\ run.parsed = Empty /\ run.end = None
      /\ run.todo = <<"send">> /\ Continuing(p, <<"send">>) /\ proc \in [Procs -> Run]
  BY Phases DEF Send, At, IInv, Typed, Busy
<1>2. /\ Requesting(p) /\ run.TOKEN \in Tokens /\ run.sent \in 0..1 /\ run.ran = 0
      /\ run.sent = 1 => run.TOKEN.by = p /\ run.TOKEN.n = 2 * run.requests + 1
  <2>1. Requesting(p) /\ run.TOKEN # None
    BY <1>1 DEF Continuing
  <2>2. run.sent = 1 => run.TOKEN.by = p /\ run.TOKEN.n = 2 * run.requests + 1
    BY <1>1 DEF Continuing
  <2>3. run.TOKEN \in Tokens
    BY <1>1, <2>1 DEF Run
  <2>4. run.sent \in 0..1 /\ run.ran = 0
    BY <2>1 DEF Requesting
  <2>. QED
    BY <2>1, <2>2, <2>3, <2>4
<1>3. PICK tokens \in Seq(Tokens) : tokens = <<run.TOKEN>>
  <2>1. <<run.TOKEN>> \in Seq(Tokens)
    BY <1>2
  <2>. QED
    BY <2>1
<1>4. PICK more \in Seq(Tokens) : more = Append(run.tokens, run.TOKEN)
  BY <1>1, <1>2, AppendProperties DEF Run
<1>5. PICK sent \in 0..2 : sent = run.sent + 1
  BY <1>2
<1>6. CASE run.TOKEN \in expired /\ run.sent = 0
  <2>1. PICK todo \in Seq(Steps) : todo = <<"refresh_token", "send">>
    <3>1. <<"refresh_token", "send">> \in Seq(Steps)
      BY DEF Steps
    <3>. QED
      BY <3>1
  <2>2. PICK one \in 0..2 : one = 1
    OBVIOUS
  <2>3. proc' = [proc EXCEPT ![p] = [run EXCEPT !.sent = one, !.tokens = tokens, !.todo = todo]]
    BY <1>3, <1>6, <2>1, <2>2 DEF Send, Repeat
  <2>4. [run EXCEPT !.sent = one, !.tokens = tokens, !.todo = todo] \in Run
    BY <1>1, SentTyped
  <2>5. /\ Lasting(proc'[p], run) /\ proc'[p].wrote = run.wrote
        /\ proc'[p].overlap = run.overlap /\ proc'[p].replaced = run.replaced
        /\ proc'[p].partial = Empty /\ proc'[p].parsed = Empty
        /\ proc'[p].KEY = run.KEY /\ proc'[p].TOKEN = run.TOKEN /\ proc'[p].end = None
        /\ proc'[p].sent = 1 /\ proc'[p].tokens = <<run.TOKEN>> /\ proc'[p].ran = 0
        /\ proc'[p].todo = <<"refresh_token", "send">>
    BY <1>1, <1>2, <1>3, <2>1, <2>2, <2>3 DEF Lasting, Run
  <2>. QED
    BY <1>1, <1>2, <1>6, <2>3, <2>4, <2>5 DEF OthersSame
<1>7. CASE run.TOKEN \in expired /\ run.sent # 0
  <2>1. End(p, Sent(run), "expired")
    BY <1>7 DEF Send
  <2>2. Sent(run) = [run EXCEPT !.sent = sent, !.tokens = more]
    BY <1>4, <1>5 DEF Sent
  <2>3. [run EXCEPT !.sent = sent, !.tokens = more] \in Run
    BY <1>1, SentTyped, EmptyTyped
  <2>4. /\ Lasting(Sent(run), run) /\ Sent(run).wrote = run.wrote
        /\ Sent(run).overlap = run.overlap /\ Sent(run).replaced = run.replaced
        /\ Sent(run).KEY = run.KEY /\ Sent(run).TOKEN = run.TOKEN
        /\ Sent(run).sent = sent /\ Sent(run).tokens = more /\ Sent(run).ran = 0
    BY <1>1, <1>2, <2>2 DEF Lasting, Run
  <2>5. Sent(run) \in Run
    BY <2>2, <2>3
  <2>6. LET now == proc'[p] IN
        /\ proc' \in [Procs -> Run] /\ OthersSame(p) /\ Same(now, Sent(run))
        /\ now.todo = <<>> /\ now.partial = Empty /\ now.parsed = Empty /\ now.end = "expired"
        /\ now.KEY \in {run.KEY, None} /\ now.TOKEN \in {run.TOKEN, None}
        /\ run.mode = "token" => now.TOKEN = None
    BY <1>1, <2>1, <2>4, <2>5, Ends DEF OthersSame, Lasting
  <2>. QED
    BY <1>1, <1>2, <1>4, <1>5, <1>7, <2>4, <2>6 DEF Same, Lasting
<1>8. CASE run.TOKEN \notin expired
  <2>1. End(p, Ran(run), "done")
    BY <1>8 DEF Send
  <2>2. PICK ran \in 0..1 : ran = run.ran + 1
    BY <1>2
  <2>3. PICK as \in Owner : as = run.TOKEN.of
    BY <1>2 DEF Tokens
  <2>4. PICK whole \in BOOLEAN : whole = (run.sent = 0)
    OBVIOUS
  <2>5. PICK counted \in Run : counted = [run EXCEPT !.sent = sent, !.tokens = more]
    BY <1>1, SentTyped, EmptyTyped
  <2>6. Ran(run) = [counted EXCEPT !.ran = ran, !.as = as, !.whole = whole]
    <3>1. Sent(run) = counted
      BY <1>4, <1>5, <2>5 DEF Sent
    <3>2. counted.ran = run.ran
      BY <1>1, <2>5 DEF Run
    <3>. QED
      BY <2>2, <2>3, <2>4, <3>1, <3>2 DEF Ran
  <2>7. /\ Ran(run) \in Run
        /\ Lasting(Ran(run), run) /\ Ran(run).wrote = run.wrote
        /\ Ran(run).overlap = run.overlap /\ Ran(run).replaced = run.replaced
        /\ Ran(run).KEY = run.KEY /\ Ran(run).TOKEN = run.TOKEN
        /\ Ran(run).sent = sent /\ Ran(run).tokens = more /\ Ran(run).ran = ran
        /\ Ran(run).as = as /\ Ran(run).whole = whole
    <3>1. [counted EXCEPT !.ran = ran, !.as = as, !.whole = whole] \in Run
      BY RanTyped
    <3>2. Ran(run) \in Run
      BY <2>6, <3>1
    <3>3. Ran(run).whole = whole
      BY <2>6 DEF Run
    <3>4. /\ Lasting(Ran(run), run) /\ Ran(run).wrote = run.wrote
          /\ Ran(run).overlap = run.overlap /\ Ran(run).replaced = run.replaced
          /\ Ran(run).KEY = run.KEY /\ Ran(run).TOKEN = run.TOKEN
      BY <1>1, <2>5, <2>6 DEF Lasting, Run
    <3>5. /\ Ran(run).sent = sent /\ Ran(run).tokens = more /\ Ran(run).ran = ran
          /\ Ran(run).as = as
      BY <1>1, <2>5, <2>6 DEF Run
    <3>. QED
      BY <3>2, <3>3, <3>4, <3>5
  <2>8. LET now == proc'[p] IN
        /\ proc' \in [Procs -> Run] /\ OthersSame(p) /\ Same(now, Ran(run))
        /\ now.todo = <<>> /\ now.partial = Empty /\ now.parsed = Empty /\ now.end = "done"
        /\ now.KEY \in {run.KEY, None} /\ now.TOKEN \in {run.TOKEN, None}
        /\ run.mode = "token" => now.TOKEN = None
    BY <1>1, <2>1, <2>7, Ends DEF OthersSame, Lasting
  <2>. QED
    BY <1>1, <1>2, <1>4, <1>5, <1>8, <2>2, <2>3, <2>4, <2>7, <2>8 DEF Same, Lasting
<1>. QED
  BY <1>6, <1>7, <1>8

\* A request was just begun (web/request.py authenticated).
Requested(now, mode) ==
  /\ now.mode = mode /\ now.sent = 0 /\ now.ran = 0 /\ now.tokens = <<>> /\ now.end = None
  /\ now.todo = IF now.TOKEN = None THEN <<"refresh_token", "send">> ELSE <<"send">>

\* A process was just started, with what the file has (core/config.py).
Fresh(now) ==
  /\ now.config = config /\ now.partial = Empty /\ now.parsed = Empty /\ now.wrote = 0
  /\ ~now.overlap /\ ~now.replaced
  /\ now.begun = IF \E q \in Procs : Holder(q) THEN 0 ELSE key

\* A program is started that makes a request (apps/refitt/api.py, whoami.py).
LEMMA Requests ==
  ASSUME IInv, NEW p \in Procs, StartRequest(p)
  PROVE  LET now == proc'[p] IN
    /\ proc[p].kind = None /\ proc' \in [Procs -> Run] /\ OthersSame(p)
    /\ Fresh(now) /\ now.requests = 1
    /\ \E mode \in {"config", "token", "auth"} :
         /\ Requested(now, mode)
         /\ now.KEY = (IF mode = "auth" THEN OtherKey ELSE None)
         /\ now.TOKEN = (IF mode = "token" THEN Given ELSE None)
         /\ now.lent <=> mode = "auth"
         /\ \/ now.kind = "api" /\ now.persist /\ mode # "auth"
            \/ now.kind = "library" /\ ~now.persist
<1>1. proc \in [Procs -> Run] /\ proc[p].kind = None /\ Typed
  BY DEF IInv, Typed, StartRequest
<1>2. CASE \E mode \in {"config", "token"} :
             proc' = [proc EXCEPT ![p] = Authenticated([New("api") EXCEPT !.persist = TRUE], mode)]
  <2>1. PICK mode \in {"config", "token", "auth"} :
          /\ mode # "auth"
          /\ proc' = [proc EXCEPT ![p] = Authenticated([New("api") EXCEPT !.persist = TRUE], mode)]
    BY <1>2
  <2>2. PICK state \in Run : state = New("api")
    BY <1>1, News
  <2>3. PICK kept \in Run : kept = [state EXCEPT !.persist = TRUE]
    BY PersistTyped
  <2>4. /\ kept.kind = "api" /\ kept.persist /\ Fresh(kept) /\ kept.requests = 0
        /\ kept.KEY = None /\ kept.TOKEN = None /\ ~kept.lent
    <3>1. /\ state.kind = "api" /\ Fresh(state) /\ state.requests = 0
          /\ state.KEY = None /\ state.TOKEN = None /\ ~state.lent
      BY <1>1, <2>2, News DEF Fresh
    <3>. QED
      BY <2>3, <3>1 DEF Fresh, Run
  <2>5. PICK now \in Run : now = Authenticated(kept, mode)
    BY <2>4, Authenticates
  <2>6. /\ now.kind = "api" /\ now.persist /\ Fresh(now) /\ now.requests = 1
        /\ Requested(now, mode) /\ now.KEY = None /\ ~now.lent
        /\ now.TOKEN = IF mode = "token" THEN Given ELSE None
    <3>1. now.lent = (kept.lent \/ mode = "auth")
      BY <2>4, <2>5, Authenticates
    <3>2. ~now.lent
      BY <2>1, <2>4, <3>1
    <3>3. Fresh(now) /\ Requested(now, mode)
      BY <2>4, <2>5, Authenticates DEF Fresh, Requested
    <3>4. now.kind = "api" /\ now.persist /\ now.requests = 0 + 1
      BY <2>4, <2>5, Authenticates
    <3>5. now.KEY = None /\ now.TOKEN = IF mode = "token" THEN Given ELSE None
      BY <2>1, <2>4, <2>5, Authenticates
    <3>. QED
      BY <3>2, <3>3, <3>4, <3>5
  <2>7. proc' = [proc EXCEPT ![p] = now]
    BY <2>1, <2>2, <2>3, <2>5
  <2>. QED
    BY <1>1, <2>1, <2>6, <2>7 DEF OthersSame
<1>3. CASE \E mode \in {"config", "token", "auth"} :
             proc' = [proc EXCEPT ![p] = Authenticated(New("library"), mode)]
  <2>1. PICK mode \in {"config", "token", "auth"} :
          proc' = [proc EXCEPT ![p] = Authenticated(New("library"), mode)]
    BY <1>3
  <2>2. PICK state \in Run : state = New("library")
    BY <1>1, News
  <2>3. /\ state.kind = "library" /\ ~state.persist /\ Fresh(state) /\ state.requests = 0
        /\ state.KEY = None /\ state.TOKEN = None /\ ~state.lent
    BY <1>1, <2>2, News DEF Fresh
  <2>4. PICK now \in Run : now = Authenticated(state, mode)
    BY <2>3, Authenticates
  <2>5. /\ now.kind = "library" /\ ~now.persist /\ Fresh(now) /\ now.requests = 1
        /\ Requested(now, mode) /\ (now.lent <=> mode = "auth")
        /\ now.KEY = (IF mode = "auth" THEN OtherKey ELSE None)
        /\ now.TOKEN = (IF mode = "token" THEN Given ELSE None)
    <3>1. now.lent = (state.lent \/ mode = "auth")
      BY <2>3, <2>4, Authenticates
    <3>2. now.lent <=> mode = "auth"
      BY <2>3, <3>1
    <3>3. Fresh(now) /\ Requested(now, mode)
      BY <2>3, <2>4, Authenticates DEF Fresh, Requested
    <3>4. now.kind = "library" /\ ~now.persist /\ now.requests = 0 + 1
      BY <2>3, <2>4, Authenticates
    <3>5. /\ now.KEY = (IF mode = "auth" THEN OtherKey ELSE None)
          /\ now.TOKEN = (IF mode = "token" THEN Given ELSE None)
      BY <2>3, <2>4, Authenticates
    <3>. QED
      BY <3>2, <3>3, <3>4, <3>5
  <2>6. proc' = [proc EXCEPT ![p] = now]
    BY <2>1, <2>2, <2>4
  <2>. QED
    BY <1>1, <2>1, <2>5, <2>6 DEF OthersSame
<1>. QED
  BY <1>2, <1>3 DEF StartRequest

\* A person logs in (apps/refitt/login.py).
LEMMA LogsIn ==
  ASSUME IInv, NEW p \in Procs, StartLogin(p)
  PROVE  LET now == proc'[p] IN
    /\ proc[p].kind = None /\ proc' \in [Procs -> Run] /\ OthersSame(p)
    /\ Fresh(now) /\ now.kind = "login" /\ ~now.persist /\ now.KEY = None /\ now.TOKEN = None
    /\ now.todo = <<"prompt">> /\ now.end = None /\ now.tokens = <<>> /\ now.ran = 0 /\ ~now.lent
<1>1. proc \in [Procs -> Run] /\ proc[p].kind = None /\ Typed
  BY DEF IInv, Typed, StartLogin
<1>2. PICK state \in Run : state = New("login")
  BY <1>1, News
<1>3. /\ state.kind = "login" /\ ~state.persist /\ Fresh(state) /\ state.ran = 0
      /\ state.KEY = None /\ state.TOKEN = None /\ ~state.lent /\ state.tokens = <<>>
      /\ state.end = None
  BY <1>1, <1>2, News DEF Fresh
<1>4. PICK todo \in Seq(Steps) : todo = <<"prompt">>
  <2>1. <<"prompt">> \in Seq(Steps)
    BY DEF Steps
  <2>. QED
    BY <2>1
<1>5. PICK now \in Run : now = [state EXCEPT !.todo = todo]
  BY TodoTyped
<1>6. /\ now.kind = "login" /\ ~now.persist /\ Fresh(now) /\ now.ran = 0
      /\ now.KEY = None /\ now.TOKEN = None /\ ~now.lent /\ now.tokens = <<>>
      /\ now.end = None /\ now.todo = <<"prompt">>
  BY <1>3, <1>4, <1>5 DEF Fresh, Run
<1>7. proc' = [proc EXCEPT ![p] = now]
  BY <1>2, <1>4, <1>5 DEF StartLogin
<1>. QED
  BY <1>1, <1>6, <1>7 DEF OthersSame

\* A program makes another request (web/request.py).
LEMMA RequestsAgain ==
  ASSUME IInv, NEW p \in Procs, Again(p)
  PROVE  LET run == proc[p]
             now == proc'[p]
         IN
    /\ run.kind = "library" /\ run.end \notin {None, "stopped"}
    /\ proc' \in [Procs -> Run] /\ OthersSame(p)
    /\ Requested(now, "config") /\ now.requests = run.requests + 1
    /\ now.kind = "library" /\ now.persist = run.persist /\ now.config = run.config
    /\ now.begun = run.begun /\ now.wrote = run.wrote /\ now.overlap = run.overlap
    /\ now.replaced = run.replaced /\ now.lent = run.lent
    /\ now.partial = Empty /\ now.parsed = Empty /\ now.KEY = run.KEY /\ now.TOKEN = run.TOKEN
<1>1. /\ proc \in [Procs -> Run] /\ proc[p] \in Run /\ proc[p].kind = "library"
      /\ proc[p].end \notin {None, "stopped"}
      /\ proc[p].partial = Empty /\ proc[p].parsed = Empty
  BY NoneAssumption DEF IInv, Typed, Again, LocalInv, AtWork, Done
<1>2. PICK now \in Run : now = Authenticated(proc[p], "config")
  BY <1>1, Authenticates
<1>3. /\ Requested(now, "config") /\ now.requests = proc[p].requests + 1
      /\ now.kind = "library" /\ now.persist = proc[p].persist /\ now.config = proc[p].config
      /\ now.begun = proc[p].begun /\ now.wrote = proc[p].wrote /\ now.overlap = proc[p].overlap
      /\ now.replaced = proc[p].replaced /\ now.partial = Empty /\ now.parsed = Empty
      /\ now.KEY = proc[p].KEY /\ now.TOKEN = proc[p].TOKEN
  BY <1>1, <1>2, Authenticates DEF Requested
<1>4. now.lent = (proc[p].lent \/ "config" = "auth")
  BY <1>1, <1>2, Authenticates
<1>5. now.lent = proc[p].lent
  BY <1>1, <1>4 DEF Run
<1>6. proc' = [proc EXCEPT ![p] = now]
  BY <1>2 DEF Again
<1>. QED
  BY <1>1, <1>3, <1>5, <1>6 DEF OthersSame

\* What a process keeps, whatever becomes of its updates and those of others.
Alike(now, state) ==
  /\ Lasting(now, state) /\ now.wrote = state.wrote
  /\ now.sent = state.sent /\ now.tokens = state.tokens /\ now.ran = state.ran
  /\ now.as = state.as /\ now.whole = state.whole /\ now.KEY = state.KEY /\ now.TOKEN = state.TOKEN
  /\ now.partial = state.partial /\ now.end = state.end

\* The file is copied, and the updates that meet are noted (core/config.py update).
LEMMA BacksUp ==
  ASSUME IInv, NEW p \in Procs, Backup(p)
  PROVE
    /\ p \in Busy /\ Head(proc[p].todo) = "backup"
    /\ proc' \in [Procs -> Run] /\ UNCHANGED <<server, config, second>>
    /\ backups' = [backups EXCEPT ![second] = config]
    /\ \A q \in Procs :
         /\ Alike(proc'[q], proc[q]) /\ proc'[q].parsed = proc[q].parsed
         /\ q # p => proc'[q].todo = proc[q].todo
         /\ proc[q].overlap => proc'[q].overlap
         /\ q # p /\ q \in Updating => proc'[q].overlap /\ proc'[p].overlap
         /\ proc[q].replaced => proc'[q].replaced
    /\ \A q \in Procs : q # p /\ q \notin Updating => proc'[q] = proc[q]
    /\ backups[second] # None => proc'[p].replaced
    /\ \E rest \in Rests :
         Continuing(p, rest) /\ proc'[p].todo = <<"read", "open", "write">> \o rest
<1> DEFINE others == Updating \ {p}
           meets(q) == IF q = p THEN others # {} ELSE q \in others
           next(q) == IF q = p THEN [proc[q] EXCEPT !.todo = Tail(@)] ELSE proc[q]
           noted(q) == [next(q) EXCEPT !.overlap = @ \/ meets(q),
                                       !.replaced = @ \/ (q = p /\ backups[second] # None)]
<1>1. /\ p \in Busy /\ Head(proc[p].todo) = "backup" /\ proc \in [Procs -> Run]
      /\ \E rest \in Rests :
           Continuing(p, rest) /\ Tail(proc[p].todo) = <<"read", "open", "write">> \o rest
  BY Phases DEF Backup, At, IInv, Typed
<1>2. Tail(proc[p].todo) \in Seq(Steps)
  BY <1>1, UpdateSteps DEF WriteSteps
<1>3. proc' = [q \in Procs |-> noted(q)]
  BY DEF Backup
<1>4. ASSUME NEW q \in Procs
      PROVE  /\ next(q) \in Run /\ Alike(next(q), proc[q]) /\ next(q).parsed = proc[q].parsed
             /\ next(q).todo = IF q = p THEN Tail(proc[p].todo) ELSE proc[q].todo
             /\ next(q).overlap = proc[q].overlap /\ next(q).replaced = proc[q].replaced
  <2>1. CASE q = p
    <3>1. next(q) = [proc[p] EXCEPT !.todo = Tail(proc[p].todo)]
      BY <2>1
    <3>2. next(q) \in Run
      BY <1>1, <1>2, <3>1, TodoTyped
    <3>. QED
      BY <1>1, <2>1, <3>1, <3>2 DEF Alike, Lasting, Run
  <2>2. CASE q # p
    BY <1>1, <2>2 DEF Alike, Lasting
  <2>. QED
    BY <2>1, <2>2
<1>. HIDE DEF next, meets
<1>5. ASSUME NEW q \in Procs
      PROVE  /\ noted(q) \in Run /\ Alike(noted(q), proc[q]) /\ noted(q).parsed = proc[q].parsed
             /\ noted(q).todo = next(q).todo
             /\ noted(q).overlap = (proc[q].overlap \/ meets(q))
             /\ noted(q).replaced = (proc[q].replaced \/ (q = p /\ backups[second] # None))
  <2>1. PICK state \in Run : state = next(q)
    BY <1>4
  <2>2. PICK overlap \in BOOLEAN : overlap = (state.overlap \/ meets(q))
    OBVIOUS
  <2>3. PICK replaced \in BOOLEAN : replaced = (state.replaced \/ (q = p /\ backups[second] # None))
    OBVIOUS
  <2>4. noted(q) = [state EXCEPT !.overlap = overlap, !.replaced = replaced]
    BY <2>1, <2>2, <2>3
  <2>5. [state EXCEPT !.overlap = overlap, !.replaced = replaced] \in Run
    BY NotedTyped
  <2>. HIDE DEF noted
  <2>6. /\ noted(q).overlap = overlap /\ noted(q).replaced = replaced
    BY <2>4 DEF Run
  <2>7. /\ Alike(noted(q), state) /\ noted(q).parsed = state.parsed /\ noted(q).todo = state.todo
    BY <2>4 DEF Run, Alike, Lasting
  <2>8. noted(q) \in Run
    BY <2>4, <2>5
  <2>9. Alike(noted(q), proc[q])
    BY <1>4, <2>1, <2>7 DEF Alike, Lasting
  <2>. QED
    BY <1>4, <2>1, <2>2, <2>3, <2>6, <2>7, <2>8, <2>9
<1>. HIDE DEF noted
<1>6. \A q \in Procs : proc'[q] = noted(q)
  BY <1>3
<1>7. ASSUME NEW q \in Procs, q # p, q \in Updating
      PROVE  proc'[q].overlap /\ proc'[p].overlap
  BY <1>5, <1>6, <1>7 DEF meets
<1>8. ASSUME NEW q \in Procs
      PROVE  /\ Alike(proc'[q], proc[q]) /\ proc'[q].parsed = proc[q].parsed
             /\ q # p => proc'[q].todo = proc[q].todo
             /\ proc[q].overlap => proc'[q].overlap
             /\ proc[q].replaced => proc'[q].replaced
  BY <1>4, <1>5, <1>6
<1>9. backups[second] # None => proc'[p].replaced
  BY <1>5, <1>6
<1>10. proc'[p].todo = Tail(proc[p].todo)
  BY <1>4, <1>5, <1>6
<1>11. proc' \in [Procs -> Run]
  BY <1>3, <1>5
<1>12. UNCHANGED <<server, config, second>> /\ backups' = [backups EXCEPT ![second] = config]
  BY DEF Backup
<1>13. ASSUME NEW q \in Procs, q # p, q \notin Updating
       PROVE  proc'[q] = proc[q]
  <2>1. PICK state \in Run : state = proc[q]
    BY <1>1
  <2>2. PICK overlap \in BOOLEAN, replaced \in BOOLEAN :
          overlap = state.overlap /\ replaced = state.replaced
    BY DEF Run
  <2>3. next(q) = state /\ ~meets(q)
    BY <1>13, <2>1 DEF next, meets
  <2>4. noted(q) = [state EXCEPT !.overlap = overlap, !.replaced = replaced]
    BY <1>13, <2>2, <2>3 DEF noted
  <2>5. [state EXCEPT !.overlap = overlap, !.replaced = replaced] = state
    BY <2>2 DEF Run
  <2>. QED
    BY <1>6, <2>1, <2>4, <2>5
<1>. QED
  BY <1>1, <1>7, <1>8, <1>9, <1>10, <1>11, <1>12, <1>13

\* The file is read (core/config.py update).
LEMMA Reads ==
  ASSUME IInv, NEW p \in Procs, Read(p)
  PROVE
    /\ p \in Busy /\ Head(proc[p].todo) = "read"
    /\ proc' \in [Procs -> Run] /\ OthersSame(p)
    /\ Alike(proc'[p], proc[p]) /\ proc'[p].parsed = config
    /\ proc'[p].overlap = proc[p].overlap /\ proc'[p].replaced = proc[p].replaced
    /\ \E rest \in Rests :
         Continuing(p, rest) /\ proc'[p].todo = <<"open", "write">> \o rest
<1>1. /\ p \in Busy /\ Head(proc[p].todo) = "read" /\ proc \in [Procs -> Run] /\ config \in Content
      /\ \E rest \in Rests :
           Continuing(p, rest) /\ Tail(proc[p].todo) = <<"open", "write">> \o rest
  BY Phases DEF Read, At, IInv, Typed
<1>2. PICK todo \in Seq(Steps) : todo = Tail(proc[p].todo)
  BY <1>1, UpdateSteps DEF WriteSteps
<1>3. proc' = [proc EXCEPT ![p] = [proc[p] EXCEPT !.parsed = config, !.todo = todo]]
  BY <1>1, <1>2 DEF Read
<1>4. [proc[p] EXCEPT !.parsed = config, !.todo = todo] \in Run
  BY <1>1, ParsedTyped
<1>5. proc' \in [Procs -> Run] /\ OthersSame(p)
  BY <1>1, <1>3, <1>4 DEF OthersSame
<1>6. proc'[p] = [proc[p] EXCEPT !.parsed = config, !.todo = todo] /\ proc[p] \in Run
  BY <1>1, <1>3
<1>7. /\ Alike(proc'[p], proc[p]) /\ proc'[p].parsed = config
      /\ proc'[p].overlap = proc[p].overlap /\ proc'[p].replaced = proc[p].replaced
      /\ proc'[p].todo = todo
  BY <1>6 DEF Alike, Lasting, Run
<1>. QED
  BY <1>1, <1>2, <1>5, <1>7

\* The file is opened, and empty (core/config.py update).
LEMMA Opens ==
  ASSUME IInv, NEW p \in Procs, Open(p)
  PROVE
    /\ p \in Busy /\ Head(proc[p].todo) = "open" /\ config' = Empty
    /\ proc' \in [Procs -> Run] /\ OthersSame(p)
    /\ Alike(proc'[p], proc[p]) /\ proc'[p].parsed = proc[p].parsed
    /\ proc'[p].overlap = proc[p].overlap /\ proc'[p].replaced = proc[p].replaced
    /\ \E rest \in Rests :
         Continuing(p, rest) /\ proc'[p].todo = <<"write">> \o rest
<1>1. /\ p \in Busy /\ Head(proc[p].todo) = "open" /\ proc \in [Procs -> Run]
      /\ \E rest \in Rests :
           Continuing(p, rest) /\ Tail(proc[p].todo) = <<"write">> \o rest
  BY Phases DEF Open, At, IInv, Typed
<1>2. PICK todo \in Seq(Steps) : todo = Tail(proc[p].todo)
  BY <1>1, UpdateSteps DEF WriteSteps
<1>3. proc' = [proc EXCEPT ![p] = [proc[p] EXCEPT !.todo = todo]]
  BY <1>1, <1>2 DEF Open
<1>4. [proc[p] EXCEPT !.todo = todo] \in Run
  BY <1>1, TodoTyped
<1>5. proc' \in [Procs -> Run] /\ OthersSame(p) /\ config' = Empty
  BY <1>1, <1>3, <1>4 DEF OthersSame, Open
<1>6. proc'[p] = [proc[p] EXCEPT !.todo = todo] /\ proc[p] \in Run
  BY <1>1, <1>3
<1>7. /\ Alike(proc'[p], proc[p]) /\ proc'[p].parsed = proc[p].parsed
      /\ proc'[p].overlap = proc[p].overlap /\ proc'[p].replaced = proc[p].replaced
      /\ proc'[p].todo = todo
  BY <1>6 DEF Alike, Lasting, Run
<1>. QED
  BY <1>1, <1>2, <1>5, <1>7

\* What was read is written, with what is new (core/config.py update).
LEMMA Writes ==
  ASSUME IInv, NEW p \in Procs, Write(p)
  PROVE  LET run == proc[p]
             now == proc'[p]
         IN
    /\ p \in Busy /\ Head(run.todo) = "write"
    /\ UNCHANGED <<server, backups, second>>
    /\ config' = inplace_update(run.parsed, run.partial)
    /\ proc' \in [Procs -> Run] /\ OthersSame(p)
    /\ Lasting(now, run) /\ now.sent = run.sent /\ now.tokens = run.tokens /\ now.ran = run.ran
    /\ now.as = run.as /\ now.whole = run.whole
    /\ now.overlap = run.overlap /\ now.replaced = run.replaced
    /\ now.partial = Empty /\ now.parsed = Empty
    /\ now.wrote = (IF run.partial.key = None THEN run.wrote ELSE run.partial.key.n)
    /\ \E rest \in Rests :
         /\ Continuing(p, rest) /\ now.todo = rest
         /\ \/ /\ rest = <<>> /\ now.end = "done"
               /\ now.KEY \in {run.KEY, None} /\ now.TOKEN \in {run.TOKEN, None}
               /\ run.mode = "token" => now.TOKEN = None
            \/ rest # <<>> /\ now.end = None /\ now.KEY = run.KEY /\ now.TOKEN = run.TOKEN
<1> DEFINE run == proc[p]
           state == [run EXCEPT !.todo = Tail(@), !.partial = Empty, !.parsed = Empty,
                       !.wrote = IF run.partial.key = None THEN @ ELSE run.partial.key.n]
<1>1. /\ p \in Busy /\ run \in Run /\ Head(run.todo) = "write" /\ proc \in [Procs -> Run]
      /\ run.end = None
      /\ \E rest \in Rests : Continuing(p, rest) /\ Tail(run.todo) = rest
  BY Phases DEF Write, At, IInv, Typed, Busy
<1>2. PICK rest \in Rests : Continuing(p, rest) /\ Tail(run.todo) = rest
  BY <1>1
<1>3. PICK wrote \in Nat : wrote = IF run.partial.key = None THEN run.wrote ELSE run.partial.key.n
  <2>1. run.partial.key \in Keys \cup {None} /\ run.wrote \in Nat
    BY <1>1 DEF Run, Content
  <2>. QED
    BY <2>1 DEF Keys
<1>4. rest \in Seq(Steps) /\ Empty \in Content
  BY UpdateSteps, EmptyTyped
<1>5. state = [run EXCEPT !.todo = rest, !.partial = Empty, !.parsed = Empty, !.wrote = wrote]
  BY <1>1, <1>2, <1>3 DEF Run
<1>6. [run EXCEPT !.todo = rest, !.partial = Empty, !.parsed = Empty, !.wrote = wrote] \in Run
  BY <1>1, <1>4, WrittenTyped
<1>7. /\ UNCHANGED <<server, backups, second>>
      /\ config' = inplace_update(run.parsed, run.partial) /\ Continue(p, state)
  BY DEF Write
<1>8. state \in Run
  BY <1>5, <1>6
<1>. HIDE DEF state
<1>9. /\ Lasting(state, run) /\ state.sent = run.sent /\ state.tokens = run.tokens
      /\ state.ran = run.ran /\ state.as = run.as /\ state.whole = run.whole
      /\ state.overlap = run.overlap /\ state.replaced = run.replaced
      /\ state.partial = Empty /\ state.parsed = Empty /\ state.wrote = wrote
      /\ state.todo = rest /\ state.end = None /\ state.KEY = run.KEY /\ state.TOKEN = run.TOKEN
  BY <1>1, <1>5 DEF Lasting, Run
<1>10. CASE rest = <<>>
  <2>1. End(p, state, "done")
    BY <1>7, <1>9, <1>10 DEF Continue
  <2>2. LET now == proc'[p] IN
        /\ proc' \in [Procs -> Run] /\ OthersSame(p) /\ Same(now, state)
        /\ now.todo = <<>> /\ now.partial = Empty /\ now.parsed = Empty /\ now.end = "done"
        /\ now.KEY \in {run.KEY, None} /\ now.TOKEN \in {run.TOKEN, None}
        /\ run.mode = "token" => now.TOKEN = None
    BY <1>1, <1>8, <1>9, <2>1, Ends DEF OthersSame, Lasting
  <2>3. LET now == proc'[p] IN
        /\ Lasting(now, run) /\ now.sent = run.sent /\ now.tokens = run.tokens
        /\ now.ran = run.ran /\ now.as = run.as /\ now.whole = run.whole
        /\ now.overlap = run.overlap /\ now.replaced = run.replaced /\ now.wrote = wrote
    BY <1>9, <2>2 DEF Lasting, Same
  <2>. QED
    BY <1>1, <1>2, <1>3, <1>7, <1>10, <2>2, <2>3
<1>11. CASE rest # <<>>
  <2>1. proc' = [proc EXCEPT ![p] = state]
    BY <1>7, <1>9, <1>11 DEF Continue
  <2>2. proc' \in [Procs -> Run] /\ OthersSame(p) /\ proc'[p] = state
    BY <1>1, <1>8, <2>1 DEF OthersSame
  <2>. QED
    BY <1>1, <1>2, <1>3, <1>7, <1>9, <1>11, <2>2
<1>. QED
  BY <1>10, <1>11

\* A process is interrupted (a signal to any of the programs).
LEMMA Stops ==
  ASSUME IInv, NEW p \in Procs, Stop(p)
  PROVE  LET run == proc[p]
             now == proc'[p]
         IN
    /\ p \in Busy /\ UNCHANGED <<server, disk, second>>
    /\ proc' \in [Procs -> Run] /\ OthersSame(p)
    /\ Same(now, run) /\ now.todo = <<>> /\ now.partial = Empty /\ now.parsed = Empty
    /\ now.end = "stopped" /\ now.KEY \in {run.KEY, None} /\ now.TOKEN \in {run.TOKEN, None}
    /\ run.mode = "token" => now.TOKEN = None
<1>1. p \in Busy /\ proc[p] \in Run /\ proc \in [Procs -> Run] /\ End(p, proc[p], "stopped")
  BY DEF Stop, IInv, Typed
<1>. QED
  BY <1>1, Ends DEF Stop, OthersSame
------------------------------------------------------------------------------
(***************************************************************************)
(* What a process has, and where it is: HasInv and LocalInv.               *)
(***************************************************************************)
\* Keys are issued and tokens expire, for good; who was started was started.
Grow ==
  /\ key' \in Nat /\ key' >= key /\ expired \subseteq expired'
  /\ \A q \in Procs : proc[q].kind # None => proc'[q].kind # None

\* A process keeps what it has.
Kept(q) ==
  /\ Alike(proc'[q], proc[q]) /\ proc'[q].parsed = proc[q].parsed /\ proc'[q].todo = proc[q].todo

\* Whose keys and tokens content has, does not change (core/config.py).
LEMMA MineKept ==
  ASSUME Typed, Grow, NEW content \in Content, Mine(content)
  PROVE  Mine(content)'
BY DEF Typed, Grow, Mine, Issued, Content, Keys

\* A key that was issued remains so (web/request.py).
LEMMA IssuedStays ==
  ASSUME Typed, Grow, NEW k \in Keys \cup {None}, Issued(k)
  PROVE  k # None /\ k.of = "user" => k.n \in 1..key'
BY DEF Typed, Grow, Issued, Keys

\* Who does not take a step is where it was (web/request.py, core/config.py).
LEMMA OthersKeep ==
  ASSUME IInv, Grow, Typed', NEW q \in Procs, Kept(q), proc[q].kind = None => proc'[q] = proc[q]
  PROVE  Having(q)' /\ AtWork(q)'
<1>1. Having(q) /\ AtWork(q) /\ proc[q] \in Run /\ proc'[q] \in Run /\ key \in Nat
  BY DEF IInv, HasInv, LocalInv, Typed
<1>2. /\ Lasting(proc'[q], proc[q]) /\ proc'[q].wrote = proc[q].wrote
      /\ proc'[q].sent = proc[q].sent /\ proc'[q].tokens = proc[q].tokens
      /\ proc'[q].ran = proc[q].ran /\ proc'[q].as = proc[q].as /\ proc'[q].whole = proc[q].whole
      /\ proc'[q].KEY = proc[q].KEY /\ proc'[q].TOKEN = proc[q].TOKEN
      /\ proc'[q].partial = proc[q].partial /\ proc'[q].parsed = proc[q].parsed
      /\ proc'[q].end = proc[q].end /\ proc'[q].todo = proc[q].todo
  BY DEF Kept, Alike
<1>3. Having(q)'
  <2>1. ASSUME NEW content \in Content, Mine(content)
        PROVE  Mine(content)'
    BY <2>1, MineKept DEF IInv
  <2>2. Mine(proc[q].config) /\ Mine(proc[q].partial) /\ Mine(proc[q].parsed)
    BY <1>1 DEF Having
  <2>3. PICK conf \in Content, part \in Content, pars \in Content :
          /\ conf = proc[q].config /\ part = proc[q].partial /\ pars = proc[q].parsed
          /\ Mine(conf)' /\ Mine(part)' /\ Mine(pars)'
    BY <1>1, <2>1, <2>2 DEF Run
  <2>4. Mine(proc[q].config)' /\ Mine(proc[q].partial)' /\ Mine(proc[q].parsed)'
    BY <1>2, <2>3 DEF Lasting, Mine, Issued
  <2>5. Issued(proc[q].KEY)'
    BY <1>1, <1>2 DEF Grow, Having, Issued, Run, Keys
  <2>6. OwnUpTo(q, proc[q].TOKEN, 2 * proc[q].requests + 1)'
    BY <1>1, <1>2 DEF Having, OwnUpTo, Lasting
  <2>7. /\ proc'[q].kind = None => proc'[q] = Unstarted
        /\ proc'[q].wrote <= key' /\ proc'[q].begun <= key'
    BY <1>1, <1>2 DEF Having, Grow, Lasting, Run
  <2>8. /\ proc'[q].KEY # None /\ proc'[q].KEY.of = "other" => proc'[q].lent
        /\ proc'[q].TOKEN # None /\ proc'[q].TOKEN.of = "other" =>
             proc'[q].lent \/ (proc'[q].mode = "token" /\ proc'[q].end = None)
        /\ proc'[q].persist <=> proc'[q].kind = "api"
        /\ proc'[q].kind = "api" => ~proc'[q].lent
        /\ proc'[q].config.token # None => proc'[q].config.token.by # q
    BY <1>1, <1>2 DEF Having, Lasting
  <2>. QED
    BY <2>4, <2>5, <2>6, <2>7, <2>8 DEF Having
<1>4. Requesting(q) => Requesting(q)'
  BY <1>2 DEF Requesting, Lasting, Grow, OwnUpTo
<1>5. LoggingIn(q) => LoggingIn(q)'
  BY <1>2 DEF LoggingIn, Lasting
<1>6. \A rest \in Rests : Continuing(q, rest) => Continuing(q, rest)'
  BY <1>2, <1>4, <1>5 DEF Continuing, Lasting
<1>7. Doing(q) => Doing(q)'
  BY <1>2, <1>4, <1>5, <1>6 DEF Doing, Lasting
<1>8. Done(q) => Done(q)'
  BY <1>2 DEF Done, Lasting, Grow
<1>9. AtWork(q)'
  BY <1>1, <1>2, <1>7, <1>8 DEF AtWork, Lasting
<1>. QED
  BY <1>3, <1>9

\* What is written is what is new, and of the rest what was read (core/config.py).
LEMMA InplaceUpdate ==
  ASSUME NEW original \in Content, NEW partial \in Content
  PROVE  LET new == inplace_update(original, partial) IN
    /\ new \in Content
    /\ new.key = IF partial.key # None THEN partial.key ELSE original.key
    /\ new.token = IF partial.token # None THEN partial.token ELSE original.token
<1>1. DOMAIN original = {"key", "token"}
  BY DEF Content
<1>2. inplace_update(original, partial) =
        [entry \in {"key", "token"} |->
           IF partial[entry] # None THEN partial[entry] ELSE original[entry]]
  BY <1>1 DEF inplace_update
<1>3. PICK newKey \in Keys \cup {None} :
        newKey = IF partial.key # None THEN partial.key ELSE original.key
  BY DEF Content
<1>4. PICK newToken \in Tokens \cup {None} :
        newToken = IF partial.token # None THEN partial.token ELSE original.token
  BY DEF Content
<1>5. inplace_update(original, partial) = [key |-> newKey, token |-> newToken]
  BY <1>2, <1>3, <1>4
<1>. QED
  BY <1>3, <1>4, <1>5 DEF Content

\* Every step keeps the types (web/request.py, core/config.py).
LEMMA TypedStep ==
  ASSUME IInv, [Next]_vars
  PROVE  Typed' /\ Grow
<1>1. /\ key \in 1..MaxKey /\ key \in Nat /\ second \in 1..MaxSecond /\ expired \subseteq Tokens
      /\ config \in Content /\ backups \in [1..MaxSecond -> Content \cup {None}]
      /\ proc \in [Procs -> Run] /\ MaxKey \in Nat /\ MaxSecond \in Nat
  BY BoundsAssumption DEF IInv, Typed
<1>2. CASE UNCHANGED vars
  BY <1>1, <1>2 DEF vars, server, disk, Typed, Grow
<1>3. CASE Pass
  BY <1>1, <1>3 DEF Pass, server, disk, Typed, Grow
<1>4. CASE Expire
  <2>1. PICK t \in {proc[p].TOKEN : p \in Busy} \cup {config.token} :
          t # None /\ expired' = expired \cup {t}
    BY <1>4 DEF Expire
  <2>2. t \in Tokens
    BY <1>1, <2>1 DEF Busy, Started, Run, Content
  <2>3. key' = key /\ config' = config /\ backups' = backups /\ second' = second /\ proc' = proc
    BY <1>4 DEF Expire, disk
  <2>. QED
    BY <1>1, <2>1, <2>2, <2>3 DEF Typed, Grow
<1>5. ASSUME NEW p \in Procs, StartRequest(p) \/ StartLogin(p) \/ Again(p)
      PROVE  Typed' /\ Grow
  <2>1. UNCHANGED <<key, expired, config, backups, second>>
    BY <1>5 DEF StartRequest, StartLogin, Again, server, disk
  <2>2. proc' \in [Procs -> Run] /\ OthersSame(p) /\ proc'[p].kind # None
    BY <1>5, Requests, LogsIn, RequestsAgain, NoneAssumption
  <2>. QED
    BY <1>1, <2>1, <2>2 DEF Typed, Grow, OthersSame
<1>6. ASSUME NEW p \in Procs, RefreshToken(p) \/ GetToken(p) \/ Send(p) \/ Stop(p)
      PROVE  Typed' /\ Grow
  <2>1. UNCHANGED <<key, expired, config, backups, second>>
    BY <1>6 DEF RefreshToken, GetToken, Send, Stop, server, disk
  <2>2. proc' \in [Procs -> Run] /\ OthersSame(p) /\ proc'[p].kind = proc[p].kind
    BY <1>6, Refreshes, GetsToken, Sends, Stops DEF Same, Lasting
  <2>. QED
    BY <1>1, <2>1, <2>2 DEF Typed, Grow, OthersSame
<1>7. ASSUME NEW p \in Procs, Prompt(p)
      PROVE  Typed' /\ Grow
  <2>1. UNCHANGED <<expired, config, backups, second>>
    BY <1>7 DEF Prompt, disk
  <2>2. /\ proc' \in [Procs -> Run] /\ OthersSame(p) /\ proc'[p].kind = proc[p].kind
        /\ key' = key + 1 /\ key' \in 1..MaxKey
    BY <1>7, Prompts DEF Same
  <2>. QED
    BY <1>1, <2>1, <2>2 DEF Typed, Grow, OthersSame
<1>8. ASSUME NEW p \in Procs, Backup(p)
      PROVE  Typed' /\ Grow
  <2>1. UNCHANGED <<key, expired, config, second>> /\ backups' = [backups EXCEPT ![second] = config]
    BY <1>8 DEF Backup, server
  <2>2. proc' \in [Procs -> Run] /\ \A q \in Procs : proc'[q].kind = proc[q].kind
    BY <1>8, BacksUp DEF Alike, Lasting
  <2>. QED
    BY <1>1, <2>1, <2>2 DEF Typed, Grow
<1>9. ASSUME NEW p \in Procs, Read(p) \/ Open(p)
      PROVE  Typed' /\ Grow
  <2>1. UNCHANGED <<key, expired, backups, second>>
    BY <1>9 DEF Read, Open, server, disk
  <2>2. /\ proc' \in [Procs -> Run] /\ OthersSame(p) /\ proc'[p].kind = proc[p].kind
        /\ config' \in Content
    BY <1>1, <1>9, Reads, Opens, EmptyTyped DEF Alike, Lasting, Read, disk
  <2>. QED
    BY <1>1, <2>1, <2>2 DEF Typed, Grow, OthersSame
<1>10. ASSUME NEW p \in Procs, Write(p)
       PROVE  Typed' /\ Grow
  <2>1. UNCHANGED <<key, expired, backups, second>>
    BY <1>10 DEF Write, server
  <2>2. /\ proc' \in [Procs -> Run] /\ OthersSame(p) /\ proc'[p].kind = proc[p].kind
        /\ config' = inplace_update(proc[p].parsed, proc[p].partial)
    BY <1>10, Writes DEF Lasting
  <2>3. config' \in Content
    BY <1>1, <2>2, InplaceUpdate DEF Run
  <2>. QED
    BY <1>1, <2>1, <2>2, <2>3 DEF Typed, Grow, OthersSame
<1>. QED
  BY <1>2, <1>3, <1>4, <1>5, <1>6, <1>7, <1>8, <1>9, <1>10 DEF Next, Finished

\* Where a process is that has not to update the file (web/request.py).
LEMMA Stepping ==
  ASSUME NEW p \in Procs, proc'[p].end = None, proc'[p].partial = Empty, proc'[p].parsed = Empty,
         \/ proc'[p].todo = <<"prompt">> /\ LoggingIn(p)'
         \/ proc'[p].todo = <<"refresh_token", "send">> /\ Requesting(p)'
         \/ proc'[p].todo = <<"prompt", "get_token", "send">> /\ Requesting(p)' /\ proc'[p].KEY = None
         \/ proc'[p].todo = <<"get_token", "send">> /\ Continuing(p, <<"get_token", "send">>)'
         \/ proc'[p].todo = <<"send">> /\ Continuing(p, <<"send">>)'
  PROVE  AtWork(p)'
<1>1. CASE proc'[p].todo = <<"prompt">> /\ LoggingIn(p)'
  BY <1>1, Zenon DEF AtWork, Doing
<1>2. CASE proc'[p].todo = <<"refresh_token", "send">> /\ Requesting(p)'
  BY <1>2, Zenon DEF AtWork, Doing
<1>3. CASE proc'[p].todo = <<"prompt", "get_token", "send">> /\ Requesting(p)' /\ proc'[p].KEY = None
  BY <1>3, Zenon DEF AtWork, Doing
<1>4. CASE proc'[p].todo = <<"get_token", "send">> /\ Continuing(p, <<"get_token", "send">>)'
  <2>1. <<"get_token", "send">> \in Rests \ {<<>>}
    BY DEF Rests
  <2>2. proc'[p].todo \in Rests \ {<<>>} /\ Continuing(p, proc[p].todo)'
    BY <1>4, <2>1, Zenon DEF Continuing
  <2>. QED
    BY <2>2, Zenon DEF AtWork, Doing
<1>5. CASE proc'[p].todo = <<"send">> /\ Continuing(p, <<"send">>)'
  <2>1. <<"send">> \in Rests \ {<<>>}
    BY DEF Rests
  <2>2. proc'[p].todo \in Rests \ {<<>>} /\ Continuing(p, proc[p].todo)'
    BY <1>5, <2>1, Zenon DEF Continuing
  <2>. QED
    BY <2>2, Zenon DEF AtWork, Doing
<1>. QED
  BY <1>1, <1>2, <1>3, <1>4, <1>5

\* What a program has that starts a request (web/request.py authenticated).
LEMMA StartHas ==
  ASSUME IInv, Grow, Typed', NEW p \in Procs, StartRequest(p)
  PROVE  Having(p)' /\ AtWork(p)'
<1> DEFINE now == proc'[p]
<1>1. PICK mode \in {"config", "token", "auth"} :
        /\ Requested(now, mode)
        /\ now.KEY = (IF mode = "auth" THEN OtherKey ELSE None)
        /\ now.TOKEN = (IF mode = "token" THEN Given ELSE None)
        /\ now.lent <=> mode = "auth"
        /\ \/ now.kind = "api" /\ now.persist /\ mode # "auth"
           \/ now.kind = "library" /\ ~now.persist
  BY Requests
<1>2. /\ proc[p].kind = None /\ Fresh(now) /\ now.requests = 1 /\ now \in Run
      /\ now.kind # None /\ now.kind \in {"api", "library"}
  BY <1>1, Requests, NoneAssumption
<1>3. /\ OtherKey.of = "other" /\ Given.of = "other" /\ Given.by = None /\ p # None
      /\ OtherKey # None /\ Given # None /\ mode # None
  BY EmptyTyped, NoneAssumption DEF OtherKey, Given, Key, Token
<1>4. Having(p)'
  <2>1. PICK conf \in Content : conf = config /\ Mine(conf)
    BY DEF IInv, HasInv, Typed
  <2>2. Mine(conf)'
    BY <2>1, MineKept DEF IInv
  <2>3. Mine(proc[p].config)'
    BY <1>2, <2>1, <2>2 DEF Fresh, Mine, Issued
  <2>4. now.config.token # None => now.config.token.by # p
    BY <1>2, <2>1 DEF Fresh, Mine
  <2>5. Mine(proc[p].partial)' /\ Mine(proc[p].parsed)'
    BY <1>2 DEF Fresh, Mine, Empty
  <2>6. Issued(proc[p].KEY)' /\ OwnUpTo(p, proc[p].TOKEN, 2 * proc[p].requests + 1)'
    BY <1>1, <1>3 DEF Issued, OwnUpTo
  <2>7. now.begun <= key' /\ now.wrote <= key'
    BY <1>2, BoundsAssumption DEF Fresh, Grow, IInv, Typed
  <2>. QED
    BY <1>1, <1>2, <1>3, <2>3, <2>4, <2>5, <2>6, <2>7 DEF Having, Requested
<1>5. Requesting(p)'
  BY <1>1, <1>2, <1>3 DEF Requesting, Requested, OwnUpTo
<1>6. now.partial = Empty /\ now.parsed = Empty /\ now.end = None
  BY <1>1, <1>2 DEF Fresh, Requested
<1>7. CASE now.TOKEN = None
  <2>1. now.todo = <<"refresh_token", "send">>
    BY <1>1, <1>7 DEF Requested
  <2>. QED
    BY <1>4, <1>5, <1>6, <2>1, Stepping
<1>8. CASE now.TOKEN # None
  <2>1. now.todo = <<"send">> /\ now.sent = 0
    BY <1>1, <1>8 DEF Requested
  <2>2. Continuing(p, <<"send">>)'
    BY <1>5, <1>8, <2>1 DEF Continuing
  <2>. QED
    BY <1>4, <1>6, <2>1, <2>2, Stepping
<1>. QED
  BY <1>4, <1>7, <1>8

\* What a login has that starts (apps/refitt/login.py).
LEMMA LoginHas ==
  ASSUME IInv, Grow, Typed', NEW p \in Procs, StartLogin(p)
  PROVE  Having(p)' /\ AtWork(p)'
<1> DEFINE now == proc'[p]
<1>1. /\ proc[p].kind = None /\ Fresh(now) /\ now \in Run
      /\ now.kind = "login" /\ ~now.persist /\ now.KEY = None /\ now.TOKEN = None
      /\ now.todo = <<"prompt">> /\ now.end = None /\ now.tokens = <<>> /\ now.ran = 0 /\ ~now.lent
      /\ now.kind # None
  BY LogsIn, NoneAssumption
<1>2. Having(p)'
  <2>1. PICK conf \in Content : conf = config /\ Mine(conf)
    BY DEF IInv, HasInv, Typed
  <2>2. Mine(conf)'
    BY <2>1, MineKept DEF IInv
  <2>3. Mine(proc[p].config)'
    BY <1>1, <2>1, <2>2 DEF Fresh, Mine, Issued
  <2>4. now.config.token # None => now.config.token.by # p
    BY <1>1, <2>1 DEF Fresh, Mine
  <2>5. Mine(proc[p].partial)' /\ Mine(proc[p].parsed)'
    BY <1>1 DEF Fresh, Mine, Empty
  <2>6. Issued(proc[p].KEY)' /\ OwnUpTo(p, proc[p].TOKEN, 2 * proc[p].requests + 1)'
    BY <1>1 DEF Issued, OwnUpTo
  <2>7. now.begun <= key' /\ now.wrote <= key'
    BY <1>1, BoundsAssumption DEF Fresh, Grow, IInv, Typed
  <2>. QED
    BY <1>1, <2>3, <2>4, <2>5, <2>6, <2>7 DEF Having
<1>3. AtWork(p)'
  BY <1>1 DEF AtWork, Doing, LoggingIn, Fresh
<1>. QED
  BY <1>2, <1>3

\* What a program has that makes another request (web/request.py authenticated).
LEMMA AgainHas ==
  ASSUME IInv, Grow, Typed', NEW p \in Procs, Again(p)
  PROVE  Having(p)' /\ AtWork(p)'
<1> DEFINE now == proc'[p]
           run == proc[p]
<1>1. /\ run.kind = "library" /\ run.end \notin {None, "stopped"}
      /\ Requested(now, "config") /\ now.requests = run.requests + 1
      /\ now.kind = "library" /\ now.persist = run.persist /\ now.config = run.config
      /\ now.begun = run.begun /\ now.wrote = run.wrote /\ now.lent = run.lent
      /\ now.partial = Empty /\ now.parsed = Empty /\ now.KEY = run.KEY /\ now.TOKEN = run.TOKEN
      /\ now.kind # None
  BY RequestsAgain, NoneAssumption
<1>2. run \in Run /\ now \in Run /\ Having(p)
  BY DEF IInv, HasInv, Typed
<1>3. Having(p)'
  <2>1. PICK conf \in Content : conf = run.config /\ Mine(conf)
    BY <1>2 DEF Having, Run
  <2>2. Mine(conf)'
    BY <2>1, MineKept DEF IInv
  <2>3. Mine(proc[p].config)'
    BY <1>1, <2>1, <2>2 DEF Mine, Issued
  <2>4. Mine(proc[p].partial)' /\ Mine(proc[p].parsed)'
    BY <1>1 DEF Mine, Empty
  <2>5. Issued(proc[p].KEY)'
    <3>1. run.KEY \in Keys \cup {None} /\ Issued(run.KEY)
      BY <1>2 DEF Having, Run
    <3>2. run.KEY # None /\ run.KEY.of = "user" => run.KEY.n \in 1..key'
      BY <3>1, IssuedStays DEF IInv
    <3>. QED
      BY <1>1, <1>2, <3>2 DEF Having, Issued
  <2>6. OwnUpTo(p, proc[p].TOKEN, 2 * proc[p].requests + 1)'
    BY <1>1, <1>2 DEF Having, OwnUpTo, Run, Tokens
  <2>7. now.begun <= key' /\ now.wrote <= key'
    <3>1. run.begun \in Nat /\ run.wrote \in Nat /\ run.begun <= key /\ run.wrote <= key /\ key \in Nat
      BY <1>2 DEF Having, Run, IInv, Typed
    <3>. QED
      BY <1>1, <3>1 DEF Grow
  <2>8. /\ now.KEY # None /\ now.KEY.of = "other" => now.lent
        /\ now.TOKEN # None /\ now.TOKEN.of = "other" => now.lent
    BY <1>1, <1>2 DEF Having
  <2>. QED
    BY <1>1, <1>2, <2>3, <2>4, <2>5, <2>6, <2>7, <2>8 DEF Having
<1>4. Requesting(p)'
  <2>1. OwnUpTo(p, proc[p].TOKEN, 2 * proc[p].requests)'
    BY <1>1, <1>2 DEF Having, OwnUpTo, Run, Tokens
  <2>. QED
    BY <1>1, <2>1, NoneAssumption DEF Requesting, Requested
<1>5. now.partial = Empty /\ now.parsed = Empty /\ now.end = None
  BY <1>1 DEF Requested
<1>6. CASE now.TOKEN = None
  <2>1. now.todo = <<"refresh_token", "send">>
    BY <1>1, <1>6 DEF Requested
  <2>. QED
    BY <1>3, <1>4, <1>5, <2>1, Stepping
<1>7. CASE now.TOKEN # None
  <2>1. now.todo = <<"send">> /\ now.sent = 0
    BY <1>1, <1>7 DEF Requested
  <2>2. Continuing(p, <<"send">>)'
    BY <1>4, <1>7, <2>1 DEF Continuing
  <2>. QED
    BY <1>3, <1>5, <2>1, <2>2, Stepping
<1>. QED
  BY <1>3, <1>6, <1>7

\* Where a process is that has to update the file (core/config.py update).
LEMMA Writing ==
  ASSUME NEW p \in Procs, proc'[p].end = None, NEW steps \in WriteSteps, NEW rest \in Rests,
         proc'[p].todo = steps \o rest, Continuing(p, rest)'
  PROVE  AtWork(p)'
BY Zenon DEF AtWork, Doing

\* What a program has that looks for a token (web/request.py refresh_token).
LEMMA RefreshHas ==
  ASSUME IInv, Grow, Typed', NEW p \in Procs, RefreshToken(p)
  PROVE  Having(p)' /\ AtWork(p)'
<1> DEFINE now == proc'[p]
           run == proc[p]
<1>1. /\ p \in Busy /\ run.todo = <<"refresh_token", "send">> /\ Requesting(p)
      /\ Same(now, run) /\ now.partial = Empty /\ now.parsed = Empty /\ now.end = None
      /\ now.TOKEN = run.config.token
      /\ \/ /\ run.config.token # None /\ run.sent = 0
            /\ now.KEY = run.KEY /\ now.todo = <<"send">>
         \/ /\ run.config.token = None \/ run.sent > 0
            /\ now.KEY = IF run.KEY # None THEN run.KEY ELSE run.config.key
            /\ now.todo = IF now.KEY = None THEN <<"prompt", "get_token", "send">>
                          ELSE <<"get_token", "send">>
  BY Refreshes
<1>2. run \in Run /\ now \in Run /\ Having(p) /\ p \in Busy /\ run.end = None /\ run.kind # None
  BY <1>1 DEF IInv, HasInv, Typed, Busy, Started
<1>3. /\ now.config = run.config /\ now.kind = run.kind /\ now.mode = run.mode
      /\ now.sent = run.sent /\ now.ran = run.ran /\ now.tokens = run.tokens
      /\ now.requests = run.requests /\ now.lent = run.lent /\ now.persist = run.persist
      /\ now.begun = run.begun /\ now.wrote = run.wrote
  BY <1>1 DEF Same
<1>4. /\ run.config.token # None => run.config.token.by # p
      /\ run.config.token # None => run.config.token.of = "user"
      /\ run.config.key # None => run.config.key.of = "user" /\ Issued(run.config.key)
  BY <1>2 DEF Having, Mine
<1>5. Having(p)'
  <2>1. PICK conf \in Content : conf = run.config /\ Mine(conf)
    BY <1>2 DEF Having, Run
  <2>2. Mine(conf)'
    BY <2>1, MineKept DEF IInv
  <2>3. Mine(proc[p].config)'
    BY <1>3, <2>1, <2>2 DEF Mine, Issued
  <2>4. Mine(proc[p].partial)' /\ Mine(proc[p].parsed)'
    BY <1>1 DEF Mine, Empty
  <2>5. Issued(proc[p].KEY)' /\ (now.KEY # None /\ now.KEY.of = "other" => now.lent)
    <3>1. run.KEY \in Keys \cup {None} /\ Issued(run.KEY)
      BY <1>2, <1>3 DEF Having, Run
    <3>2. run.KEY # None /\ run.KEY.of = "user" => run.KEY.n \in 1..key'
      BY <3>1, IssuedStays DEF IInv
    <3>3. run.config.key # None => run.config.key.of = "user" /\ run.config.key.n \in 1..key'
      BY <1>3, <2>3 DEF Mine, Issued
    <3>4. now.KEY = run.KEY \/ now.KEY = run.config.key
      BY <1>1
    <3>5. run.KEY # None /\ run.KEY.of = "other" => now.lent
      BY <1>2, <1>3 DEF Having
    <3>. QED
      BY <3>2, <3>3, <3>4, <3>5 DEF Issued
  <2>6. OwnUpTo(p, proc[p].TOKEN, 2 * proc[p].requests + 1)'
    BY <1>1, <1>4 DEF OwnUpTo
  <2>7. now.begun <= key' /\ now.wrote <= key'
    BY <1>2, <1>3 DEF Having, Grow, Run, IInv, Typed
  <2>. QED
    BY <1>1, <1>2, <1>3, <1>4, <2>3, <2>4, <2>5, <2>6, <2>7 DEF Having
<1>6. Requesting(p)'
  <2>1. OwnUpTo(p, now.TOKEN, 2 * now.requests)
    BY <1>1, <1>4 DEF OwnUpTo
  <2>2. run.mode = "token" => run.sent = 1
    BY <1>1 DEF Requesting
  <2>3. run.mode = "auth" /\ run.config.token = None => now.KEY = OtherKey /\ now.TOKEN = None
    BY <1>1, EmptyTyped DEF Requesting
  <2>. QED
    BY <1>1, <1>3, <2>1, <2>2, <2>3 DEF Requesting, OwnUpTo, Grow
<1>7. CASE now.todo = <<"send">> /\ run.sent = 0 /\ run.config.token # None
  <2>1. Continuing(p, <<"send">>)'
    BY <1>1, <1>3, <1>6, <1>7 DEF Continuing
  <2>. QED
    BY <1>1, <1>5, <1>7, <2>1, Stepping
<1>8. CASE now.todo = <<"get_token", "send">> /\ now.KEY # None
  <2>1. Continuing(p, <<"get_token", "send">>)'
    BY <1>6, <1>8 DEF Continuing
  <2>. QED
    BY <1>1, <1>5, <1>8, <2>1, Stepping
<1>9. CASE now.todo = <<"prompt", "get_token", "send">> /\ now.KEY = None
  BY <1>1, <1>5, <1>6, <1>9, Stepping
<1>. QED
  BY <1>1, <1>7, <1>8, <1>9

\* What a program has that got a token, or was refused (web/request.py refresh_token).
LEMMA GetHas ==
  ASSUME IInv, Grow, Typed', NEW p \in Procs, GetToken(p)
  PROVE  Having(p)' /\ AtWork(p)'
<1> DEFINE now == proc'[p]
           run == proc[p]
           new == Token(run.KEY.of, p, 2 * run.requests + run.sent)
<1>1. /\ p \in Busy /\ run.todo # <<"send">> /\ Requesting(p) /\ run.KEY # None
      /\ Same(now, run) /\ now.parsed = Empty
      /\ \/ /\ now.todo = <<>> /\ now.end = "refused" /\ now.partial = Empty
            /\ now.KEY \in {run.KEY, None} /\ now.TOKEN \in {run.TOKEN, None}
            /\ run.mode = "token" => now.TOKEN = None
         \/ /\ now.KEY = run.KEY /\ now.TOKEN = new /\ new \in Tokens /\ now.end = None
            /\ \/ /\ run.persist /\ now.partial = [key |-> None, token |-> new]
                  /\ now.todo = UpdateConfig \o <<"send">>
               \/ ~run.persist /\ now.partial = Empty /\ now.todo = <<"send">>
  BY GetsToken
<1>2. /\ run \in Run /\ now \in Run /\ Having(p) /\ p \in Busy /\ run.end = None /\ run.kind # None
      /\ run.KEY \in Keys /\ p # None
  BY <1>1, NoneAssumption DEF IInv, HasInv, Typed, Busy, Started, Run
<1>3. /\ now.config = run.config /\ now.kind = run.kind /\ now.mode = run.mode
      /\ now.sent = run.sent /\ now.ran = run.ran /\ now.tokens = run.tokens
      /\ now.requests = run.requests /\ now.lent = run.lent /\ now.persist = run.persist
      /\ now.begun = run.begun /\ now.wrote = run.wrote
  BY <1>1 DEF Same
<1>4. new.of = run.KEY.of /\ new.by = p /\ new.n = 2 * run.requests + run.sent
  BY DEF Token
<1>5. run.sent \in 0..1 /\ run.ran = 0 /\ run.requests \in Nat
  BY <1>1, <1>2 DEF Requesting, Run
<1> HIDE DEF new
<1>6. Having(p)'
  <2>1. PICK conf \in Content : conf = run.config /\ Mine(conf)
    BY <1>2 DEF Having, Run
  <2>2. Mine(conf)'
    BY <2>1, MineKept DEF IInv
  <2>3. Mine(proc[p].config)'
    BY <1>3, <2>1, <2>2 DEF Mine, Issued
  <2>4. Mine(proc[p].parsed)'
    BY <1>1 DEF Mine, Empty
  <2>5. Issued(proc[p].KEY)' /\ (now.KEY # None /\ now.KEY.of = "other" => now.lent)
    <3>1. run.KEY \in Keys \cup {None} /\ Issued(run.KEY)
      BY <1>2, <1>3 DEF Having, Run
    <3>2. run.KEY # None /\ run.KEY.of = "user" => run.KEY.n \in 1..key'
      BY <3>1, IssuedStays DEF IInv
    <3>. QED
      BY <1>1, <1>2, <1>3, <3>2 DEF Having, Issued
  <2>6. OwnUpTo(p, proc[p].TOKEN, 2 * proc[p].requests + 1)'
    BY <1>1, <1>2, <1>3, <1>4, <1>5 DEF OwnUpTo, Having
  <2>7. now.begun <= key' /\ now.wrote <= key'
    BY <1>2, <1>3 DEF Having, Grow, Run, IInv, Typed
  <2>8. now.TOKEN # None /\ now.TOKEN.of = "other" => now.lent
    BY <1>1, <1>2, <1>3, <1>4 DEF Having
  <2>9. Mine(proc[p].partial)'
    <3>1. CASE now.partial = Empty
      BY <3>1 DEF Mine, Empty
    <3>2. CASE run.persist /\ now.partial = [key |-> None, token |-> new]
      <4>1. run.KEY.of = "user"
        <5>1. run.kind = "api" /\ ~run.lent
          BY <1>2, <3>2 DEF Having
        <5>2. run.KEY.of # "other" /\ run.KEY.of \in Owner
          BY <1>1, <1>2, <5>1 DEF Having, Keys
        <5>. QED
          BY <5>2 DEF Owner
      <4>2. now.partial.key = None /\ now.partial.token = new
        BY <3>2
      <4>. QED
        BY <1>2, <1>3, <1>4, <4>1, <4>2 DEF Mine
    <3>. QED
      BY <1>1, <3>1, <3>2
  <2>. QED
    BY <1>2, <1>3, <2>3, <2>4, <2>5, <2>6, <2>7, <2>8, <2>9 DEF Having
<1>7. CASE now.end = "refused"
  <2>1. Done(p)'
    <3>1. run.tokens = <<>> \/ run.tokens = <<run.tokens[1]>>
      BY <1>1 DEF Requesting
    <3>2. Len(run.tokens) # 2
      BY <3>1
    <3>3. now.end # None /\ now.todo = <<>> /\ now.partial = Empty
      BY <1>1, <1>7, NoneAssumption
    <3>. QED
      BY <1>1, <1>3, <1>5, <1>7, <3>2, <3>3 DEF Done
  <2>. QED
    BY <1>6, <1>7, <2>1, NoneAssumption DEF AtWork
<1>8. CASE now.end # "refused"
  <2>1. /\ now.KEY = run.KEY /\ now.TOKEN = new /\ new \in Tokens /\ now.end = None /\ now.TOKEN # None
        /\ \/ run.persist /\ now.todo = UpdateConfig \o <<"send">>
           \/ ~run.persist /\ now.partial = Empty /\ now.todo = <<"send">>
    BY <1>1, <1>8, NoneAssumption DEF Tokens, Owner
  <2>2. Requesting(p)'
    <3>1. run.sent = 0 => OwnUpTo(p, now.TOKEN, 2 * now.requests)
      BY <1>3, <1>4, <1>5, <2>1 DEF OwnUpTo
    <3>2. run.mode = "token" => run.sent = 1
      BY <1>1 DEF Requesting
    <3>3. run.mode = "auth" /\ run.config.token = None => now.KEY = OtherKey /\ now.TOKEN.of = "other"
      BY <1>1, <1>4, <2>1 DEF Requesting, OtherKey, Key
    <3>. QED
      BY <1>1, <1>3, <3>1, <3>2, <3>3 DEF Requesting, OwnUpTo, Grow
  <2>3. Continuing(p, <<"send">>)'
    BY <1>3, <1>4, <2>1, <2>2 DEF Continuing
  <2>4. CASE run.persist
    <3>1. now.todo = UpdateConfig \o <<"send">> /\ UpdateConfig \in WriteSteps /\ <<"send">> \in Rests
      BY <2>1, <2>4 DEF WriteSteps, Rests
    <3>2. AtWork(p)'
      BY <2>1, <2>3, <3>1, Writing
    <3>. QED
      BY <1>6, <3>2
  <2>5. CASE ~run.persist
    BY <1>1, <1>6, <2>1, <2>3, <2>5, Stepping
  <2>. QED
    BY <2>4, <2>5
<1>. QED
  BY <1>7, <1>8

\* What a process has for which a key was pasted (web/request.py login).
LEMMA PromptHas ==
  ASSUME IInv, Grow, Typed', NEW p \in Procs, Prompt(p)
  PROVE  Having(p)' /\ AtWork(p)'
<1> DEFINE now == proc'[p]
           run == proc[p]
<1>1. /\ p \in Busy /\ Same(now, run) /\ now.TOKEN = run.TOKEN /\ now.parsed = Empty /\ now.end = None
      /\ now.KEY = Key("user", key') /\ now.KEY \in Keys
      /\ now.partial = [key |-> now.KEY, token |-> None]
      /\ key' = key + 1 /\ key' \in 1..MaxKey
  BY Prompts
<1>2. PICK rest \in Rests :
        /\ now.todo = UpdateConfig \o rest
        /\ \/ rest = <<>> /\ LoggingIn(p)
           \/ rest = <<"get_token", "send">> /\ Requesting(p) /\ run.KEY = None
  BY Prompts
<1>3. run \in Run /\ now \in Run /\ Having(p) /\ p \in Busy /\ run.end = None /\ run.kind # None
  BY <1>1 DEF IInv, HasInv, Typed, Busy, Started
<1>4. /\ now.config = run.config /\ now.kind = run.kind /\ now.mode = run.mode
      /\ now.sent = run.sent /\ now.ran = run.ran /\ now.tokens = run.tokens
      /\ now.requests = run.requests /\ now.lent = run.lent /\ now.persist = run.persist
      /\ now.begun = run.begun /\ now.wrote = run.wrote
  BY <1>1 DEF Same
<1>5. now.KEY # None /\ now.KEY.of = "user" /\ now.KEY.n = key' /\ key' >= 1
  BY <1>1, NoneAssumption DEF Key, Keys, Owner
<1>6. Having(p)'
  <2>1. PICK conf \in Content : conf = run.config /\ Mine(conf)
    BY <1>3 DEF Having, Run
  <2>2. Mine(conf)'
    BY <2>1, MineKept DEF IInv
  <2>3. Mine(proc[p].config)'
    BY <1>4, <2>1, <2>2 DEF Mine, Issued
  <2>4. Mine(proc[p].parsed)'
    BY <1>1 DEF Mine, Empty
  <2>5. Issued(proc[p].KEY)'
    BY <1>1, <1>5 DEF Issued
  <2>6. OwnUpTo(p, proc[p].TOKEN, 2 * proc[p].requests + 1)'
    BY <1>1, <1>3, <1>4 DEF OwnUpTo, Having
  <2>7. now.begun <= key' /\ now.wrote <= key'
    BY <1>3, <1>4 DEF Having, Grow, Run, IInv, Typed
  <2>8. now.TOKEN # None /\ now.TOKEN.of = "other" => now.lent \/ (now.mode = "token" /\ now.end = None)
    BY <1>1, <1>3, <1>4 DEF Having
  <2>9. Mine(proc[p].partial)'
    <3>1. now.partial.key = now.KEY /\ now.partial.token = None
      BY <1>1
    <3>. QED
      BY <1>1, <1>5, <3>1 DEF Mine, Issued
  <2>. QED
    BY <1>3, <1>4, <1>5, <2>3, <2>4, <2>5, <2>6, <2>7, <2>8, <2>9 DEF Having
<1>7. Continuing(p, rest)'
  <2>1. CASE rest = <<>> /\ LoggingIn(p)
    BY <1>4, <2>1 DEF Continuing, LoggingIn
  <2>2. CASE rest = <<"get_token", "send">> /\ Requesting(p) /\ run.KEY = None
    <3>1. Requesting(p)'
      <4>1. ~(run.mode = "auth" /\ run.config.token = None)
        BY <2>2, EmptyTyped DEF Requesting
      <4>2. run.mode = "token" => run.sent = 1
        <5>1. run.todo # <<"send">>
          <6>1. Head(run.todo) = "prompt"
            BY DEF Prompt, At
          <6>. QED
            BY <6>1
        <5>. QED
          BY <2>2, <5>1 DEF Requesting
      <4>. QED
        BY <1>1, <1>4, <2>2, <4>1, <4>2 DEF Requesting, OwnUpTo, Grow
    <3>. QED
      BY <1>5, <2>2, <3>1 DEF Continuing
  <2>. QED
    BY <1>2, <2>1, <2>2
<1>8. AtWork(p)'
  <2>1. UpdateConfig \in WriteSteps
    BY DEF WriteSteps
  <2>. QED
    BY <1>1, <1>2, <1>7, <2>1, Writing
<1>. QED
  BY <1>6, <1>8

\* The tokens a request was sent with (web/request.py request).
LEMMA Appends ==
  ASSUME NEW t \in Tokens
  PROVE  Append(<<>>, t) = <<t>> /\ \A s \in Tokens : Append(<<s>>, t) = <<s, t>>
<1>1. Append(<<>>, t) = <<t>>
  OBVIOUS
<1>2. ASSUME NEW s \in Tokens PROVE Append(<<s>>, t) = <<s, t>>
  <2>1. <<s>> \in Seq(Tokens) /\ Len(<<s>>) = 1 /\ <<s>>[1] = s
    OBVIOUS
  <2>2. /\ Append(<<s>>, t) \in Seq(Tokens) /\ Len(Append(<<s>>, t)) = 2
        /\ Append(<<s>>, t)[1] = s /\ Append(<<s>>, t)[2] = t
    BY <2>1, AppendProperties
  <2>3. /\ <<s, t>> \in Seq(Tokens) /\ Len(<<s, t>>) = 2
        /\ <<s, t>>[1] = s /\ <<s, t>>[2] = t
    OBVIOUS
  <2>4. \A i \in 1..2 : Append(<<s>>, t)[i] = <<s, t>>[i]
    BY <2>2, <2>3
  <2>. QED
    BY <2>2, <2>3, <2>4, SeqEqual
<1>. QED
  BY <1>1, <1>2

\* What a program has whose request was answered (web/request.py authenticated).
LEMMA SendHas ==
  ASSUME IInv, Grow, Typed', NEW p \in Procs, Send(p)
  PROVE  Having(p)' /\ AtWork(p)'
<1> DEFINE now == proc'[p]
           run == proc[p]
<1>1. /\ p \in Busy /\ Requesting(p) /\ run.TOKEN \in Tokens /\ run.sent \in 0..1
      /\ run.todo = <<"send">>
      /\ run.sent = 1 => run.TOKEN.by = p /\ run.TOKEN.n = 2 * run.requests + 1
      /\ Lasting(now, run) /\ now.wrote = run.wrote
      /\ now.partial = Empty /\ now.parsed = Empty
      /\ now.KEY \in {run.KEY, None} /\ now.TOKEN \in {run.TOKEN, None}
      /\ \/ /\ run.sent = 0 /\ run.TOKEN \in expired /\ now.end = None
            /\ now.sent = 1 /\ now.tokens = <<run.TOKEN>> /\ now.ran = 0
            /\ now.TOKEN = run.TOKEN /\ now.KEY = run.KEY
            /\ now.todo = <<"refresh_token", "send">>
         \/ /\ now.todo = <<>> /\ (run.mode = "token" => now.TOKEN = None)
            /\ now.sent = run.sent + 1 /\ now.tokens = Append(run.tokens, run.TOKEN)
            /\ \/ run.sent = 1 /\ now.ran = 0 /\ now.end = "expired"
               \/ /\ run.TOKEN \notin expired /\ now.ran = 1 /\ now.end = "done"
                  /\ now.as = run.TOKEN.of /\ now.whole = (run.sent = 0)
  BY Sends
<1>2. run \in Run /\ now \in Run /\ Having(p) /\ p \in Busy /\ run.end = None /\ run.kind # None
  BY <1>1 DEF IInv, HasInv, Typed, Busy, Started
<1>3. /\ now.config = run.config /\ now.kind = run.kind /\ now.mode = run.mode
      /\ now.requests = run.requests /\ now.lent = run.lent /\ now.persist = run.persist
      /\ now.begun = run.begun /\ now.wrote = run.wrote
  BY <1>1 DEF Lasting
<1>4. run.TOKEN # None
  BY <1>1, NoneAssumption DEF Tokens, Owner
<1>5. Having(p)'
  <2>1. PICK conf \in Content : conf = run.config /\ Mine(conf)
    BY <1>2 DEF Having, Run
  <2>2. Mine(conf)'
    BY <2>1, MineKept DEF IInv
  <2>3. Mine(proc[p].config)'
    BY <1>3, <2>1, <2>2 DEF Mine, Issued
  <2>4. Mine(proc[p].partial)' /\ Mine(proc[p].parsed)'
    BY <1>1 DEF Mine, Empty
  <2>5. Issued(proc[p].KEY)' /\ (now.KEY # None /\ now.KEY.of = "other" => now.lent)
    <3>1. run.KEY \in Keys \cup {None} /\ Issued(run.KEY)
      BY <1>2, <1>3 DEF Having, Run
    <3>2. run.KEY # None /\ run.KEY.of = "user" => run.KEY.n \in 1..key'
      BY <3>1, IssuedStays DEF IInv
    <3>. QED
      BY <1>1, <1>2, <1>3, <3>2 DEF Having, Issued
  <2>6. OwnUpTo(p, proc[p].TOKEN, 2 * proc[p].requests + 1)'
    BY <1>1, <1>2, <1>3 DEF OwnUpTo, Having
  <2>7. now.begun <= key' /\ now.wrote <= key'
    BY <1>2, <1>3 DEF Having, Grow, Run, IInv, Typed
  <2>8. now.TOKEN # None /\ now.TOKEN.of = "other" => now.lent \/ (now.mode = "token" /\ now.end = None)
    BY <1>1, <1>2, <1>3 DEF Having
  <2>. QED
    BY <1>2, <1>3, <2>3, <2>4, <2>5, <2>6, <2>7, <2>8 DEF Having
<1>6. CASE now.todo = <<"refresh_token", "send">>
  <2>1. /\ run.sent = 0 /\ run.TOKEN \in expired /\ now.end = None
        /\ now.sent = 1 /\ now.tokens = <<run.TOKEN>> /\ now.ran = 0
        /\ now.TOKEN = run.TOKEN /\ now.KEY = run.KEY
    BY <1>1, <1>6
  <2>2. now.tokens[1] = run.TOKEN /\ now.tokens = <<now.tokens[1]>>
    BY <2>1
  <2>3. OwnUpTo(p, now.tokens[1], 2 * now.requests)
    BY <1>1, <1>3, <2>1, <2>2 DEF Requesting
  <2>4. run.mode = "token" => now.tokens[1] = Given /\ Given \in expired'
    BY <1>1, <2>1, <2>2 DEF Requesting, Grow
  <2>5. Requesting(p)'
    BY <1>1, <1>3, <2>1, <2>2, <2>3, <2>4 DEF Requesting, OwnUpTo
  <2>. QED
    BY <1>1, <1>5, <1>6, <2>1, <2>5, Stepping
<1>7. CASE now.todo = <<>>
  <2>1. /\ run.mode = "token" => now.TOKEN = None
        /\ now.sent = run.sent + 1 /\ now.tokens = Append(run.tokens, run.TOKEN)
        /\ \/ run.sent = 1 /\ now.ran = 0 /\ now.end = "expired"
           \/ /\ run.TOKEN \notin expired /\ now.ran = 1 /\ now.end = "done"
              /\ now.as = run.TOKEN.of /\ now.whole = (run.sent = 0)
    BY <1>1, <1>7
  <2>2. run.sent = 0 => now.tokens = <<run.TOKEN>>
    <3>1. run.sent = 0 => run.tokens = <<>>
      BY <1>1 DEF Requesting
    <3>. QED
      BY <1>1, <2>1, <3>1, Appends
  <2>3. run.sent = 1 => now.tokens = <<run.tokens[1], run.TOKEN>>
    <3>1. run.sent = 1 => run.tokens = <<run.tokens[1]>> /\ run.tokens[1] \in Tokens
      <4>1. run.sent = 1 => run.tokens = <<run.tokens[1]>>
        BY <1>1 DEF Requesting
      <4>2. run.tokens \in Seq(Tokens)
        BY <1>2 DEF Run
      <4>3. run.sent = 1 => Len(run.tokens) = 1
        BY <4>1
      <4>. QED
        BY <4>1, <4>2, <4>3
    <3>. QED
      BY <1>1, <2>1, <3>1, Appends
  <2>4. Len(now.tokens) = 2 => now.tokens[2].by = p /\ now.tokens[2] # now.tokens[1]
    <3>1. CASE run.sent = 0
      BY <2>2, <3>1
    <3>2. CASE run.sent = 1
      <4>1. run.tokens \in Seq(Tokens) /\ run.tokens = <<run.tokens[1]>> /\ run.requests \in Nat
        BY <1>1, <1>2, <3>2 DEF Requesting, Run
      <4>2. run.tokens[1] \in Tokens
        BY <4>1
      <4>3. run.tokens[1] # None
        BY <4>2, NoneAssumption DEF Tokens, Owner
      <4>4. run.tokens[1].by = p => run.tokens[1].n <= 2 * run.requests
        BY <1>1, <3>2, <4>3 DEF Requesting, OwnUpTo
      <4>5. run.TOKEN # run.tokens[1]
        <5>1. run.TOKEN.by = p /\ run.TOKEN.n = 2 * run.requests + 1
          BY <1>1, <3>2
        <5>2. ~(2 * run.requests + 1 <= 2 * run.requests)
          BY <4>1
        <5>. QED
          BY <4>4, <5>1, <5>2, Zenon
      <4>6. now.tokens[1] = run.tokens[1] /\ now.tokens[2] = run.TOKEN
        BY <2>3, <3>2
      <4>. QED
        BY <1>1, <3>2, <4>5, <4>6
    <3>. QED
      BY <1>1, <3>1, <3>2
  <2>5. now.ran = 1 =>
          /\ now.whole = (now.sent = 1)
          /\ now.as = "other" => now.mode = "token" \/ now.lent
          /\ now.as = "user" /\ now.mode = "token" => now.tokens[1] = Given /\ Given \in expired'
          /\ now.as = "user" /\ now.mode = "auth" => now.config.token # None
    <3>1. SUFFICES ASSUME now.ran = 1 PROVE
            /\ now.whole = (now.sent = 1)
            /\ now.as = "other" => now.mode = "token" \/ now.lent
            /\ now.as = "user" /\ now.mode = "token" => now.tokens[1] = Given /\ Given \in expired'
            /\ now.as = "user" /\ now.mode = "auth" => now.config.token # None
      OBVIOUS
    <3>2. now.as = run.TOKEN.of /\ now.whole = (run.sent = 0) /\ now.sent = run.sent + 1
      BY <2>1, <3>1
    <3>3. now.whole = (now.sent = 1)
      BY <1>1, <3>2
    <3>4. now.as = "other" => now.mode = "token" \/ now.lent
      BY <1>2, <1>3, <1>4, <3>2 DEF Having
    <3>5. now.as = "user" /\ now.mode = "token" => now.tokens[1] = Given /\ Given \in expired'
      <4>1. Given.of = "other"
        BY DEF Given, Token
      <4>2. run.sent = 1 => now.tokens[1] = run.tokens[1]
        BY <2>3
      <4>. QED
        BY <1>1, <1>3, <3>2, <4>1, <4>2 DEF Requesting, Grow
    <3>6. now.as = "user" /\ now.mode = "auth" => now.config.token # None
      BY <1>1, <1>3, <1>4, <3>2 DEF Requesting
    <3>. QED
      BY <3>3, <3>4, <3>5, <3>6
  <2>6. /\ now.end # None /\ now.partial = Empty /\ now.parsed = Empty
        /\ now.mode = "token" => now.TOKEN = None
        /\ now.kind # "login" /\ now.end = "done" => now.ran = 1
    BY <1>1, <1>3, <2>1, NoneAssumption
  <2>7. Done(p)'
    BY <1>7, <2>4, <2>5, <2>6 DEF Done
  <2>. QED
    BY <1>5, <2>6, <2>7 DEF AtWork
<1>. QED
  BY <1>1, <1>6, <1>7

\* A process that is busy runs no second request (web/request.py authenticated).
LEMMA NotRun ==
  ASSUME IInv, NEW p \in Procs, p \in Busy
  PROVE  /\ proc[p].ran = 0 /\ Len(proc[p].tokens) \in 0..1
         /\ proc[p] \in Run /\ Having(p) /\ proc[p].end = None /\ proc[p].kind # None
<1>1. /\ Doing(p) /\ proc[p] \in Run /\ Having(p) /\ proc[p].end = None /\ proc[p].kind # None
  BY DEF IInv, HasInv, Typed, LocalInv, AtWork, Busy, Started
<1>2. LoggingIn(p) \/ Requesting(p)
  BY <1>1, Zenon DEF Doing, Continuing
<1>3. proc[p].ran = 0 /\ (proc[p].tokens = <<>> \/ proc[p].tokens = <<proc[p].tokens[1]>>)
  BY <1>2 DEF LoggingIn, Requesting
<1>4. Len(proc[p].tokens) \in 0..1
  <2>1. CASE proc[p].tokens = <<>>
    BY <2>1
  <2>2. CASE proc[p].tokens = <<proc[p].tokens[1]>>
    <3>1. PICK t : t = proc[p].tokens[1]
      OBVIOUS
    <3>2. proc[p].tokens = <<t>>
      BY <2>2, <3>1, Zenon
    <3>. QED
      BY <3>2
  <2>. QED
    BY <1>3, <2>1, <2>2
<1>. QED
  BY <1>1, <1>3, <1>4

\* What is left for a process to do does not depend on its update
\* (core/config.py update).
LEMMA ContinuingKept ==
  ASSUME Grow, NEW p \in Procs, NEW rest \in Rests, Continuing(p, rest),
         Lasting(proc'[p], proc[p]), proc'[p].sent = proc[p].sent,
         proc'[p].tokens = proc[p].tokens, proc'[p].ran = proc[p].ran,
         proc'[p].KEY = proc[p].KEY, proc'[p].TOKEN = proc[p].TOKEN,
         rest # <<>> => proc[p].todo # <<"send">>
  PROVE  Continuing(p, rest)'
<1>1. LoggingIn(p) => LoggingIn(p)'
  BY DEF LoggingIn, Lasting
<1>2. rest # <<>> /\ Requesting(p) => Requesting(p)'
  BY DEF Requesting, Lasting, Grow, OwnUpTo
<1>3. CASE rest = <<>> /\ LoggingIn(p)
  BY <1>1, <1>3 DEF Continuing
<1>4. CASE rest = <<"get_token", "send">> /\ Requesting(p) /\ proc[p].KEY # None
  BY <1>2, <1>4 DEF Continuing
<1>5. CASE /\ rest = <<"send">> /\ Requesting(p) /\ proc[p].TOKEN # None
           /\ proc[p].sent = 1 => proc[p].TOKEN.by = p /\ proc[p].TOKEN.n = 2 * proc[p].requests + 1
  BY <1>2, <1>5 DEF Continuing, Lasting
<1>. QED
  BY <1>3, <1>4, <1>5 DEF Continuing

\* What a process has at a step of its update (core/config.py update).
LEMMA UpdateHas ==
  ASSUME IInv, Grow, Typed', NEW p \in Procs, Backup(p) \/ Read(p) \/ Open(p)
  PROVE  Having(p)' /\ AtWork(p)'
<1> DEFINE now == proc'[p]
           run == proc[p]
<1>1. /\ p \in Busy /\ Alike(now, run) /\ (now.parsed = run.parsed \/ now.parsed = config)
      /\ \E steps \in WriteSteps, rest \in Rests : Continuing(p, rest) /\ now.todo = steps \o rest
  BY BacksUp, Reads, Opens DEF WriteSteps
<1>2. /\ run \in Run /\ now \in Run /\ Having(p) /\ run.end = None /\ run.kind # None
      /\ config \in Content /\ Mine(config)
  BY <1>1, NotRun DEF IInv, Typed, HasInv
<1>3. /\ now.config = run.config /\ now.kind = run.kind /\ now.mode = run.mode
      /\ now.sent = run.sent /\ now.ran = run.ran /\ now.tokens = run.tokens
      /\ now.requests = run.requests /\ now.lent = run.lent /\ now.persist = run.persist
      /\ now.begun = run.begun /\ now.wrote = run.wrote /\ now.end = None
      /\ now.KEY = run.KEY /\ now.TOKEN = run.TOKEN /\ now.partial = run.partial
  BY <1>1, <1>2 DEF Alike, Lasting
<1>4. Having(p)'
  <2>1. PICK conf \in Content, part \in Content, pars \in Content :
          /\ conf = run.config /\ part = run.partial /\ pars = now.parsed
          /\ Mine(conf) /\ Mine(part) /\ Mine(pars)
    BY <1>1, <1>2 DEF Having, Run
  <2>2. Mine(conf)' /\ Mine(part)' /\ Mine(pars)'
    BY <2>1, MineKept DEF IInv
  <2>3. Mine(proc[p].config)' /\ Mine(proc[p].partial)' /\ Mine(proc[p].parsed)'
    BY <1>3, <2>1, <2>2 DEF Mine, Issued
  <2>4. Issued(proc[p].KEY)'
    <3>1. run.KEY \in Keys \cup {None} /\ Issued(run.KEY)
      BY <1>2, <1>3 DEF Having, Run
    <3>2. run.KEY # None /\ run.KEY.of = "user" => run.KEY.n \in 1..key'
      BY <3>1, IssuedStays DEF IInv
    <3>. QED
      BY <1>2, <1>3, <3>2 DEF Having, Issued
  <2>5. OwnUpTo(p, proc[p].TOKEN, 2 * proc[p].requests + 1)'
    BY <1>2, <1>3 DEF OwnUpTo, Having
  <2>6. now.begun <= key' /\ now.wrote <= key'
    BY <1>2, <1>3 DEF Having, Grow, Run, IInv, Typed
  <2>7. /\ now.TOKEN # None /\ now.TOKEN.of = "other" => now.lent \/ (now.mode = "token" /\ now.end = None)
        /\ now.KEY # None /\ now.KEY.of = "other" => now.lent
        /\ now.config.token # None => now.config.token.by # p
        /\ now.persist <=> now.kind = "api"
        /\ now.kind = "api" => ~now.lent
    BY <1>2, <1>3 DEF Having
  <2>. QED
    BY <1>2, <1>3, <2>3, <2>4, <2>5, <2>6, <2>7 DEF Having
<1>5. AtWork(p)'
  <2>1. PICK steps \in WriteSteps, rest \in Rests : Continuing(p, rest) /\ now.todo = steps \o rest
    BY <1>1
  <2>2. run.todo # <<"send">>
    <3>1. Head(run.todo) \in {"backup", "read", "open"}
      BY DEF Backup, Read, Open, At
    <3>. QED
      BY <3>1
  <2>3. Continuing(p, rest)'
    BY <1>1, <1>3, <2>1, <2>2, ContinuingKept DEF Alike
  <2>. QED
    BY <1>3, <2>1, <2>3, Writing
<1>. QED
  BY <1>4, <1>5

\* What a process has that has updated the file (core/config.py update).
LEMMA WriteHas ==
  ASSUME IInv, Grow, Typed', NEW p \in Procs, Write(p)
  PROVE  Having(p)' /\ AtWork(p)'
<1> DEFINE now == proc'[p]
           run == proc[p]
<1>1. /\ p \in Busy /\ Head(run.todo) = "write"
      /\ Lasting(now, run) /\ now.sent = run.sent /\ now.tokens = run.tokens /\ now.ran = run.ran
      /\ now.partial = Empty /\ now.parsed = Empty
      /\ now.wrote = (IF run.partial.key = None THEN run.wrote ELSE run.partial.key.n)
  BY Writes
<1>2. PICK rest \in Rests :
        /\ Continuing(p, rest) /\ now.todo = rest
        /\ \/ /\ rest = <<>> /\ now.end = "done"
              /\ now.KEY \in {run.KEY, None} /\ now.TOKEN \in {run.TOKEN, None}
              /\ run.mode = "token" => now.TOKEN = None
           \/ rest # <<>> /\ now.end = None /\ now.KEY = run.KEY /\ now.TOKEN = run.TOKEN
  BY Writes
<1>3. /\ run \in Run /\ now \in Run /\ Having(p) /\ run.end = None /\ run.kind # None
      /\ run.ran = 0 /\ Len(run.tokens) \in 0..1
  BY <1>1, NotRun DEF Typed
<1>4. /\ now.config = run.config /\ now.kind = run.kind /\ now.mode = run.mode
      /\ now.requests = run.requests /\ now.lent = run.lent /\ now.persist = run.persist
      /\ now.begun = run.begun
  BY <1>1 DEF Lasting
<1>5. Having(p)'
  <2>1. PICK conf \in Content : conf = run.config /\ Mine(conf)
    BY <1>3 DEF Having, Run
  <2>2. Mine(conf)'
    BY <2>1, MineKept DEF IInv
  <2>3. Mine(proc[p].config)'
    BY <1>4, <2>1, <2>2 DEF Mine, Issued
  <2>4. Mine(proc[p].partial)' /\ Mine(proc[p].parsed)'
    BY <1>1 DEF Mine, Empty
  <2>5. Issued(proc[p].KEY)'
    <3>1. run.KEY \in Keys \cup {None} /\ Issued(run.KEY)
      BY <1>2, <1>3 DEF Having, Run
    <3>2. run.KEY # None /\ run.KEY.of = "user" => run.KEY.n \in 1..key'
      BY <3>1, IssuedStays DEF IInv
    <3>. QED
      BY <1>2, <1>3, <3>2 DEF Having, Issued
  <2>6. OwnUpTo(p, proc[p].TOKEN, 2 * proc[p].requests + 1)'
    BY <1>2, <1>3, <1>4 DEF OwnUpTo, Having
  <2>7. now.begun <= key' /\ now.wrote <= key'
    <3>1. run.wrote <= key /\ run.begun <= key /\ (run.partial.key # None => run.partial.key.n \in 1..key)
      BY <1>3 DEF Having, Mine, Issued
    <3>. QED
      BY <1>1, <1>3, <1>4, <3>1 DEF Grow, Run, IInv, Typed
  <2>8. /\ now.TOKEN # None /\ now.TOKEN.of = "other" => now.lent \/ (now.mode = "token" /\ now.end = None)
        /\ now.KEY # None /\ now.KEY.of = "other" => now.lent
        /\ now.config.token # None => now.config.token.by # p
        /\ now.persist <=> now.kind = "api"
        /\ now.kind = "api" => ~now.lent
    BY <1>2, <1>3, <1>4 DEF Having
  <2>. QED
    BY <1>3, <1>4, <2>3, <2>4, <2>5, <2>6, <2>7, <2>8 DEF Having
<1>6. CASE rest = <<>>
  <2>1. now.kind = "login"
    BY <1>2, <1>4, <1>6 DEF Continuing, LoggingIn
  <2>2. now.end # None /\ now.ran # 1 /\ Len(now.tokens) # 2 /\ (now.mode = "token" => now.TOKEN = None)
    <3>1. now.end = "done" /\ now.ran = 0 /\ (run.mode = "token" => now.TOKEN = None)
      BY <1>1, <1>2, <1>3, <1>6
    <3>2. now.tokens = run.tokens /\ now.mode = run.mode
      BY <1>1, <1>4
    <3>3. "done" # None
      BY NoneAssumption
    <3>4. Len(now.tokens) # 2
      <4>1. Len(run.tokens) # 2
        <5>1. Len(run.tokens) \in 0..1
          BY <1>3, Zenon
        <5>2. \A n \in 0..1 : n # 2
          OBVIOUS
        <5>. QED
          BY <5>1, <5>2, Zenon
      <4>. QED
        BY <3>2, <4>1, Zenon
    <3>. QED
      BY <3>1, <3>2, <3>3, <3>4
  <2>3. Done(p)'
    BY <1>1, <1>2, <1>6, <2>1, <2>2 DEF Done
  <2>. QED
    BY <1>5, <2>2, <2>3 DEF AtWork
<1>7. CASE rest # <<>>
  <2>1. run.todo # <<"send">> /\ now.end = None /\ now.KEY = run.KEY /\ now.TOKEN = run.TOKEN
    BY <1>1, <1>2, <1>7
  <2>2. Continuing(p, rest)'
    BY <1>1, <1>2, <2>1, ContinuingKept
  <2>3. now.todo = <<"get_token", "send">> \/ now.todo = <<"send">>
    BY <1>2, <1>7 DEF Rests
  <2>4. AtWork(p)'
    BY <1>1, <1>2, <2>1, <2>2, <2>3, Stepping
  <2>. QED
    BY <1>5, <2>4
<1>. QED
  BY <1>6, <1>7

\* What a process leaves that is interrupted (web/request.py use_token).
LEMMA StopHas ==
  ASSUME IInv, Grow, Typed', NEW p \in Procs, Stop(p)
  PROVE  Having(p)' /\ AtWork(p)'
<1> DEFINE now == proc'[p]
           run == proc[p]
<1>1. /\ p \in Busy /\ Same(now, run) /\ now.todo = <<>> /\ now.partial = Empty /\ now.parsed = Empty
      /\ now.end = "stopped" /\ now.KEY \in {run.KEY, None} /\ now.TOKEN \in {run.TOKEN, None}
      /\ run.mode = "token" => now.TOKEN = None
  BY Stops
<1>2. /\ run \in Run /\ now \in Run /\ Having(p) /\ run.end = None /\ run.kind # None
      /\ run.ran = 0 /\ Len(run.tokens) \in 0..1
  BY <1>1, NotRun DEF Typed
<1>3. /\ now.config = run.config /\ now.kind = run.kind /\ now.mode = run.mode
      /\ now.sent = run.sent /\ now.ran = run.ran /\ now.tokens = run.tokens
      /\ now.requests = run.requests /\ now.lent = run.lent /\ now.persist = run.persist
      /\ now.begun = run.begun /\ now.wrote = run.wrote
  BY <1>1 DEF Same
<1>4. Having(p)'
  <2>1. PICK conf \in Content : conf = run.config /\ Mine(conf)
    BY <1>2 DEF Having, Run
  <2>2. Mine(conf)'
    BY <2>1, MineKept DEF IInv
  <2>3. Mine(proc[p].config)'
    BY <1>3, <2>1, <2>2 DEF Mine, Issued
  <2>4. Mine(proc[p].partial)' /\ Mine(proc[p].parsed)'
    BY <1>1 DEF Mine, Empty
  <2>5. Issued(proc[p].KEY)'
    <3>1. run.KEY \in Keys \cup {None} /\ Issued(run.KEY)
      BY <1>2 DEF Having, Run
    <3>2. run.KEY # None /\ run.KEY.of = "user" => run.KEY.n \in 1..key'
      BY <3>1, IssuedStays DEF IInv
    <3>. QED
      BY <1>1, <1>2, <3>2 DEF Having, Issued
  <2>6. OwnUpTo(p, proc[p].TOKEN, 2 * proc[p].requests + 1)'
    BY <1>1, <1>2, <1>3 DEF OwnUpTo, Having
  <2>7. now.begun <= key' /\ now.wrote <= key'
    BY <1>2, <1>3 DEF Having, Grow, Run, IInv, Typed
  <2>8. /\ now.TOKEN # None /\ now.TOKEN.of = "other" => now.lent
        /\ now.KEY # None /\ now.KEY.of = "other" => now.lent
        /\ now.config.token # None => now.config.token.by # p
        /\ now.persist <=> now.kind = "api"
        /\ now.kind = "api" => ~now.lent
    BY <1>1, <1>2, <1>3 DEF Having
  <2>. QED
    BY <1>2, <1>3, <2>3, <2>4, <2>5, <2>6, <2>7, <2>8 DEF Having
<1>5. now.end # None /\ now.ran # 1 /\ Len(now.tokens) # 2 /\ now.end # "done"
  <2>1. now.end = "stopped" /\ now.ran = 0 /\ now.tokens = run.tokens
    BY <1>1, <1>2, <1>3
  <2>2. "stopped" # None
    BY NoneAssumption
  <2>3. Len(run.tokens) # 2
    <3>1. Len(run.tokens) \in 0..1
      BY <1>2, Zenon
    <3>. QED
      BY <3>1
  <2>. QED
    BY <2>1, <2>2, <2>3
<1>6. Done(p)'
  BY <1>1, <1>3, <1>5 DEF Done
<1>. QED
  BY <1>4, <1>5, <1>6 DEF AtWork

\* The file has keys and tokens of the person only, whoever writes it
\* (core/config.py update).
LEMMA MineStep ==
  ASSUME IInv, Grow, Next \/ UNCHANGED vars
  PROVE  Mine(config)'
<1>1. Mine(config) /\ config \in Content /\ Typed
  BY DEF IInv, HasInv, Typed
<1>2. CASE UNCHANGED config
  <2>1. PICK conf \in Content : conf = config /\ Mine(conf) /\ Mine(conf)'
    BY <1>1, MineKept
  <2>. QED
    BY <1>2, <2>1 DEF Mine, Issued
<1>3. ASSUME NEW p \in Procs, Open(p)
      PROVE  Mine(config)'
  BY <1>3 DEF Open, Mine, Empty
<1>4. ASSUME NEW p \in Procs, Write(p)
      PROVE  Mine(config)'
  <2>1. PICK part \in Content, pars \in Content :
          /\ part = proc[p].partial /\ pars = proc[p].parsed /\ Mine(part) /\ Mine(pars)
    BY <1>1 DEF IInv, HasInv, Having, Typed, Run
  <2>2. Mine(part)' /\ Mine(pars)'
    BY <1>1, <2>1, MineKept
  <2>3. /\ config'.key = IF part.key # None THEN part.key ELSE pars.key
        /\ config'.token = IF part.token # None THEN part.token ELSE pars.token
    BY <1>4, <2>1, Writes, InplaceUpdate
  <2>. QED
    BY <2>2, <2>3 DEF Mine, Issued
<1>. QED
  BY <1>2, <1>3, <1>4
     DEF Next, Pass, Expire, Finished, StartRequest, StartLogin, Again, Stop, Prompt, RefreshToken,
         GetToken, Send, Backup, Read, vars, disk

\* Who works has what it may have, and is where it may be (web/request.py,
\* core/config.py).
LEMMA HasStep ==
  ASSUME IInv, [Next]_vars
  PROVE  HasInv' /\ LocalInv'
<1>1. Typed' /\ Grow
  BY TypedStep
<1>2. Mine(config)'
  BY <1>1, MineStep
<1>3. CASE UNCHANGED proc
  <2>1. \A q \in Procs : Kept(q) /\ (proc[q].kind = None => proc'[q] = proc[q])
    BY <1>3 DEF Kept, Alike, Lasting
  <2>. QED
    BY <1>1, <1>2, <2>1, OthersKeep DEF HasInv, LocalInv
<1>4. ASSUME NEW p \in Procs, OthersSame(p), Having(p)', AtWork(p)'
      PROVE  HasInv' /\ LocalInv'
  <2>1. \A q \in Procs : q # p => Kept(q) /\ (proc[q].kind = None => proc'[q] = proc[q])
    BY <1>4 DEF OthersSame, Kept, Alike, Lasting
  <2>2. \A q \in Procs : Having(q)' /\ AtWork(q)'
    BY <1>1, <1>4, <2>1, OthersKeep
  <2>. QED
    BY <1>2, <2>2 DEF HasInv, LocalInv
<1>5. ASSUME NEW p \in Procs, StartRequest(p) \/ StartLogin(p) \/ Again(p)
      PROVE  HasInv' /\ LocalInv'
  BY <1>1, <1>4, <1>5, StartHas, LoginHas, AgainHas, Requests, LogsIn, RequestsAgain
<1>6. ASSUME NEW p \in Procs, RefreshToken(p) \/ GetToken(p) \/ Prompt(p) \/ Send(p)
      PROVE  HasInv' /\ LocalInv'
  BY <1>1, <1>4, <1>6, RefreshHas, GetHas, PromptHas, SendHas, Refreshes, GetsToken, Prompts, Sends
<1>7. ASSUME NEW p \in Procs, Read(p) \/ Open(p) \/ Write(p) \/ Stop(p)
      PROVE  HasInv' /\ LocalInv'
  BY <1>1, <1>4, <1>7, UpdateHas, WriteHas, StopHas, Reads, Opens, Writes, Stops
<1>8. ASSUME NEW p \in Procs, Backup(p)
      PROVE  HasInv' /\ LocalInv'
  <2>1. Having(p)' /\ AtWork(p)'
    BY <1>1, <1>8, UpdateHas
  <2>2. \A q \in Procs : q # p => Kept(q)
    BY <1>8, BacksUp DEF Kept
  <2>3. ASSUME NEW q \in Procs, q # p
        PROVE  Having(q)' /\ AtWork(q)'
    <3>1. CASE proc[q].kind # None
      BY <1>1, <2>2, <2>3, <3>1, OthersKeep
    <3>2. CASE proc[q].kind = None
      <4>1. proc'[q] = proc[q]
        BY <1>8, <2>3, <3>2, BacksUp DEF Updating, Busy, Started
      <4>. QED
        BY <1>1, <2>2, <2>3, <4>1, OthersKeep
    <3>. QED
      BY <3>1, <3>2
  <2>. QED
    BY <1>2, <2>1, <2>3 DEF HasInv, LocalInv
<1>. QED
  BY <1>3, <1>5, <1>6, <1>7, <1>8 DEF Next, Pass, Expire, Finished, vars
------------------------------------------------------------------------------
(***************************************************************************)
(* The file, its backups and the person's key.                             *)
(***************************************************************************)
\* A process that is not at work on the file, and has no key for it.
Calm(p) == ~Holder(p) /\ ~Past(p)

\* A step that neither the file nor the updates of it notice.
Quiet ==
  /\ UNCHANGED <<key, config, backups>>
  /\ \A q \in Procs :
       /\ proc'[q].wrote = proc[q].wrote
       /\ q \in Started /\ proc[q].overlap <=> (q \in Started /\ proc[q].overlap)'
       /\ proc'[q].replaced <=> proc[q].replaced
       /\ proc'[q].end = "stopped" <=> proc[q].end = "stopped"
       /\ \/ Calm(q) /\ Calm(q)'
          \/ proc'[q] = proc[q]

\* What does not touch the file keeps what is known of it (core/config.py update).
LEMMA QuietKeeps ==
  ASSUME IInv, Quiet
  PROVE  /\ ApartInv' /\ FileInv' /\ BackupInv' /\ (Apart' => Apart) /\ (NoStop' => NoStop)
         /\ Apart' /\ NoStop' => Newest'
<1>1. UNCHANGED <<key, config, backups>> /\ \A q \in Procs : proc'[q].wrote = proc[q].wrote
  BY DEF Quiet
<1>2. Apart' <=> Apart
  BY DEF Quiet, Apart, Started
<1>3. (NoStop' <=> NoStop) /\ (NoReplaced' <=> NoReplaced)
  BY DEF Quiet, NoStop, NoReplaced
<1>4. ASSUME NEW q \in Procs
      PROVE  /\ Holder(q)' <=> Holder(q)
             /\ At(q, "read")' <=> At(q, "read")
             /\ At(q, "open")' <=> At(q, "open")
             /\ At(q, "write")' <=> At(q, "write")
             /\ Holder(q) \/ Past(q) => proc'[q] = proc[q]
  <2>1. CASE Calm(q) /\ Calm(q)'
    BY <2>1 DEF Calm, Past
  <2>2. CASE proc'[q] = proc[q]
    BY <2>2 DEF Holder, At, Busy, Started
  <2>. QED
    BY <2>1, <2>2 DEF Quiet
<1>5. \A q \in Procs : (Past(q)' <=> Past(q)) /\ (Holder(q) => NewKey(q)' = NewKey(q))
  BY <1>4 DEF Past, NewKey
<1>6. ApartInv'
  BY <1>1, <1>2, <1>4, <1>5 DEF IInv, ApartInv
<1>7. Opened' <=> Opened
  BY <1>4 DEF Opened
<1>8. ASSUME NEW content, UpToDate(content)
      PROVE  UpToDate(content)'
  BY <1>1, <1>8 DEF UpToDate, Has
<1>9. FileInv'
  <2>1. SUFFICES ASSUME Apart, NoStop
                 PROVE  /\ ~Opened => UpToDate(config)'
                        /\ \A q \in Procs : At(q, "open") \/ At(q, "write") => UpToDate(proc[q].parsed)'
    BY <1>2, <1>3, <1>4, <1>7 DEF FileInv
  <2>2. ~Opened => UpToDate(config)'
    BY <1>1, <2>1 DEF IInv, FileInv, UpToDate, Has
  <2>3. ASSUME NEW q \in Procs, At(q, "open") \/ At(q, "write")
        PROVE  UpToDate(proc[q].parsed)'
    <3>1. UpToDate(proc[q].parsed) /\ proc'[q] = proc[q]
      BY <1>4, <2>1, <2>3 DEF IInv, FileInv, Past
    <3>. QED
      BY <1>1, <3>1 DEF UpToDate, Has
  <2>. QED
    BY <2>2, <2>3
<1>10. BackupInv'
  <2>1. SUFFICES ASSUME Apart, NoReplaced
                 PROVE  /\ \E content \in {config} \cup {backups[s] : s \in 1..MaxSecond} : UpToDate(content)'
                        /\ \A q \in Procs :
                             /\ At(q, "read") \/ At(q, "open") => \E s \in 1..MaxSecond : backups[s] = config
                             /\ At(q, "write") => config = Empty
    BY <1>1, <1>2, <1>3, <1>4 DEF BackupInv
  <2>. QED
    BY <1>8, <2>1 DEF IInv, BackupInv
<1>11. Apart' /\ NoStop' => Newest'
  <2>1. SUFFICES ASSUME Apart, NoStop PROVE Newest'
    BY <1>2, <1>3
  <2>2. Newest
    BY <2>1 DEF IInv, KeyInv
  <2>. QED
    BY <1>1, <1>4, <1>5, <2>2 DEF Newest, Past
<1>. QED
  BY <1>2, <1>3, <1>6, <1>9, <1>10, <1>11

\* A process that was not started, or has come to an end, is not at work on the file.
LEMMA IdleCalm ==
  ASSUME NEW p \in Procs, p \notin Busy
  PROVE  Calm(p)
BY DEF Calm, Holder, Past, At

\* A request is no work on the file (web/request.py).
LEMMA RequestCalm ==
  ASSUME NEW p \in Procs, proc[p].partial = Empty,
         Head(proc[p].todo) \in {"prompt", "refresh_token", "get_token", "send"}
  PROVE  Calm(p)
BY DEF Calm, Holder, Past, At, Empty

\* What goes on before an update of the file, or without one (web/request.py).
LEMMA QuietStep ==
  ASSUME IInv, Typed',
         \/ Pass \/ Expire \/ Finished \/ UNCHANGED vars
         \/ \E p \in Procs : StartRequest(p) \/ StartLogin(p) \/ Again(p) \/ RefreshToken(p)
                             \/ GetToken(p) \/ Send(p)
  PROVE  Quiet
<1>1. CASE Pass \/ Expire \/ Finished \/ UNCHANGED vars
  <2>1. UNCHANGED <<key, config, backups, proc>>
    BY <1>1 DEF Pass, Expire, Finished, vars, server, disk
  <2>. QED
    BY <2>1 DEF Quiet, Started
<1>2. ASSUME NEW p \in Procs, OthersSame(p), UNCHANGED <<key, config, backups>>,
             proc'[p].wrote = proc[p].wrote,
             p \in Started /\ proc[p].overlap <=> (p \in Started /\ proc[p].overlap)',
             proc'[p].replaced <=> proc[p].replaced,
             proc'[p].end = "stopped" <=> proc[p].end = "stopped",
             Calm(p), Calm(p)'
      PROVE  Quiet
  <2>1. ASSUME NEW q \in Procs, q # p
        PROVE  proc'[q] = proc[q]
    BY <1>2, <2>1 DEF OthersSame
  <2>. QED
    BY <1>2, <2>1 DEF Quiet, Started
<1>3. ASSUME NEW p \in Procs, StartRequest(p) \/ StartLogin(p)
      PROVE  Quiet
  <2>1. UNCHANGED <<key, config, backups>>
    BY <1>3 DEF StartRequest, StartLogin, server, disk
  <2>2. /\ proc[p].kind = None /\ OthersSame(p) /\ Fresh(proc'[p]) /\ proc'[p].end = None
        /\ Head(proc'[p].todo) \in {"prompt", "refresh_token", "send"}
    BY <1>3, Requests, LogsIn DEF Requested
  <2>3. /\ proc[p] = Unstarted /\ proc[p].wrote = 0 /\ ~proc[p].replaced /\ proc[p].end = None
    <3>1. proc[p] = Unstarted
      BY <2>2 DEF IInv, HasInv, Having
    <3>2. Unstarted.wrote = 0 /\ Unstarted.replaced = FALSE /\ Unstarted.end = None
      BY DEF Unstarted
    <3>. QED
      BY <3>1, <3>2
  <2>4. Calm(p)
    BY <2>2, IdleCalm DEF Busy, Started
  <2>5. Calm(p)'
    BY <2>2 DEF Fresh, Calm, Holder, Past, At, Empty
  <2>. QED
    BY <1>2, <2>1, <2>2, <2>3, <2>4, <2>5 DEF Fresh, Started
<1>4. ASSUME NEW p \in Procs, Again(p)
      PROVE  Quiet
  <2>1. UNCHANGED <<key, config, backups>>
    BY <1>4 DEF Again, server, disk
  <2>2. /\ proc[p].kind = "library" /\ proc'[p].kind = "library" /\ proc[p].end # None
        /\ OthersSame(p) /\ proc'[p].partial = Empty
        /\ proc'[p].wrote = proc[p].wrote /\ proc'[p].overlap = proc[p].overlap
        /\ proc'[p].replaced = proc[p].replaced /\ proc[p].end # "stopped" /\ proc'[p].end = None
        /\ Head(proc'[p].todo) \in {"refresh_token", "send"}
    BY <1>4, RequestsAgain DEF Requested
  <2>3. Calm(p)
    BY <2>2, IdleCalm DEF Busy
  <2>4. Calm(p)'
    BY <2>2 DEF Calm, Holder, Past, At, Empty
  <2>5. "library" # None /\ "stopped" # None
    BY NoneAssumption
  <2>. QED
    BY <1>2, <2>1, <2>2, <2>3, <2>4, <2>5 DEF Started
<1>5. ASSUME NEW p \in Procs, RefreshToken(p) \/ GetToken(p) \/ Send(p)
      PROVE  Quiet
  <2>1. UNCHANGED <<key, config, backups>>
    BY <1>5 DEF RefreshToken, GetToken, Send, server, disk
  <2>2. /\ p \in Busy /\ proc[p].partial = Empty /\ OthersSame(p)
        /\ proc'[p].kind = proc[p].kind
        /\ proc'[p].wrote = proc[p].wrote /\ proc'[p].overlap = proc[p].overlap
        /\ proc'[p].replaced = proc[p].replaced /\ proc'[p].end # "stopped"
        /\ proc'[p].partial.key = None
        /\ p \in Busy' =>
             Head(proc'[p].todo) \in {"prompt", "refresh_token", "get_token", "send", "backup"}
    <3>1. CASE RefreshToken(p)
      <4>1. "stopped" # None
        BY NoneAssumption
      <4>. QED
        BY <3>1, <4>1, Refreshes DEF Same, Empty
    <3>2. CASE GetToken(p)
      <4>1. "stopped" # None /\ Head(UpdateConfig \o <<"send">>) = "backup" /\ "refused" # None
        BY NoneAssumption, UpdateSteps DEF Rests
      <4>2. /\ p \in Busy /\ proc[p].partial = Empty /\ OthersSame(p) /\ Same(proc'[p], proc[p])
            /\ proc'[p].partial.key = None
            /\ \/ proc'[p].end = "refused"
               \/ proc'[p].end = None /\ Head(proc'[p].todo) \in {"send", "backup"}
        <5>1. /\ p \in Busy /\ proc[p].partial = Empty /\ OthersSame(p) /\ Same(proc'[p], proc[p])
              /\ \/ proc'[p].end = "refused" /\ proc'[p].partial = Empty
                 \/ /\ proc'[p].end = None
                    /\ \/ /\ proc'[p].todo = UpdateConfig \o <<"send">>
                          /\ \E new : proc'[p].partial = [key |-> None, token |-> new]
                       \/ proc'[p].todo = <<"send">> /\ proc'[p].partial = Empty
          BY <3>2, GetsToken, Zenon
        <5>2. Empty.key = None /\ Head(<<"send">>) = "send"
          BY DEF Empty
        <5>3. proc'[p].partial.key = None
          <6>1. CASE proc'[p].partial = Empty
            BY <5>2, <6>1
          <6>2. CASE \E new : proc'[p].partial = [key |-> None, token |-> new]
            BY <6>2
          <6>. QED
            BY <5>1, <6>1, <6>2
        <5>4. \/ proc'[p].end = "refused"
              \/ proc'[p].end = None /\ Head(proc'[p].todo) \in {"send", "backup"}
          <6>1. CASE proc'[p].todo = UpdateConfig \o <<"send">>
            BY <4>1, <5>1, <6>1
          <6>2. CASE proc'[p].todo = <<"send">>
            BY <5>1, <5>2, <6>2
          <6>. QED
            BY <5>1, <6>1, <6>2
        <5>. QED
          BY <5>1, <5>3, <5>4
      <4>3. proc'[p].end # "stopped" /\ (p \in Busy' => proc'[p].end # "refused")
        BY <4>1, <4>2 DEF Busy
      <4>. QED
        BY <4>2, <4>3 DEF Same
    <3>3. CASE Send(p)
      <4>1. "stopped" # None /\ "done" # None /\ "expired" # None
        BY NoneAssumption
      <4>. QED
        BY <3>3, <4>1, Sends DEF Lasting, Empty, Busy
    <3>. QED
      BY <1>5, <3>1, <3>2, <3>3
  <2>3. Calm(p)
    <3>1. Head(proc[p].todo) \in {"refresh_token", "get_token", "send"}
      BY <1>5 DEF RefreshToken, GetToken, Send, At
    <3>. QED
      BY <2>2, <3>1, RequestCalm
  <2>4. Calm(p)'
    BY <2>2 DEF Calm, Holder, Past, At
  <2>5. proc[p].end # "stopped"
    BY <2>2, NoneAssumption DEF Busy
  <2>. QED
    BY <1>2, <2>1, <2>2, <2>3, <2>4, <2>5 DEF Started
<1>. QED
  BY <1>1, <1>3, <1>4, <1>5

\* A process has no key that is older than its start, unless it got it from the
\* file; it is refused for the reasons there are (web/request.py refresh_token).
LEMMA QuietBegun ==
  ASSUME IInv, Typed', Quiet,
         \/ Pass \/ Expire \/ Finished \/ UNCHANGED vars
         \/ \E p \in Procs : StartRequest(p) \/ StartLogin(p) \/ Again(p) \/ RefreshToken(p)
                             \/ GetToken(p) \/ Send(p)
  PROVE  /\ Apart' /\ NoStop' => \A q \in Procs : SinceBegun(q)'
         /\ RefusedInv'
<1>1. /\ (Apart' <=> Apart) /\ (NoStop' <=> NoStop) /\ key' = key /\ key \in Nat
      /\ \A q \in Procs : proc[q] \in Run
  BY BoundsAssumption DEF Quiet, Apart, Started, NoStop, IInv, Typed
<1>2. /\ Apart /\ NoStop => Newest /\ \A q \in Procs : SinceBegun(q)
      /\ RefusedInv
  BY DEF IInv, KeyInv
<1>3. CASE Pass \/ Expire \/ Finished \/ UNCHANGED vars
  <2>1. proc' = proc
    BY <1>3 DEF Pass, Expire, Finished, vars
  <2>. QED
    BY <1>1, <1>2, <2>1 DEF SinceBegun, RefusedInv
<1>4. ASSUME NEW p \in Procs, OthersSame(p),
             Apart /\ NoStop => SinceBegun(p)',
             proc'[p].end = "refused" => key > proc'[p].begun \/ ~Apart \/ ~NoStop
      PROVE  /\ Apart' /\ NoStop' => \A q \in Procs : SinceBegun(q)'
             /\ RefusedInv'
  <2>1. ASSUME NEW q \in Procs, q # p
        PROVE  proc'[q] = proc[q]
    BY <1>4, <2>1 DEF OthersSame
  <2>2. ASSUME NEW q \in Procs, Apart, NoStop
        PROVE  SinceBegun(q)'
    <3>1. CASE q = p
      BY <1>4, <2>2, <3>1
    <3>2. CASE q # p
      BY <1>2, <2>1, <2>2, <3>2 DEF SinceBegun
    <3>. QED
      BY <3>1, <3>2
  <2>3. RefusedInv'
    BY <1>1, <1>2, <1>4, <2>1 DEF RefusedInv
  <2>. QED
    BY <1>1, <2>2, <2>3
<1>5. ASSUME NEW p \in Procs, StartRequest(p) \/ StartLogin(p)
      PROVE  /\ Apart' /\ NoStop' => \A q \in Procs : SinceBegun(q)'
             /\ RefusedInv'
  <2>1. /\ OthersSame(p) /\ Fresh(proc'[p]) /\ proc'[p].end = None
        /\ proc'[p].KEY \in {OtherKey, None}
    BY <1>5, Requests, LogsIn DEF Requested
  <2>2. Apart /\ NoStop => SinceBegun(p)'
    <3>1. SUFFICES ASSUME Apart, NoStop PROVE SinceBegun(p)'
      OBVIOUS
    <3>2. proc'[p].KEY # None => proc'[p].KEY.of = "other"
      BY <2>1 DEF OtherKey, Key
    <3>3. CASE \E q \in Procs : Holder(q)
      <4>1. proc'[p].begun = 0 /\ proc'[p].config = config
        BY <2>1, <3>3 DEF Fresh
      <4>2. config.key # None => config.key.n \in Nat
        BY DEF IInv, Typed, Content, Keys
      <4>. QED
        BY <3>2, <4>1, <4>2 DEF SinceBegun
    <3>4. CASE ~\E q \in Procs : Holder(q)
      <4>1. proc'[p].begun = key /\ proc'[p].config = config
        BY <2>1, <3>4 DEF Fresh
      <4>2. config.key # None => config.key.n = key
        BY <1>2, <3>1, <3>4 DEF Newest
      <4>. QED
        BY <1>1, <3>2, <4>1, <4>2 DEF SinceBegun
    <3>. QED
      BY <3>3, <3>4
  <2>. QED
    BY <1>4, <2>1, <2>2, NoneAssumption
<1>6. ASSUME NEW p \in Procs, Again(p) \/ RefreshToken(p) \/ GetToken(p) \/ Send(p)
      PROVE  /\ Apart' /\ NoStop' => \A q \in Procs : SinceBegun(q)'
             /\ RefusedInv'
  <2>1. /\ OthersSame(p) /\ proc'[p].config = proc[p].config /\ proc'[p].begun = proc[p].begun
        /\ proc'[p].KEY \in {proc[p].KEY, proc[p].config.key, None}
    BY <1>6, RequestsAgain, Refreshes, GetsToken, Sends DEF Same, Lasting
  <2>2. Apart /\ NoStop => SinceBegun(p)'
    BY <1>2, <2>1 DEF SinceBegun
  <2>3. proc'[p].end = "refused" => key > proc'[p].begun \/ ~Apart \/ ~NoStop
    <3>1. CASE ~GetToken(p)
      <4>1. proc'[p].end # "refused"
        BY <1>6, <3>1, RequestsAgain, Refreshes, Sends, NoneAssumption DEF Requested
      <4>. QED
        BY <4>1
    <3>2. CASE GetToken(p)
      <4>1. SUFFICES ASSUME proc'[p].end = "refused", Apart, NoStop PROVE key > proc[p].begun
        BY <2>1
      <4>2. proc[p].KEY # None /\ proc[p].KEY.of = "user" /\ proc[p].KEY.n # key
        BY <3>2, <4>1, GetsToken, NoneAssumption
      <4>3. proc[p].KEY.n \in 1..key
        BY <4>2 DEF IInv, HasInv, Having, Issued
      <4>4. proc[p].KEY.n >= proc[p].begun
        BY <1>2, <4>1, <4>2 DEF SinceBegun
      <4>. QED
        BY <1>1, <4>2, <4>3, <4>4 DEF Run
    <3>. QED
      BY <3>1, <3>2
  <2>. QED
    BY <1>4, <2>1, <2>2, <2>3
<1>. QED
  BY <1>3, <1>5, <1>6

\* A key that a process has, it has of the person (core/config.py update).
LEMMA HeldKeys ==
  ASSUME IInv, NEW p \in Procs
  PROVE  /\ proc[p] \in Run /\ proc[p].wrote <= key /\ key \in Nat /\ proc[p].begun <= key
         /\ Holder(p) => NewKey(p) \in 1..key
<1>1. proc[p] \in Run /\ Having(p) /\ key \in Nat
  BY BoundsAssumption DEF IInv, HasInv, Typed
<1>2. proc[p].partial.key # None => proc[p].partial.key.n \in 1..key
  BY <1>1 DEF Having, Mine, Issued
<1>. QED
  BY <1>1, <1>2 DEF Having, Holder, NewKey

\* A new key is to be written: it is newer than all (web/request.py login).
LEMMA PromptStep ==
  ASSUME IInv, Typed', NEW p \in Procs, Prompt(p)
  PROVE  ApartInv' /\ FileInv' /\ BackupInv' /\ KeyInv' /\ RefusedInv'
<1>1. /\ p \in Busy /\ proc[p].partial = Empty /\ key' = key + 1
      /\ UNCHANGED <<config, backups>> /\ OthersSame(p)
      /\ Same(proc'[p], proc[p]) /\ proc'[p].end = None
      /\ proc'[p].KEY = Key("user", key') /\ proc'[p].KEY \in Keys
      /\ proc'[p].partial = [key |-> proc'[p].KEY, token |-> None]
      /\ \E rest \in Rests : proc'[p].todo = UpdateConfig \o rest
  BY Prompts DEF disk
<1>2. key \in Nat /\ key' \in Nat /\ key' > key
  BY <1>1, HeldKeys
<1>3. /\ proc'[p].partial.key = proc'[p].KEY /\ proc'[p].partial.key # None
      /\ proc'[p].partial.key.n = key' /\ proc'[p].KEY.n = key' /\ proc'[p].KEY # None
      /\ Head(proc'[p].todo) = "backup"
  <2>1. proc'[p].partial.key = proc'[p].KEY
    BY <1>1
  <2>2. proc'[p].KEY # None
    BY <1>1, NoneAssumption DEF Keys, Owner
  <2>3. proc'[p].KEY.n = key'
    BY <1>1 DEF Key
  <2>. QED
    BY <1>1, <2>1, <2>2, <2>3, UpdateSteps
<1>4. ~Holder(p) /\ ~Past(p) /\ Holder(p)' /\ ~Past(p)' /\ NewKey(p)' = key'
  <2>1. Calm(p)
    <3>1. Head(proc[p].todo) = "prompt"
      BY DEF Prompt, At
    <3>. QED
      BY <1>1, <3>1, RequestCalm
  <2>2. p \in Busy' /\ proc'[p].kind = proc[p].kind
    BY <1>1 DEF Busy, Started, Same
  <2>. QED
    BY <1>1, <1>3, <2>1, <2>2 DEF Calm, Holder, Past, At, NewKey
<1>5. ASSUME NEW q \in Procs, q # p
      PROVE  /\ proc'[q] = proc[q] /\ (Holder(q)' <=> Holder(q)) /\ NewKey(q)' = NewKey(q)
             /\ At(q, "read")' <=> At(q, "read")
             /\ At(q, "open")' <=> At(q, "open")
             /\ At(q, "write")' <=> At(q, "write")
  <2>1. proc'[q] = proc[q]
    BY <1>1, <1>5 DEF OthersSame
  <2>. QED
    BY <2>1 DEF Holder, NewKey, At, Busy, Started
<1>6. ASSUME NEW q \in Procs
      PROVE  /\ proc'[q].wrote = proc[q].wrote /\ proc'[q].kind = proc[q].kind
             /\ proc'[q].overlap = proc[q].overlap /\ proc'[q].replaced = proc[q].replaced
             /\ proc'[q].end = proc[q].end /\ proc'[q].begun = proc[q].begun
             /\ proc'[q].config = proc[q].config
             /\ Past(q)' <=> Past(q)
             /\ At(q, "read")' <=> At(q, "read")
             /\ At(q, "open")' <=> At(q, "open")
             /\ At(q, "write")' <=> At(q, "write")
             /\ Past(q) => proc'[q] = proc[q]
  <2>1. CASE q = p
    BY <1>1, <1>4, <2>1 DEF Same, Busy, Past
  <2>2. CASE q # p
    BY <1>5, <2>2 DEF Past
  <2>. QED
    BY <2>1, <2>2
<1>7. (Apart' <=> Apart) /\ (NoStop' <=> NoStop) /\ (NoReplaced' <=> NoReplaced) /\ (Opened' <=> Opened)
  BY <1>6 DEF Apart, Started, NoStop, NoReplaced, Opened
<1>8. ApartInv'
  <2>1. SUFFICES ASSUME Apart, NEW q \in Procs, NEW r \in Procs
                 PROVE  /\ Past(q)' /\ Past(r)' => q = r
                        /\ Past(q)' /\ Holder(q)' /\ Holder(r)' /\ q # r => NewKey(q)' < NewKey(r)'
                        /\ Holder(r)' => proc'[q].wrote <= NewKey(r)'
    BY <1>7 DEF ApartInv
  <2>2. /\ Past(q) /\ Past(r) => q = r
        /\ Past(q) /\ Holder(q) /\ Holder(r) /\ q # r => NewKey(q) < NewKey(r)
        /\ Holder(r) => proc[q].wrote <= NewKey(r)
    BY <2>1 DEF IInv, ApartInv
  <2>3. Past(q)' => q # p /\ Past(q)
    BY <1>4, <1>6
  <2>4. /\ proc[q].wrote \in Nat /\ proc[q].wrote <= key
        /\ Holder(q) => NewKey(q) \in 1..key
    BY HeldKeys DEF Run
  <2>5. CASE r = p
    BY <1>1, <1>2, <1>4, <1>5, <1>6, <2>2, <2>3, <2>4, <2>5
  <2>6. CASE r # p
    BY <1>5, <1>6, <2>2, <2>3, <2>6
  <2>. QED
    BY <2>5, <2>6
<1>9. FileInv'
  <2>1. SUFFICES ASSUME Apart, NoStop
                 PROVE  /\ ~Opened => UpToDate(config)'
                        /\ \A q \in Procs : At(q, "open") \/ At(q, "write") => UpToDate(proc[q].parsed)'
    BY <1>6, <1>7 DEF FileInv
  <2>2. ~Opened => UpToDate(config)'
    BY <1>1, <1>6, <2>1 DEF IInv, FileInv, UpToDate, Has
  <2>3. ASSUME NEW q \in Procs, At(q, "open") \/ At(q, "write")
        PROVE  UpToDate(proc[q].parsed)'
    <3>1. UpToDate(proc[q].parsed) /\ proc'[q] = proc[q]
      BY <1>6, <2>1, <2>3 DEF IInv, FileInv, Past
    <3>. QED
      BY <1>6, <3>1 DEF UpToDate, Has
  <2>. QED
    BY <2>2, <2>3
<1>10. BackupInv'
  <2>1. SUFFICES ASSUME Apart, NoReplaced
                 PROVE  /\ \E content \in {config} \cup {backups[s] : s \in 1..MaxSecond} : UpToDate(content)'
                        /\ \A q \in Procs :
                             /\ At(q, "read") \/ At(q, "open") => \E s \in 1..MaxSecond : backups[s] = config
                             /\ At(q, "write") => config = Empty
    BY <1>1, <1>6, <1>7 DEF BackupInv
  <2>2. ASSUME NEW content, UpToDate(content)
        PROVE  UpToDate(content)'
    BY <1>6, <2>2 DEF UpToDate, Has
  <2>. QED
    BY <2>1, <2>2 DEF IInv, BackupInv
<1>11. KeyInv'
  <2>1. SUFFICES ASSUME Apart, NoStop PROVE Newest' /\ \A q \in Procs : SinceBegun(q)'
    BY <1>7 DEF KeyInv
  <2>2. Newest'
    BY <1>4 DEF Newest
  <2>3. ASSUME NEW q \in Procs
        PROVE  SinceBegun(q)'
    <3>1. SinceBegun(q)
      BY <2>1 DEF IInv, KeyInv
    <3>2. CASE q = p
      <4>1. proc[p].begun <= key /\ proc[p].begun \in Nat
        BY HeldKeys DEF Run
      <4>. QED
        BY <1>2, <1>3, <1>6, <3>1, <3>2, <4>1 DEF SinceBegun
    <3>3. CASE q # p
      BY <1>5, <3>1, <3>3 DEF SinceBegun
    <3>. QED
      BY <3>2, <3>3
  <2>. QED
    BY <2>2, <2>3
<1>12. RefusedInv'
  <2>1. \A q \in Procs : proc[q].begun \in Nat
    BY HeldKeys DEF Run
  <2>. QED
    BY <1>2, <1>6, <1>7, <2>1 DEF IInv, RefusedInv
<1>. QED
  BY <1>8, <1>9, <1>10, <1>11, <1>12

\* An update changes no key that a process has, and refuses none (core/config.py).
LEMMA UpdateBegun ==
  ASSUME IInv, key' = key, Apart' => Apart, NoStop' => NoStop,
         \A q \in Procs :
           /\ proc'[q].config = proc[q].config /\ proc'[q].begun = proc[q].begun
           /\ proc'[q].KEY \in {proc[q].KEY, None}
           /\ proc'[q].end = "refused" => proc[q].end = "refused"
  PROVE  /\ Apart' /\ NoStop' => \A q \in Procs : SinceBegun(q)'
         /\ RefusedInv'
<1>1. Apart' /\ NoStop' => \A q \in Procs : SinceBegun(q)
  BY DEF IInv, KeyInv
<1>2. Apart' /\ NoStop' => \A q \in Procs : SinceBegun(q)'
  BY <1>1 DEF SinceBegun
<1>3. RefusedInv'
  BY DEF IInv, RefusedInv
<1>. QED
  BY <1>2, <1>3

\* While updates do not overlap, who is at one is alone (core/config.py update).
LEMMA Alone ==
  ASSUME IInv, Apart, NEW p \in Procs, Past(p), NEW q \in Procs, q # p
  PROVE  ~Past(q) /\ ~At(q, "read") /\ ~At(q, "open") /\ ~At(q, "write")
BY DEF IInv, ApartInv, Past

\* Who does not take a step stays at its own (core/config.py update).
LEMMA Waits ==
  ASSUME NEW p \in Procs, OthersSame(p), NEW q \in Procs, q # p
  PROVE  /\ proc'[q] = proc[q] /\ (Holder(q)' <=> Holder(q)) /\ NewKey(q)' = NewKey(q)
         /\ At(q, "read")' <=> At(q, "read")
         /\ At(q, "open")' <=> At(q, "open")
         /\ At(q, "write")' <=> At(q, "write")
         /\ Past(q)' <=> Past(q)
BY DEF OthersSame, Holder, NewKey, At, Past, Busy, Started

\* A backup is made: if no other update is under way, this one is alone
\* (core/config.py update).
LEMMA BackupStep ==
  ASSUME IInv, Typed', NEW p \in Procs, Backup(p)
  PROVE  ApartInv' /\ FileInv' /\ BackupInv' /\ KeyInv' /\ RefusedInv'
<1>1. /\ p \in Busy /\ Head(proc[p].todo) = "backup"
      /\ UNCHANGED <<key, config>> /\ backups' = [backups EXCEPT ![second] = config]
      /\ backups[second] # None => proc'[p].replaced
      /\ \E rest \in Rests : proc'[p].todo = <<"read", "open", "write">> \o rest
      /\ \A q \in Procs :
           /\ Alike(proc'[q], proc[q]) /\ proc'[q].parsed = proc[q].parsed
           /\ q # p => proc'[q].todo = proc[q].todo
           /\ proc[q].overlap => proc'[q].overlap
           /\ q # p /\ q \in Updating => proc'[q].overlap /\ proc'[p].overlap
           /\ proc[q].replaced => proc'[q].replaced
  BY BacksUp DEF server
<1>2. ASSUME NEW q \in Procs
      PROVE  /\ proc'[q].wrote = proc[q].wrote /\ proc'[q].kind = proc[q].kind
             /\ proc'[q].end = proc[q].end /\ proc'[q].begun = proc[q].begun
             /\ proc'[q].config = proc[q].config /\ proc'[q].KEY = proc[q].KEY
             /\ proc'[q].partial = proc[q].partial /\ proc'[q].parsed = proc[q].parsed
             /\ (Holder(q)' <=> Holder(q)) /\ NewKey(q)' = NewKey(q)
  BY <1>1 DEF Alike, Lasting, Holder, Busy, Started, NewKey
<1>3. ASSUME NEW q \in Procs, q # p
      PROVE  /\ At(q, "read")' <=> At(q, "read")
             /\ At(q, "open")' <=> At(q, "open")
             /\ At(q, "write")' <=> At(q, "write")
  BY <1>1, <1>2, <1>3 DEF At, Busy, Started
<1>4. At(p, "read")' /\ ~At(p, "open")' /\ ~At(p, "write")'
  <2>1. Head(proc'[p].todo) = "read"
    BY <1>1, UpdateSteps
  <2>. QED
    BY <1>1, <1>2, <2>1 DEF At, Busy, Started
<1>5. ~At(p, "read") /\ ~At(p, "open") /\ ~At(p, "write")
  BY <1>1 DEF At
<1>6. (Apart' => Apart) /\ (NoReplaced' => NoReplaced) /\ (NoStop' <=> NoStop)
  BY <1>1, <1>2 DEF Apart, Started, NoReplaced, NoStop
<1>7. Apart' => \A q \in Procs : q # p => ~Holder(q) /\ ~Past(q)
  <2>1. ASSUME NEW q \in Procs, q # p, Holder(q) \/ Past(q)
        PROVE  q \in Updating
    BY <2>1 DEF Holder, Past, At, Updating
  <2>2. p \in Started'
    BY <1>1, <1>2 DEF Busy, Started
  <2>. QED
    BY <1>1, <2>1, <2>2 DEF Apart
<1>8. ApartInv'
  <2>1. SUFFICES ASSUME Apart', NEW q \in Procs, NEW r \in Procs
                 PROVE  /\ Past(q)' /\ Past(r)' => q = r
                        /\ Past(q)' /\ Holder(q)' /\ Holder(r)' /\ q # r => NewKey(q)' < NewKey(r)'
                        /\ Holder(r)' => proc'[q].wrote <= NewKey(r)'
    BY DEF ApartInv
  <2>2. (Past(q)' => q = p) /\ (Past(r)' => r = p) /\ (Holder(q)' => q = p) /\ (Holder(r)' => r = p)
    BY <1>2, <1>3, <1>7, <2>1 DEF Past
  <2>3. Holder(r) => proc[q].wrote <= NewKey(r)
    BY <1>6, <2>1 DEF IInv, ApartInv
  <2>. QED
    BY <1>2, <2>2, <2>3
<1>9. FileInv'
  <2>1. SUFFICES ASSUME Apart', NoStop'
                 PROVE  /\ UpToDate(config)'
                        /\ \A q \in Procs : ~At(q, "open")' /\ ~At(q, "write")'
    BY DEF FileInv
  <2>2. \A q \in Procs : ~At(q, "open")' /\ ~At(q, "write")'
    BY <1>3, <1>4, <1>7, <2>1 DEF Past
  <2>3. ~Opened
    BY <1>5, <1>7, <2>1 DEF Opened, Past
  <2>4. UpToDate(config)
    BY <1>6, <2>1, <2>3 DEF IInv, FileInv
  <2>. QED
    BY <1>1, <1>2, <2>2, <2>4 DEF UpToDate, Has
<1>10. BackupInv'
  <2>1. SUFFICES ASSUME Apart', NoReplaced'
                 PROVE  /\ \E content \in {config'} \cup {backups'[s] : s \in 1..MaxSecond} : UpToDate(content)'
                        /\ \A q \in Procs :
                             /\ At(q, "read")' \/ At(q, "open")' => \E s \in 1..MaxSecond : backups'[s] = config'
                             /\ ~At(q, "write")'
    BY DEF BackupInv
  <2>2. /\ second \in 1..MaxSecond /\ backups \in [1..MaxSecond -> Content \cup {None}]
        /\ backups[second] = None
    BY <1>1, <2>1 DEF IInv, Typed, NoReplaced
  <2>3. backups'[second] = config'
    BY <1>1, <2>2
  <2>4. ASSUME NEW content, UpToDate(content)
        PROVE  UpToDate(content)'
    BY <1>2, <2>4 DEF UpToDate, Has
  <2>5. PICK content \in {config} \cup {backups[s] : s \in 1..MaxSecond} : UpToDate(content)
    BY <1>6, <2>1 DEF IInv, BackupInv
  <2>6. CASE content = config
    BY <1>1, <1>3, <1>4, <1>7, <2>1, <2>2, <2>3, <2>4, <2>5, <2>6 DEF Past
  <2>7. CASE content # config
    <3>1. PICK s \in 1..MaxSecond : content = backups[s]
      BY <2>5, <2>7
    <3>2. CASE s = second
      <4>1. \A q \in Procs : ~(proc[q].wrote > 0)
        BY <2>2, <2>5, <3>1, <3>2 DEF UpToDate, Has
      <4>2. UpToDate(config)'
        BY <1>2, <4>1 DEF UpToDate
      <4>. QED
        BY <1>3, <1>4, <1>7, <2>1, <2>2, <2>3, <4>2 DEF Past
    <3>3. CASE s # second
      <4>1. backups'[s] = content
        BY <1>1, <2>2, <3>1, <3>3
      <4>. QED
        BY <1>3, <1>4, <1>7, <2>1, <2>2, <2>3, <2>4, <2>5, <4>1 DEF Past
    <3>. QED
      BY <3>2, <3>3
  <2>. QED
    BY <2>6, <2>7
<1>11. Apart' /\ NoStop' => Newest'
  <2>1. SUFFICES ASSUME Apart', NoStop' PROVE Newest'
    OBVIOUS
  <2>2. Newest
    BY <1>6, <2>1 DEF IInv, KeyInv
  <2>3. \A q \in Procs : ~At(q, "open")' /\ ~At(q, "write")'
    BY <1>3, <1>4, <1>7, <2>1 DEF Past
  <2>. QED
    BY <1>1, <1>2, <2>2, <2>3 DEF Newest
<1>12. /\ Apart' /\ NoStop' => \A q \in Procs : SinceBegun(q)'
       /\ RefusedInv'
  BY <1>1, <1>2, <1>6, UpdateBegun
<1>. QED
  BY <1>8, <1>9, <1>10, <1>11, <1>12 DEF KeyInv

\* The file is read: while it is not open, what is read is up to date (core/config.py).
LEMMA ReadStep ==
  ASSUME IInv, Typed', NEW p \in Procs, Read(p)
  PROVE  ApartInv' /\ FileInv' /\ BackupInv' /\ KeyInv' /\ RefusedInv'
<1>1. /\ p \in Busy /\ Head(proc[p].todo) = "read" /\ OthersSame(p)
      /\ UNCHANGED <<key, config, backups>>
      /\ Alike(proc'[p], proc[p]) /\ proc'[p].parsed = config
      /\ proc'[p].overlap = proc[p].overlap /\ proc'[p].replaced = proc[p].replaced
      /\ \E rest \in Rests : proc'[p].todo = <<"open", "write">> \o rest
  BY Reads DEF Read, server, disk
<1>2. ASSUME NEW q \in Procs
      PROVE  /\ proc'[q].wrote = proc[q].wrote /\ proc'[q].kind = proc[q].kind
             /\ proc'[q].end = proc[q].end /\ proc'[q].begun = proc[q].begun
             /\ proc'[q].config = proc[q].config /\ proc'[q].KEY = proc[q].KEY
             /\ proc'[q].overlap = proc[q].overlap /\ proc'[q].replaced = proc[q].replaced
             /\ (Holder(q)' <=> Holder(q)) /\ NewKey(q)' = NewKey(q)
  <2>1. CASE q = p
    BY <1>1, <2>1 DEF Alike, Lasting, Holder, Busy, Started, NewKey
  <2>2. CASE q # p
    BY <1>1, <2>2, Waits DEF OthersSame
  <2>. QED
    BY <2>1, <2>2
<1>3. /\ At(p, "read") /\ Past(p) /\ ~At(p, "write")
      /\ At(p, "open")' /\ Past(p)' /\ ~At(p, "read")' /\ ~At(p, "write")'
  <2>1. Head(proc'[p].todo) = "open"
    BY <1>1, UpdateSteps
  <2>2. p \in Busy'
    BY <1>1, <1>2 DEF Busy, Started
  <2>. QED
    BY <1>1, <2>1, <2>2 DEF At, Past
<1>4. /\ Apart' <=> Apart
      /\ (NoStop' <=> NoStop) /\ (NoReplaced' <=> NoReplaced)
  BY <1>2 DEF Apart, Started, NoStop, NoReplaced
<1>5. \A q \in Procs : Past(q)' <=> Past(q)
  BY <1>1, <1>3, Waits
<1>6. ApartInv'
  BY <1>2, <1>4, <1>5 DEF IInv, ApartInv
<1>7. ASSUME NEW content, UpToDate(content)
      PROVE  UpToDate(content)'
  BY <1>2, <1>7 DEF UpToDate, Has
<1>8. ASSUME Apart, NEW q \in Procs, q # p
      PROVE  ~At(q, "read")' /\ ~At(q, "open")' /\ ~At(q, "write")'
  BY <1>1, <1>3, <1>8, Alone, Waits
<1>9. FileInv'
  <2>1. SUFFICES ASSUME Apart, NoStop
                 PROVE  /\ UpToDate(config)'
                        /\ \A q \in Procs : (At(q, "open") \/ At(q, "write"))' => UpToDate(proc[q].parsed)'
    BY <1>4 DEF FileInv
  <2>2. ~Opened
    BY <1>3, <2>1, Alone DEF Opened
  <2>3. UpToDate(config)
    BY <2>1, <2>2 DEF IInv, FileInv
  <2>4. \A r \in Procs : proc[r].wrote > 0 => Has(config, proc[r].wrote)
    BY <2>3 DEF UpToDate
  <2>5. UpToDate(config)' /\ UpToDate(proc[p].parsed)'
    BY <1>1, <1>2, <2>4 DEF UpToDate, Has
  <2>. QED
    BY <1>8, <2>1, <2>5
<1>10. BackupInv'
  <2>1. SUFFICES ASSUME Apart, NoReplaced
                 PROVE  /\ \E content \in {config} \cup {backups[s] : s \in 1..MaxSecond} : UpToDate(content)'
                        /\ \A q \in Procs :
                             /\ (At(q, "read") \/ At(q, "open"))' => \E s \in 1..MaxSecond : backups[s] = config
                             /\ ~At(q, "write")'
    BY <1>1, <1>4 DEF BackupInv
  <2>. QED
    BY <1>3, <1>7, <1>8, <2>1 DEF IInv, BackupInv
<1>11. Apart' /\ NoStop' => Newest'
  <2>1. SUFFICES ASSUME Apart, NoStop PROVE Newest'
    BY <1>4
  <2>2. Newest
    BY <2>1 DEF IInv, KeyInv
  <2>. QED
    BY <1>1, <1>2, <1>3, <1>8, <2>1, <2>2 DEF Newest
<1>12. /\ Apart' /\ NoStop' => \A q \in Procs : SinceBegun(q)'
       /\ RefusedInv'
  BY <1>1, <1>2, <1>4, UpdateBegun
<1>. QED
  BY <1>6, <1>9, <1>10, <1>11, <1>12 DEF KeyInv

\* The file is opened: what was in it is in a backup, and was read (core/config.py).
LEMMA OpenStep ==
  ASSUME IInv, Typed', NEW p \in Procs, Open(p)
  PROVE  ApartInv' /\ FileInv' /\ BackupInv' /\ KeyInv' /\ RefusedInv'
<1>1. /\ p \in Busy /\ Head(proc[p].todo) = "open" /\ OthersSame(p)
      /\ UNCHANGED <<key, backups>> /\ config' = Empty
      /\ Alike(proc'[p], proc[p]) /\ proc'[p].parsed = proc[p].parsed
      /\ proc'[p].overlap = proc[p].overlap /\ proc'[p].replaced = proc[p].replaced
      /\ \E rest \in Rests : proc'[p].todo = <<"write">> \o rest
  BY Opens DEF Open, server
<1>2. ASSUME NEW q \in Procs
      PROVE  /\ proc'[q].wrote = proc[q].wrote /\ proc'[q].kind = proc[q].kind
             /\ proc'[q].end = proc[q].end /\ proc'[q].begun = proc[q].begun
             /\ proc'[q].config = proc[q].config /\ proc'[q].KEY = proc[q].KEY
             /\ proc'[q].overlap = proc[q].overlap /\ proc'[q].replaced = proc[q].replaced
             /\ (Holder(q)' <=> Holder(q)) /\ NewKey(q)' = NewKey(q)
  <2>1. CASE q = p
    BY <1>1, <2>1 DEF Alike, Lasting, Holder, Busy, Started, NewKey
  <2>2. CASE q # p
    BY <1>1, <2>2, Waits DEF OthersSame
  <2>. QED
    BY <2>1, <2>2
<1>3. /\ At(p, "open") /\ Past(p) /\ ~At(p, "write")
      /\ At(p, "write")' /\ Past(p)' /\ ~At(p, "read")' /\ ~At(p, "open")'
  <2>1. Head(proc'[p].todo) = "write"
    BY <1>1, UpdateSteps
  <2>2. p \in Busy'
    BY <1>1, <1>2 DEF Busy, Started
  <2>. QED
    BY <1>1, <2>1, <2>2 DEF At, Past
<1>4. /\ Apart' <=> Apart
      /\ (NoStop' <=> NoStop) /\ (NoReplaced' <=> NoReplaced)
  BY <1>2 DEF Apart, Started, NoStop, NoReplaced
<1>5. \A q \in Procs : Past(q)' <=> Past(q)
  BY <1>1, <1>3, Waits
<1>6. ApartInv'
  BY <1>2, <1>4, <1>5 DEF IInv, ApartInv
<1>7. ASSUME NEW content, UpToDate(content)
      PROVE  UpToDate(content)'
  BY <1>2, <1>7 DEF UpToDate, Has
<1>8. ASSUME Apart, NEW q \in Procs, q # p
      PROVE  ~At(q, "read")' /\ ~At(q, "open")' /\ ~At(q, "write")'
  BY <1>1, <1>3, <1>8, Alone, Waits
<1>9. FileInv'
  <2>1. SUFFICES ASSUME Apart, NoStop
                 PROVE  UpToDate(proc[p].parsed)'
    BY <1>1, <1>3, <1>4, <1>8 DEF FileInv, Opened, UpToDate, Has
  <2>2. UpToDate(proc[p].parsed)
    BY <1>3, <2>1 DEF IInv, FileInv
  <2>. QED
    BY <1>1, <1>2, <2>2 DEF UpToDate, Has
<1>10. BackupInv'
  <2>1. SUFFICES ASSUME Apart, NoReplaced
                 PROVE  \E s \in 1..MaxSecond : UpToDate(backups[s])'
    BY <1>1, <1>3, <1>4, <1>8 DEF BackupInv, UpToDate, Has
  <2>2. PICK content \in {config} \cup {backups[s] : s \in 1..MaxSecond} : UpToDate(content)
    BY <2>1 DEF IInv, BackupInv
  <2>3. \E s \in 1..MaxSecond : backups[s] = config
    BY <1>3, <2>1 DEF IInv, BackupInv
  <2>4. PICK s \in 1..MaxSecond : backups[s] = content
    BY <2>2, <2>3
  <2>5. UpToDate(backups[s])
    BY <2>2, <2>4
  <2>. QED
    BY <1>1, <1>2, <2>5 DEF UpToDate, Has
<1>11. Apart' /\ NoStop' => Newest'
  <2>1. SUFFICES ASSUME Apart, NoStop PROVE Newest'
    BY <1>4
  <2>2. Newest
    BY <2>1 DEF IInv, KeyInv
  <2>3. config'.key = None
    BY <1>1 DEF Empty
  <2>. QED
    BY <1>1, <1>2, <1>3, <1>8, <2>1, <2>2, <2>3 DEF Newest
<1>12. /\ Apart' /\ NoStop' => \A q \in Procs : SinceBegun(q)'
       /\ RefusedInv'
  BY <1>1, <1>2, <1>4, UpdateBegun
<1>. QED
  BY <1>6, <1>9, <1>10, <1>11, <1>12 DEF KeyInv

\* The file is written: what was read, and the new key or token (core/config.py).
LEMMA WriteStep ==
  ASSUME IInv, Typed', NEW p \in Procs, Write(p)
  PROVE  ApartInv' /\ FileInv' /\ BackupInv' /\ KeyInv' /\ RefusedInv'
<1> DEFINE run == proc[p]
           now == proc'[p]
<1>1. /\ p \in Busy /\ Head(run.todo) = "write" /\ OthersSame(p)
      /\ UNCHANGED <<key, backups>> /\ config' = inplace_update(run.parsed, run.partial)
      /\ now.kind = run.kind /\ now.begun = run.begun /\ now.config = run.config
      /\ now.overlap = run.overlap /\ now.replaced = run.replaced
      /\ now.partial = Empty /\ now.KEY \in {run.KEY, None}
      /\ now.wrote = (IF run.partial.key = None THEN run.wrote ELSE run.partial.key.n)
      /\ \/ now.end = "done"
         \/ now.todo = <<"send">> \/ now.todo = <<"get_token", "send">>
      /\ now.end \in {None, "done"}
  BY Writes DEF server, Lasting, Rests
<1>2. /\ run.parsed \in Content /\ run.partial \in Content /\ config' \in Content /\ config' # None
      /\ config'.key = IF run.partial.key # None THEN run.partial.key ELSE run.parsed.key
  <2>1. run.parsed \in Content /\ run.partial \in Content
    BY HeldKeys DEF Run
  <2>2. /\ config' \in Content
        /\ config'.key = IF run.partial.key # None THEN run.partial.key ELSE run.parsed.key
    BY <1>1, <2>1, InplaceUpdate
  <2>3. None \notin Content
    BY NoneAssumption DEF Content, Keys, Tokens, Owner
  <2>. QED
    BY <2>1, <2>2, <2>3
<1>3. At(p, "write") /\ Past(p) /\ (Holder(p) <=> run.partial.key # None) /\ run.end = None
  BY <1>1 DEF At, Past, Holder, Busy
<1>4. ~Holder(p)' /\ ~At(p, "read")' /\ ~At(p, "open")' /\ ~At(p, "write")'
  <2>1. ~Holder(p)'
    BY <1>1 DEF Holder, Empty
  <2>2. CASE now.end = "done"
    BY <2>1, <2>2, NoneAssumption DEF At, Busy
  <2>3. CASE now.todo = <<"send">> \/ now.todo = <<"get_token", "send">>
    <3>1. Head(now.todo) \in {"send", "get_token"}
      BY <2>3
    <3>. QED
      BY <2>1, <3>1 DEF At
  <2>. QED
    BY <1>1, <2>2, <2>3
<1>5. ASSUME NEW q \in Procs
      PROVE  /\ proc'[q].kind = proc[q].kind /\ proc'[q].begun = proc[q].begun
             /\ proc'[q].config = proc[q].config /\ proc'[q].KEY \in {proc[q].KEY, None}
             /\ proc'[q].overlap = proc[q].overlap /\ proc'[q].replaced = proc[q].replaced
             /\ proc'[q].end = "stopped" <=> proc[q].end = "stopped"
             /\ proc'[q].end = "refused" => proc[q].end = "refused"
             /\ ~Holder(p) => proc'[q].wrote = proc[q].wrote
  <2>1. CASE q = p
    BY <1>1, <1>3, <2>1, NoneAssumption
  <2>2. CASE q # p
    BY <1>1, <2>2 DEF OthersSame
  <2>. QED
    BY <2>1, <2>2
<1>6. /\ Apart' <=> Apart
      /\ (NoStop' <=> NoStop) /\ (NoReplaced' <=> NoReplaced)
  BY <1>5 DEF Apart, Started, NoStop, NoReplaced
<1>7. ASSUME Apart, NEW q \in Procs
      PROVE  ~At(q, "read")' /\ ~At(q, "open")' /\ ~At(q, "write")' /\ ~Past(q)'
  BY <1>1, <1>3, <1>4, <1>7, Alone, Waits DEF Past
<1>8. ASSUME Apart, NEW q \in Procs, NEW r \in Procs, Holder(r)'
      PROVE  r # p /\ Holder(r) /\ NewKey(r)' = NewKey(r) /\ proc'[q].wrote <= NewKey(r)'
  <2>1. r # p /\ Holder(r) /\ NewKey(r)' = NewKey(r)
    BY <1>1, <1>4, <1>8, Waits
  <2>2. proc[q].wrote <= NewKey(r)
    BY <1>8, <2>1 DEF IInv, ApartInv
  <2>3. CASE q = p /\ Holder(p)
    <3>1. NewKey(p) < NewKey(r) /\ proc'[q].wrote = NewKey(p)
      BY <1>1, <1>3, <1>8, <2>1, <2>3 DEF IInv, ApartInv, NewKey
    <3>2. NewKey(p) \in Nat /\ NewKey(r) \in Nat
      BY <2>1, <2>3, HeldKeys
    <3>. QED
      BY <2>1, <3>1, <3>2
  <2>4. CASE q # p \/ ~Holder(p)
    BY <1>1, <1>5, <2>1, <2>2, <2>4, Waits
  <2>. QED
    BY <2>1, <2>3, <2>4
<1>9. ApartInv'
  BY <1>6, <1>7, <1>8 DEF ApartInv
<1>10. ASSUME Apart, Holder(p)
       PROVE  UpToDate(config)'
  <2>1. config'.key = run.partial.key /\ config'.key # None /\ NewKey(p) = config'.key.n
    BY <1>2, <1>3, <1>10 DEF NewKey
  <2>2. ASSUME NEW q \in Procs
        PROVE  proc'[q].wrote <= NewKey(p) /\ proc'[q].wrote \in Nat
    <3>1. CASE q = p
      BY <1>1, <1>3, <1>10, <3>1, HeldKeys DEF NewKey
    <3>2. CASE q # p
      BY <1>1, <1>10, <3>2, HeldKeys DEF IInv, ApartInv, OthersSame, Run
    <3>. QED
      BY <3>1, <3>2
  <2>3. NewKey(p) \in Nat
    BY <1>10, HeldKeys
  <2>. QED
    BY <1>2, <2>1, <2>2, <2>3 DEF UpToDate, Has
<1>11. ASSUME ~Holder(p), UpToDate(run.parsed)
       PROVE  UpToDate(config)'
  <2>1. config'.key = run.parsed.key
    BY <1>2, <1>3, <1>11
  <2>. QED
    BY <1>2, <1>5, <1>11, <2>1 DEF UpToDate, Has
<1>12. FileInv'
  <2>1. SUFFICES ASSUME Apart, NoStop PROVE UpToDate(config)'
    BY <1>6, <1>7 DEF FileInv
  <2>2. UpToDate(run.parsed)
    BY <1>3, <2>1 DEF IInv, FileInv
  <2>. QED
    BY <1>10, <1>11, <2>1, <2>2
<1>13. BackupInv'
  <2>1. SUFFICES ASSUME Apart, NoReplaced
                 PROVE  \E content \in {config'} \cup {backups[s] : s \in 1..MaxSecond} :
                          \A q \in Procs : proc'[q].wrote > 0 => Has(content, proc'[q].wrote)
    BY <1>1, <1>6, <1>7 DEF BackupInv, UpToDate, Has
  <2>2. CASE Holder(p)
    BY <1>10, <2>1, <2>2 DEF UpToDate, Has
  <2>3. CASE ~Holder(p)
    <3>1. config = Empty
      BY <1>3, <2>1 DEF IInv, BackupInv
    <3>2. PICK content \in {config} \cup {backups[s] : s \in 1..MaxSecond} : UpToDate(content)
      BY <2>1 DEF IInv, BackupInv
    <3>3. CASE content = config
      <4>1. \A q \in Procs : ~(proc'[q].wrote > 0)
        BY <1>5, <2>3, <3>1, <3>2, <3>3 DEF UpToDate, Has, Empty
      <4>. QED
        BY <4>1
    <3>4. CASE content \in {backups[s] : s \in 1..MaxSecond}
      BY <1>5, <2>3, <3>2, <3>4 DEF UpToDate
    <3>. QED
      BY <3>2, <3>3, <3>4
  <2>. QED
    BY <2>2, <2>3
<1>14. Apart' /\ NoStop' => Newest'
  <2>1. SUFFICES ASSUME Apart, NoStop PROVE Newest'
    BY <1>6
  <2>2. Newest
    BY <2>1 DEF IInv, KeyInv
  <2>3. CASE \E r \in Procs : r # p /\ Holder(r) /\ NewKey(r) = key
    BY <1>1, <2>3, Waits DEF Newest
  <2>4. CASE Holder(p) /\ NewKey(p) = key
    <3>1. ASSUME NEW r \in Procs
          PROVE  ~Holder(r)'
      <4>1. SUFFICES ASSUME Holder(r)' PROVE FALSE
        OBVIOUS
      <4>2. r # p /\ Holder(r)
        BY <1>8, <2>1, <4>1
      <4>3. NewKey(p) < NewKey(r)
        BY <1>3, <2>1, <2>4, <4>2 DEF IInv, ApartInv
      <4>4. NewKey(r) \in 1..key /\ key \in Nat
        BY <4>2, HeldKeys
      <4>. QED
        BY <2>4, <4>3, <4>4
    <3>2. config'.key.n = key'
      BY <1>1, <1>2, <1>3, <2>4 DEF NewKey
    <3>. QED
      BY <1>7, <2>1, <3>1, <3>2 DEF Newest
  <2>5. CASE \A r \in Procs : ~Holder(r)
    <3>1. \A r \in Procs : ~Holder(r)'
      BY <1>8, <2>1, <2>5
    <3>2. config'.key = run.parsed.key
      BY <1>2, <1>3, <2>5
    <3>3. run.parsed.key # None => run.parsed.key.n = key
      BY <1>3, <2>2, <2>5 DEF Newest
    <3>. QED
      BY <1>1, <1>7, <2>1, <3>1, <3>2, <3>3 DEF Newest
  <2>. QED
    BY <2>2, <2>3, <2>4, <2>5 DEF Newest
<1>15. /\ Apart' /\ NoStop' => \A q \in Procs : SinceBegun(q)'
       /\ RefusedInv'
  <2>1. NoStop' => NoStop
    BY <1>6
  <2>2. Apart' => Apart
    BY <1>6
  <2>. QED
    BY <1>1, <1>5, <2>1, <2>2, UpdateBegun
<1>. QED
  BY <1>9, <1>12, <1>13, <1>14, <1>15 DEF KeyInv

\* A process is interrupted: what it was about to write is lost (core/config.py).
LEMMA StopStep ==
  ASSUME IInv, Typed', NEW p \in Procs, Stop(p)
  PROVE  ApartInv' /\ FileInv' /\ BackupInv' /\ KeyInv' /\ RefusedInv'
<1>1. /\ p \in Busy /\ UNCHANGED <<key, config, backups>> /\ OthersSame(p)
      /\ Same(proc'[p], proc[p]) /\ proc'[p].partial = Empty /\ proc'[p].end = "stopped"
  BY Stops DEF server, disk
<1>2. ~NoStop' /\ ~Holder(p)' /\ ~At(p, "read")' /\ ~At(p, "open")' /\ ~At(p, "write")'
  BY <1>1, NoneAssumption DEF NoStop, Holder, At, Busy
<1>3. ASSUME NEW q \in Procs
      PROVE  /\ proc'[q].kind = proc[q].kind /\ proc'[q].wrote = proc[q].wrote
             /\ proc'[q].overlap = proc[q].overlap /\ proc'[q].replaced = proc[q].replaced
             /\ Holder(q)' => Holder(q) /\ NewKey(q)' = NewKey(q)
             /\ At(q, "read")' => At(q, "read")
             /\ At(q, "open")' => At(q, "open")
             /\ At(q, "write")' => At(q, "write")
  <2>1. CASE q = p
    BY <1>1, <1>2, <2>1 DEF Same
  <2>2. CASE q # p
    BY <1>1, <2>2, Waits DEF OthersSame
  <2>. QED
    BY <2>1, <2>2
<1>4. (Apart' <=> Apart) /\ (NoReplaced' <=> NoReplaced)
  BY <1>3 DEF Apart, Started, NoReplaced
<1>5. ApartInv'
  BY <1>3, <1>4 DEF IInv, ApartInv, Past
<1>6. FileInv' /\ KeyInv' /\ RefusedInv'
  BY <1>2 DEF FileInv, KeyInv, RefusedInv
<1>7. BackupInv'
  <2>1. SUFFICES ASSUME Apart, NoReplaced
                 PROVE  /\ \E content \in {config} \cup {backups[s] : s \in 1..MaxSecond} : UpToDate(content)'
                        /\ \A q \in Procs :
                             /\ At(q, "read") \/ At(q, "open") => \E s \in 1..MaxSecond : backups[s] = config
                             /\ At(q, "write") => config = Empty
    BY <1>1, <1>3, <1>4 DEF BackupInv
  <2>2. ASSUME NEW content, UpToDate(content)
        PROVE  UpToDate(content)'
    BY <1>3, <2>2 DEF UpToDate, Has
  <2>. QED
    BY <2>1, <2>2 DEF IInv, BackupInv
<1>. QED
  BY <1>5, <1>6, <1>7

\* Before any process is started, the file may hold the key and a token of the
\* person (core/config.py).
LEMMA Beginning ==
  ASSUME Init
  PROVE  IInv
<1>1. /\ MaxKey \in Nat \ {0} /\ MaxSecond \in Nat \ {0}
      /\ key = 1 /\ expired = {} /\ second = 1 /\ backups = [s \in 1..MaxSecond |-> None]
      /\ proc = [p \in Procs |-> Unstarted]
  BY BoundsAssumption DEF Init
<1>2. /\ Unstarted.kind = None /\ Unstarted.end = None /\ Unstarted.wrote = 0 /\ Unstarted.begun = 0
      /\ Unstarted.overlap = FALSE /\ Unstarted.replaced = FALSE /\ Unstarted.persist = FALSE
      /\ Unstarted.KEY = None /\ Unstarted.TOKEN = None
      /\ Unstarted.config = Empty /\ Unstarted.partial = Empty /\ Unstarted.parsed = Empty
      /\ Empty.key = None /\ Empty.token = None
  BY DEF Unstarted, Empty
<1>3. None # "api" /\ None # "refused" /\ None # "stopped"
  BY NoneAssumption
<1>4. \A p \in Procs : ~Holder(p) /\ ~At(p, "read") /\ ~At(p, "open") /\ ~At(p, "write")
  BY <1>1, <1>2 DEF Holder, At, Busy, Started
<1>5. /\ config \in Content
      /\ config.key # None => config.key = Key("user", 1)
      /\ config.token # None => config.token = Token("user", None, 0)
  <2>1. Key("user", 1) \in Keys /\ Token("user", None, 0) \in Tokens
    BY DEF Key, Keys, Token, Tokens, Owner
  <2>2. CASE config = Empty
    BY <1>2, <2>2, EmptyTyped
  <2>3. CASE config = [key |-> Key("user", 1), token |-> None]
    BY <2>1, <2>3 DEF Content
  <2>4. CASE config = [key |-> Key("user", 1), token |-> Token("user", None, 0)]
    BY <2>1, <2>4 DEF Content
  <2>. QED
    BY <2>2, <2>3, <2>4 DEF Init
<1>6. Typed
  BY <1>1, <1>5, EmptyTyped DEF Typed
<1>7. HasInv
  <2>1. Mine(config)
    <3>1. Key("user", 1).of = "user" /\ Key("user", 1).n = 1
      BY DEF Key
    <3>2. Token("user", None, 0).of = "user" /\ Token("user", None, 0).by = None
      BY DEF Token
    <3>. QED
      BY <1>1, <1>5, <3>1, <3>2, NoneAssumption DEF Mine, Issued
  <2>2. ASSUME NEW p \in Procs
        PROVE  Having(p)
    <3>1. proc[p] = Unstarted
      BY <1>1
    <3>2. Mine(Empty) /\ Issued(None)
      BY <1>2 DEF Mine, Issued
    <3>. QED
      BY <1>1, <1>2, <1>3, <3>1, <3>2 DEF Having, OwnUpTo
  <2>. QED
    BY <2>1, <2>2 DEF HasInv
<1>8. LocalInv
  BY <1>1, <1>2 DEF LocalInv, AtWork
<1>9. ApartInv /\ FileInv
  BY <1>1, <1>2, <1>4 DEF ApartInv, FileInv, UpToDate, Past
<1>10. BackupInv
  BY <1>1, <1>2, <1>4 DEF BackupInv, UpToDate
<1>11. KeyInv
  <2>1. config.key # None => config.key.n = key
    BY <1>1, <1>5 DEF Key
  <2>2. Newest
    BY <1>4, <2>1 DEF Newest
  <2>. QED
    BY <1>1, <1>2, <2>2 DEF KeyInv, SinceBegun
<1>12. RefusedInv
  BY <1>1, <1>2, <1>3 DEF RefusedInv
<1>. QED
  BY <1>6, <1>7, <1>8, <1>9, <1>10, <1>11, <1>12 DEF IInv

\* Every step of a client keeps the invariant (web/request.py, core/config.py).
LEMMA Inductive ==
  ASSUME IInv, [Next]_vars
  PROVE  IInv'
<1>1. Typed' /\ HasInv' /\ LocalInv'
  BY TypedStep, HasStep
<1>2. SUFFICES ApartInv' /\ FileInv' /\ BackupInv' /\ KeyInv' /\ RefusedInv'
  BY <1>1 DEF IInv
<1>3. CASE \/ Pass \/ Expire \/ Finished \/ UNCHANGED vars
           \/ \E p \in Procs : StartRequest(p) \/ StartLogin(p) \/ Again(p) \/ RefreshToken(p)
                               \/ GetToken(p) \/ Send(p)
  <2>1. Quiet
    BY <1>1, <1>3, QuietStep
  <2>2. ApartInv' /\ FileInv' /\ BackupInv' /\ (Apart' /\ NoStop' => Newest')
    BY <2>1, QuietKeeps
  <2>3. (Apart' /\ NoStop' => \A q \in Procs : SinceBegun(q)') /\ RefusedInv'
    BY <1>1, <1>3, <2>1, QuietBegun
  <2>. QED
    BY <2>2, <2>3 DEF KeyInv
<1>4. ASSUME NEW p \in Procs,
             Prompt(p) \/ Backup(p) \/ Read(p) \/ Open(p) \/ Write(p) \/ Stop(p)
      PROVE  ApartInv' /\ FileInv' /\ BackupInv' /\ KeyInv' /\ RefusedInv'
  BY <1>1, <1>4, PromptStep, BackupStep, ReadStep, OpenStep, WriteStep, StopStep
<1>. QED
  BY <1>3, <1>4 DEF Next
------------------------------------------------------------------------------
(***************************************************************************)
(* The properties follow.                                                  *)
(***************************************************************************)
\* A process that has come to an end has done what Done says (web/request.py).
LEMMA Ended ==
  ASSUME IInv, NEW p \in Started, p \notin Busy
  PROVE  Done(p) /\ proc[p] \in Run
BY DEF IInv, LocalInv, AtWork, Busy, Started, Typed

\* Keys and tokens are of whom they may be (web/request.py refresh_token).
LEMMA TypeCorrect == IInv => TypeOK
<1>1. SUFFICES ASSUME IInv PROVE TypeOK
  OBVIOUS
<1>2. /\ key \in 1..MaxKey /\ (config.key # None => config.key.n \in 1..key)
      /\ config.token # None => config.token.of = "user"
  BY <1>1 DEF IInv, Typed, HasInv, Mine, Issued
<1>3. ASSUME NEW p \in Started
      PROVE  /\ proc[p].end \in {None, "done", "expired", "refused", "stopped"}
             /\ p \in Busy <=> proc[p].todo # <<>>
             /\ At(p, "send") => proc[p].TOKEN # None
             /\ At(p, "get_token") => proc[p].KEY # None
  <2>1. p \in Procs
    BY DEF Started
  <2>2. CASE p \in Busy
    <3>1. /\ proc[p] \in Run /\ proc[p].todo # <<>>
          /\ Head(proc[p].todo) = "get_token" => proc[p].KEY # None
          /\ Head(proc[p].todo) = "send" => Continuing(p, <<"send">>)
      BY <1>1, <2>1, <2>2, Phases
    <3>2. Continuing(p, <<"send">>) => proc[p].TOKEN # None
      BY DEF Continuing
    <3>. QED
      BY <2>2, <3>1, <3>2 DEF At, Run
  <2>3. CASE p \notin Busy
    BY <1>1, <2>3, Ended DEF At, Done, Run
  <2>. QED
    BY <2>2, <2>3
<1>. QED
  BY <1>2, <1>3 DEF TypeOK

\* A request runs once at most (web/request.py authenticated).
LEMMA RunsOnce == IInv => RanOnce /\ FreshOnRepeat
<1>1. SUFFICES ASSUME IInv, NEW p \in Started
               PROVE  LET run == proc[p] IN
                 /\ run.ran <= 1 /\ run.sent <= 2
                 /\ run.kind # "login" /\ run.end = "done" => run.ran = 1
                 /\ run.ran = 1 => run.whole = (run.sent = 1)
                 /\ Len(run.tokens) = 2 => run.tokens[2].by = p /\ run.tokens[2] # run.tokens[1]
  BY DEF RanOnce, FreshOnRepeat
<1>2. CASE p \in Busy
  <2>1. /\ proc[p].ran = 0 /\ Len(proc[p].tokens) \in 0..1 /\ proc[p] \in Run /\ proc[p].end = None
    BY <1>1, <1>2, NotRun DEF Started
  <2>2. proc[p].sent \in 0..2
    BY <2>1 DEF Run
  <2>3. None # "done" /\ Len(proc[p].tokens) # 2
    BY <2>1, NoneAssumption
  <2>. QED
    BY <2>1, <2>2, <2>3
<1>3. CASE p \notin Busy
  <2>1. Done(p) /\ proc[p].ran \in 0..1 /\ proc[p].sent \in 0..2
    BY <1>1, <1>3, Ended DEF Run
  <2>. QED
    BY <2>1 DEF Done
<1>. QED
  BY <1>2, <1>3

\* A request runs as the person, or as the owner of what it was given
\* (web/request.py use_token, use_auth).
LEMMA RunsAs == IInv => AsWhom
<1>1. SUFFICES ASSUME IInv, NEW p \in Started, proc[p].ran = 1
               PROVE  LET run == proc[p] IN
                 /\ run.as = "other" => run.mode = "token" \/ run.lent
                 /\ run.as = "user" /\ run.mode = "token" => run.tokens[1] = Given /\ Given \in expired
                 /\ run.as = "user" /\ run.mode = "auth" => run.config.token # None \/ run.requests > 1
  BY DEF AsWhom
<1>2. p \notin Busy
  BY <1>1, NotRun DEF Started
<1>. QED
  BY <1>1, <1>2, Ended DEF Done

\* A key that was written is in the file, or in a backup (core/config.py update).
LEMMA KeysStay == IInv => KeyKept
<1>1. SUFFICES ASSUME IInv, NEW p \in Started, proc[p].wrote > 0, Apart
               PROVE  /\ (\A q \in Started : proc[q].end # "stopped") /\ ~Opened => Has(config, proc[p].wrote)
                      /\ (\A q \in Started : ~proc[q].replaced) =>
                           \E content \in {config} \cup {backups[s] : s \in 1..MaxSecond} :
                             Has(content, proc[p].wrote)
  BY DEF KeyKept
<1>2. ASSUME NEW q \in Procs, q \notin Started
      PROVE  proc[q].end # "stopped" /\ ~proc[q].replaced
  <2>1. proc[q] = Unstarted
    BY <1>1, <1>2 DEF IInv, HasInv, Having, Started
  <2>2. Unstarted.end = None /\ Unstarted.replaced = FALSE
    BY DEF Unstarted
  <2>. QED
    BY <2>1, <2>2, NoneAssumption
<1>3. (\A q \in Started : proc[q].end # "stopped") => NoStop
  BY <1>2 DEF NoStop
<1>4. (\A q \in Started : ~proc[q].replaced) => NoReplaced
  BY <1>2 DEF NoReplaced
<1>5. p \in Procs
  BY DEF Started
<1>. QED
  BY <1>1, <1>3, <1>4, <1>5 DEF IInv, FileInv, BackupInv, UpToDate

\* A program is refused for a cause (web/request.py refresh_token).
LEMMA Refusals == IInv => RefusedForCause
<1>1. SUFFICES ASSUME IInv, NEW p \in Started, proc[p].end = "refused"
               PROVE  key > proc[p].begun \/ ~Apart \/ \E q \in Started : proc[q].end = "stopped"
  BY DEF RefusedForCause
<1>2. key > proc[p].begun \/ ~Apart \/ ~NoStop
  BY <1>1 DEF IInv, RefusedInv, Started
<1>3. ASSUME NEW q \in Procs, proc[q].end = "stopped"
      PROVE  q \in Started
  <2>1. proc[q].kind = None => proc[q] = Unstarted
    BY <1>1 DEF IInv, HasInv, Having
  <2>2. Unstarted.end = None
    BY DEF Unstarted
  <2>. QED
    BY <1>3, <2>1, <2>2, NoneAssumption DEF Started
<1>. QED
  BY <1>2, <1>3 DEF NoStop

\* The invariant holds of every behaviour of the clients (web/request.py).
THEOREM Invariant == Spec => []IInv
<1>1. Init => IInv
  BY Beginning
<1>2. IInv /\ [Next]_vars => IInv'
  BY Inductive
<1>. QED
  BY <1>1, <1>2, PTL DEF Spec

\* A request runs at most once, whatever tokens expire and whatever answers are
\* lost, and just once when its program hears of success; it is repeated only with
\* a token that was issued for it (web/request.py authenticated).
THEOREM RequestRuns == Spec => []RequestInv
<1>1. IInv => RequestInv
  BY TypeCorrect, RunsOnce DEF RequestInv
<1>. QED
  BY <1>1, Invariant, PTL

\* A request runs as the person, or as the owner of the token or key it was given
\* (web/request.py use_token, use_auth).
THEOREM RanAs == Spec => []AsWhom
BY RunsAs, Invariant, PTL

\* A key that was written stays in the file, or in a backup of it, until a newer
\* is written, if updates do not overlap (core/config.py update).
THEOREM KeyStays == Spec => []KeyKept
BY KeysStay, Invariant, PTL

\* A program is refused only if its key was replaced since it was started, or
\* updates of the file overlapped, or one was interrupted (web/request.py
\* refresh_token).
THEOREM Refused == Spec => []RefusedForCause
BY Refusals, Invariant, PTL
==============================================================================
