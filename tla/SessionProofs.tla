---------------------------- MODULE SessionProofs ----------------------------
(***************************************************************************)
(* Proofs about what a session of Telegram is used for, for any number of  *)
(* sessions, requests, codes, campaigns and messages.  Login: a login is   *)
(* kept or lost in one piece, and no request is told otherwise.            *)
(* LiveReplies: the listener and the turns of the talks follow the rows.   *)
(***************************************************************************)
EXTENDS Login, LiveReplies, TLAPS

(*************** Login ***************)

\* A running task serves one request; without a pending login only a start is served.
Serves(s, kind) == \E r \in task[s].req : r.kind = kind

OneRequest ==
    \A s \in Running : \E r \in Requests : /\ task[s].req = {r}
                                           /\ r.kind # "start" => task[s].hash # 0

\* How far a task is, says what was asked of it and what the client's key has come to.
PlacesFit ==
    \A s \in Sessions :
        /\ task[s].at = "sent" => /\ Serves(s, "start") /\ task[s].code \in DOMAIN codes
                                  /\ codes[task[s].code] = client
        /\ task[s].at = "coded" => Serves(s, "confirm")
        /\ task[s].at \in {"signed", "enqueue"} => ~Serves(s, "start")
        /\ task[s].at = "signed" => key[client] = "signed in"

\* While there is a client, the row has its session, or none yet.
SessionKept ==
    /\ client # 0 => stored \in {0, client}
    /\ hash # 0 => hash \in DOMAIN codes /\ codes[hash] = stored
    /\ acct = "warming" => stored # 0 /\ key[stored] = "signed in"

\* Without trouble a key is signed in only while a task is about to store it, or has stored it.
SweepSpares ==
    /\ listed => acct = "created" \/ troubles > 0
    /\ acct = "created" => \A k \in Keys : key[k] = "signed in" =>
                               troubles > 0 \/ \E s \in Sessions : task[s].at = "signed"
    /\ swept = "signed in" => troubles > 0

\* Tasks that run at once serve requests of one kind, none of them a start, for the same code.
Alike ==
    \A s, t \in Running : s # t =>
        /\ ~Serves(s, "start")
        /\ \A kind \in Kinds : Serves(s, kind) => Serves(t, kind)
        /\ task[s].hash = task[t].hash

Passed == {s \in Sessions : task[s].at \in {"coded", "signed", "enqueue"}}

OnePasses ==
    /\ \A s, t \in Passed : s = t
    /\ \A s \in Passed : Serves(s, "confirm") => task[s].hash \in used
    /\ \A s \in Sessions : task[s].at \in {"coded", "signed"} => acct = "created"
    /\ \A s \in Sessions : task[s].at = "enqueue" => acct = "warming"
    /\ \A s \in Sessions : task[s].at = "coded" => key[client] = "coded"

\* An account that warms has no login left that could change it.
AllDone ==
    /\ hash = 0
    /\ \A s \in Running : ~Serves(s, "start") /\ (Serves(s, "confirm") => task[s].hash \in used)

InTurn ==
    /\ acct \in {"created", "warming"}
    /\ Alike
    /\ acct = "created" => \A s \in Running : task[s].hash = hash
    /\ \A s \in Sessions : task[s].at = "sent" => task[s].code = Len(codes)
    /\ OnePasses
    /\ acct = "warming" => AllDone

-----------------------------------------------------------------------------
\* The steps of a task, apart from the other steps.
Served == \E s \in Sessions : Step(s)

LEMMA LoginActions ==
  LoginNext <=>
    \/ \E kind \in Kinds : \E code \in Codes : Ask(kind, code)
    \/ \E to \in {"other", "gone"} : Changed(to)
    \/ ~listed /\ Served
    \/ Dies \/ SweepLists \/ SweepDeletes
BY DEF LoginNext, Served

LEMMA TaskSteps ==
  ASSUME NEW s \in Sessions
  PROVE  Step(s) <=>
    \/ \E r \in queue : Begin(s, r)
    \/ Get(s) \/ Flooded(s) \/ (\E w \in Words : Refused(s, w))
    \/ SendCode(s) \/ SignIn(s) \/ Password(s)
    \/ Pend(s) \/ NeedPassword(s) \/ Finish(s) \/ Succeed(s)
BY DEF Step

LEMMA Retried ==
  ASSUME LoginAssumption, NEW r \in Requests, r.tries < MaxTries_
  PROVE  [r EXCEPT !.tries = @ + 1] \in Requests
<1>1. r.tries + 1 \in 1..MaxTries_
  BY DEF LoginAssumption, Requests
<1> QED BY <1>1 DEF Requests

Tasks == [at: Places, req: SUBSET Requests, hash: Codes, code: Codes]

\* The tasks that hold the client, before and after a step of s.
LEMMA HoldersMove ==
  ASSUME LoginTypeOK, NEW s \in Sessions, NEW x, task' = [task EXCEPT ![s] = x]
  PROVE  /\ x.at \in {"call", "sent", "coded", "signed"} => Holders' = Holders \cup {s}
         /\ x.at \notin {"call", "sent", "coded", "signed"} => Holders' = Holders \ {s}
         /\ x.at # "idle" => Running' = Running \cup {s}
         /\ x.at = "idle" => Running' = Running \ {s}
         /\ \A t \in Sessions : task'[t] = IF t = s THEN x ELSE task[t]
         /\ x \in Tasks => task' \in [Sessions -> Tasks]
         /\ (x.at \in {"call", "sent", "coded", "signed"} <=> s \in Holders) => Holders' = Holders
BY DEF LoginTypeOK, Holders, Running, Tasks

LoginType == LoginTypeOK /\ codes \in Seq(Keys) /\ Len(codes) <= MaxCodes

LEMMA MovesTo ==
  ASSUME LoginTypeOK, NEW s \in Sessions, NEW place \in Places
  PROVE  /\ [task[s] EXCEPT !.at = place] \in Tasks
         /\ [task[s] EXCEPT !.at = place].at = place
         /\ [task[s] EXCEPT !.at = place].req = task[s].req
         /\ [task[s] EXCEPT !.at = place].hash = task[s].hash
         /\ [task[s] EXCEPT !.at = place].code = task[s].code
         /\ Moves(s, place) <=> task' = [task EXCEPT ![s] = [task[s] EXCEPT !.at = place]]
BY DEF LoginTypeOK, Tasks, Moves

LEMMA IdleTask ==
  LoginAssumption => Idle \in Tasks /\ Idle.at = "idle" /\ Idle.req = {}
BY DEF Idle, Tasks, Places, Codes, LoginAssumption

\* A task that fails leaves nothing but its request.
LEMMA AgainKeeps ==
  ASSUME LoginAssumption, LoginTypeOK, NEW s \in Sessions, Again(s)
  PROVE  /\ queue' \subseteq Requests /\ blurred' = TRUE /\ word' = word
         /\ task' = [task EXCEPT ![s] = Idle]
<1>1. task[s].req \subseteq Requests
  BY DEF LoginTypeOK
<1>2. \A r \in task[s].req : r.tries < MaxTries_ => [r EXCEPT !.tries = @ + 1] \in Requests
  BY <1>1, Retried
<1> QED BY <1>2 DEF Again, Over, LoginTypeOK

LEMMA LoginTypeKeeps ==
  ASSUME LoginAssumption, LoginType, OneRequest, LoginNext PROVE LoginType'
<1> USE DEF LoginType, LoginAssumption
<1>t. task \in [Sessions -> Tasks] /\ LoginTypeOK
  BY DEF LoginTypeOK, Tasks
<1>h. (client # 0) = (Holders # {})
  BY DEF LoginTypeOK
<1>r. ASSUME NEW s \in Sessions, NEW x, task' = [task EXCEPT ![s] = x],
             x.at \notin {"call", "sent", "coded", "signed"}, client' = Rests(s)
      PROVE  (client' # 0) = (Holders' # {}) /\ client' \in Keys \cup {0}
  <2>1. Holders' = Holders \ {s}
    BY <1>r, HoldersMove, <1>t
  <2> QED BY <1>h, <1>r, <2>1 DEF Rests, LoginTypeOK
<1>1. CASE \E kind \in Kinds : \E code \in Codes : Ask(kind, code)
  <2> PICK kind \in Kinds, code \in Codes : Ask(kind, code)
    BY <1>1
  <2>1. [kind |-> kind, code |-> code, tries |-> 1] \in Requests
    BY DEF Requests
  <2> QED BY <2>1 DEF Ask, LoginTypeOK, row, telegram, sweep, Holders
<1>2. CASE \E to \in {"other", "gone"} : Changed(to)
  BY <1>2 DEF Changed, Trouble, LoginTypeOK, telegram, sweep, Holders
<1>3. CASE Dies
  <2>1. \A s \in Sessions : task[s].req \subseteq Requests
    BY <1>t DEF Tasks
  <2>2. \A r \in UNION {task[s].req : s \in Sessions} :
            r.tries < MaxTries_ => [r EXCEPT !.tries = @ + 1] \in Requests
    BY <2>1, Retried
  <2>3. queue' \subseteq Requests
    BY <1>3, <2>2 DEF Dies, LoginTypeOK
  <2>4. task' \in [Sessions -> Tasks] /\ Holders' = {} /\ client' = 0
    BY <1>3, IdleTask DEF Dies, Holders
  <2>5. UNCHANGED <<row, telegram, word, swept, asked>> /\ troubles' \in 0..MaxTrouble
    BY <1>3 DEF Dies, Trouble, LoginTypeOK
  <2>6. listed' \in BOOLEAN /\ blurred' \in BOOLEAN
    BY <1>3 DEF Dies
  <2> QED BY <2>3, <2>4, <2>5, <2>6 DEF LoginTypeOK, row, telegram, Tasks
<1>4. CASE SweepLists
  BY <1>4 DEF SweepLists, LoginTypeOK, row, telegram, Holders
<1>5. CASE SweepDeletes
  <2>1. swept' \in KeyStates
    BY <1>5 DEF SweepDeletes, LoginTypeOK
  <2> QED BY <1>5, <2>1 DEF SweepDeletes, LoginTypeOK, telegram, Holders
<1>6. CASE Served
  <2> PICK s \in Sessions : Step(s)
    BY <1>6 DEF Served
  <2>1. CASE \E r \in queue : Begin(s, r)
    <3> PICK r \in queue : Begin(s, r)
      BY <2>1
    <3>0. r \in Requests
      BY DEF LoginTypeOK
    <3>1. CASE acct = "gone" \/ (r.kind # "start" /\ hash = 0)
      BY <3>1 DEF Begin, Says, LoginTypeOK, row, telegram, sweep, Words, Holders
    <3>2. CASE ~(acct = "gone" \/ (r.kind # "start" /\ hash = 0))
      <4> DEFINE x == [at |-> "get", req |-> {r}, hash |-> hash, code |-> 0]
      <4>1. task' = [task EXCEPT ![s] = x] /\ UNCHANGED word
        BY <3>2 DEF Begin
      <4>2. x \in Tasks /\ x.at = "get"
        BY <3>0 DEF Tasks, Places, LoginTypeOK, Codes
      <4>3. s \notin Holders
        BY DEF Begin, Idle, Holders
      <4> HIDE DEF x
      <4>4. Holders' = Holders /\ task' \in [Sessions -> Tasks]
        BY <4>1, <4>2, <4>3, <1>t, HoldersMove
      <4> QED BY <4>1, <4>4 DEF Begin, LoginTypeOK, row, telegram, sweep, Tasks
    <3> QED BY <3>1, <3>2
  <2>2. CASE Get(s)
    <3>0. UNCHANGED <<row, codes, used, sweep, asked>> /\ s \notin Holders
      BY <2>2 DEF Get, Holders
    <3>1. CASE Moves(s, "call") /\ UNCHANGED <<queue, word, blurred, troubles>>
               /\ client' \in Keys /\ key' \in [Keys -> KeyStates]
      <4> DEFINE x == [task[s] EXCEPT !.at = "call"]
      <4>a. task' = [task EXCEPT ![s] = x] /\ x \in Tasks /\ x.at = "call"
        BY <3>1, <1>t, MovesTo DEF Places
      <4> HIDE DEF x
      <4>1. task' \in [Sessions -> Tasks] /\ Holders' # {}
        BY <4>a, <1>t, HoldersMove
      <4>2. client' # 0
        BY <3>1 DEF Keys
      <4> QED BY <3>0, <3>1, <4>1, <4>2 DEF LoginTypeOK, row, sweep, Tasks
    <3>2. CASE Again(s) /\ UNCHANGED <<client, key>> /\ troubles' \in 0..MaxTrouble
      <4>1. /\ queue' \subseteq Requests /\ blurred' = TRUE /\ word' = word
            /\ task' = [task EXCEPT ![s] = Idle]
        BY <3>2, <1>t, AgainKeeps
      <4>a. task' = [task EXCEPT ![s] = Idle] /\ Idle \in Tasks /\ Idle.at = "idle"
        BY <4>1, IdleTask
      <4>2. task' \in [Sessions -> Tasks] /\ Holders' = Holders
        BY <3>0, <4>a, <1>t, HoldersMove
      <4> QED BY <3>0, <3>2, <4>1, <4>2 DEF LoginTypeOK, row, sweep, Tasks
    <3>3. ASSUME client = 0, stored = 0,
                 \E k \in Keys : /\ key[k] = "unused" /\ \A j \in Keys : j < k => key[j] # "unused"
                                 /\ client' = k /\ key' = [key EXCEPT ![k] = "new"]
          PROVE  client' \in Keys /\ key' \in [Keys -> KeyStates]
      BY <3>3 DEF LoginTypeOK, KeyStates
    <3>4. ASSUME client # 0, UNCHANGED <<client, key>>
          PROVE  client' \in Keys /\ key' \in [Keys -> KeyStates]
      BY <3>4 DEF LoginTypeOK
    <3>5. ASSUME client = 0, stored # 0, client' = stored, UNCHANGED key
          PROVE  client' \in Keys /\ key' \in [Keys -> KeyStates]
      BY <3>5 DEF LoginTypeOK
    <3>6. Trouble => troubles' \in 0..MaxTrouble
      BY DEF Trouble, LoginTypeOK
    <3>7. UNCHANGED troubles => troubles' \in 0..MaxTrouble
      BY DEF LoginTypeOK
    <3> QED BY <2>2, <3>1, <3>2, <3>3, <3>4, <3>5, <3>6, <3>7 DEF Get
  <2>3. CASE Flooded(s)
    <3>1. /\ queue' \subseteq Requests /\ blurred' = TRUE /\ word' = word
          /\ task' = [task EXCEPT ![s] = Idle]
      BY <2>3, <1>t, AgainKeeps DEF Flooded
    <3>2. task' \in [Sessions -> Tasks]
      BY <3>1, <1>t, IdleTask
    <3>3. (client' # 0) = (Holders' # {}) /\ client' \in Keys \cup {0}
      BY <1>r, <2>3, <3>1, IdleTask DEF Flooded
    <3> QED BY <2>3, <3>1, <3>2, <3>3 DEF Flooded, Trouble, LoginTypeOK, row, telegram, sweep, Tasks
  <2>4. CASE \E w \in Words : Refused(s, w)
    <3> PICK w \in Words : Refused(s, w)
      BY <2>4
    <3>1. task' = [task EXCEPT ![s] = Idle] /\ task' \in [Sessions -> Tasks]
      BY <1>t, IdleTask DEF Refused, Over
    <3>3. (client' # 0) = (Holders' # {}) /\ client' \in Keys \cup {0}
      BY <1>r, <3>1, IdleTask DEF Refused
    <3> QED BY <3>1, <3>3 DEF Refused, Says, LoginTypeOK, row, telegram, sweep, Tasks
  <2>5. CASE SendCode(s)
    <3> DEFINE x == [task[s] EXCEPT !.at = "sent", !.code = Len(codes) + 1]
    <3>0. Len(codes) \in Nat /\ Len(codes) + 1 \in Codes
      BY <2>5 DEF SendCode, Codes
    <3>1. x \in Tasks /\ x.at = "sent"
      BY <1>t, <3>0 DEF Tasks, Places
    <3>2. task' = [task EXCEPT ![s] = x] /\ s \in Holders
      BY <2>5 DEF SendCode, Holders
    <3> HIDE DEF x
    <3>3. Holders' = Holders /\ task' \in [Sessions -> Tasks]
      BY <3>1, <3>2, <1>t, HoldersMove
    <3>4. client \in Keys
      BY <1>h, <3>2 DEF LoginTypeOK
    <3>5. codes' \in Seq(Keys) /\ Len(codes') <= MaxCodes
      BY <2>5, <3>4 DEF SendCode
    <3> QED BY <2>5, <3>3, <3>5 DEF SendCode, LoginTypeOK, row, sweep, Tasks
  <2>6. CASE SignIn(s)
    <3>1. \E place \in {"signed", "coded"} : Moves(s, place)
      BY <2>6 DEF SignIn
    <3>2. s \in Holders
      BY <2>6 DEF SignIn, Holders
    <3>a. PICK x \in Tasks : task' = [task EXCEPT ![s] = x] /\ x.at \in {"signed", "coded"}
      <4>1. CASE Moves(s, "signed")
        BY <4>1, <1>t, MovesTo DEF Places
      <4>2. CASE Moves(s, "coded")
        BY ZenonT(30), <4>2, <1>t, MovesTo DEF Places
      <4> QED BY <3>1, <4>1, <4>2
    <3>3. Holders' = Holders /\ task' \in [Sessions -> Tasks]
      BY <3>a, <3>2, <1>t, HoldersMove
    <3>4. key' \in [Keys -> KeyStates]
      BY <2>6 DEF SignIn, LoginTypeOK, KeyStates
    <3> QED BY <2>6, <3>3, <3>4 DEF SignIn, LoginTypeOK, row, sweep, Tasks
  <2>7. CASE Password(s)
    <3>1. Moves(s, "signed") /\ s \in Holders
      BY <2>7 DEF Password, Holders
    <3>a. PICK x \in Tasks : task' = [task EXCEPT ![s] = x] /\ x.at = "signed"
      BY <3>1, <1>t, MovesTo DEF Places
    <3>3. Holders' = Holders /\ task' \in [Sessions -> Tasks]
      BY <3>a, <3>1, <1>t, HoldersMove
    <3>4. key' \in [Keys -> KeyStates]
      BY <2>7 DEF Password, LoginTypeOK, KeyStates
    <3> QED BY <2>7, <3>3, <3>4 DEF Password, LoginTypeOK, row, sweep, Tasks
  <2>8. CASE Pend(s)
    <3>1. task' = [task EXCEPT ![s] = Idle] /\ queue' \subseteq Requests /\ word' \in Words /\ blurred' \in BOOLEAN
      <4>1. CASE acct = "gone"
        BY <2>8, <4>1, <1>t, AgainKeeps DEF Pend, LoginTypeOK
      <4>2. CASE acct # "gone"
        BY <2>8, <4>2 DEF Pend, Over, Says, Words, LoginTypeOK
      <4> QED BY <4>1, <4>2
    <3>2. (client' # 0) = (Holders' # {}) /\ client' \in Keys \cup {0}
      BY <1>r, <2>8, <3>1, IdleTask DEF Pend
    <3>3. hash' \in Codes /\ stored' \in Keys \cup {0} /\ UNCHANGED acct
      BY <2>8, <1>t DEF Pend, row, LoginTypeOK, Tasks
    <3>4. task' \in [Sessions -> Tasks]
      BY <3>1, <1>t, IdleTask
    <3> QED BY <2>8, <3>1, <3>2, <3>3, <3>4 DEF Pend, LoginTypeOK, telegram, sweep, Tasks
  <2>9. CASE NeedPassword(s)
    <3>1. task' = [task EXCEPT ![s] = Idle] /\ task' \in [Sessions -> Tasks]
      BY <2>9, <1>t, IdleTask DEF NeedPassword, Over
    <3>2. (client' # 0) = (Holders' # {}) /\ client' \in Keys \cup {0}
      BY <1>r, <2>9, <3>1, IdleTask DEF NeedPassword
    <3>3. stored' \in Keys \cup {0} /\ UNCHANGED <<acct, hash>>
      BY <2>9 DEF NeedPassword, row, LoginTypeOK
    <3> QED BY <2>9, <3>1, <3>2, <3>3 DEF NeedPassword, Says, Words, LoginTypeOK, telegram, sweep, Tasks
  <2>10. CASE Finish(s)
    <3>1. \E x \in Tasks : x.at \in {"idle", "enqueue"} /\ task' = [task EXCEPT ![s] = x]
      <4>1. CASE acct # "created"
        BY <2>10, <4>1, <1>t, AgainKeeps, IdleTask DEF Finish
      <4>2. CASE acct = "created"
        BY ZenonT(30), <2>10, <4>2, <1>t, MovesTo DEF Finish, Places
      <4> QED BY <4>1, <4>2
    <3>2. queue' \subseteq Requests /\ word' \in Words /\ blurred' \in BOOLEAN
      <4>1. CASE acct # "created"
        BY <2>10, <4>1, <1>t, AgainKeeps DEF Finish, LoginTypeOK
      <4>2. CASE acct = "created"
        BY <2>10, <4>2 DEF Finish, LoginTypeOK
      <4> QED BY <4>1, <4>2
    <3>3. (client' # 0) = (Holders' # {}) /\ client' \in Keys \cup {0}
      BY <1>r, <2>10, <3>1 DEF Finish
    <3>4. task' \in [Sessions -> Tasks]
      BY <3>1, <1>t
    <3>5. acct' \in {"created", "warming", "other", "gone"} /\ hash' \in Codes /\ stored' \in Keys \cup {0}
      BY <2>10 DEF Finish, row, LoginTypeOK, Codes
    <3> QED BY <2>10, <3>2, <3>3, <3>4, <3>5 DEF Finish, LoginTypeOK, telegram, sweep, Tasks
  <2>11. CASE Succeed(s)
    <3>1. task' = [task EXCEPT ![s] = Idle] /\ task' \in [Sessions -> Tasks]
      BY <2>11, <1>t, IdleTask DEF Succeed, Over
    <3>2. Holders' = Holders
      BY <2>11, <3>1, <1>t, IdleTask, HoldersMove DEF Succeed, Holders
    <3> QED BY <2>11, <3>1, <3>2 DEF Succeed, Says, Words, LoginTypeOK, row, telegram, sweep, Tasks
  <2> QED BY <2>1, <2>2, <2>3, <2>4, <2>5, <2>6, <2>7, <2>8, <2>9, <2>10, <2>11, TaskSteps
<1> QED BY <1>1, <1>2, <1>3, <1>4, <1>5, <1>6, LoginActions
-----------------------------------------------------------------------------
(* What a step does to the tasks *)

LEMMA OthersStay ==
  ASSUME LoginTypeOK, NEW s \in Sessions, NEW x, task' = [task EXCEPT ![s] = x]
  PROVE  /\ task'[s] = x
         /\ \A t \in Sessions : t # s => task'[t] = task[t]
         /\ \A t \in Sessions, kind \in Kinds : t # s => (Serves(t, kind)' <=> Serves(t, kind))
         /\ \A kind \in Kinds : x.req = task[s].req => (Serves(s, kind)' <=> Serves(s, kind))
BY DEF LoginTypeOK, Serves

LEMMA MoveFacts ==
  ASSUME LoginTypeOK, NEW s \in Sessions, NEW place \in Places, Moves(s, place)
  PROVE  /\ task'[s].at = place /\ task'[s].req = task[s].req
         /\ task'[s].hash = task[s].hash /\ task'[s].code = task[s].code
         /\ \A t \in Sessions : t # s => task'[t] = task[t]
         /\ \A t \in Sessions, kind \in Kinds : Serves(t, kind)' <=> Serves(t, kind)
BY DEF LoginTypeOK, Moves, Serves

LEMMA OverFacts ==
  ASSUME LoginTypeOK, NEW s \in Sessions, Over(s)
  PROVE  /\ task'[s] = Idle /\ task'[s].at = "idle" /\ Running' = Running \ {s}
         /\ \A t \in Sessions : t # s => task'[t] = task[t]
         /\ \A t \in Sessions, kind \in Kinds : t # s => (Serves(t, kind)' <=> Serves(t, kind))
BY DEF LoginTypeOK, Over, Serves, Idle, Running

\* A task that lets go of the client leaves it to those that hold it.
LEMMA RestsFacts ==
  ASSUME LoginTypeOK, NEW s \in Sessions, client' = Rests(s)
  PROVE  /\ client' \in {0, client}
         /\ \A t \in Sessions : t # s /\ task[t].at \in {"call", "sent", "coded", "signed"} => client' = client
BY DEF Rests, Holders

\* What each task is after a step of s.
StepEffect(s) ==
    \/ UNCHANGED task
    \/ /\ task[s] = Idle /\ task' = [task EXCEPT ![s] = [at |-> "get", req |-> task'[s].req, hash |-> hash, code |-> 0]]
       /\ \E r \in Requests : task'[s].req = {r} /\ (r.kind # "start" => hash # 0)
    \/ Over(s)
    \/ /\ task[s].at # "idle"
       /\ task'[s].at \in Places /\ task'[s].req = task[s].req /\ task'[s].hash = task[s].hash
       /\ \A t \in Sessions : t # s => task'[t] = task[t]
       /\ \A t \in Sessions, kind \in Kinds : Serves(t, kind)' <=> Serves(t, kind)

LEMMA StepTasks ==
  ASSUME LoginAssumption, LoginTypeOK, NEW s \in Sessions, Step(s)
  PROVE  StepEffect(s)
<1>1. CASE \E r \in queue : Begin(s, r)
  <2> PICK r \in queue : Begin(s, r)
    BY <1>1
  <2>1. CASE acct = "gone" \/ (r.kind # "start" /\ hash = 0)
    BY <2>1 DEF Begin, StepEffect
  <2>2. CASE ~(acct = "gone" \/ (r.kind # "start" /\ hash = 0))
    <3> DEFINE x == [at |-> "get", req |-> {r}, hash |-> hash, code |-> 0]
    <3>1. task' = [task EXCEPT ![s] = x] /\ task[s] = Idle
      BY <2>2 DEF Begin
    <3>2. x.req = {r}
      OBVIOUS
    <3>3. task'[s] = x
      BY <3>1 DEF LoginTypeOK
    <3>4. r \in Requests
      BY DEF LoginTypeOK
    <3> QED BY <2>2, <3>1, <3>2, <3>3, <3>4 DEF StepEffect
  <2> QED BY <2>1, <2>2
<1>2. CASE Again(s) \/ Over(s)
  BY <1>2 DEF Again, StepEffect
<1>3. ASSUME NEW place \in Places, Moves(s, place), task[s].at # "idle"
      PROVE  StepEffect(s)
  BY <1>3, MoveFacts DEF StepEffect
<1>4. CASE Get(s)
  BY <1>2, <1>3, <1>4 DEF Get, Places
<1>5. CASE Flooded(s) \/ (\E w \in Words : Refused(s, w))
  BY <1>2, <1>5 DEF Flooded, Refused
<1>6. CASE SendCode(s)
  <2>1. task[s].at # "idle" /\ task' = [task EXCEPT ![s] = [@ EXCEPT !.at = "sent", !.code = Len(codes) + 1]]
    BY <1>6 DEF SendCode
  <2>2. task'[s].at = "sent" /\ task'[s].req = task[s].req /\ task'[s].hash = task[s].hash
    BY <2>1 DEF LoginTypeOK
  <2>3. \A t \in Sessions : t # s => task'[t] = task[t]
    BY <2>1 DEF LoginTypeOK
  <2>4. \A t \in Sessions, kind \in Kinds : Serves(t, kind)' <=> Serves(t, kind)
    BY <2>2, <2>3 DEF Serves
  <2> QED BY <2>1, <2>2, <2>3, <2>4 DEF StepEffect, Places
<1>7. CASE SignIn(s)
  BY <1>3, <1>7 DEF SignIn, Places
<1>8. CASE Password(s)
  BY <1>3, <1>8 DEF Password, Places
<1>9. CASE Pend(s)
  BY <1>2, <1>9 DEF Pend
<1>10. CASE NeedPassword(s)
  BY <1>2, <1>10 DEF NeedPassword
<1>11. CASE Finish(s)
  BY <1>2, <1>3, <1>11 DEF Finish, Places
<1>12. CASE Succeed(s)
  BY <1>2, <1>12 DEF Succeed
<1> QED BY <1>1, <1>4, <1>5, <1>6, <1>7, <1>8, <1>9, <1>10, <1>11, <1>12, TaskSteps

LEMMA OneRequestKeeps ==
  ASSUME LoginAssumption, LoginTypeOK, OneRequest, LoginNext PROVE OneRequest'
<1>a. ASSUME UNCHANGED task PROVE OneRequest'
  BY <1>a DEF OneRequest, Running
<1>1. CASE \E kind \in Kinds : \E code \in Codes : Ask(kind, code)
  BY <1>1, <1>a DEF Ask
<1>2. CASE \E to \in {"other", "gone"} : Changed(to)
  BY <1>2, <1>a DEF Changed
<1>3. CASE Dies
  BY <1>3 DEF Dies, OneRequest, Running, Idle
<1>4. CASE SweepLists \/ SweepDeletes
  BY <1>4, <1>a DEF SweepLists, SweepDeletes
<1>5. CASE Served
  <2> PICK s \in Sessions : Step(s)
    BY <1>5 DEF Served
  <2>1. StepEffect(s)
    BY StepTasks
  <2>2. CASE Over(s)
    BY <2>2, OverFacts DEF OneRequest, Running
  <2>3. CASE /\ task[s] = Idle /\ task' = [task EXCEPT ![s] = [at |-> "get", req |-> task'[s].req, hash |-> hash, code |-> 0]]
             /\ \E r \in Requests : task'[s].req = {r} /\ (r.kind # "start" => hash # 0)
    <3> DEFINE x == [at |-> "get", req |-> task'[s].req, hash |-> hash, code |-> 0]
    <3>1. task' = [task EXCEPT ![s] = x] /\ x.hash = hash
      BY <2>3
    <3>2. task'[s].hash = hash /\ \A t \in Sessions : t # s => task'[t] = task[t]
      BY <3>1, OthersStay
    <3> QED BY <2>3, <3>2 DEF OneRequest, Running
  <2>4. CASE /\ task[s].at # "idle"
             /\ task'[s].at \in Places /\ task'[s].req = task[s].req /\ task'[s].hash = task[s].hash
             /\ \A t \in Sessions : t # s => task'[t] = task[t]
    BY <2>4 DEF OneRequest, Running
  <2> QED BY <1>a, <2>1, <2>2, <2>3, <2>4 DEF StepEffect
<1> QED BY <1>1, <1>2, <1>3, <1>4, <1>5, LoginActions
-----------------------------------------------------------------------------
(* The key and the row *)

HoldPlaces == {"call", "sent", "coded", "signed"}

\* The client of those that hold it stays, whatever a step of s does.
LEMMA ClientStays ==
  ASSUME LoginTypeOK, NEW s \in Sessions, Step(s)
  PROVE  \A t \in Sessions : t # s /\ task[t].at \in HoldPlaces => client' = client /\ client # 0
<1> USE DEF HoldPlaces
<1>0. \A t \in Sessions : task[t].at \in HoldPlaces => client # 0
  BY DEF LoginTypeOK, Holders
<1>1. CASE \E r \in queue : Begin(s, r)
  BY <1>0, <1>1 DEF Begin
<1>2. CASE Get(s)
  BY <1>0, <1>2 DEF Get
<1>3. CASE client' = Rests(s)
  BY <1>0, <1>3, RestsFacts
<1>4. CASE SendCode(s) \/ SignIn(s) \/ Password(s) \/ Succeed(s)
  BY <1>0, <1>4 DEF SendCode, SignIn, Password, Succeed
<1>5. CASE Flooded(s) \/ (\E w \in Words : Refused(s, w)) \/ Pend(s) \/ NeedPassword(s) \/ Finish(s)
  BY <1>3, <1>5 DEF Flooded, Refused, Pend, NeedPassword, Finish
<1> QED BY <1>1, <1>2, <1>4, <1>5, TaskSteps

\* A key that is signed in stays so; new keys and codes disturb none that are in use.
LEMMA KeysGrow ==
  ASSUME LoginType, NEW s \in Sessions, Step(s)
  PROVE  /\ \A k \in Keys : key[k] = "signed in" => key'[k] = "signed in"
         /\ \A i \in DOMAIN codes : i \in DOMAIN codes' /\ codes'[i] = codes[i]
<1> USE DEF LoginType
<1>t. codes \in Seq(Keys) /\ key \in [Keys -> KeyStates]
  BY DEF LoginTypeOK
<1>1. CASE UNCHANGED telegram
  BY <1>1 DEF telegram
<1>2. CASE Get(s)
  <2>1. UNCHANGED codes
    BY <1>2 DEF Get
  <2>2. UNCHANGED key \/ \E k \in Keys : key[k] = "unused" /\ key' = [key EXCEPT ![k] = "new"]
    BY <1>2 DEF Get
  <2> QED BY <1>t, <2>1, <2>2
<1>3. CASE SendCode(s)
  <2>1. client \in Keys /\ codes' = Append(codes, client)
    BY <1>3 DEF SendCode, LoginTypeOK, Holders
  <2>2. UNCHANGED key
    BY <1>3 DEF SendCode
  <2>3. \A i \in DOMAIN codes : i \in DOMAIN codes' /\ codes'[i] = codes[i]
    BY <1>t, <2>1
  <2> QED BY <2>2, <2>3
<1>4. CASE SignIn(s) \/ Password(s)
  <2>1. UNCHANGED codes
    BY <1>4 DEF SignIn, Password
  <2>2. \/ key' = [key EXCEPT ![client] = "signed in"]
        \/ key[client] # "signed in" /\ key' = [key EXCEPT ![client] = "coded"]
    BY <1>4 DEF SignIn, Password
  <2> QED BY <1>t, <2>1, <2>2
<1>5. CASE \E r \in queue : Begin(s, r)
  BY <1>1, <1>5 DEF Begin
<1>6. CASE Flooded(s) \/ (\E w \in Words : Refused(s, w)) \/ Pend(s) \/ NeedPassword(s) \/ Finish(s) \/ Succeed(s)
  BY <1>1, <1>6 DEF Flooded, Refused, Pend, NeedPassword, Finish, Succeed
<1> QED BY <1>2, <1>3, <1>4, <1>5, <1>6, TaskSteps

\* What PlacesFit says of a task.
Fits(t) ==
    /\ task[t].at = "sent" => /\ Serves(t, "start") /\ task[t].code \in DOMAIN codes
                              /\ codes[task[t].code] = client
    /\ task[t].at = "coded" => Serves(t, "confirm")
    /\ task[t].at \in {"signed", "enqueue"} => ~Serves(t, "start")
    /\ task[t].at = "signed" => key[client] = "signed in"

LEMMA PlacesKeep ==
  ASSUME LoginAssumption, LoginType, OneRequest, PlacesFit, LoginNext PROVE PlacesFit'
<1>t. LoginTypeOK
  BY DEF LoginType
<1>a. ASSUME UNCHANGED <<task, client, key, codes>> PROVE PlacesFit'
  BY <1>a DEF PlacesFit, Serves
<1>1. CASE \E kind \in Kinds : \E code \in Codes : Ask(kind, code)
  BY <1>1, <1>a DEF Ask, telegram
<1>2. CASE \E to \in {"other", "gone"} : Changed(to)
  BY <1>2, <1>a DEF Changed, telegram
<1>3. CASE Dies
  BY <1>3 DEF Dies, PlacesFit, Idle
<1>4. CASE SweepLists \/ SweepDeletes
  BY <1>4, <1>a DEF SweepLists, SweepDeletes, telegram
<1>5. CASE Served
  <2> PICK s \in Sessions : Step(s)
    BY <1>5 DEF Served
  <2>0. \A t \in Sessions : Fits(t)
    BY DEF PlacesFit, Fits
  <2>1. \A t \in Sessions : t # s /\ task[t].at \in HoldPlaces => client' = client /\ client # 0
    BY <1>t, ClientStays
  <2>k. /\ \A k \in Keys : key[k] = "signed in" => key'[k] = "signed in"
        /\ \A i \in DOMAIN codes : i \in DOMAIN codes' /\ codes'[i] = codes[i]
    BY KeysGrow
  <2>b. client \in Keys \cup {0}
    BY <1>t DEF LoginTypeOK
  <2>2. ASSUME NEW t \in Sessions, t # s, task'[t] = task[t],
               \A kind \in Kinds : Serves(t, kind)' <=> Serves(t, kind)
        PROVE  Fits(t)'
    <3>1. Fits(t) /\ "start" \in Kinds /\ "confirm" \in Kinds
      BY <2>0 DEF Kinds
    <3>2. CASE task[t].at \in HoldPlaces
      <4>1. client' = client /\ client \in Keys
        BY <2>1, <2>2, <2>b, <3>2
      <4> QED BY <2>2, <2>k, <3>1, <4>1 DEF Fits
    <3>3. CASE task[t].at \notin HoldPlaces
      BY <2>2, <3>1, <3>3 DEF Fits, HoldPlaces
    <3> QED BY <3>2, <3>3
  <2>3. ASSUME Fits(s)', \A t \in Sessions : t # s => task'[t] = task[t]
        PROVE  PlacesFit'
    <3>1. \A t \in Sessions, kind \in Kinds : t # s => (Serves(t, kind)' <=> Serves(t, kind))
      BY <2>3 DEF Serves
    <3>2. \A t \in Sessions : t # s => Fits(t)'
      BY <2>2, <2>3, <3>1
    <3> QED BY <2>3, <3>2 DEF PlacesFit, Fits
  <2>4. CASE Over(s)
    <3>1. Fits(s)'
      BY <1>t, <2>4, OverFacts DEF Fits
    <3> QED BY <1>t, <2>3, <2>4, <3>1, OverFacts
  <2>5. CASE Again(s)
    BY <2>4, <2>5 DEF Again
  <2>6. ASSUME NEW place \in Places, Moves(s, place),
               place \notin {"sent", "coded", "signed", "enqueue"}
        PROVE  PlacesFit'
    <3>1. Fits(s)'
      BY <1>t, <2>6, MoveFacts DEF Fits
    <3> QED BY <1>t, <2>3, <2>6, <3>1, MoveFacts
  <2>7. CASE \E r \in queue : Begin(s, r)
    <3> PICK r \in queue : Begin(s, r)
      BY <2>7
    <3>1. CASE acct = "gone" \/ (r.kind # "start" /\ hash = 0)
      BY <3>1, <1>a DEF Begin, telegram
    <3>2. CASE ~(acct = "gone" \/ (r.kind # "start" /\ hash = 0))
      <4> DEFINE x == [at |-> "get", req |-> {r}, hash |-> hash, code |-> 0]
      <4>1. task' = [task EXCEPT ![s] = x] /\ x.at = "get"
        BY <3>2 DEF Begin
      <4> HIDE DEF x
      <4>2. Fits(s)'
        BY <1>t, <4>1, OthersStay DEF Fits
      <4> QED BY <1>t, <2>3, <4>1, <4>2, OthersStay
    <3> QED BY <3>1, <3>2
  <2>8. CASE Get(s)
    BY <2>5, <2>6, <2>8 DEF Get, Places
  <2>9. CASE Flooded(s) \/ (\E w \in Words : Refused(s, w)) \/ NeedPassword(s) \/ Succeed(s)
    BY <2>4, <2>5, <2>9 DEF Flooded, Refused, NeedPassword, Succeed
  <2>10. CASE SendCode(s)
    <3> DEFINE x == [task[s] EXCEPT !.at = "sent", !.code = Len(codes) + 1]
    <3>1. task' = [task EXCEPT ![s] = x] /\ UNCHANGED <<client, key>>
      BY <2>10 DEF SendCode
    <3>2. x.at = "sent" /\ x.req = task[s].req /\ x.code = Len(codes) + 1
      BY <1>t DEF LoginTypeOK
    <3> HIDE DEF x
    <3>3. Serves(s, "start")
      BY <2>10 DEF SendCode, Serves
    <3>4. task'[s] = x /\ Serves(s, "start")'
      BY <1>t, <3>1, <3>2, <3>3, OthersStay DEF Kinds
    <3>5. codes' = Append(codes, client) /\ codes \in Seq(Keys) /\ client \in Keys
      BY <2>10, <1>t DEF SendCode, LoginType, LoginTypeOK, Holders
    <3>6. Len(codes) + 1 \in DOMAIN codes' /\ codes'[Len(codes) + 1] = client
      BY <3>5
    <3>7. Fits(s)'
      BY <3>1, <3>2, <3>4, <3>6 DEF Fits
    <3> QED BY <1>t, <2>3, <3>1, <3>7, OthersStay
  <2>11. CASE SignIn(s)
    <3>1. Serves(s, "confirm") /\ ~Serves(s, "start")
      <4>1. \E r \in task[s].req : r.kind = "confirm"
        BY <2>11 DEF SignIn
      <4>2. PICK r \in Requests : task[s].req = {r}
        BY <2>11 DEF SignIn, OneRequest, Running
      <4> QED BY <4>1, <4>2 DEF Serves
    <3>2. client \in Keys /\ client' = client
      BY <2>11, <1>t DEF SignIn, LoginTypeOK, Holders
    <3>3. CASE Moves(s, "signed") /\ key' = [key EXCEPT ![client] = "signed in"]
      <4>1. key'[client] = "signed in"
        BY <3>2, <3>3, <1>t DEF LoginTypeOK
      <4>2. /\ task'[s].at = "signed" /\ (Serves(s, "start")' <=> Serves(s, "start"))
            /\ \A t \in Sessions : t # s => task'[t] = task[t]
        BY <1>t, <3>3, MoveFacts DEF Places, Kinds
      <4>3. Fits(s)'
        BY <3>1, <3>2, <4>1, <4>2 DEF Fits
      <4> QED BY <2>3, <4>2, <4>3
    <3>4. CASE Moves(s, "coded")
      <4>2. /\ task'[s].at = "coded" /\ (Serves(s, "confirm")' <=> Serves(s, "confirm"))
            /\ \A t \in Sessions : t # s => task'[t] = task[t]
        BY <1>t, <3>4, MoveFacts DEF Places, Kinds
      <4>3. Fits(s)'
        BY <3>1, <4>2 DEF Fits
      <4> QED BY <2>3, <4>2, <4>3
    <3> QED BY <2>11, <3>3, <3>4 DEF SignIn
  <2>12. CASE Password(s)
    <3>1. ~Serves(s, "start")
      <4>1. \E r \in task[s].req : r.kind = "password"
        BY <2>12 DEF Password
      <4>2. PICK r \in Requests : task[s].req = {r}
        BY <2>12 DEF Password, OneRequest, Running
      <4> QED BY <4>1, <4>2 DEF Serves
    <3>2. client \in Keys /\ client' = client
      BY <2>12, <1>t DEF Password, LoginTypeOK, Holders
    <3>3. Moves(s, "signed") /\ key' = [key EXCEPT ![client] = "signed in"]
      BY <2>12 DEF Password
    <3>4. key'[client] = "signed in"
      BY <3>2, <3>3, <1>t DEF LoginTypeOK
    <3>5. /\ task'[s].at = "signed" /\ (Serves(s, "start")' <=> Serves(s, "start"))
          /\ \A t \in Sessions : t # s => task'[t] = task[t]
      BY <1>t, <3>3, MoveFacts DEF Places, Kinds
    <3>6. Fits(s)'
      BY <3>1, <3>2, <3>4, <3>5 DEF Fits
    <3> QED BY <2>3, <3>5, <3>6
  <2>13. CASE Pend(s)
    BY <2>4, <2>5, <2>13 DEF Pend
  <2>14. CASE Finish(s)
    <3>1. CASE acct # "created"
      BY <2>5, <2>14, <3>1 DEF Finish
    <3>2. CASE acct = "created"
      <4>1. Moves(s, "enqueue") /\ task[s].at = "signed"
        BY <2>14, <3>2 DEF Finish
      <4>2. /\ task'[s].at = "enqueue" /\ (Serves(s, "start")' <=> Serves(s, "start"))
            /\ \A t \in Sessions : t # s => task'[t] = task[t]
        BY <1>t, <4>1, MoveFacts DEF Places, Kinds
      <4>3. Fits(s)'
        BY <2>0, <4>1, <4>2 DEF Fits
      <4> QED BY <2>3, <4>2, <4>3
    <3> QED BY <3>1, <3>2
  <2> QED BY <2>7, <2>8, <2>9, <2>10, <2>11, <2>12, <2>13, <2>14, TaskSteps
<1> QED BY <1>1, <1>2, <1>3, <1>4, <1>5, LoginActions

LEMMA SessionKeeps ==
  ASSUME LoginAssumption, LoginType, PlacesFit, SessionKept, LoginNext PROVE SessionKept'
<1>t. LoginTypeOK
  BY DEF LoginType
<1>k. \A i \in DOMAIN codes : codes[i] \in Keys
  BY DEF LoginType
<1>0. \A k \in Keys : k # 0
  BY DEF Keys
<1>a. ASSUME UNCHANGED <<row, client, key, codes>> PROVE SessionKept'
  BY <1>a DEF SessionKept, row
<1>1. CASE \E kind \in Kinds : \E code \in Codes : Ask(kind, code)
  BY <1>1, <1>a DEF Ask, telegram
<1>2. CASE \E to \in {"other", "gone"} : Changed(to)
  BY <1>2 DEF Changed, SessionKept, telegram
<1>3. CASE Dies
  BY <1>3 DEF Dies, SessionKept, row, telegram
<1>4. CASE SweepLists
  BY <1>4, <1>a DEF SweepLists, telegram
<1>5. CASE SweepDeletes
  BY <1>5 DEF SweepDeletes, SessionKept, telegram
<1>6. CASE Served
  <2> PICK s \in Sessions : Step(s)
    BY <1>6 DEF Served
  <2>k. /\ \A k \in Keys : key[k] = "signed in" => key'[k] = "signed in"
        /\ \A i \in DOMAIN codes : i \in DOMAIN codes' /\ codes'[i] = codes[i]
    BY KeysGrow
  <2>t. stored \in Keys \cup {0} /\ client \in Keys \cup {0}
    BY <1>t DEF LoginTypeOK
  <2>1. ASSUME UNCHANGED row, client' \in {0, client} PROVE SessionKept'
    BY <2>1, <2>k, <2>t DEF SessionKept, row
  <2>2. client' = Rests(s) => client' \in {0, client}
    BY <1>t, RestsFacts
  <2>3. task[s].at \in {"sent", "coded", "signed"} => client \in Keys
    BY <1>t DEF LoginTypeOK, Holders
  <2>4. CASE \E r \in queue : Begin(s, r)
    BY <2>1, <2>4 DEF Begin
  <2>5. CASE Get(s)
    <3>1. CASE client' = client
      BY <2>1, <2>5, <3>1 DEF Get
    <3>2. CASE client = 0 /\ client' = stored
      BY <2>5, <2>k, <2>t, <3>2 DEF Get, SessionKept, row
    <3>3. CASE client = 0 /\ stored = 0 /\ client' \in Keys
      BY <2>5, <2>k, <2>t, <3>3 DEF Get, SessionKept, row
    <3> QED BY <2>5, <3>1, <3>2, <3>3 DEF Get
  <2>6. CASE Flooded(s) \/ \E w \in Words : Refused(s, w)
    BY <2>1, <2>2, <2>6 DEF Flooded, Refused
  <2>7. CASE SendCode(s) \/ SignIn(s) \/ Password(s) \/ Succeed(s)
    BY <2>1, <2>7 DEF SendCode, SignIn, Password, Succeed
  <2>8. CASE Pend(s)
    <3>1. CASE acct = "gone"
      BY <2>1, <2>2, <2>8, <3>1 DEF Pend
    <3>2. CASE acct # "gone"
      <4>1. /\ task[s].code \in DOMAIN codes /\ codes[task[s].code] = client
        BY <2>8 DEF Pend, PlacesFit
      <4>2. hash' = task[s].code /\ stored' = client /\ acct' = acct /\ codes' = codes /\ key' = key
        BY <2>8, <3>2 DEF Pend, telegram
      <4>3. client \in Keys /\ client' \in {0, client}
        BY <2>2, <2>3, <2>8 DEF Pend
      <4>4. acct = "warming" => client = stored
        BY <1>0, <4>3 DEF SessionKept
      <4> QED BY <1>0, <4>1, <4>2, <4>3, <4>4 DEF SessionKept
    <3> QED BY <3>1, <3>2
  <2>9. CASE NeedPassword(s)
    <3>1. CASE acct = "gone"
      BY <2>1, <2>2, <2>9, <3>1 DEF NeedPassword
    <3>2. CASE acct # "gone"
      <4>2. stored' = client /\ acct' = acct /\ hash' = hash /\ codes' = codes /\ key' = key
        BY <2>9, <3>2 DEF NeedPassword, telegram
      <4>3. client \in Keys /\ client' \in {0, client}
        BY <2>2, <2>3, <2>9 DEF NeedPassword
      <4>4. acct = "warming" \/ hash # 0 => client = stored
        BY <1>0, <1>k, <4>3 DEF SessionKept
      <4> QED BY <1>0, <4>2, <4>3, <4>4 DEF SessionKept
    <3> QED BY <3>1, <3>2
  <2>10. CASE Finish(s)
    <3>1. CASE acct # "created"
      BY <2>1, <2>2, <2>10, <3>1 DEF Finish
    <3>2. CASE acct = "created"
      <4>1. key[client] = "signed in"
        BY <2>10 DEF Finish, PlacesFit
      <4>2. stored' = client /\ hash' = 0 /\ key' = key
        BY <2>10, <3>2 DEF Finish, telegram
      <4>3. client \in Keys /\ client' \in {0, client}
        BY <2>2, <2>3, <2>10 DEF Finish
      <4> QED BY <1>0, <4>1, <4>2, <4>3 DEF SessionKept
    <3> QED BY <3>1, <3>2
  <2> QED BY <2>4, <2>5, <2>6, <2>7, <2>8, <2>9, <2>10, TaskSteps
<1> QED BY <1>1, <1>2, <1>3, <1>4, <1>5, <1>6, LoginActions

\* A key becomes signed in with a task that will store it.
LEMMA SignedKeys ==
  ASSUME LoginAssumption, LoginType, NEW s \in Sessions, Step(s)
  PROVE  \/ \E t \in Sessions : task'[t].at = "signed"
         \/ /\ \A k \in Keys : key'[k] = "signed in" => key[k] = "signed in"
            /\ \A t \in Sessions : task[t].at = "signed" => t = s
<1> USE DEF LoginType
<1>t. LoginTypeOK /\ key \in [Keys -> KeyStates]
  BY DEF LoginTypeOK
<1>1. ASSUME NEW t \in Sessions, task[t].at = "signed", t # s
      PROVE  task'[t].at = "signed"
  <2>1. task'[t] = task[t]
    <3>1. StepEffect(s)
      BY <1>t, StepTasks
    <3>2. CASE UNCHANGED task
      BY <3>2
    <3>3. CASE task' = [task EXCEPT ![s] = [at |-> "get", req |-> task'[s].req, hash |-> hash, code |-> 0]]
      <4> DEFINE x == [at |-> "get", req |-> task'[s].req, hash |-> hash, code |-> 0]
      <4>1. task' = [task EXCEPT ![s] = x]
        BY <3>3
      <4> HIDE DEF x
      <4> QED BY <1>1, <1>t, <4>1, OthersStay
    <3>4. CASE Over(s)
      BY <1>1, <1>t, <3>4, OverFacts
    <3>5. CASE \A u \in Sessions : u # s => task'[u] = task[u]
      BY <1>1, <3>5
    <3> QED BY <3>1, <3>2, <3>3, <3>4, <3>5 DEF StepEffect
  <2> QED BY <1>1, <2>1
<1>2. CASE SignIn(s) \/ Password(s)
  <2>1. CASE Moves(s, "signed")
    BY <1>t, <2>1, MoveFacts DEF Places
  <2>2. CASE /\ key[client] # "signed in" /\ key' = [key EXCEPT ![client] = "coded"]
    BY <1>t, <1>1, <2>2
  <2> QED BY <1>2, <2>1, <2>2 DEF SignIn, Password
<1>3. CASE Get(s)
  <2>1. UNCHANGED key \/ \E k \in Keys : key' = [key EXCEPT ![k] = "new"]
    BY <1>3 DEF Get
  <2> QED BY <1>t, <1>1, <2>1
<1>4. CASE UNCHANGED key
  BY <1>1, <1>4
<1>5. CASE \E r \in queue : Begin(s, r)
  BY <1>4, <1>5 DEF Begin, telegram
<1>6. CASE \/ Flooded(s) \/ (\E w \in Words : Refused(s, w)) \/ Pend(s) \/ NeedPassword(s)
           \/ Finish(s) \/ Succeed(s) \/ SendCode(s)
  BY <1>4, <1>6 DEF Flooded, Refused, Pend, NeedPassword, Finish, Succeed, SendCode, telegram
<1> QED BY <1>2, <1>3, <1>5, <1>6, TaskSteps

LEMMA SweepKeeps ==
  ASSUME LoginAssumption, LoginType, SweepSpares, LoginNext PROVE SweepSpares'
<1>t. LoginTypeOK /\ troubles \in Nat
  BY DEF LoginType, LoginTypeOK, LoginAssumption
<1>a. ASSUME UNCHANGED <<acct, task, key, listed, swept, troubles>> PROVE SweepSpares'
  BY <1>a DEF SweepSpares
<1>b. ASSUME Trouble PROVE SweepSpares'
  <2>1. troubles' > 0
    BY <1>b, <1>t DEF Trouble
  <2> QED BY <2>1 DEF SweepSpares
<1>1. CASE \E kind \in Kinds : \E code \in Codes : Ask(kind, code)
  BY <1>1, <1>a DEF Ask, row, telegram, sweep
<1>2. CASE (\E to \in {"other", "gone"} : Changed(to)) \/ Dies
  BY <1>2, <1>b DEF Changed, Dies
<1>4. CASE SweepLists
  BY <1>4 DEF SweepLists, SweepSpares, row, telegram
<1>5. CASE SweepDeletes
  <2>1. acct' = "gone" /\ ~listed' /\ UNCHANGED <<troubles, key>> /\ listed
    BY <1>5 DEF SweepDeletes, telegram
  <2>2. CASE swept' = swept
    BY <2>1, <2>2 DEF SweepSpares
  <2>3. CASE acct # "gone" /\ stored # 0 /\ Running = {} /\ swept' = key[stored]
    <3>1. \A s \in Sessions : task[s].at # "signed"
      BY <2>3 DEF Running
    <3>2. stored \in Keys
      BY <2>3, <1>t DEF LoginTypeOK
    <3>3. troubles > 0 \/ acct = "created"
      BY <2>1 DEF SweepSpares
    <3> QED BY <2>1, <2>3, <3>1, <3>2, <3>3 DEF SweepSpares
  <2> QED BY <1>5, <2>2, <2>3 DEF SweepDeletes
<1>6. CASE ~listed /\ Served
  <2> PICK s \in Sessions : Step(s)
    BY <1>6 DEF Served
  <2>0. ~listed /\ UNCHANGED sweep
    BY <1>6, TaskSteps DEF Begin, Get, Flooded, Refused, SendCode, SignIn, Password, Pend,
          NeedPassword, Finish, Succeed
  <2>1. CASE Trouble
    BY <1>b, <2>1
  <2>2. CASE ~Trouble
    <3>1. UNCHANGED troubles
      BY <2>2, TaskSteps DEF Begin, Get, Flooded, Refused, SendCode, SignIn, Password, Pend,
            NeedPassword, Finish, Succeed
    <3>2. acct' = "created" => acct = "created" /\ (task[s].at = "signed" => task'[s].at = "signed")
      <4>1. CASE Finish(s)
        BY <4>1 DEF Finish, row
      <4>2. CASE ~Finish(s)
        <5>1. task[s].at = "signed" => FALSE
          <6>1. CASE \E r \in queue : Begin(s, r)
            BY <6>1 DEF Begin, Idle
          <6>2. CASE Get(s) \/ (\E w \in Words : Refused(s, w)) \/ SendCode(s) \/ SignIn(s) \/ Password(s)
            BY <6>2 DEF Get, Refused, SendCode, SignIn, Password
          <6>3. CASE Pend(s) \/ NeedPassword(s) \/ Succeed(s)
            BY <6>3 DEF Pend, NeedPassword, Succeed
          <6>4. ~Flooded(s)
            BY <2>2 DEF Flooded
          <6> QED BY <4>2, <6>1, <6>2, <6>3, <6>4, TaskSteps
        <5>2. UNCHANGED acct
          BY <4>2, TaskSteps DEF Begin, Get, Flooded, Refused, SendCode, SignIn, Password,
               Pend, NeedPassword, Succeed, row
        <5> QED BY <5>1, <5>2
      <4> QED BY <4>1, <4>2
    <3>3. \/ \E t \in Sessions : task'[t].at = "signed"
          \/ /\ \A k \in Keys : key'[k] = "signed in" => key[k] = "signed in"
             /\ \A t \in Sessions : task[t].at = "signed" => t = s
      BY SignedKeys
    <3> QED BY <2>0, <3>1, <3>2, <3>3 DEF SweepSpares, sweep
  <2> QED BY <2>1, <2>2
<1> QED BY <1>1, <1>2, <1>4, <1>5, <1>6, LoginActions
-----------------------------------------------------------------------------
(* What is published *)

\* A task that is over leaves the others as they were.
LEMMA TurnOver ==
  ASSUME LoginTypeOK, InTurn, NEW s \in Sessions, Over(s), UNCHANGED <<acct, hash, codes, used, key>>,
         \A t \in Sessions : t # s /\ task[t].at \in HoldPlaces => client' = client
  PROVE  InTurn'
<1>1. /\ task'[s].at = "idle" /\ Running' = Running \ {s}
      /\ \A t \in Sessions : t # s => task'[t] = task[t]
      /\ \A t \in Sessions, kind \in Kinds : t # s => (Serves(t, kind)' <=> Serves(t, kind))
  BY OverFacts
<1>k. "start" \in Kinds /\ "confirm" \in Kinds
  BY DEF Kinds
<1>2. Alike'
  <2> SUFFICES ASSUME NEW t \in Running', NEW u \in Running', t # u
               PROVE  /\ ~Serves(t, "start")'
                      /\ \A kind \in Kinds : Serves(t, kind)' => Serves(u, kind)'
                      /\ task'[t].hash = task'[u].hash
    BY DEF Alike
  <2>1. t \in Running /\ u \in Running /\ t \in Sessions /\ u \in Sessions /\ t # s /\ u # s
    BY <1>1 DEF Running
  <2>2. /\ ~Serves(t, "start")
        /\ \A kind \in Kinds : Serves(t, kind) => Serves(u, kind)
        /\ task[t].hash = task[u].hash
    BY <2>1 DEF InTurn, Alike
  <2> QED BY <1>1, <1>k, <2>1, <2>2
<1>3. OnePasses'
  <2>1. Passed' = Passed \ {s}
    BY <1>1 DEF Passed
  <2>2. \A t \in Sessions : task'[t].at = "coded" => key'[client'] = "coded"
    BY <1>1 DEF InTurn, OnePasses, HoldPlaces
  <2>3. \A t, u \in Passed' : t = u
    BY <2>1 DEF InTurn, OnePasses
  <2>4. \A t \in Passed' : Serves(t, "confirm")' => task'[t].hash \in used'
    BY <1>1, <1>k, <2>1 DEF InTurn, OnePasses, Passed
  <2>5. /\ \A t \in Sessions : task'[t].at \in {"coded", "signed"} => acct' = "created"
        /\ \A t \in Sessions : task'[t].at = "enqueue" => acct' = "warming"
    BY <1>1 DEF InTurn, OnePasses
  <2> QED BY <2>2, <2>3, <2>4, <2>5 DEF OnePasses
<1>4. AllDone => AllDone'
  BY <1>1, <1>k DEF AllDone, Running
<1>5. /\ acct' = "created" => \A t \in Running' : task'[t].hash = hash'
      /\ \A t \in Sessions : task'[t].at = "sent" => task'[t].code = Len(codes')
  BY <1>1 DEF InTurn, Running
<1> QED BY <1>2, <1>3, <1>4, <1>5 DEF InTurn

\* Nothing but the place of a task changes, and it does not pass yet.
LEMMA TurnMoves ==
  ASSUME LoginTypeOK, InTurn, NEW s \in Sessions, task[s].at # "idle", Moves(s, "call"),
         UNCHANGED <<acct, hash, codes, used>>,
         \A t \in Sessions : t # s /\ task[t].at = "coded" => client' = client /\ key'[client] = key[client]
  PROVE  InTurn'
<1>1. /\ task'[s].at = "call" /\ task'[s].hash = task[s].hash
      /\ \A t \in Sessions : t # s => task'[t] = task[t]
      /\ \A t \in Sessions, kind \in Kinds : Serves(t, kind)' <=> Serves(t, kind)
  BY MoveFacts DEF Places
<1>k. "start" \in Kinds /\ "confirm" \in Kinds
  BY DEF Kinds
<1>r. Running' = Running
  BY <1>1 DEF Running
<1>h. \A t \in Sessions : task'[t].hash = task[t].hash
  BY <1>1
<1>2. Alike'
  BY <1>1, <1>h, <1>r, <1>k DEF InTurn, Alike, Running
<1>3. OnePasses'
  <2>1. Passed' = Passed \ {s}
    BY <1>1 DEF Passed
  <2>2. \A t \in Sessions : task'[t].at = "coded" => key'[client'] = "coded"
    BY <1>1 DEF InTurn, OnePasses
  <2>3. \A t, u \in Passed' : t = u
    BY <2>1 DEF InTurn, OnePasses
  <2>4. \A t \in Passed' : Serves(t, "confirm")' => task'[t].hash \in used'
    BY <1>1, <1>k, <2>1 DEF InTurn, OnePasses, Passed
  <2>5. /\ \A t \in Sessions : task'[t].at \in {"coded", "signed"} => acct' = "created"
        /\ \A t \in Sessions : task'[t].at = "enqueue" => acct' = "warming"
    BY <1>1 DEF InTurn, OnePasses
  <2> QED BY <2>2, <2>3, <2>4, <2>5 DEF OnePasses
<1>4. AllDone => AllDone'
  BY <1>1, <1>h, <1>r, <1>k DEF AllDone, Running
<1>5. /\ acct' = "created" => \A t \in Running' : task'[t].hash = hash'
      /\ \A t \in Sessions : task'[t].at = "sent" => task'[t].code = Len(codes')
  BY <1>1, <1>h, <1>r DEF InTurn, Running
<1> QED BY <1>2, <1>3, <1>4, <1>5 DEF InTurn

\* A request that crosses no other begins.
LEMMA TurnBegins ==
  ASSUME LoginTypeOK, OneRequest, InTurn, NEW s \in Sessions, NEW r \in Requests, task[s].at = "idle",
         task' = [task EXCEPT ![s] = [at |-> "get", req |-> {r}, hash |-> hash, code |-> 0]],
         acct = "created", ~Crosses(r.kind), UNCHANGED <<acct, hash, codes, used, client, key>>
  PROVE  InTurn'
<1> DEFINE x == [at |-> "get", req |-> {r}, hash |-> hash, code |-> 0]
<1>0. task' = [task EXCEPT ![s] = x] /\ x.at = "get" /\ x.req = {r} /\ x.hash = hash
  OBVIOUS
<1> HIDE DEF x
<1>1. /\ task'[s] = x
      /\ \A t \in Sessions : t # s => task'[t] = task[t]
      /\ \A t \in Sessions, kind \in Kinds : t # s => (Serves(t, kind)' <=> Serves(t, kind))
  BY <1>0, OthersStay
<1>k. "start" \in Kinds /\ "confirm" \in Kinds /\ r.kind \in Kinds
  BY DEF Kinds, Requests
<1>r. Running' = Running \cup {s} /\ s \notin Running
  BY <1>0, <1>1 DEF Running
<1>s. \A kind \in Kinds : Serves(s, kind)' <=> kind = r.kind
  BY <1>0, <1>1 DEF Serves
<1>t. \A t \in Running : r.kind # "start" /\ \A kind \in Kinds : Serves(t, kind) <=> kind = r.kind
  <2> SUFFICES ASSUME NEW t \in Running
               PROVE  r.kind # "start" /\ \A kind \in Kinds : Serves(t, kind) <=> kind = r.kind
    OBVIOUS
  <2>1. PICK q \in Requests : task[t].req = {q}
    BY DEF OneRequest
  <2>2. r.kind # "start" /\ q.kind = r.kind
    BY <2>1 DEF Crosses
  <2> QED BY <2>1, <2>2 DEF Serves
<1>h. \A t \in Running' : task'[t].hash = hash
  BY <1>0, <1>1, <1>r DEF InTurn, Running
<1>2. Alike'
  <2> SUFFICES ASSUME NEW t \in Running', NEW u \in Running', t # u
               PROVE  /\ ~Serves(t, "start")'
                      /\ \A kind \in Kinds : Serves(t, kind)' => Serves(u, kind)'
                      /\ task'[t].hash = task'[u].hash
    BY DEF Alike
  <2>1. \A v \in Running : v # s => \A kind \in Kinds : Serves(v, kind)' <=> kind = r.kind
    BY <1>1, <1>t DEF Running
  <2>2. \A v \in Running' : \A kind \in Kinds : Serves(v, kind)' <=> kind = r.kind
    BY <1>r, <1>s, <2>1
  <2>3. r.kind # "start"
    BY <1>r, <1>t
  <2> QED BY <1>h, <1>k, <2>2, <2>3
<1>3. OnePasses'
  <2>1. Passed' = Passed /\ s \notin Passed
    BY <1>0, <1>1 DEF Passed
  <2>2. \A t \in Passed : Serves(t, "confirm")' => task'[t].hash \in used'
    BY <1>1, <1>k, <2>1 DEF InTurn, OnePasses, Passed
  <2>3. /\ \A t \in Sessions : task'[t].at \in {"coded", "signed"} => acct' = "created"
        /\ \A t \in Sessions : task'[t].at = "enqueue" => acct' = "warming"
        /\ \A t \in Sessions : task'[t].at = "coded" => key'[client'] = "coded"
    BY <1>0, <1>1 DEF InTurn, OnePasses
  <2> QED BY <2>1, <2>2, <2>3 DEF InTurn, OnePasses
<1>4. \A t \in Sessions : task'[t].at = "sent" => task'[t].code = Len(codes')
  BY <1>0, <1>1 DEF InTurn
<1> QED BY <1>2, <1>3, <1>4, <1>h DEF InTurn

\* A code or a password is good: nobody else has passed, and nobody else will with this code.
LEMMA TurnPasses ==
  ASSUME LoginTypeOK, InTurn, NEW s \in Sessions, NEW place \in {"coded", "signed"},
         task[s].at = "call", Moves(s, place), acct = "created", Passed = {},
         UNCHANGED <<acct, hash, codes, client>>, used \subseteq used',
         Serves(s, "confirm") => task[s].hash \in used',
         place = "coded" => key'[client] = "coded"
  PROVE  InTurn'
<1>1. /\ task'[s].at = place /\ task'[s].hash = task[s].hash
      /\ \A t \in Sessions : t # s => task'[t] = task[t]
      /\ \A t \in Sessions, kind \in Kinds : Serves(t, kind)' <=> Serves(t, kind)
  BY MoveFacts DEF Places
<1>k. "start" \in Kinds /\ "confirm" \in Kinds
  BY DEF Kinds
<1>r. Running' = Running
  BY <1>1 DEF Running
<1>h. \A t \in Sessions : task'[t].hash = task[t].hash
  BY <1>1
<1>2. Alike'
  BY <1>1, <1>h, <1>r, <1>k DEF InTurn, Alike, Running
<1>3. OnePasses'
  <2>1. Passed' = {s}
    BY <1>1 DEF Passed
  <2>2. \A t \in Sessions : t # s => task'[t].at \notin {"coded", "signed", "enqueue"}
    BY <1>1 DEF Passed
  <2>3. Serves(s, "confirm")' => task'[s].hash \in used'
    BY <1>1, <1>k
  <2> QED BY <1>1, <2>1, <2>2, <2>3 DEF OnePasses
<1>5. /\ \A t \in Running' : task'[t].hash = hash'
      /\ \A t \in Sessions : task'[t].at = "sent" => task'[t].code = Len(codes')
  BY <1>1, <1>h, <1>r DEF InTurn, Running
<1> QED BY <1>2, <1>3, <1>5 DEF InTurn

LEMMA TurnKeeps ==
  ASSUME LoginAssumption, LoginType, OneRequest, PlacesFit, SessionKept,
         ~blurred => InTurn, WordTrue, LoginNext
  PROVE  (~blurred' => InTurn') /\ WordTrue'
<1>t. LoginTypeOK
  BY DEF LoginType
<1>k. "start" \in Kinds /\ "confirm" \in Kinds /\ "password" \in Kinds
  BY DEF Kinds
<1>a. ASSUME UNCHANGED <<acct, hash, stored, task, client, key, codes, used, word, blurred>>
      PROVE  (~blurred' => InTurn') /\ WordTrue'
  <2>1. UNCHANGED Running /\ UNCHANGED Passed /\ \A t \in Sessions, kind \in Kinds : Serves(t, kind)' <=> Serves(t, kind)
    BY <1>a DEF Running, Passed, Serves
  <2>2. WordTrue'
    BY <1>a, <2>1 DEF WordTrue
  <2>3. Alike => Alike'
    BY <1>a, <1>k, <2>1 DEF Alike, Running
  <2>4. OnePasses => OnePasses'
    BY <1>a, <1>k, <2>1 DEF OnePasses, Passed
  <2>5. AllDone => AllDone'
    BY <1>a, <1>k, <2>1 DEF AllDone, Running
  <2> QED BY <1>a, <2>1, <2>2, <2>3, <2>4, <2>5 DEF InTurn
<1>b. ASSUME blurred' = TRUE PROVE (~blurred' => InTurn') /\ WordTrue'
  BY <1>b DEF WordTrue
<1>1. CASE \E kind \in Kinds : \E code \in Codes : Ask(kind, code)
  BY <1>1, <1>a DEF Ask, row, telegram
<1>2. CASE (\E to \in {"other", "gone"} : Changed(to)) \/ Dies \/ SweepDeletes
  BY <1>2, <1>b DEF Changed, Dies, SweepDeletes
<1>3. CASE SweepLists
  BY <1>3, <1>a DEF SweepLists, row, telegram
<1>4. CASE Served
  <2> PICK s \in Sessions : Step(s)
    BY <1>4 DEF Served
  <2>b. CASE blurred' = TRUE
    BY <1>b, <2>b
  <2> SUFFICES ASSUME ~blurred' PROVE InTurn' /\ WordTrue'
    <3>1. blurred' \in BOOLEAN
      BY <1>t, LoginTypeKeeps DEF LoginType, LoginTypeOK
    <3> QED BY <2>b, <3>1
  <2>a. ~Again(s)
    BY DEF Again
  <2>u. ~blurred /\ InTurn
    <3>1. CASE \E r \in queue : Begin(s, r)
      BY <3>1 DEF Begin
    <3>2. CASE UNCHANGED blurred
      BY <3>2
    <3>3. ~Flooded(s)
      BY <2>a DEF Flooded
    <3>4. CASE Get(s) \/ Pend(s) \/ Finish(s)
      BY <2>a, <3>2, <3>4 DEF Get, Pend, Finish
    <3>5. CASE (\E w \in Words : Refused(s, w)) \/ SendCode(s) \/ SignIn(s) \/ Password(s) \/ NeedPassword(s) \/ Succeed(s)
      BY <3>2, <3>5 DEF Refused, SendCode, SignIn, Password, NeedPassword, Succeed
    <3> QED BY <3>1, <3>3, <3>4, <3>5, TaskSteps
  <2>h. \A t \in Sessions : t # s /\ task[t].at \in HoldPlaces => client' = client /\ client # 0
    BY <1>t, ClientStays
  <2>v. Running' # {} => WordTrue'
    BY DEF WordTrue
  <2>c. task[s].at \in HoldPlaces => client \in Keys
    BY <1>t DEF HoldPlaces, LoginTypeOK, Holders
  <2>z. \A k \in Keys : k # 0
    BY DEF Keys
  <2>1. CASE \E r \in queue : Begin(s, r)
    <3> PICK r \in queue : Begin(s, r)
      BY <2>1
    <3>1. CASE acct = "gone" \/ (r.kind # "start" /\ hash = 0)
      <4>1. InTurn'
        <5>1. UNCHANGED <<acct, hash, task, client, key, codes, used>>
          BY <3>1 DEF Begin, row, telegram
        <5>2. UNCHANGED Running /\ UNCHANGED Passed /\ \A t \in Sessions, kind \in Kinds : Serves(t, kind)' <=> Serves(t, kind)
          BY <5>1 DEF Running, Passed, Serves
        <5>3. Alike'
          BY <2>u, <1>k, <5>1, <5>2 DEF InTurn, Alike, Running
        <5>4. OnePasses'
          BY <2>u, <1>k, <5>1, <5>2 DEF InTurn, OnePasses, Passed
        <5>5. AllDone => AllDone'
          BY <1>k, <5>1, <5>2 DEF AllDone, Running
        <5> QED BY <2>u, <5>1, <5>2, <5>3, <5>4, <5>5 DEF InTurn
      <4>2. word' = "failed"
        BY <3>1 DEF Begin, Says
      <4> QED BY <4>1, <4>2 DEF WordTrue
    <3>2. CASE ~(acct = "gone" \/ (r.kind # "start" /\ hash = 0))
      <4>1. /\ task[s] = Idle /\ acct = "created" /\ ~Crosses(r.kind)
            /\ task' = [task EXCEPT ![s] = [at |-> "get", req |-> {r}, hash |-> hash, code |-> 0]]
            /\ UNCHANGED <<acct, hash, codes, used, client, key>>
        BY <3>2 DEF Begin, row, telegram
      <4>2. r \in Requests /\ task[s].at = "idle"
        BY <1>t, <4>1 DEF LoginTypeOK, Idle
      <4>3. InTurn'
        BY <1>t, <2>u, <4>1, <4>2, TurnBegins
      <4> DEFINE x == [at |-> "get", req |-> {r}, hash |-> hash, code |-> 0]
      <4>4. task' = [task EXCEPT ![s] = x] /\ x.at = "get"
        BY <4>1
      <4> HIDE DEF x
      <4>5. s \in Running'
        BY <1>t, <4>4, OthersStay DEF Running
      <4> QED BY <2>v, <4>3, <4>5
    <3> QED BY <3>1, <3>2
  <2>2. CASE Get(s)
    <3>1. /\ Moves(s, "call") /\ task[s].at = "get" /\ UNCHANGED <<acct, hash, codes, used>>
          /\ \/ client # 0 /\ UNCHANGED <<client, key>>
             \/ client = 0
      BY <2>2, <2>a DEF Get, row
    <3>2. \A t \in Sessions : t # s /\ task[t].at = "coded" => client' = client /\ key'[client] = key[client]
      BY <2>h, <3>1 DEF HoldPlaces
    <3>3. InTurn'
      BY <1>t, <2>u, <3>1, <3>2, TurnMoves
    <3>4. s \in Running'
      BY <1>t, <3>1, MoveFacts DEF Running, Places
    <3> QED BY <2>v, <3>3, <3>4
  <2>3. CASE \E w \in Words : Refused(s, w)
    <3> PICK w \in Words : Refused(s, w)
      BY <2>3
    <3>1. InTurn'
      BY <1>t, <2>u, <2>h, TurnOver DEF Refused, row, telegram
    <3>2. word' \in {"rate_limited", "failed"}
      BY DEF Refused, Says
    <3> QED BY <3>1, <3>2 DEF WordTrue
  <2>4. ~Flooded(s)
    BY <2>a DEF Flooded
  <2>5. CASE SendCode(s)
    <3> DEFINE x == [task[s] EXCEPT !.at = "sent", !.code = Len(codes) + 1]
    <3>1. task' = [task EXCEPT ![s] = x] /\ UNCHANGED <<acct, hash, client, key, used>>
      BY <2>5 DEF SendCode, row
    <3>2. x.at = "sent" /\ x.req = task[s].req /\ x.hash = task[s].hash /\ x.code = Len(codes) + 1
      BY <1>t DEF LoginTypeOK
    <3> HIDE DEF x
    <3>3. Serves(s, "start") /\ task[s].at = "call"
      BY <2>5 DEF SendCode, Serves
    <3>4. Running = {s}
      BY <2>u, <3>3 DEF InTurn, Alike, Running
    <3>5. task'[s] = x /\ \A t \in Sessions : t # s => task'[t] = task[t]
      BY <1>t, <3>1, OthersStay
    <3>6. Running' = {s} /\ Passed' = {} /\ Passed = {}
      BY <3>2, <3>3, <3>4, <3>5 DEF Running, Passed
    <3>7. Len(codes') = Len(codes) + 1
      BY <2>5 DEF SendCode, LoginType
    <3>8. acct = "created"
      BY <2>u, <3>3, <3>4 DEF InTurn, AllDone
    <3>9. Alike' /\ OnePasses'
      <4>1. \A t \in Sessions : task'[t].at \notin {"coded", "signed", "enqueue"}
        BY <3>6 DEF Passed
      <4> QED BY <3>6, <4>1 DEF Alike, OnePasses
    <3>10. \A t \in Running' : task'[t].hash = hash'
      BY <2>u, <3>1, <3>2, <3>4, <3>5, <3>6, <3>8 DEF InTurn
    <3>11. \A t \in Sessions : task'[t].at = "sent" => task'[t].code = Len(codes')
      BY <3>2, <3>5, <3>6, <3>7 DEF Running
    <3> QED BY <2>v, <3>1, <3>6, <3>8, <3>9, <3>10, <3>11 DEF InTurn
  <2>6. CASE SignIn(s)
    <3>1. PICK r \in task[s].req : r.kind = "confirm" /\ r.code = task[s].hash /\ r.code \notin used
                                   /\ used' = used \cup {r.code}
      BY <2>6 DEF SignIn
    <3>2. Serves(s, "confirm") /\ s \in Running /\ task[s].hash \notin used /\ task[s].at = "call"
      BY <2>6, <3>1 DEF Serves, SignIn, Running
    <3>3. acct = "created"
      BY <2>u, <3>2 DEF InTurn, AllDone
    <3>4. Passed = {}
      <4> SUFFICES ASSUME NEW t \in Passed PROVE FALSE
        OBVIOUS
      <4>1. t \in Running /\ t # s
        BY <3>2 DEF Passed, Running
      <4>2. Serves(t, "confirm") /\ task[t].hash = task[s].hash
        BY <2>u, <3>2, <4>1, <1>k DEF InTurn, Alike
      <4>3. task[t].hash \in used
        BY <2>u, <4>2 DEF InTurn, OnePasses
      <4> QED BY <3>2, <4>2, <4>3
    <3>5. /\ UNCHANGED <<acct, hash, codes, client>> /\ used \subseteq used' /\ task[s].hash \in used'
      BY <2>6, <3>1 DEF SignIn, row
    <3>6. CASE Moves(s, "signed")
      <4>1. InTurn'
        BY <1>t, <2>u, <3>2, <3>3, <3>4, <3>5, <3>6, TurnPasses
      <4>2. s \in Running'
        BY <1>t, <3>6, MoveFacts DEF Running, Places
      <4> QED BY <2>v, <4>1, <4>2
    <3>7. CASE Moves(s, "coded") /\ key' = [key EXCEPT ![client] = "coded"]
      <4>0. key'[client] = "coded"
        BY <1>t, <2>c, <3>2, <3>7 DEF LoginTypeOK, HoldPlaces
      <4>1. InTurn'
        BY <1>t, <2>u, <3>2, <3>3, <3>4, <3>5, <3>7, <4>0, TurnPasses
      <4>2. s \in Running'
        BY <1>t, <3>7, MoveFacts DEF Running, Places
      <4> QED BY <2>v, <4>1, <4>2
    <3> QED BY <2>6, <3>6, <3>7 DEF SignIn
  <2>7. CASE Password(s)
    <3>1. /\ Serves(s, "password") /\ s \in Running /\ key[client] = "coded" /\ task[s].at = "call"
          /\ Moves(s, "signed") /\ UNCHANGED <<acct, hash, codes, client, used>>
      BY <2>7 DEF Password, Serves, Running, row
    <3>2. ~Serves(s, "confirm")
      BY <3>1 DEF OneRequest, Serves
    <3>3. client \in Keys
      BY <2>c, <3>1 DEF HoldPlaces
    <3>4. acct = "created"
      <4>1. acct = "warming" => stored = client /\ key[stored] = "signed in"
        BY <2>z, <3>3 DEF SessionKept
      <4> QED BY <2>u, <3>1, <4>1 DEF InTurn
    <3>5. Passed = {}
      <4> SUFFICES ASSUME NEW t \in Passed PROVE FALSE
        OBVIOUS
      <4>1. t \in Running /\ t # s /\ t \in Sessions
        BY <3>1 DEF Passed, Running
      <4>2. task[t].at # "signed"
        BY <3>1, <4>1 DEF PlacesFit
      <4>3. task[t].at # "enqueue"
        BY <2>u, <3>4, <4>1 DEF InTurn, OnePasses
      <4>4. task[t].at # "coded"
        <5>1. Serves(t, "confirm") => Serves(s, "confirm")
          BY <1>k, <2>u, <3>1, <4>1 DEF InTurn, Alike
        <5> QED BY <3>2, <4>1, <5>1 DEF PlacesFit
      <4> QED BY <4>2, <4>3, <4>4 DEF Passed
    <3>6. InTurn'
      BY <1>t, <2>u, <3>1, <3>2, <3>4, <3>5, TurnPasses
    <3>7. s \in Running'
      BY <1>t, <3>1, MoveFacts DEF Running, Places
    <3> QED BY <2>v, <3>6, <3>7
  <2>8. CASE Pend(s)
    <3>1. /\ Over(s) /\ word' = "waiting_code" /\ hash' = task[s].code /\ acct' = acct
          /\ UNCHANGED <<key, codes, used>> /\ task[s].at = "sent"
      BY <2>8, <2>a DEF Pend, Says, telegram
    <3>2. Serves(s, "start") /\ s \in Running /\ task[s].code = Len(codes)
      BY <2>u, <3>1 DEF PlacesFit, Running, InTurn
    <3>3. Running = {s} /\ acct = "created"
      BY <2>u, <3>2 DEF InTurn, Alike, AllDone
    <3>4. Running' = {}
      BY <1>t, <3>1, <3>3, OverFacts
    <3>5. \A t \in Sessions : task'[t].at = "idle"
      BY <3>4 DEF Running
    <3>6. InTurn'
      BY <3>1, <3>3, <3>4, <3>5 DEF InTurn, Alike, OnePasses, Passed
    <3>7. WordTrue'
      BY <3>1, <3>2, <3>3 DEF WordTrue
    <3> QED BY <3>6, <3>7
  <2>9. CASE NeedPassword(s)
    <3>1. /\ Over(s) /\ word' = "waiting_password" /\ task[s].at = "coded"
          /\ UNCHANGED <<key, codes, used, acct, hash>>
      BY <2>9 DEF NeedPassword, Says, telegram, row
    <3>2. /\ acct = "created" /\ key[client] = "coded" /\ Serves(s, "confirm") /\ s \in Running
      BY <2>u, <3>1 DEF InTurn, OnePasses, PlacesFit, Running
    <3>3. task[s].hash # 0
      <4>1. PICK r \in Requests : task[s].req = {r} /\ (r.kind # "start" => task[s].hash # 0)
        BY <3>2 DEF OneRequest
      <4>2. r.kind = "confirm"
        BY <3>2, <4>1 DEF Serves
      <4> QED BY <4>1, <4>2
    <3>4. hash # 0
      BY <2>u, <3>2, <3>3 DEF InTurn
    <3>5. stored' = client
      BY <2>9, <3>2 DEF NeedPassword
    <3>6. InTurn'
      BY <1>t, <2>u, <2>h, <3>1, TurnOver
    <3>7. WordTrue'
      BY <3>1, <3>2, <3>4, <3>5 DEF WordTrue
    <3> QED BY <3>6, <3>7
  <2>10. CASE Finish(s)
    <3>1. /\ acct = "created" /\ acct' = "warming" /\ hash' = 0 /\ Moves(s, "enqueue")
          /\ UNCHANGED <<key, codes, used>> /\ task[s].at = "signed"
      BY <2>10, <2>a DEF Finish, telegram
    <3>2. s \in Passed /\ s \in Running /\ ~Serves(s, "start")
      BY <3>1 DEF Passed, Running, PlacesFit
    <3>3. /\ task'[s].at = "enqueue"
          /\ \A t \in Sessions : t # s => task'[t] = task[t]
          /\ \A t \in Sessions, kind \in Kinds : Serves(t, kind)' <=> Serves(t, kind)
          /\ task'[s].hash = task[s].hash
      BY <1>t, <3>1, MoveFacts DEF Places
    <3>4. Running' = Running /\ Passed' = {s} /\ \A t \in Sessions : task'[t].hash = task[t].hash
      <4>1. \A t \in Passed : t = s
        BY <2>u, <3>2 DEF InTurn, OnePasses
      <4> QED BY <3>2, <3>3, <4>1 DEF Running, Passed
    <3>5. Alike'
      BY <1>k, <2>u, <3>3, <3>4 DEF InTurn, Alike, Running
    <3>6. \A t \in Running : ~Serves(t, "start") /\ (Serves(t, "confirm") => task[t].hash \in used)
      <4>1. Serves(s, "confirm") => task[s].hash \in used
        BY <2>u, <3>2 DEF InTurn, OnePasses
      <4> SUFFICES ASSUME NEW t \in Running, t # s
                   PROVE  ~Serves(t, "start") /\ (Serves(t, "confirm") => task[t].hash \in used)
        BY <3>2, <4>1
      <4>2. ~Serves(t, "start") /\ (Serves(t, "confirm") => Serves(s, "confirm")) /\ task[t].hash = task[s].hash
        BY <1>k, <2>u, <3>2 DEF InTurn, Alike
      <4> QED BY <4>1, <4>2
    <3>7. AllDone'
      BY <1>k, <3>1, <3>3, <3>4, <3>6 DEF AllDone, Running
    <3>8. OnePasses'
      <4>1. \A t \in Sessions : task'[t].at \notin {"coded", "signed"}
        BY <3>3, <3>4 DEF Passed
      <4>2. Serves(s, "confirm")' => task'[s].hash \in used'
        BY <1>k, <3>1, <3>2, <3>3, <3>6
      <4> QED BY <3>1, <3>4, <4>1, <4>2 DEF OnePasses
    <3>9. \A t \in Sessions : task'[t].at = "sent" => task'[t].code = Len(codes')
      BY <2>u, <3>1, <3>3 DEF InTurn
    <3> QED BY <2>v, <3>1, <3>2, <3>4, <3>5, <3>7, <3>8, <3>9 DEF InTurn
  <2>11. CASE Succeed(s)
    <3>1. /\ Over(s) /\ word' = "success" /\ task[s].at = "enqueue" /\ UNCHANGED <<acct, hash, client, key, codes, used>>
      BY <2>11 DEF Succeed, Says, row, telegram
    <3>2. acct = "warming" /\ hash = 0
      BY <2>u, <3>1 DEF InTurn, OnePasses, AllDone
    <3>3. InTurn'
      BY <1>t, <2>u, <3>1, TurnOver
    <3> QED BY <3>1, <3>2, <3>3 DEF WordTrue
  <2> QED BY <2>1, <2>2, <2>3, <2>4, <2>5, <2>6, <2>7, <2>8, <2>9, <2>10, <2>11, TaskSteps
<1> QED BY <1>1, <1>2, <1>3, <1>4, LoginActions
-----------------------------------------------------------------------------
LoginInv ==
    /\ LoginType /\ OneRequest /\ PlacesFit /\ SessionKept /\ SweepSpares
    /\ (~blurred => InTurn) /\ WordTrue

LEMMA LoginInitFits == LoginAssumption /\ LoginInit => LoginInv
<1> SUFFICES ASSUME LoginAssumption, LoginInit PROVE LoginInv
  OBVIOUS
<1> USE DEF LoginInit, LoginAssumption
<1>0. \A s \in Sessions : task[s] = Idle /\ task[s].at = "idle"
  BY DEF Idle
<1>1. Running = {} /\ Holders = {} /\ Passed = {}
  BY <1>0 DEF Running, Holders, Passed
<1>2. task \in [Sessions -> [at: Places, req: SUBSET Requests, hash: Codes, code: Codes]]
  BY IdleTask DEF Tasks
<1>3. /\ acct \in {"created", "warming", "other", "gone"}
      /\ hash \in Codes /\ stored \in Keys \cup {0} /\ client \in Keys \cup {0}
      /\ (client # 0) = (Holders # {})
      /\ queue \subseteq Requests
  BY <1>1 DEF Codes
<1>4. /\ key \in [Keys -> KeyStates] /\ word \in Words /\ listed \in BOOLEAN /\ swept \in KeyStates
      /\ blurred \in BOOLEAN
  BY DEF KeyStates, Words
<1>5. asked \in 0..MaxRequests /\ troubles \in 0..MaxTrouble
  OBVIOUS
<1>6. LoginType
  BY <1>2, <1>3, <1>4, <1>5 DEF LoginType, LoginTypeOK
<1>7. OneRequest /\ PlacesFit /\ SessionKept /\ SweepSpares
  BY <1>0, <1>1 DEF OneRequest, PlacesFit, SessionKept, SweepSpares
<1>8. InTurn /\ WordTrue
  BY <1>0, <1>1 DEF InTurn, Alike, OnePasses, WordTrue
<1> QED BY <1>6, <1>7, <1>8 DEF LoginInv

LEMMA LoginInvKeeps ==
  LoginAssumption /\ LoginInv /\ [LoginNext]_loginVars => LoginInv'
<1> SUFFICES ASSUME LoginAssumption, LoginInv, [LoginNext]_loginVars PROVE LoginInv'
  OBVIOUS
<1>1. CASE LoginNext
  BY <1>1, LoginTypeKeeps, OneRequestKeeps, PlacesKeep, SessionKeeps, SweepKeeps, TurnKeeps
     DEF LoginInv, LoginType
<1>2. CASE UNCHANGED loginVars
  <2> USE <1>2 DEF loginVars
  <2>1. UNCHANGED Running /\ UNCHANGED Holders /\ UNCHANGED Passed
    BY DEF Running, Holders, Passed
  <2>2. LoginType'
    BY <2>1 DEF LoginInv, LoginType, LoginTypeOK
  <2>3. OneRequest' /\ SessionKept' /\ SweepSpares' /\ WordTrue'
    BY <2>1 DEF LoginInv, OneRequest, SessionKept, SweepSpares, WordTrue
  <2>4. PlacesFit'
    BY DEF LoginInv, PlacesFit, Serves
  <2>5. Alike => Alike'
    BY <2>1 DEF Alike, Serves
  <2>6. (OnePasses => OnePasses') /\ (AllDone => AllDone')
    BY <2>1 DEF OnePasses, AllDone, Serves
  <2>7. ~blurred' => InTurn'
    BY <2>1, <2>5, <2>6 DEF LoginInv, InTurn
  <2> QED BY <2>2, <2>3, <2>4, <2>7 DEF LoginInv
<1> QED BY <1>1, <1>2

LEMMA LoginInvHolds ==
  LoginInv => LoginTypeOK /\ SessionFits /\ WordTrue
BY DEF LoginInv, LoginType, SessionKept, SweepSpares, SessionFits

\* Whatever the number of login tasks that overlap and of requests, codes, keys, retries and
\* deaths of the worker: the stored session is the one the pending code belongs to, an account
\* that warms has a session that is signed in, the sweep deletes no account whose session is
\* signed in unless there was trouble, and the word published last is true while nothing made
\* it outdated (worker/login/flow.py, api/services/login.py, worker/tasks/accounts.py).
THEOREM LoginsAreHonest ==
  ASSUME LoginAssumption
  PROVE  LoginSpec => [](LoginTypeOK /\ SessionFits /\ WordTrue)
<1>1. LoginInit => LoginInv
  BY LoginInitFits
<1>2. LoginInv /\ [LoginNext]_loginVars => LoginInv'
  BY LoginInvKeeps
<1>3. LoginInv => LoginTypeOK /\ SessionFits /\ WordTrue
  BY LoginInvHolds
<1> QED BY <1>1, <1>2, <1>3, PTL DEF LoginSpec
-----------------------------------------------------------------------------
(*************** LiveReplies ***************)

\* What is on its way to the worker: the events, then what requests have yet to publish.
Newest(m) ==
    IF telling # <<>> THEN telling[Len(telling)] = m
    ELSE events # <<>> /\ events[Len(events)] = m

\* The newest of them says what the campaign is, but for a change that nobody was told of.
NewestIsStatus ==
    /\ Newest("attach") => status = "running" \/ "status" \in astray
    /\ Newest("detach") => status # "running" \/ missing

NoStopComing == /\ \A i \in 1..Len(telling) : telling[i] = "attach"
                /\ \A i \in 1..Len(events) : events[i] = "attach"
NothingComing == telling = <<>> /\ events = <<>>

Wanted == IF answers THEN linked ELSE {}

\* Handlers of a worker that has read the table: none where nothing runs and nothing is on its
\* way; only those the campaign wants where no stop is on its way; and all of them where it
\* runs and the start has been heard.
HandlersFit ==
    /\ NothingComing /\ status # "running" /\ "status" \notin astray =>
          attaching = {} /\ \A b \in Bots : heard[b] = 0
    /\ NoStopComing /\ status # "gone" /\ ~missing =>
          attaching \subseteq Wanted /\ \A b \in Bots : heard[b] = 1 => b \in Wanted
    /\ NothingComing /\ status = "running" /\ ~missing =>
          \A b \in Wanted : heard[b] = 1 \/ b \in attaching

\* One run of a handler for each reply, and none of them has answered.
OneRunEach ==
    /\ \A b \in Bots : heard[b] \in {0, 1}
    /\ \A r \in talk : answered[r.msg] = 0
    /\ \A r, q \in talk : r.msg = q.msg => r = q
    /\ \A m \in Replies : answered[m] <= 1

\* The run that has made the counter and has yet to let its answer through.
Expiring == \E r \in talk : r.at = "expire"

GateCounts ==
    /\ \A r, q \in talk : r.at = "expire" /\ q.at = "expire" => r = q
    /\ Expiring => counter > 0 /\ ~expires
    /\ counter = 0 => passed = 0 /\ ~expires
    /\ passed + (IF Expiring THEN 1 ELSE 0) <= counter
    /\ passed + (IF Expiring THEN 1 ELSE 0) <= MaxReplies

InStep == "events" \notin astray

RegistryOK ==
    /\ phase # "up" => events = <<>>
    /\ phase = "down" => attaching = {} /\ \A b \in Bots : heard[b] = 0
    /\ InStep => NewestIsStatus
    /\ InStep /\ phase # "down" => HandlersFit

LiveInv == LiveTypeOK /\ RegistryOK /\ OneRunEach /\ GateCounts
-----------------------------------------------------------------------------
Msgs == {"attach", "detach"}

LEMMA Joined ==
  ASSUME NEW a \in Seq(Msgs), NEW b \in Seq(Msgs), NEW j \in 1..(Len(a) + Len(b))
  PROVE  (a \o b)[j] = IF j <= Len(a) THEN a[j] ELSE b[j - Len(a)]
OBVIOUS

\* What is left of the requests' events when one of them is published, or lost.
LEMMA WithoutOne ==
  ASSUME NEW s \in Seq(Msgs), NEW i \in DOMAIN s
  PROVE  LET w == SubSeq(s, 1, i - 1) \o SubSeq(s, i + 1, Len(s)) IN
         /\ w \in Seq(Msgs)
         /\ Len(w) = Len(s) - 1
         /\ \A j \in 1..Len(w) : w[j] = IF j < i THEN s[j] ELSE s[j + 1]
<1> DEFINE a == SubSeq(s, 1, i - 1)
           b == SubSeq(s, i + 1, Len(s))
<1>1. Len(s) \in Nat /\ i \in 1..Len(s) /\ i \in Int
  OBVIOUS
<1>2. a \in Seq(Msgs) /\ Len(a) = i - 1 /\ \A j \in 1..(i - 1) : a[j] = s[j]
  BY <1>1
<1>3. b \in Seq(Msgs) /\ Len(b) = Len(s) - i /\ \A j \in 1..(Len(s) - i) : b[j] = s[j + i]
  BY <1>1
<1> HIDE DEF a, b
<1>4. a \o b \in Seq(Msgs) /\ Len(a \o b) = Len(s) - 1
  BY <1>1, <1>2, <1>3
<1>5. \A j \in 1..Len(a \o b) : (a \o b)[j] = IF j < i THEN s[j] ELSE s[j + 1]
  <2> SUFFICES ASSUME NEW j \in 1..(Len(s) - 1)
               PROVE  (a \o b)[j] = IF j < i THEN s[j] ELSE s[j + 1]
    BY <1>4
  <2>1. (a \o b)[j] = IF j <= Len(a) THEN a[j] ELSE b[j - Len(a)]
    <3>1. j \in 1..(Len(a) + Len(b))
      BY <1>1, <1>2, <1>3
    <3>2. a \in Seq(Msgs) /\ b \in Seq(Msgs)
      BY <1>2, <1>3
    <3> QED BY <3>1, <3>2, Joined
  <2>2. CASE j < i
    BY <1>1, <1>2, <2>1, <2>2
  <2>3. CASE ~(j < i)
    <3>1. j - (i - 1) \in 1..(Len(s) - i)
      BY <1>1, <2>3
    <3>2. b[j - (i - 1)] = s[(j - (i - 1)) + i] /\ (j - (i - 1)) + i = j + 1
      BY <1>1, <1>3, <3>1
    <3>3. ~(j <= Len(a)) /\ Len(a) = i - 1
      BY <1>1, <1>2, <2>3
    <3> QED BY <2>1, <2>3, <3>2, <3>3
  <2> QED BY <2>2, <2>3
<1> QED BY <1>4, <1>5 DEF a, b
-----------------------------------------------------------------------------
LEMMA LiveActions ==
  LiveNext <=>
    \/ Start \/ Stop \/ Delete \/ EditRunning \/ EditStopped \/ StartTask
    \/ (\E i \in DOMAIN telling : Publish(i))
    \/ (\E i \in DOMAIN telling : Untold(i)) \/ TakeAttach \/ TakeDetach \/ WorkerDies \/ Load
    \/ Subscribe \/ WindowEnds \/ (\E b \in Bots : Edit(b)) \/ (\E b \in Bots : Connect(b))
    \/ (\E b \in Bots : NoClient(b)) \/ (\E b \in Bots : \E m \in Replies : Reply(m, b))
    \/ (\E r \in talk : Gate(r)) \/ (\E r \in talk : Expire(r)) \/ (\E r \in talk : GateFails(r))
    \/ (\E r \in talk : Answer(r)) \/ (\E r \in talk : NoAnswer(r))
BY DEF LiveNext

LEMMA RunMoves ==
  ASSUME LiveTypeOK, NEW r \in talk, NEW place \in {"gate", "expire", "reply"}
  PROVE  /\ [r EXCEPT !.at = place] \in Runs
         /\ [r EXCEPT !.at = place].msg = r.msg
         /\ [r EXCEPT !.at = place].at = place
         /\ r.msg \in Replies /\ r.by \in Bots
BY DEF LiveTypeOK, Runs

LEMMA LiveTypeKeeps ==
  ASSUME LiveAssumption, LiveTypeOK, LiveNext PROVE LiveTypeOK'
<1> USE DEF LiveTypeOK, LiveAssumption, campaign, registry, ghosts, talking, Turn, Upset
<1>1. CASE Start
  BY <1>1 DEF Start
<1>2. CASE Stop
  BY <1>2 DEF Stop
<1>3. CASE Delete
  BY <1>3 DEF Delete
<1>3a. CASE EditRunning
  BY <1>3a DEF EditRunning
<1>3b. CASE EditStopped
  BY <1>3b DEF EditStopped, StopsUntold
<1>3c. CASE StartTask
  <2>1. status' \in {"idle", "running", "gone"} /\ astray' \subseteq {"events", "status"}
    BY <1>3c DEF StartTask, StopsUntold
  <2>2. tasks' \in Nat /\ UNCHANGED <<answers, linked, telling, events, registry, talking, missing,
                                     turns, upsets>>
    BY <1>3c DEF StartTask
  <2> QED BY <2>1, <2>2
<1>4. CASE \E i \in DOMAIN telling : Publish(i)
  <2> PICK i \in DOMAIN telling : Publish(i)
    BY <1>4
  <2>1. telling' \in Seq({"attach", "detach"})
    BY WithoutOne DEF Publish, Without, Msgs
  <2>2. telling[i] \in {"attach", "detach"}
    OBVIOUS
  <2>3. events' \in Seq({"attach", "detach"}) /\ astray' \subseteq {"events", "status"}
    BY <2>2 DEF Publish
  <2> QED BY <2>1, <2>3 DEF Publish
<1>5. CASE \E i \in DOMAIN telling : Untold(i)
  <2> PICK i \in DOMAIN telling : Untold(i)
    BY <1>5
  <2>1. telling' \in Seq({"attach", "detach"})
    BY WithoutOne DEF Untold, Without, Msgs
  <2> QED BY SMTT(20), <2>1 DEF Untold
<1>6. CASE TakeAttach
  BY <1>6 DEF TakeAttach, Free
<1>7. CASE TakeDetach
  BY <1>7 DEF TakeDetach, Free
<1>8. CASE WorkerDies
  BY <1>8 DEF WorkerDies
<1>9. CASE Load
  <2>1. astray' \subseteq {"events", "status"} /\ missing' \in BOOLEAN
    BY <1>9 DEF Load
  <2> QED BY <1>9, <2>1 DEF Load
<1>10. CASE Subscribe
  BY <1>10 DEF Subscribe
<1>11. CASE WindowEnds
  BY <1>11 DEF WindowEnds
<1>12. CASE \E b \in Bots : Edit(b)
  <2> PICK b \in Bots : Edit(b)
    BY <1>12
  <2>1. missing' \in BOOLEAN
    BY DEF Edit
  <2>2. answers' \in BOOLEAN
    BY DEF Edit
  <2>3. linked' \subseteq Bots
    BY DEF Edit
  <2> QED BY <2>1, <2>2, <2>3 DEF Edit
<1>13. CASE \E b \in Bots : Connect(b)
  BY <1>13 DEF Connect
<1>14. CASE \E b \in Bots : NoClient(b)
  BY <1>14 DEF NoClient
<1>15. CASE \E b \in Bots : \E m \in Replies : Reply(m, b)
  <2> PICK b \in Bots, m \in Replies : Reply(m, b)
    BY <1>15
  <2>1. \A n \in 1..heard[b] : [msg |-> m, by |-> b, nth |-> n, at |-> "gate"] \in Runs
    BY DEF Runs
  <2>2. talk' \subseteq Runs
    BY <2>1 DEF Reply
  <2> QED BY <2>2 DEF Reply
<1>16. CASE \E r \in talk : Gate(r)
  <2> PICK r \in talk : Gate(r)
    BY <1>16
  <2>0. [r EXCEPT !.at = "expire"] \in Runs /\ [r EXCEPT !.at = "reply"] \in Runs
    BY RunMoves
  <2>1. talk' \subseteq Runs
    BY <2>0 DEF Gate, Goes, Falls
  <2> QED BY <2>1 DEF Gate, LetThrough
<1>17. CASE \E r \in talk : Expire(r)
  <2> PICK r \in talk : Expire(r)
    BY <1>17
  <2>1. talk' \subseteq Runs
    BY RunMoves DEF Expire, Goes
  <2> QED BY <2>1 DEF Expire, LetThrough
<1>18. CASE \E r \in talk : GateFails(r)
  <2> PICK r \in talk : GateFails(r)
    BY <1>18
  <2>1. talk' \subseteq Runs
    BY RunMoves DEF GateFails, Goes
  <2> QED BY <2>1 DEF GateFails
<1>19. CASE \E r \in talk : Answer(r)
  <2> PICK r \in talk : Answer(r)
    BY <1>19
  <2>1. talk' \subseteq Runs
    BY DEF Answer, Falls
  <2>2. r.msg \in Replies
    BY RunMoves DEF LiveTypeOK, Runs
  <2>3. answered' \in [Replies -> Int]
    BY <2>2 DEF Answer
  <2> QED BY <2>1, <2>3 DEF Answer
<1>20. CASE \E r \in talk : NoAnswer(r)
  BY <1>20 DEF NoAnswer, Falls
<1> QED
  BY <1>1, <1>2, <1>3, <1>3a, <1>3b, <1>3c, <1>4, <1>5, <1>6, <1>7, <1>8, <1>9, <1>10, <1>11, <1>12, <1>13, <1>14,
     <1>15, <1>16, <1>17, <1>18, <1>19, <1>20, LiveActions
-----------------------------------------------------------------------------
(* The counter *)

\* A run that goes on, or ends.
LEMMA ExpiringMoves ==
  ASSUME LiveTypeOK, GateCounts, NEW r \in talk, NEW place \in {"gate", "expire", "reply"}
  PROVE  /\ r.at = "expire" => Expiring
         /\ r.at = "expire" => \A q \in talk \ {r} : q.at # "expire"
         /\ Goes(r, place) /\ place # "expire" =>
              /\ \A q, p \in talk' : q.at = "expire" /\ p.at = "expire" => q = p
              /\ Expiring' => Expiring /\ r.at # "expire"
         /\ Goes(r, "expire") /\ ~Expiring =>
              \A q, p \in talk' : q.at = "expire" /\ p.at = "expire" => q = p
         /\ Falls(r) =>
              /\ \A q, p \in talk' : q.at = "expire" /\ p.at = "expire" => q = p
              /\ Expiring' => Expiring
<1>1. \A q \in talk' \ talk : Goes(r, place) => q.at = place
  BY RunMoves DEF Goes
<1>2. \A q \in talk' \ talk : Goes(r, "expire") => q = [r EXCEPT !.at = "expire"]
  BY DEF Goes
<1>3. Goes(r, place) => r \notin talk' \/ r.at = place
  BY ZenonT(30), RunMoves DEF Goes
<1>4. r.at = "expire" => Expiring /\ \A q \in talk \ {r} : q.at # "expire"
  BY DEF Expiring, GateCounts
<1>5. ASSUME Goes(r, place), place # "expire"
      PROVE  /\ \A q, p \in talk' : q.at = "expire" /\ p.at = "expire" => q = p
             /\ Expiring' => Expiring /\ r.at # "expire"
  <2>1. \A q \in talk' : q.at = "expire" => q \in talk /\ q # r
    BY <1>1, <1>3, <1>5
  <2> QED BY <1>4, <2>1 DEF Expiring, GateCounts
<1>6. ASSUME Goes(r, "expire"), ~Expiring
      PROVE  \A q, p \in talk' : q.at = "expire" /\ p.at = "expire" => q = p
  BY <1>2, <1>6 DEF Expiring
<1>7. ASSUME Falls(r)
      PROVE  /\ \A q, p \in talk' : q.at = "expire" /\ p.at = "expire" => q = p
             /\ Expiring' => Expiring
  BY <1>7 DEF Falls, Expiring, GateCounts
<1> QED BY <1>4, <1>5, <1>6, <1>7

LEMMA GateKeeps ==
  ASSUME LiveAssumption, LiveTypeOK, OneRunEach, GateCounts, LiveNext PROVE GateCounts'
<1> USE DEF LiveAssumption
<1>0. counter \in Nat /\ passed \in Nat /\ expires \in BOOLEAN /\ MaxReplies \in Nat \ {0}
  BY DEF LiveTypeOK
<1>a. ASSUME UNCHANGED <<talk, counter, expires, passed>> PROVE GateCounts'
  BY <1>a DEF GateCounts, Expiring
<1>1. CASE Start \/ Stop \/ Delete
  BY <1>1, <1>a DEF Start, Stop, Delete, talking
<1>2. CASE EditRunning \/ EditStopped \/ StartTask
  BY <1>2, <1>a DEF EditRunning, EditStopped, StartTask, talking
<1>4. CASE \E i \in DOMAIN telling : Publish(i)
  BY <1>4, <1>a DEF Publish, talking
<1>5. CASE \E i \in DOMAIN telling : Untold(i)
  BY <1>5, <1>a DEF Untold, talking
<1>6. CASE TakeAttach \/ TakeDetach
  BY <1>6, <1>a DEF TakeAttach, TakeDetach, talking
<1>8. CASE WorkerDies
  <2>1. talk' = {} /\ UNCHANGED <<counter, expires, passed>>
    BY <1>8 DEF WorkerDies
  <2>2. ~Expiring'
    BY <2>1 DEF Expiring
  <2>3. \A r, q \in talk' : r.at = "expire" /\ q.at = "expire" => r = q
    BY <2>1
  <2> QED BY <1>0, <2>1, <2>2, <2>3 DEF GateCounts
<1>9. CASE Load \/ Subscribe
  BY <1>9, <1>a DEF Load, Subscribe, talking
<1>11. CASE WindowEnds
  <2>1. counter' = 0 /\ passed' = 0 /\ expires' = FALSE /\ UNCHANGED talk /\ expires
    BY <1>11 DEF WindowEnds
  <2>2. ~Expiring'
    BY <2>1 DEF Expiring, GateCounts
  <2>3. \A r, q \in talk' : r.at = "expire" /\ q.at = "expire" => r = q
    BY <2>1 DEF GateCounts
  <2> QED BY <1>0, <2>1, <2>2, <2>3 DEF GateCounts
<1>12. CASE \E b \in Bots : Edit(b) \/ Connect(b) \/ NoClient(b)
  BY <1>12, <1>a DEF Edit, Connect, NoClient, talking
<1>15. CASE \E b \in Bots : \E m \in Replies : Reply(m, b)
  <2> PICK b \in Bots, m \in Replies : Reply(m, b)
    BY <1>15
  <2>1. \A q \in talk' : q \in talk \/ q.at = "gate"
    BY DEF Reply
  <2>2. talk \subseteq talk' /\ UNCHANGED <<counter, expires, passed>>
    BY DEF Reply
  <2>3. Expiring' <=> Expiring
    BY <2>1, <2>2 DEF Expiring
  <2>4. \A r, q \in talk' : r.at = "expire" /\ q.at = "expire" => r = q
    BY <2>1 DEF GateCounts
  <2> QED BY <2>2, <2>3, <2>4 DEF GateCounts
<1>16. CASE \E r \in talk : Gate(r)
  <2> PICK r \in talk : Gate(r)
    BY <1>16
  <2>1. counter' = counter + 1 /\ UNCHANGED expires /\ r.at = "gate"
    BY DEF Gate
  <2>2. CASE counter = 0 /\ Goes(r, "expire") /\ UNCHANGED passed
    <3>1. ~Expiring /\ passed = 0 /\ ~expires
      BY <1>0, <2>2 DEF GateCounts
    <3>2. \A q, p \in talk' : q.at = "expire" /\ p.at = "expire" => q = p
      BY <2>2, <3>1, ExpiringMoves
    <3> QED BY <1>0, <2>1, <2>2, <3>1, <3>2 DEF GateCounts
  <2>3. CASE counter \in 1..MaxReplies - 1 /\ Goes(r, "reply") /\ LetThrough
    <3>1. \A q, p \in talk' : q.at = "expire" /\ p.at = "expire" => q = p
      BY <2>3, ExpiringMoves
    <3>2. Expiring' => Expiring
      BY <2>3, ExpiringMoves
    <3>3. passed' = passed + 1 /\ passed + (IF Expiring THEN 1 ELSE 0) <= counter
      BY <2>3 DEF LetThrough, GateCounts
    <3>4. Expiring => ~expires
      BY DEF GateCounts
    <3> QED BY <1>0, <2>1, <2>3, <3>1, <3>2, <3>3, <3>4 DEF GateCounts
  <2>4. CASE Falls(r) /\ UNCHANGED passed
    <3>1. \A q, p \in talk' : q.at = "expire" /\ p.at = "expire" => q = p
      BY <2>4, ExpiringMoves
    <3>2. Expiring' => Expiring
      BY <2>4, ExpiringMoves
    <3>3. /\ passed + (IF Expiring THEN 1 ELSE 0) <= counter
          /\ passed + (IF Expiring THEN 1 ELSE 0) <= MaxReplies
          /\ Expiring => ~expires
      BY DEF GateCounts
    <3> QED BY <1>0, <2>1, <2>4, <3>1, <3>2, <3>3 DEF GateCounts
  <2> QED BY <2>2, <2>3, <2>4 DEF Gate
<1>17. CASE \E r \in talk : Expire(r)
  <2> PICK r \in talk : Expire(r)
    BY <1>17
  <2>1. r.at = "expire" /\ Goes(r, "reply") /\ passed' = passed + 1 /\ UNCHANGED counter
    BY DEF Expire, LetThrough
  <2>2. Expiring
    BY <2>1, ExpiringMoves
  <2>3. ~Expiring' /\ \A q, p \in talk' : q.at = "expire" /\ p.at = "expire" => q = p
    BY <2>1, ExpiringMoves
  <2> QED BY <1>0, <2>1, <2>2, <2>3 DEF GateCounts
<1>18. CASE \E r \in talk : GateFails(r)
  <2> PICK r \in talk : GateFails(r)
    BY <1>18
  <2>1. Goes(r, "reply") /\ UNCHANGED <<counter, expires, passed>>
    BY DEF GateFails
  <2>2. Expiring' => Expiring
    BY <2>1, ExpiringMoves
  <2>3. \A q, p \in talk' : q.at = "expire" /\ p.at = "expire" => q = p
    BY <2>1, ExpiringMoves
  <2> QED BY <1>0, <2>1, <2>2, <2>3 DEF GateCounts
<1>19. CASE \E r \in talk : Answer(r) \/ NoAnswer(r)
  <2> PICK r \in talk : Answer(r) \/ NoAnswer(r)
    BY <1>19
  <2>1. Falls(r) /\ UNCHANGED <<counter, expires, passed>>
    BY DEF Answer, NoAnswer
  <2>2. Expiring' => Expiring
    BY <2>1, ExpiringMoves
  <2>3. \A q, p \in talk' : q.at = "expire" /\ p.at = "expire" => q = p
    BY <2>1, ExpiringMoves
  <2> QED BY <1>0, <2>1, <2>2, <2>3 DEF GateCounts
<1> QED
  BY <1>1, <1>2, <1>4, <1>5, <1>6, <1>8, <1>9, <1>11, <1>12, <1>15, <1>16, <1>17, <1>18, <1>19,
     LiveActions
-----------------------------------------------------------------------------
(* The runs of handlers *)

LEMMA RunsKeep ==
  ASSUME LiveTypeOK, OneRunEach, LiveNext PROVE OneRunEach'
<1>h. heard \in [Bots -> 0..2] /\ answered \in [Replies -> Int]
  BY DEF LiveTypeOK
<1>a. ASSUME UNCHANGED <<talk, answered>>, \A b \in Bots : heard'[b] \in {0, 1}
      PROVE  OneRunEach'
  BY <1>a DEF OneRunEach
<1>b. ASSUME UNCHANGED <<heard, answered>>, NEW r \in talk,
             NEW place \in {"gate", "expire", "reply"}, Goes(r, place) \/ Falls(r)
      PROVE  OneRunEach'
  <2>1. \A q \in talk' : \E p \in talk : p.msg = q.msg /\ (q # p => p = r /\ q = [r EXCEPT !.at = place])
    BY ZenonT(30), <1>b, RunMoves DEF Goes, Falls
  <2>2. \A q, p \in talk' : q.msg = p.msg => q = p
    <3> SUFFICES ASSUME NEW q \in talk', NEW p \in talk', q.msg = p.msg PROVE q = p
      OBVIOUS
    <3>1. CASE q \in talk /\ p \in talk
      BY <3>1 DEF OneRunEach
    <3>2. CASE q \notin talk /\ p \notin talk
      BY <1>b, <3>2 DEF Goes, Falls
    <3>3. CASE q \in talk /\ p \notin talk
      <4>0. Goes(r, place) /\ p = [r EXCEPT !.at = place]
        BY <1>b, <3>3 DEF Goes, Falls
      <4>1. Goes(r, place) /\ p = [r EXCEPT !.at = place] /\ p.msg = r.msg
        BY <4>0, RunMoves
      <4>2. q = r
        BY <3>3, <4>1 DEF OneRunEach
      <4> QED BY <4>1, <4>2 DEF Goes
    <3>4. CASE p \in talk /\ q \notin talk
      <4>0. Goes(r, place) /\ q = [r EXCEPT !.at = place]
        BY <1>b, <3>4 DEF Goes, Falls
      <4>1. Goes(r, place) /\ q = [r EXCEPT !.at = place] /\ q.msg = r.msg
        BY <4>0, RunMoves
      <4>2. p = r
        BY <3>4, <4>1 DEF OneRunEach
      <4> QED BY <4>1, <4>2 DEF Goes
    <3> QED BY <3>1, <3>2, <3>3, <3>4
  <2>3. \A q \in talk' : answered'[q.msg] = 0
    BY <1>b, <2>1 DEF OneRunEach
  <2> QED BY <1>b, <2>2, <2>3 DEF OneRunEach
<1>1. CASE Start \/ Stop \/ Delete
  BY <1>1, <1>a DEF Start, Stop, Delete, talking, registry, OneRunEach
<1>2. CASE EditRunning \/ EditStopped \/ StartTask
  BY <1>2, <1>a DEF EditRunning, EditStopped, StartTask, talking, registry, OneRunEach
<1>4. CASE \E i \in DOMAIN telling : Publish(i)
  BY <1>4, <1>a DEF Publish, talking, registry, OneRunEach
<1>5. CASE \E i \in DOMAIN telling : Untold(i)
  BY <1>5, <1>a DEF Untold, talking, registry, OneRunEach
<1>6. CASE TakeAttach \/ TakeDetach
  BY <1>6, <1>a DEF TakeAttach, TakeDetach, talking, OneRunEach
<1>8. CASE WorkerDies
  <2>1. talk' = {} /\ UNCHANGED answered /\ \A b \in Bots : heard'[b] = 0
    BY <1>8 DEF WorkerDies
  <2>2. \A r, q \in talk' : r.msg = q.msg => r = q
    BY <2>1
  <2>3. \A r \in talk' : answered'[r.msg] = 0
    BY <2>1
  <2> QED BY <2>1, <2>2, <2>3 DEF OneRunEach
<1>9. CASE Load \/ Subscribe
  BY <1>9, <1>a DEF Load, Subscribe, talking, OneRunEach
<1>11. CASE WindowEnds
  BY <1>11, <1>a DEF WindowEnds, registry, OneRunEach
<1>12. CASE \E b \in Bots : Edit(b) \/ NoClient(b)
  BY <1>12, <1>a DEF Edit, NoClient, talking, registry, OneRunEach
<1>13. CASE \E b \in Bots : Connect(b)
  BY <1>13, <1>a, <1>h DEF Connect, talking, OneRunEach
<1>15. CASE \E b \in Bots : \E m \in Replies : Reply(m, b)
  <2> PICK b \in Bots, m \in Replies : Reply(m, b)
    BY <1>15
  <2>1. /\ answered[m] = -1 /\ answered' = [answered EXCEPT ![m] = 0] /\ UNCHANGED heard
        /\ talk' = talk \cup {[msg |-> m, by |-> b, nth |-> n, at |-> "gate"] : n \in 1..heard[b]}
    BY DEF Reply, registry
  <2>2. \A q \in talk : q.msg # m /\ q.msg \in Replies
    BY <2>1 DEF OneRunEach, LiveTypeOK, Runs
  <2>3. \A q \in talk' \ talk : q = [msg |-> m, by |-> b, nth |-> 1, at |-> "gate"]
    BY <2>1 DEF OneRunEach
  <2>4. \A q \in talk' \ talk : q.msg = m
    BY <2>3
  <2>5. \A q, p \in talk' : q.msg = p.msg => q = p
    BY <2>2, <2>3, <2>4 DEF OneRunEach
  <2>6. \A q \in talk' : answered'[q.msg] = 0
    BY <1>h, <2>1, <2>2, <2>4 DEF OneRunEach
  <2>7. \A k \in Replies : answered'[k] <= 1
    BY <1>h, <2>1 DEF OneRunEach
  <2> QED BY <2>1, <2>5, <2>6, <2>7 DEF OneRunEach
<1>16. CASE \E r \in talk : Gate(r)
  BY <1>16, <1>b DEF Gate, registry
<1>17. CASE \E r \in talk : Expire(r)
  BY <1>17, <1>b DEF Expire, registry
<1>18. CASE \E r \in talk : GateFails(r)
  BY <1>18, <1>b DEF GateFails, registry
<1>19. CASE \E r \in talk : Answer(r)
  <2> PICK r \in talk : Answer(r)
    BY <1>19
  <2>1. /\ talk' = talk \ {r} /\ UNCHANGED heard /\ r.msg \in Replies
        /\ answered' = [answered EXCEPT ![r.msg] = @ + 1]
    BY DEF Answer, Falls, registry, LiveTypeOK, Runs
  <2>2. answered[r.msg] = 0 /\ \A q \in talk' : q.msg # r.msg /\ q.msg \in Replies
    BY <2>1 DEF OneRunEach, LiveTypeOK, Runs
  <2>3. \A q \in talk' : answered'[q.msg] = 0
    BY <1>h, <2>1, <2>2 DEF OneRunEach
  <2>4. \A k \in Replies : answered'[k] <= 1
    BY <1>h, <2>1, <2>2 DEF OneRunEach
  <2> QED BY <2>1, <2>3, <2>4 DEF OneRunEach
<1>20. CASE \E r \in talk : NoAnswer(r)
  BY <1>20, <1>b DEF NoAnswer, registry
<1> QED
  BY <1>1, <1>2, <1>4, <1>5, <1>6, <1>8, <1>9, <1>11, <1>12, <1>13, <1>15, <1>16, <1>17, <1>18, <1>19,
     <1>20, LiveActions
-----------------------------------------------------------------------------
(* The registry *)

LEMMA Added ==
  ASSUME NEW s \in Seq(Msgs), NEW v \in Msgs
  PROVE  /\ Append(s, v) \in Seq(Msgs) /\ Len(Append(s, v)) = Len(s) + 1
         /\ Append(s, v)[Len(s) + 1] = v
         /\ \A i \in 1..Len(s) : Append(s, v)[i] = s[i]
OBVIOUS

LEMMA TakenOff ==
  ASSUME NEW s \in Seq(Msgs), s # <<>>
  PROVE  /\ Tail(s) \in Seq(Msgs) /\ Len(Tail(s)) = Len(s) - 1 /\ Head(s) = s[1]
         /\ \A i \in 1..Len(s) - 1 : Tail(s)[i] = s[i + 1]
OBVIOUS

LEMMA EmptySeq == ASSUME NEW s \in Seq(Msgs) PROVE Len(s) \in Nat /\ (s = <<>> <=> Len(s) = 0)
OBVIOUS

\* What the newest is depends on the last of either queue alone.
LEMMA NewestStays ==
  ASSUME telling \in Seq(Msgs), events \in Seq(Msgs),
         telling' = telling /\ events # <<>> /\ events' = Tail(events), NEW m \in Msgs
  PROVE  (Newest(m))' => Newest(m)
<1>1. /\ events' \in Seq(Msgs) /\ Len(events') = Len(events) - 1
      /\ \A i \in 1..Len(events) - 1 : events'[i] = events[i + 1]
  BY TakenOff
<1>2. Len(events) \in Nat /\ (events' = <<>> <=> Len(events') = 0)
  BY <1>1, EmptySeq
<1>3. ASSUME events' # <<>> PROVE events'[Len(events')] = events[Len(events)]
  BY <1>1, <1>2, <1>3
<1> QED BY <1>3 DEF Newest

LEMMA RegistryKeeps ==
  ASSUME LiveTypeOK, RegistryOK, OneRunEach, LiveNext PROVE RegistryOK'
<1>t. /\ telling \in Seq(Msgs) /\ events \in Seq(Msgs) /\ status \in {"idle", "running", "gone"}
      /\ astray \subseteq {"events", "status"} /\ missing \in BOOLEAN /\ answers \in BOOLEAN
      /\ heard \in [Bots -> 0..2] /\ phase \in {"down", "loading", "up"}
  BY DEF LiveTypeOK, Msgs
<1>l. /\ Len(telling) \in Nat /\ (telling = <<>> <=> Len(telling) = 0)
      /\ Len(events) \in Nat /\ (events = <<>> <=> Len(events) = 0)
  BY <1>t, EmptySeq
<1>m. "attach" \in Msgs /\ "detach" \in Msgs
  BY DEF Msgs
<1>a. ASSUME UNCHANGED <<status, answers, linked, telling, events, phase, attaching, heard, astray,
                         missing>>
      PROVE  RegistryOK'
  BY <1>a DEF RegistryOK, InStep, Newest, NewestIsStatus, HandlersFit, NoStopComing, NothingComing,
              Wanted
<1>b. ASSUME NEW v \in Msgs, telling' = Append(telling, v), v = "attach" => status' = "running",
             v = "detach" => status' # "running", astray' = astray \ {"status"},
             v = "attach" => status # "gone",
             UNCHANGED <<answers, linked, events, phase, attaching, heard, missing>>
      PROVE  RegistryOK'
  <2>1. /\ telling' \in Seq(Msgs) /\ Len(telling') = Len(telling) + 1
        /\ telling'[Len(telling')] = v /\ \A i \in 1..Len(telling) : telling'[i] = telling[i]
    BY <1>t, <1>b, Added
  <2>2. telling' # <<>> /\ ~NothingComing'
    BY <1>l, <2>1, EmptySeq DEF NothingComing
  <2>3. NewestIsStatus'
    BY <1>b, <2>1, <2>2 DEF Newest, NewestIsStatus
  <2>4. NoStopComing' => NoStopComing /\ v = "attach"
    <3> SUFFICES ASSUME NoStopComing' PROVE NoStopComing /\ v = "attach"
      OBVIOUS
    <3>1. Len(telling) + 1 \in 1..Len(telling') /\ \A i \in 1..Len(telling) : i \in 1..Len(telling')
      BY <1>l, <2>1
    <3> QED BY <1>b, <2>1, <3>1 DEF NoStopComing
  <2>5. InStep' => InStep
    BY <1>b DEF InStep
  <2>6. HandlersFit => HandlersFit'
    BY <1>b, <2>2, <2>4 DEF HandlersFit, Wanted
  <2> QED BY <1>b, <2>3, <2>5, <2>6 DEF RegistryOK
<1>c. ASSUME UNCHANGED <<answers, linked, telling, events, phase, attaching, heard, missing>>,
             StopsUntold
      PROVE  RegistryOK'
  <2>1. /\ status = "running" /\ status' = "idle" /\ "status" \in astray'
        /\ ("events" \in astray' <=> "events" \in astray)
    BY <1>c DEF StopsUntold
  <2> QED BY <1>c, <2>1 DEF RegistryOK, InStep, Newest, NewestIsStatus, HandlersFit, NoStopComing,
                            NothingComing, Wanted
<1>1. CASE Start
  BY <1>1, <1>b, <1>m DEF Start, registry
<1>2. CASE Stop
  BY <1>2, <1>b, <1>m DEF Stop, registry
<1>3. CASE Delete
  <2>1. /\ status = "idle" /\ status' = "gone"
        /\ UNCHANGED <<answers, linked, telling, events, phase, attaching, heard, astray, missing>>
    BY <1>3 DEF Delete, registry
  <2> QED BY <2>1 DEF RegistryOK, InStep, Newest, NewestIsStatus, HandlersFit, NoStopComing,
                      NothingComing, Wanted
<1>3a. CASE EditRunning
  <2>1. /\ status = "idle" /\ status' = "running" /\ missing' = TRUE
        /\ UNCHANGED <<answers, linked, telling, events, phase, attaching, heard, astray>>
    BY <1>3a DEF EditRunning, registry
  <2> QED BY <2>1 DEF RegistryOK, InStep, Newest, NewestIsStatus, HandlersFit
<1>3b. CASE EditStopped
  BY <1>3b, <1>c DEF EditStopped, registry
<1>3c. CASE StartTask
  BY <1>3c, <1>a, <1>c DEF StartTask, registry
<1>4. CASE \E i \in DOMAIN telling : Publish(i)
  <2> PICK i \in DOMAIN telling : Publish(i)
    BY <1>4
  <2>1. /\ telling' = Without(i)
        /\ events' = IF phase = "up" THEN Append(events, telling[i]) ELSE events
        /\ InStep' => InStep /\ phase # "loading" /\ i = 1 /\ astray' = astray
        /\ UNCHANGED <<status, answers, linked, phase, attaching, heard, missing>>
    BY DEF Publish, InStep, campaign, registry
  <2>2. /\ telling' \in Seq(Msgs) /\ Len(telling') = Len(telling) - 1
        /\ \A j \in 1..Len(telling') : telling'[j] = IF j < i THEN telling[j] ELSE telling[j + 1]
    BY <1>t, <2>1, WithoutOne DEF Without
  <2>3. /\ phase # "up" => events' = <<>> /\ events = <<>>
        /\ phase = "down" => attaching' = {} /\ \A b \in Bots : heard'[b] = 0
    BY <2>1 DEF RegistryOK
  <2>4. CASE ~InStep'
    BY <2>1, <2>3, <2>4 DEF RegistryOK
  <2>5. CASE InStep'
    <3>1. InStep /\ phase # "loading" /\ i = 1 /\ astray' = astray /\ Len(telling) \in Nat \ {0}
      <4>1. Len(telling) \in Nat \ {0}
        BY <1>t
      <4> QED BY <2>1, <2>5, <4>1
    <3>2. \A j \in 1..Len(telling) - 1 : telling'[j] = telling[j + 1]
      BY <2>2, <3>1
    <3>3. telling' = <<>> <=> Len(telling) = 1
      BY <2>2, <3>1, EmptySeq
    <3>3a. telling # <<>> /\ (telling' # <<>> => telling'[Len(telling')] = telling[Len(telling)])
      BY <1>l, <2>2, <3>1, <3>2, <3>3
    <3>4. CASE phase = "up"
      <4>1. telling[1] \in Msgs
        BY <1>t, <3>1
      <4>2. /\ events' \in Seq(Msgs) /\ Len(events') = Len(events) + 1 /\ events' # <<>>
            /\ events'[Len(events) + 1] = telling[1]
            /\ \A j \in 1..Len(events) : events'[j] = events[j]
        <5>1. events' = Append(events, telling[1])
          BY <2>1, <3>1, <3>4
        <5>2. /\ events' \in Seq(Msgs) /\ Len(events') = Len(events) + 1
              /\ events'[Len(events) + 1] = telling[1]
              /\ \A j \in 1..Len(events) : events'[j] = events[j]
          BY <1>t, <4>1, <5>1, Added
        <5> QED BY <1>l, <5>2, EmptySeq
      <4>3. NewestIsStatus'
        <5>1. \A m : (Newest(m))' => Newest(m)
          BY <3>3, <3>3a, <4>2 DEF Newest
        <5> QED BY <2>1, <3>1, <5>1 DEF NewestIsStatus, RegistryOK
      <4>5. NoStopComing' => NoStopComing
        <5> SUFFICES ASSUME NoStopComing' PROVE NoStopComing
          OBVIOUS
        <5>1. \A j \in 1..Len(events) : events[j] = "attach"
          BY <1>l, <4>2 DEF NoStopComing
        <5>2. ASSUME NEW j \in 1..Len(telling) PROVE telling[j] = "attach"
          <6>1. CASE j = 1
            BY <1>l, <4>2, <6>1 DEF NoStopComing
          <6>2. CASE j # 1
            <7>1. j - 1 \in 1..Len(telling) - 1 /\ telling'[j - 1] = telling[j]
              BY <3>1, <3>2, <6>2
            <7> QED BY <2>2, <7>1 DEF NoStopComing
          <6> QED BY <6>1, <6>2
        <5> QED BY <5>1, <5>2 DEF NoStopComing
      <4>6. HandlersFit'
        BY <2>1, <3>1, <3>4, <4>2, <4>5 DEF HandlersFit, NothingComing, RegistryOK, Wanted
      <4> QED BY <2>1, <2>3, <3>4, <4>3, <4>6 DEF RegistryOK
    <3>5. CASE phase = "down"
      <4>1. \A m : (Newest(m))' => Newest(m)
        BY <2>3, <3>3a, <3>5 DEF Newest
      <4>2. NewestIsStatus'
        BY <2>1, <3>1, <4>1 DEF NewestIsStatus, RegistryOK
      <4> QED BY <2>1, <2>3, <3>5, <4>2 DEF RegistryOK
    <3> QED BY <1>t, <3>1, <3>4, <3>5
  <2> QED BY <2>4, <2>5
<1>5. CASE \E i \in DOMAIN telling : Untold(i)
  <2> PICK i \in DOMAIN telling : Untold(i)
    BY <1>5
  <2>1. /\ telling[i] = "attach" /\ telling' = Without(i) /\ missing' = TRUE
        /\ UNCHANGED <<status, answers, linked, events, phase, attaching, heard, astray>>
    BY DEF Untold, campaign, registry
  <2>2. /\ telling' \in Seq(Msgs) /\ Len(telling') = Len(telling) - 1
        /\ \A j \in 1..Len(telling') : telling'[j] = IF j < i THEN telling[j] ELSE telling[j + 1]
    BY <1>t, <2>1, WithoutOne DEF Without
  <2>3. (telling' = <<>> <=> Len(telling') = 0) /\ telling # <<>> /\ i \in 1..Len(telling)
    BY <1>t, <2>2, EmptySeq
  \* If the last of them goes, it was a start.
  <2>4. InStep => NewestIsStatus'
    <3> SUFFICES ASSUME InStep, (Newest("attach"))' PROVE status = "running" \/ "status" \in astray
      BY <2>1 DEF NewestIsStatus
    <3>1. CASE i = Len(telling)
      BY <2>1, <2>3, <3>1 DEF RegistryOK, NewestIsStatus, Newest
    <3>2. CASE i # Len(telling)
      <4>1. telling' # <<>> /\ telling'[Len(telling')] = telling[Len(telling)]
        BY <1>l, <2>2, <2>3, <3>2
      <4> QED BY <2>3, <4>1 DEF RegistryOK, NewestIsStatus, Newest
    <3> QED BY <3>1, <3>2
  <2>5. InStep /\ phase # "down" => HandlersFit'
    <3> SUFFICES ASSUME InStep, NothingComing', status # "running" PROVE "status" \in astray
      BY <2>1 DEF HandlersFit
    <3>1. i = Len(telling) /\ telling[Len(telling)] = "attach"
      <4>1. Len(telling) - 1 = 0
        BY <2>2, <2>3 DEF NothingComing
      <4>2. i = Len(telling)
        BY <1>l, <2>3, <4>1
      <4> QED BY <2>1, <4>2
    <3> QED BY <2>3, <3>1 DEF RegistryOK, NewestIsStatus, Newest
  <2> QED BY <2>1, <2>4, <2>5 DEF RegistryOK, InStep
<1>6. CASE TakeAttach
  <2>1. /\ phase = "up" /\ attaching = {} /\ events # <<>> /\ Head(events) = "attach"
        /\ events' = Tail(events) /\ attaching' = IF answers /\ status # "gone" THEN linked ELSE {}
        /\ UNCHANGED <<status, answers, linked, telling, phase, heard, astray, missing>>
    BY <1>6 DEF TakeAttach, Free, campaign, ghosts
  <2>2. /\ events' \in Seq(Msgs) /\ Len(events') = Len(events) - 1 /\ events[1] = "attach"
        /\ \A j \in 1..Len(events) - 1 : events'[j] = events[j + 1]
    BY <1>t, <2>1, TakenOff
  <2>3. events' = <<>> <=> Len(events) = 1
    BY <1>l, <2>2, EmptySeq
  <2>4. CASE ~InStep
    BY <2>1, <2>4 DEF RegistryOK, InStep
  <2>5. CASE InStep
    <3>1. NewestIsStatus'
      <4>1. \A m \in Msgs : (Newest(m))' => Newest(m)
        BY <1>t, <2>1, NewestStays
      <4> QED BY <1>m, <2>1, <2>5, <4>1 DEF NewestIsStatus, RegistryOK
    <3>3. ASSUME NothingComing' PROVE status = "running" \/ "status" \in astray
      BY <1>l, <2>1, <2>2, <2>3, <2>5, <3>3 DEF NothingComing, Newest, NewestIsStatus, RegistryOK
    <3>4. NoStopComing' => NoStopComing
      <4> SUFFICES ASSUME NoStopComing', NEW j \in 1..Len(events) PROVE events[j] = "attach"
        BY <2>1 DEF NoStopComing
      <4>1. CASE j = 1
        BY <2>2, <4>1
      <4>2. CASE j # 1
        <5>1. j - 1 \in 1..Len(events) - 1 /\ events'[j - 1] = events[j]
          BY <1>l, <2>2, <4>2
        <5> QED BY <2>2, <5>1 DEF NoStopComing
      <4> QED BY <4>1, <4>2
    <3>6. HandlersFit'
      BY <2>1, <2>5, <3>3, <3>4 DEF HandlersFit, RegistryOK, Wanted
    <3> QED BY <2>1, <3>1, <3>6 DEF RegistryOK
  <2> QED BY <2>4, <2>5
<1>7. CASE TakeDetach
  <2>1. /\ phase = "up" /\ attaching = {} /\ events # <<>> /\ Head(events) = "detach"
        /\ events' = Tail(events) /\ \A b \in Bots : heard'[b] = 0
        /\ UNCHANGED <<status, answers, linked, telling, phase, attaching, astray, missing>>
    BY <1>7 DEF TakeDetach, Free, campaign, ghosts
  <2>2. /\ events' \in Seq(Msgs) /\ Len(events') = Len(events) - 1 /\ events[1] = "detach"
    BY <1>t, <2>1, TakenOff
  <2>3. events' = <<>> <=> Len(events) = 1
    BY <1>l, <2>2, EmptySeq
  <2>4. CASE ~InStep
    BY <2>1, <2>4 DEF RegistryOK, InStep
  <2>5. CASE InStep
    <3>1. NewestIsStatus'
      <4>1. \A m \in Msgs : (Newest(m))' => Newest(m)
        BY <1>t, <2>1, NewestStays
      <4> QED BY <1>m, <2>1, <2>5, <4>1 DEF NewestIsStatus, RegistryOK
    <3>3. ASSUME NothingComing' PROVE status # "running" \/ missing
      BY <1>l, <2>1, <2>2, <2>3, <2>5, <3>3 DEF NothingComing, Newest, NewestIsStatus, RegistryOK
    <3>6. HandlersFit'
      BY <2>1, <3>3 DEF HandlersFit
    <3> QED BY <2>1, <3>1, <3>6 DEF RegistryOK
  <2> QED BY <2>4, <2>5
<1>8. CASE WorkerDies
  <2>1. /\ phase' = "down" /\ events' = <<>> /\ attaching' = {} /\ \A b \in Bots : heard'[b] = 0
        /\ UNCHANGED <<status, answers, linked, telling, astray, missing>>
    BY <1>8 DEF WorkerDies, campaign
  <2>2. \A m : (Newest(m))' => Newest(m)
    BY <2>1 DEF Newest
  <2>3. InStep' => NewestIsStatus'
    BY <2>1, <2>2 DEF RegistryOK, NewestIsStatus, InStep
  <2> QED BY <2>1, <2>3 DEF RegistryOK
<1>9. CASE Load
  <2>1. /\ phase = "down" /\ phase' = "loading" /\ missing' = (missing /\ telling # <<>>)
        /\ attaching' = IF status = "running" /\ answers THEN linked ELSE {}
        /\ astray' = IF telling = <<>> THEN {} ELSE astray
        /\ UNCHANGED <<status, answers, linked, telling, events, heard>>
    BY <1>9 DEF Load, campaign
  <2>2. events = <<>> /\ attaching = {} /\ \A b \in Bots : heard[b] = 0
    BY <2>1 DEF RegistryOK
  <2>3. InStep' => NewestIsStatus'
    BY <2>1, <2>2 DEF Newest, NewestIsStatus, RegistryOK, InStep
  <2>4. HandlersFit'
    BY <2>1, <2>2 DEF HandlersFit, Wanted
  <2> QED BY <2>1, <2>2, <2>3, <2>4 DEF RegistryOK
<1>10. CASE Subscribe
  <2>1. /\ phase = "loading" /\ phase' = "up"
        /\ UNCHANGED <<status, answers, linked, telling, events, attaching, heard, astray, missing>>
    BY <1>10 DEF Subscribe, campaign, ghosts
  <2> QED BY <2>1 DEF RegistryOK, InStep, Newest, NewestIsStatus, HandlersFit, NoStopComing,
                      NothingComing, Wanted
<1>11. CASE WindowEnds
  BY <1>11, <1>a DEF WindowEnds, campaign, registry, ghosts
<1>12. CASE \E b \in Bots : Edit(b)
  <2> PICK b \in Bots : Edit(b)
    BY <1>12
  <2>1. /\ missing' = (missing \/ ~Quiet)
        /\ UNCHANGED <<status, telling, events, phase, attaching, heard, astray>>
    BY DEF Edit, registry
  <2>2. telling \o events = <<>> => NothingComing
    <3>1. Len(telling \o events) = Len(telling) + Len(events)
      BY <1>t
    <3> QED BY <1>l, <3>1 DEF NothingComing
  <2>3. Quiet => NothingComing /\ status # "running" /\ "status" \notin astray /\ attaching = {}
    BY <2>2 DEF Quiet
  <2>4. HandlersFit => HandlersFit'
    <3>1. SUFFICES ASSUME HandlersFit PROVE HandlersFit'
      OBVIOUS
    <3>2. NothingComing' = NothingComing
      BY <2>1 DEF NothingComing
    <3>3. CASE Quiet
      <4>1. attaching = {} /\ (\A b1 \in Bots : heard[b1] = 0) /\ status # "running"
        BY <2>3, <3>1, <3>3 DEF HandlersFit
      <4> QED BY <2>1, <4>1 DEF HandlersFit
    <3>4. CASE ~Quiet
      BY <2>1, <3>1, <3>2, <3>4 DEF HandlersFit
    <3> QED BY <3>3, <3>4
  <2> QED BY <2>1, <2>4 DEF RegistryOK, InStep, Newest, NewestIsStatus
<1>13. CASE \E b \in Bots : Connect(b)
  <2> PICK b \in Bots : Connect(b)
    BY <1>13
  <2>1. /\ b \in attaching /\ attaching' = attaching \ {b} /\ heard' = [heard EXCEPT ![b] = 1]
        /\ UNCHANGED <<status, answers, linked, telling, events, phase, astray, missing>>
    BY DEF Connect, campaign, ghosts
  <2>2. phase # "down"
    BY <2>1 DEF RegistryOK
  <2>3. \A a \in Bots : heard'[a] = IF a = b THEN 1 ELSE heard[a]
    BY <1>t, <2>1
  <2>4. NothingComing' = NothingComing /\ NoStopComing' = NoStopComing /\ Wanted' = Wanted
    BY <2>1 DEF NothingComing, NoStopComing, Wanted
  <2>5. InStep => HandlersFit
    BY <2>2 DEF RegistryOK
  <2>w. Wanted \subseteq Bots
    BY DEF LiveTypeOK, Wanted
  <2>6. HandlersFit => HandlersFit'
    BY <2>1, <2>3, <2>4, <2>w DEF HandlersFit
  <2>7. InStep' => NewestIsStatus'
    BY <2>1 DEF RegistryOK, InStep, Newest, NewestIsStatus
  <2> QED BY <2>1, <2>2, <2>5, <2>6, <2>7 DEF RegistryOK, InStep
<1>14. CASE \E b \in Bots : NoClient(b)
  <2> PICK b \in Bots : NoClient(b)
    BY <1>14
  <2>1. /\ b \in attaching /\ attaching' = attaching \ {b} /\ missing'
        /\ UNCHANGED <<status, answers, linked, telling, events, phase, heard, astray>>
    BY DEF NoClient, campaign
  <2> QED BY <2>1 DEF RegistryOK, InStep, Newest, NewestIsStatus, HandlersFit, NothingComing
<1>15. CASE \E b \in Bots : \E m \in Replies : Reply(m, b)
  BY <1>15, <1>a DEF Reply, campaign, registry, ghosts
<1>16. CASE \E r \in talk : Gate(r)
  BY <1>16, <1>a DEF Gate, campaign, registry, ghosts
<1>17. CASE \E r \in talk : Expire(r)
  BY <1>17, <1>a DEF Expire, campaign, registry, ghosts
<1>18. CASE \E r \in talk : GateFails(r)
  BY <1>18, <1>a DEF GateFails, campaign, registry
<1>19. CASE \E r \in talk : Answer(r)
  BY <1>19, <1>a DEF Answer, campaign, registry, ghosts
<1>20. CASE \E r \in talk : NoAnswer(r)
  BY <1>20, <1>a DEF NoAnswer, campaign, registry
<1> QED
  BY <1>1, <1>2, <1>3, <1>3a, <1>3b, <1>3c, <1>4, <1>5, <1>6, <1>7, <1>8, <1>9, <1>10, <1>11,
     <1>12, <1>13, <1>14, <1>15, <1>16, <1>17, <1>18, <1>19, <1>20, LiveActions

LEMMA LiveStart == ASSUME LiveAssumption PROVE LiveInit => LiveInv
<1> SUFFICES ASSUME LiveInit PROVE LiveInv
  OBVIOUS
<1> USE DEF LiveAssumption
<1>1. LiveTypeOK
  <2>1. answered \in [Replies -> Int] /\ heard \in [Bots -> 0..2] /\ talk \subseteq Runs
    BY DEF LiveInit
  <2>2. telling \in Seq({"attach", "detach"}) /\ events \in Seq({"attach", "detach"})
    BY DEF LiveInit
  <2>3. turns \in 0..MaxTurns /\ upsets \in 0..MaxUpsets
    BY DEF LiveInit
  <2>4. status = "idle" /\ answers = TRUE /\ linked = Bots /\ phase = "up" /\ attaching = {}
    BY DEF LiveInit
  <2>5. counter = 0 /\ expires = FALSE /\ passed = 0 /\ tasks = 0 /\ astray = {} /\ missing = FALSE
    BY DEF LiveInit
  <2> QED BY <2>1, <2>2, <2>3, <2>4, <2>5 DEF LiveTypeOK
<1>2. Len(telling) = 0 /\ Len(events) = 0
  BY DEF LiveInit
<1>3. RegistryOK
  BY <1>2 DEF LiveInit, RegistryOK, InStep, Newest, NewestIsStatus, HandlersFit
<1>4. OneRunEach
  <2>1. \A b \in Bots : heard[b] = 0
    BY DEF LiveInit
  <2>2. \A m \in Replies : answered[m] <= 1
    BY DEF LiveInit
  <2>3. talk = {}
    BY DEF LiveInit
  <2> QED BY <2>1, <2>2, <2>3 DEF OneRunEach
<1>5. GateCounts
  BY DEF LiveInit, GateCounts, Expiring
<1> QED BY <1>1, <1>3, <1>4, <1>5 DEF LiveInv

LEMMA LiveKeeps == ASSUME LiveAssumption PROVE LiveInv /\ [LiveNext]_liveVars => LiveInv'
<1> SUFFICES ASSUME LiveInv, [LiveNext]_liveVars PROVE LiveInv'
  OBVIOUS
<1>1. CASE LiveNext
  BY <1>1, LiveTypeKeeps, RegistryKeeps, RunsKeep, GateKeeps DEF LiveInv
<1>2. CASE UNCHANGED liveVars
  BY <1>2 DEF liveVars, LiveInv, LiveTypeOK, RegistryOK, OneRunEach, GateCounts, Expiring,
     InStep, Newest, NewestIsStatus, HandlersFit, NoStopComing, NothingComing, Wanted
<1> QED BY <1>1, <1>2

LEMMA LiveHolds ==
  ASSUME LiveAssumption PROVE LiveInv => LiveTypeOK /\ StoppedIsSilent /\ RepliesBounded
<1> SUFFICES ASSUME LiveInv PROVE LiveTypeOK /\ StoppedIsSilent /\ RepliesBounded
  OBVIOUS
<1>1. LiveTypeOK /\ telling \in Seq(Msgs) /\ events \in Seq(Msgs)
  BY DEF LiveInv, LiveTypeOK, Msgs
<1>2. ASSUME telling \o events = <<>>
      PROVE  telling = <<>> /\ events = <<>> /\ Len(telling) = 0 /\ Len(events) = 0
  <2>1. Len(telling \o events) = Len(telling) + Len(events) /\ Len(telling \o events) = 0
    BY <1>1, <1>2
  <2> QED BY <1>1, <2>1, EmptySeq
<1>3. StoppedIsSilent
  <2> SUFFICES ASSUME astray = {}, phase = "up", attaching = {}, telling \o events = <<>>
               PROVE  /\ status # "running" => \A b \in Bots : heard[b] = 0
                      /\ status = "running" /\ ~missing =>
                            \A b \in Bots : heard[b] = IF answers /\ b \in linked THEN 1 ELSE 0
    BY DEF StoppedIsSilent
  <2>1. HandlersFit /\ NothingComing /\ NoStopComing
    BY <1>2 DEF LiveInv, RegistryOK, InStep, NothingComing, NoStopComing
  <2>2. status # "gone" \/ status # "running"
    OBVIOUS
  <2>3. status # "running" => \A b \in Bots : heard[b] = 0
    BY <2>1 DEF HandlersFit
  <2>4. ASSUME status = "running", ~missing, NEW b \in Bots
        PROVE  heard[b] = IF answers /\ b \in linked THEN 1 ELSE 0
    BY <2>1, <2>4 DEF HandlersFit, Wanted, LiveInv, OneRunEach
  <2> QED BY <2>3, <2>4
<1>4. RepliesBounded
  <2>1. passed \in Nat /\ passed + (IF Expiring THEN 1 ELSE 0) <= MaxReplies
    BY DEF LiveInv, LiveTypeOK, GateCounts
  <2>2. passed <= MaxReplies
    BY <2>1 DEF LiveAssumption
  <2> QED BY <2>2 DEF RepliesBounded, LiveInv, OneRunEach
<1> QED BY <1>1, <1>3, <1>4

\* modules/shilling/worker/live_interception.py: for any accounts, replies, requests and deaths
\* and any limit, once all is said a stopped campaign has no handler and a running one those it
\* wants; a reply is answered once, and the gate lets no more than the limit through before the
\* counter begins anew.
THEOREM RepliesInStep ==
  ASSUME LiveAssumption PROVE LiveSpec => [](LiveTypeOK /\ StoppedIsSilent /\ RepliesBounded)
<1>1. LiveInit => LiveInv BY LiveStart
<1>2. LiveInv /\ [LiveNext]_liveVars => LiveInv' BY LiveKeeps
<1>3. LiveInv => LiveTypeOK /\ StoppedIsSilent /\ RepliesBounded BY LiveHolds
<1> QED BY <1>1, <1>2, <1>3, PTL DEF LiveSpec
=============================================================================
