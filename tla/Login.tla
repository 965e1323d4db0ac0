-------------------------------- MODULE Login --------------------------------
(***************************************************************************)
(* Login of one account (worker/login/flow.py, api/routers/login.py): the  *)
(* API enqueues login_start, login_confirm and login_password whenever it  *)
(* is asked to, the worker runs them, several at a time, over the one      *)
(* client the pool keeps for the account, and publishes what became of     *)
(* each.  A client without a stored session begins with a new auth key;    *)
(* Telegram binds a code to the key that asked for it.  A step ends where  *)
(* the coroutine awaits.                                                   *)
(***************************************************************************)
EXTENDS Integers, FiniteSets, Sequences

CONSTANTS
    Sessions,    \* login tasks that may run at once
    MaxCodes,    \* bound on codes sent
    MaxKeys,     \* bound on auth keys
    MaxRequests, \* bound on requests
    MaxTries_,   \* max_tries of a task
    MaxTrouble   \* bound on deaths, failed clients, and changes by others

LoginAssumption ==
    {MaxCodes, MaxKeys, MaxRequests, MaxTrouble} \subseteq Nat /\ MaxTries_ \in Nat \ {0}

VARIABLES
    acct,     \* its status; "other" is any status login does not set
    hash,     \* meta.phone_code_hash: the code it belongs to, 0: none
    stored,   \* session_enc: the auth key, 0: none
    client,   \* the pool's client: its key, 0: no client
    queue,    \* login tasks waiting in Redis
    task,     \* those that are running
    key,      \* what Telegram knows of each auth key
    codes,    \* codes sent: the key each is bound to
    used,     \* codes that were used
    word,     \* the state last published
    listed,   \* the sweep has the account on its list
    swept,    \* what Telegram knew of the stored key when the sweep deleted the account
    blurred,  \* what is published may be outdated: see WordTrue
    asked, troubles

loginVars == <<acct, hash, stored, client, queue, task, key, codes, used, word, listed,
               swept, blurred, asked, troubles>>
row == <<acct, hash, stored>>
telegram == <<key, codes, used>>
sweep == <<listed, swept>>

Keys == 1..MaxKeys
Codes == 0..MaxCodes
Kinds == {"start", "confirm", "password"}
\* code: what the user typed, the code of that number or, with 0, a wrong one.
Requests == [kind: Kinds, code: Codes, tries: 1..MaxTries_]
Idle == [at |-> "idle", req |-> {}, hash |-> 0, code |-> 0]
Places == {"idle", "get", "call", "sent", "coded", "signed", "enqueue"}
KeyStates == {"unused", "new", "coded", "signed in"}
Words == {"none", "waiting_code", "waiting_password", "success", "failed", "rate_limited"}

LoginInit ==
    /\ acct = "created" /\ hash = 0 /\ stored = 0
    /\ client = 0
    /\ queue = {} /\ task = [s \in Sessions |-> Idle]
    /\ key = [k \in Keys |-> "unused"] /\ codes = <<>> /\ used = {}
    /\ word = "none"
    /\ listed = FALSE /\ swept = "unused"
    /\ blurred = FALSE
    /\ asked = 0 /\ troubles = 0
-----------------------------------------------------------------------------
(* The API: the status of the account is not looked at.  Requests that are waiting are a  *)
(* set: the same one twice is one as long as the first has not begun.                     *)

Ask(kind, code) ==
    /\ asked < MaxRequests /\ asked' = asked + 1
    /\ acct # "gone"
    /\ code \in IF kind = "confirm" THEN 0..Len(codes) ELSE {0}
    /\ queue' = queue \cup {[kind |-> kind, code |-> code, tries |-> 1]}
    /\ UNCHANGED <<row, client, task, telegram, word, sweep, blurred, troubles>>

Trouble == troubles < MaxTrouble /\ troubles' = troubles + 1

\* The account is attached to a campaign, retired or deleted by another request.
Changed(to) ==
    /\ Trouble /\ acct # "gone" /\ acct' = to
    /\ blurred' = TRUE
    /\ UNCHANGED <<hash, stored, client, queue, task, telegram, word, sweep, asked>>
-----------------------------------------------------------------------------
(* The tasks *)

Holders == {s \in Sessions : task[s].at \in {"call", "sent", "coded", "signed"}}
Running == {s \in Sessions : task[s].at # "idle"}

\* Requests for a code, or different requests, are served at once.
Crosses(kind) == \E s \in Running : \E r \in task[s].req : kind = "start" \/ r.kind # kind

\* The pool drops the client with its last reference.
Rests(s) == IF Holders \subseteq {s} THEN 0 ELSE client

Over(s) == task' = [task EXCEPT ![s] = Idle]
Moves(s, place) == task' = [task EXCEPT ![s].at = place]
Says(w) == word' = w

\* An exception that is not handled: arq runs the task again.
Again(s) ==
    /\ Over(s)
    /\ queue' = queue \cup {[r EXCEPT !.tries = @ + 1] :
                               r \in {q \in task[s].req : q.tries < MaxTries_}}
    /\ blurred' = TRUE
    /\ UNCHANGED word

\* The row is read; without an account, or without a pending login, there is nothing to do.
Begin(s, r) ==
    /\ task[s] = Idle /\ r \in queue
    /\ queue' = queue \ {r}
    /\ IF acct = "gone" \/ (r.kind # "start" /\ hash = 0)
       THEN Says("failed") /\ UNCHANGED task
       ELSE /\ task' = [task EXCEPT ![s] = [at |-> "get", req |-> {r}, hash |-> hash, code |-> 0]]
            /\ UNCHANGED word
    /\ blurred' = (blurred \/ acct # "created" \/ Crosses(r.kind))
    /\ UNCHANGED <<row, client, telegram, sweep, asked, troubles>>

\* pool.get: the client that is there, or one made of the stored session.
Get(s) ==
    /\ task[s].at = "get"
    /\ \/ /\ client # 0 \/ acct # "gone"
          /\ Moves(s, "call")
          /\ \/ client # 0 /\ UNCHANGED <<client, key>>
             \/ client = 0 /\ stored # 0 /\ client' = stored /\ UNCHANGED key
             \/ /\ client = 0 /\ stored = 0
                /\ \E k \in Keys : /\ key[k] = "unused" /\ \A j \in Keys : j < k => key[j] # "unused"
                                   /\ client' = k /\ key' = [key EXCEPT ![k] = "new"]
          /\ UNCHANGED <<queue, word, blurred, troubles>>
       \/ client = 0 /\ acct = "gone" /\ Again(s) /\ UNCHANGED <<client, key, troubles>>
       \/ Trouble /\ Again(s) /\ UNCHANGED <<client, key>>
    /\ UNCHANGED <<row, codes, used, sweep, asked>>

\* The governor says no, or Telegram does: the client is released and the word is out.
Refused(s, w) ==
    /\ task[s].at = "call" /\ w \in {"rate_limited", "failed"}
    /\ Over(s) /\ Says(w)
    /\ client' = Rests(s)
    /\ UNCHANGED <<row, queue, telegram, sweep, blurred, asked, troubles>>

\* A flood wait is handed to the dispatcher, which puts the task off.
Flooded(s) ==
    /\ task[s].at = "call" /\ Trouble
    /\ Again(s)
    /\ client' = Rests(s)
    /\ UNCHANGED <<row, telegram, sweep, asked>>

SendCode(s) ==
    /\ task[s].at = "call" /\ \E r \in task[s].req : r.kind = "start"
    /\ Len(codes) < MaxCodes
    /\ codes' = Append(codes, client)
    /\ task' = [task EXCEPT ![s] = [@ EXCEPT !.at = "sent", !.code = Len(codes) + 1]]
    /\ UNCHANGED <<row, client, queue, key, used, word, sweep, blurred, asked, troubles>>

\* A code is good once, with its hash and on the key it was asked for.
SignIn(s) ==
    /\ task[s].at = "call"
    /\ \E r \in task[s].req :
          /\ r.kind = "confirm" /\ r.code = task[s].hash
          /\ r.code \notin used /\ codes[r.code] = client
          /\ used' = used \cup {r.code}
    /\ \/ key' = [key EXCEPT ![client] = "signed in"] /\ Moves(s, "signed")
       \/ /\ key[client] # "signed in" /\ key' = [key EXCEPT ![client] = "coded"]
          /\ Moves(s, "coded")
    /\ UNCHANGED <<row, client, queue, codes, word, sweep, blurred, asked, troubles>>

Password(s) ==
    /\ task[s].at = "call" /\ \E r \in task[s].req : r.kind = "password"
    /\ key[client] = "coded"
    /\ key' = [key EXCEPT ![client] = "signed in"]
    /\ Moves(s, "signed")
    /\ UNCHANGED <<row, client, queue, codes, used, word, sweep, blurred, asked, troubles>>

\* Mutant: the hash is stored without the session it belongs to.
PendHashOnly(s) ==
    /\ task[s].at = "sent"
    /\ client' = Rests(s)
    /\ IF acct = "gone" THEN Again(s) /\ UNCHANGED row
       ELSE /\ hash' = task[s].code /\ UNCHANGED <<acct, stored>>
            /\ Over(s) /\ Says("waiting_code") /\ UNCHANGED <<queue, blurred>>
    /\ UNCHANGED <<telegram, sweep, asked, troubles>>

\* release, then _store_pending without an await in between: nobody gets a client of the
\* old session any more.
Pend(s) ==
    /\ task[s].at = "sent"
    /\ client' = Rests(s)
    /\ IF acct = "gone" THEN Again(s) /\ UNCHANGED row
       ELSE /\ hash' = task[s].code /\ stored' = client /\ UNCHANGED acct
            /\ Over(s) /\ Says("waiting_code") /\ UNCHANGED <<queue, blurred>>
    /\ UNCHANGED <<telegram, sweep, asked, troubles>>

\* Mutant: waiting for the password, the pending login is forgotten.
NeedForgets(s) ==
    /\ task[s].at = "coded"
    /\ client' = Rests(s)
    /\ IF acct = "gone" THEN UNCHANGED row ELSE stored' = client /\ hash' = 0 /\ UNCHANGED acct
    /\ Over(s) /\ Says("waiting_password")
    /\ UNCHANGED <<queue, telegram, sweep, blurred, asked, troubles>>

\* SessionPasswordNeededError: the session is stored, the hash is left.
NeedPassword(s) ==
    /\ task[s].at = "coded"
    /\ client' = Rests(s)
    /\ IF acct = "gone" THEN UNCHANGED row ELSE stored' = client /\ UNCHANGED <<acct, hash>>
    /\ Over(s) /\ Says("waiting_password")
    /\ UNCHANGED <<queue, telegram, sweep, blurred, asked, troubles>>

\* _finish_login: session, meta and status in one commit.  An account that is not
\* `created` any more makes the transition raise, and all of it is rolled back.
Finish(s) ==
    /\ task[s].at = "signed"
    /\ client' = Rests(s)
    /\ IF acct # "created" THEN Again(s) /\ UNCHANGED row
       ELSE /\ acct' = "warming" /\ hash' = 0 /\ stored' = client
            /\ Moves(s, "enqueue")
            /\ UNCHANGED <<queue, word, blurred>>
    /\ UNCHANGED <<telegram, sweep, asked, troubles>>

\* initial_start and sync_profile are enqueued, and success is published.
Succeed(s) ==
    /\ task[s].at = "enqueue"
    /\ Over(s) /\ Says("success")
    /\ UNCHANGED <<row, client, queue, telegram, sweep, blurred, asked, troubles>>

\* The worker dies: clients are gone, unfinished tasks are run again.
Dies ==
    /\ Trouble /\ Running # {}
    /\ client' = 0
    /\ task' = [s \in Sessions |-> Idle]
    /\ queue' = queue \cup {[r EXCEPT !.tries = @ + 1] :
                   r \in {q \in UNION {task[s].req : s \in Sessions} : q.tries < MaxTries_}}
    /\ blurred' = TRUE
    /\ listed' = FALSE
    /\ UNCHANGED <<row, telegram, word, swept, asked>>
-----------------------------------------------------------------------------
(* sweep_abandoned_logins *)

\* The list is read and each of it deleted without an await: other tasks of the worker do
\* not come in between, requests of the API do.
SweepLists ==
    /\ acct = "created" /\ ~listed /\ listed' = TRUE
    /\ UNCHANGED <<row, client, queue, task, telegram, word, swept, blurred, asked, troubles>>

SweepDeletes ==
    /\ listed /\ listed' = FALSE
    /\ acct' = "gone"
    /\ swept' = IF acct = "gone" \/ stored = 0 \/ Running # {} THEN swept ELSE key[stored]
    /\ blurred' = TRUE
    /\ UNCHANGED <<hash, stored, client, queue, task, telegram, word, asked, troubles>>
-----------------------------------------------------------------------------
Step(s) == \/ (\E r \in queue : Begin(s, r)) \/ Get(s) \/ Flooded(s)
           \/ (\E w \in Words : Refused(s, w))
           \/ SendCode(s) \/ SignIn(s) \/ Password(s)
           \/ Pend(s) \/ NeedPassword(s) \/ Finish(s) \/ Succeed(s)

LoginNext ==
    \/ \E kind \in Kinds, code \in Codes : Ask(kind, code)
    \/ \E to \in {"other", "gone"} : Changed(to)
    \/ ~listed /\ \E s \in Sessions : Step(s)
    \/ Dies \/ SweepLists \/ SweepDeletes

LoginSpec == LoginInit /\ [][LoginNext]_loginVars
-----------------------------------------------------------------------------
(* Properties *)

\* The row, the queue and the tasks are well formed.
LoginTypeOK ==
    /\ acct \in {"created", "warming", "other", "gone"}
    /\ hash \in Codes /\ stored \in Keys \cup {0} /\ client \in Keys \cup {0}
    /\ (client # 0) = (Holders # {})
    /\ queue \subseteq Requests
    /\ task \in [Sessions -> [at: Places, req: SUBSET Requests, hash: Codes, code: Codes]]
    /\ key \in [Keys -> KeyStates]
    /\ word \in Words /\ listed \in BOOLEAN /\ swept \in KeyStates
    /\ blurred \in BOOLEAN /\ asked \in 0..MaxRequests /\ troubles \in 0..MaxTrouble

\* However requests overlap, are repeated, fail or are cut off: the stored session is the
\* one the pending code was asked for (a code is no good with another), an account that
\* warms has a session that is signed in, and the sweep deletes no account whose stored
\* session is signed in - unless a login is under way, or one was cut off between Telegram
\* and the database (worker/login/flow.py:127-165, worker/tasks/accounts.py:31-46).
SessionFits ==
    /\ hash # 0 => codes[hash] = stored
    /\ acct = "warming" => key[stored] = "signed in"
    /\ swept = "signed in" => troubles > 0

\* What was published last is so: the code to enter is the last one sent, the password is
\* wanted, the account is warming.  Outdated: when codes are asked for twice at once or
\* different requests cross, the account is past `created` or changed by others, or a task
\* is run again (worker/login/flow.py:162-165, api/services/login.py:102-114).
WordTrue ==
    Running = {} /\ ~blurred =>
        /\ word = "waiting_code" => acct = "created" /\ hash = Len(codes)
        /\ word = "waiting_password" => hash # 0 /\ key[stored] = "coded"
        /\ word = "success" => acct = "warming" /\ hash = 0
=============================================================================
