---------------------------- MODULE SharedClient ----------------------------
(***************************************************************************)
(* What worker/client_pool promises, without counters, locks or awaits:    *)
(* the client of an account is open exactly as long as somebody holds it.  *)
(* A holder that never gives it back (a cancelled release, a caller that   *)
(* forgets) keeps it open until the worker shuts down.  Of an account that *)
(* somebody has given back twice nothing is promised any more.             *)
(***************************************************************************)
CONSTANTS Accounts, Users

VARIABLES
    holders,    \* who holds the client of an account
    abandoned,  \* accounts whose client somebody will never give back
    spoilt,     \* accounts somebody gave back without having them
    open        \* accounts that have a client

sharedVars == <<holders, abandoned, spoilt, open>>

SharedInit ==
    /\ holders = [a \in Accounts |-> {}]
    /\ abandoned = {} /\ spoilt = {}
    /\ open = {}

Hold(u, a) ==
    /\ u \notin holders[a] /\ a \notin spoilt
    /\ holders' = [holders EXCEPT ![a] = @ \cup {u}]
    /\ open' = open \cup {a}
    /\ UNCHANGED <<abandoned, spoilt>>

GiveBack(u, a) ==
    /\ u \in holders[a]
    /\ holders' = [holders EXCEPT ![a] = @ \ {u}]
    /\ open' = IF holders[a] = {u} /\ a \notin abandoned THEN open \ {a} ELSE open
    /\ UNCHANGED <<abandoned, spoilt>>

Abandon(u, a) ==
    /\ u \in holders[a]
    /\ holders' = [holders EXCEPT ![a] = @ \ {u}]
    /\ abandoned' = abandoned \cup {a}
    /\ UNCHANGED <<spoilt, open>>

Spoil(a) ==
    /\ a \in open
    /\ spoilt' = spoilt \cup {a}
    /\ holders' = [holders EXCEPT ![a] = {}]
    /\ abandoned' = abandoned \ {a}
    /\ open' = open \ {a}

ShutDown ==
    /\ holders = [a \in Accounts |-> {}]
    /\ abandoned' = {} /\ spoilt' = {}
    /\ open' = {}
    /\ UNCHANGED holders

SharedNext ==
    \/ \E u \in Users, a \in Accounts : Hold(u, a) \/ GiveBack(u, a) \/ Abandon(u, a)
    \/ \E a \in Accounts : Spoil(a)
    \/ ShutDown

SharedSpec == SharedInit /\ [][SharedNext]_sharedVars
=============================================================================
