---------------------------- MODULE HealthScore ----------------------------
(***************************************************************************)
(* The two formulas about the health of an account: the score of           *)
(* core/health_score.py, from what the last check found, and the risk of a *)
(* ban of core/predictor.py, from what is on record.  The behaviours go    *)
(* through their inputs: one fact after the other gets worse, one thing    *)
(* after the other happens to the account.                                 *)
(***************************************************************************)
EXTENDS Integers, FiniteSets

CONSTANTS
    MaxHistory   \* bound on actions on record

ScoreAssumption == MaxHistory \in Nat

VARIABLES
    facts,    \* ScoreFacts
    record    \* what RiskFeatures are extracted from

scoreVars == <<facts, record>>

If(b, n) == IF b THEN n ELSE 0
AtMost(n, most) == IF n > most THEN most ELSE n
Unknown == "unknown"

Fields == {"2fa", "username", "avatar", "bio"}
Cost == [f \in Fields |-> CASE f = "2fa" -> 10 [] f \in {"username", "avatar"} -> 5 [] f = "bio" -> 3]

\* Nothing bad is known; what is not known costs nothing.
Sound == [alive |-> Unknown, phoneBanned |-> FALSE, spam |-> FALSE, proxyDead |-> FALSE,
          flood |-> FALSE, lacks |-> {}, young |-> FALSE, incidents |-> 0]

\* Mutant: a dead session is one of the penalties.
PenaltyOnly(f) ==
    LET lacking(x) == If(x \in f.lacks, Cost[x])
    IN If(f.alive = "no", 30) + If(f.spam, 60) + If(f.proxyDead, 20) + If(f.flood, 15)
       + If(f.young, 10) + lacking("2fa") + lacking("username") + lacking("avatar")
       + lacking("bio") + AtMost(10 * f.incidents, 30)

\* compute_score: the sum of the penalties; a dead session or a banned number cost all.
Penalty(f) ==
    LET lacking(x) == If(x \in f.lacks, Cost[x])
    IN IF f.alive = "no" \/ f.phoneBanned THEN 100
       ELSE If(f.spam, 60) + If(f.proxyDead, 20) + If(f.flood, 15) + If(f.young, 10)
            + lacking("2fa") + lacking("username") + lacking("avatar") + lacking("bio")
            + AtMost(10 * f.incidents, 30)

Score(f) == 100 - AtMost(Penalty(f), 100)

\* A fact gets worse.
WorseFacts(f) ==
    {[f EXCEPT !.alive = "no"], [f EXCEPT !.phoneBanned = TRUE], [f EXCEPT !.spam = TRUE],
     [f EXCEPT !.proxyDead = TRUE], [f EXCEPT !.flood = TRUE], [f EXCEPT !.young = TRUE],
     [f EXCEPT !.incidents = AtMost(@ + 1, 4)]}
    \cup {[f EXCEPT !.lacks = @ \cup {x}] : x \in Fields}
-----------------------------------------------------------------------------
(* The risk, in parts of ten thousand *)

\* flood24 and spam7 are among flood7 and spam30; kinds: of the actions on record, whatever
\* came of them.
NoRecord == [alive |-> Unknown, phoneBanned |-> FALSE, flood24 |-> 0, flood7 |-> 0, spam7 |-> 0,
             spam30 |-> 0, unresolved |-> 0, good |-> 0, bad |-> 0, kinds |-> 0,
             complete |-> 0, age |-> 0]

\* 0.06 n^1.5 and 0.03 n^1.3
Flood24 == [n \in 0..2 |-> CASE n = 0 -> 0 [] n = 1 -> 600 [] n = 2 -> 1697]
Flood7 == [n \in 0..2 |-> CASE n = 0 -> 0 [] n = 1 -> 300 [] n = 2 -> 739]

\* _age_factor, in halves.
AgeFactor(days) ==
    CASE days >= 180 -> 6 [] 90 <= days /\ days < 180 -> 4 [] 30 <= days /\ days < 90 -> 2
      [] 7 <= days /\ days < 30 -> 1 [] days < 7 -> 0

\* _diversity_factor, in halves, of seven kinds (there are eight).
DiversityFactor(kinds) ==
    CASE 10 * kinds >= 49 -> 2 [] 28 <= 10 * kinds /\ 10 * kinds < 49 -> 1 [] 10 * kinds < 28 -> 0

\* Mutant: the share of the actions that succeeded.
FailRateOfGood(r, weight) == IF r.good + r.bad = 0 THEN 0 ELSE (weight * r.good) \div (r.good + r.bad)

FailRate(r, weight) == IF r.good + r.bad = 0 THEN 0 ELSE (weight * r.bad) \div (r.good + r.bad)

\* predict_risk.  Actions are all of one day, far fewer than the intensity that counts.
Risk(r) ==
    LET sum == Flood24[r.flood24] + Flood7[r.flood7] + 2500 * r.spam7 + 1000 * r.spam30
               + FailRate(r, 2000) + FailRate(r, 1000)
               + 800 * AtMost(r.unresolved, 3)
               - 300 * r.complete - 250 * AgeFactor(r.age) - 200 * DiversityFactor(r.kinds)
    IN IF r.alive = "no" \/ r.phoneBanned THEN 10000
       ELSE IF sum < 0 THEN 0 ELSE AtMost(sum, 10000)

\* An incident of the monitor is unresolved and within every window.
Incidents(r) ==
    {[r EXCEPT !.flood24 = @ + 1, !.flood7 = @ + 1, !.unresolved = AtMost(@ + 1, 4)] : x \in
        IF r.flood7 < 2 THEN {1} ELSE {}}
    \cup {[r EXCEPT !.spam7 = @ + 1, !.spam30 = @ + 1, !.unresolved = AtMost(@ + 1, 4)] : x \in
        IF r.spam30 < 2 THEN {1} ELSE {}}
    \cup {[r EXCEPT !.alive = "no"], [r EXCEPT !.phoneBanned = TRUE]}

\* An action fails, of a kind that is on record or of a new one.
Failures(r) ==
    {q \in {[r EXCEPT !.bad = @ + 1, !.kinds = @ + n] : n \in {0, 1}} :
        q.good + q.bad <= MaxHistory /\ q.kinds \in 1..8}

Successes(r) ==
    {q \in {[r EXCEPT !.good = @ + 1, !.kinds = @ + n] : n \in {0, 1}} :
        q.good + q.bad <= MaxHistory /\ q.kinds \in 1..8}

\* Incidents get older, or the owner resolves them; the account gets older and its profile complete.
Recovers(r) ==
    {q \in {[r EXCEPT !.flood24 = 0], [r EXCEPT !.flood7 = r.flood24], [r EXCEPT !.spam7 = 0],
            [r EXCEPT !.spam30 = r.spam7], [r EXCEPT !.unresolved = 0], [r EXCEPT !.complete = 4],
            [r EXCEPT !.age = 180]} : q # r}
-----------------------------------------------------------------------------
ScoreInit == facts = Sound /\ record = NoRecord

FactWorsens == record = NoRecord /\ facts' \in WorseFacts(facts) /\ UNCHANGED record

Happens ==
    /\ facts = Sound /\ record.alive # "no" /\ ~record.phoneBanned
    /\ record' \in Incidents(record) \cup Failures(record) \cup Successes(record) \cup Recovers(record)
    /\ UNCHANGED facts

ScoreNext == FactWorsens \/ Happens

ScoreSpec == ScoreInit /\ [][ScoreNext]_scoreVars
-----------------------------------------------------------------------------
ScoreTypeOK ==
    /\ Score(facts) \in 0..100 /\ Risk(record) \in 0..10000
    /\ record.flood24 <= record.flood7 /\ record.spam7 <= record.spam30
    /\ record.kinds <= record.good + record.bad

\* A worse fact never makes a better score, an incident never a lower risk, and an action that
\* failed neither, unless it is the first of its kind: those count as diversity too.  What is
\* over, resolved or done about it never makes the risk higher.
WorseIsWorse ==
    /\ \A g \in WorseFacts(facts) : Score(g) <= Score(facts)
    /\ \A q \in Incidents(record) : Risk(q) >= Risk(record)
    /\ \A q \in Failures(record) : q.kinds = record.kinds => Risk(q) >= Risk(record)
    /\ \A q \in Recovers(record) : Risk(q) <= Risk(record)
=============================================================================
