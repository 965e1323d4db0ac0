------------------------------ MODULE Governor ------------------------------
(***************************************************************************)
(* worker/health/governor.py: the counters in Redis that limit one kind of *)
(* action of one account per hour and per day.  check_and_reserve reads    *)
(* every window, then increments every window; every GET, INCR and EXPIRE  *)
(* is an await, at which other tasks of the worker run.                    *)
(***************************************************************************)
EXTENDS Integers, FiniteSets

CONSTANTS
    Senders,   \* tasks that may ask at the same time
    Windows,   \* number of windows (hour, day), in the order they are checked
    Limit,     \* Limit[w]: how often per window
    MaxDeaths  \* bound on deaths of the worker

GovernorAssumption == /\ IsFiniteSet(Senders)
                      /\ Windows \in Nat
                      /\ Limit \in [1..Windows -> Nat \ {0}]
                      /\ MaxDeaths \in Nat

VARIABLES
    count,   \* the counters; 0: the key does not exist
    expires, \* the key has a TTL
    sender,  \* where each task is in check_and_reserve, and at which window
    deaths   \* how often the worker died

govVars == <<count, expires, sender, deaths>>

W == 1..Windows
GovPlaces == {"idle", "check", "incr", "expire"}
Idle == [at |-> "idle", w |-> 1]

GovInit ==
    /\ count = [w \in W |-> 0]
    /\ expires = [w \in W |-> FALSE]
    /\ sender = [s \in Senders |-> Idle]
    /\ deaths = 0
-----------------------------------------------------------------------------
\* The next window of the same phase, the next phase, or the end.
CheckedUpTo(w) == IF w < Windows THEN [at |-> "check", w |-> w + 1] ELSE [at |-> "incr", w |-> 1]

\* Mutant: one window too many.
ReservedPast(w) == IF w <= Windows THEN [at |-> "incr", w |-> w + 1] ELSE Idle

ReservedUpTo(w) == IF w < Windows THEN [at |-> "incr", w |-> w + 1] ELSE Idle

Ask(s) ==
    /\ sender[s].at = "idle" /\ Windows > 0
    /\ sender' = [sender EXCEPT ![s] = [at |-> "check", w |-> 1]]
    /\ UNCHANGED <<count, expires, deaths>>

\* Mutant: one more than the limit.
CheckLate(s) ==
    LET w == sender[s].w IN
    /\ sender[s].at = "check"
    /\ sender' = [sender EXCEPT ![s] = IF count[w] > Limit[w] THEN Idle ELSE CheckedUpTo(w)]
    /\ UNCHANGED <<count, expires, deaths>>

\* One window at its limit, and nothing is reserved.
Check(s) ==
    LET w == sender[s].w IN
    /\ sender[s].at = "check"
    /\ sender' = [sender EXCEPT ![s] = IF count[w] >= Limit[w] THEN Idle ELSE CheckedUpTo(w)]
    /\ UNCHANGED <<count, expires, deaths>>

\* Mutant: the TTL is set by whoever brings the counter to its limit.
IncrAtLimit(s) ==
    LET w == sender[s].w IN
    /\ sender[s].at = "incr"
    /\ count' = [count EXCEPT ![w] = @ + 1]
    /\ sender' = [sender EXCEPT ![s] = IF count[w] + 1 = Limit[w] THEN [@ EXCEPT !.at = "expire"]
                                       ELSE ReservedUpTo(w)]
    /\ UNCHANGED <<expires, deaths>>

\* Whoever creates the key gives it its TTL, one await later.
Incr(s) ==
    LET w == sender[s].w IN
    /\ sender[s].at = "incr"
    /\ count' = [count EXCEPT ![w] = @ + 1]
    /\ sender' = [sender EXCEPT ![s] = IF count[w] = 0 THEN [@ EXCEPT !.at = "expire"]
                                       ELSE ReservedUpTo(w)]
    /\ UNCHANGED <<expires, deaths>>

\* EXPIRE of a key that is not there does nothing.
Expire(s) ==
    LET w == sender[s].w IN
    /\ sender[s].at = "expire"
    /\ expires' = [expires EXCEPT ![w] = count[w] > 0]
    /\ sender' = [sender EXCEPT ![s] = ReservedUpTo(w)]
    /\ UNCHANGED <<count, deaths>>

\* Redis drops the key at the end of its TTL.
WindowEnds(w) ==
    /\ expires[w]
    /\ count' = [count EXCEPT ![w] = 0]
    /\ expires' = [expires EXCEPT ![w] = FALSE]
    /\ UNCHANGED <<sender, deaths>>

\* The worker dies with all its tasks; the counters stay in Redis.
Dies ==
    /\ deaths < MaxDeaths /\ deaths' = deaths + 1
    /\ sender' = [s \in Senders |-> Idle]
    /\ UNCHANGED <<count, expires>>

Reserve(s) == Ask(s) \/ Check(s) \/ Incr(s) \/ Expire(s)

GovNext ==
    \/ \E s \in Senders : Reserve(s)
    \/ \E w \in W : WindowEnds(w)
    \/ Dies

GovSpec == GovInit /\ [][GovNext]_govVars
-----------------------------------------------------------------------------
(* Properties *)

\* Counters and tasks are well formed.
GovTypeOK ==
    /\ count \in [W -> Nat]
    /\ expires \in [W -> BOOLEAN]
    /\ sender \in [Senders -> [at: GovPlaces, w: Nat]]
    /\ \A s \in Senders : sender[s].at # "idle" => sender[s].w \in W
    /\ deaths \in Nat

\* Tasks past the check of window w that have not incremented it yet.
Pending(w) == {s \in Senders : \/ sender[s].at = "check" /\ sender[s].w > w
                               \/ sender[s].at = "incr" /\ sender[s].w <= w
                               \/ sender[s].at = "expire" /\ sender[s].w < w}

\* Checking first and incrementing afterwards lets tasks through together, but never more
\* of them than ask at once: a window is exceeded by at most the other senders, those
\* already let through counted (worker/health/governor.py:12-14).
OvershootBounded ==
    \A w \in W : count[w] + Cardinality(Pending(w)) <= Limit[w] - 1 + Cardinality(Senders)

\* A counter without a TTL has a task that is about to set it; otherwise it never
\* goes away and the account stays limited for ever.  A death between INCR and EXPIRE is
\* what breaks it (governor.py:80-82).
CountersExpire ==
    deaths = 0 => \A w \in W : count[w] > 0 /\ ~expires[w] =>
                      \E s \in Senders : sender[s] = [at |-> "expire", w |-> w]

\* What the two limits promise together: a window lets through at most a few tasks more than
\* its limit, and no counter outlives its window (worker/health/governor.py:60-83).
LimitsHold == OvershootBounded /\ CountersExpire
=============================================================================
