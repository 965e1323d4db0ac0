------------------------------ MODULE Triggers ------------------------------
(***************************************************************************)
(* One account of a priming campaign: execute_prime from its task to its   *)
(* log entry, with the calls of TriggerRunner one by one                   *)
(* (modules/priming/worker/executor.py, trigger.py, rotation.py), and the  *)
(* humanizer_beat of the same account (humanizer.py).  Priming has the     *)
(* campaign, its ticks and its other accounts.                             *)
(*                                                                         *)
(* The campaign rotates its triggers by round robin.                       *)
(***************************************************************************)
EXTENDS Naturals, Sequences, FiniteSets

CONSTANTS
    Goals,      \* targets, all of them pending to begin with
    TriggerActions, \* values of TriggerAction
    Rotation,   \* trigger_actions of the campaign, a sequence of them
    Waits,      \* lengths of a FloodWait
    Pause,      \* flood_wait_pause_sec
    MaxFloods,  \* max_flood_waits_per_account
    DailyLimit,
    MaxClock,   \* bound: time
    MaxBeats,   \* bound: humanizer beats
    NoGoal

\* What the module assumes of its constants.
TriggersAssumption ==
    /\ NoGoal \notin Goals /\ Rotation \in Seq(TriggerActions) /\ Rotation # <<>>
    /\ Waits \subseteq Nat \ {0} /\ Pause \in Nat \ {0}
    /\ {MaxFloods, DailyLimit} \subseteq Nat \ {0} /\ {MaxClock, MaxBeats} \subseteq Nat

VARIABLES
    clock,
    dry,      \* the campaign's dry_run
    account,  \* the row of campaign_accounts: [state, until, floods, total, today]
    goal,     \* status of each target
    prime,    \* execute_prime: [at, goal, action, dry, outcome, wait]
    beat,     \* what the humanizer does
    beats,
    log,      \* execution_log: [goal, action, dry, outcome]
    applied   \* what Telegram has done: [goal, action]

triggerVars == <<clock, dry, account, goal, prime, beat, beats, log, applied>>
-----------------------------------------------------------------------------
Off == [at |-> "off", goal |-> NoGoal, action |-> NoGoal, dry |-> FALSE, outcome |-> "", wait |-> 0]
Fresh == [state |-> "idle", until |-> 0, floods |-> 0, total |-> 0, today |-> 0]

TriggerInit ==
    /\ clock = 0 /\ dry \in BOOLEAN
    /\ account = Fresh
    /\ goal = [t \in Goals |-> "pending"]
    /\ prime = Off
    /\ beat = "off" /\ beats = 0
    /\ log = <<>> /\ applied = {}

Pass ==
    /\ clock < MaxClock /\ clock' = clock + 1
    /\ UNCHANGED <<dry, account, goal, prime, beat, beats, log, applied>>

\* PATCH of the campaign.
SwitchDry ==
    /\ dry' = ~dry
    /\ UNCHANGED <<clock, account, goal, prime, beat, beats, log, applied>>
-----------------------------------------------------------------------------
(* execute_prime *)

\* The tick: acquire_next and claim_next in one transaction, then the task.
Pair(t) ==
    /\ account.state = "idle" /\ account.until <= clock /\ account.today < DailyLimit
    /\ prime.at = "off" /\ goal[t] = "pending"
    /\ account' = [account EXCEPT !.state = "working"]
    /\ goal' = [goal EXCEPT ![t] = "assigned"]
    /\ prime' = [Off EXCEPT !.at = "queued", !.goal = t]
    /\ UNCHANGED <<clock, dry, beat, beats, log, applied>>

\* Mutant: the counter is the one of the successes.
TurnOfToday == Rotation[(account.today % Len(Rotation)) + 1]

\* pick_trigger_action, ROUND_ROBIN
Turn == Rotation[(account.total % Len(Rotation)) + 1]

\* What was read stays what it is to the end of the run.
Read(at, outcome, wait) ==
    prime' = [prime EXCEPT !.at = at, !.action = Turn, !.dry = dry, !.outcome = outcome,
                           !.wait = wait]

\* The quiet hours of the target are looked at before anything else.
OutOfHours ==
    /\ prime.at = "queued" /\ Read("store", "skipped_quiet", 0)
    /\ UNCHANGED <<clock, dry, account, goal, beat, beats, log, applied>>

\* dry_run: an outcome is drawn; no client, no governor.
Draw ==
    /\ prime.at = "queued" /\ dry
    /\ \E outcome \in {"primed", "privacy", "flood_wait", "deleted"} :
          \E w \in Waits : Read("store", outcome, IF outcome = "flood_wait" THEN w ELSE 0)
    /\ UNCHANGED <<clock, dry, account, goal, beat, beats, log, applied>>

\* The client is there, the governor lets the account through.
Admitted ==
    /\ prime.at = "queued" /\ ~dry /\ Read("resolve", "", 0)
    /\ UNCHANGED <<clock, dry, account, goal, beat, beats, log, applied>>

\* The governor does not, or Redis cannot be asked.
Held ==
    /\ prime.at = "queued" /\ ~dry
    /\ \E outcome \in {"flood_wait", "internal_error"} : Read("store", outcome, 0)
    /\ UNCHANGED <<clock, dry, account, goal, beat, beats, log, applied>>

\* There is no client for the account, or the worker dies: the task is not tried again.
Lost ==
    /\ prime.at # "off"
    /\ prime' = Off
    /\ UNCHANGED <<clock, dry, account, goal, beat, beats, log, applied>>

\* TriggerRunner catches RPCError only: for a target that Telethon has never seen, or one
\* without id, name and phone, a ValueError goes through it and through execute_prime, and so
\* does a broken connection.
Raises ==
    /\ prime.at \in {"resolve", "call"}
    /\ prime' = Off
    /\ UNCHANGED <<clock, dry, account, goal, beat, beats, log, applied>>

Ends(outcome, wait) == prime' = [prime EXCEPT !.at = "store", !.outcome = outcome, !.wait = wait]

\* _map_error, by which every error of the resolving goes.
Mapped == {"privacy", "deleted", "not_found", "internal_error"}

\* get_input_entity; a FloodWait is an internal error here.
Resolve ==
    /\ prime.at = "resolve"
    /\ \/ prime' = [prime EXCEPT !.at = "call"]
       \/ \E outcome \in Mapped : Ends(outcome, 0)
    /\ UNCHANGED <<clock, dry, account, goal, beat, beats, log, applied>>

\* The trigger is there.
Apply == applied' = applied \cup {[goal |-> prime.goal, action |-> prime.action]}

\* Mutant: an answer that says nothing is a success.
Refuses(outcome) == Ends(IF outcome = "internal_error" THEN "primed" ELSE outcome, 0)

Refused(outcome) == Ends(outcome, 0)

\* The handler of the action: done; a FloodWait; another error, after which the trigger may
\* be there nevertheless.
Call ==
    /\ prime.at = "call"
    /\ \/ Ends("primed", 0) /\ Apply
       \/ \E w \in Waits : Ends("flood_wait", w) /\ UNCHANGED applied
       \/ \E outcome \in Mapped : Refused(outcome) /\ UNCHANGED applied
       \/ Ends("internal_error", 0) /\ Apply
    /\ UNCHANGED <<clock, dry, account, goal, beat, beats, log>>

\* flood_wait_sec, or the pause of the campaign if there is none.
Rest == IF prime.wait > 0 THEN prime.wait ELSE Pause

\* Mutant: an attempt that came to nothing is not counted.
Uncounted(a) == [a EXCEPT !.state = "idle"]

GivenBack(a) == [a EXCEPT !.total = @ + 1, !.state = "idle"]

\* release_after_prime and quarantine
Released(a) ==
    CASE prime.outcome = "primed" ->
            [a EXCEPT !.total = @ + 1, !.today = @ + 1, !.floods = 0, !.state = "idle"]
      [] prime.outcome = "flood_wait" ->
            [a EXCEPT !.total = @ + 1, !.floods = @ + 1, !.until = clock + Rest,
                      !.state = IF a.floods + 1 >= MaxFloods THEN "quarantined" ELSE "cooldown"]
      [] OTHER -> GivenBack(a)

\* _target_status_for; a FloodWait leaves the target assigned.
StatusAfter(outcome, status) ==
    CASE outcome = "primed" -> "primed"
      [] outcome = "flood_wait" -> status
      [] outcome = "internal_error" -> "failed"
      [] OTHER -> "skipped"

\* Mutant: the log is told what the campaign says now.
DryNow == dry

DryOfRun == prime.dry

\* mark_result: the target's row after the attempt.
Marked == [goal EXCEPT ![prime.goal] = StatusAfter(prime.outcome, @)]

\* Log, account and target in one transaction.
Store ==
    /\ prime.at = "store"
    /\ log' = Append(log, [goal |-> prime.goal, action |-> prime.action, dry |-> DryOfRun,
                           outcome |-> prime.outcome])
    /\ account' = Released(account)
    /\ goal' = Marked
    /\ prime' = Off
    /\ UNCHANGED <<clock, dry, beat, beats, applied>>
-----------------------------------------------------------------------------
(* humanizer_beat *)

\* Scheduled with each prime, it looks at the account once.
LookAt ==
    /\ beat = "off" /\ beats < MaxBeats /\ beats' = beats + 1
    /\ beat' = IF account.state = "idle" THEN "reserve" ELSE "off"
    /\ UNCHANGED <<clock, dry, account, goal, prime, log, applied>>

\* The governor and the client; then reads, perhaps a reaction and stories.
Reads ==
    /\ beat = "reserve" /\ beat' = "reads"
    /\ UNCHANGED <<clock, dry, account, goal, prime, beats, log, applied>>

BeatEnds ==
    /\ beat # "off" /\ beat' = "off"
    /\ UNCHANGED <<clock, dry, account, goal, prime, beats, log, applied>>
-----------------------------------------------------------------------------
Execute == OutOfHours \/ Draw \/ Admitted \/ Held \/ Resolve \/ Call \/ Store

TriggerNext ==
    \/ Pass \/ SwitchDry \/ Lost \/ Raises
    \/ \E t \in Goals : Pair(t)
    \/ Execute
    \/ LookAt \/ Reads \/ BeatEnds

TriggerSpec == TriggerInit /\ [][TriggerNext]_triggerVars
-----------------------------------------------------------------------------
(* Properties *)

States == {"idle", "working", "cooldown", "quarantined"}
Endings == Mapped \cup {"primed", "flood_wait", "skipped_quiet"}
RunOver == prime.at = "off" /\ account.state # "working"
Last == log[Len(log)].outcome

\* Who has a task has an account that works and a target that is assigned; a row that is not
\* working is told by the log: attempts, successes of the day, and by its last entry how
\* long it rests.
TriggerTypeOK ==
    /\ clock \in 0..MaxClock /\ account.state \in States /\ beats \in 0..MaxBeats
    /\ goal \in [Goals -> {"pending", "assigned", "primed", "skipped", "failed"}]
    /\ \A n \in DOMAIN log : log[n].goal \in Goals /\ log[n].outcome \in Endings
    /\ prime.at # "off" => account.state = "working" /\ goal[prime.goal] = "assigned"
    /\ account.total = Len(log)
    /\ account.today = Cardinality({n \in DOMAIN log : log[n].outcome = "primed"})
    /\ RunOver /\ log # <<>> => (account.state = "idle" <=> Last # "flood_wait")

\* A log entry that says primed and does not say dry stands for a trigger that Telegram has
\* set off for this target, also when the campaign was switched between dry and real while
\* the prime ran; and a target is primed only by such an entry or a dry one
\* (modules/priming/worker/executor.py:179, 223-237, 281-291).
PrimedIsApplied ==
    /\ \A n \in DOMAIN log : log[n].outcome = "primed" /\ ~log[n].dry =>
           [goal |-> log[n].goal, action |-> log[n].action] \in applied
    /\ \A t \in Goals : goal[t] = "primed" =>
           \E n \in DOMAIN log : log[n].goal = t /\ log[n].outcome = "primed"

\* The n-th attempt of the account has the n-th trigger of the rotation, whatever became of
\* the ones before and however many runs were lost between them
\* (modules/priming/worker/rotation.py:3-8, executor.py:172-175).
TriggersTakeTurns ==
    \A n \in DOMAIN log : log[n].action = Rotation[((n - 1) % Len(Rotation)) + 1]

\* What the log says was done was done, and in the order of the rotation.
TriggersKept == PrimedIsApplied /\ TriggersTakeTurns
=============================================================================
