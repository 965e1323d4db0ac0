--------------------------- MODULE CommentDelivery ---------------------------
(***************************************************************************)
(* modules/commenting/worker/runner.py: from a channel post to a comment.  *)
(* A listener (or the thread simulation) enqueues on_channel_post, which   *)
(* claims the message, asks the language model and schedules               *)
(* post_channel_comment, which checks the campaign's limits, the governor  *)
(* and the pause of the account, sends and logs.  One campaign.            *)
(*                                                                         *)
(* The worker runs up to arq's max_jobs tasks at once (Slots); a step is   *)
(* what runs between two awaits.  arq keeps a task until it has returned,  *)
(* so a worker that dies or is redeployed runs it again from the start.    *)
(***************************************************************************)
EXTENDS Integers, FiniteSets

CONSTANTS
    Owners,       \* accounts that comment
    Messages,     \* messages a comment may answer: posts, and own comments
    Posts,        \* those of Messages that are posts of a channel
    Slots,        \* tasks of the worker that may run at once
    MaxComments,  \* campaign.max_comments
    Pause,        \* campaign.pause_between_sec
    MaxTime,      \* bound on the clock
    MaxTold,      \* bound on how often one message is announced
    MaxHarm       \* bound on deaths of the worker, exceptions and lost claims

DeliveryAssumption == /\ Posts \subseteq Messages
                      /\ IsFiniteSet(Slots)
                      /\ MaxComments \in Nat \ {0}
                      /\ {Pause, MaxTime, MaxTold, MaxHarm} \subseteq Nat

VARIABLES
    told,    \* how often a message was announced
    asked,   \* on_channel_post tasks in the queue
    claim,   \* the dedup key of the message is in Redis
    due,     \* post_channel_comment tasks in the queue
    slot,    \* what each slot of the worker does
    mark,    \* campaign_accounts.last_posted_at; -1: never
    linked,  \* the account is attached to the campaign
    clock,
    sent,    \* comments in the discussion group
    posted,  \* comment_log rows with status posted
    over,    \* messages whose end was shown: skipped, failed or posted
    harm     \* how many deaths, exceptions and lost claims there were

delVars == <<told, asked, claim, due, slot, mark, linked, clock, sent, posted, over, harm>>

Keys == Owners \X Messages
SlotPlaces == {"empty", "generating", "scheduling", "governor", "sending", "log", "defer", "follow"}
Empty == [at |-> "empty", key |-> <<>>, now |-> 0]
\* Where a slot works on a post_channel_comment; arq still has the task.
PostPlaces == {"governor", "sending", "log", "defer", "follow"}
Bump(f, k, n) == [f EXCEPT ![k] = @ + n]

DelInit ==
    /\ told = [k \in Keys |-> 0]
    /\ asked = [k \in Keys |-> 0]
    /\ claim = [k \in Keys |-> FALSE]
    /\ due = [k \in Keys |-> 0]
    /\ slot = [s \in Slots |-> Empty]
    /\ mark = [a \in Owners |-> -1]
    /\ linked = [a \in Owners |-> TRUE]
    /\ clock = 0
    /\ sent = [k \in Keys |-> 0]
    /\ posted = 0
    /\ over = {}
    /\ harm = 0
-----------------------------------------------------------------------------
\* A listener hears of the post, once or again: a second row for the same group, a
\* reconnect, an edit of the forwarded post after the listener's own claim has expired.
Announce(k) ==
    /\ k[2] \in Posts /\ told[k] < MaxTold
    /\ told' = Bump(told, k, 1)
    /\ asked' = Bump(asked, k, 1)
    /\ UNCHANGED <<claim, due, slot, mark, linked, clock, sent, posted, over, harm>>

Begin(s, k, place) == slot' = [slot EXCEPT ![s] = [at |-> place, key |-> k, now |-> clock]]
Go(s, place) == slot' = [slot EXCEPT ![s].at = place]
End(s) == slot' = [slot EXCEPT ![s] = Empty]

\* The claim is made; the channel is blacklisted, or the text is generated.
Claimed(s, k) ==
    /\ claim' = [claim EXCEPT ![k] = TRUE]
    /\ \/ End(s) /\ over' = over \cup {k}
       \/ Begin(s, k, "generating") /\ UNCHANGED over

\* Mutant: a message claimed before is taken again.
TakeDuplicate(s, k) ==
    /\ slot[s].at = "empty" /\ asked[k] > 0
    /\ asked' = Bump(asked, k, -1)
    /\ \/ posted < MaxComments /\ Claimed(s, k)
       \/ over' = over \cup {k} /\ UNCHANGED <<slot, claim>>
    /\ UNCHANGED <<told, due, mark, linked, clock, sent, posted, harm>>

\* on_channel_post up to its first await.  Account not assigned, campaign off, outside the
\* active hours, limit reached, channel not working: skipped.  A duplicate is left alone.
TakeAsked(s, k) ==
    /\ slot[s].at = "empty" /\ asked[k] > 0
    /\ asked' = Bump(asked, k, -1)
    /\ \/ posted < MaxComments /\ ~claim[k] /\ Claimed(s, k)
       \/ posted < MaxComments /\ claim[k] /\ UNCHANGED <<slot, claim, over>>
       \/ over' = over \cup {k} /\ UNCHANGED <<slot, claim>>
    /\ UNCHANGED <<told, due, mark, linked, clock, sent, posted, harm>>

\* The model answers; or fails, hangs for 120 s or stays below min_words.
Generate(s) ==
    /\ slot[s].at = "generating"
    /\ \/ Go(s, "scheduling") /\ UNCHANGED over
       \/ End(s) /\ over' = over \cup {slot[s].key}
    /\ UNCHANGED <<told, asked, claim, due, mark, linked, clock, sent, posted, harm>>

SchedulePost(s) ==
    /\ slot[s].at = "scheduling"
    /\ due' = Bump(due, slot[s].key, 1)
    /\ End(s)
    /\ UNCHANGED <<told, asked, claim, mark, linked, clock, sent, posted, over, harm>>
-----------------------------------------------------------------------------
\* pause_wait_until, by the time the task started.
Ready(a, now) == \/ Pause = 0 \/ ~linked[a] \/ mark[a] < 0
                 \/ now >= mark[a] + Pause

\* Mutant: the campaign's limit is only looked at when the comment is planned.
TakeUnlimited(s, k) ==
    /\ slot[s].at = "empty" /\ due[k] > 0
    /\ due' = Bump(due, k, -1)
    /\ Begin(s, k, IF Ready(k[1], clock) THEN "governor" ELSE "defer")
    /\ UNCHANGED <<told, asked, claim, mark, linked, clock, sent, posted, over, harm>>

\* post_channel_comment up to the governor: limits, then the pause.
TakeDue(s, k) ==
    /\ slot[s].at = "empty" /\ due[k] > 0
    /\ due' = Bump(due, k, -1)
    /\ \/ posted < MaxComments
          /\ Begin(s, k, IF Ready(k[1], clock) THEN "governor" ELSE "defer")
          /\ UNCHANGED over
       \/ over' = over \cup {k} /\ UNCHANGED slot
    /\ UNCHANGED <<told, asked, claim, mark, linked, clock, sent, posted, harm>>

\* Mutant: the pause is not looked at again under the row lock.
SlotUnchecked(s) ==
    LET a == slot[s].key[1] IN
    /\ slot[s].at = "governor"
    /\ \/ Go(s, "sending") /\ mark' = IF linked[a] THEN [mark EXCEPT ![a] = slot[s].now] ELSE mark
       \/ Go(s, "defer") /\ UNCHANGED mark
    /\ UNCHANGED <<told, asked, claim, due, linked, clock, sent, posted, over, harm>>

\* The governor says no, or yes and claim_post_slot takes the slot of the account under
\* FOR UPDATE.  Without a link there is nothing to lock and nothing to wait for.
ClaimSlot(s) ==
    LET a == slot[s].key[1] IN
    /\ slot[s].at = "governor"
    /\ \/ /\ Ready(a, slot[s].now)
          /\ mark' = IF linked[a] THEN [mark EXCEPT ![a] = slot[s].now] ELSE mark
          /\ Go(s, "sending")
       \/ Go(s, "defer") /\ UNCHANGED mark
    /\ UNCHANGED <<told, asked, claim, due, linked, clock, sent, posted, over, harm>>

\* Mutant: the task turned away is over, without a successor.
DeferNowhere(s) ==
    /\ slot[s].at = "defer"
    /\ End(s)
    /\ UNCHANGED <<told, asked, claim, due, mark, linked, clock, sent, posted, over, harm>>

\* Turned away, the task schedules itself for later.
Defer(s) ==
    /\ slot[s].at = "defer"
    /\ due' = Bump(due, slot[s].key, 1)
    /\ End(s)
    /\ UNCHANGED <<told, asked, claim, mark, linked, clock, sent, posted, over, harm>>

Send(s) ==
    /\ slot[s].at = "sending"
    /\ sent' = Bump(sent, slot[s].key, 1)
    /\ Go(s, "log")
    /\ UNCHANGED <<told, asked, claim, due, mark, linked, clock, posted, over, harm>>

\* No access (handle_access_error logs a failed row), any other error while it is delivered,
\* or 90 s are over - in which case the comment may well be out.  The task is over all the
\* same.
SendFails(s) ==
    /\ slot[s].at = "sending"
    /\ \/ UNCHANGED sent
       \/ sent' = Bump(sent, slot[s].key, 1)
    /\ over' = over \cup {slot[s].key}
    /\ End(s)
    /\ UNCHANGED <<told, asked, claim, due, mark, linked, clock, posted, harm>>

\* One commit; then verify is scheduled, and perhaps the thread goes on.
Log(s) ==
    /\ slot[s].at = "log"
    /\ posted' = posted + 1
    /\ over' = over \cup {slot[s].key}
    /\ Go(s, "follow")
    /\ UNCHANGED <<told, asked, claim, due, mark, linked, clock, sent, harm>>

\* The account's own comment is a message to answer, if the thread is not deep enough yet.
Follow(s) ==
    /\ slot[s].at = "follow"
    /\ \/ UNCHANGED <<told, asked>>
       \/ \E m \in Messages \ Posts :
             LET k == <<slot[s].key[1], m>> IN
             /\ told[k] = 0
             /\ told' = Bump(told, k, 1)
             /\ asked' = Bump(asked, k, 1)
    /\ End(s)
    /\ UNCHANGED <<claim, due, mark, linked, clock, sent, posted, over, harm>>
-----------------------------------------------------------------------------
Tick ==
    /\ clock < MaxTime /\ clock' = clock + 1
    /\ UNCHANGED <<told, asked, claim, due, slot, mark, linked, sent, posted, over, harm>>

\* The account is detached while its comments are still scheduled.
Unlink(a) ==
    /\ linked[a] /\ linked' = [linked EXCEPT ![a] = FALSE]
    /\ UNCHANGED <<told, asked, claim, due, slot, mark, clock, sent, posted, over, harm>>

\* The key expires after an hour, or Redis is gone: _claim_once lets the next one through.
ClaimLost(k) ==
    /\ claim[k] /\ claim' = [claim EXCEPT ![k] = FALSE]
    /\ harm < MaxHarm /\ harm' = harm + 1
    /\ UNCHANGED <<told, asked, due, slot, mark, linked, clock, sent, posted, over>>

\* Tasks that did not return are run again, from their beginning; max_tries is 3, more than
\* MaxHarm.
RunAgain(S) ==
    LET at(k, places) == Cardinality({s \in S : slot[s].key = k /\ slot[s].at \in places}) IN
    /\ harm < MaxHarm /\ harm' = harm + 1
    /\ asked' = [k \in Keys |-> asked[k] + at(k, {"generating", "scheduling"})]
    /\ due' = [k \in Keys |-> due[k] + at(k, PostPlaces)]
    /\ slot' = [s \in Slots |-> IF s \in S THEN Empty ELSE slot[s]]
    /\ UNCHANGED <<told, claim, mark, linked, clock, sent, posted, over>>

\* No client to be had, Redis or the database refuses: the dispatcher turns the exception
\* into a Retry.
Raises(s) == slot[s].at # "empty" /\ RunAgain({s})

\* The worker dies, or is redeployed.
WorkerRestarts == RunAgain(Slots)
-----------------------------------------------------------------------------
Work(s) ==
    \/ Generate(s) \/ SchedulePost(s) \/ ClaimSlot(s) \/ Defer(s)
    \/ Send(s) \/ SendFails(s) \/ Log(s) \/ Follow(s) \/ Raises(s)
    \/ \E k \in Keys : TakeAsked(s, k) \/ TakeDue(s, k)

DelNext ==
    \/ \E s \in Slots : Work(s)
    \/ \E k \in Keys : Announce(k) \/ ClaimLost(k)
    \/ \E a \in Owners : Unlink(a)
    \/ Tick \/ WorkerRestarts

DelSpec == DelInit /\ [][DelNext]_delVars
-----------------------------------------------------------------------------
(* Properties *)

\* Queues, slots and tables are well formed.
DelTypeOK ==
    /\ told \in [Keys -> Nat] /\ asked \in [Keys -> Nat] /\ due \in [Keys -> Nat]
    /\ claim \in [Keys -> BOOLEAN]
    /\ slot \in [Slots -> [at: SlotPlaces, key: Keys \cup {<<>>}, now: Nat]]
    /\ \A s \in Slots : slot[s].at # "empty" => slot[s].key \in Keys
    /\ mark \in [Owners -> Int] /\ linked \in [Owners -> BOOLEAN]
    /\ clock \in Nat
    /\ sent \in [Keys -> Nat] /\ posted \in Nat /\ over \subseteq Keys /\ harm \in Nat

\* However often a message is announced, and in whatever order its tasks run, an account
\* answers it once - unless its task was run again or the claim was lost
\* (modules/commenting/worker/runner.py:123-129).
OneCommentPerMessage == harm = 0 => \A k \in Keys : sent[k] <= 1

\* Two tasks of one account do not get past the pause together: those sending at the same
\* time took their slots at least a pause apart (modules/commenting/worker/limits.py:110-116).
PauseKept ==
    \A s, t \in Slots :
        /\ s # t /\ slot[s].at = "sending" /\ slot[t].at = "sending"
        /\ slot[s].key # <<>> /\ slot[t].key # <<>> /\ slot[s].key[1] = slot[t].key[1]
        /\ linked[slot[s].key[1]]
        => slot[s].now - slot[t].now >= Pause \/ slot[t].now - slot[s].now >= Pause

\* Tasks between the check of max_comments and the row in the log.
BeingPosted == {s \in Slots : slot[s].at \in {"governor", "sending", "log"}}

\* max_comments is exceeded by no more than the tasks the worker runs at once, whatever is
\* announced, deferred or run again (modules/commenting/worker/limits.py:62-67).
LimitOvershoot == posted + Cardinality(BeingPosted) <= MaxComments - 1 + Cardinality(Slots)

\* As long as no task is run again no announced message is dropped in silence: its task waits
\* or runs, its comment is scheduled, or its end was shown in the timeline.
NothingDropped ==
    harm = 0 => \A k \in Keys : told[k] > 0 =>
        \/ asked[k] > 0 \/ due[k] > 0 \/ k \in over
        \/ \E s \in Slots : slot[s].key = k

\* The pace of an account and of a campaign, whatever tasks run at once: comments a pause apart,
\* and max_comments exceeded by the tasks under way only (modules/commenting/worker/limits.py).
PaceKept == PauseKept /\ LimitOvershoot
=============================================================================
