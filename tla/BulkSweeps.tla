----------------------------- MODULE BulkSweeps -----------------------------
(***************************************************************************)
(* Bulk actions of one account that are more than one call of Telegram:    *)
(* reactions, views of channels and of stories, leaving of channels, which *)
(* go on after a failure (modules/bulk/actions/send_reactions.py,          *)
(* view_channel_posts.py, view_stories.py, leave_channels.py); privacy     *)
(* rules and the end of the other sessions, which do not (set_privacy.py,  *)
(* logout_other_sessions.py); and the publishing of a story                *)
(* (publish_story.py).  They are run as items by worker/tasks/bulk.py,     *)
(* whose jobs and tasks BulkJobs models; two items of the account can run  *)
(* at the same time.                                                       *)
(*                                                                         *)
(* A ref is a post, a channel, a peer or a privacy rule.                   *)
(***************************************************************************)
EXTENDS Naturals, Sequences, FiniteSets, Functions

CONSTANTS
    Items,
    Jobs,       \* what an item may be: [kind, refs, later]
    Slots,      \* bulk items the governor lets through in its window
    MaxFaults,  \* bound: calls that fail, timeouts and deaths
    MaxRetries, \* bound: retries asked for
    MaxStories  \* bound: stories of an item

Sweeps == {"react", "view", "leave"}
Kinds == Sweeps \cup {"privacy", "story"}

\* What the module assumes of its constants.
BulkSweepsAssumption ==
    /\ {Slots, MaxFaults, MaxRetries, MaxStories} \subseteq Nat
    /\ \A j \in Jobs : /\ j.kind \in Kinds /\ j.later \in BOOLEAN
                       /\ j.kind = "story" <=> j.refs = <<>>
                       /\ j.later => j.kind = "story"

VARIABLES
    job,       \* action and payload of each item
    item,      \* the item's row and its run: [status, why, at, todo, good, bad]
    account,   \* accounts.status
    alive,     \* Telegram still knows the session
    premium,   \* the account has Telegram Premium
    badge,     \* accounts.is_premium
    due,       \* scheduled_at has come
    used,      \* slots reserved
    served,    \* refs each item has done something about at Telegram
    stories,   \* stories each item has put up
    lost,      \* of these, those no result of an item tells of
    faults, retries

vars == <<job, item, account, alive, premium, badge, due, used, served, stories,
          lost, faults, retries>>
world == <<served, stories, lost>>
-----------------------------------------------------------------------------
Fresh == [status |-> "pending", why |-> "", at |-> "queue", todo |-> <<>>, good |-> {}, bad |-> {}]

SweepInit ==
    /\ job \in [Items -> Jobs]
    /\ item = [i \in Items |-> Fresh]
    /\ account = "pool" /\ alive = TRUE
    /\ premium \in BOOLEAN /\ badge = FALSE /\ due = FALSE
    /\ used = 0
    /\ served = [i \in Items |-> {}]
    /\ stories = [i \in Items |-> 0] /\ lost = [i \in Items |-> 0]
    /\ faults = 0 /\ retries = 0

Kind(i) == job[i].kind
At(i, step) == item[i].status = "running" /\ item[i].at = step
Go(i, step) == item' = [item EXCEPT ![i].at = step]
End(i, status, why) ==
    item' = [item EXCEPT ![i].status = status, ![i].why = why, ![i].at = "rest",
                         ![i].todo = <<>>]
-----------------------------------------------------------------------------
(* The item *)

\* item_impl: the account is gone, or the item is claimed and the governor asked.
Start(i) ==
    /\ item[i].status = "pending" /\ item[i].at = "queue"
    /\ IF account = "banned" THEN End(i, "skipped", "account") /\ UNCHANGED used
       ELSE /\ used < Slots
            /\ used' = used + 1
            /\ item' = [item EXCEPT ![i] = [Fresh EXCEPT !.status = "running", !.todo = job[i].refs,
                            !.at = IF Kind(i) = "story" THEN "check"
                                   ELSE IF Kind(i) = "privacy" THEN "act" ELSE "resolve"]]
    /\ UNCHANGED <<job, account, alive, premium, badge, due, world, faults, retries>>

\* The window of the governor goes by.
Window ==
    /\ used > 0
    /\ used' = 0
    /\ UNCHANGED <<job, item, account, alive, premium, badge, due, served, stories, lost,
                   faults, retries>>

\* Mutant: retry-failed takes the items that are done with it.
Retryable(status) == status \in {"failed", "done"}

\* reset_failed_to_pending
Resettable(status) == status = "failed"

Retry(i) ==
    /\ retries < MaxRetries /\ Resettable(item[i].status)
    /\ retries' = retries + 1
    /\ item' = [item EXCEPT ![i] = Fresh]
    /\ UNCHANGED <<job, account, alive, premium, badge, due, used, world, faults>>

\* Something was done, or nothing failed.
Ok(i) == item[i].good # {} \/ item[i].bad = {}

\* The result is written when the last ref has been gone through.
Finish(i) ==
    /\ At(i, "write")
    /\ IF Ok(i) THEN End(i, "done", "") ELSE End(i, "failed", "refs")
    /\ UNCHANGED <<job, account, alive, premium, badge, due, used, world, faults, retries>>
-----------------------------------------------------------------------------
(* Failures *)

\* around_telethon_call: a flood wait or a block sends a free account to rest, a ban ends it,
\* any other error leaves it.  A session Telegram has ended answers every call with a ban.
Fault ==
    /\ alive => faults < MaxFaults
    /\ faults' = IF alive THEN faults + 1 ELSE faults
    /\ \/ alive /\ account = "pool" /\ account' = "cooldown" /\ UNCHANGED alive
       \/ alive /\ UNCHANGED <<account, alive>>
       \/ account' = "banned" /\ alive' = FALSE

\* Mutant: the last ref is not seen to be the last.
AfterNone(i) ==
    IF Len(item[i].todo) = 0 THEN "write" ELSE IF Kind(i) = "privacy" THEN "act" ELSE "resolve"

AfterRef(i) ==
    IF Len(item[i].todo) = 1 THEN "write" ELSE IF Kind(i) = "privacy" THEN "act" ELSE "resolve"

\* Mutant: the ref is written down before its call.
GoodAtOnce(i) == item' = [item EXCEPT ![i].at = "act", ![i].good = @ \cup {Head(item[i].todo)}]

\* The channel, the post's channel or the peer is known; its posts or stories are still to
\* be asked for.
Known(i) == Go(i, IF Kind(i) = "view" THEN "look" ELSE "act")

Resolve(i) ==
    /\ At(i, "resolve") /\ alive
    /\ Known(i)
    /\ UNCHANGED <<job, account, alive, premium, badge, due, used, world, faults, retries>>

\* The ref at the head is over: good, or bad.
Good(i) ==
    item' = [item EXCEPT ![i].good = @ \cup {Head(item[i].todo)}, ![i].todo = Tail(@),
                         ![i].at = AfterRef(i)]
Bad(i) ==
    item' = [item EXCEPT ![i].bad = @ \cup {Head(item[i].todo)}, ![i].todo = Tail(@),
                         ![i].at = AfterRef(i)]

Serve(i) ==
    /\ served' = [served EXCEPT ![i] = @ \cup {Head(item[i].todo)}]
    /\ UNCHANGED <<stories, lost>>

\* There is nothing to be marked as read: the ref counts as viewed.
Look(i) ==
    /\ At(i, "look") /\ alive
    /\ \/ Go(i, "act") /\ UNCHANGED world
       \/ Good(i) /\ Serve(i)
    /\ UNCHANGED <<job, account, alive, premium, badge, due, used, faults, retries>>

\* The reaction, the acknowledgement, the leaving, the privacy rule.
Act(i) ==
    /\ At(i, "act") /\ alive
    /\ Good(i) /\ Serve(i)
    /\ UNCHANGED <<job, account, alive, premium, badge, due, used, faults, retries>>

\* Mutant: a privacy rule that fails is passed over like a ref of a sweep.
GoesOnAlways(i) == Kind(i) # "story"

\* A sweep goes on after a failure, the others end.
GoesOn(i) == Kind(i) \in Sweeps

\* A call for a ref fails; its effect may be there all the same.
RefFails(i) ==
    /\ item[i].status = "running" /\ item[i].at \in {"resolve", "look", "act"}
    /\ Fault
    /\ \/ UNCHANGED world
       \/ item[i].at = "act" /\ alive /\ Serve(i)
    /\ IF GoesOn(i) THEN Bad(i) ELSE End(i, "failed", "call")
    /\ UNCHANGED <<job, premium, badge, due, used, retries>>
-----------------------------------------------------------------------------
(* The story *)

\* Too early: the item is skipped, as deferred.  A wrong period, a medium that is gone or a
\* video without its attributes fails it.
Check(i) ==
    /\ At(i, "check")
    /\ \/ ~(job[i].later /\ ~due) /\ Go(i, "premium")
       \/ End(i, "failed", "payload")
       \/ job[i].later /\ ~due /\ End(i, "skipped", "deferred")
    /\ UNCHANGED <<job, account, alive, premium, badge, due, used, world, faults, retries>>

\* get_me: the badge is written; without Premium the item is skipped.
AskPremium(i) ==
    /\ At(i, "premium") /\ alive
    /\ badge' = premium
    /\ IF premium THEN Go(i, "upload") ELSE End(i, "skipped", "not_premium")
    /\ UNCHANGED <<job, account, alive, premium, due, used, world, faults, retries>>

\* The question fails: the badge stays, the story is tried.
AskFails(i) ==
    /\ At(i, "premium") /\ Fault
    /\ Go(i, "upload")
    /\ UNCHANGED <<job, premium, badge, due, used, world, retries>>

\* The medium and its thumb.
Upload(i) ==
    /\ At(i, "upload") /\ alive
    /\ Go(i, "send")
    /\ UNCHANGED <<job, account, alive, premium, badge, due, used, world, faults, retries>>

PutUp(i) ==
    /\ stories[i] < MaxStories
    /\ stories' = [stories EXCEPT ![i] = @ + 1]
    /\ UNCHANGED served

\* SendStoryRequest, with a random_id of this run.  Telegram takes stories of Premium accounts.
SendStory(i) ==
    /\ At(i, "send") /\ alive /\ premium
    /\ PutUp(i) /\ UNCHANGED lost
    /\ Go(i, "write")
    /\ UNCHANGED <<job, account, alive, premium, badge, due, used, faults, retries>>

StoryFails(i) ==
    /\ item[i].status = "running" /\ item[i].at \in {"upload", "send"}
    /\ Fault
    /\ \/ UNCHANGED world
       \/ /\ item[i].at = "send" /\ alive /\ premium
          /\ PutUp(i) /\ lost' = [lost EXCEPT ![i] = @ + 1]
    /\ End(i, "failed", "call")
    /\ UNCHANGED <<job, premium, badge, due, used, retries>>

\* Telegram refuses the story: PremiumAccountRequiredError, which is no incident.
Refused(i) ==
    /\ At(i, "send") /\ alive /\ ~premium
    /\ End(i, "failed", "call")
    /\ UNCHANGED <<job, account, alive, premium, badge, due, used, world, faults, retries>>
-----------------------------------------------------------------------------
(* Around the item *)

\* _ITEM_TIMEOUT_SECONDS: the run is cancelled where it is, what it has done is forgotten.
Timeout(i) ==
    /\ item[i].status = "running" /\ item[i].at \notin {"rest", "write"}
    /\ faults < MaxFaults /\ faults' = faults + 1
    /\ item' = [item EXCEPT ![i] = [Fresh EXCEPT !.status = "failed", !.why = "timeout",
                                                 !.at = "rest"]]
    /\ UNCHANGED <<job, account, alive, premium, badge, due, used, world, retries>>

\* The worker dies: the item stays running.
Die(i) ==
    /\ item[i].status = "running" /\ item[i].at # "rest"
    /\ faults < MaxFaults /\ faults' = faults + 1
    /\ Go(i, "rest")
    /\ lost' = IF Kind(i) = "story" /\ item[i].at = "write" THEN [lost EXCEPT ![i] = @ + 1]
               ELSE lost
    /\ UNCHANGED <<job, account, alive, premium, badge, due, used, served, stories,
                   retries>>

\* cooldown_return
Rested ==
    /\ account = "cooldown" /\ account' = "pool"
    /\ UNCHANGED <<job, item, alive, premium, badge, due, used, world, faults, retries>>

Premium ==
    /\ premium' = ~premium
    /\ UNCHANGED <<job, item, account, alive, badge, due, used, world, faults, retries>>

ComesDue ==
    /\ ~due /\ due' = TRUE
    /\ UNCHANGED <<job, item, account, alive, premium, badge, used, world, faults, retries>>
-----------------------------------------------------------------------------
Run(i) ==
    \/ Start(i) \/ Finish(i) \/ Resolve(i) \/ Look(i) \/ Act(i) \/ RefFails(i)
    \/ Check(i) \/ AskPremium(i) \/ AskFails(i) \/ Upload(i) \/ SendStory(i) \/ StoryFails(i)
    \/ Refused(i)

SweepNext ==
    \/ \E i \in Items : Run(i) \/ Retry(i) \/ Timeout(i) \/ Die(i)
    \/ Window \/ Rested \/ Premium \/ ComesDue

SweepSpec == SweepInit /\ [][SweepNext]_vars
-----------------------------------------------------------------------------
(* Properties *)

Ats == {"queue", "rest", "write", "resolve", "look", "act", "check", "premium", "upload", "send"}

\* Who waits or runs stands at a step of its own kind of action.
SweepTypeOK ==
    /\ account \in {"pool", "cooldown", "banned"} /\ used \in 0..Slots
    /\ account = "banned" <=> ~alive
    /\ {alive, premium, badge, due} \subseteq BOOLEAN
    /\ \A i \in Items :
          /\ item[i].at \in Ats
          /\ item[i].status = "pending" <=> item[i].at = "queue"
          /\ item[i].status \in {"done", "failed", "skipped"} => item[i].at = "rest"
          /\ item[i].good \cup item[i].bad \cup served[i] \subseteq Range(job[i].refs)
          /\ item[i].at \in {"resolve", "look", "act"}
             <=> item[i].todo # <<>> /\ item[i].at # "rest"

\* What an item's result says was done was done at Telegram, and the result of a sweep that was
\* gone through to its end leaves no ref out: after an error, a lost answer, a ban in the
\* middle, in a run that is a retry, beside another item of the same account
\* (modules/bulk/actions/view_stories.py:42-78, send_reactions.py:79-114).
ResultsAreTrue ==
    \A i \in Items :
        /\ item[i].good \subseteq served[i]
        /\ Kind(i) \in Sweeps /\ (item[i].status = "done" \/ item[i].why = "refs") =>
               item[i].good \cup item[i].bad = Range(job[i].refs)

\* Done means done: a sweep has done something, privacy rules are all set, a story is up, also
\* when the item had failed halfway and was tried again (worker/tasks/bulk.py:222-243).
DoneIsDone ==
    \A i \in Items : item[i].status = "done" =>
        CASE Kind(i) \in Sweeps -> served[i] # {}
          [] Kind(i) = "privacy" -> served[i] = Range(job[i].refs)
          [] Kind(i) = "story" -> stories[i] > 0

\* Every story of an item is in its result, but for those whose answer or whose worker was
\* lost: neither a retry nor a second item makes others (core/repositories/bulk_job.py:152-176,
\* modules/bulk/actions/publish_story.py:272-286).
StoriesAccounted ==
    \A i \in Items :
        stories[i] = lost[i] + (IF Kind(i) = "story" /\ (item[i].status = "done" \/ At(i, "write"))
                                THEN 1 ELSE 0)

\* Results are true, done is done, and stories are accounted for.
SweepsKept == ResultsAreTrue /\ DoneIsDone /\ StoriesAccounted
=============================================================================
