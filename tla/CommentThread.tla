--------------------------- MODULE CommentThread ---------------------------
(***************************************************************************)
(* A campaign that comments in the one discussion group it is given        *)
(* (modules/commenting/worker/listener.py, runner.py, delivery.py and      *)
(* verify.py): a post is handed to two to four accounts, each sends its    *)
(* comment as text, picture or sticker and text, a comment may be answered *)
(* by the campaign itself, and after a while somebody looks whether it is  *)
(* still there.                                                            *)
(*                                                                         *)
(* A message to be answered is the post followed by the authors that lead  *)
(* to it: <<p>>, <<p, a>>, ...; the comment of b on it is key <<p, a, b>>. *)
(* Pause, limits and the governor are CommentDelivery's and a choice here. *)
(***************************************************************************)
EXTENDS Integers, Sequences, FiniteSets

CONSTANTS
    Writers,      \* accounts
    Threads,      \* posts of the channel
    Groups,       \* discussion groups
    NoGroup,      \* the campaign has none: its accounts comment in channels of their own
    FirstGroup,   \* the group of an account's first working channel
    Hands,        \* tasks of the worker that may run at once
    MaxPerPost,   \* MAX_ACCOUNTS_PER_POST
    MaxDepth,     \* MAX_THREAD_DEPTH
    MaxNews,      \* bound on how often a post is announced
    MaxDamage     \* bound on deaths, lost answers and late exceptions

ThreadAssumption == /\ NoGroup \notin Groups /\ FirstGroup \in Groups
                    /\ {MaxPerPost, MaxDepth, MaxNews, MaxDamage} \subseteq Nat

VARIABLES
    news,      \* how often each post was announced
    claimed,   \* posts whose key is in Redis
    lapses,    \* how often the key of each post ran out, or could not be asked for
    asked,     \* on_new_post tasks in the queue, by message to answer
    due,       \* post_comment tasks in the queue, by key
    planned,   \* keys ever scheduled
    checks,    \* verify_comment tasks in the queue
    hand,      \* what each running task does
    campaign,  \* whether it is there, and its discussion_group_id
    chat,      \* messages in the groups; the n-th of its key
    removed,   \* those that a moderator took away
    rows,      \* comment_logs
    over,      \* keys whose task ended without a row: skipped, or out of tries
    moved,     \* discussion_group_id was changed
    damage

threadVars == <<news, claimed, lapses, asked, due, planned, checks, hand, campaign, chat,
                removed, rows, over, moved, damage>>

Paths(n) == {<<p>> \o s : p \in Threads, s \in [1..n -> Writers]}
Targets == UNION {Paths(n) : n \in 0..MaxDepth}
Keys == UNION {Paths(n) : n \in 1..(MaxDepth + 1)}
Writer(k) == k[Len(k)]

Free == [at |-> "free", key |-> <<>>, n |-> 0, group |-> NoGroup, left |-> {}, plans |-> {},
         found |-> FALSE]
Asking == {"generate", "schedule"}
Posting == {"gate", "sticker", "stickered", "photo", "text", "log", "follow"}
Checking == {"look", "verdict"}
Row(k, n, status) == [key |-> k, n |-> n, status |-> status, verified |-> FALSE]

ThreadInit ==
    /\ news = [p \in Threads |-> 0]
    /\ claimed = {} /\ lapses = [p \in Threads |-> 0]
    /\ asked = [t \in Targets |-> 0]
    /\ due = [k \in Keys |-> 0]
    /\ planned = {} /\ checks = {}
    /\ hand = [h \in Hands |-> Free]
    /\ campaign \in [is: {"there"}, group: Groups \cup {NoGroup}]
    /\ chat = {} /\ removed = {} /\ rows = {} /\ over = {}
    /\ moved = FALSE /\ damage = 0

Add(f, k, n) == [f EXCEPT ![k] = @ + n]
Go(h, place) == hand' = [hand EXCEPT ![h].at = place]
Ends(h) == hand' = [hand EXCEPT ![h] = Free]
-----------------------------------------------------------------------------
(* The listener *)

\* The handler of the group passes a post on; one of a campaign that is off and one that its
\* filter does not select are ignored.
Takes(p) ==
    /\ campaign.group # NoGroup /\ news[p] < MaxNews
    /\ news' = Add(news, p, 1)
    /\ asked' \in {asked, Add(asked, <<p>>, 1)}
    /\ UNCHANGED <<due, planned, checks, hand, campaign, chat, removed, rows, over, moved,
                   damage>>

\* Mutant: the key is set and not asked for.
AnnounceEach(p) == claimed' = claimed \cup {p} /\ UNCHANGED lapses /\ Takes(p)

\* A post whose key is there is a repetition and ignored.
Announce(p) == p \notin claimed /\ claimed' = claimed \cup {p} /\ UNCHANGED lapses /\ Takes(p)

\* Redis does not answer: taken, whatever the key says.
AnnounceUnasked(p) == Takes(p) /\ lapses' = Add(lapses, p, 1) /\ UNCHANGED claimed

\* The key lives for a quarter of an hour; later than the last announcement it is of no use.
ClaimEnds(p) ==
    /\ p \in claimed /\ news[p] < MaxNews
    /\ claimed' = claimed \ {p} /\ lapses' = Add(lapses, p, 1)
    /\ UNCHANGED <<news, asked, due, planned, checks, hand, campaign, chat, removed, rows,
                   over, moved, damage>>
-----------------------------------------------------------------------------
(* on_new_post *)

\* Up to the first await: campaign gone or off, hours, limits, blacklist, no accounts; or a
\* sample of the assigned accounts, who may be any.
TakePost(h, t) ==
    /\ hand[h].at = "free" /\ asked[t] > 0
    /\ asked' = Add(asked, t, -1)
    /\ \/ UNCHANGED hand
       \/ /\ campaign.is = "there"
          /\ \E S \in SUBSET Writers \ {{}} :
                /\ Cardinality(S) <= MaxPerPost
                /\ hand' = [hand EXCEPT ![h] =
                               [Free EXCEPT !.at = "generate", !.key = t, !.left = S]]
    /\ UNCHANGED <<news, claimed, lapses, due, planned, checks, campaign, chat, removed,
                   rows, over, moved, damage>>

\* With nothing more to generate or to schedule the task goes on, or is over.
Onward(r) == IF r.left # {} THEN r
             ELSE IF r.plans # {} THEN [r EXCEPT !.at = "schedule"] ELSE Free

\* The model answers; below min_words the account's comment is logged as failed.
Generate(h, a) ==
    /\ hand[h].at = "generate" /\ a \in hand[h].left
    /\ LET r == [hand[h] EXCEPT !.left = @ \ {a}] IN
       \/ hand' = [hand EXCEPT ![h] = Onward([r EXCEPT !.plans = @ \cup {a}])]
          /\ UNCHANGED rows
       \/ /\ hand' = [hand EXCEPT ![h] = Onward(r)]
          /\ rows' = IF campaign.is = "deleted" THEN rows
                     ELSE rows \cup {Row(Append(r.key, a), 0, "failed")}
    /\ UNCHANGED <<news, claimed, lapses, asked, due, planned, checks, campaign, chat,
                   removed, over, moved, damage>>

\* Both models fail: the dispatcher runs the task again.  Nothing was scheduled yet.
GenerateFails(h) ==
    /\ hand[h].at = "generate"
    /\ asked' = Add(asked, hand[h].key, 1)
    /\ Ends(h)
    /\ UNCHANGED <<news, claimed, lapses, due, planned, checks, campaign, chat, removed,
                   rows, over, moved, damage>>

\* Mutant: a plan is forgotten when its turn comes.
ScheduleLast(h, a) ==
    /\ hand[h].at = "schedule" /\ a \in hand[h].plans
    /\ due' = IF Cardinality(hand[h].plans) = 1 THEN Add(due, Append(hand[h].key, a), 1) ELSE due
    /\ planned' = planned \cup {Append(hand[h].key, a)}
    /\ hand' = [hand EXCEPT ![h] = Onward([@ EXCEPT !.plans = @ \ {a}])]
    /\ UNCHANGED <<news, claimed, lapses, asked, checks, campaign, chat, removed, rows,
                   over, moved, damage>>

\* One post_comment for each plan, an await each.
Schedule(h, a) ==
    /\ hand[h].at = "schedule" /\ a \in hand[h].plans
    /\ due' = Add(due, Append(hand[h].key, a), 1)
    /\ planned' = planned \cup {Append(hand[h].key, a)}
    /\ hand' = [hand EXCEPT ![h] = Onward([@ EXCEPT !.plans = @ \ {a}])]
    /\ UNCHANGED <<news, claimed, lapses, asked, checks, campaign, chat, removed, rows,
                   over, moved, damage>>
-----------------------------------------------------------------------------
(* post_comment and deliver_comment *)

\* Whether the campaign is on, and the account still in it, is not asked again.
TakeComment(h, k) ==
    /\ hand[h].at = "free" /\ due[k] > 0
    /\ due' = Add(due, k, -1)
    /\ \/ over' = over \cup {k} /\ UNCHANGED hand
       \/ /\ campaign.is = "there"
          /\ hand' = [hand EXCEPT ![h] = [Free EXCEPT !.at = "gate", !.key = k,
                                                      !.group = campaign.group]]
          /\ UNCHANGED over
    /\ UNCHANGED <<news, claimed, lapses, asked, planned, checks, campaign, chat, removed,
                   rows, moved, damage>>

\* Pause, governor or claim_post_slot put it off.
PutOff(h) ==
    /\ hand[h].at = "gate"
    /\ due' = Add(due, hand[h].key, 1)
    /\ Ends(h)
    /\ UNCHANGED <<news, claimed, lapses, asked, planned, checks, campaign, chat, removed,
                   rows, over, moved, damage>>

\* They let it through: the campaign is read again, the client taken; pick_mode.
PickMode(h) ==
    /\ hand[h].at = "gate" /\ campaign.is = "there"
    /\ \E form \in {"sticker", "photo", "text"} : Go(h, form)
    /\ UNCHANGED <<news, claimed, lapses, asked, due, planned, checks, campaign, chat,
                   removed, rows, over, moved, damage>>

\* No client, no campaign, or Telegram refuses the text: again from the start.  Out of tries is
\* as if the next one skipped.
PostFails(h) ==
    /\ hand[h].at \in {"gate", "text"}
    /\ due' = Add(due, hand[h].key, 1)
    /\ Ends(h)
    /\ UNCHANGED <<news, claimed, lapses, asked, planned, checks, campaign, chat, removed,
                   rows, over, moved, damage>>

\* One of ACCESS_ERRORS at the text: a failed row and no second try.
AccessError(h) ==
    /\ hand[h].at = "text"
    /\ rows' = IF campaign.is = "deleted" THEN rows ELSE rows \cup {Row(hand[h].key, 0, "failed")}
    /\ over' = IF campaign.is = "deleted" THEN over \cup {hand[h].key} ELSE over
    /\ Ends(h)
    /\ UNCHANGED <<news, claimed, lapses, asked, due, planned, checks, campaign, chat,
                   removed, moved, damage>>

Said(k) == {m \in chat : m.key = k}
Says(h) == chat' = chat \cup {[key |-> hand[h].key, n |-> Cardinality(Said(hand[h].key)) + 1,
                               group |-> hand[h].group]}

\* The sticker, without which it is the text alone.  Nothing refers to a sticker later.
SendSticker(h) ==
    /\ hand[h].at = "sticker"
    /\ \E place \in {"stickered", "text"} : Go(h, place)
    /\ UNCHANGED <<news, claimed, lapses, asked, due, planned, checks, campaign, chat,
                   removed, rows, over, moved, damage>>

\* Text, text after a sticker, or picture with or without its caption.
Send(h) ==
    /\ hand[h].at \in {"stickered", "photo", "text"}
    /\ Says(h)
    /\ hand' = [hand EXCEPT ![h].at = "log", ![h].n = Cardinality(Said(hand[h].key)) + 1]
    /\ UNCHANGED <<news, claimed, lapses, asked, due, planned, checks, campaign, removed,
                   rows, over, moved, damage>>

\* Mutant: the picture is out, and the text follows it.
FallBackAnyway(h) ==
    /\ hand[h].at \in {"stickered", "photo"}
    /\ Says(h)
    /\ Go(h, "text")
    /\ UNCHANGED <<news, claimed, lapses, asked, due, planned, checks, campaign, removed,
                   rows, over, moved, damage>>

\* Refused: the text alone.
FallBack(h) ==
    /\ hand[h].at \in {"stickered", "photo"}
    /\ Go(h, "text")
    /\ UNCHANGED <<news, claimed, lapses, asked, due, planned, checks, campaign, chat,
                   removed, rows, over, moved, damage>>

\* Sent, and the answer lost: what would follow a refusal does.
SentUnheard(h) ==
    /\ hand[h].at \in {"stickered", "photo", "text"}
    /\ damage < MaxDamage /\ damage' = damage + 1
    /\ Says(h)
    /\ IF hand[h].at = "text"
       THEN due' = Add(due, hand[h].key, 1) /\ Ends(h)
       ELSE Go(h, "text") /\ UNCHANGED due
    /\ UNCHANGED <<news, claimed, lapses, asked, planned, checks, campaign, removed, rows,
                   over, moved>>

\* The row needs its campaign; without one the task fails, and the next try skips.
LogPosted(h) ==
    /\ hand[h].at = "log"
    /\ IF campaign.is = "deleted"
       THEN over' = over \cup {hand[h].key} /\ Ends(h) /\ UNCHANGED rows
       ELSE /\ rows' = rows \cup {Row(hand[h].key, hand[h].n, "posted")}
            /\ Go(h, "follow") /\ UNCHANGED over
    /\ UNCHANGED <<news, claimed, lapses, asked, due, planned, checks, campaign, chat,
                   removed, moved, damage>>

\* verify is scheduled (if the campaign does not want it, that is as if it were skipped), and
\* maybe_continue_thread perhaps enqueues an answer to the comment.
Follow(h) ==
    /\ hand[h].at = "follow"
    /\ checks' = IF campaign.is = "there" THEN checks \cup {<<hand[h].key, hand[h].n>>} ELSE checks
    /\ \/ hand[h].key \in Targets /\ asked' = Add(asked, hand[h].key, 1)
       \/ UNCHANGED asked
    /\ Ends(h)
    /\ UNCHANGED <<news, claimed, lapses, due, planned, campaign, chat, removed, rows, over,
                   moved, damage>>
-----------------------------------------------------------------------------
(* verify_comment *)

RowOf(c) == {r \in rows : r.key = c[1] /\ r.n = c[2] /\ r.status # "failed"}

\* Skipped: no posted row, checked before, or an account that is away.  The group is the
\* campaign's as it is now, or else that of the account's first working channel.
TakeCheck(h, c) ==
    /\ hand[h].at = "free" /\ c \in checks
    /\ checks' = checks \ {c}
    /\ \/ UNCHANGED hand
       \/ /\ \E r \in RowOf(c) : r.status = "posted" /\ ~r.verified
          /\ hand' = [hand EXCEPT ![h] =
                [Free EXCEPT !.at = "look", !.key = c[1], !.n = c[2],
                             !.group = IF campaign.group = NoGroup THEN FirstGroup
                                       ELSE campaign.group]]
    /\ UNCHANGED <<news, claimed, lapses, asked, due, planned, campaign, chat, removed,
                   rows, over, moved, damage>>

\* Mutant: what it could not ask about is taken for removed.
LookFails(h) ==
    /\ hand[h].at = "look"
    /\ \E found \in BOOLEAN :
          hand' = [hand EXCEPT ![h].at = "verdict", ![h].found = found]
    /\ UNCHANGED <<news, claimed, lapses, asked, due, planned, checks, campaign, chat,
                   removed, rows, over, moved, damage>>

\* get_messages; an error ends the task, and no other is scheduled.
Look(h) ==
    /\ hand[h].at = "look"
    /\ \/ hand' = [hand EXCEPT ![h].at = "verdict",
                               ![h].found = \E m \in chat \ removed :
                                   /\ m.key = hand[h].key /\ m.n = hand[h].n
                                   /\ m.group = hand[h].group]
       \/ Ends(h)
    /\ UNCHANGED <<news, claimed, lapses, asked, due, planned, checks, campaign, chat,
                   removed, rows, over, moved, damage>>

Verdict(h) ==
    LET c == <<hand[h].key, hand[h].n>> IN
    /\ hand[h].at = "verdict"
    /\ rows' = {IF r \in RowOf(c)
                THEN IF hand[h].found THEN [r EXCEPT !.verified = TRUE]
                     ELSE [r EXCEPT !.status = "flagged"]
                ELSE r : r \in rows}
    /\ Ends(h)
    /\ UNCHANGED <<news, claimed, lapses, asked, due, planned, checks, campaign, chat,
                   removed, over, moved, damage>>
-----------------------------------------------------------------------------
(* Around the worker *)

\* A campaign without a group: a comment of CommentDelivery, in a channel of the account.
ChannelComment(k, g) ==
    /\ campaign.group = NoGroup /\ campaign.is = "there" /\ k \in Paths(1) /\ Said(k) = {}
    /\ chat' = chat \cup {[key |-> k, n |-> 1, group |-> g]}
    /\ rows' = rows \cup {Row(k, 1, "posted")}
    /\ checks' = checks \cup {<<k, 1>>}
    /\ UNCHANGED <<news, claimed, lapses, asked, due, planned, hand, campaign, removed,
                   over, moved, damage>>

\* A moderator removes a message; later than its check it would make no difference.
Moderate(m) ==
    /\ m \in chat \ removed /\ <<m.key, m.n>> \in checks
    /\ removed' = removed \cup {m}
    /\ UNCHANGED <<news, claimed, lapses, asked, due, planned, checks, hand, campaign, chat,
                   rows, over, moved, damage>>

\* PATCH of the group, which no listener hears of; DELETE with its log.
Patch(g) ==
    /\ campaign.is = "there" /\ campaign.group \notin {g, NoGroup}
    /\ campaign' = [campaign EXCEPT !.group = g] /\ moved' = TRUE
    /\ UNCHANGED <<news, claimed, lapses, asked, due, planned, checks, hand, chat, removed,
                   rows, over, damage>>

Delete ==
    /\ campaign.is = "there"
    /\ campaign' = [campaign EXCEPT !.is = "deleted"] /\ rows' = {}
    /\ UNCHANGED <<news, claimed, lapses, asked, due, planned, checks, hand, chat, removed,
                   over, moved, damage>>

\* Tasks that did not return are run again from their beginning; a task that raises after its
\* message was sent or its plans were half scheduled is, too.
RunAgain(H) ==
    LET at(k, places) == Cardinality({h \in H : hand[h].at \in places /\ hand[h].key = k}) IN
    /\ damage < MaxDamage /\ damage' = damage + 1
    /\ asked' = [t \in Targets |-> asked[t] + at(t, Asking)]
    /\ due' = [k \in Keys |-> due[k] + at(k, Posting)]
    /\ checks' = checks \cup {<<hand[h].key, hand[h].n>> : h \in {x \in H : hand[x].at \in Checking}}
    /\ hand' = [h \in Hands |-> IF h \in H THEN Free ELSE hand[h]]
    /\ UNCHANGED <<news, claimed, lapses, planned, campaign, chat, removed, rows, over,
                   moved>>

Raises(h) == hand[h].at \notin {"free"} \cup Checking /\ RunAgain({h})
WorkerRestarts == RunAgain(Hands)
-----------------------------------------------------------------------------
ThreadWork(h) ==
    \/ GenerateFails(h) \/ PutOff(h) \/ PickMode(h) \/ PostFails(h) \/ AccessError(h)
    \/ SendSticker(h) \/ Send(h) \/ FallBack(h) \/ SentUnheard(h) \/ LogPosted(h)
    \/ Follow(h) \/ Look(h) \/ Verdict(h) \/ Raises(h)
    \/ \E a \in Writers : Generate(h, a) \/ Schedule(h, a)
    \/ \E t \in Targets : TakePost(h, t)
    \/ \E k \in Keys : TakeComment(h, k)
    \/ \E c \in checks : TakeCheck(h, c)

ThreadNext ==
    \/ \E h \in Hands : ThreadWork(h)
    \/ \E p \in Threads : Announce(p) \/ AnnounceUnasked(p) \/ ClaimEnds(p)
    \/ \E k \in Keys, g \in Groups : ChannelComment(k, g)
    \/ \E m \in chat : Moderate(m)
    \/ \E g \in Groups : Patch(g)
    \/ Delete \/ WorkerRestarts

ThreadSpec == ThreadInit /\ [][ThreadNext]_threadVars
-----------------------------------------------------------------------------
(* Properties *)

\* Queues, tasks and tables are well formed.
ThreadTypeOK ==
    /\ news \in [Threads -> 0..MaxNews] /\ claimed \subseteq Threads
    /\ lapses \in [Threads -> 0..2 * MaxNews]
    /\ asked \in [Targets -> Nat] /\ due \in [Keys -> Nat]
    /\ planned \subseteq Keys /\ over \subseteq Keys
    /\ checks \subseteq Keys \X Nat
    /\ \A h \in Hands : /\ hand[h].at \in {"free"} \cup Asking \cup Posting \cup Checking
                        /\ hand[h].left \cup hand[h].plans \subseteq Writers
    /\ campaign \in [is: {"there", "deleted"}, group: Groups \cup {NoGroup}]
    /\ removed \subseteq chat
    /\ chat \subseteq [key: Keys, n: Nat, group: Groups]
    /\ rows \subseteq [key: Keys, n: Nat, status: {"posted", "failed", "flagged"}, verified: BOOLEAN]
    /\ moved \in BOOLEAN /\ damage \in Nat

\* An account answers a message once, with whatever fell back to plain text on the way, and
\* once more for each time that the claim on the post ran out or could not be asked for.
OneAnswer == damage = 0 => \A k \in Keys : Cardinality(Said(k)) <= 1 + lapses[k[1]]

\* A row that says posted has its message; one flagged removed_by_moderator is of a message
\* that a moderator removed - unless the group was changed since, or the comment was made in
\* a channel that is not the account's first (modules/commenting/worker/verify.py:52-67).
FlagsTrue ==
    \A r \in rows : r.status # "failed" =>
        \E m \in chat : /\ m.key = r.key /\ m.n = r.n
                        /\ r.status = "flagged" => \/ m \in removed \/ moved
                                                   \/ campaign.group = NoGroup /\ m.group # FirstGroup

\* A scheduled comment is queued, worked on, logged, or was skipped.
PlansKept ==
    \A k \in planned :
        \/ due[k] > 0 \/ k \in over \/ campaign.is = "deleted"
        \/ \E h \in Hands : hand[h].key = k /\ hand[h].at \in Posting
        \/ \E r \in rows : r.key = k

\* modules/commenting/worker/runner.py:455-709: nothing that was planned is lost, and without
\* a death or a lost answer nothing is said twice; verify.py blames no moderator in vain.
ThreadKept == OneAnswer /\ FlagsTrue /\ PlansKept
=============================================================================
