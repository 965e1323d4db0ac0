------------------------------ MODULE MCPanel ------------------------------
(***************************************************************************)
(* The modules around the campaigns and the accounts, for one run of TLC,  *)
(* put together as those of MCWorker are: a behaviour is one of the module *)
(* that part names, v1, v2, ... are its variables, and a definition below  *)
(* says of the same definition of that module that it holds.               *)
(***************************************************************************)
EXTENDS Integers, FiniteSets, TLC

CONSTANTS
    Writers, Threads, Groups, NoGroup, FirstGroup, Hands, MaxPerPost, MaxDepth, MaxNews,
    MaxDamage, Hosts, Requests, Nobody, MaxEdits, MaxTroubles, Workers, Day, WindowStart,
    WindowEnd, MaxNow, IdleHours, Batch, Interval, ReadyActions, ReadyDays, AgedReadyDays,
    Keep, MaxTicks, MaxWarmingDamage, Phones, ProxyIds, NoProxy, Countries, Clerks,
    AccountsMax, MaxOrders, Errands, Bearers, Values, Nothing, MaxErrands, MaxHitches,
    Tasks, Doers, Channels, NoChannel, Posts, MaxTasks, MaxSlips, Checkers, MaxQueue,
    MaxAsks, MaxMishaps, MaxHistory, Editors, Players, Unplayed, Offers, MaxScenarios,
    MaxRoles, MaxSteps, MaxChanges, MaxPlays, MaxLaunches, MaxLines

CONSTANTS a1, a2, h1, h2, p1, p2

VARIABLES part, v1, v2, v3, v4, v5, v6, v7, v8, v9, v10, v11, v12, v13, v14, v15, v16

slots == <<v1, v2, v3, v4, v5, v6, v7, v8, v9, v10, v11, v12, v13, v14, v15, v16>>

Symmetry == Permutations({a1, a2}) \cup Permutations({h1, h2}) \cup Permutations({p1, p2})
-----------------------------------------------------------------------------
Thread == INSTANCE CommentThread WITH
    news <- v1, claimed <- v2, lapses <- v3, asked <- v4, due <- v5, planned <- v6,
    checks <- v7, hand <- v8, campaign <- v9, chat <- v10, removed <- v11, rows <- v12,
    over <- v13, moved <- v14, damage <- v15

Crowd == INSTANCE CommentThread WITH
    Writers <- {a1, a2}, MaxDepth <- 0, MaxDamage <- 0, news <- v1, claimed <- v2,
    lapses <- v3, asked <- v4, due <- v5, planned <- v6, checks <- v7, hand <- v8,
    campaign <- v9, chat <- v10, removed <- v11, rows <- v12, over <- v13, moved <- v14,
    damage <- v15

Repeat == INSTANCE CommentThread WITH
    MaxDepth <- 0, MaxDamage <- 0, MaxNews <- 2, news <- v1, claimed <- v2, lapses <- v3,
    asked <- v4, due <- v5, planned <- v6, checks <- v7, hand <- v8, campaign <- v9,
    chat <- v10, removed <- v11, rows <- v12, over <- v13, moved <- v14, damage <- v15

Births == INSTANCE OwnChannels WITH
    Tasks <- {"create", "remove", "compare", "join", "quit"}, MaxTasks <- 6, MaxSlips <- 2,
    Posts <- {1}, channel <- v1, lagging <- v2, row <- v3, listed <- v4, item <- v5,
    doer <- v6, left <- v7, astray <- v8, tasks <- v9, slips <- v10

Pins == INSTANCE OwnChannels WITH
    Channels <- {a1}, channel <- v1, lagging <- v2, row <- v3, listed <- v4, item <- v5,
    doer <- v6, left <- v7, astray <- v8, tasks <- v9, slips <- v10

Dialogs == INSTANCE OwnChannels WITH
    Tasks <- {"dialogs", "leave", "join", "quit"}, MaxTasks <- 6, MaxSlips <- 2,
    channel <- v1, lagging <- v2, row <- v3, listed <- v4, item <- v5, doer <- v6,
    left <- v7, astray <- v8, tasks <- v9, slips <- v10

Health_ == INSTANCE HealthChecks WITH
    Checkers <- {h1}, MaxAsks <- 0, session <- v1, status <- v2, events <- v3, row <- v4,
    risk <- v5, age <- v6, queue <- v7, checker <- v8, missed <- v9, torn <- v10,
    back <- v11, asks <- v12, mishaps <- v13

Checks_ == INSTANCE HealthChecks WITH
    MaxMishaps <- 0, session <- v1, status <- v2, events <- v3, row <- v4, risk <- v5,
    age <- v6, queue <- v7, checker <- v8, missed <- v9, torn <- v10, back <- v11,
    asks <- v12, mishaps <- v13

Score_ == INSTANCE HealthScore WITH
    facts <- v1, record <- v2

Plot == INSTANCE Scenarios WITH
    Offers <- {"add", "put", "activate", "patch", "delete"}, MaxPlays <- 0, MaxRoles <- 2,
    MaxSteps <- 2, MaxChanges <- 6, scens <- v1, made <- v2, active <- v3, role <- v4,
    step <- v5, link <- v6, state <- v7, editor <- v8, cues <- v9, said <- v10,
    plays <- v11, adrift <- v12, lost <- v13, late <- v14, recut <- v15, changes <- v16

Casting == INSTANCE Scenarios WITH
    Offers <- {"put", "activate", "patch", "add", "pin"}, MaxScenarios <- 2, MaxChanges <- 2,
    MaxSteps <- 2, MaxRoles <- 2, scens <- v1, made <- v2, active <- v3, role <- v4,
    step <- v5, link <- v6, state <- v7, editor <- v8, cues <- v9, said <- v10,
    plays <- v11, adrift <- v12, lost <- v13, late <- v14, recut <- v15, changes <- v16

Lines_ == INSTANCE Scenarios WITH
    Offers <- {"role", "step"}, MaxScenarios <- 1, MaxChanges <- 2, scens <- v1, made <- v2,
    active <- v3, role <- v4, step <- v5, link <- v6, state <- v7, editor <- v8, cues <- v9,
    said <- v10, plays <- v11, adrift <- v12, lost <- v13, late <- v14, recut <- v15,
    changes <- v16

Dry == INSTANCE DryRun WITH
    open <- v1, phase <- v2, pending <- v3, launches <- v4, shown <- v5, verdict <- v6,
    timer <- v7, ref <- v8, ear <- v9, request <- v10, stream <- v11, run <- v12

Again == INSTANCE DryRun WITH
    MaxLaunches <- 2, MaxLines <- 1, open <- v1, phase <- v2, pending <- v3, launches <- v4,
    shown <- v5, verdict <- v6, timer <- v7, ref <- v8, ear <- v9, request <- v10,
    stream <- v11, run <- v12

Back == INSTANCE Backfill WITH
    Pages <- {p1, p2}, Writer <- [p \in {p1, p2} |-> a1], Known <- 4, Newest <- 5,
    TooOld <- 1, MaxPosts <- 3, BatchSize <- 2, Quota <- 2, Delays <- {1},
    MaxRounds <- 2, MaxClock <- 2, clock <- v1, young <- v2, commented <- v3, asked <- v4,
    walk <- v5, plan <- v6, rounds <- v7

Sweep == INSTANCE BulkSweeps WITH
    Items <- {h1, h2}, Slots <- 2, MaxFaults <- 1, MaxRetries <- 1, MaxStories <- 2,
    Jobs <- {[kind |-> "react", refs |-> <<1, 2>>, later |-> FALSE],
             [kind |-> "view", refs |-> <<1, 1>>, later |-> FALSE],
             [kind |-> "privacy", refs |-> <<1, 2>>, later |-> FALSE],
             [kind |-> "story", refs |-> <<>>, later |-> FALSE],
             [kind |-> "story", refs |-> <<>>, later |-> TRUE]},
    job <- v1, item <- v2, account <- v3, alive <- v4, premium <- v5, badge <- v6, due <- v7,
    used <- v8, served <- v9, stories <- v10, lost <- v11, faults <- v12, retries <- v13

\* What the panel's services have in every part of the run ...
Accounts == {1, 2}
Wants == {{1}, {1, 2}}
Streams == {h1, h2}
MaxEvents == 2
MaxFalls == 1
Users == {a1, a2}
Managers == {h1, h2}
MaxMessages == 3
MaxStops == 1
Goals == {h1, h2}
TriggerActions == {"on", "off"}
Rotation == <<"on", "off">>
Waits == {1, 3}
Pause == 2
MaxFloods == 2
DailyLimit == 2
MaxClock == 2
MaxBeats == 2
NoOne == Nobody
NoManager == Nobody
NoGoal == Nobody
NoPromo == Nobody
NoEnd == Nobody
NoBuyer == Nobody
Half == [kind |-> "percent", amount |-> 50]
ForTwo == [kind |-> "fixed", amount |-> 2]

\* ... and what differs: the errands of a secret and the windows of promotions,
Service == INSTANCE ServiceProofs WITH
    Errands <- {"set_2fa", "request", "confirm", "scenario"}, MaxErrands <- 3,
    Admins <- {h1, h2}, Buyers <- {}, PromoIds <- {1, 2}, Bases <- {1}, Cuts <- {Half},
    Periods <- {1}, MaxToday <- 2, MaxRevisions <- 3, MaxPays <- 0, MaxWishes <- 0,
    telegram <- v1, asked <- v2, row <- v3, pending <- v4, bearer <- v5, stray <- v6,
    errands <- v7, hitches <- v8, news <- v1, started <- v2, gate <- v3, tap <- v4,
    heard <- v5, began <- v6, stream <- v7, subs <- v8, cache <- v9, falls <- v10,
    enabled <- v1, suited <- v2, links <- v3, able <- v4, request <- v5, bus <- v6,
    worker <- v7, joining <- v8, host <- v9, held <- v10, leaked <- v11, astray <- v12,
    edits <- v13, troubles <- v14, msgs <- v1, writing <- v2, untold <- v3, wire <- v4,
    round <- v5, sent <- v6, chat <- v7, relays <- v8, answer <- v9, inbox <- v10,
    stops <- v11, proxy <- v1, accounts <- v2, clerk <- v3, told <- v4, since <- v5,
    raced <- v6, unlimited <- v7, cutShort <- v8, orders <- v9, today <- v1, base <- v2,
    promo <- v3, life <- v4, desk <- v5, bill <- v6, clean <- v7, revisions <- v8,
    sub <- v9, wish <- v10, owed <- v11, favour <- v12, pays <- v13, wishes <- v14,
    now <- v1, acct <- v2, ticks <- v3, busy <- v4, rows <- v5, latest <- v6, good <- v7,
    cron <- v8, early <- v9, crowded <- v10, hurried <- v11, unasked <- v12, shaken <- v13,
    harm <- v14, clock <- v1, dry <- v2, account <- v3, goal <- v4, prime <- v5, beat <- v6,
    beats <- v7, log <- v8, applied <- v9

\* the errands of a profile and the prices,
Prices == INSTANCE ServiceProofs WITH
    Values <- {a1}, Admins <- {h1}, Buyers <- {a1}, PromoIds <- {1, 2}, Bases <- {1, 3},
    Cuts <- {Half, ForTwo}, Periods <- {1}, MaxToday <- 1, MaxRevisions <- 3, MaxPays <- 1,
    MaxWishes <- 0, telegram <- v1, asked <- v2, row <- v3, pending <- v4, bearer <- v5,
    stray <- v6, errands <- v7, hitches <- v8, news <- v1, started <- v2, gate <- v3,
    tap <- v4, heard <- v5, began <- v6, stream <- v7, subs <- v8, cache <- v9,
    falls <- v10, enabled <- v1, suited <- v2, links <- v3, able <- v4, request <- v5,
    bus <- v6, worker <- v7, joining <- v8, host <- v9, held <- v10, leaked <- v11,
    astray <- v12, edits <- v13, troubles <- v14, msgs <- v1, writing <- v2, untold <- v3,
    wire <- v4, round <- v5, sent <- v6, chat <- v7, relays <- v8, answer <- v9,
    inbox <- v10, stops <- v11, proxy <- v1, accounts <- v2, clerk <- v3, told <- v4,
    since <- v5, raced <- v6, unlimited <- v7, cutShort <- v8, orders <- v9, today <- v1,
    base <- v2, promo <- v3, life <- v4, desk <- v5, bill <- v6, clean <- v7,
    revisions <- v8, sub <- v9, wish <- v10, owed <- v11, favour <- v12, pays <- v13,
    wishes <- v14, now <- v1, acct <- v2, ticks <- v3, busy <- v4, rows <- v5, latest <- v6,
    good <- v7, cron <- v8, early <- v9, crowded <- v10, hurried <- v11, unasked <- v12,
    shaken <- v13, harm <- v14, clock <- v1, dry <- v2, account <- v3, goal <- v4,
    prime <- v5, beat <- v6, beats <- v7, log <- v8, applied <- v9

\* and the plans of the members.
Members == INSTANCE ServiceProofs WITH
    Admins <- {h1, h2}, Buyers <- {a1}, PromoIds <- {}, Bases <- {1}, Cuts <- {},
    Periods <- {1, 2}, MaxToday <- 4, MaxRevisions <- 0, MaxPays <- 3, MaxWishes <- 3,
    telegram <- v1, asked <- v2, row <- v3, pending <- v4, bearer <- v5, stray <- v6,
    errands <- v7, hitches <- v8, news <- v1, started <- v2, gate <- v3, tap <- v4,
    heard <- v5, began <- v6, stream <- v7, subs <- v8, cache <- v9, falls <- v10,
    enabled <- v1, suited <- v2, links <- v3, able <- v4, request <- v5, bus <- v6,
    worker <- v7, joining <- v8, host <- v9, held <- v10, leaked <- v11, astray <- v12,
    edits <- v13, troubles <- v14, msgs <- v1, writing <- v2, untold <- v3, wire <- v4,
    round <- v5, sent <- v6, chat <- v7, relays <- v8, answer <- v9, inbox <- v10,
    stops <- v11, proxy <- v1, accounts <- v2, clerk <- v3, told <- v4, since <- v5,
    raced <- v6, unlimited <- v7, cutShort <- v8, orders <- v9, today <- v1, base <- v2,
    promo <- v3, life <- v4, desk <- v5, bill <- v6, clean <- v7, revisions <- v8,
    sub <- v9, wish <- v10, owed <- v11, favour <- v12, pays <- v13, wishes <- v14,
    now <- v1, acct <- v2, ticks <- v3, busy <- v4, rows <- v5, latest <- v6, good <- v7,
    cron <- v8, early <- v9, crowded <- v10, hurried <- v11, unasked <- v12, shaken <- v13,
    harm <- v14, clock <- v1, dry <- v2, account <- v3, goal <- v4, prime <- v5, beat <- v6,
    beats <- v7, log <- v8, applied <- v9

\* What the modules assume of their constants.
ASSUME PanelAssumption ==
    /\ Thread!ThreadAssumption
    /\ Crowd!ThreadAssumption
    /\ Repeat!ThreadAssumption
    /\ Service!PostListenerAssumption
    /\ Service!WarmingAssumption
    /\ Service!IntakeAssumption
    /\ Prices!MirrorAssumption
    /\ Service!MirrorAssumption
    /\ Births!OwnAssumption
    /\ Pins!OwnAssumption
    /\ Dialogs!OwnAssumption
    /\ Health_!HealthAssumption
    /\ Checks_!HealthAssumption
    /\ Score_!ScoreAssumption
    /\ Plot!ScenariosAssumption
    /\ Casting!ScenariosAssumption
    /\ Lines_!ScenariosAssumption
    /\ Dry!DryRunAssumption
    /\ Again!DryRunAssumption
    /\ Service!SalesAssumption
    /\ Prices!SalesAssumption
    /\ Members!SalesAssumption
    /\ Service!EventHubAssumption
    /\ Service!SupportDeskAssumption
    /\ Back!BackfillAssumption
    /\ Sweep!BulkSweepsAssumption
    /\ Service!TriggersAssumption
-----------------------------------------------------------------------------
\* The variables a module does not have.
Spare == 0

PanelInit ==
    \/ /\ part = "thread" /\ Thread!ThreadInit
       /\ v16 = Spare
    \/ /\ part = "crowd" /\ Crowd!ThreadInit
       /\ v16 = Spare
    \/ /\ part = "repeat" /\ Repeat!ThreadInit
       /\ v16 = Spare
    \/ /\ part = "post" /\ Service!PostInit
       /\ v15 = Spare /\ v16 = Spare
    \/ /\ part = "warm" /\ Service!WarmInit
       /\ v15 = Spare /\ v16 = Spare
    \/ /\ part = "intake" /\ Service!IntakeInit
       /\ v10 = Spare /\ v11 = Spare /\ v12 = Spare /\ v13 = Spare /\ v14 = Spare /\ v15 = Spare
       /\ v16 = Spare
    \/ /\ part = "looks" /\ Prices!MirrorInit
       /\ v9 = Spare /\ v10 = Spare /\ v11 = Spare /\ v12 = Spare /\ v13 = Spare /\ v14 = Spare
       /\ v15 = Spare /\ v16 = Spare
    \/ /\ part = "secret" /\ Service!MirrorInit
       /\ v9 = Spare /\ v10 = Spare /\ v11 = Spare /\ v12 = Spare /\ v13 = Spare /\ v14 = Spare
       /\ v15 = Spare /\ v16 = Spare
    \/ /\ part = "births" /\ Births!OwnInit
       /\ v11 = Spare /\ v12 = Spare /\ v13 = Spare /\ v14 = Spare /\ v15 = Spare /\ v16 = Spare
    \/ /\ part = "pins" /\ Pins!OwnInit
       /\ v11 = Spare /\ v12 = Spare /\ v13 = Spare /\ v14 = Spare /\ v15 = Spare /\ v16 = Spare
    \/ /\ part = "dialogs" /\ Dialogs!OwnInit
       /\ v11 = Spare /\ v12 = Spare /\ v13 = Spare /\ v14 = Spare /\ v15 = Spare /\ v16 = Spare
    \/ /\ part = "health" /\ Health_!HealthInit
       /\ v14 = Spare /\ v15 = Spare /\ v16 = Spare
    \/ /\ part = "checks" /\ Checks_!HealthInit
       /\ v14 = Spare /\ v15 = Spare /\ v16 = Spare
    \/ /\ part = "score" /\ Score_!ScoreInit
       /\ v3 = Spare /\ v4 = Spare /\ v5 = Spare /\ v6 = Spare /\ v7 = Spare /\ v8 = Spare
       /\ v9 = Spare /\ v10 = Spare /\ v11 = Spare /\ v12 = Spare /\ v13 = Spare /\ v14 = Spare
       /\ v15 = Spare /\ v16 = Spare
    \/ /\ part = "plot" /\ Plot!ScenariosInit
    \/ /\ part = "casting" /\ Casting!ScenariosInit
    \/ /\ part = "lines" /\ Lines_!ScenariosInit
    \/ /\ part = "dry" /\ Dry!DryRunInit
       /\ v13 = Spare /\ v14 = Spare /\ v15 = Spare /\ v16 = Spare
    \/ /\ part = "again" /\ Again!DryRunInit
       /\ v13 = Spare /\ v14 = Spare /\ v15 = Spare /\ v16 = Spare
    \/ /\ part = "windows" /\ Service!SalesInit
       /\ v15 = Spare /\ v16 = Spare
    \/ /\ part = "prices" /\ Prices!SalesInit
       /\ v15 = Spare /\ v16 = Spare
    \/ /\ part = "members" /\ Members!SalesInit
       /\ v15 = Spare /\ v16 = Spare
    \/ /\ part = "hub" /\ Service!HubInit
       /\ v11 = Spare /\ v12 = Spare /\ v13 = Spare /\ v14 = Spare /\ v15 = Spare /\ v16 = Spare
    \/ /\ part = "desk" /\ Service!DeskInit
       /\ v12 = Spare /\ v13 = Spare /\ v14 = Spare /\ v15 = Spare /\ v16 = Spare
    \/ /\ part = "back" /\ Back!BackInit
       /\ v8 = Spare /\ v9 = Spare /\ v10 = Spare /\ v11 = Spare /\ v12 = Spare /\ v13 = Spare
       /\ v14 = Spare /\ v15 = Spare /\ v16 = Spare
    \/ /\ part = "sweep" /\ Sweep!SweepInit
       /\ v14 = Spare /\ v15 = Spare /\ v16 = Spare
    \/ /\ part = "trigger" /\ Service!TriggerInit
       /\ v10 = Spare /\ v11 = Spare /\ v12 = Spare /\ v13 = Spare /\ v14 = Spare /\ v15 = Spare
       /\ v16 = Spare

\* The parts by what they are about, which a state is asked first.
CommentsParts == {"thread", "crowd", "repeat", "back"}
ListenersParts == {"post", "hub", "desk"}
ActivityParts == {"warm", "trigger"}
EntitlementsParts == {"intake", "windows", "prices", "members"}
MirrorParts == {"looks", "secret"}
ChannelsParts == {"births", "pins", "dialogs", "sweep"}
HealthParts == {"health", "checks", "score"}
ScenariosParts == {"plot", "casting", "lines", "dry", "again"}

CommentsNext ==
    \/ part = "thread" /\ Thread!ThreadNext /\ UNCHANGED v16
    \/ part = "crowd" /\ Crowd!ThreadNext /\ UNCHANGED v16
    \/ part = "repeat" /\ Repeat!ThreadNext /\ UNCHANGED v16
    \/ part = "back" /\ Back!BackNext /\ UNCHANGED <<v8, v9, v10, v11, v12, v13, v14, v15, v16>>

ListenersNext ==
    \/ part = "post" /\ Service!PostNext /\ UNCHANGED <<v15, v16>>
    \/ part = "hub" /\ Service!HubNext /\ UNCHANGED <<v11, v12, v13, v14, v15, v16>>
    \/ part = "desk" /\ Service!DeskNext /\ UNCHANGED <<v12, v13, v14, v15, v16>>

ActivityNext ==
    \/ part = "warm" /\ Service!WarmNext /\ UNCHANGED <<v15, v16>>
    \/ /\ part = "trigger" /\ Service!TriggerNext
       /\ UNCHANGED <<v10, v11, v12, v13, v14, v15, v16>>

EntitlementsNext ==
    \/ part = "intake" /\ Service!IntakeNext /\ UNCHANGED <<v10, v11, v12, v13, v14, v15, v16>>
    \/ part = "windows" /\ Service!SalesNext /\ UNCHANGED <<v15, v16>>
    \/ part = "prices" /\ Prices!SalesNext /\ UNCHANGED <<v15, v16>>
    \/ part = "members" /\ Members!SalesNext /\ UNCHANGED <<v15, v16>>

MirrorNext ==
    \/ /\ part = "looks" /\ Prices!MirrorNext
       /\ UNCHANGED <<v9, v10, v11, v12, v13, v14, v15, v16>>
    \/ /\ part = "secret" /\ Service!MirrorNext
       /\ UNCHANGED <<v9, v10, v11, v12, v13, v14, v15, v16>>

ChannelsNext ==
    \/ part = "births" /\ Births!OwnNext /\ UNCHANGED <<v11, v12, v13, v14, v15, v16>>
    \/ part = "pins" /\ Pins!OwnNext /\ UNCHANGED <<v11, v12, v13, v14, v15, v16>>
    \/ part = "dialogs" /\ Dialogs!OwnNext /\ UNCHANGED <<v11, v12, v13, v14, v15, v16>>
    \/ part = "sweep" /\ Sweep!SweepNext /\ UNCHANGED <<v14, v15, v16>>

HealthNext ==
    \/ part = "health" /\ Health_!HealthNext /\ UNCHANGED <<v14, v15, v16>>
    \/ part = "checks" /\ Checks_!HealthNext /\ UNCHANGED <<v14, v15, v16>>
    \/ /\ part = "score" /\ Score_!ScoreNext
       /\ UNCHANGED <<v3, v4, v5, v6, v7, v8, v9, v10, v11, v12, v13, v14, v15, v16>>

ScenariosNext ==
    \/ part = "plot" /\ Plot!ScenariosNext
    \/ part = "casting" /\ Casting!ScenariosNext
    \/ part = "lines" /\ Lines_!ScenariosNext
    \/ part = "dry" /\ Dry!DryRunNext /\ UNCHANGED <<v13, v14, v15, v16>>
    \/ part = "again" /\ Again!DryRunNext /\ UNCHANGED <<v13, v14, v15, v16>>

PanelNext ==
    /\ UNCHANGED part
    /\ \/ part \in CommentsParts /\ CommentsNext
       \/ part \in ListenersParts /\ ListenersNext
       \/ part \in ActivityParts /\ ActivityNext
       \/ part \in EntitlementsParts /\ EntitlementsNext
       \/ part \in MirrorParts /\ MirrorNext
       \/ part \in ChannelsParts /\ ChannelsNext
       \/ part \in HealthParts /\ HealthNext
       \/ part \in ScenariosParts /\ ScenariosNext

PanelSpec == PanelInit /\ [][PanelNext]_<<part, slots>>
-----------------------------------------------------------------------------
\* The state of each module is well formed.
PanelTypeOK ==
    /\ part \in CommentsParts =>
          /\ part = "thread" => Thread!ThreadTypeOK
          /\ part = "crowd" => Crowd!ThreadTypeOK
          /\ part = "repeat" => Repeat!ThreadTypeOK
          /\ part = "back" => Back!BackTypeOK
    /\ part \in ListenersParts =>
          /\ part = "post" => Service!PostTypeOK
          /\ part = "hub" => Service!HubTypeOK
          /\ part = "desk" => Service!DeskTypeOK
    /\ part \in ActivityParts =>
          /\ part = "warm" => Service!WarmTypeOK
          /\ part = "trigger" => Service!TriggerTypeOK
    /\ part \in EntitlementsParts =>
          /\ part = "intake" => Service!IntakeTypeOK
          /\ part = "windows" => Service!SalesTypeOK
          /\ part = "prices" => Prices!SalesTypeOK
          /\ part = "members" => Members!SalesTypeOK
    /\ part \in MirrorParts =>
          /\ part = "looks" => Prices!MirrorTypeOK
          /\ part = "secret" => Service!MirrorTypeOK
    /\ part \in ChannelsParts =>
          /\ part = "births" => Births!OwnTypeOK
          /\ part = "pins" => Pins!OwnTypeOK
          /\ part = "dialogs" => Dialogs!OwnTypeOK
          /\ part = "sweep" => Sweep!SweepTypeOK
    /\ part \in HealthParts =>
          /\ part = "health" => Health_!HealthTypeOK
          /\ part = "checks" => Checks_!HealthTypeOK
          /\ part = "score" => Score_!ScoreTypeOK
    /\ part \in ScenariosParts =>
          /\ part = "plot" => Plot!ScenariosTypeOK
          /\ part = "casting" => Casting!ScenariosTypeOK
          /\ part = "lines" => Lines_!ScenariosTypeOK
          /\ part = "dry" => Dry!DryRunTypeOK
          /\ part = "again" => Again!DryRunTypeOK

(* The properties, each stated and explained in its module *)

\* runner.py, verify.py, backfill.py: planned comments are kept, said once, spread, within the
\* quota, and flagged only if removed.
CommentsKept ==
    part \in CommentsParts =>
          /\ part = "thread" => Thread!ThreadKept
          /\ part = "crowd" => Crowd!ThreadKept
          /\ part = "repeat" => Repeat!ThreadKept
          /\ part = "back" => Back!BackfillKept

\* registry.py, api/services/events.py, notifier.py: who listens is told what it asked for,
\* each thing once, and nobody else is.
ListenersKept ==
    part \in ListenersParts =>
          /\ part = "post" => Service!ListenerFollows
          /\ part = "hub" => Service!StreamsKept
          /\ part = "desk" => Service!DeskKept

\* tasks/warming.py: nobody is forgotten, hurried or pooled before its time;
\* executor.py: the log of a prime says what was done, and in which turn.
ActivityKept ==
    part \in ActivityParts =>
          /\ part = "warm" => Service!WarmingKept
          /\ part = "trigger" => Service!TriggersKept

\* api/services, health.py: limits, free proxies and the news of dead ones;
\* promotions.py, subscription.py: prices and plans are what was agreed and paid for.
EntitlementsKept ==
    part \in EntitlementsParts =>
          /\ part = "intake" => Service!IntakeKept
          /\ part = "windows" => Service!SalesKept
          /\ part = "prices" => Prices!SalesKept
          /\ part = "members" => Members!SalesKept

\* worker/profiles, bulk/actions, security.py: the row says what Telegram has.
MirrorKept ==
    part \in MirrorParts =>
          /\ part = "looks" => Prices!MirrorKept
          /\ part = "secret" => Service!MirrorKept

\* create_channel, manage_channel_post, dialogs.py: rows and lists say what Telegram has;
\* bulk/actions: so do the results of a bulk item.
ChannelsKept ==
    part \in ChannelsParts =>
          /\ part = "births" => Births!ChannelsKept
          /\ part = "pins" => Pins!ChannelsKept
          /\ part = "dialogs" => Dialogs!ChannelsKept
          /\ part = "sweep" => Sweep!SweepsKept

\* tasks/health.py, monitor.py, health_score.py: checks come, and tell what they found.
HealthKept ==
    part \in HealthParts =>
          /\ part = "health" => Health_!HealthKept
          /\ part = "checks" => Checks_!HealthKept
          /\ part = "score" => Score_!WorseIsWorse

\* shilling/api, dry_run.py: a campaign plays one scenario of its own, whole, each role in one voice.
ScenariosKept ==
    part \in ScenariosParts =>
          /\ part = "plot" => Plot!ScenariosKept
          /\ part = "casting" => Casting!ScenariosKept
          /\ part = "lines" => Lines_!ScenariosKept
          /\ part = "dry" => Dry!LaunchRunOnce /\ Dry!TimelineWhole /\ Dry!WaitsForOne
          /\ part = "again" => Again!LaunchRunOnce /\ Again!TimelineWhole /\ Again!WaitsForOne
=============================================================================
