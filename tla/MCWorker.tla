------------------------------ MODULE MCWorker ------------------------------
(***************************************************************************)
(* The modules of the worker, for one run of TLC.  A behaviour is one of   *)
(* the module that part names: the modules share no state, what one takes  *)
(* from another is a choice in its own model (the governor's answer in     *)
(* CommentDelivery and Shilling), so nothing is lost by looking at them    *)
(* one at a time, and their state spaces add up instead of multiplying.    *)
(* v1, v2, ... are the variables of whichever module it is; a definition   *)
(* below says of the same definition of that module that it holds.         *)
(*                                                                         *)
(* The modules are taken from those that hold their proofs, which extend   *)
(* them, so that WorkerProofs can cite the lemmas.                         *)
(*                                                                         *)
(* In Worker.cfg the sets of a module that are alike in it, and no others  *)
(* of that module, are of the same model values t1, t2 and t3, which keeps *)
(* the symmetry group small.                                               *)
(***************************************************************************)
EXTENDS Integers, FiniteSets, TLC

CONSTANTS
    Accounts, Users, Clients, MaxMishaps, NULL, Senders, Windows, Limit, MaxDeaths, Owners,
    Messages, Posts, Slots, MaxComments, Pause, MaxTime, MaxTold, MaxHarm, Refs, Folders,
    Inside, Subscribed, MaxRows, MaxEdits, MaxLosses, Channels, MaxChanges, MaxIncidents,
    NoChannel, Primers, Goals, Loops, DailyLimit, RampLimit, MaxFloods, MaxLinks, MaxTicks,
    MaxFaults, NoOne, Actors, Parts, Lines, PartOf, Chats, Stages, MaxDialogs, MaxEdits_,
    MaxMishaps_, NoPart, Polls, Batch, MaxPosts, MaxCuts, Jobs, Derived, People, Requests_,
    MaxCommands, MaxMisfits, Fleet, GoalRows, MaxActions, MaxTouches, MaxBreaks, Sessions,
    MaxCodes, MaxKeys, MaxRequests, MaxTries_, MaxTrouble, Bots, Replies, MaxReplies,
    MaxTurns, MaxUpsets, Persons_, Wants, Enough_, Overscan, MaxRead, Sites, Limits_, Depth,
    MaxSeeds, MaxNews

CONSTANTS p1, p2, t1, t2, t3, w1, w2, m1

VARIABLES part, v1, v2, v3, v4, v5, v6, v7, v8, v9, v10, v11, v12, v13, v14, v15, v16, v17, v18

slots == <<v1, v2, v3, v4, v5, v6, v7, v8, v9, v10, v11, v12, v13, v14, v15, v16, v17, v18>>

TwoParts == <<p1, p2>>
OnePart == <<p1, p1>>
Limits == <<2, 3>>
ThreeGoals == <<[owner |-> "x", type |-> "maintain_pool_size", target |-> 2],
                [owner |-> "x", type |-> "keep_low_risk", target |-> 3],
                [owner |-> "y", type |-> "warmup_pipeline", target |-> 2]>>
Symmetry == Permutations({t1, t2, t3})
-----------------------------------------------------------------------------
Traffic == INSTANCE TrafficProofs WITH
    count <- v1, expires <- v2, sender <- v3, deaths <- v4, told <- v1, asked <- v2,
    claim <- v3, due <- v4, slot <- v5, mark <- v6, linked <- v7, clock <- v8,
    sent <- v9, posted <- v10, over <- v11, harm <- v12, campaign <- v1, link <- v2,
    goal <- v3, ticks <- v4, loop <- v5, primes <- v6, running <- v7, api <- v8,
    hung <- v9, runs <- v10, left <- v11, jammed <- v12, linked_ <- v13, faults <- v14,
    MaxMishaps_ <- 0, show <- v1, cast <- v2, unfit <- v3, openings <- v4, visits <- v5,
    cues <- v6, subs <- v7, stage <- v8, flops <- v9, shunned <- v10, dialogs <- v11,
    said <- v12, voices <- v13, recast <- v14, edits_ <- v15, mishaps_ <- v16,
    managed <- v1, conn <- v2, lock <- v3, user <- v4, lost <- v5, twice <- v6,
    overdrawn <- v7, mishaps <- v8, closed <- v9, rows <- v1, on <- v2, mode <- v3,
    links <- v4, standing <- v5, syncs <- v6, reading <- v7, planned <- v8, resolves <- v9,
    scans <- v10, edits <- v11, harms <- v12, strays <- v13, removed <- v14, drift <- v15,
    status <- v1, tries <- v2, planning <- v3, rejoining <- v4, telling <- v5, refused <- v6,
    removing <- v7, events <- v8, attaching <- v9, heard <- v10, eligible <- v11,
    phase <- v12, changes <- v13, incidents <- v14, astray <- v15, newest <- v1,
    active <- v2, cursor <- v3, poll <- v4, replies <- v5, archive <- v6, crowded <- v7,
    overlap <- v8, cuts <- v9

Mishaps == INSTANCE TrafficProofs WITH
    count <- v1, expires <- v2, sender <- v3, deaths <- v4, told <- v1, asked <- v2,
    claim <- v3, due <- v4, slot <- v5, mark <- v6, linked <- v7, clock <- v8,
    sent <- v9, posted <- v10, over <- v11, harm <- v12, campaign <- v1, link <- v2,
    goal <- v3, ticks <- v4, loop <- v5, primes <- v6, running <- v7, api <- v8,
    hung <- v9, runs <- v10, left <- v11, jammed <- v12, linked_ <- v13, faults <- v14,
    Actors <- {t1, t2}, Parts <- {p1}, PartOf <- OnePart, MaxEdits_ <- 3, show <- v1,
    cast <- v2, unfit <- v3, openings <- v4, visits <- v5, cues <- v6, subs <- v7,
    stage <- v8, flops <- v9, shunned <- v10, dialogs <- v11, said <- v12,
    voices <- v13, recast <- v14, edits_ <- v15, mishaps_ <- v16,
    managed <- v1, conn <- v2, lock <- v3, user <- v4, lost <- v5, twice <- v6,
    overdrawn <- v7, mishaps <- v8, closed <- v9, rows <- v1, on <- v2, mode <- v3,
    links <- v4, standing <- v5, syncs <- v6, reading <- v7, planned <- v8, resolves <- v9,
    scans <- v10, edits <- v11, harms <- v12, strays <- v13, removed <- v14, drift <- v15,
    status <- v1, tries <- v2, planning <- v3, rejoining <- v4, telling <- v5, refused <- v6,
    removing <- v7, events <- v8, attaching <- v9, heard <- v10, eligible <- v11,
    phase <- v12, changes <- v13, incidents <- v14, astray <- v15, newest <- v1,
    active <- v2, cursor <- v3, poll <- v4, replies <- v5, archive <- v6, crowded <- v7,
    overlap <- v8, cuts <- v9

Background == INSTANCE BackgroundProofs WITH
    status_ <- v1, control <- v2, at <- v3, found <- v4, list_ <- v5, request <- v6,
    commands <- v7, misfits <- v8, lost <- v9, late <- v10, blurred <- v11, kind_ <- v1,
    goal <- v2, strict <- v3, looks <- v4, stage <- v5, times <- v6, faces <- v7,
    counted <- v8, tally <- v9, read <- v10, ended <- v11, result <- v12, task <- v1,
    limit <- v2, nature <- v3, spot <- v4, seeds <- v5, candidates <- v6,
    frontier <- v7, next_ <- v8, level <- v9, links <- v10, tried <- v11,
    failed_ <- v12, news <- v13, found_ <- v14, asked <- v15, passed <- v16,
    behind <- v17, status <- v1, risk <- v2, slow <- v3, enabled <- v4, dropped <- v5,
    todo <- v6, acting <- v7, open <- v8, busy <- v9, quota <- v10, started <- v11,
    made <- v12, booked <- v13, touches <- v14, breaks <- v15

Session == INSTANCE SessionProofs WITH
    acct <- v1, hash <- v2, stored <- v3, client <- v4, queue <- v5, task <- v6,
    key <- v7, codes <- v8, used <- v9, word <- v10, listed <- v11, swept <- v12,
    blurred <- v13, asked <- v14, troubles <- v15, status <- v1, answers <- v2,
    linked <- v3, telling <- v4, events <- v5, phase <- v6, attaching <- v7,
    heard <- v8, talk <- v9, answered <- v10, counter <- v11, expires <- v12,
    passed <- v13, tasks <- v14, astray <- v15, missing <- v16, turns <- v17,
    upsets <- v18

\* One reply, and more requests.
Restarts == INSTANCE SessionProofs WITH
    Replies <- {m1}, MaxTurns <- 3, acct <- v1, hash <- v2, stored <- v3, client <- v4,
    queue <- v5, task <- v6, key <- v7, codes <- v8, used <- v9, word <- v10, listed <- v11,
    swept <- v12, blurred <- v13, asked <- v14, troubles <- v15, status <- v1,
    answers <- v2, linked <- v3, telling <- v4, events <- v5, phase <- v6, attaching <- v7,
    heard <- v8, talk <- v9, answered <- v10, counter <- v11, expires <- v12, passed <- v13,
    tasks <- v14, astray <- v15, missing <- v16, turns <- v17, upsets <- v18

\* What the modules assume of their constants.
ASSUME WorkerAssumption ==
    /\ Traffic!PoolAssumption
    /\ Traffic!GovernorAssumption
    /\ Traffic!DeliveryAssumption
    /\ Traffic!SyncAssumption
    /\ Traffic!ListenersAssumption
    /\ Traffic!PrimingAssumption
    /\ Traffic!ShillingAssumption
    /\ Mishaps!ShillingAssumption
    /\ Traffic!MonitorAssumption
    /\ Background!ParsingAssumption
    /\ Background!AutopilotAssumption
    /\ Session!LoginAssumption
    /\ Session!LiveAssumption
    /\ Restarts!LiveAssumption
    /\ Background!CollectorsAssumption
    /\ Background!DiscoveryAssumption
-----------------------------------------------------------------------------
\* The variables a module does not have.
Spare == 0

WorkerInit ==
    \/ /\ part = "pool" /\ Traffic!PoolInit
       /\ v10 = Spare /\ v11 = Spare /\ v12 = Spare /\ v13 = Spare /\ v14 = Spare /\ v15 = Spare
       /\ v16 = Spare /\ v17 = Spare /\ v18 = Spare
    \/ /\ part = "governor" /\ Traffic!GovInit
       /\ v5 = Spare /\ v6 = Spare /\ v7 = Spare /\ v8 = Spare /\ v9 = Spare /\ v10 = Spare
       /\ v11 = Spare /\ v12 = Spare /\ v13 = Spare /\ v14 = Spare /\ v15 = Spare /\ v16 = Spare
       /\ v17 = Spare /\ v18 = Spare
    \/ /\ part = "delivery" /\ Traffic!DelInit
       /\ v13 = Spare /\ v14 = Spare /\ v15 = Spare /\ v16 = Spare /\ v17 = Spare /\ v18 = Spare
    \/ /\ part = "sync" /\ Traffic!SyncInit
       /\ v16 = Spare /\ v17 = Spare /\ v18 = Spare
    \/ /\ part = "listeners" /\ Traffic!ListenersInit
       /\ v16 = Spare /\ v17 = Spare /\ v18 = Spare
    \/ /\ part = "priming" /\ Traffic!PrimeInit
       /\ v15 = Spare /\ v16 = Spare /\ v17 = Spare /\ v18 = Spare
    \/ /\ part = "shilling" /\ Traffic!ShillInit
       /\ v17 = Spare /\ v18 = Spare
    \/ /\ part = "mishaps" /\ Mishaps!ShillInit
       /\ v17 = Spare /\ v18 = Spare
    \/ /\ part = "monitor" /\ Traffic!MonInit
       /\ v10 = Spare /\ v11 = Spare /\ v12 = Spare /\ v13 = Spare /\ v14 = Spare /\ v15 = Spare
       /\ v16 = Spare /\ v17 = Spare /\ v18 = Spare
    \/ /\ part = "parsing" /\ Background!ParInit
       /\ v12 = Spare /\ v13 = Spare /\ v14 = Spare /\ v15 = Spare /\ v16 = Spare /\ v17 = Spare
       /\ v18 = Spare
    \/ /\ part = "autopilot" /\ Background!AutopilotInit
       /\ v16 = Spare /\ v17 = Spare /\ v18 = Spare
    \/ /\ part = "login" /\ Session!LoginInit
       /\ v16 = Spare /\ v17 = Spare /\ v18 = Spare
    \/ /\ part = "live" /\ Session!LiveInit
    \/ /\ part = "restarts" /\ Restarts!LiveInit
    \/ /\ part = "collectors" /\ Background!CollectInit
       /\ v13 = Spare /\ v14 = Spare /\ v15 = Spare /\ v16 = Spare /\ v17 = Spare /\ v18 = Spare
    \/ /\ part = "discovery" /\ Background!DiscInit
       /\ v18 = Spare

\* The parts by what they are about, which a state is asked first.
ClientParts == {"pool", "governor", "login"}
CommentingParts == {"delivery", "sync", "listeners", "monitor"}
ShillingParts == {"priming", "shilling", "mishaps", "live", "restarts"}
SearchParts == {"parsing", "collectors", "discovery", "autopilot"}

ClientNext ==
    \/ /\ part = "pool" /\ Traffic!PoolNext
       /\ UNCHANGED <<v10, v11, v12, v13, v14, v15, v16, v17, v18>>
    \/ /\ part = "governor" /\ Traffic!GovNext
       /\ UNCHANGED <<v5, v6, v7, v8, v9, v10, v11, v12, v13, v14, v15, v16, v17, v18>>
    \/ part = "login" /\ Session!LoginNext /\ UNCHANGED <<v16, v17, v18>>

CommentingNext ==
    \/ part = "delivery" /\ Traffic!DelNext /\ UNCHANGED <<v13, v14, v15, v16, v17, v18>>
    \/ part = "sync" /\ Traffic!SyncNext /\ UNCHANGED <<v16, v17, v18>>
    \/ part = "listeners" /\ Traffic!ListenersNext /\ UNCHANGED <<v16, v17, v18>>
    \/ /\ part = "monitor" /\ Traffic!MonNext
       /\ UNCHANGED <<v10, v11, v12, v13, v14, v15, v16, v17, v18>>

ShillingNext ==
    \/ part = "priming" /\ Traffic!PrimeNext /\ UNCHANGED <<v15, v16, v17, v18>>
    \/ part = "shilling" /\ Traffic!ShillNext /\ UNCHANGED <<v17, v18>>
    \/ part = "mishaps" /\ Mishaps!ShillNext /\ UNCHANGED <<v17, v18>>
    \/ part = "live" /\ Session!LiveNext
    \/ part = "restarts" /\ Restarts!LiveNext

SearchNext ==
    \/ part = "parsing" /\ Background!ParNext /\ UNCHANGED <<v12, v13, v14, v15, v16, v17, v18>>
    \/ /\ part = "collectors" /\ Background!CollectNext
       /\ UNCHANGED <<v13, v14, v15, v16, v17, v18>>
    \/ part = "discovery" /\ Background!DiscNext /\ UNCHANGED <<v18>>
    \/ part = "autopilot" /\ Background!AutopilotNext /\ UNCHANGED <<v16, v17, v18>>

WorkerNext ==
    /\ UNCHANGED part
    /\ \/ part \in ClientParts /\ ClientNext
       \/ part \in CommentingParts /\ CommentingNext
       \/ part \in ShillingParts /\ ShillingNext
       \/ part \in SearchParts /\ SearchNext

WorkerSpec == WorkerInit /\ [][WorkerNext]_<<part, slots>>
-----------------------------------------------------------------------------
\* The state of each module is well formed.
WorkerTypeOK ==
    /\ part \in ClientParts =>
          /\ part = "pool" => Traffic!PoolTypeOK
          /\ part = "governor" => Traffic!GovTypeOK
          /\ part = "login" => Session!LoginTypeOK
    /\ part \in CommentingParts =>
          /\ part = "delivery" => Traffic!DelTypeOK
          /\ part = "sync" => Traffic!SyncTypeOK
          /\ part = "listeners" => Traffic!ListenersTypeOK
          /\ part = "monitor" => Traffic!MonTypeOK
    /\ part \in ShillingParts =>
          /\ part = "priming" => Traffic!PrimeTypeOK
          /\ part = "shilling" => Traffic!ShillTypeOK
          /\ part = "mishaps" => Mishaps!ShillTypeOK
          /\ part = "live" => Session!LiveTypeOK
          /\ part = "restarts" => Restarts!LiveTypeOK
    /\ part \in SearchParts =>
          /\ part = "parsing" => Background!ParTypeOK
          /\ part = "collectors" => Background!CollectTypeOK
          /\ part = "discovery" => Background!DiscTypeOK
          /\ part = "autopilot" => Background!AutopilotTypeOK

(* The properties, each stated and explained in its module *)

\* governor.py: a window is exceeded by less than the senders, and its counter expires.
LimitsHold == part = "governor" => Traffic!LimitsHold

\* runner.py: an account answers a message once, in its pace; an announced one is not lost silently.
DeliveryKept == part = "delivery" => Traffic!OneCommentPerMessage /\ Traffic!NothingDropped /\ Traffic!PaceKept

\* channels.py: a pending row has its task; after the last sync the rows are those wanted.
RowsSettle == part = "sync" => Traffic!PendingHasTask /\ Traffic!SyncSettles

\* registry.py: working rows have handlers, others do not.
HandlersFollowRows == part = "listeners" => Traffic!HandlersFollowRows

\* priming: a target is primed once; a running campaign goes on, and lets go of what it took.
PrimingKept == part = "priming" => Traffic!ContactedOnce /\ Traffic!NothingStranded

\* shilling: no line is said twice, nobody plays two parts in one dialog.
DialogKept ==
    /\ part = "shilling" => Traffic!DialogKept
    /\ part = "mishaps" => Mishaps!DialogKept

\* monitor: the cursor passes over no post, and none gets a second dialog.
EachPostOnce == part = "monitor" => Traffic!EachPostOnce

\* parsing: active jobs have their tasks, counts are rows; collectors lose nobody, and stop in time.
ParsingKept ==
    /\ part = "parsing" => Background!ActiveJobHasTask /\ Background!CountIsRows
    /\ part = "collectors" => Background!EverybodyAccounted /\ Background!NoMoreThanAsked /\ Background!AsManyAsAsked
    /\ part = "discovery" => Background!ResultsBounded /\ Background!AskedOnce /\ Background!NothingPassedOver /\ Background!LinksAccounted

\* planner.py, autopilot.py: starts bounded by the neediest goal, a broken tick owes one entry.
TickHonest == part = "autopilot" => Background!StartsBounded /\ Background!JournalComplete

\* flow.py: the stored session fits the row, the word published last is true.
LoginHonest == part = "login" => Session!SessionFits /\ Session!WordTrue

\* live_interception.py: no more answers than allowed, none after a stop.
RepliesKept ==
    /\ part = "live" => Session!StoppedIsSilent /\ Session!RepliesBounded
    /\ part = "restarts" => Restarts!StoppedIsSilent /\ Restarts!RepliesBounded

\* pool.py: the client pool implements the shared client (ClientPool's PoolIsShared), step by step.
PoolIsShared ==
    /\ part = "pool" => Traffic!Shared!SharedInit
    /\ [][part = "pool" => Traffic!Shared!SharedNext]_(Traffic!Shared!sharedVars)
=============================================================================
