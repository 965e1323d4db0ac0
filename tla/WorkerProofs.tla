---------------------------- MODULE WorkerProofs ----------------------------
(***************************************************************************)
(* What the proofs of the worker's modules say of MCWorker, which runs     *)
(* them one at a time: the invariants of the run, for any values of the    *)
(* constants that WorkerAssumption admits.  Each ...Safe is the inductive  *)
(* invariant of one module, for the behaviours that are of that module.    *)
(***************************************************************************)
EXTENDS MCWorker, TLAPS

-----------------------------------------------------------------------------
PoolSafe == part = "pool" => Traffic!IInv
PoolHolds == part = "pool" => Traffic!PoolTypeOK

\* ClientPool: its invariant is one of the run.
LEMMA PoolStays == WorkerSpec => [](PoolSafe /\ PoolHolds)
<1>1. WorkerInit => PoolSafe
  BY WorkerAssumption, Traffic!InitIInv DEF WorkerInit, PoolSafe
<1>2. PoolSafe /\ [WorkerNext]_<<part, slots>> => PoolSafe'
  <2>1. ASSUME PoolSafe, [WorkerNext]_<<part, slots>>, part' = "pool"
        PROVE  part = "pool" /\ Traffic!IInv /\ [Traffic!PoolNext]_(Traffic!poolVars)
    BY <2>1 DEF PoolSafe, WorkerNext, ClientNext, CommentingNext, ShillingNext, SearchNext,
       slots, Traffic!poolVars
  <2> QED
    BY <2>1, Traffic!NextKeeps, WorkerAssumption DEF PoolSafe
<1>3. PoolSafe => PoolHolds
  BY DEF PoolSafe, PoolHolds, Traffic!IInv
<1> QED
  BY <1>1, <1>2, <1>3, PTL DEF WorkerSpec
-----------------------------------------------------------------------------
\* worker/client_pool/pool.py:69-137: every step of the pool, over the variables it has in the
\* run, is a step of the shared client or changes nothing of it.
THEOREM WorkerPoolIsShared == WorkerSpec => PoolIsShared
<1>1. WorkerInit => (part = "pool" => Traffic!Shared!SharedInit)
  BY WorkerAssumption, Traffic!InitIInv DEF WorkerInit
<1>2. PoolSafe /\ [WorkerNext]_<<part, slots>>
        => [part = "pool" => Traffic!Shared!SharedNext]_(Traffic!Shared!sharedVars)
  <2> SUFFICES ASSUME PoolSafe, [WorkerNext]_<<part, slots>>, part = "pool"
               PROVE  [Traffic!Shared!SharedNext]_(Traffic!Shared!sharedVars)
    OBVIOUS
  <2>1. Traffic!IInv /\ [Traffic!PoolNext]_(Traffic!poolVars)
    BY DEF PoolSafe, WorkerNext, ClientNext, CommentingNext, ShillingNext, SearchNext,
       slots, Traffic!poolVars
  <2> QED
    BY <2>1, Traffic!NextKeeps, WorkerAssumption
<1> QED
  BY <1>1, <1>2, PoolStays, PTL DEF WorkerSpec, PoolIsShared
-----------------------------------------------------------------------------
GovSafe == part = "governor" => Traffic!GovInv
GovHolds == part = "governor" => Traffic!GovTypeOK /\ Traffic!LimitsHold

\* Governor: its invariant is one of the run.
LEMMA GovStays == WorkerSpec => [](GovSafe /\ GovHolds)
<1>1. WorkerInit => GovSafe
  BY WorkerAssumption, Traffic!GovStarts DEF WorkerInit, GovSafe
<1>2. GovSafe /\ [WorkerNext]_<<part, slots>> => GovSafe'
  <2>1. ASSUME GovSafe, [WorkerNext]_<<part, slots>>, part' = "governor"
        PROVE  part = "governor" /\ Traffic!GovInv /\ [Traffic!GovNext]_(Traffic!govVars)
    BY <2>1 DEF GovSafe, WorkerNext, ClientNext, CommentingNext, ShillingNext, SearchNext,
       slots, Traffic!govVars
  <2> QED
    BY <2>1, Traffic!GovKeeps, WorkerAssumption DEF GovSafe
<1>3. GovSafe => GovHolds
  BY DEF GovSafe, GovHolds, Traffic!GovInv
<1> QED
  BY <1>1, <1>2, <1>3, PTL DEF WorkerSpec
-----------------------------------------------------------------------------
DeliverySafe == part = "delivery" => Traffic!DeliveryInv
DeliveryHolds ==
    part = "delivery" =>
        Traffic!DelTypeOK /\ Traffic!OneCommentPerMessage /\ Traffic!NothingDropped /\ Traffic!PaceKept

\* CommentDelivery: its invariant is one of the run.
LEMMA DeliveryStays == WorkerSpec => [](DeliverySafe /\ DeliveryHolds)
<1>1. WorkerInit => DeliverySafe
  BY WorkerAssumption, Traffic!DeliveryInit DEF WorkerInit, DeliverySafe
<1>2. DeliverySafe /\ [WorkerNext]_<<part, slots>> => DeliverySafe'
  <2>1. ASSUME DeliverySafe, [WorkerNext]_<<part, slots>>, part' = "delivery"
        PROVE  part = "delivery" /\ Traffic!DeliveryInv /\ [Traffic!DelNext]_(Traffic!delVars)
    BY <2>1 DEF DeliverySafe, WorkerNext, ClientNext, CommentingNext, ShillingNext, SearchNext,
       slots, Traffic!delVars
  <2> QED
    BY <2>1, Traffic!DeliveryKeeps, WorkerAssumption DEF DeliverySafe
<1>3. DeliverySafe => DeliveryHolds
  BY WorkerAssumption, Traffic!DeliveryHolds DEF DeliverySafe, DeliveryHolds, Traffic!DeliveryInv
<1> QED
  BY <1>1, <1>2, <1>3, PTL DEF WorkerSpec
-----------------------------------------------------------------------------
SyncSafe == part = "sync" => Traffic!RowsInv
SyncHolds ==
    part = "sync" =>
        Traffic!SyncTypeOK /\ Traffic!PendingHasTask /\ Traffic!SyncSettles

\* ChannelSync: its invariant is one of the run.
LEMMA SyncStays == WorkerSpec => [](SyncSafe /\ SyncHolds)
<1>1. WorkerInit => SyncSafe
  BY WorkerAssumption, Traffic!SyncStart DEF WorkerInit, SyncSafe
<1>2. SyncSafe /\ [WorkerNext]_<<part, slots>> => SyncSafe'
  <2>1. ASSUME SyncSafe, [WorkerNext]_<<part, slots>>, part' = "sync"
        PROVE  part = "sync" /\ Traffic!RowsInv /\ [Traffic!SyncNext]_(Traffic!syncVars)
    BY <2>1 DEF SyncSafe, WorkerNext, ClientNext, CommentingNext, ShillingNext, SearchNext,
       slots, Traffic!syncVars
  <2> QED
    BY <2>1, Traffic!RowsInvKeeps, WorkerAssumption DEF SyncSafe
<1>3. SyncSafe => SyncHolds
  BY Traffic!RowsHold DEF SyncSafe, SyncHolds
<1> QED
  BY <1>1, <1>2, <1>3, PTL DEF WorkerSpec
-----------------------------------------------------------------------------
ListenersSafe == part = "listeners" => Traffic!ListenersInv
ListenersHolds == part = "listeners" => Traffic!ListenersTypeOK /\ Traffic!HandlersFollowRows

\* ChannelListeners: its invariant is one of the run.
LEMMA ListenersStays == WorkerSpec => [](ListenersSafe /\ ListenersHolds)
<1>1. WorkerInit => ListenersSafe
  BY WorkerAssumption, Traffic!ListenersStart DEF WorkerInit, ListenersSafe
<1>2. ListenersSafe /\ [WorkerNext]_<<part, slots>> => ListenersSafe'
  <2>1. ASSUME ListenersSafe, [WorkerNext]_<<part, slots>>, part' = "listeners"
        PROVE  part = "listeners" /\ Traffic!ListenersInv /\ [Traffic!ListenersNext]_(Traffic!lisVars)
    BY <2>1 DEF ListenersSafe, WorkerNext, ClientNext, CommentingNext, ShillingNext, SearchNext,
       slots, Traffic!lisVars
  <2> QED
    BY <2>1, Traffic!ListenersKeeps, WorkerAssumption DEF ListenersSafe
<1>3. ListenersSafe => ListenersHolds
  BY WorkerAssumption, Traffic!ListenersHold DEF ListenersSafe, ListenersHolds
<1> QED
  BY <1>1, <1>2, <1>3, PTL DEF WorkerSpec
-----------------------------------------------------------------------------
PrimingSafe == part = "priming" => Traffic!PrimeInv
PrimingHolds ==
    part = "priming" =>
        Traffic!PrimeTypeOK /\ Traffic!ContactedOnce /\ Traffic!NothingStranded

\* Priming: its invariant is one of the run.
LEMMA PrimingStays == WorkerSpec => [](PrimingSafe /\ PrimingHolds)
<1>1. WorkerInit => PrimingSafe
  BY WorkerAssumption, Traffic!PrimingInit DEF WorkerInit, PrimingSafe
<1>2. PrimingSafe /\ [WorkerNext]_<<part, slots>> => PrimingSafe'
  <2>1. ASSUME PrimingSafe, [WorkerNext]_<<part, slots>>, part' = "priming"
        PROVE  part = "priming" /\ Traffic!PrimeInv /\ [Traffic!PrimeNext]_(Traffic!primeVars)
    BY <2>1 DEF PrimingSafe, WorkerNext, ClientNext, CommentingNext, ShillingNext, SearchNext,
       slots, Traffic!primeVars
  <2> QED
    BY <2>1, Traffic!PrimingKeeps, WorkerAssumption DEF PrimingSafe
<1>3. PrimingSafe => PrimingHolds
  BY WorkerAssumption, Traffic!PrimingHolds DEF PrimingSafe, PrimingHolds, Traffic!PrimeInv
<1> QED
  BY <1>1, <1>2, <1>3, PTL DEF WorkerSpec
-----------------------------------------------------------------------------
ShillSafe == part = "shilling" => Traffic!ShillInv
ShillHolds == part = "shilling" => Traffic!ShillTypeOK /\ Traffic!DialogKept

\* Shilling: its invariant is one of the run.
LEMMA ShillStays == WorkerSpec => [](ShillSafe /\ ShillHolds)
<1>1. WorkerInit => ShillSafe
  BY WorkerAssumption, Traffic!ShillBegins DEF WorkerInit, ShillSafe
<1>2. ShillSafe /\ [WorkerNext]_<<part, slots>> => ShillSafe'
  <2>1. ASSUME ShillSafe, [WorkerNext]_<<part, slots>>, part' = "shilling"
        PROVE  part = "shilling" /\ Traffic!ShillInv /\ [Traffic!ShillNext]_(Traffic!shillVars)
    BY <2>1 DEF ShillSafe, WorkerNext, ClientNext, CommentingNext, ShillingNext, SearchNext,
       slots, Traffic!shillVars
  <2> QED
    BY <2>1, Traffic!ShillKeeps, WorkerAssumption DEF ShillSafe
<1>3. ShillSafe => ShillHolds
  BY WorkerAssumption, Traffic!ShillHolds DEF ShillSafe, ShillHolds
<1> QED
  BY <1>1, <1>2, <1>3, PTL DEF WorkerSpec
-----------------------------------------------------------------------------
MishapSafe == part = "mishaps" => Mishaps!ShillInv
MishapHolds == part = "mishaps" => Mishaps!ShillTypeOK /\ Mishaps!DialogKept

\* Shilling: its invariant is one of the run.
LEMMA MishapStays == WorkerSpec => [](MishapSafe /\ MishapHolds)
<1>1. WorkerInit => MishapSafe
  BY WorkerAssumption, Mishaps!ShillBegins DEF WorkerInit, MishapSafe
<1>2. MishapSafe /\ [WorkerNext]_<<part, slots>> => MishapSafe'
  <2>1. ASSUME MishapSafe, [WorkerNext]_<<part, slots>>, part' = "mishaps"
        PROVE  part = "mishaps" /\ Mishaps!ShillInv /\ [Mishaps!ShillNext]_(Mishaps!shillVars)
    BY <2>1 DEF MishapSafe, WorkerNext, ClientNext, CommentingNext, ShillingNext, SearchNext,
       slots, Mishaps!shillVars
  <2> QED
    BY <2>1, Mishaps!ShillKeeps, WorkerAssumption DEF MishapSafe
<1>3. MishapSafe => MishapHolds
  BY WorkerAssumption, Mishaps!ShillHolds DEF MishapSafe, MishapHolds
<1> QED
  BY <1>1, <1>2, <1>3, PTL DEF WorkerSpec
-----------------------------------------------------------------------------
MonitorSafe == part = "monitor" => Traffic!MonitorInv
MonitorHolds == part = "monitor" => Traffic!MonTypeOK /\ Traffic!EachPostOnce

\* PostMonitor: its invariant is one of the run.
LEMMA MonitorStays == WorkerSpec => [](MonitorSafe /\ MonitorHolds)
<1>1. WorkerInit => MonitorSafe
  BY WorkerAssumption, Traffic!MonitorStarts DEF WorkerInit, MonitorSafe
<1>2. MonitorSafe /\ [WorkerNext]_<<part, slots>> => MonitorSafe'
  <2>1. ASSUME MonitorSafe, [WorkerNext]_<<part, slots>>, part' = "monitor"
        PROVE  part = "monitor" /\ Traffic!MonitorInv /\ [Traffic!MonNext]_(Traffic!monVars)
    BY <2>1 DEF MonitorSafe, WorkerNext, ClientNext, CommentingNext, ShillingNext, SearchNext,
       slots, Traffic!monVars
  <2> QED
    BY <2>1, Traffic!MonitorKeeps, WorkerAssumption DEF MonitorSafe
<1>3. MonitorSafe => MonitorHolds
  BY DEF MonitorSafe, MonitorHolds, Traffic!MonitorInv
<1> QED
  BY <1>1, <1>2, <1>3, PTL DEF WorkerSpec
-----------------------------------------------------------------------------
ParsingSafe == part = "parsing" => Background!ParInv
ParsingHolds ==
    part = "parsing" =>
        Background!ParTypeOK /\ Background!ActiveJobHasTask /\ Background!CountIsRows

\* Parsing: its invariant is one of the run.
LEMMA ParsingStays == WorkerSpec => [](ParsingSafe /\ ParsingHolds)
<1>1. WorkerInit => ParsingSafe
  BY WorkerAssumption, Background!ParInitFits DEF WorkerInit, ParsingSafe
<1>2. ParsingSafe /\ [WorkerNext]_<<part, slots>> => ParsingSafe'
  <2>1. ASSUME ParsingSafe, [WorkerNext]_<<part, slots>>, part' = "parsing"
        PROVE  part = "parsing" /\ Background!ParInv /\ [Background!ParNext]_(Background!parVars)
    BY <2>1 DEF ParsingSafe, WorkerNext, ClientNext, CommentingNext, ShillingNext, SearchNext,
       slots, Background!parVars
  <2> QED
    BY <2>1, Background!ParInvKeeps, WorkerAssumption DEF ParsingSafe
<1>3. ParsingSafe => ParsingHolds
  BY DEF ParsingSafe, ParsingHolds, Background!ParInv, Background!JobsFit, Background!ListsFit
<1> QED
  BY <1>1, <1>2, <1>3, PTL DEF WorkerSpec
-----------------------------------------------------------------------------
PilotSafe == part = "autopilot" => Background!AutopilotInv
PilotHolds ==
    part = "autopilot" =>
        Background!AutopilotTypeOK /\ Background!StartsBounded /\ Background!JournalComplete

\* Autopilot: its invariant is one of the run.
LEMMA PilotStays == WorkerSpec => [](PilotSafe /\ PilotHolds)
<1>1. WorkerInit => PilotSafe
  BY WorkerAssumption, Background!PilotStart DEF WorkerInit, PilotSafe
<1>2. PilotSafe /\ [WorkerNext]_<<part, slots>> => PilotSafe'
  <2>1. ASSUME PilotSafe, [WorkerNext]_<<part, slots>>, part' = "autopilot"
        PROVE  part = "autopilot" /\ Background!AutopilotInv /\ [Background!AutopilotNext]_(Background!autopilotVars)
    BY <2>1 DEF PilotSafe, WorkerNext, ClientNext, CommentingNext, ShillingNext, SearchNext,
       slots, Background!autopilotVars
  <2> QED
    BY <2>1, Background!PilotKeeps, WorkerAssumption DEF PilotSafe
<1>3. PilotSafe => PilotHolds
  BY WorkerAssumption, Background!PilotHolds DEF PilotSafe, PilotHolds
<1> QED
  BY <1>1, <1>2, <1>3, PTL DEF WorkerSpec
-----------------------------------------------------------------------------
LoginSafe == part = "login" => Session!LoginInv
LoginHolds ==
    part = "login" =>
        Session!LoginTypeOK /\ Session!SessionFits /\ Session!WordTrue

\* Login: its invariant is one of the run.
LEMMA LoginStays == WorkerSpec => [](LoginSafe /\ LoginHolds)
<1>1. WorkerInit => LoginSafe
  BY WorkerAssumption, Session!LoginInitFits DEF WorkerInit, LoginSafe
<1>2. LoginSafe /\ [WorkerNext]_<<part, slots>> => LoginSafe'
  <2>1. ASSUME LoginSafe, [WorkerNext]_<<part, slots>>, part' = "login"
        PROVE  part = "login" /\ Session!LoginInv /\ [Session!LoginNext]_(Session!loginVars)
    BY <2>1 DEF LoginSafe, WorkerNext, ClientNext, CommentingNext, ShillingNext, SearchNext,
       slots, Session!loginVars
  <2> QED
    BY <2>1, Session!LoginInvKeeps, WorkerAssumption DEF LoginSafe
<1>3. LoginSafe => LoginHolds
  BY WorkerAssumption, Session!LoginInvHolds DEF LoginSafe, LoginHolds
<1> QED
  BY <1>1, <1>2, <1>3, PTL DEF WorkerSpec
-----------------------------------------------------------------------------
LiveSafe == part = "live" => Session!LiveInv
LiveHolds ==
    part = "live" =>
        Session!LiveTypeOK /\ Session!StoppedIsSilent /\ Session!RepliesBounded

\* LiveReplies: its invariant is one of the run.
LEMMA LiveStays == WorkerSpec => [](LiveSafe /\ LiveHolds)
<1>1. WorkerInit => LiveSafe
  BY WorkerAssumption, Session!LiveStart DEF WorkerInit, LiveSafe
<1>2. LiveSafe /\ [WorkerNext]_<<part, slots>> => LiveSafe'
  <2>1. ASSUME LiveSafe, [WorkerNext]_<<part, slots>>, part' = "live"
        PROVE  part = "live" /\ Session!LiveInv /\ [Session!LiveNext]_(Session!liveVars)
    BY <2>1 DEF LiveSafe, WorkerNext, ClientNext, CommentingNext, ShillingNext, SearchNext,
       slots, Session!liveVars
  <2> QED
    BY <2>1, Session!LiveKeeps, WorkerAssumption DEF LiveSafe
<1>3. LiveSafe => LiveHolds
  BY WorkerAssumption, Session!LiveHolds DEF LiveSafe, LiveHolds
<1> QED
  BY <1>1, <1>2, <1>3, PTL DEF WorkerSpec
-----------------------------------------------------------------------------
RestartsSafe == part = "restarts" => Restarts!LiveInv
RestartsHolds ==
    part = "restarts" =>
        Restarts!LiveTypeOK /\ Restarts!StoppedIsSilent /\ Restarts!RepliesBounded

\* LiveReplies with more turns and one reply: its invariant is one of the run.
LEMMA RestartsStays == WorkerSpec => [](RestartsSafe /\ RestartsHolds)
<1>1. WorkerInit => RestartsSafe
  BY WorkerAssumption, Restarts!LiveStart DEF WorkerInit, RestartsSafe
<1>2. RestartsSafe /\ [WorkerNext]_<<part, slots>> => RestartsSafe'
  <2>1. ASSUME RestartsSafe, [WorkerNext]_<<part, slots>>, part' = "restarts"
        PROVE  part = "restarts" /\ Restarts!LiveInv /\ [Restarts!LiveNext]_(Restarts!liveVars)
    BY <2>1 DEF RestartsSafe, WorkerNext, ClientNext, CommentingNext, ShillingNext, SearchNext,
       slots, Restarts!liveVars
  <2> QED
    BY <2>1, Restarts!LiveKeeps, WorkerAssumption DEF RestartsSafe
<1>3. RestartsSafe => RestartsHolds
  BY WorkerAssumption, Restarts!LiveHolds DEF RestartsSafe, RestartsHolds
<1> QED
  BY <1>1, <1>2, <1>3, PTL DEF WorkerSpec
-----------------------------------------------------------------------------
CollectSafe == part = "collectors" => Background!CollectInv
CollectHolds ==
    part = "collectors" =>
        Background!CollectTypeOK /\ Background!EverybodyAccounted /\ Background!NoMoreThanAsked /\ Background!AsManyAsAsked

\* Collectors: its invariant is one of the run.
LEMMA CollectStays == WorkerSpec => [](CollectSafe /\ CollectHolds)
<1>1. WorkerInit => CollectSafe
  BY WorkerAssumption, Background!CollectBegins DEF WorkerInit, CollectSafe
<1>2. CollectSafe /\ [WorkerNext]_<<part, slots>> => CollectSafe'
  <2>1. ASSUME CollectSafe, [WorkerNext]_<<part, slots>>, part' = "collectors"
        PROVE  part = "collectors" /\ Background!CollectInv /\ [Background!CollectNext]_(Background!collectVars)
    BY <2>1 DEF CollectSafe, WorkerNext, ClientNext, CommentingNext, ShillingNext, SearchNext,
       slots, Background!collectVars
  <2> QED
    BY <2>1, Background!CollectKeeps, WorkerAssumption DEF CollectSafe
<1>3. CollectSafe => CollectHolds
  BY WorkerAssumption, Background!CollectHolds DEF CollectSafe, CollectHolds
<1> QED
  BY <1>1, <1>2, <1>3, PTL DEF WorkerSpec
-----------------------------------------------------------------------------
DiscSafe == part = "discovery" => Background!DiscInv
DiscHolds ==
    part = "discovery" =>
        Background!DiscTypeOK /\ Background!ResultsBounded /\ Background!AskedOnce /\ Background!NothingPassedOver /\ Background!LinksAccounted

\* Discovery: its invariant is one of the run.
LEMMA DiscStays == WorkerSpec => [](DiscSafe /\ DiscHolds)
<1>1. WorkerInit => DiscSafe
  BY WorkerAssumption, Background!DiscStarts DEF WorkerInit, DiscSafe
<1>2. DiscSafe /\ [WorkerNext]_<<part, slots>> => DiscSafe'
  <2>1. ASSUME DiscSafe, [WorkerNext]_<<part, slots>>, part' = "discovery"
        PROVE  part = "discovery" /\ Background!DiscInv /\ [Background!DiscNext]_(Background!discVars)
    BY <2>1 DEF DiscSafe, WorkerNext, ClientNext, CommentingNext, ShillingNext, SearchNext,
       slots, Background!discVars
  <2> QED
    BY <2>1, Background!DiscKeeps, WorkerAssumption DEF DiscSafe
<1>3. DiscSafe => DiscHolds
  BY WorkerAssumption, Background!DiscHolds DEF DiscSafe, DiscHolds
<1> QED
  BY <1>1, <1>2, <1>3, PTL DEF WorkerSpec
-----------------------------------------------------------------------------
\* Whatever module runs, its state is well formed.
THEOREM WorkerTypes == WorkerSpec => []WorkerTypeOK
<1>1. /\ PoolHolds /\ GovHolds /\ DeliveryHolds /\ SyncHolds /\ ListenersHolds
      /\ PrimingHolds /\ ShillHolds /\ MishapHolds /\ MonitorHolds /\ ParsingHolds
      /\ PilotHolds /\ LoginHolds /\ LiveHolds /\ RestartsHolds /\ CollectHolds /\ DiscHolds
      => WorkerTypeOK
  BY DEF WorkerTypeOK, PoolHolds, GovHolds, DeliveryHolds, SyncHolds, ListenersHolds,
     PrimingHolds, ShillHolds, MishapHolds, MonitorHolds, ParsingHolds, PilotHolds, LoginHolds,
     LiveHolds, RestartsHolds, CollectHolds, DiscHolds
<1> QED
  BY <1>1, PoolStays, GovStays, DeliveryStays, SyncStays, ListenersStays, PrimingStays,
     ShillStays, MishapStays, MonitorStays, ParsingStays, PilotStays, LoginStays, LiveStays,
     RestartsStays, CollectStays, DiscStays, PTL
-----------------------------------------------------------------------------
\* worker/health/governor.py:60-83: however many tasks ask at once and whichever of them die, a
\* window of the governor is exceeded by fewer than the tasks that ask, and a counter that nobody
\* is making expires.
THEOREM WorkerLimits == WorkerSpec => []LimitsHold
<1>1. GovHolds => LimitsHold
  BY DEF LimitsHold, GovHolds
<1> QED
  BY <1>1, GovStays, PTL
-----------------------------------------------------------------------------
\* modules/commenting/worker/runner.py: a message is answered once and not lost silently, in the
\* pace of the campaign, through every interleaving of the tasks that carry it.
THEOREM WorkerDelivery == WorkerSpec => []DeliveryKept
<1>1. DeliveryHolds => DeliveryKept
  BY DEF DeliveryKept, DeliveryHolds
<1> QED
  BY <1>1, DeliveryStays, PTL
-----------------------------------------------------------------------------
\* modules/priming/worker: a target is contacted once, and a running campaign strands nothing.
THEOREM WorkerPriming == WorkerSpec => []PrimingKept
<1>1. PrimingHolds => PrimingKept
  BY DEF PrimingKept, PrimingHolds
<1> QED
  BY <1>1, PrimingStays, PTL
-----------------------------------------------------------------------------
\* modules/commenting/worker/channels.py: pending rows have their task, settled ones are wanted.
THEOREM WorkerRows == WorkerSpec => []RowsSettle
<1>1. SyncHolds => RowsSettle
  BY DEF RowsSettle, SyncHolds
<1> QED
  BY <1>1, SyncStays, PTL
-----------------------------------------------------------------------------
\* modules/commenting/worker/registry.py: the handlers of a worker that is up follow the rows.
THEOREM WorkerHandlers == WorkerSpec => []HandlersFollowRows
<1>1. ListenersHolds => HandlersFollowRows
  BY DEF HandlersFollowRows, ListenersHolds
<1> QED
  BY <1>1, ListenersStays, PTL
-----------------------------------------------------------------------------
\* modules/shilling/worker/orchestrator.py:611-650: the cursor passes over no post, and polls one
\* after the other give none a second dialog.
THEOREM WorkerPosts == WorkerSpec => []EachPostOnce
<1>1. MonitorHolds => EachPostOnce
  BY DEF EachPostOnce, MonitorHolds
<1> QED
  BY <1>1, MonitorStays, PTL
-----------------------------------------------------------------------------
\* modules/shilling/worker: no line of a dialog is said twice, and nobody plays two parts in one.
THEOREM WorkerDialogs == WorkerSpec => []DialogKept
<1>1. ShillHolds /\ MishapHolds => DialogKept
  BY DEF DialogKept, ShillHolds, MishapHolds
<1> QED
  BY <1>1, ShillStays, MishapStays, PTL
-----------------------------------------------------------------------------
\* modules/parsing: active jobs have their tasks and count their rows; the collectors lose nobody
\* silently, stop in time and ask nobody twice.
THEOREM WorkerParsing == WorkerSpec => []ParsingKept
<1>1. ParsingHolds /\ CollectHolds /\ DiscHolds => ParsingKept
  BY DEF ParsingKept, ParsingHolds, CollectHolds, DiscHolds
<1> QED
  BY <1>1, ParsingStays, CollectStays, DiscStays, PTL
-----------------------------------------------------------------------------
\* modules/autopilot: a tick starts no more accounts than the neediest goal lacks, and what it
\* did is in the journal, but for the entry it was at when it broke.
THEOREM WorkerTicks == WorkerSpec => []TickHonest
<1>1. PilotHolds => TickHonest
  BY DEF TickHonest, PilotHolds
<1> QED
  BY <1>1, PilotStays, PTL
-----------------------------------------------------------------------------
\* worker/login/flow.py: the stored session fits the row, and the word published last is true.
THEOREM WorkerLogins == WorkerSpec => []LoginHonest
<1>1. LoginHolds => LoginHonest
  BY DEF LoginHonest, LoginHolds
<1> QED
  BY <1>1, LoginStays, PTL
-----------------------------------------------------------------------------
\* live_interception.py: no more answers to a talk than it may have, and none after a stop.
THEOREM WorkerReplies == WorkerSpec => []RepliesKept
<1>1. LiveHolds /\ RestartsHolds => RepliesKept
  BY DEF RepliesKept, LiveHolds, RestartsHolds
<1> QED
  BY <1>1, LiveStays, RestartsStays, PTL
=============================================================================
