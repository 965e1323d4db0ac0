---------------------------- MODULE PanelProofs -----------------------------
(***************************************************************************)
(* What the proofs of the panel's modules say of MCPanel, which runs them  *)
(* one at a time: invariants of the run, for any values of the constants   *)
(* that PanelAssumption admits.  Each ...Safe is the inductive invariant   *)
(* of one module, for the behaviours that are of that part of the run, and *)
(* each ...Fine what it implies.                                           *)
(***************************************************************************)
EXTENDS MCPanel, TLAPS

-----------------------------------------------------------------------------
PostSafe == part = "post" => Service!PostInv
PostFine == part = "post" => Service!PostTypeOK /\ Service!ListenerFollows

\* PostListener: its invariant is one of the run.
LEMMA PostStays == PanelSpec => [](PostSafe /\ PostFine)
<1>1. PanelInit => PostSafe
  BY PanelAssumption, Service!PostInitInv DEF PanelInit, PostSafe
<1>2. PostSafe /\ [PanelNext]_<<part, slots>> => PostSafe'
  <2>1. ASSUME PostSafe, [PanelNext]_<<part, slots>>, part' = "post"
        PROVE  part = "post" /\ Service!PostInv /\ [Service!PostNext]_(Service!postVars)
    BY <2>1 DEF PostSafe, PanelNext, CommentsNext, ListenersNext, ActivityNext,
       EntitlementsNext, MirrorNext, ChannelsNext, HealthNext, ScenariosNext,
       slots, Service!postVars
  <2> QED
    BY <2>1, PanelAssumption, Service!PostStep DEF PostSafe
<1>3. PostSafe => PostFine
  BY PanelAssumption, Service!PostHolds DEF PostSafe, PostFine
<1> QED
  BY <1>1, <1>2, <1>3, PTL DEF PanelSpec
-----------------------------------------------------------------------------
HubSafe == part = "hub" => Service!HubInv
HubFine == part = "hub" => Service!HubTypeOK /\ Service!StreamsKept

\* EventHub: its invariant is one of the run.
LEMMA HubStays == PanelSpec => [](HubSafe /\ HubFine)
<1>1. PanelInit => HubSafe
  BY PanelAssumption, Service!HubInitInv DEF PanelInit, HubSafe
<1>2. HubSafe /\ [PanelNext]_<<part, slots>> => HubSafe'
  <2>1. ASSUME HubSafe, [PanelNext]_<<part, slots>>, part' = "hub"
        PROVE  part = "hub" /\ Service!HubInv /\ [Service!HubNext]_(Service!hubVars)
    BY <2>1 DEF HubSafe, PanelNext, CommentsNext, ListenersNext, ActivityNext,
       EntitlementsNext, MirrorNext, ChannelsNext, HealthNext, ScenariosNext,
       slots, Service!hubVars
  <2> QED
    BY <2>1, PanelAssumption, Service!HubStep DEF HubSafe
<1>3. HubSafe => HubFine
  BY PanelAssumption, Service!HubHolds DEF HubSafe, HubFine
<1> QED
  BY <1>1, <1>2, <1>3, PTL DEF PanelSpec
-----------------------------------------------------------------------------
DeskSafe == part = "desk" => Service!DeskInv
DeskFine == part = "desk" => Service!DeskTypeOK /\ Service!DeskKept

\* SupportDesk: its invariant is one of the run.
LEMMA DeskStays == PanelSpec => [](DeskSafe /\ DeskFine)
<1>1. PanelInit => DeskSafe
  BY PanelAssumption, Service!DeskInitInv DEF PanelInit, DeskSafe
<1>2. DeskSafe /\ [PanelNext]_<<part, slots>> => DeskSafe'
  <2>1. ASSUME DeskSafe, [PanelNext]_<<part, slots>>, part' = "desk"
        PROVE  part = "desk" /\ Service!DeskInv /\ [Service!DeskNext]_(Service!deskVars)
    BY <2>1 DEF DeskSafe, PanelNext, CommentsNext, ListenersNext, ActivityNext,
       EntitlementsNext, MirrorNext, ChannelsNext, HealthNext, ScenariosNext,
       slots, Service!deskVars
  <2> QED
    BY <2>1, PanelAssumption, Service!DeskStep DEF DeskSafe
<1>3. DeskSafe => DeskFine
  BY PanelAssumption, Service!DeskHolds DEF DeskSafe, DeskFine
<1> QED
  BY <1>1, <1>2, <1>3, PTL DEF PanelSpec
-----------------------------------------------------------------------------
IntakeSafe == part = "intake" => Service!IntakeInv
IntakeFine == part = "intake" => Service!IntakeTypeOK /\ Service!IntakeKept

\* Intake: its invariant is one of the run.
LEMMA IntakeStays == PanelSpec => [](IntakeSafe /\ IntakeFine)
<1>1. PanelInit => IntakeSafe
  BY PanelAssumption, Service!IntakeInitInv DEF PanelInit, IntakeSafe
<1>2. IntakeSafe /\ [PanelNext]_<<part, slots>> => IntakeSafe'
  <2>1. ASSUME IntakeSafe, [PanelNext]_<<part, slots>>, part' = "intake"
        PROVE  part = "intake" /\ Service!IntakeInv /\ [Service!IntakeNext]_(Service!intakeVars)
    BY <2>1 DEF IntakeSafe, PanelNext, CommentsNext, ListenersNext, ActivityNext,
       EntitlementsNext, MirrorNext, ChannelsNext, HealthNext, ScenariosNext,
       slots, Service!intakeVars
  <2> QED
    BY <2>1, PanelAssumption, Service!IntakeStep DEF IntakeSafe
<1>3. IntakeSafe => IntakeFine
  BY PanelAssumption, Service!IntakeHolds DEF IntakeSafe, IntakeFine
<1> QED
  BY <1>1, <1>2, <1>3, PTL DEF PanelSpec
-----------------------------------------------------------------------------
WindowsSafe == part = "windows" => Service!SalesInv
WindowsFine == part = "windows" => Service!SalesTypeOK /\ Service!SalesKept

\* Sales, two admins and their windows: its invariant is one of the run.
LEMMA WindowsStays == PanelSpec => [](WindowsSafe /\ WindowsFine)
<1>1. PanelInit => WindowsSafe
  BY PanelAssumption, Service!SalesInitInv DEF PanelInit, WindowsSafe
<1>2. WindowsSafe /\ [PanelNext]_<<part, slots>> => WindowsSafe'
  <2>1. ASSUME WindowsSafe, [PanelNext]_<<part, slots>>, part' = "windows"
        PROVE  part = "windows" /\ Service!SalesInv /\ [Service!SalesNext]_(Service!salesVars)
    BY <2>1 DEF WindowsSafe, PanelNext, CommentsNext, ListenersNext, ActivityNext,
       EntitlementsNext, MirrorNext, ChannelsNext, HealthNext, ScenariosNext,
       slots, Service!salesVars
  <2> QED
    BY <2>1, PanelAssumption, Service!SalesStep DEF WindowsSafe
<1>3. WindowsSafe => WindowsFine
  BY PanelAssumption, Service!SalesHolds DEF WindowsSafe, WindowsFine
<1> QED
  BY <1>1, <1>2, <1>3, PTL DEF PanelSpec
-----------------------------------------------------------------------------
PricesSafe == part = "prices" => Prices!SalesInv
PricesFine == part = "prices" => Prices!SalesTypeOK /\ Prices!SalesKept

\* Sales, a buyer and the prices: its invariant is one of the run.
LEMMA PricesStays == PanelSpec => [](PricesSafe /\ PricesFine)
<1>1. PanelInit => PricesSafe
  BY PanelAssumption, Prices!SalesInitInv DEF PanelInit, PricesSafe
<1>2. PricesSafe /\ [PanelNext]_<<part, slots>> => PricesSafe'
  <2>1. ASSUME PricesSafe, [PanelNext]_<<part, slots>>, part' = "prices"
        PROVE  part = "prices" /\ Prices!SalesInv /\ [Prices!SalesNext]_(Prices!salesVars)
    BY <2>1 DEF PricesSafe, PanelNext, CommentsNext, ListenersNext, ActivityNext,
       EntitlementsNext, MirrorNext, ChannelsNext, HealthNext, ScenariosNext,
       slots, Prices!salesVars
  <2> QED
    BY <2>1, PanelAssumption, Prices!SalesStep DEF PricesSafe
<1>3. PricesSafe => PricesFine
  BY PanelAssumption, Prices!SalesHolds DEF PricesSafe, PricesFine
<1> QED
  BY <1>1, <1>2, <1>3, PTL DEF PanelSpec
-----------------------------------------------------------------------------
MembersSafe == part = "members" => Members!SalesInv
MembersFine == part = "members" => Members!SalesTypeOK /\ Members!SalesKept

\* Sales, the plans of the members: its invariant is one of the run.
LEMMA MembersStays == PanelSpec => [](MembersSafe /\ MembersFine)
<1>1. PanelInit => MembersSafe
  BY PanelAssumption, Members!SalesInitInv DEF PanelInit, MembersSafe
<1>2. MembersSafe /\ [PanelNext]_<<part, slots>> => MembersSafe'
  <2>1. ASSUME MembersSafe, [PanelNext]_<<part, slots>>, part' = "members"
        PROVE  part = "members" /\ Members!SalesInv /\ [Members!SalesNext]_(Members!salesVars)
    BY <2>1 DEF MembersSafe, PanelNext, CommentsNext, ListenersNext, ActivityNext,
       EntitlementsNext, MirrorNext, ChannelsNext, HealthNext, ScenariosNext,
       slots, Members!salesVars
  <2> QED
    BY <2>1, PanelAssumption, Members!SalesStep DEF MembersSafe
<1>3. MembersSafe => MembersFine
  BY PanelAssumption, Members!SalesHolds DEF MembersSafe, MembersFine
<1> QED
  BY <1>1, <1>2, <1>3, PTL DEF PanelSpec
-----------------------------------------------------------------------------
LooksSafe == part = "looks" => Prices!MirrorInv
LooksFine == part = "looks" => Prices!MirrorTypeOK /\ Prices!MirrorKept

\* ProfileMirror, the errands of a profile: its invariant is one of the run.
LEMMA LooksStays == PanelSpec => [](LooksSafe /\ LooksFine)
<1>1. PanelInit => LooksSafe
  BY PanelAssumption, Prices!MirrorInitInv DEF PanelInit, LooksSafe
<1>2. LooksSafe /\ [PanelNext]_<<part, slots>> => LooksSafe'
  <2>1. ASSUME LooksSafe, [PanelNext]_<<part, slots>>, part' = "looks"
        PROVE  part = "looks" /\ Prices!MirrorInv /\ [Prices!MirrorNext]_(Prices!mirrorVars)
    BY <2>1 DEF LooksSafe, PanelNext, CommentsNext, ListenersNext, ActivityNext,
       EntitlementsNext, MirrorNext, ChannelsNext, HealthNext, ScenariosNext,
       slots, Prices!mirrorVars
  <2> QED
    BY <2>1, PanelAssumption, Prices!MirrorInvKeeps DEF LooksSafe
<1>3. LooksSafe => LooksFine
  BY PanelAssumption, Prices!MirrorHolds DEF LooksSafe, LooksFine
<1> QED
  BY <1>1, <1>2, <1>3, PTL DEF PanelSpec
-----------------------------------------------------------------------------
SecretSafe == part = "secret" => Service!MirrorInv
SecretFine == part = "secret" => Service!MirrorTypeOK /\ Service!MirrorKept

\* ProfileMirror, the errands of a secret: its invariant is one of the run.
LEMMA SecretStays == PanelSpec => [](SecretSafe /\ SecretFine)
<1>1. PanelInit => SecretSafe
  BY PanelAssumption, Service!MirrorInitInv DEF PanelInit, SecretSafe
<1>2. SecretSafe /\ [PanelNext]_<<part, slots>> => SecretSafe'
  <2>1. ASSUME SecretSafe, [PanelNext]_<<part, slots>>, part' = "secret"
        PROVE  part = "secret" /\ Service!MirrorInv /\ [Service!MirrorNext]_(Service!mirrorVars)
    BY <2>1 DEF SecretSafe, PanelNext, CommentsNext, ListenersNext, ActivityNext,
       EntitlementsNext, MirrorNext, ChannelsNext, HealthNext, ScenariosNext,
       slots, Service!mirrorVars
  <2> QED
    BY <2>1, PanelAssumption, Service!MirrorInvKeeps DEF SecretSafe
<1>3. SecretSafe => SecretFine
  BY PanelAssumption, Service!MirrorHolds DEF SecretSafe, SecretFine
<1> QED
  BY <1>1, <1>2, <1>3, PTL DEF PanelSpec
-----------------------------------------------------------------------------
WarmSafe == part = "warm" => Service!WarmInv
WarmFine == part = "warm" => Service!WarmTypeOK /\ Service!WarmingKept

\* Warming: its invariant is one of the run.
LEMMA WarmStays == PanelSpec => [](WarmSafe /\ WarmFine)
<1>1. PanelInit => WarmSafe
  BY PanelAssumption, Service!WarmInitInv DEF PanelInit, WarmSafe
<1>2. WarmSafe /\ [PanelNext]_<<part, slots>> => WarmSafe'
  <2>1. ASSUME WarmSafe, [PanelNext]_<<part, slots>>, part' = "warm"
        PROVE  part = "warm" /\ Service!WarmInv /\ [Service!WarmNext]_(Service!warmVars)
    BY <2>1 DEF WarmSafe, PanelNext, CommentsNext, ListenersNext, ActivityNext,
       EntitlementsNext, MirrorNext, ChannelsNext, HealthNext, ScenariosNext,
       slots, Service!warmVars
  <2> QED
    BY <2>1, PanelAssumption, Service!WarmStep DEF WarmSafe
<1>3. WarmSafe => WarmFine
  BY PanelAssumption, Service!WarmHolds DEF WarmSafe, WarmFine
<1> QED
  BY <1>1, <1>2, <1>3, PTL DEF PanelSpec
-----------------------------------------------------------------------------
TriggerSafe == part = "trigger" => Service!TriggerInv
TriggerFine == part = "trigger" => Service!TriggerTypeOK /\ Service!TriggersKept

\* Triggers: its invariant is one of the run.
LEMMA TriggerStays == PanelSpec => [](TriggerSafe /\ TriggerFine)
<1>1. PanelInit => TriggerSafe
  BY PanelAssumption, Service!TriggerInitInv DEF PanelInit, TriggerSafe
<1>2. TriggerSafe /\ [PanelNext]_<<part, slots>> => TriggerSafe'
  <2>1. ASSUME TriggerSafe, [PanelNext]_<<part, slots>>, part' = "trigger"
        PROVE  part = "trigger" /\ Service!TriggerInv /\ [Service!TriggerNext]_(Service!triggerVars)
    BY <2>1 DEF TriggerSafe, PanelNext, CommentsNext, ListenersNext, ActivityNext,
       EntitlementsNext, MirrorNext, ChannelsNext, HealthNext, ScenariosNext,
       slots, Service!triggerVars
  <2> QED
    BY <2>1, PanelAssumption, Service!TriggerStep DEF TriggerSafe
<1>3. TriggerSafe => TriggerFine
  BY PanelAssumption, Service!TriggerHolds DEF TriggerSafe, TriggerFine
<1> QED
  BY <1>1, <1>2, <1>3, PTL DEF PanelSpec
-----------------------------------------------------------------------------
\* worker/profiles, bulk/actions, security.py: the row says of each field what Telegram has, unless
\* an errand under way will still write it or the field went astray.
THEOREM PanelMirror == PanelSpec => []MirrorKept
<1>1. LooksFine /\ SecretFine => MirrorKept
  BY DEF MirrorKept, LooksFine, SecretFine
<1> QED
  BY <1>1, LooksStays, SecretStays, PTL
-----------------------------------------------------------------------------
\* registry.py, api/services/events.py, notifier.py: who listens is told what it asked for, each
\* thing once and in order, and nobody else is.
THEOREM PanelListeners == PanelSpec => []ListenersKept
<1>1. PostFine /\ HubFine /\ DeskFine => ListenersKept
  BY DEF ListenersKept, PostFine, HubFine, DeskFine
<1> QED
  BY <1>1, PostStays, HubStays, DeskStays, PTL
-----------------------------------------------------------------------------
\* api/services, health.py, promotions.py, subscription.py: limits hold, proxies are given once and
\* found dead aloud, and prices and plans are what was agreed and paid for.
THEOREM PanelEntitlements == PanelSpec => []EntitlementsKept
<1>1. IntakeFine /\ WindowsFine /\ PricesFine /\ MembersFine => EntitlementsKept
  BY DEF EntitlementsKept, IntakeFine, WindowsFine, PricesFine, MembersFine
<1> QED
  BY <1>1, IntakeStays, WindowsStays, PricesStays, MembersStays, PTL
-----------------------------------------------------------------------------
\* tasks/warming.py, executor.py: nobody is forgotten, hurried or pooled before its time, and the
\* log of a prime says what was done, and in which turn.
THEOREM PanelActivity == PanelSpec => []ActivityKept
<1>1. WarmFine /\ TriggerFine => ActivityKept
  BY DEF ActivityKept, WarmFine, TriggerFine
<1> QED
  BY <1>1, WarmStays, TriggerStays, PTL
=============================================================================
