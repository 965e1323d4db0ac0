------------------------------- MODULE DryRun -------------------------------
(***************************************************************************)
(* The dry run of a campaign: the window of the browser that asks for it   *)
(* (DryRunSimulator.tsx, subscribeStream of api.ts), the request that      *)
(* keeps its parameters and the one that streams its events (router.py),   *)
(* the task of the worker that publishes them (dry_run.py).                *)
(*                                                                         *)
(* Redis keeps no event for those who subscribe later: a stream is the     *)
(* place it has reached in what was published, from where that was when it *)
(* subscribed. The events of a run are its steps 1..size and then done;    *)
(* size is 0 for a run that is refused.                                    *)
(***************************************************************************)
EXTENDS Naturals, Sequences

CONSTANTS
    MaxLaunches,   \* bound on the launches
    MaxLines       \* bound on the steps of a scenario

DryRunAssumption == MaxLaunches \in Nat \ {0} /\ MaxLines \in Nat

VARIABLES
    open,       \* the window is open
    phase,      \* form, running, done
    pending,    \* the launch whose answer is awaited, 0 for none
    launches,   \* how many there were: their numbers are the job ids
    shown,      \* the step events of the timeline, as <<job, number>>
    verdict,    \* of the done event: "none", "ok", "failed"
    timer,      \* the 90 seconds are counted
    ref,        \* unsubRef: the job whose stream a reset aborts
    ear,        \* jobs whose stream the browser reads
    request,    \* per job: the key with the parameters is there
    stream,     \* per job and opening: how far the endpoint is, and the next event
    run         \* per job: the task, how often it was queued, what it has published

dryVars == <<open, phase, pending, launches, shown, verdict, timer, ref, ear, request, stream, run>>
window == <<open, phase, pending, launches, shown, verdict, timer, ref, ear>>

Jobs == 1..MaxLaunches
\* The browser's own opening of the stream, and one more of the same job.
Openings == {1, 2}

DryRunInit ==
    /\ open = FALSE /\ phase = "form" /\ pending = 0 /\ launches = 0
    /\ shown = <<>> /\ verdict = "none" /\ timer = FALSE /\ ref = 0 /\ ear = {}
    /\ request = [j \in Jobs |-> FALSE]
    /\ stream = [j \in Jobs |-> [s \in Openings |-> [at |-> "none", heard |-> 0]]]
    /\ run = [j \in Jobs |-> [at |-> "no", times |-> 0, size |-> 0, published |-> 0]]
-----------------------------------------------------------------------------
(* The window *)

Open ==
    /\ ~open /\ open' = TRUE
    /\ UNCHANGED <<phase, pending, launches, shown, verdict, timer, ref, ear, request, stream, run>>

\* The button is disabled while an answer is awaited.
Launch ==
    /\ open /\ phase = "form" /\ pending = 0 /\ launches < MaxLaunches
    /\ launches' = launches + 1 /\ pending' = launches + 1
    /\ UNCHANGED <<open, phase, shown, verdict, timer, ref, ear, request, stream, run>>

\* The campaign is not there, or no answer came.
Refused ==
    /\ pending > 0 /\ pending' = 0
    /\ UNCHANGED <<open, phase, launches, shown, verdict, timer, ref, ear, request, stream, run>>

\* POST has kept the parameters; onSuccess opens the stream, whether the window is open or not.
Answered ==
    /\ pending > 0
    /\ request' = [request EXCEPT ![pending] = TRUE]
    /\ stream' = [stream EXCEPT ![pending][1].at = "asked"]
    /\ phase' = "running" /\ shown' = <<>> /\ verdict' = "none" /\ timer' = TRUE
    /\ ref' = pending /\ ear' = ear \cup {pending} /\ pending' = 0
    /\ UNCHANGED <<open, launches, run>>

\* Mutant: the stream goes on.
AbortNothing == UNCHANGED ear

\* unsubRef.current()
Abort == ear' = ear \ {ref}

Cleared ==
    /\ Abort /\ timer' = FALSE
    /\ phase' = "form" /\ shown' = <<>> /\ verdict' = "none"
    /\ UNCHANGED <<pending, launches, ref, request, stream, run>>

Reset == open /\ phase # "form" /\ Cleared /\ UNCHANGED open
Close == open /\ Cleared /\ open' = FALSE

\* 90 seconds without a done event.
GivesUp ==
    /\ timer /\ timer' = FALSE /\ phase' = "done" /\ Abort
    /\ UNCHANGED <<open, pending, launches, shown, verdict, ref, request, stream, run>>

\* What the browser makes of an event of a stream it reads.
Hear(j, k) ==
    IF k <= run[j].size
    THEN /\ shown' = Append(shown, <<j, k>>)
         /\ UNCHANGED <<phase, verdict, timer, ear>>
    ELSE /\ verdict' = (IF run[j].size > 0 THEN "ok" ELSE "failed")
         /\ phase' = "done" /\ timer' = FALSE /\ Abort
         /\ UNCHANGED shown
-----------------------------------------------------------------------------
(* The stream *)

\* The same job is opened again, when the browser's own stream has begun.
Reopen(j) ==
    /\ stream[j][1].at \notin {"none", "asked"} /\ stream[j][2].at = "none"
    /\ stream' = [stream EXCEPT ![j][2].at = "asked"]
    /\ UNCHANGED <<window, request, run>>

Subscribe(j, s) ==
    /\ stream[j][s].at = "asked"
    /\ stream' = [stream EXCEPT ![j][s] = [at |-> "subscribed", heard |-> run[j].published]]
    /\ UNCHANGED <<window, request, run>>

\* Mutant: the parameters are only read.
TakenByAll(j) == UNCHANGED request

\* GETDEL
Taken(j) == request' = [request EXCEPT ![j] = FALSE]

\* Mutant: whoever asks for the stream has the task queued, before it subscribes.
TakenEarly == "asked"

\* Where the endpoint is when it takes the request.
TakenAt == "subscribed"

\* The first takes the parameters and queues the task (that this fails is not reported).
Take(j, s) ==
    /\ stream[j][s].at = TakenAt /\ request[j]
    /\ Taken(j)
    /\ \E at \in {"queued", "no"} :
           run' = [run EXCEPT ![j].at = at, ![j].times = @ + (IF at = "queued" THEN 1 ELSE 0)]
    /\ UNCHANGED <<window, stream>>

\* The parameters have expired, after 300 seconds.
Expire(j) ==
    /\ request[j] /\ request' = [request EXCEPT ![j] = FALSE]
    /\ UNCHANGED <<window, stream, run>>

\* An event is passed on; the stream ends after the last.
Relay(j, s) ==
    LET k == stream[j][s].heard + 1 IN
    /\ stream[j][s].at = "subscribed" /\ ~request[j] /\ k <= run[j].published
    /\ stream' = [stream EXCEPT ![j][s] =
                    [at |-> IF k > run[j].size THEN "closed" ELSE "subscribed", heard |-> k]]
    /\ IF s = 1 /\ j \in ear
       THEN Hear(j, k) /\ UNCHANGED <<open, pending, launches, ref>>
       ELSE UNCHANGED window
    /\ UNCHANGED <<request, run>>

\* The window has aborted its stream, or the connection is lost: it does not connect again. (That
\* the second opening loses its reader changes nothing for the others.)
Disconnected(j) ==
    /\ stream[j][1].at \in {"asked", "subscribed"}
    /\ stream' = [stream EXCEPT ![j][1].at = "closed"]
    /\ ear' = ear \ {j}
    /\ UNCHANGED <<open, phase, pending, launches, shown, verdict, timer, ref, request, run>>
-----------------------------------------------------------------------------
(* dry_run *)

\* Refused: no such campaign, not ready, nobody to play it, the test chat is closed to it.
Starts(j) ==
    /\ run[j].at = "queued"
    /\ \E n \in 0..MaxLines : run' = [run EXCEPT ![j].at = "running", ![j].size = n]
    /\ UNCHANGED <<window, request, stream>>

Publish(j) ==
    /\ run[j].at = "running"
    /\ run' = [run EXCEPT ![j].published = @ + 1,
                          ![j].at = IF run[j].published = run[j].size THEN "over" ELSE "running"]
    /\ UNCHANGED <<window, request, stream>>

\* The model of the texts fails, or the worker: max_tries is 1.
Breaks(j) ==
    /\ run[j].at = "running" /\ run' = [run EXCEPT ![j].at = "over"]
    /\ UNCHANGED <<window, request, stream>>

DryRunNext ==
    \/ Open \/ Launch \/ Refused \/ Answered \/ Reset \/ Close \/ GivesUp
    \/ \E j \in Jobs :
           \/ Reopen(j) \/ Disconnected(j) \/ Expire(j) \/ Starts(j) \/ Publish(j) \/ Breaks(j)
           \/ \E s \in Openings : Subscribe(j, s) \/ Take(j, s) \/ Relay(j, s)

DryRunSpec == DryRunInit /\ [][DryRunNext]_dryVars
-----------------------------------------------------------------------------
\* The variables hold what the comments above say.
DryRunTypeOK ==
    /\ open \in BOOLEAN /\ phase \in {"form", "running", "done"} /\ timer \in BOOLEAN
    /\ {pending, launches, ref} \subseteq 0..MaxLaunches
    /\ \A i \in 1..Len(shown) : shown[i] \in Jobs \X (1..MaxLines)
    /\ verdict \in {"none", "ok", "failed"} /\ ear \subseteq Jobs
    /\ request \in [Jobs -> BOOLEAN]
    /\ \A j \in Jobs, s \in Openings :
           /\ stream[j][s].at \in {"none", "asked", "subscribed", "closed"}
           /\ stream[j][s].heard \in 0..(MaxLines + 1)
    /\ \A j \in Jobs : /\ run[j].at \in {"no", "queued", "running", "over"}
                       /\ {run[j].size, run[j].published} \subseteq 0..(MaxLines + 1)

\* A launch is run once at most, however often its stream is opened (router.py: GETDEL).
LaunchRunOnce == \A j \in Jobs : run[j].times <= 1

\* The timeline is of the last launch alone, begins with its first step and leaves none out, and
\* it is all of them when the run is shown as done: no event comes before it is listened to
\* (dry_run_stream subscribes first and queues the task afterwards).
TimelineWhole ==
    /\ shown = [i \in 1..Len(shown) |-> <<ref, i>>]
    /\ verdict = "ok" => Len(shown) = run[ref].size

\* The window waits for no more than the one run it shows, and never without the timer that ends it.
WaitsForOne ==
    /\ timer <=> phase = "running"
    /\ ear \subseteq IF phase = "running" THEN {ref} ELSE {}
=============================================================================
