----------------------------- MODULE ChannelSync -----------------------------
(***************************************************************************)
(* modules/commenting/worker/channels.py: the rows that say which channels *)
(* an account watches, brought in line with the settings of its campaign.  *)
(* The API edits the campaign and asks for a sync; the sync deletes and    *)
(* creates rows and enqueues resolve_channel for them; resolving a folder, *)
(* or walking through the account's subscriptions, creates further rows    *)
(* while all of this goes on.  The sync reads, and commits what it made of *)
(* that, with no await in between: in the one worker process nothing runs  *)
(* meanwhile, but requests of the API commit.  One account, one campaign.  *)
(***************************************************************************)
EXTENDS Integers, FiniteSets, SequencesExt

CONSTANTS
    Refs,        \* what a row may point at: channels and folders
    Folders,     \* those of Refs that are folder links
    Inside,      \* channels a folder contains
    Subscribed,  \* channels with comments the account is subscribed to
    MaxRows,     \* bound on rows ever created
    MaxEdits,    \* bound on requests and refused comments
    MaxLosses      \* bound on tasks that never reach the queue

SyncAssumption == /\ IsFiniteSet(Refs) /\ Folders \subseteq Refs
                  /\ Inside \cup Subscribed \subseteq Refs \ Folders
                  /\ {MaxRows, MaxEdits, MaxLosses} \subseteq Nat

VARIABLES
    rows,     \* monitored_channels, by id; ids are not used again
    on,       \* campaign.enabled
    mode,     \* campaign.channel_source_mode
    links,    \* the campaign's own list of channels
    standing, \* not linked to the campaign; or linked, and its status "assigned" or any other
    syncs,    \* sync_campaign_channels tasks in the queue
    reading,  \* what the sync under way has decided on, until its commit
    planned,  \* rows committed as pending whose resolve_channel is not enqueued yet
    resolves, \* resolve_channel tasks, queued or running
    scans,    \* sync_account_subscriptions tasks, queued or running
    edits, harms,
    strays,   \* rows left over or created with no sync to come (see below)
    removed,  \* links whose row the user took out of the account's list
    drift     \* the account's status has changed since a sync looked at it

syncVars == <<rows, on, mode, links, standing, syncs, reading, planned, resolves, scans, edits,
              harms, strays, removed, drift>>
config == <<on, mode, links, standing>>

Ids == 1..MaxRows
NoRow == [ref |-> "", mine |-> FALSE, status |-> "none"]
Live(i) == rows[i].status \in {"pending", "working", "failed"}
LiveRefs == {rows[i].ref : i \in {j \in Ids : Live(j)}}
NoSync == [open |-> FALSE, gone |-> {}, missing |-> {}, again |-> {}, scan |-> FALSE]

SyncInit ==
    /\ rows = [i \in Ids |-> NoRow]
    /\ on = TRUE /\ mode = "links" /\ links = {} /\ standing = "apart"
    /\ syncs = 0 /\ reading = NoSync /\ planned = {} /\ scans = 0
    /\ resolves = [i \in Ids |-> 0]
    /\ edits = 0 /\ harms = 0 /\ strays = {} /\ removed = {} /\ drift = FALSE
-----------------------------------------------------------------------------
\* New rows get the next ids.
Born == Cardinality({i \in Ids : rows[i].status # "none"})
Room(refs) == Born + Cardinality(refs) <= MaxRows
Fresh(refs) == (Born + 1)..(Born + Cardinality(refs))
Created(f, refs, mine, status) ==
    [i \in Ids |-> IF i \in Fresh(refs)
                   THEN [ref |-> SetToSeq(refs)[i - Born], mine |-> mine, status |-> status]
                   ELSE f[i]]
Marked(ids, status) == [i \in Ids |-> IF i \in ids THEN [rows[i] EXCEPT !.status = status]
                                      ELSE rows[i]]

\* _campaign_account_ids: a link is not enough, the status counts too.
member == standing = "assigned"

\* What a sync would delete: rows of a campaign that is off, of an account that left, and
\* of links it no longer has.  The channels of a folder are in no list: they stay as long
\* as there is any folder.
Unwanted(ref) ==
    \/ ~on \/ ~member
    \/ mode = "links" /\ ref \notin links
       /\ (ref \in Folders \/ links \cap Folders = {})
Stale == {i \in Ids : Live(i) /\ rows[i].mine /\ Unwanted(rows[i].ref)}
-----------------------------------------------------------------------------
(* The API *)

Edit == edits < MaxEdits /\ edits' = edits + 1

\* _request_sync only logs that Redis refused.
Requested ==
    \/ syncs' = syncs + 1 /\ UNCHANGED harms
    \/ harms < MaxLosses /\ harms' = harms + 1 /\ UNCHANGED syncs

AddLink(r) ==
    /\ r \notin links /\ links' = links \cup {r}
    /\ Edit /\ Requested
    /\ UNCHANGED <<rows, on, mode, standing, reading, planned, resolves, scans, strays, removed,
                   drift>>

\* Takes the rows of that link away itself, and asks for no sync.
RemoveLink(r) ==
    /\ r \in links /\ links' = links \ {r}
    /\ rows' = Marked({i \in Ids : Live(i) /\ rows[i].mine /\ rows[i].ref = r}, "gone")
    /\ strays' = strays \cup {i \in Ids : /\ r \in Folders
                                          /\ Live(i) /\ rows[i].mine /\ rows[i].ref \notin Folders}
    /\ Edit
    /\ UNCHANGED <<on, mode, standing, syncs, reading, planned, resolves, scans, harms, removed,
                   drift>>

\* patch_campaign, attach_account, detach_account: commit, then ask.  Attaching makes the
\* account assigned; one with further campaigns can be detached whatever its status.
Switch ==
    /\ \/ on' = ~on /\ UNCHANGED <<mode, standing>>
       \/ mode' = (IF mode = "links" THEN "subscriptions" ELSE "links") /\ UNCHANGED <<on, standing>>
       \/ standing' = (IF standing = "apart" THEN "assigned" ELSE "apart") /\ UNCHANGED <<on, mode>>
    /\ Edit /\ Requested
    /\ UNCHANGED <<rows, links, reading, planned, resolves, scans, strays, removed, drift>>

Resync ==
    /\ Edit /\ Requested
    /\ UNCHANGED <<rows, config, reading, planned, resolves, scans, strays, removed, drift>>

\* An incident, a ban, retirement or another campaign's detach takes the status of a linked
\* account; cooldown.expired or another campaign's attach gives it back.  None asks for a sync.
StatusMoves ==
    /\ standing # "apart"
    /\ standing' = IF standing = "assigned" THEN "idle" ELSE "assigned"
    /\ drift' = TRUE
    /\ Edit
    /\ UNCHANGED <<rows, on, mode, links, syncs, reading, planned, resolves, scans, harms, strays,
                   removed>>

\* A channel on the account's own list, unless there is a row for it.
AddManual(r) ==
    /\ r \notin LiveRefs /\ Room({r})
    /\ rows' = Created(rows, {r}, FALSE, "pending")
    /\ planned' = planned \cup Fresh({r})
    /\ Edit
    /\ UNCHANGED <<config, syncs, reading, resolves, scans, harms, strays, removed, drift>>

RemoveRow(i) ==
    /\ Live(i)
    /\ rows' = Marked({i}, "gone")
    /\ removed' = removed \cup {rows[i].ref}
    /\ Edit
    /\ UNCHANGED <<config, syncs, reading, planned, resolves, scans, harms, strays, drift>>
-----------------------------------------------------------------------------
(* The worker *)

Explicit == on /\ member /\ mode = "links"
Missing == IF Explicit THEN links \ LiveRefs ELSE {}
Failed == {i \in Ids : Explicit /\ rows[i].mine /\ rows[i].ref \in links
                       /\ rows[i].status = "failed"}

\* Nothing else runs in the worker between the SELECTs of a sync and its commit.
Awake == ~reading.open

\* sync_campaign_channels reads the campaign, its rows, its accounts and its links, and
\* settles on what goes, what is created and what is tried again.
ReadsWith(gone) ==
    /\ Awake /\ syncs > 0 /\ syncs' = syncs - 1
    /\ reading' = [open |-> TRUE, gone |-> gone, missing |-> Missing, again |-> Failed,
                   scan |-> on /\ member /\ mode = "subscriptions"]
    /\ removed' = {} /\ drift' = FALSE
    /\ UNCHANGED <<rows, config, planned, resolves, scans, edits, harms, strays>>

\* Mutant: the rows of a campaign that is off stay.
ReadsKeepingDisabled == ReadsWith(IF on THEN Stale ELSE {})

SyncReads == ReadsWith(Stale)

\* It commits, whatever the settings are by now, and will enqueue these rows.  A row the
\* account has got meanwhile is not doubled, one that is gone stays gone.  A row made for a
\* link that was removed meanwhile is left over, unless another sync has been asked for.
CommitsWith(retried) ==
    LET made == reading.missing \ LiveRefs IN
    /\ reading.open /\ reading' = NoSync
    /\ \A i \in reading.again : Live(i)
    /\ Room(made)
    /\ rows' = [i \in Ids |->
                   IF i \in reading.gone THEN [rows[i] EXCEPT !.status = "gone"]
                   ELSE Created(Marked(reading.again, "pending"), made, TRUE, "pending")[i]]
    /\ planned' = planned \cup retried \cup Fresh(made)
    /\ scans' = IF reading.scan THEN scans + 1 ELSE scans
    /\ strays' = strays \cup {i \in Fresh(made) : syncs = 0 /\ Unwanted(rows'[i].ref)}
    /\ UNCHANGED <<config, syncs, resolves, edits, harms, removed, drift>>

\* Mutant: a row that failed is made pending again and left at that.
CommitForgetsRetries == CommitsWith({})

SyncCommits == CommitsWith(reading.again)

\* The unique constraint, or an UPDATE of a row the user has deleted, breaks it off: it is run
\* again, for the third time in vain at most.
SyncBreaks ==
    /\ reading.open /\ reading' = NoSync
    /\ reading.missing \cap LiveRefs # {} \/ \E i \in reading.again : ~Live(i)
    /\ Requested
    /\ UNCHANGED <<rows, config, planned, resolves, scans, edits, strays, removed, drift>>

Enqueue(i) ==
    /\ i \in planned /\ planned' = planned \ {i}
    /\ resolves' = [resolves EXCEPT ![i] = @ + 1]
    /\ UNCHANGED <<rows, config, syncs, reading, scans, edits, harms, strays, removed, drift>>

\* The process dies, or Redis refuses, between the commit and the enqueue.
PlanLost(i) ==
    /\ i \in planned /\ planned' = planned \ {i}
    /\ harms < MaxLosses /\ harms' = harms + 1
    /\ UNCHANGED <<rows, config, syncs, reading, resolves, scans, edits, strays, removed, drift>>

\* resolve_channel ends: not subscribed, no discussion group, any error; or the channel works.
ResolveEnds(i) ==
    /\ Awake
    /\ resolves[i] > 0 /\ resolves' = [resolves EXCEPT ![i] = @ - 1]
    /\ IF Live(i)
       THEN \/ rows' = Marked({i}, "failed")
            \/ rows[i].ref \notin Folders /\ rows' = Marked({i}, "working")
       ELSE UNCHANGED rows
    /\ UNCHANGED <<config, syncs, reading, planned, scans, edits, harms, strays, removed, drift>>

\* The folder has been joined: a row for each of its channels, even if the folder's own row
\* is gone by now; what comes of a folder left over is left over too.
Expand(i) ==
    LET new == Inside \ LiveRefs IN
    /\ Awake
    /\ resolves[i] > 0 /\ resolves' = [resolves EXCEPT ![i] = @ - 1]
    /\ rows[i].ref \in Folders /\ Room(new)
    /\ rows' = Created(IF Live(i) THEN Marked({i}, "working") ELSE rows,
                       new, rows[i].mine, "pending")
    /\ planned' = planned \cup Fresh(new)
    /\ strays' = IF Live(i) /\ i \notin strays THEN strays ELSE strays \cup Fresh(new)
    /\ UNCHANGED <<config, syncs, reading, scans, edits, harms, removed, drift>>

\* sync_account_subscriptions finds a channel, whatever became of the campaign.
Scan(r) ==
    /\ Awake /\ scans > 0
    /\ r \notin LiveRefs /\ Room({r})
    /\ rows' = Created(rows, {r}, TRUE, "working")
    /\ strays' = IF Unwanted(r) THEN strays \cup Fresh({r}) ELSE strays
    /\ UNCHANGED <<config, syncs, reading, planned, resolves, scans, edits, harms, removed, drift>>

\* Done; or another scan was faster and the unique constraint ends this one for the last time
\* (run again, it only skips what is there).
ScanEnds ==
    /\ Awake /\ scans > 0 /\ scans' = scans - 1
    /\ UNCHANGED <<rows, config, syncs, reading, planned, resolves, edits, harms, strays, removed,
                   drift>>

\* A comment is refused: the row fails, or is pending again until it is resolved anew.
Refused(i) ==
    /\ Awake
    /\ Live(i) /\ rows[i].ref \notin Folders
    /\ \/ rows' = Marked({i}, "failed") /\ UNCHANGED planned
       \/ rows' = Marked({i}, "pending") /\ planned' = planned \cup {i}
    /\ Edit
    /\ UNCHANGED <<config, syncs, reading, resolves, scans, harms, strays, removed, drift>>
-----------------------------------------------------------------------------
Request ==
    \/ \E r \in Refs : AddLink(r) \/ RemoveLink(r) \/ AddManual(r)
    \/ \E i \in Ids : RemoveRow(i)
    \/ Switch \/ Resync \/ StatusMoves

SyncNext ==
    \/ Request
    \/ \E i \in Ids : Enqueue(i) \/ PlanLost(i) \/ ResolveEnds(i) \/ Expand(i) \/ Refused(i)
    \/ \E r \in Subscribed : Scan(r)
    \/ SyncReads \/ SyncCommits \/ SyncBreaks \/ ScanEnds

SyncSpec == SyncInit /\ [][SyncNext]_syncVars
-----------------------------------------------------------------------------
(* Properties *)

\* Rows, tasks and settings are well formed.
SyncTypeOK ==
    /\ rows \in [Ids -> [ref: Refs \cup {""}, mine: BOOLEAN,
                         status: {"none", "pending", "working", "failed", "gone"}]]
    /\ on \in BOOLEAN /\ mode \in {"links", "subscriptions"}
    /\ links \subseteq Refs /\ standing \in {"apart", "assigned", "idle"}
    /\ reading \in [open: BOOLEAN, gone: SUBSET Ids, missing: SUBSET Refs, again: SUBSET Ids,
                    scan: BOOLEAN]
    /\ drift \in BOOLEAN
    /\ syncs \in Nat /\ scans \in Nat /\ resolves \in [Ids -> Nat]
    /\ planned \cup strays \subseteq Ids /\ removed \subseteq Refs
    /\ edits \in Nat /\ harms \in Nat

\* A pending row has a task that will resolve it, unless the task was lost on its way to
\* the queue: nothing else looks at pending rows, and neither a sync nor adding the channel
\* again takes one up (modules/commenting/worker/channels.py:422-431).
PendingHasTask ==
    harms = 0 => \A i \in Ids : rows[i].status = "pending" => i \in planned \/ resolves[i] > 0

\* Once the syncs asked for have run, the campaign has no row it does not want and a row for
\* each of its links, in whatever order edits, syncs, resolves and scans ran and whatever a
\* request committed while a sync was at it; unless the account's status has changed since, of
\* which no sync is told.  Three things leave rows behind: a folder link that is removed, a link
\* removed between the reading and the commit of a sync, and a folder or scan that outlives what
\* it was started for.
SyncSettles ==
    harms = 0 /\ syncs = 0 /\ ~drift /\ Awake =>
        /\ Stale \subseteq strays
        /\ Explicit => links \subseteq LiveRefs \cup removed
=============================================================================
