----------------------------- MODULE OwnChannels -----------------------------
(***************************************************************************)
(* The channels of one account: those it creates (modules/bulk/actions/    *)
(* create_channel.py), listed in project_channels with the pinned post and *)
(* the place in the dialogs, managed by manage_channel_post and            *)
(* pin_channel_ref, compared with Telegram by sync_project_channels; and   *)
(* the list of dialogs kept in Redis, with the tasks that leave them       *)
(* (worker/profiles/dialogs.py, leave_channels, join_channels).            *)
(*                                                                         *)
(* Every errand talks to Telegram first and writes at its end; several run *)
(* at once, and each may be cut off.                                       *)
(***************************************************************************)
EXTENDS Integers, FiniteSets

CONSTANTS
    Tasks,         \* kinds of errands looked at
    Doers,         \* places for errands under way
    Channels,      \* ids Telegram may give
    NoChannel,
    Posts,         \* numbers of posts
    MaxTasks,      \* bounds
    MaxSlips

OwnAssumption ==
    /\ NoChannel \notin Channels /\ Posts \subseteq Nat \ {0}
    /\ MaxTasks \in Nat /\ MaxSlips \in Nat

VARIABLES
    channel,    \* what Telegram has
    lagging,    \* dialogs Telegram may still list though they were left
    row,        \* project_channels
    listed,     \* the dialogs in Redis
    item,       \* the bulk item that creates a channel
    doer,       \* what each errand does
    left,       \* dialogs that leave_dialogs left, and nobody entered since
    astray,     \* what is known not to agree, and why: see the actions
    tasks,
    slips

ownVars == <<channel, lagging, row, listed, item, doer, left, astray, tasks, slips>>

NoPost == 0
Unborn == [is |-> "unborn", member |-> FALSE, own |-> FALSE, pins |-> {}, top |-> FALSE]
NoRow == [there |-> FALSE, pin |-> NoPost, top |-> FALSE]
Free == [does |-> "nothing", at |-> "free", on |-> NoChannel, post |-> NoPost,
         found |-> {}, gone |-> {}, mixed |-> FALSE]

\* The field of the row that an errand writes.
Concerns(does) ==
    CASE does \in {"pin", "unpin", "delete"} -> "pin"
      [] does \in {"top", "untop", "ref", "unref"} -> "top"
      [] OTHER -> "row"

\* Channels of others exist from the start; the account has not entered them.
OwnInit ==
    /\ \E F \in SUBSET Channels :
          channel = [c \in Channels |-> IF c \in F THEN [Unborn EXCEPT !.is = "live"] ELSE Unborn]
    /\ row = [c \in Channels |-> NoRow]
    /\ lagging = {} /\ listed = {} /\ item = "queued" /\ left = {} /\ astray = {}
    /\ doer = [h \in Doers |-> Free]
    /\ tasks = 0 /\ slips = 0

Entered == {c \in Channels : channel[c].is = "live" /\ channel[c].member}
Live == {c \in Channels : channel[c].is = "live"}

Begins(h, r) ==
    /\ doer[h] = Free /\ r.does \in Tasks
    /\ tasks < MaxTasks /\ tasks' = tasks + 1
    /\ doer' = [doer EXCEPT ![h] = r]
    /\ UNCHANGED <<channel, lagging, row, listed, left, astray, slips>>

Goes(h, r) == doer' = [doer EXCEPT ![h] = r] /\ UNCHANGED <<tasks, slips>>
Slip == slips < MaxSlips /\ slips' = slips + 1

\* An errand tells Telegram something about channel c: others that have told it something
\* about the same field, and have not written their row yet, are mixed up with it.
Tells(h, r) ==
    LET met == {g \in Doers \ {h} : /\ doer[g].at = "row" /\ doer[g].on = r.on
                                    /\ Concerns(doer[g].does) = Concerns(r.does)}
    IN /\ doer' = [g \in Doers |->
             IF g = h THEN [r EXCEPT !.mixed = met # {}]
             ELSE IF g \in met THEN [doer[g] EXCEPT !.mixed = TRUE] ELSE doer[g]]
       /\ UNCHANGED <<tasks, slips>>
-----------------------------------------------------------------------------
(* create_channel *)

\* The item runs; retry-failed makes it queued again.
BeginCreate(h) ==
    /\ item \in {"queued", "failed"} /\ item' = "running"
    /\ Begins(h, [Free EXCEPT !.does = "create", !.at = "create"])

Creating(h, at) == doer[h].does = "create" /\ doer[h].at = at

\* CreateChannel answers with an id nobody has seen.
Create(h) ==
    /\ Creating(h, "create")
    /\ \E c \in Channels :
          /\ channel[c].is = "unborn"
          /\ channel' = [channel EXCEPT ![c] = [@ EXCEPT !.is = "live", !.member = TRUE,
                                                         !.own = TRUE]]
          /\ Goes(h, [doer[h] EXCEPT !.at = "decorate", !.on = c])
    /\ UNCHANGED <<lagging, row, listed, item, left, astray>>

\* Username, history, reactions, photo and invitation: each may fail, and nothing comes of it.
\* Then the look for a row of the same channel, which a new one does not have.
Decorate(h) ==
    /\ Creating(h, "decorate") /\ ~row[doer[h].on].there
    /\ Goes(h, [doer[h] EXCEPT !.at = "post"])
    /\ UNCHANGED <<channel, lagging, row, listed, item, left, astray>>

\* The first post, if there is one, it can be sent, and it is to be pinned.
FirstPost(h, n) ==
    /\ Creating(h, "post")
    /\ LET c == doer[h].on
       IN /\ n # NoPost => c \in Entered
          /\ channel' = [channel EXCEPT ![c].pins = @ \cup ({n} \ {NoPost})]
          /\ Goes(h, [doer[h] EXCEPT !.at = "row", !.post = n])
    /\ UNCHANGED <<lagging, row, listed, item, left, astray>>

\* The row, with the post if it was pinned.
Record(h) ==
    /\ Creating(h, "row")
    /\ row' = [row EXCEPT ![doer[h].on] = [there |-> TRUE, pin |-> doer[h].post, top |-> FALSE]]
    /\ item' = "done"
    /\ Goes(h, Free)
    /\ UNCHANGED <<channel, lagging, listed, left, astray>>
-----------------------------------------------------------------------------
(* manage_channel_post, pin_channel_ref *)

\* pin stands for send with pin_after_send too; a post that is not pinned leaves no trace.
Modes == {"pin", "unpin", "delete", "top", "untop", "remove"}

\* An item for a channel of the list; a post by its number.
BeginManage(h, does, c, n) ==
    /\ does \in Modes /\ row[c].there
    /\ (n = NoPost) = (does \in {"top", "untop", "remove"})
    /\ Begins(h, [Free EXCEPT !.does = does, !.at = "call", !.on = c, !.post = n])
    /\ UNCHANGED item

\* An item with a reference to any channel.
BeginRef(h, does, c) ==
    /\ does \in {"ref", "unref"} /\ c \in Entered
    /\ Begins(h, [Free EXCEPT !.does = does, !.at = "call", !.on = c])
    /\ UNCHANGED item

Doing(h, kinds, at) == doer[h].does \in kinds /\ doer[h].at = at

\* get_entity raises, or the call does: the item fails and no row is written.
ManageFails(h) ==
    /\ Doing(h, Modes \cup {"ref", "unref"}, "call")
    /\ doer[h].on \notin Entered
    /\ Goes(h, Free)
    /\ UNCHANGED <<channel, lagging, row, listed, item, left, astray>>

\* Mutant: unpinning keeps the number in the row.
Noted(r) == r.post

\* What the row will say: the post sent and pinned or pinned, and none after unpinning.
Pinned(r) == IF r.does = "unpin" THEN NoPost ELSE r.post

\* pin and unpin.
ManagePins(h) ==
    /\ Doing(h, {"pin", "unpin"}, "call") /\ doer[h].on \in Entered
    /\ LET r == doer[h] IN
       /\ channel' = [channel EXCEPT ![r.on].pins =
                         IF r.does = "unpin" THEN @ \ {r.post} ELSE @ \cup {r.post}]
       /\ Tells(h, [r EXCEPT !.at = "row", !.post = Pinned(r)])
    /\ UNCHANGED <<lagging, row, listed, item, left, astray>>

\* delete: a pinned post goes, and the row is not touched.
ManageDeletes(h) ==
    /\ Doing(h, {"delete"}, "call") /\ doer[h].on \in Entered
    /\ LET r == doer[h] IN
       /\ channel' = [channel EXCEPT ![r.on].pins = @ \ {r.post}]
       /\ astray' = IF r.post \in channel[r.on].pins THEN astray \cup {<<"pin", r.on>>} ELSE astray
       /\ Tells(h, [r EXCEPT !.at = "end"])
    /\ UNCHANGED <<lagging, row, listed, item, left>>

\* pin_dialog and unpin_dialog; pin_channel_ref does the same and writes no row.
ManageTop(h) ==
    /\ Doing(h, {"top", "untop", "ref", "unref"}, "call") /\ doer[h].on \in Entered
    /\ LET r == doer[h]
           top == r.does \in {"top", "ref"}
           unwritten == r.does \in {"ref", "unref"}
       IN /\ channel' = [channel EXCEPT ![r.on].top = top]
          /\ Tells(h, [r EXCEPT !.at = IF unwritten THEN "end" ELSE "row"])
          /\ astray' = IF unwritten /\ channel[r.on].top # top
                       THEN astray \cup {<<"top", r.on>>} ELSE astray
    /\ UNCHANGED <<lagging, row, listed, item, left>>

\* delete_channel
ManageRemoves(h) ==
    /\ Doing(h, {"remove"}, "call") /\ doer[h].on \in Entered
    /\ channel' = [channel EXCEPT ![doer[h].on] = [Unborn EXCEPT !.is = "deleted"]]
    /\ Goes(h, [doer[h] EXCEPT !.at = "row"])
    /\ UNCHANGED <<lagging, row, listed, item, left, astray>>

\* What the row says is what was last told, unless two errands told it.
Settles(h) ==
    LET f == <<Concerns(doer[h].does), doer[h].on>>
    IN astray' = IF doer[h].mixed THEN astray \cup {f} ELSE astray \ {f}

\* The row, if it is still there.
ManageWrites(h) ==
    /\ Doing(h, Modes, "row")
    /\ LET r == doer[h] IN
       row' = [row EXCEPT ![r.on] =
          IF ~@.there \/ r.does = "remove" THEN NoRow
          ELSE IF r.does \in {"top", "untop"} THEN [@ EXCEPT !.top = r.does = "top"]
          ELSE [@ EXCEPT !.pin = r.post]]
    /\ Settles(h)
    /\ Goes(h, Free)
    /\ UNCHANGED <<channel, lagging, listed, item, left>>

\* Nothing to write.
ManageEnds(h) ==
    /\ doer[h].at = "end"
    /\ Goes(h, Free)
    /\ UNCHANGED <<channel, lagging, row, listed, item, left, astray>>
-----------------------------------------------------------------------------
(* sync_project_channels *)

\* The rows are read.
BeginCompare(h) ==
    /\ LET rows == {c \in Channels : row[c].there}
       IN Begins(h, [Free EXCEPT !.does = "compare", !.found = rows,
                                 !.at = IF rows = {} THEN "end" ELSE "probe"])
    /\ UNCHANGED item

\* Mutant: an error, whatever it is, means that the channel is gone.
ProbeAny(h, c, answer) ==
    /\ Doing(h, {"compare"}, "probe") /\ c \in doer[h].found
    /\ answer = "gone" => c \notin Entered
    /\ Goes(h, [doer[h] EXCEPT !.found = @ \ {c}, !.gone = IF answer = "there" THEN @ ELSE @ \cup {c},
                               !.at = IF doer[h].found = {c} THEN "row" ELSE @])
    /\ UNCHANGED <<channel, lagging, row, listed, item, left, astray>>

\* get_entity of one of them: there, gone (private to those who left, or deleted), or another
\* error, which counts as there.
Probe(h, c, answer) ==
    /\ Doing(h, {"compare"}, "probe") /\ c \in doer[h].found
    /\ answer = "gone" => c \notin Entered
    /\ answer = "there" => c \in Live
    /\ Goes(h, [doer[h] EXCEPT !.found = @ \ {c}, !.gone = IF answer = "gone" THEN @ \cup {c} ELSE @,
                               !.at = IF doer[h].found = {c} THEN "row" ELSE @])
    /\ UNCHANGED <<channel, lagging, row, listed, item, left, astray>>

\* The rows of those gone are deleted together.
CompareWrites(h) ==
    /\ Doing(h, {"compare"}, "row")
    /\ row' = [c \in Channels |-> IF c \in doer[h].gone THEN NoRow ELSE row[c]]
    /\ Goes(h, Free)
    /\ UNCHANGED <<channel, lagging, listed, item, left, astray>>
-----------------------------------------------------------------------------
(* Dialogs: join_channels, leave_channels, sync_dialogs, leave_dialogs *)

\* An item that enters a channel by its link; one of its own is entered without its row.
Join(c) ==
    /\ "join" \in Tasks /\ tasks < MaxTasks /\ tasks' = tasks + 1
    /\ c \in Live \ Entered
    /\ channel' = [channel EXCEPT ![c].member = TRUE]
    /\ lagging' = lagging \ {c} /\ left' = left \ {c}
    /\ astray' = IF channel[c].own THEN astray \cup {<<"row", c>>} ELSE astray
    /\ UNCHANGED <<row, listed, item, doer, slips>>

\* One that leaves it: the post stays pinned, the place in the dialogs is lost.
Leaves(c) ==
    /\ channel' = [channel EXCEPT ![c].member = FALSE, ![c].top = FALSE]
    /\ lagging' = lagging \cup {c}

LeaveByLink(c) ==
    /\ "quit" \in Tasks /\ tasks < MaxTasks /\ tasks' = tasks + 1
    /\ c \in Entered /\ Leaves(c)
    /\ UNCHANGED <<row, listed, item, doer, left, astray, slips>>

\* sync_dialogs; leave_dialogs takes the ids that are in the list, or all of it.
BeginDialogs(h) ==
    /\ Begins(h, [Free EXCEPT !.does = "dialogs", !.at = "read"])
    /\ UNCHANGED item

BeginLeave(h) ==
    /\ \E S \in SUBSET listed \ {{}} :
          Begins(h, [Free EXCEPT !.does = "leave", !.found = S, !.at = "leave"])
    /\ UNCHANGED item

\* gone: those left by this task.
LeaveOne(h, c) ==
    /\ Doing(h, {"leave"}, "leave") /\ c \in doer[h].found
    /\ LET r == [doer[h] EXCEPT !.found = @ \ {c}, !.at = IF @ = "leave" /\ doer[h].found = {c}
                                                          THEN "read" ELSE @]
       IN IF c \in Entered
          THEN /\ Leaves(c)
               /\ left' = left \cup {c}
               /\ astray' = astray \ {<<"dialog", c>>}
               /\ Goes(h, [r EXCEPT !.gone = @ \cup {c}])
          ELSE Goes(h, r) /\ UNCHANGED <<channel, lagging, left, astray>>
    /\ UNCHANGED <<row, listed, item>>

\* get_dialogs, which may still name those just left.
ReadDialogs(h) ==
    /\ doer[h].at = "read"
    /\ \E late \in SUBSET lagging :
          Goes(h, [doer[h] EXCEPT !.found = Entered \cup late, !.at = "list"])
    /\ UNCHANGED <<channel, lagging, row, listed, item, left, astray>>

\* Mutant: the list as Telegram gave it.
Fresh(r) == r.found

\* The list in Redis: leave_dialogs takes out of it what it has left, without an await after
\* sync_dialogs has written it.
Shown(r) == r.found \ r.gone

\* A list read while another task was leaving, or before Telegram had noticed, brings back
\* what that one took out.
WriteDialogs(h) ==
    /\ doer[h].at = "list"
    /\ listed' = Shown(doer[h])
    /\ astray' = astray \cup {<<"dialog", c>> : c \in (doer[h].found \cap left) \ doer[h].gone}
    /\ Goes(h, Free)
    /\ UNCHANGED <<channel, lagging, row, item, left>>
\* Redis fails in between, which only warns: sync_dialogs leaves the old list, leave_dialogs its
\* ids in the list.
WritesAmiss(h) ==
    LET r == doer[h] IN
    /\ r.at = "list" /\ Slip
    /\ \E stored, pruned \in BOOLEAN :
          LET list == IF stored THEN r.found ELSE listed IN
          /\ ~(stored /\ pruned)
          /\ listed' = IF pruned THEN list \ r.gone ELSE list
          /\ astray' = astray \cup {<<"dialog", c>> : c \in left \cap listed'
                                         \cap IF stored THEN r.found ELSE r.gone}
    /\ doer' = [doer EXCEPT ![h] = Free]
    /\ UNCHANGED <<channel, lagging, row, item, left, tasks>>
-----------------------------------------------------------------------------
\* Telegram notices.
CatchUp(c) ==
    /\ c \in lagging /\ lagging' = lagging \ {c}
    /\ UNCHANGED <<channel, row, listed, item, doer, left, astray, tasks, slips>>

\* The list expires after an hour.
Expire ==
    /\ listed # {} /\ Slip /\ listed' = {}
    /\ UNCHANGED <<channel, lagging, row, item, doer, left, astray, tasks>>

\* What an errand that is cut off leaves behind it.
Debris(r) ==
    IF r.on = NoChannel THEN {}
    ELSE CASE r.does = "create" -> {<<"row", r.on>>}
           [] r.does # "create" /\ r.at = "row" -> {<<Concerns(r.does), r.on>>}
           [] OTHER -> {}

\* The time of a bulk item is over or its call raises: the item fails, though the change may
\* have been made, and may be retried; or the worker dies and the item stays running.
CutOff(h) ==
    /\ doer[h] # Free /\ Slip
    /\ astray' = astray \cup Debris(doer[h])
                        \cup {<<"dialog", c>> : c \in doer[h].gone \cap left \cap listed}
    /\ item' \in IF doer[h].does = "create" THEN {"failed", "running"} ELSE {item}
    /\ doer' = [doer EXCEPT ![h] = Free]
    /\ UNCHANGED <<channel, lagging, row, listed, left, tasks>>

OwnNext ==
    \/ Expire
    \/ \E c \in Channels : Join(c) \/ LeaveByLink(c) \/ CatchUp(c)
    \/ \E h \in Doers :
          \/ BeginCreate(h) \/ Create(h) \/ Decorate(h) \/ Record(h)
          \/ ManageFails(h) \/ ManagePins(h) \/ ManageDeletes(h) \/ ManageTop(h)
          \/ ManageRemoves(h) \/ ManageWrites(h) \/ ManageEnds(h)
          \/ BeginCompare(h) \/ CompareWrites(h)
          \/ BeginDialogs(h) \/ BeginLeave(h) \/ ReadDialogs(h) \/ WriteDialogs(h)
          \/ WritesAmiss(h) \/ CutOff(h)
          \/ \E n \in Posts \cup {NoPost} : FirstPost(h, n)
          \/ \E c \in Channels :
                \/ \E does \in Modes, n \in Posts \cup {NoPost} : BeginManage(h, does, c, n)
                \/ \E does \in {"ref", "unref"} : BeginRef(h, does, c)
                \/ \E answer \in {"there", "gone", "error"} : Probe(h, c, answer)
                \/ LeaveOne(h, c)

OwnSpec == OwnInit /\ [][OwnNext]_ownVars
-----------------------------------------------------------------------------
OwnTypeOK ==
    /\ \A c \in Channels : /\ channel[c].is \in {"unborn", "live", "deleted"}
                           /\ channel[c].pins \subseteq Posts
                           /\ row[c].pin \in Posts \cup {NoPost}
    /\ UNION {lagging, listed, left} \subseteq Channels
    /\ item \in {"queued", "running", "failed", "done"}
    /\ \A h \in Doers : doer[h].found \cup doer[h].gone \subseteq Channels
    /\ astray \subseteq {"row", "pin", "top", "dialog"} \X Channels

\* An errand that will write the field.
Writing(f, c) == \E h \in Doers : /\ doer[h].on = c /\ doer[h].at = "row"
                                  /\ Concerns(doer[h].does) = f

\* A channel the account created and is still in has its row as soon as the creation is over,
\* and a channel deleted has none as soon as the deletion is: unless one of them was cut off,
\* or the account came back by a link (create_channel.py, sync_project_channels).  An item
\* creates one channel, unless it was cut off and retried.
ChannelsListed ==
    \A c \in Channels : <<"row", c>> \notin astray =>
        /\ (c \in Entered /\ channel[c].own) =>
              row[c].there \/ \E h \in Doers : doer[h].does = "create" /\ doer[h].on = c
        /\ (channel[c].is = "deleted" /\ row[c].there) => Writing("row", c)
        /\ channel[c].own => \A d \in Channels \ {c} : channel[d].own => <<"row", d>> \in astray

\* The post the row names is pinned, and the place in the dialogs is as the row says, unless
\* an errand is about to write it, two did so at once, one was cut off, the post was deleted,
\* or the place changed by way of a link (manage_channel_post.py).
PinsTrue ==
    \A c \in Entered : (row[c].there /\ <<"row", c>> \notin astray) =>
        /\ \/ row[c].pin \in channel[c].pins \cup {NoPost}
           \/ <<"pin", c>> \in astray \/ Writing("pin", c)
        /\ \/ row[c].top = channel[c].top
           \/ <<"top", c>> \in astray \/ Writing("top", c)

\* What a task has left is not in the list once the task is over, although Telegram may still
\* name it (leave_dialogs_impl), unless Redis failed it; another task may bring it back.
LeftUnlisted ==
    \A c \in left \cap listed :
        \/ <<"dialog", c>> \in astray
        \/ \E h \in Doers : c \in doer[h].gone /\ doer[h].does = "leave"

ChannelsKept == ChannelsListed /\ PinsTrue /\ LeftUnlisted
=============================================================================
