----------------------------- MODULE Collectors -----------------------------
(***************************************************************************)
(* modules/parsing/parser: the four collectors of people.  Each creates    *)
(* its list, reads on with a borrowed client until it has enough, and then *)
(* filters and stores what it found, with the reasons for what it left     *)
(* out.  They count towards max_targets each in a way of its own: authors  *)
(* of messages that are good for the list, commenters with enough          *)
(* comments, reactors of any kind, members before the filters.             *)
(***************************************************************************)
EXTENDS Integers, FiniteSets

CONSTANTS
    Persons_,  \* who is in the chat
    Wants,    \* max_targets; 0: all there are
    Enough_,   \* min_messages, min_reactions
    Overscan,  \* _OVERSCAN_FACTOR
    MaxRead    \* bound on messages, posts or members read

CollectorsAssumption == /\ IsFiniteSet(Persons_) /\ Wants \subseteq Nat
                        /\ {Enough_, Overscan} \subseteq Nat \ {0} /\ MaxRead \in Nat

VARIABLES
    kind_,     \* which collector
    goal,      \* max_targets
    strict,    \* require_username
    looks,     \* what the filters would say of each person, once they see him
    stage,     \* where the collector is
    times,     \* messages, comments or reactions read of each
    faces,     \* who came with a snapshot: without one there is no username, and no bot flag
    counted,   \* authors counted as good (chat_messages)
    tally,     \* qualified and skipped so far
    read,      \* messages, posts or members read
    ended,     \* the window or the chat came to its end
    result     \* the list: whether it is there, whom it has, the reasons, raw_count

collectVars == <<kind_, goal, strict, looks, stage, times, faces, counted, tally, read,
                 ended, result>>
given == <<kind_, goal, strict, looks>>
reading == <<times, faces, counted, tally, read, ended>>

Reasons == {"unfit", "barred", "few", "away", "no_chat"}
NoReasons == [r \in Reasons |-> 0]
Empty == [there |-> FALSE, targets |-> {}, why |-> NoReasons, raw |-> 0]

\* unfit: a bot, deleted, a scam...; barred: on a blacklist; away: not seen recently.
CollectInit ==
    /\ kind_ \in {"messages", "commenters", "reactors", "members"}
    /\ goal \in Wants /\ strict \in BOOLEAN
    /\ looks \in [Persons_ -> {"fit", "unfit", "barred", "away"}]
    /\ kind_ # "members" => \A p \in Persons_ : looks[p] # "away"
    /\ kind_ \in {"reactors", "members"} => ~strict
    /\ stage = "new" /\ times = [p \in Persons_ |-> 0] /\ faces = {} /\ counted = {}
    /\ tally = [qualified |-> 0, skipped |-> 0] /\ read = 0 /\ ended = FALSE
    /\ result = Empty

Heard == {p \in Persons_ : times[p] > 0}

\* _row_from: without a snapshot a row has no username, and none of the flags.
Faceless(p, seen) == p \notin seen

\* Neither online lately nor within a week, or nobody knows; which only members are asked for.
Away(p) == kind_ = "members" /\ looks[p] = "away"

\* first_drop_reason without the blacklist, and with it.
InlineReason(p, seen) ==
    IF Faceless(p, seen) THEN (IF strict THEN "unfit" ELSE "none")
    ELSE IF looks[p] = "unfit" THEN "unfit" ELSE "none"

DropReason(p) ==
    CASE InlineReason(p, faces) # "none" -> InlineReason(p, faces)
      [] InlineReason(p, faces) = "none" /\ looks[p] = "barred" -> "barred"
      [] OTHER -> "none"
-----------------------------------------------------------------------------
\* check_and_reserve says no, and there is no list; or the list is created and committed.
Opens ==
    /\ stage = "new"
    /\ \/ stage' = "over" /\ UNCHANGED result
       \/ stage' = "listed" /\ result' = [Empty EXCEPT !.there = TRUE]
    /\ UNCHANGED <<given, reading>>

\* The client is there and knows the chat, which it joins if it can.  A channel may have no
\* group for comments.
Enters ==
    /\ stage = "listed"
    /\ stage' \in {"reading"} \cup (IF kind_ = "commenters" THEN {"alone"} ELSE {})
    /\ UNCHANGED <<given, reading, result>>

\* Mutant: one more.
ReachedBeyond(n) == goal > 0 /\ n > goal

\* apply_max_targets.
Reached(n) == goal > 0 /\ n >= goal

\* Once there is enough, on to the filters; else on, or out if a heartbeat before finds a stop.
GoesOn(enough) ==
    /\ read < MaxRead /\ read' = read + 1
    /\ stage' \in (IF enough THEN {"read"} ELSE {"reading"}) \cup {"over"}

\* Mutant: whoever said enough is counted.
ReadMessageAnybody(p, shown) ==
    LET n == [times EXCEPT ![p] = @ + 1]
        good == IF n[p] >= Enough_ THEN counted \cup {p} ELSE counted
        q == IF n[p] = Enough_ THEN tally.qualified + 1 ELSE tally.qualified IN
    /\ kind_ = "messages" /\ stage = "reading"
    /\ times' = n /\ faces' = faces \cup shown /\ counted' = good
    /\ tally' = [tally EXCEPT !.qualified = q]
    /\ GoesOn(Reached(Cardinality(good)) \/ (goal > 0 /\ q >= goal * Overscan))
    /\ UNCHANGED <<given, ended, result>>

\* A message of p; its sender may come along.  Whoever has said enough and passes the filters
\* that need no database is counted, once.
ReadMessage(p, shown) ==
    LET n == [times EXCEPT ![p] = @ + 1]
        good == IF n[p] >= Enough_ /\ InlineReason(p, faces \cup shown) = "none"
                THEN counted \cup {p} ELSE counted
        q == IF n[p] = Enough_ THEN tally.qualified + 1 ELSE tally.qualified IN
    /\ kind_ = "messages" /\ stage = "reading"
    /\ times' = n /\ faces' = faces \cup shown /\ counted' = good
    /\ tally' = [tally EXCEPT !.qualified = q]
    /\ GoesOn(Reached(Cardinality(good)) \/ (goal > 0 /\ q >= goal * Overscan))
    /\ UNCHANGED <<given, ended, result>>

\* A comment of p: whoever has made enough counts.
ReadComment(p, shown) ==
    LET q == IF times[p] + 1 = Enough_ THEN tally.qualified + 1 ELSE tally.qualified IN
    /\ kind_ = "commenters" /\ stage = "reading"
    /\ times' = [times EXCEPT ![p] = @ + 1] /\ faces' = faces \cup shown
    /\ tally' = [tally EXCEPT !.qualified = q]
    /\ GoesOn(Reached(q))
    /\ UNCHANGED <<given, counted, ended, result>>

\* The reactions to a post, all of them; a post without any is passed over, with no heartbeat.
ReadPost(who) ==
    /\ kind_ = "reactors" /\ stage = "reading"
    /\ times' = [p \in Persons_ |-> IF p \in who THEN times[p] + 1 ELSE times[p]]
    /\ faces' = faces \cup who
    /\ GoesOn(Reached(Cardinality(Heard \cup who)))
    /\ UNCHANGED <<given, counted, tally, ended, result>>

\* Mutant: who was not seen recently is left out without a word.
ReadMemberSilently(p) ==
    LET rows == Heard \cup {p} IN
    /\ kind_ = "members" /\ stage = "reading" /\ times[p] = 0
    /\ times' = [times EXCEPT ![p] = 1] /\ faces' = faces \cup {p} /\ UNCHANGED tally
    /\ GoesOn(~Away(p) /\ Reached(Cardinality({r \in rows : ~Away(r)})))
    /\ UNCHANGED <<given, counted, ended, result>>

\* A member, each once.  One who was not seen recently is only noted.
ReadMember(p) ==
    LET rows == Heard \cup {p} IN
    /\ kind_ = "members" /\ stage = "reading" /\ times[p] = 0
    /\ times' = [times EXCEPT ![p] = 1] /\ faces' = faces \cup {p}
    /\ tally' = [tally EXCEPT !.skipped = IF Away(p) THEN @ + 1 ELSE @]
    /\ GoesOn(~Away(p) /\ Reached(Cardinality({r \in rows : ~Away(r)})))
    /\ UNCHANGED <<given, counted, ended, result>>

\* A message older than the window; no more messages, posts or members.
WindowEnds ==
    /\ stage = "reading" /\ stage' = "read" /\ ended' = TRUE
    /\ UNCHANGED <<given, times, faces, counted, tally, read, result>>

\* No client, no such chat, Telegram says no in the middle.  The client is given back.
Breaks ==
    /\ stage \in {"listed", "reading", "read", "alone"} /\ stage' = "over"
    /\ UNCHANGED <<given, reading, result>>

\* The user deletes the list.
Dropped ==
    /\ result.there /\ stage \notin {"done", "over"}
    /\ result' = Empty
    /\ UNCHANGED <<given, stage, reading>>

Few == {p \in Heard : times[p] < Enough_}
Kept(rows) == {p \in rows : DropReason(p) = "none"}

\* The filters, the insert of what they leave and the counts in one transaction, which fails if
\* there is somebody to insert and no list.
Commits(rows, before, raw) ==
    LET Out(r) == Cardinality({p \in rows : DropReason(p) = r}) IN
    /\ \/ /\ result.there /\ stage' = "done"
          /\ result' = [there |-> TRUE, targets |-> Kept(rows), raw |-> raw,
                        why |-> [before EXCEPT !.unfit = Out("unfit"),
                                               !.barred = Out("barred")]]
       \/ /\ ~result.there /\ UNCHANGED result
          /\ stage' = IF Kept(rows) = {} THEN "done" ELSE "over"
    /\ UNCHANGED <<given, reading>>

\* raw_count is what the filters left.
StoreAuthors ==
    LET rows == Heard \ Few IN
    /\ kind_ = "messages" /\ stage = "read"
    /\ Commits(rows, [NoReasons EXCEPT !.few = Cardinality(Few)], Cardinality(Kept(rows)))

StoreCommenters ==
    /\ kind_ = "commenters" /\ stage \in {"read", "alone"}
    /\ Commits(Heard \ Few, [NoReasons EXCEPT !.few = Cardinality(Few),
                                !.no_chat = IF stage = "alone" THEN 1 ELSE 0],
               Cardinality(Heard))

StoreReactors ==
    /\ kind_ = "reactors" /\ stage = "read"
    /\ Commits(Heard \ Few, [NoReasons EXCEPT !.few = Cardinality(Few)], Cardinality(Heard))

StoreMembers ==
    /\ kind_ = "members" /\ stage = "read"
    /\ Commits({p \in Heard : ~Away(p)}, [NoReasons EXCEPT !.away = tally.skipped],
               Cardinality(Heard))
-----------------------------------------------------------------------------
CollectNext ==
    \/ Opens \/ Enters \/ WindowEnds \/ Breaks \/ Dropped
    \/ StoreAuthors \/ StoreCommenters \/ StoreReactors \/ StoreMembers
    \/ \E p \in Persons_ : \E shown \in SUBSET {p} :
          ReadMessage(p, shown) \/ ReadComment(p, shown)
    \/ \E p \in Persons_ : ReadMember(p)
    \/ \E who \in SUBSET Persons_ : ReadPost(who)

CollectSpec == CollectInit /\ [][CollectNext]_collectVars
-----------------------------------------------------------------------------
(* Properties *)

\* The collector and its list are well formed.
CollectTypeOK ==
    /\ kind_ \in {"messages", "commenters", "reactors", "members"}
    /\ goal \in Wants /\ strict \in BOOLEAN /\ ended \in BOOLEAN
    /\ looks \in [Persons_ -> {"fit", "unfit", "barred", "away"}]
    /\ stage \in {"new", "listed", "reading", "read", "alone", "done", "over"}
    /\ times \in [Persons_ -> 0..MaxRead] /\ read \in 0..MaxRead
    /\ faces \cup counted \cup result.targets \subseteq Persons_
    /\ tally.qualified \in Nat /\ tally.skipped \in Nat
    /\ result.there \in BOOLEAN /\ result.why \in [Reasons -> Nat] /\ result.raw \in Nat

Finished == stage = "done" /\ result.there

\* Whoever was read is in the list or among the reasons, once: nobody is lost between the
\* thresholds, the filters before the list and those after it (chat_members.py:85-88).  A
\* channel without comments is a reason though nobody was read.
EverybodyAccounted ==
    Finished => Cardinality(Heard) =
                    Cardinality(result.targets) + result.why.unfit + result.why.barred
                        + result.why.few + result.why.away

\* No collector stores more than max_targets, however late a username or a snapshot comes;
\* except the one of reactions, which looks only after each post (post_reactors.py:104-112).
NoMoreThanAsked ==
    goal > 0 /\ kind_ # "reactors" => Cardinality(result.targets) <= goal

\* chat_messages goes on until it has as many as were asked for, the window ends or the chat
\* proves unfit (chat_messages.py:131-136).  It stops early for those it counted and then
\* loses: the blacklisted, and those who were counted before they were seen
\* (chat_messages.py:155-158, 188-194).
AsManyAsAsked ==
    Finished /\ kind_ = "messages" /\ goal > 0 /\ ~ended /\ tally.qualified < goal * Overscan
        => Cardinality(result.targets \cup
               {p \in counted : looks[p] = "barred" \/ (looks[p] = "unfit" /\ ~strict)}) >= goal
=============================================================================
