----------------------------- MODULE Discovery ------------------------------
(***************************************************************************)
(* modules/parsing/parser: the two collectors of channels and chats.       *)
(* discover_communities goes from seeds to what Telegram finds for a word, *)
(* to the channels it recommends, level by level, and to what the posts of *)
(* the seeds mention.  enrich_communities takes the links it is given.     *)
(* Either stores what its filters leave.  Telegram's answers and the       *)
(* verdict of the filters are choices.                                     *)
(***************************************************************************)
EXTENDS Integers, Sequences, FiniteSets, Functions, SequencesExt

CONSTANTS
    Sites,     \* channels, chats and persons; of enrich_communities, links
    Limits_,    \* what max_results may be
    Depth,      \* levels of recommendations
    MaxSeeds,   \* bound on seeds, and on links
    MaxNews     \* bound on answers of searches and posts

DiscoveryAssumption == /\ IsFiniteSet(Sites)
                       /\ Limits_ \cup {MaxSeeds, MaxNews} \subseteq Nat /\ Depth \in Nat \ {0}

VARIABLES
    task,       \* which collector
    limit,      \* max_results
    nature,     \* what each place is; a person has no title
    spot,       \* where the collector is
    seeds,      \* seed_entities: the seeds that were resolved
    candidates, \* what has been found
    frontier, next_, level,  \* of the recommendations
    links,      \* rows: the links that are to be kept
    tried,      \* seeds or links looked at
    failed_,    \* how many of them are dropped, or filtered out
    news,       \* answers of searches and posts so far
    found_,     \* the list: whether it is there, what it has, raw_count and the drops
    asked,      \* how often each was asked for recommendations
    passed,     \* what an answer named and the loop did not come to
    behind      \* those of them that came after a known one

discVars == <<task, limit, nature, spot, seeds, candidates, frontier, next_, level, links,
              tried, failed_, news, found_, asked, passed, behind>>
walk == <<frontier, next_, level, asked>>
notes_ == <<passed, behind>>
intake_ == <<seeds, links, tried, failed_>>

Titled == {p \in Sites : nature[p] # "person"}
None_ == [there |-> FALSE, items |-> {}, raw |-> 0, out |-> 0, already |-> 0]

DiscInit ==
    /\ task \in {"discover", "enrich"} /\ limit \in Limits_
    /\ nature \in [Sites -> {"channel", "chat", "person"}]
    /\ task = "enrich" => \A p \in Sites : nature[p] = "channel"
    /\ spot = "new" /\ seeds = <<>> /\ candidates = {}
    /\ frontier = <<>> /\ next_ = <<>> /\ level = 0
    /\ links = <<>> /\ tried = 0 /\ failed_ = 0 /\ news = 0
    /\ found_ = None_ /\ asked = [p \in Sites |-> 0] /\ passed = {} /\ behind = {}

\* _add, and whether it answers that there is more to add.
Add(known, p) == IF p \in Titled THEN known \cup {p} ELSE known

\* Mutant: the limit is left out.
MoreWithoutLimit(known, p) == p \in Titled \ known

\* Mutant: full before it is.
MoreTooShort(known, p) == p \in Titled \ known /\ Cardinality(known \cup {p}) + 1 < limit

More(known, p) == p \in Titled \ known /\ Cardinality(known \cup {p}) < limit

\* The loop over an answer breaks at the first one _add says no to.
Before(answer, i) == candidates \cup Range(SubSeq(answer, 1, i - 1))
Goes_(answer, i) == \A k \in 1..i : More(Before(answer, k), answer[k])
Come(answer) == {i \in DOMAIN answer : i = 1 \/ Goes_(answer, i - 1)}

Takes(answer) == candidates' = candidates \cup {answer[i] : i \in Come(answer)}

\* Mutant: chats and known ones too.
NewlyAny(answer) == [i \in Come(answer) |-> answer[i]]

\* The channels among what was new to the loop, in their order.
Newly(answer) ==
    LET new == {i \in DOMAIN answer : Goes_(answer, i) /\ nature[answer[i]] = "channel"} IN
    [k \in 1..Cardinality(new) |->
        answer[CHOOSE i \in new : Cardinality({j \in new : j <= i}) = k]]

\* What the break has cost.
Notes(answer) ==
    LET rest == {answer[i] : i \in DOMAIN answer \ Come(answer)}
        last == CHOOSE i \in 0..Len(answer) : Come(answer) = 1..i IN
    /\ passed' = passed \cup rest
    /\ behind' = IF last > 0 /\ answer[last] \in Before(answer, last) THEN behind \cup rest
                 ELSE behind

Answers_ == {a \in SeqOf(Titled, 2) : a # <<>> /\ IsInjective(a)}
Room == Cardinality(candidates) < limit
-----------------------------------------------------------------------------
\* The governor says no; or the list is committed, and the client comes or does not.
Opens_ ==
    /\ spot = "new"
    /\ \/ spot' = "over" /\ UNCHANGED found_
       \/ spot' \in {IF task = "discover" THEN "seeds" ELSE "links", "over"}
          /\ found_' = [None_ EXCEPT !.there = TRUE]
    /\ UNCHANGED <<task, limit, nature, candidates, walk, intake_, news, notes_>>

\* A seed is resolved, be it a person, or it is not.
Seed ==
    /\ spot = "seeds" /\ tried < MaxSeeds /\ tried' = tried + 1
    /\ \/ \E p \in Sites : /\ seeds' = Append(seeds, p) /\ candidates' = Add(candidates, p)
                            /\ UNCHANGED failed_
       \/ failed_' = failed_ + 1 /\ UNCHANGED <<seeds, candidates>>
    /\ UNCHANGED <<task, limit, nature, spot, walk, links, news, found_, notes_>>

\* From one part to the next, by what the request asks for and what there is.
Proceeds ==
    /\ \/ spot = "seeds" /\ spot' = "search" /\ UNCHANGED <<frontier, level>>
       \/ spot = "search" /\ spot' = "walk" /\ seeds # <<>> /\ frontier' = seeds /\ level' = 1
       \/ spot = "search" /\ spot' = "look" /\ UNCHANGED <<frontier, level>>
       \/ spot = "look" /\ spot' \in {"over"} \cup (IF seeds = <<>> THEN {} ELSE {"posts"})
          /\ UNCHANGED <<frontier, level>>
       \/ spot \in {"look", "posts"} /\ spot' = "ready" /\ UNCHANGED <<frontier, level>>
    /\ UNCHANGED <<task, limit, nature, candidates, next_, asked, intake_, news, found_>>
    /\ UNCHANGED notes_

Heard_ == news < MaxNews /\ news' = news + 1

\* A word is searched for, if there is room; a failure finds nothing.
Search ==
    /\ spot = "search" /\ Room /\ Heard_
    /\ \E answer \in Answers_ : Takes(answer) /\ Notes(answer)
    /\ UNCHANGED <<task, limit, nature, spot, walk, intake_, found_>>

\* The next of the frontier is asked; what is new and a channel is asked on the next level.
Recommend ==
    LET place == Head(frontier) IN
    /\ spot = "walk" /\ frontier # <<>> /\ Room
    /\ asked' = [asked EXCEPT ![place] = @ + 1]
    /\ frontier' = Tail(frontier)
    /\ \/ UNCHANGED <<candidates, next_, notes_, news>>
       \/ /\ nature[place] # "person" /\ Heard_
          /\ \E answer \in Answers_ :
                Takes(answer) /\ Notes(answer) /\ next_' = next_ \o Newly(answer)
    /\ UNCHANGED <<task, limit, nature, spot, level, intake_, found_>>

\* The level is done; there may be another one.  A heartbeat follows the last one.
NextLevel ==
    /\ spot = "walk" /\ (frontier = <<>> \/ ~Room)
    /\ IF level < Depth /\ Room /\ next_ # <<>>
       THEN frontier' = next_ /\ level' = level + 1 /\ UNCHANGED spot
       ELSE spot' = "look" /\ frontier' = <<>> /\ UNCHANGED level
    /\ next_' = <<>>
    /\ UNCHANGED <<task, limit, nature, candidates, asked, intake_, news, found_, notes_>>

\* A post of a seed was forwarded from a place or mentions one.
Mentioned ==
    /\ spot = "posts" /\ Room /\ Heard_
    /\ \/ \E p \in Sites : candidates' = Add(candidates, p) /\ UNCHANGED failed_
       \/ failed_' = failed_ + 1 /\ UNCHANGED candidates
    /\ UNCHANGED <<task, limit, nature, spot, walk, seeds, links, tried, found_, notes_>>

\* The links, by which rows are told apart (input_ref): two that lead to one community are two
\* rows.
Leads == Sites

\* A link of enrich_communities: a folder, broken, filtered out; or kept.
Link ==
    /\ spot = "links" /\ tried < MaxSeeds /\ tried' = tried + 1
    /\ \/ \E p \in Leads : links' = Append(links, p) /\ UNCHANGED failed_
       \/ failed_' = failed_ + 1 /\ UNCHANGED links
    /\ UNCHANGED <<task, limit, nature, spot, seeds, candidates, walk, news, found_, notes_>>

\* A heartbeat, at a kept link only: a stop ends the task.
LinksEnd ==
    /\ spot = "links" /\ spot' \in {"ready", "over"}
    /\ UNCHANGED <<task, limit, nature, candidates, walk, intake_, news, found_, notes_>>

Deleted ==
    /\ found_.there /\ spot \notin {"done", "over"} /\ found_' = None_
    /\ UNCHANGED <<task, limit, nature, spot, candidates, walk, intake_, news, notes_>>

\* Mutant: a link that was given twice is not noted.
KeepForgetful(items) ==
    found_' = [there |-> TRUE, items |-> items, already |-> 0,
               out |-> failed_,
               raw |-> IF task = "enrich" THEN tried ELSE Cardinality(candidates)]

\* The insert passes over an input_ref that it has: a link given twice, while what was
\* discovered has one each.
Keep(items) ==
    found_' = [there |-> TRUE, items |-> items,
               already |-> IF task = "enrich" THEN Len(links) - Cardinality(items) ELSE 0,
               out |-> IF task = "enrich" THEN failed_
                       ELSE failed_ + Cardinality(candidates \ items),
               raw |-> IF task = "enrich" THEN tried ELSE Cardinality(candidates)]

\* first_community_drop_reason, and an entity that cannot be looked at, may leave any of them.
Left == SUBSET candidates

\* The candidates are looked at and filtered, with no heartbeat; then the rows and the counts
\* are committed, which fails for rows without a list.
Store_ ==
    /\ spot = "ready"
    /\ \E items \in IF task = "enrich" THEN {Range(links)} ELSE Left :
          \/ found_.there /\ Keep(items) /\ spot' = "done"
          \/ ~found_.there /\ UNCHANGED found_ /\ spot' = IF items = {} THEN "done" ELSE "over"
    /\ UNCHANGED <<task, limit, nature, candidates, walk, intake_, news, notes_>>
-----------------------------------------------------------------------------
DiscNext ==
    \/ Opens_ \/ Seed \/ Proceeds \/ Search \/ Recommend \/ NextLevel \/ Mentioned
    \/ Link \/ LinksEnd \/ Deleted \/ Store_

DiscSpec == DiscInit /\ [][DiscNext]_discVars
-----------------------------------------------------------------------------
(* Properties *)

\* The collector is well formed.
DiscTypeOK ==
    /\ spot \in {"new", "seeds", "search", "walk", "look", "posts", "links", "ready", "done",
                 "over"}
    /\ Range(seeds) \cup Range(frontier) \cup Range(next_) \subseteq Sites
    /\ candidates \cup found_.items \cup passed \cup behind \subseteq Titled
    /\ level \in 0..Depth /\ tried \in 0..MaxSeeds /\ news \in 0..MaxNews
    /\ asked \in [Sites -> Nat] /\ Range(links) \subseteq Sites /\ failed_ \in Nat
    /\ found_.there \in BOOLEAN /\ {found_.raw, found_.out, found_.already} \subseteq Nat

\* There are never more candidates than max_results, unless the seeds alone are more
\* (community_discover.py:146-163: the seeds are added whatever _add says).
ResultsBounded ==
    \/ Cardinality(candidates) <= limit
    \/ candidates \subseteq Range(seeds)

\* Nobody is asked for recommendations twice, but a seed that was given twice; and no chat is
\* asked that is not a seed.
AskedOnce ==
    \A p \in Sites :
        /\ asked[p] <= 1 \/ asked[p] <= Cardinality({i \in DOMAIN seeds : seeds[i] = p})
        /\ asked[p] > 0 /\ nature[p] = "chat" => p \in Range(seeds)

\* What an answer named is a candidate, unless there are max_results of them; or unless it came
\* after a known one, at which the loops break as they do when there is no room
\* (community_discover.py:184-186, 231-234).
NothingPassedOver ==
    passed \subseteq candidates \cup behind \/ Cardinality(candidates) >= limit

\* Every link is stored, or counted as dropped or as stored before.
LinksAccounted ==
    spot = "done" /\ found_.there /\ task = "enrich" =>
        found_.raw = Cardinality(found_.items) + found_.out + found_.already
=============================================================================
