-------------------------- MODULE BackgroundProofs ---------------------------
(***************************************************************************)
(* Proofs about what runs in the background, for any number of jobs,       *)
(* rows, places, accounts and goals.  Parsing: a job that is on has its    *)
(* task, and its count is that of its rows.  Collectors and Discovery:     *)
(* what a list ends up with, and what is left out of it.  Autopilot: a     *)
(* tick keeps to the quota and to the goals.                               *)
(***************************************************************************)
EXTENDS Parsing, Collectors, Discovery, Autopilot, FiniteSetTheorems, WellFoundedInduction,
        TLAPS

(*************** Parsing ***************)

JobStates == Active \cup {"none", "done", "failed", "stopped"}
Commands == {"pause", "run", "stop"}
RequestRows == [op: Commands \cup {"none", "thin"}, on: Lists \cup {""},
                saw: JobStates \cup {""}, gone: SUBSET People, left: Nat]

\* What a request has in hand: a job that was started, or a list and rows of it.
RequestsFit ==
    /\ request \in [Requests_ -> RequestRows]
    /\ \A r \in Requests_ :
          /\ request[r].op \in Commands => request[r].on \in Jobs /\ at[request[r].on] # "none"
          /\ request[r].op = "thin" => request[r].on \in Lists

JobsFit ==
    /\ \A j \in Jobs : at[j] = "none" <=> status_[j] = "none"
    /\ ActiveJobHasTask

\* Deletions of rows that are under way: the list waits for them, no row is in two of them, and
\* what is counted to be left is no less than what will be left.
Thins(r, l) == request[r].op = "thin" /\ request[r].on = l

ThinsFit ==
    \A l \in Lists : \A r \in Requests_ : Thins(r, l) =>
        /\ list_[l].there /\ request[r].gone \subseteq list_[l].targets /\ request[r].gone # {}
        /\ request[r].left >= Cardinality(list_[l].targets \ request[r].gone)
        /\ l \notin blurred => request[r].left = Cardinality(list_[l].targets \ request[r].gone)
        /\ \A q \in Requests_ : Thins(q, l) /\ q # r =>
              /\ l \in blurred
              /\ request[q].gone \cap request[r].gone = {}

\* A job has no targets before it stores them.
StoredOnce == \A j \in Jobs : at[j] \notin {"stored", "over"} => list_[j].targets = {}

ListsFit == CountIsRows /\ ThinsFit /\ StoredOnce

ParInv == ParTypeOK /\ RequestsFit /\ JobsFit /\ ListsFit
-----------------------------------------------------------------------------
LEMMA ParActions ==
  ParNext <=>
    \/ \E j \in Jobs : \/ StartJob(j) \/ EnqueueJob(j) \/ BeginRun(j) \/ OpenList(j) \/ ReadChunk(j)
                       \/ Heartbeat(j) \/ StoreTargets(j) \/ Done(j) \/ Fails(j) \/ JobLost(j)
    \/ \E r \in Requests_ : \E j \in Jobs : Command(r, j)
    \/ \E r \in Requests_ : CommitCommand(r)
    \/ \E r \in Requests_ : \E l \in Lists : Thin(r, l)
    \/ \E r \in Requests_ : CommitThin(r)
    \/ \E l \in Lists : DropList(l)
    \/ \E d \in Derived : \E l, m \in Lists : Combine(d, l, m)
BY DEF ParNext, Runs

ListRows == [there: BOOLEAN, targets: SUBSET People, kept: Nat]

LEMMA PeopleCount ==
  ASSUME ParsingAssumption, NEW S \in SUBSET People
  PROVE  /\ IsFiniteSet(S) /\ Cardinality(S) \in Nat
         /\ \A T \in SUBSET S : Cardinality(T) <= Cardinality(S)
  BY FS_Subset, FS_CardinalityType DEF ParsingAssumption

LEMMA FreshListFits ==
  ASSUME ParsingAssumption, NEW S \in SUBSET People
  PROVE  /\ FreshList(S) \in ListRows /\ FreshList(S).there /\ FreshList(S).targets = S
         /\ FreshList(S).kept = Cardinality(S)
  BY PeopleCount DEF FreshList, ListRows

LEMMA NoListFits ==
  ParsingAssumption => /\ NoList \in ListRows /\ ~NoList.there /\ NoList.targets = {}
                       /\ NoList.kept = Cardinality(NoList.targets)
  BY FS_EmptySet DEF NoList, ListRows

LEMMA SelectedFits ==
  ASSUME ParTypeOK, NEW l \in Lists, NEW m \in Lists,
         NEW op \in {"intersect", "union", "subtract", "sample"}, NEW chosen \in Selected(op, l, m)
  PROVE  chosen \subseteq People
<1>1. list_[l].targets \subseteq People /\ list_[m].targets \subseteq People
  BY DEF ParTypeOK
<1>2. CASE op = "intersect"
  BY <1>1, <1>2 DEF Selected
<1>3. CASE op = "union"
  BY <1>1, <1>3 DEF Selected
<1>4. CASE op = "subtract"
  BY <1>1, <1>4 DEF Selected
<1>5. CASE op = "sample"
  BY <1>1, <1>5 DEF Selected
<1> QED BY <1>2, <1>3, <1>4, <1>5

LEMMA NoRequestFits ==
  NoRequest \in RequestRows /\ NoRequest.op = "none" /\ NoRequest.gone = {}
<1>1. NoRequest.op = "none" /\ NoRequest.gone = {}
  BY DEF NoRequest
<1>2. {} \in SUBSET People /\ 0 \in Nat /\ "" \in Lists \cup {""} /\ "" \in JobStates \cup {""}
  OBVIOUS
<1>3. "none" \in Commands \cup {"none", "thin"}
  OBVIOUS
<1> HIDE DEF Lists
<1>4. NoRequest \in RequestRows
  BY <1>2, <1>3 DEF NoRequest, RequestRows
<1> QED BY <1>1, <1>4

\* What a request to control a job, and one to delete rows of a list, has in hand.
CommandOn(op, j, saw) == [NoRequest EXCEPT !.op = op, !.on = j, !.saw = saw]
ThinOf(l, gone, left) == [NoRequest EXCEPT !.op = "thin", !.on = l, !.gone = gone, !.left = left]

LEMMA CommandRow ==
  ASSUME NEW op \in Commands, NEW j \in Jobs, NEW saw \in JobStates
  PROVE  /\ CommandOn(op, j, saw) \in RequestRows
         /\ CommandOn(op, j, saw).op = op /\ CommandOn(op, j, saw).on = j
<1>1. op \in Commands \cup {"none", "thin"} /\ j \in Lists \cup {""} /\ saw \in JobStates \cup {""}
  BY DEF Lists
<1> QED BY <1>1, NoRequestFits DEF RequestRows, CommandOn

LEMMA ThinRow ==
  ASSUME NEW l \in Lists, NEW gone \in SUBSET People, NEW left \in Nat
  PROVE  /\ ThinOf(l, gone, left) \in RequestRows
         /\ ThinOf(l, gone, left).op = "thin" /\ ThinOf(l, gone, left).on = l
         /\ ThinOf(l, gone, left).gone = gone /\ ThinOf(l, gone, left).left = left
<1>1. "thin" \in Commands \cup {"none", "thin"} /\ l \in Lists \cup {""}
  OBVIOUS
<1> HIDE DEF Commands, Lists, JobStates
<1> QED BY <1>1, NoRequestFits DEF RequestRows, ThinOf

LEMMA ParTypeKeeps ==
  ASSUME ParsingAssumption, ParTypeOK, RequestsFit, JobsFit, ParNext
  PROVE  ParTypeOK' /\ RequestsFit'
<1>j. ASSUME UNCHANGED request, at' \in [Jobs -> Working \cup {"none", "over"}],
             \A j \in Jobs : at[j] # "none" => at'[j] # "none"
      PROVE  RequestsFit'
  BY <1>j DEF RequestsFit
<1>t. /\ status_ \in [Jobs -> JobStates] /\ at \in [Jobs -> Working \cup {"none", "over"}]
      /\ list_ \in [Lists -> ListRows] /\ control \in [Jobs -> Commands]
      /\ found \in [Jobs -> SUBSET People]
  BY DEF ParTypeOK, JobStates, ListRows, Commands
<1>r. ASSUME RequestsFit'
      PROVE  \A r \in Requests_ : /\ request'[r].op \in {"none", "pause", "run", "stop", "thin"}
                                  /\ request'[r].gone \subseteq People /\ request'[r].left \in Nat
  BY <1>r DEF RequestsFit, RequestRows, Commands
<1>f. ASSUME RequestsFit', status_' \in [Jobs -> JobStates], control' \in [Jobs -> Commands],
             at' \in [Jobs -> Working \cup {"none", "over"}], found' \in [Jobs -> SUBSET People],
             list_' \in [Lists -> ListRows], commands' \in Nat, misfits' \in Nat,
             lost' \cup late' \subseteq Jobs /\ blurred' \subseteq Lists
      PROVE  ParTypeOK' /\ RequestsFit'
  BY <1>f, <1>r DEF ParTypeOK, JobStates, ListRows, Commands
<1>n. commands \in Nat /\ misfits \in Nat /\ lost \cup late \subseteq Jobs /\ blurred \subseteq Lists
  BY DEF ParTypeOK
<1>1. CASE \E j \in Jobs : StartJob(j) \/ EnqueueJob(j)
  <2> PICK j \in Jobs : StartJob(j) \/ EnqueueJob(j)
    BY <1>1
  <2>1. status_' \in [Jobs -> JobStates] /\ at' \in [Jobs -> Working \cup {"none", "over"}]
    BY <1>t DEF StartJob, EnqueueJob, JobStates, Active, Working
  <2>2. \A k \in Jobs : at[k] # "none" => at'[k] # "none"
    BY <1>t DEF StartJob, EnqueueJob
  <2>3. UNCHANGED <<control, found, list_, request, notes>>
    BY DEF StartJob, EnqueueJob
  <2> QED BY <1>f, <1>j, <1>n, <1>t, <2>1, <2>2, <2>3 DEF notes
<1>2. CASE \E j \in Jobs : BeginRun(j) \/ OpenList(j) \/ ReadChunk(j) \/ Heartbeat(j)
                           \/ StoreTargets(j) \/ Done(j) \/ Fails(j) \/ JobLost(j)
  <2> PICK j \in Jobs : BeginRun(j) \/ OpenList(j) \/ ReadChunk(j) \/ Heartbeat(j)
                        \/ StoreTargets(j) \/ Done(j) \/ Fails(j) \/ JobLost(j)
    BY <1>2
  <2>1. \E place \in Working \cup {"over"} : at' = [at EXCEPT ![j] = place]
    BY DEF BeginRun, OpenList, ReadChunk, Heartbeat, StoreTargets, Done, Fails, JobLost, Goes, Finishes, Working
  <2>2. status_' = status_ \/ \E x \in {"stopped", "running", "done", "failed"} : status_' = [status_ EXCEPT ![j] = x]
    BY DEF BeginRun, OpenList, ReadChunk, Heartbeat, StoreTargets, Done, Fails, JobLost, Finishes
  <2>3. list_' = list_ \/ \E S \in SUBSET People : list_' = [list_ EXCEPT ![j] = FreshList(S)]
    <3>1. CASE OpenList(j)
      BY <3>1 DEF OpenList
    <3>2. CASE StoreTargets(j)
      <4>1. \A kept \in SUBSET found[j] : kept \in SUBSET People
        BY <1>t
      <4> QED BY <3>2, <4>1 DEF StoreTargets
    <3>3. CASE BeginRun(j) \/ ReadChunk(j) \/ Heartbeat(j) \/ Done(j) \/ Fails(j) \/ JobLost(j)
      BY <3>3 DEF BeginRun, ReadChunk, Heartbeat, Done, Fails, JobLost
    <3> QED BY <3>1, <3>2, <3>3
  <2>4. found' = found \/ \E more \in SUBSET People : found' = [found EXCEPT ![j] = @ \cup more]
    <3>1. CASE ReadChunk(j)
      BY <3>1 DEF ReadChunk
    <3>2. CASE ~ReadChunk(j)
      BY <3>2 DEF BeginRun, OpenList, Heartbeat, StoreTargets, Done, Fails, JobLost
    <3> QED BY <3>1, <3>2
  <2>5. /\ UNCHANGED <<control, request, commands, late, blurred>>
        /\ misfits' \in {misfits, misfits + 1} /\ lost' \in {lost, lost \cup {j}}
    BY DEF BeginRun, OpenList, ReadChunk, Heartbeat, StoreTargets, Done, Fails, JobLost, notes
  <2>6. at' \in [Jobs -> Working \cup {"none", "over"}] /\ \A k \in Jobs : at[k] # "none" => at'[k] # "none"
    <3> PICK place \in Working \cup {"over"} : at' = [at EXCEPT ![j] = place]
      BY <2>1
    <3>1. place # "none"
      BY DEF Working
    <3> QED BY <1>t, <3>1
  <2>7. status_' \in [Jobs -> JobStates]
    BY <1>t, <2>2 DEF JobStates, Active
  <2>8. list_' \in [Lists -> ListRows]
    BY <1>t, <2>3, FreshListFits
  <2>9. found' \in [Jobs -> SUBSET People]
    BY <1>t, <2>4
  <2>10. /\ commands' \in Nat /\ misfits' \in Nat
         /\ lost' \cup late' \subseteq Jobs /\ blurred' \subseteq Lists
    BY <1>n, <2>5
  <2>11. control' \in [Jobs -> Commands] /\ RequestsFit'
    BY <1>j, <1>t, <2>5, <2>6
  <2> QED BY <1>f, <2>6, <2>7, <2>8, <2>9, <2>10, <2>11
<1>3. CASE \E r \in Requests_ : \E j \in Jobs : Command(r, j)
  <2> PICK r \in Requests_, j \in Jobs : Command(r, j)
    BY <1>3
  <2>1. status_[j] \in JobStates /\ status_[j] # "none"
    BY <1>t DEF Command
  <2>2. PICK op \in Commands : request' = [request EXCEPT ![r] = [NoRequest EXCEPT !.op = op, !.on = j, !.saw = status_[j]]]
    BY DEF Command, Commands
  <2>3. UNCHANGED <<status_, control, at, found, list_, misfits, lost, late, blurred>> /\ commands' = commands + 1
    BY DEF Command, job, Counted
  <2> DEFINE x == CommandOn(op, j, status_[j])
  <2>4. x \in RequestRows /\ x.op = op /\ x.on = j
    <3>1. status_[j] \in JobStates
      BY <2>1
    <3> QED BY <3>1, CommandRow
  <2>7. request' = [request EXCEPT ![r] = x]
    BY <2>2 DEF CommandOn
  <2> HIDE DEF x
  <2>6. op # "thin" /\ at[j] # "none"
    BY <2>1 DEF Commands, JobsFit
  <2>5. RequestsFit'
    BY <2>3, <2>4, <2>6, <2>7 DEF RequestsFit
  <2> QED BY <1>f, <1>n, <1>t, <2>3, <2>5
<1>4. CASE \E r \in Requests_ : CommitCommand(r)
  <2> PICK r \in Requests_ : CommitCommand(r)
    BY <1>4
  <2> DEFINE j == request[r].on
  <2>1. request[r].op \in Commands /\ j \in Jobs /\ request[r].saw \in JobStates \cup {""}
    BY DEF CommitCommand, Commands, RequestsFit, RequestRows
  <2>2. control' \in [Jobs -> Commands]
    BY <1>t, <2>1 DEF CommitCommand
  <2>3. status_' \in [Jobs -> JobStates]
    BY <1>t, <2>1 DEF CommitCommand, StatusAfter, JobStates, Active
  <2>4. request' = [request EXCEPT ![r] = NoRequest] /\ UNCHANGED <<at, found, list_, commands, misfits, lost, blurred>>
    BY DEF CommitCommand, Answers
  <2>5. late' \subseteq Jobs
    BY <1>n, <2>1 DEF CommitCommand
  <2>6. RequestsFit'
    BY <2>4, NoRequestFits DEF RequestsFit, Commands
  <2> QED BY <1>f, <1>n, <1>t, <2>2, <2>3, <2>4, <2>5, <2>6
<1>5. CASE \E r \in Requests_ : \E l \in Lists : Thin(r, l)
  <2> PICK r \in Requests_, l \in Lists : Thin(r, l)
    BY <1>5
  <2>1. PICK gone \in SUBSET list_[l].targets :
            request' = [request EXCEPT ![r] =
                [NoRequest EXCEPT !.op = "thin", !.on = l, !.gone = gone,
                                  !.left = Cardinality(list_[l].targets \ gone)]]
    BY DEF Thin
  <2>2. gone \in SUBSET People /\ Cardinality(list_[l].targets \ gone) \in Nat
    <3>1. list_[l].targets \subseteq People
      BY <1>t DEF ListRows
    <3> QED BY <3>1, PeopleCount
  <2>3. UNCHANGED <<status_, control, at, found, list_, misfits, lost, late>> /\ commands' = commands + 1
    BY DEF Thin, job, Counted
  <2>4. blurred' \subseteq Lists
    BY <1>n DEF Thin
  <2> DEFINE x == ThinOf(l, gone, Cardinality(list_[l].targets \ gone))
  <2>5. x \in RequestRows /\ x.op = "thin" /\ x.on = l
    BY <2>2, ThinRow
  <2>7. request' = [request EXCEPT ![r] = x]
    BY <2>1 DEF ThinOf
  <2> HIDE DEF x
  <2>6. RequestsFit'
    BY <2>3, <2>5, <2>7 DEF RequestsFit, Commands
  <2> QED BY <1>f, <1>n, <1>t, <2>3, <2>4, <2>6
<1>6. CASE \E r \in Requests_ : CommitThin(r)
  <2> PICK r \in Requests_ : CommitThin(r)
    BY <1>6
  <2> DEFINE l == request[r].on
  <2>1. l \in Lists /\ request[r].left \in Nat
    BY DEF CommitThin, RequestsFit, RequestRows
  <2>2. /\ list_' = [list_ EXCEPT ![l] = [there |-> TRUE, targets |-> list_[l].targets \ request[r].gone,
                                          kept |-> request[r].left]]
        /\ request' = [request EXCEPT ![r] = NoRequest] /\ UNCHANGED <<job, notes>>
    BY DEF CommitThin, Answers
  <2>3. [there |-> TRUE, targets |-> list_[l].targets \ request[r].gone, kept |-> request[r].left] \in ListRows
    BY <1>t, <2>1 DEF ListRows
  <2>4. list_' \in [Lists -> ListRows]
    BY <1>t, <2>1, <2>2, <2>3
  <2>5. RequestsFit'
    BY <2>2, NoRequestFits DEF RequestsFit, Commands, job
  <2> QED BY <1>f, <1>n, <1>t, <2>2, <2>4, <2>5 DEF job, notes
<1>7. CASE \E l \in Lists : DropList(l)
  <2>1. list_' \in [Lists -> ListRows]
    BY <1>7, <1>t, NoListFits DEF DropList
  <2>2. UNCHANGED <<job, request, misfits, lost, late, blurred>> /\ commands' = commands + 1
    BY <1>7 DEF DropList, Counted
  <2> QED BY <1>f, <1>j, <1>n, <1>t, <2>1, <2>2 DEF job
<1>8. CASE \E d \in Derived : \E l, m \in Lists : Combine(d, l, m)
  <2> PICK d \in Derived, l \in Lists, m \in Lists : Combine(d, l, m)
    BY <1>8
  <2>0. PICK op \in {"intersect", "union", "subtract", "sample"} :
            \E chosen \in Selected(op, l, m) : list_' = [list_ EXCEPT ![d] = FreshList(chosen)]
    BY DEF Combine
  <2>1. PICK chosen \in Selected(op, l, m) : list_' = [list_ EXCEPT ![d] = FreshList(chosen)]
    BY <2>0
  <2>2. chosen \in SUBSET People
    BY SelectedFits
  <2>3. list_' \in [Lists -> ListRows]
    BY <1>t, <2>1, <2>2, FreshListFits
  <2>4. UNCHANGED <<job, request, misfits, lost, late, blurred>> /\ commands' = commands + 1
    BY DEF Combine, Counted
  <2> QED BY <1>f, <1>j, <1>n, <1>t, <2>3, <2>4 DEF job
<1> QED BY <1>1, <1>2, <1>3, <1>4, <1>5, <1>6, <1>7, <1>8, ParActions
-----------------------------------------------------------------------------
(* Jobs *)

LEMMA JobsKeep ==
  ASSUME ParsingAssumption, ParTypeOK, RequestsFit, JobsFit, ParNext PROVE JobsFit'
<1>t. /\ status_ \in [Jobs -> JobStates] /\ at \in [Jobs -> Working \cup {"none", "over"}]
  BY DEF ParTypeOK, JobStates
<1>w. "none" \notin Working /\ "over" \notin Working /\ "none" \notin Active
  BY DEF Working, Active
<1>a. ASSUME UNCHANGED <<status_, at>>, lost \subseteq lost', late \subseteq late' PROVE JobsFit'
  BY <1>a DEF JobsFit, ActiveJobHasTask
<1>b. ASSUME NEW j \in Jobs, NEW place \in Working, at[j] # "none", Goes(j, place),
             UNCHANGED <<lost, late>>,
             status_' = status_ \/ status_' = [status_ EXCEPT ![j] = "running"]
      PROVE  JobsFit'
  BY <1>b, <1>t, <1>w DEF JobsFit, ActiveJobHasTask, Goes
<1>c. ASSUME NEW j \in Jobs, NEW x \in {"done", "failed", "stopped"}, at[j] # "none",
             Finishes(j, x), UNCHANGED <<lost, late>>
      PROVE  JobsFit'
  <2>1. /\ \A k \in Jobs : k # j => at'[k] = at[k] /\ status_'[k] = status_[k]
        /\ at'[j] = "over" /\ status_'[j] = x
    BY <1>c, <1>t DEF Finishes, Goes
  <2>2. x # "none" /\ x \notin Active
    BY DEF Active
  <2> QED BY <1>c, <2>1, <2>2 DEF JobsFit, ActiveJobHasTask
<1>1. CASE \E j \in Jobs : StartJob(j)
  <2> PICK j \in Jobs : StartJob(j)
    BY <1>1
  <2>1. /\ \A k \in Jobs : k # j => at'[k] = at[k] /\ status_'[k] = status_[k]
        /\ at'[j] = "committed" /\ status_'[j] = "pending" /\ UNCHANGED <<lost, late>>
    BY <1>t DEF StartJob, notes
  <2> QED BY <2>1 DEF JobsFit, ActiveJobHasTask, Working
<1>2. CASE \E j \in Jobs : EnqueueJob(j)
  <2> PICK j \in Jobs : EnqueueJob(j)
    BY <1>2
  <2>1. at[j] # "none" /\ Goes(j, "queued") /\ UNCHANGED <<lost, late, status_>>
    BY DEF EnqueueJob, notes, Goes
  <2> QED BY <1>b, <2>1 DEF Working
<1>3. CASE \E j \in Jobs : BeginRun(j) \/ OpenList(j) \/ ReadChunk(j) \/ Heartbeat(j)
                           \/ StoreTargets(j) \/ Done(j) \/ Fails(j)
  <2> PICK j \in Jobs : BeginRun(j) \/ OpenList(j) \/ ReadChunk(j) \/ Heartbeat(j)
                        \/ StoreTargets(j) \/ Done(j) \/ Fails(j)
    BY <1>3
  <2>1. at[j] # "none" /\ UNCHANGED <<lost, late>>
    BY DEF BeginRun, OpenList, ReadChunk, Heartbeat, StoreTargets, Done, Fails, notes
  <2>2. \/ \E x \in {"done", "failed", "stopped"} : Finishes(j, x)
        \/ \E place \in Working : Goes(j, place) /\
              (status_' = status_ \/ status_' = [status_ EXCEPT ![j] = "running"])
    BY DEF BeginRun, OpenList, ReadChunk, Heartbeat, StoreTargets, Done, Fails, Working
  <2> QED BY <1>b, <1>c, <2>1, <2>2
<1>4. CASE \E j \in Jobs : JobLost(j)
  <2> PICK j \in Jobs : JobLost(j)
    BY <1>4
  <2>1. /\ \A k \in Jobs : k # j => at'[k] = at[k]
        /\ at'[j] = "over" /\ lost' = lost \cup {j} /\ UNCHANGED <<late, status_>> /\ at[j] \in Working
    BY <1>t DEF JobLost, Goes
  <2> QED BY <1>w, <2>1 DEF JobsFit, ActiveJobHasTask
<1>5. CASE \E r \in Requests_ : CommitCommand(r)
  <2> PICK r \in Requests_ : CommitCommand(r)
    BY <1>5
  <2> DEFINE j == request[r].on
             new == StatusAfter(request[r].op, request[r].saw)
  <2>1. j \in Jobs /\ at[j] # "none" /\ at' = at /\ lost' = lost
    BY DEF CommitCommand, RequestsFit, Commands
  <2>2. CASE new = request[r].saw
    BY <1>a, <2>1, <2>2 DEF CommitCommand
  <2>3. CASE new # request[r].saw
    <3>1. new \in {"paused", "running"}
      BY <2>3 DEF StatusAfter
    <3>2. status_' = [status_ EXCEPT ![j] = new] /\ late' = IF at[j] = "over" THEN late \cup {j} ELSE late
      BY <2>3 DEF CommitCommand
    <3> HIDE DEF new, j
    <3>3. \A k \in Jobs : k # j => status_'[k] = status_[k]
      BY <1>t, <2>1, <3>2
    <3>4. status_'[j] = new
      BY <1>t, <2>1, <3>2
    <3>5. at[j] \in Working \/ j \in late'
      BY <1>t, <2>1, <3>2
    <3>6. late \subseteq late'
      BY <3>2
    <3> QED BY <2>1, <3>1, <3>3, <3>4, <3>5, <3>6 DEF JobsFit, ActiveJobHasTask
  <2> QED BY <2>2, <2>3
<1>6. CASE \/ \E r \in Requests_ : \E j \in Jobs : Command(r, j)
           \/ \E r \in Requests_ : \E l \in Lists : Thin(r, l)
           \/ \E r \in Requests_ : CommitThin(r)
           \/ \E l \in Lists : DropList(l)
           \/ \E d \in Derived : \E l, m \in Lists : Combine(d, l, m)
  BY <1>6, <1>a DEF Command, Thin, CommitThin, DropList, Combine, job, notes
<1> QED BY <1>1, <1>2, <1>3, <1>4, <1>5, <1>6, ParActions
-----------------------------------------------------------------------------
(* Lists *)

LEMMA ListsKeep ==
  ASSUME ParsingAssumption, ParTypeOK, RequestsFit, JobsFit, ListsFit, ParNext PROVE ListsFit'
<1>t. /\ at \in [Jobs -> Working \cup {"none", "over"}] /\ list_ \in [Lists -> ListRows]
      /\ request \in [Requests_ -> RequestRows]
  BY DEF ParTypeOK, ListRows, RequestsFit
<1>p. ASSUME NEW l \in Lists
      PROVE  list_[l].targets \in SUBSET People /\ list_[l].kept \in Nat
  BY <1>t DEF ListRows
\* The lists, the deletions and the marks stay.
<1>a. ASSUME UNCHANGED <<list_, request, blurred>>,
             \A j \in Jobs : at[j] \in {"stored", "over"} => at'[j] \in {"stored", "over"}
      PROVE  ListsFit'
  <2>1. ThinsFit'
    BY <1>a DEF ListsFit, ThinsFit, Thins
  <2> QED BY <1>a, <2>1 DEF ListsFit, CountIsRows, StoredOnce
\* Some requests are over, or come in, that delete no rows.
<1>b. ASSUME UNCHANGED <<list_, at, blurred>>,
             \A r \in Requests_ : request'[r] = request[r] \/ request'[r].op # "thin"
      PROVE  ListsFit'
  <2>1. \A r \in Requests_, l \in Lists : Thins(r, l)' => Thins(r, l) /\ request'[r] = request[r]
    BY <1>b DEF Thins
  <2>2. ThinsFit'
    BY <1>b, <2>1 DEF ListsFit, ThinsFit
  <2> QED BY <1>b, <2>2 DEF ListsFit, CountIsRows, StoredOnce
\* A list nobody deletes rows of is replaced by a new one.
<1>c. ASSUME NEW l \in Lists, NEW x \in ListRows, list_' = [list_ EXCEPT ![l] = x],
             x.kept = Cardinality(x.targets), UNCHANGED <<request, blurred>>,
             \A r \in Requests_ : ~Thins(r, l),
             \A j \in Jobs : at[j] \in {"stored", "over"} => at'[j] \in {"stored", "over"},
             l \in Jobs => at'[l] \in {"stored", "over"} \/ x.targets = {}
      PROVE  ListsFit'
  <2>1. list_'[l] = x /\ \A m \in Lists : m # l => list_'[m] = list_[m]
    BY <1>c, <1>t
  <2>2. x.kept \in Nat
    BY DEF ListRows
  <2>3. CountIsRows'
    BY <1>c, <2>1, <2>2 DEF ListsFit, CountIsRows
  <2>4. \A r \in Requests_, m \in Lists : Thins(r, m)' => Thins(r, m) /\ m # l
    BY <1>c DEF Thins
  <2>5. ThinsFit'
    BY <1>c, <2>1, <2>4 DEF ListsFit, ThinsFit, Thins
  <2>6. StoredOnce'
    BY <1>c, <2>1 DEF ListsFit, StoredOnce, Lists
  <2> QED BY <2>3, <2>5, <2>6 DEF ListsFit
<1>1. CASE \E j \in Jobs : StartJob(j) \/ EnqueueJob(j) \/ BeginRun(j) \/ ReadChunk(j)
                           \/ Heartbeat(j) \/ Done(j) \/ Fails(j) \/ JobLost(j)
  <2> PICK j \in Jobs : StartJob(j) \/ EnqueueJob(j) \/ BeginRun(j) \/ ReadChunk(j)
                        \/ Heartbeat(j) \/ Done(j) \/ Fails(j) \/ JobLost(j)
    BY <1>1
  <2>1. UNCHANGED <<list_, request, blurred>>
    BY DEF StartJob, EnqueueJob, BeginRun, ReadChunk, Heartbeat, Done, Fails, JobLost, notes
  <2>2. (at[j] \notin {"stored", "over"} /\ \E place : at' = [at EXCEPT ![j] = place]) \/ Goes(j, "over")
    <3>1. CASE StartJob(j)
      BY <3>1 DEF StartJob, JobsFit
    <3>2. CASE EnqueueJob(j) \/ BeginRun(j) \/ ReadChunk(j) \/ Heartbeat(j)
      BY <3>2 DEF EnqueueJob, BeginRun, ReadChunk, Heartbeat, Goes, Finishes
    <3>3. CASE Done(j) \/ Fails(j) \/ JobLost(j)
      BY <3>3 DEF Done, Fails, JobLost, Finishes
    <3> QED BY <3>1, <3>2, <3>3
  <2>3. \A k \in Jobs : at[k] \in {"stored", "over"} => at'[k] \in {"stored", "over"}
    BY <1>t, <2>2 DEF Goes
  <2> QED BY <1>a, <2>1, <2>3
<1>2. CASE \E j \in Jobs : OpenList(j)
  <2> PICK j \in Jobs : OpenList(j)
    BY <1>2
  <2>1. /\ at[j] = "begun" /\ UNCHANGED <<request, blurred>> /\ j \in Lists
        /\ \/ Goes(j, "over") /\ UNCHANGED list_
           \/ list_' = [list_ EXCEPT ![j] = FreshList({})] /\ Goes(j, "reading")
    BY DEF OpenList, Finishes, notes, Lists
  <2>2. \A k \in Jobs : at[k] \in {"stored", "over"} => at'[k] \in {"stored", "over"}
    BY <1>t, <2>1 DEF Goes
  <2>3. \A r \in Requests_ : ~Thins(r, j)
    <3>1. list_[j].targets = {}
      BY <2>1 DEF ListsFit, StoredOnce
    <3> QED BY <2>1, <3>1 DEF ListsFit, ThinsFit
  <2>4. FreshList({}) \in ListRows /\ FreshList({}).targets = {} /\ FreshList({}).kept = Cardinality({})
    BY FreshListFits
  <2>5. CASE UNCHANGED list_
    BY <1>a, <2>1, <2>2, <2>5
  <2>6. CASE list_' = [list_ EXCEPT ![j] = FreshList({})]
    BY <1>c, <2>1, <2>2, <2>3, <2>4, <2>6
  <2> QED BY <2>1, <2>5, <2>6
<1>3. CASE \E j \in Jobs : StoreTargets(j)
  <2> PICK j \in Jobs : StoreTargets(j)
    BY <1>3
  <2>1. /\ at[j] = "filtering" /\ UNCHANGED <<request, blurred>> /\ j \in Lists
        /\ Goes(j, "stored")
    BY DEF StoreTargets, notes, Lists
  <2>2. \A k \in Jobs : at[k] \in {"stored", "over"} => at'[k] \in {"stored", "over"}
    BY <1>t, <2>1 DEF Goes
  <2>3. \A r \in Requests_ : ~Thins(r, j)
    <3>1. list_[j].targets = {}
      BY <2>1 DEF ListsFit, StoredOnce
    <3> QED BY <2>1, <3>1 DEF ListsFit, ThinsFit
  <2>4. at'[j] \in {"stored", "over"}
    BY <1>t, <2>1 DEF Goes
  <2>5. UNCHANGED list_ \/ \E kept \in SUBSET People : list_' = [list_ EXCEPT ![j] = FreshList(kept)]
    <3>1. found[j] \subseteq People
      BY DEF ParTypeOK
    <3> QED BY <3>1 DEF StoreTargets
  <2>6. CASE UNCHANGED list_
    BY <1>a, <2>1, <2>2, <2>6
  <2>7. ASSUME NEW kept \in SUBSET People, list_' = [list_ EXCEPT ![j] = FreshList(kept)]
        PROVE  ListsFit'
    <3>1. /\ FreshList(kept) \in ListRows /\ FreshList(kept).targets = kept
          /\ FreshList(kept).kept = Cardinality(kept)
      BY FreshListFits
    <3> QED BY <1>c, <2>1, <2>2, <2>3, <2>4, <2>7, <3>1
  <2> QED BY <2>5, <2>6, <2>7
<1>4. CASE \E r \in Requests_ : \E j \in Jobs : Command(r, j)
  <2> PICK r \in Requests_, j \in Jobs : Command(r, j)
    BY <1>4
  <2>1. PICK op \in Commands : request' = [request EXCEPT ![r] = CommandOn(op, j, status_[j])]
    BY DEF Command, Commands, CommandOn
  <2>2. status_[j] \in JobStates
    BY DEF ParTypeOK, JobStates
  <2>3. CommandOn(op, j, status_[j]).op = op /\ op # "thin"
    BY <2>2, CommandRow DEF Commands
  <2>4. UNCHANGED <<list_, at, blurred>>
    BY DEF Command, job
  <2>5. \A q \in Requests_ : request'[q] = request[q] \/ request'[q].op # "thin"
    BY <1>t, <2>1, <2>3
  <2> QED BY <1>b, <2>4, <2>5
<1>5. CASE \E r \in Requests_ : CommitCommand(r)
  <2> PICK r \in Requests_ : CommitCommand(r)
    BY <1>5
  <2>1. request' = [request EXCEPT ![r] = NoRequest] /\ UNCHANGED <<list_, at, blurred>>
    BY DEF CommitCommand, Answers
  <2>2. \A q \in Requests_ : request'[q] = request[q] \/ request'[q].op # "thin"
    BY <1>t, <2>1, NoRequestFits
  <2> QED BY <1>b, <2>1, <2>2
<1>6. CASE \E r \in Requests_ : \E l \in Lists : Thin(r, l)
  <2> PICK r \in Requests_, l \in Lists : Thin(r, l)
    BY <1>6
  <2> DEFINE rest(gone) == Cardinality(list_[l].targets \ gone)
  <2>1. PICK gone \in (SUBSET list_[l].targets) \ {{}} :
            /\ \A q \in Requests_ : request[q].on = l => request[q].gone \cap gone = {}
            /\ request' = [request EXCEPT ![r] = ThinOf(l, gone, rest(gone))]
    BY DEF Thin, ThinOf
  <2>2. gone \in SUBSET People /\ rest(gone) \in Nat
    BY <1>p, PeopleCount
  <2>3. /\ list_[l].there /\ UNCHANGED <<list_, at>>
        /\ blurred' = IF \E q \in Requests_ : Thins(q, l) THEN blurred \cup {l} ELSE blurred
    BY DEF Thin, Thins, job
  <2> DEFINE x == ThinOf(l, gone, rest(gone))
  <2>4. x.op = "thin" /\ x.on = l /\ x.gone = gone /\ x.left = rest(gone)
    BY <2>2, ThinRow
  <2>5. request'[r] = x /\ \A q \in Requests_ : q # r => request'[q] = request[q]
    BY <1>t, <2>1
  <2> HIDE DEF x
  <2>6. /\ \A m \in Lists : Thins(r, m)' <=> m = l
        /\ \A q \in Requests_ : q # r => \A m \in Lists : Thins(q, m)' <=> Thins(q, m)
    BY <2>4, <2>5 DEF Thins
  <2>7. ASSUME NEW q \in Requests_, q # r, Thins(q, l)
        PROVE  l \in blurred' /\ request'[q].gone \cap gone = {}
    BY <2>1, <2>3, <2>5, <2>7 DEF Thins
  <2>8. ASSUME NEW m \in Lists, NEW q \in Requests_, Thins(q, m)'
        PROVE  /\ list_'[m].there /\ request'[q].gone \subseteq list_'[m].targets /\ request'[q].gone # {}
               /\ request'[q].left >= Cardinality(list_'[m].targets \ request'[q].gone)
               /\ m \notin blurred' => request'[q].left = Cardinality(list_'[m].targets \ request'[q].gone)
    <3>1. CASE q = r
      <4>1. m = l /\ request'[q] = x /\ list_' = list_
        BY <2>3, <2>5, <2>6, <2>8, <3>1
      <4>2. x.gone \subseteq list_[l].targets /\ x.gone # {} /\ x.left = Cardinality(list_[l].targets \ x.gone)
        BY <2>1, <2>4
      <4>3. x.left \in Nat
        BY <2>2, <2>4
      <4> QED BY <2>3, <4>1, <4>2, <4>3
    <3>2. CASE q # r
      BY <2>3, <2>5, <2>6, <2>8, <3>2 DEF ListsFit, ThinsFit
    <3> QED BY <3>1, <3>2
  <2>9. ASSUME NEW m \in Lists, NEW q \in Requests_, NEW p \in Requests_, Thins(q, m)', Thins(p, m)', p # q
        PROVE  m \in blurred' /\ request'[p].gone \cap request'[q].gone = {}
    <3>1. CASE q = r
      BY <2>4, <2>5, <2>6, <2>7, <2>9, <3>1
    <3>2. CASE p = r
      <4>1. m = l /\ Thins(q, l) /\ q # r
        BY <2>6, <2>9, <3>2
      <4>2. l \in blurred' /\ request'[q].gone \cap gone = {}
        BY <2>7, <4>1
      <4>3. request'[p].gone = gone
        BY <2>4, <2>5, <3>2
      <4> QED BY <4>1, <4>2, <4>3
    <3>3. CASE p # r /\ q # r
      <4>1. Thins(q, m) /\ Thins(p, m)
        BY <2>6, <2>9, <3>3
      <4>2. m \in blurred /\ request[p].gone \cap request[q].gone = {}
        BY <2>9, <4>1 DEF ListsFit, ThinsFit
      <4> QED BY <2>3, <2>5, <3>3, <4>2
    <3> QED BY <3>1, <3>2, <3>3
  <2>10. ThinsFit'
    BY <2>8, <2>9 DEF ThinsFit
  <2>11. CountIsRows' /\ StoredOnce'
    BY <2>3 DEF ListsFit, CountIsRows, StoredOnce
  <2> QED BY <2>10, <2>11 DEF ListsFit
<1>7. CASE \E r \in Requests_ : CommitThin(r)
  <2> PICK r \in Requests_ : CommitThin(r)
    BY <1>7
  <2> DEFINE l == request[r].on
             gone == request[r].gone
             y == [there |-> TRUE, targets |-> list_[l].targets \ gone, kept |-> request[r].left]
  <2>1. l \in Lists /\ Thins(r, l)
    BY DEF CommitThin, RequestsFit, Thins
  <2>2. /\ list_' = [list_ EXCEPT ![l] = y]
        /\ request' = [request EXCEPT ![r] = NoRequest] /\ UNCHANGED <<at, blurred>>
    BY DEF CommitThin, Answers, job, notes
  <2>3. y.there /\ y.targets = list_[l].targets \ gone /\ y.kept = request[r].left
    OBVIOUS
  <2> HIDE DEF y, l
  <2>4. list_'[l] = y /\ \A m \in Lists : m # l => list_'[m] = list_[m]
    BY <1>t, <2>1, <2>2
  <2>5. request'[r] = NoRequest /\ \A q \in Requests_ : q # r => request'[q] = request[q]
    BY <1>t, <2>2
  <2>6. \A q \in Requests_, m \in Lists : Thins(q, m)' <=> q # r /\ Thins(q, m)
    BY <2>5, NoRequestFits DEF Thins
  <2>7. /\ gone \subseteq list_[l].targets
        /\ request[r].left >= Cardinality(list_[l].targets \ gone)
        /\ l \notin blurred => request[r].left = Cardinality(list_[l].targets \ gone)
    BY <2>1 DEF ListsFit, ThinsFit
  <2>8. ASSUME NEW q \in Requests_, q # r, Thins(q, l)
        PROVE  /\ l \in blurred
               /\ request[q].gone \subseteq y.targets /\ request[q].gone # {}
               /\ request[q].left >= Cardinality(y.targets \ request[q].gone)
    <3>1. /\ l \in blurred /\ request[q].gone \cap gone = {}
          /\ request[q].gone \subseteq list_[l].targets /\ request[q].gone # {}
          /\ request[q].left >= Cardinality(list_[l].targets \ request[q].gone)
      BY <2>1, <2>8 DEF ListsFit, ThinsFit
    <3>2. y.targets \ request[q].gone \in SUBSET (list_[l].targets \ request[q].gone)
      BY <2>3
    <3>3. list_[l].targets \ request[q].gone \in SUBSET People
      BY <1>p, <2>1
    <3>4. /\ Cardinality(y.targets \ request[q].gone) <= Cardinality(list_[l].targets \ request[q].gone)
          /\ Cardinality(list_[l].targets \ request[q].gone) \in Nat
      BY <3>2, <3>3, PeopleCount
    <3>5. y.targets \ request[q].gone \in SUBSET People
      BY <3>2, <3>3
    <3>6. Cardinality(y.targets \ request[q].gone) \in Nat
      BY <3>5, PeopleCount
    <3>7. request[q].left \in Nat
      BY <1>t DEF RequestRows
    <3>8. request[q].left >= Cardinality(y.targets \ request[q].gone)
      BY <3>1, <3>4, <3>6, <3>7
    <3>9. request[q].gone \subseteq y.targets
      BY <2>3, <3>1
    <3> QED BY <3>1, <3>8, <3>9
  <2>9. ASSUME NEW m \in Lists, NEW q \in Requests_, Thins(q, m)'
        PROVE  /\ list_'[m].there /\ request'[q].gone \subseteq list_'[m].targets /\ request'[q].gone # {}
               /\ request'[q].left >= Cardinality(list_'[m].targets \ request'[q].gone)
               /\ m \notin blurred' => request'[q].left = Cardinality(list_'[m].targets \ request'[q].gone)
    <3>0. q # r /\ Thins(q, m) /\ request'[q] = request[q]
      BY <2>5, <2>6, <2>9
    <3>1. CASE m = l
      BY <2>2, <2>3, <2>4, <2>8, <3>0, <3>1
    <3>2. CASE m # l
      BY <2>2, <2>4, <3>0, <3>2 DEF ListsFit, ThinsFit
    <3> QED BY <3>1, <3>2
  <2>10. ASSUME NEW m \in Lists, NEW q \in Requests_, NEW p \in Requests_, Thins(q, m)', Thins(p, m)', p # q
         PROVE  m \in blurred' /\ request'[p].gone \cap request'[q].gone = {}
    BY <2>2, <2>5, <2>6, <2>10 DEF ListsFit, ThinsFit
  <2>11. ThinsFit'
    BY <2>9, <2>10 DEF ThinsFit
  <2>12. CountIsRows'
    BY <2>2, <2>3, <2>4, <2>7 DEF ListsFit, CountIsRows
  <2>13. StoredOnce'
    BY <2>2, <2>3, <2>4 DEF ListsFit, StoredOnce, Lists
  <2> QED BY <2>11, <2>12, <2>13 DEF ListsFit
<1>8. CASE \E l \in Lists : DropList(l)
  <2> PICK l \in Lists : DropList(l)
    BY <1>8
  <2>1. list_' = [list_ EXCEPT ![l] = NoList] /\ UNCHANGED <<request, blurred, at>>
    BY DEF DropList, job
  <2>2. \A r \in Requests_ : ~Thins(r, l)
    BY DEF DropList, Thins
  <2>3. NoList \in ListRows /\ NoList.kept = Cardinality(NoList.targets) /\ NoList.targets = {}
    BY NoListFits
  <2> QED BY <1>c, <2>1, <2>2, <2>3
<1>9. CASE \E d \in Derived : \E l, m \in Lists : Combine(d, l, m)
  <2> PICK d \in Derived, l \in Lists, m \in Lists : Combine(d, l, m)
    BY <1>9
  <2>0. PICK op \in {"intersect", "union", "subtract", "sample"} :
            \E chosen \in Selected(op, l, m) : list_' = [list_ EXCEPT ![d] = FreshList(chosen)]
    BY DEF Combine
  <2>1. PICK chosen \in Selected(op, l, m) : list_' = [list_ EXCEPT ![d] = FreshList(chosen)]
    BY <2>0
  <2>2. chosen \in SUBSET People
    BY SelectedFits
  <2>3. ~list_[d].there /\ UNCHANGED <<request, blurred, at>> /\ d \in Lists /\ d \notin Jobs
    BY DEF Combine, job, Lists, ParsingAssumption
  <2>4. \A r \in Requests_ : ~Thins(r, d)
    BY <2>3 DEF ListsFit, ThinsFit
  <2>5. /\ FreshList(chosen) \in ListRows /\ FreshList(chosen).targets = chosen
        /\ FreshList(chosen).kept = Cardinality(chosen)
    BY <2>2, FreshListFits
  <2> QED BY <1>c, <2>1, <2>3, <2>4, <2>5
<1> QED BY <1>1, <1>2, <1>3, <1>4, <1>5, <1>6, <1>7, <1>8, <1>9, ParActions
-----------------------------------------------------------------------------
LEMMA ParInitFits == ParsingAssumption /\ ParInit => ParInv
<1> SUFFICES ASSUME ParsingAssumption, ParInit PROVE ParInv
  OBVIOUS
<1> USE DEF ParInit
<1>1. list_ \in [Lists -> ListRows] /\ \A l \in Lists : list_[l] = NoList
  BY NoListFits
<1>2. request \in [Requests_ -> RequestRows] /\ \A r \in Requests_ : request[r].op = "none"
  BY NoRequestFits
<1>3. RequestsFit
  BY <1>2 DEF RequestsFit, Commands
<1>4. \A r \in Requests_ : /\ request[r].op \in {"none", "pause", "run", "stop", "thin"}
                           /\ request[r].gone \subseteq People /\ request[r].left \in Nat
  BY <1>2 DEF RequestRows
<1>5. ParTypeOK
  <2>1. status_ \in [Jobs -> Active \cup {"none", "done", "failed", "stopped"}]
    OBVIOUS
  <2>2. control \in [Jobs -> {"run", "pause", "stop"}] /\ found \in [Jobs -> SUBSET People]
    OBVIOUS
  <2>3. at \in [Jobs -> Working \cup {"none", "over"}]
    OBVIOUS
  <2> QED BY <1>1, <1>4, <2>1, <2>2, <2>3 DEF ParTypeOK, ListRows
<1>6. JobsFit
  BY DEF JobsFit, ActiveJobHasTask, Active
<1>7. ListsFit
  <2>1. \A l \in Lists : list_[l].targets = {} /\ list_[l].kept = Cardinality({}) /\ list_[l].kept \in Nat
    BY <1>1, NoListFits DEF ListRows
  <2>2. CountIsRows
    BY <2>1 DEF CountIsRows
  <2>3. StoredOnce
    BY <2>1 DEF StoredOnce, Lists
  <2>4. ThinsFit
    BY <1>2 DEF ThinsFit, Thins
  <2> QED BY <2>2, <2>3, <2>4 DEF ListsFit
<1> QED BY <1>3, <1>5, <1>6, <1>7 DEF ParInv

LEMMA ParInvKeeps == ParsingAssumption /\ ParInv /\ [ParNext]_parVars => ParInv'
<1> SUFFICES ASSUME ParsingAssumption, ParInv, [ParNext]_parVars PROVE ParInv'
  OBVIOUS
<1>1. CASE ParNext
  BY <1>1, ParTypeKeeps, JobsKeep, ListsKeep DEF ParInv
<1>2. CASE UNCHANGED parVars
  <2> USE <1>2 DEF parVars
  <2>1. ParTypeOK'
    BY DEF ParInv, ParTypeOK
  <2>2. RequestsFit' /\ JobsFit'
    BY DEF ParInv, RequestsFit, JobsFit, ActiveJobHasTask
  <2>3. ListsFit'
    BY DEF ParInv, ListsFit, CountIsRows, ThinsFit, StoredOnce, Thins
  <2> QED BY <2>1, <2>2, <2>3 DEF ParInv
<1> QED BY <1>1, <1>2

\* For any number of jobs, lists, people, requests at a time, commands and lost tasks: a job
\* that is shown as active has its task, unless that was lost or the status was written late,
\* and the count of a list is its rows, or more where two deletions overlapped
\* (modules/parsing/repositories/job.py, modules/parsing/api/router.py).
THEOREM ParsingSafety ==
  ASSUME ParsingAssumption
  PROVE  ParSpec => [](ParTypeOK /\ ActiveJobHasTask /\ CountIsRows)
<1>1. ParInit => ParInv
  BY ParInitFits
<1>2. ParInv /\ [ParNext]_parVars => ParInv'
  BY ParInvKeeps
<1>3. ParInv => ParTypeOK /\ ActiveJobHasTask /\ CountIsRows
  BY DEF ParInv, JobsFit, ListsFit
<1> QED BY <1>1, <1>2, <1>3, PTL DEF ParSpec
-----------------------------------------------------------------------------
(*************** Collectors ***************)

\* Who has said enough, and the members that are told apart by when they were seen.
Enough == {p \in Persons_ : times[p] >= Enough_}
Seen == {p \in Heard : ~Away(p)}
Unseen == {p \in Heard : Away(p)}

\* What a collector counts while it reads, and when it stops.
Early == {"new", "listed", "reading"}
Within(n) == goal > 0 => n <= goal /\ (stage \in Early => n < goal)

MessagesFit ==
    /\ \A p \in counted : p \in Enough /\ (strict => p \in faces /\ looks[p] # "unfit")
    /\ \A p \in Enough : InlineReason(p, faces) = "none" => p \in counted
    /\ Within(Cardinality(counted))
    /\ goal > 0 /\ stage \in {"read", "done"} /\ ~ended /\ tally.qualified < goal * Overscan =>
          Cardinality(counted) >= goal

CountsFit ==
    /\ kind_ = "messages" => MessagesFit
    /\ kind_ = "commenters" => tally.qualified = Cardinality(Enough) /\ Within(tally.qualified)
    /\ kind_ = "members" => tally.skipped = Cardinality(Unseen) /\ Within(Cardinality(Seen))

Results == [there: BOOLEAN, targets: SUBSET Persons_, why: [Reasons -> Nat], raw: Nat]

CollectType ==
    /\ CollectTypeOK
    /\ tally \in [qualified: Nat, skipped: Nat] /\ result \in Results
    /\ \A p \in Persons_ : times[p] <= read

CollectInv == CollectType /\ CountsFit /\ EverybodyAccounted /\ NoMoreThanAsked /\ AsManyAsAsked
-----------------------------------------------------------------------------
LEMMA PersonsCount ==
  ASSUME CollectorsAssumption, NEW S \in SUBSET Persons_
  PROVE  /\ IsFiniteSet(S) /\ Cardinality(S) \in Nat
         /\ \A T \in SUBSET S : Cardinality(T) <= Cardinality(S)
         /\ \A p \in Persons_ : Cardinality(S \cup {p}) = IF p \in S THEN Cardinality(S) ELSE Cardinality(S) + 1
<1>1. IsFiniteSet(S) /\ Cardinality(S) \in Nat /\ \A T \in SUBSET S : Cardinality(T) <= Cardinality(S)
  BY FS_Subset, FS_CardinalityType DEF CollectorsAssumption
<1>2. \A p \in Persons_ : Cardinality(S \cup {p}) = IF p \in S THEN Cardinality(S) ELSE Cardinality(S) + 1
  BY <1>1, FS_AddElement
<1> QED BY <1>1, <1>2

LEMMA TwoParts_ ==
  ASSUME CollectorsAssumption, NEW S \in SUBSET Persons_, NEW A \in SUBSET S, NEW B \in SUBSET S,
         S = A \cup B, A \cap B = {}
  PROVE  Cardinality(S) = Cardinality(A) + Cardinality(B)
<1>1. IsFiniteSet(A) /\ IsFiniteSet(B) /\ Cardinality(A) \in Nat /\ Cardinality(B) \in Nat
  BY PersonsCount
<1>2. Cardinality(A \cup B) = Cardinality(A) + Cardinality(B) - Cardinality(A \cap B)
  BY <1>1, FS_Union
<1>3. Cardinality(A \cap B) = 0
  BY FS_EmptySet
<1>4. S = A \cup B
  OBVIOUS
<1> QED BY <1>1, <1>2, <1>3, <1>4

LEMMA Numbers ==
  ASSUME CollectorsAssumption, CollectType
  PROVE  /\ goal \in Nat /\ Enough_ \in Nat \ {0} /\ Overscan \in Nat /\ MaxRead \in Nat /\ read \in 0..MaxRead
         /\ \A p \in Persons_ : times[p] \in 0..MaxRead
         /\ tally.qualified \in Nat /\ tally.skipped \in Nat
         /\ Heard \subseteq Persons_ /\ Enough \subseteq Heard /\ Enough = Heard \ Few /\ Few \subseteq Heard
         /\ Seen \subseteq Heard /\ Unseen \subseteq Heard
BY DEF CollectorsAssumption, CollectType, CollectTypeOK, Heard, Enough, Few, Seen, Unseen

LEMMA EmptyFits ==
  /\ Empty \in Results /\ ~Empty.there /\ Empty.targets = {}
  /\ [Empty EXCEPT !.there = TRUE] \in Results /\ [Empty EXCEPT !.there = TRUE].targets = {}
<1>1. NoReasons \in [Reasons -> Nat]
  BY DEF NoReasons
<1>2. Empty \in Results /\ ~Empty.there /\ Empty.targets = {}
  BY <1>1 DEF Empty, Results
<1> QED BY <1>2 DEF Results

LEMMA CollectActions ==
  CollectNext <=>
    \/ Opens \/ Enters \/ WindowEnds \/ Breaks \/ Dropped
    \/ StoreAuthors \/ StoreCommenters \/ StoreReactors \/ StoreMembers
    \/ \E p \in Persons_ : \E shown \in SUBSET {p} : ReadMessage(p, shown)
    \/ \E p \in Persons_ : \E shown \in SUBSET {p} : ReadComment(p, shown)
    \/ \E p \in Persons_ : ReadMember(p)
    \/ \E who \in SUBSET Persons_ : ReadPost(who)
BY DEF CollectNext

\* The reasons a filter gives.
LEMMA DropReasons ==
  ASSUME NEW p \in Persons_
  PROVE  /\ DropReason(p) \in {"none", "unfit", "barred"}
         /\ DropReason(p) = "none" => InlineReason(p, faces) = "none" /\ looks[p] # "barred"
         /\ DropReason(p) = "barred" => looks[p] = "barred"
         /\ DropReason(p) = "unfit" => InlineReason(p, faces) = "unfit"
<1>1. InlineReason(p, faces) \in {"none", "unfit"}
  BY DEF InlineReason
<1>2. CASE InlineReason(p, faces) # "none"
  BY <1>1, <1>2 DEF DropReason
<1>3. CASE InlineReason(p, faces) = "none" /\ looks[p] = "barred"
  BY <1>1, <1>3 DEF DropReason
<1>4. CASE InlineReason(p, faces) = "none" /\ looks[p] # "barred"
  BY <1>1, <1>4 DEF DropReason
<1> QED BY <1>1, <1>2, <1>3, <1>4
-----------------------------------------------------------------------------
LEMMA GoesOnType ==
  ASSUME CollectorsAssumption, CollectType, NEW enough \in BOOLEAN, GoesOn(enough)
  PROVE  /\ read' = read + 1 /\ read' \in 0..MaxRead /\ stage' \in {"reading", "read", "over"}
         /\ stage' \in Early => ~enough
         /\ stage' = "read" => enough
         /\ stage' # "done"
BY Numbers DEF GoesOn, Early

\* What was read is a reading more of some persons.
LEMMA ReadingType ==
  ASSUME CollectorsAssumption, CollectType, UNCHANGED <<given, ended, result>>,
         NEW who \in SUBSET Persons_,
         times' = [p \in Persons_ |-> IF p \in who THEN times[p] + 1 ELSE times[p]],
         read' = read + 1, read' \in 0..MaxRead, stage' \in {"reading", "read", "over"},
         faces' \subseteq Persons_, counted' \subseteq Persons_, tally' \in [qualified: Nat, skipped: Nat]
  PROVE  CollectType'
<1>1. \A p \in Persons_ : times'[p] <= read' /\ times'[p] \in 0..MaxRead
  BY Numbers DEF CollectType
<1>2. times' \in [Persons_ -> 0..MaxRead]
  BY <1>1
<1>3. tally'.qualified \in Nat /\ tally'.skipped \in Nat
  OBVIOUS
<1>4. /\ kind_' \in {"messages", "commenters", "reactors", "members"}
      /\ goal' \in Wants /\ strict' \in BOOLEAN /\ ended' \in BOOLEAN
      /\ looks' \in [Persons_ -> {"fit", "unfit", "barred", "away"}]
      /\ result' \in Results
      /\ result'.there \in BOOLEAN /\ result'.why \in [Reasons -> Nat] /\ result'.raw \in Nat
      /\ result'.targets \subseteq Persons_
  BY DEF given, CollectType, CollectTypeOK
<1> QED BY <1>1, <1>2, <1>3, <1>4 DEF CollectType, CollectTypeOK

LEMMA ReadMessageFacts ==
  ASSUME CollectorsAssumption, CollectType, NEW p \in Persons_, NEW shown \in SUBSET {p}, ReadMessage(p, shown)
  PROVE  /\ kind_ = "messages" /\ stage = "reading" /\ UNCHANGED <<given, ended, result>>
         /\ times' = [q \in Persons_ |-> IF q \in {p} THEN times[q] + 1 ELSE times[q]]
         /\ faces' = faces \cup shown
         /\ counted' = IF times[p] + 1 >= Enough_ /\ InlineReason(p, faces') = "none"
                       THEN counted \cup {p} ELSE counted
         /\ tally' = [tally EXCEPT !.qualified =
                          IF times[p] + 1 = Enough_ THEN tally.qualified + 1 ELSE tally.qualified]
         /\ GoesOn(Reached(Cardinality(counted')) \/ (goal > 0 /\ tally'.qualified >= goal * Overscan))
<1>1. times \in [Persons_ -> 0..MaxRead]
  BY DEF CollectType, CollectTypeOK
<1>2. [times EXCEPT ![p] = @ + 1][p] = times[p] + 1
  BY <1>1
<1>3. times' = [q \in Persons_ |-> IF q \in {p} THEN times[q] + 1 ELSE times[q]]
  BY <1>1 DEF ReadMessage
<1>4. tally' = [tally EXCEPT !.qualified =
                          IF times[p] + 1 = Enough_ THEN tally.qualified + 1 ELSE tally.qualified]
  BY <1>2 DEF ReadMessage
<1>5. tally'.qualified = IF times[p] + 1 = Enough_ THEN tally.qualified + 1 ELSE tally.qualified
  BY <1>4 DEF CollectType
<1>6. faces' = faces \cup shown
  BY DEF ReadMessage
<1>7. counted' = IF times[p] + 1 >= Enough_ /\ InlineReason(p, faces') = "none"
                 THEN counted \cup {p} ELSE counted
  BY <1>2, <1>6 DEF ReadMessage
<1>8. GoesOn(Reached(Cardinality(counted')) \/ (goal > 0 /\ tally'.qualified >= goal * Overscan))
  BY <1>2, <1>5, <1>6, <1>7 DEF ReadMessage
<1>9. kind_ = "messages" /\ stage = "reading" /\ UNCHANGED <<given, ended, result>>
  BY DEF ReadMessage
<1> QED BY <1>3, <1>4, <1>6, <1>7, <1>8, <1>9

LEMMA ReadCommentFacts ==
  ASSUME CollectorsAssumption, CollectType, NEW p \in Persons_, NEW shown \in SUBSET {p}, ReadComment(p, shown)
  PROVE  /\ kind_ = "commenters" /\ stage = "reading" /\ UNCHANGED <<given, counted, ended, result>>
         /\ times' = [q \in Persons_ |-> IF q \in {p} THEN times[q] + 1 ELSE times[q]]
         /\ faces' = faces \cup shown
         /\ tally' = [tally EXCEPT !.qualified =
                          IF times[p] + 1 = Enough_ THEN tally.qualified + 1 ELSE tally.qualified]
         /\ GoesOn(Reached(tally'.qualified))
<1>1. times \in [Persons_ -> 0..MaxRead]
  BY DEF CollectType, CollectTypeOK
<1>3. times' = [q \in Persons_ |-> IF q \in {p} THEN times[q] + 1 ELSE times[q]]
  BY <1>1 DEF ReadComment
<1>4. tally' = [tally EXCEPT !.qualified =
                          IF times[p] + 1 = Enough_ THEN tally.qualified + 1 ELSE tally.qualified]
  BY DEF ReadComment
<1>5. tally'.qualified = IF times[p] + 1 = Enough_ THEN tally.qualified + 1 ELSE tally.qualified
  BY <1>4 DEF CollectType
<1>8. GoesOn(Reached(tally'.qualified))
  BY <1>5 DEF ReadComment
<1>9. kind_ = "commenters" /\ stage = "reading" /\ UNCHANGED <<given, counted, ended, result>> /\ faces' = faces \cup shown
  BY DEF ReadComment
<1> QED BY <1>3, <1>4, <1>8, <1>9

LEMMA ReadMemberFacts ==
  ASSUME CollectorsAssumption, CollectType, NEW p \in Persons_, ReadMember(p)
  PROVE  /\ kind_ = "members" /\ stage = "reading" /\ UNCHANGED <<given, counted, ended, result>>
         /\ times[p] = 0
         /\ times' = [q \in Persons_ |-> IF q \in {p} THEN times[q] + 1 ELSE times[q]]
         /\ faces' = faces \cup {p}
         /\ tally' = [tally EXCEPT !.skipped = IF Away(p) THEN @ + 1 ELSE @]
         /\ GoesOn(~Away(p) /\ Reached(Cardinality({r \in Heard \cup {p} : ~Away(r)})))
<1>1. times \in [Persons_ -> 0..MaxRead]
  BY DEF CollectType, CollectTypeOK
<1>3. times' = [q \in Persons_ |-> IF q \in {p} THEN times[q] + 1 ELSE times[q]]
  <2>1. times[p] + 1 = 1 /\ times' = [times EXCEPT ![p] = 1]
    BY DEF ReadMember
  <2>2. \A q \in Persons_ : times'[q] = IF q \in {p} THEN times[q] + 1 ELSE times[q]
    BY <1>1, <2>1
  <2>3. times' = [q \in Persons_ |-> times'[q]]
    BY <1>1, <2>1
  <2> QED BY <2>2, <2>3
<1> QED BY <1>3 DEF ReadMember

\* A list that is stored: everybody who was given to the filters is in it, or has a reason.
LEMMA CommitsFacts ==
  ASSUME CollectorsAssumption, CollectType, NEW offered \in SUBSET Persons_,
         NEW before \in [Reasons -> Nat], NEW raw \in Nat, Commits(offered, before, raw)
  PROVE  /\ UNCHANGED <<given, reading>> /\ stage' \in {"done", "over"} /\ result' \in Results
         /\ (result' = result /\ ~result.there) \/ result'.targets = Kept(offered)
         /\ Finished' =>
              /\ result'.targets = Kept(offered)
              /\ Cardinality(offered) = Cardinality(result'.targets) + result'.why.unfit + result'.why.barred
              /\ result'.why.few = before.few /\ result'.why.away = before.away
<1> DEFINE Out(r) == {p \in offered : DropReason(p) = r}
           why == [before EXCEPT !.unfit = Cardinality(Out("unfit")), !.barred = Cardinality(Out("barred"))]
<1>1. /\ Out("unfit") \in SUBSET Persons_ /\ Out("barred") \in SUBSET Persons_ /\ Kept(offered) \in SUBSET Persons_
      /\ Cardinality(Out("unfit")) \in Nat /\ Cardinality(Out("barred")) \in Nat /\ Cardinality(Kept(offered)) \in Nat
  <2>1. Out("unfit") \in SUBSET Persons_ /\ Out("barred") \in SUBSET Persons_ /\ Kept(offered) \in SUBSET Persons_
    BY DEF Kept
  <2> QED BY <2>1, PersonsCount
<1>2. /\ why \in [Reasons -> Nat] /\ why["unfit"] = Cardinality(Out("unfit")) /\ why["barred"] = Cardinality(Out("barred"))
      /\ why["few"] = before["few"] /\ why["away"] = before["away"]
  BY <1>1 DEF Reasons
<1>3. \/ /\ result.there /\ stage' = "done"
         /\ result' = [there |-> TRUE, targets |-> Kept(offered), raw |-> raw, why |-> why]
      \/ /\ ~result.there /\ UNCHANGED result
         /\ stage' = IF Kept(offered) = {} THEN "done" ELSE "over"
  BY DEF Commits
<1>4. UNCHANGED <<given, reading>>
  BY DEF Commits
<1>5. Cardinality(offered) = Cardinality(Kept(offered)) + Cardinality(Out("unfit")) + Cardinality(Out("barred"))
  <2> DEFINE A == Kept(offered)
             B == Out("unfit")
             C == Out("barred")
  <2>1. offered = A \cup (B \cup C) /\ A \cap (B \cup C) = {} /\ B \cap C = {}
    BY DropReasons DEF Kept
  <2>2. A \in SUBSET offered /\ B \cup C \in SUBSET offered /\ B \in SUBSET (B \cup C) /\ C \in SUBSET (B \cup C)
    BY DEF Kept
  <2>3. Cardinality(A) \in Nat /\ Cardinality(B) \in Nat /\ Cardinality(C) \in Nat
    BY <1>1
  <2> HIDE DEF A, B, C
  <2>4. B \cup C \in SUBSET Persons_
    BY <2>2
  <2>5. Cardinality(offered) = Cardinality(A) + Cardinality(B \cup C)
    BY <2>1, <2>2, TwoParts_
  <2>6. Cardinality(B \cup C) = Cardinality(B) + Cardinality(C)
    BY <2>1, <2>2, <2>4, TwoParts_
  <2>7. Cardinality(offered) = Cardinality(A) + Cardinality(B) + Cardinality(C)
    BY <2>3, <2>5, <2>6
  <2> QED BY <2>7 DEF A, B, C
<1> HIDE DEF why, Out
<1>6. CASE result.there
  <2>1. /\ result'.there = TRUE /\ result'.targets = Kept(offered) /\ result'.raw = raw /\ result'.why = why
        /\ stage' = "done"
    BY <1>3, <1>6
  <2>2. [there |-> TRUE, targets |-> Kept(offered), raw |-> raw, why |-> why] \in Results
    BY <1>1, <1>2 DEF Results
  <2>3. result' \in Results
    BY <1>3, <1>6, <2>2
  <2> QED BY <1>2, <1>4, <1>5, <2>1, <2>3
<1>7. CASE ~result.there
  <2>1. ~result'.there /\ result' = result /\ stage' \in {"done", "over"} /\ result' \in Results
    BY <1>3, <1>7 DEF CollectType
  <2> QED BY <1>4, <1>7, <2>1 DEF Finished
<1> QED BY <1>6, <1>7

\* What each collector gives to the filters, and the reasons there are before them.
LEMMA StoresCommit ==
  ASSUME CollectorsAssumption, CollectType,
         StoreAuthors \/ StoreCommenters \/ StoreReactors \/ StoreMembers
  PROVE  \E offered \in SUBSET Persons_ : \E before \in [Reasons -> Nat] : \E raw \in Nat :
           /\ Commits(offered, before, raw)
           /\ IF kind_ = "members" THEN offered = Seen /\ before.few = 0 /\ before.away = tally.skipped
              ELSE offered = Enough /\ before.few = Cardinality(Few) /\ before.away = 0
           /\ stage \in {"read", "alone"} /\ (kind_ = "messages" => stage = "read")
<1>1. Cardinality(Few) \in Nat /\ Cardinality(Heard) \in Nat /\ tally.skipped \in Nat
  BY Numbers, PersonsCount
<1>2. NoReasons \in [Reasons -> Nat] /\ \A r \in Reasons : NoReasons[r] = 0
  BY DEF NoReasons
<1>3. Enough \in SUBSET Persons_ /\ Seen \in SUBSET Persons_ /\ Enough = Heard \ Few /\ Seen = {p \in Heard : ~Away(p)}
  BY Numbers DEF Seen
<1>4. CASE StoreAuthors
  <2> DEFINE before == [NoReasons EXCEPT !.few = Cardinality(Few)]
  <2>1. before \in [Reasons -> Nat] /\ before.few = Cardinality(Few) /\ before.away = 0
    BY <1>1, <1>2 DEF Reasons
  <2>2. Kept(Enough) \in SUBSET Persons_
    BY <1>3 DEF Kept
  <2>3. Cardinality(Kept(Enough)) \in Nat
    BY <2>2, PersonsCount
  <2>4. Commits(Enough, before, Cardinality(Kept(Enough))) /\ kind_ = "messages" /\ stage = "read"
    BY <1>3, <1>4 DEF StoreAuthors
  <2> QED BY <1>3, <2>1, <2>3, <2>4
<1>5. CASE StoreCommenters
  <2> DEFINE before == [NoReasons EXCEPT !.few = Cardinality(Few), !.no_chat = IF stage = "alone" THEN 1 ELSE 0]
  <2>1. before \in [Reasons -> Nat] /\ before.few = Cardinality(Few) /\ before.away = 0
    BY <1>1, <1>2 DEF Reasons
  <2>2. Commits(Enough, before, Cardinality(Heard)) /\ kind_ = "commenters" /\ stage \in {"read", "alone"}
    BY <1>3, <1>5 DEF StoreCommenters
  <2> QED BY <1>1, <1>3, <2>1, <2>2
<1>6. CASE StoreReactors
  <2> DEFINE before == [NoReasons EXCEPT !.few = Cardinality(Few)]
  <2>1. before \in [Reasons -> Nat] /\ before.few = Cardinality(Few) /\ before.away = 0
    BY <1>1, <1>2 DEF Reasons
  <2>2. Commits(Enough, before, Cardinality(Heard)) /\ kind_ = "reactors" /\ stage = "read"
    BY <1>3, <1>6 DEF StoreReactors
  <2> QED BY <1>1, <1>3, <2>1, <2>2
<1>7. CASE StoreMembers
  <2> DEFINE before == [NoReasons EXCEPT !.away = tally.skipped]
  <2>1. before \in [Reasons -> Nat] /\ before.few = 0 /\ before.away = tally.skipped
    BY <1>1, <1>2 DEF Reasons
  <2>2. Commits(Seen, before, Cardinality(Heard)) /\ kind_ = "members" /\ stage = "read"
    BY <1>3, <1>7 DEF StoreMembers
  <2> QED BY <1>1, <1>3, <2>1, <2>2
<1> QED BY <1>4, <1>5, <1>6, <1>7

LEMMA CollectTypeKeeps ==
  ASSUME CollectorsAssumption, CollectType, CollectNext PROVE CollectType'
<1>n. /\ faces \subseteq Persons_ /\ counted \subseteq Persons_ /\ result \in Results
      /\ tally \in [qualified: Nat, skipped: Nat]
  BY DEF CollectType, CollectTypeOK
<1>a. ASSUME UNCHANGED <<given, reading>>, result' \in Results,
             stage' \in {"new", "listed", "reading", "read", "alone", "done", "over"}
      PROVE  CollectType'
  BY <1>a DEF CollectType, CollectTypeOK, given, reading, Results
<1>1. CASE Opens
  <2>1. result' \in Results
    BY <1>1, <1>n, EmptyFits DEF Opens
  <2> QED BY <1>1, <1>a, <2>1 DEF Opens
<1>2. CASE Enters \/ Breaks
  <2>1. stage' \in {"reading", "alone", "over"} /\ UNCHANGED <<given, reading, result>>
    BY <1>2 DEF Enters, Breaks
  <2> QED BY <1>a, <1>n, <2>1
<1>3. CASE WindowEnds
  BY <1>3 DEF WindowEnds, CollectType, CollectTypeOK, given
<1>4. CASE Dropped
  <2>1. stage \in {"new", "listed", "reading", "read", "alone", "done", "over"}
    BY DEF CollectType, CollectTypeOK
  <2> QED BY <1>4, <1>a, <2>1, EmptyFits DEF Dropped
<1>5. CASE StoreAuthors \/ StoreCommenters \/ StoreReactors \/ StoreMembers
  <2> PICK offered \in SUBSET Persons_, before \in [Reasons -> Nat], raw \in Nat : Commits(offered, before, raw)
    BY <1>5, StoresCommit
  <2>1. UNCHANGED <<given, reading>> /\ stage' \in {"done", "over"} /\ result' \in Results
    BY CommitsFacts
  <2> QED BY <1>a, <2>1
<1>6. CASE \E p \in Persons_ : \E shown \in SUBSET {p} : ReadMessage(p, shown)
  <2> PICK p \in Persons_ : \E shown \in SUBSET {p} : ReadMessage(p, shown)
    BY <1>6
  <2> PICK shown \in SUBSET {p} : ReadMessage(p, shown)
    OBVIOUS
  <2>1. faces' \subseteq Persons_ /\ counted' \subseteq Persons_ /\ tally' \in [qualified: Nat, skipped: Nat]
    BY <1>n, ReadMessageFacts
  <2>2. read' = read + 1 /\ read' \in 0..MaxRead /\ stage' \in {"reading", "read", "over"}
    BY ReadMessageFacts, GoesOnType
  <2>3. times' = [q \in Persons_ |-> IF q \in {p} THEN times[q] + 1 ELSE times[q]] /\ UNCHANGED <<given, ended, result>>
    BY ReadMessageFacts
  <2>4. {p} \in SUBSET Persons_
    OBVIOUS
  <2> QED BY <2>1, <2>2, <2>3, <2>4, ReadingType
<1>7. CASE \E p \in Persons_ : \E shown \in SUBSET {p} : ReadComment(p, shown)
  <2> PICK p \in Persons_ : \E shown \in SUBSET {p} : ReadComment(p, shown)
    BY <1>7
  <2> PICK shown \in SUBSET {p} : ReadComment(p, shown)
    OBVIOUS
  <2>1. faces' \subseteq Persons_ /\ counted' \subseteq Persons_ /\ tally' \in [qualified: Nat, skipped: Nat]
    BY <1>n, ReadCommentFacts
  <2>0. Reached(tally'.qualified) \in BOOLEAN
    BY DEF Reached
  <2>2. read' = read + 1 /\ read' \in 0..MaxRead /\ stage' \in {"reading", "read", "over"}
    BY <2>0, ReadCommentFacts, GoesOnType
  <2>3. times' = [q \in Persons_ |-> IF q \in {p} THEN times[q] + 1 ELSE times[q]] /\ UNCHANGED <<given, ended, result>>
    BY ReadCommentFacts
  <2>4. {p} \in SUBSET Persons_
    OBVIOUS
  <2> QED BY <2>1, <2>2, <2>3, <2>4, ReadingType
<1>8. CASE \E p \in Persons_ : ReadMember(p)
  <2> PICK p \in Persons_ : ReadMember(p)
    BY <1>8
  <2>1. faces' \subseteq Persons_ /\ counted' \subseteq Persons_ /\ tally' \in [qualified: Nat, skipped: Nat]
    <3>1. tally.skipped + 1 \in Nat
      BY <1>n
    <3>2. tally' \in [qualified: Nat, skipped: Nat]
      BY <1>n, <3>1, ReadMemberFacts
    <3> QED BY <1>n, <3>2, ReadMemberFacts
  <2>2. read' = read + 1 /\ read' \in 0..MaxRead /\ stage' \in {"reading", "read", "over"}
    BY ReadMemberFacts, GoesOnType
  <2>3. times' = [q \in Persons_ |-> IF q \in {p} THEN times[q] + 1 ELSE times[q]] /\ UNCHANGED <<given, ended, result>>
    BY ReadMemberFacts
  <2>4. {p} \in SUBSET Persons_
    OBVIOUS
  <2> QED BY <2>1, <2>2, <2>3, <2>4, ReadingType
<1>9. CASE \E who \in SUBSET Persons_ : ReadPost(who)
  <2> PICK who \in SUBSET Persons_ : ReadPost(who)
    BY <1>9
  <2>1. faces' \subseteq Persons_ /\ counted' \subseteq Persons_ /\ tally' \in [qualified: Nat, skipped: Nat]
    BY <1>n DEF ReadPost
  <2>0. Reached(Cardinality(Heard \cup who)) \in BOOLEAN
    BY DEF Reached
  <2>2. read' = read + 1 /\ read' \in 0..MaxRead /\ stage' \in {"reading", "read", "over"}
    BY <2>0, GoesOnType DEF ReadPost
  <2>3. /\ times' = [q \in Persons_ |-> IF q \in who THEN times[q] + 1 ELSE times[q]]
        /\ UNCHANGED <<given, ended, result>>
    BY DEF ReadPost
  <2> QED BY <2>1, <2>2, <2>3, ReadingType
<1> QED BY <1>1, <1>2, <1>3, <1>4, <1>5, <1>6, <1>7, <1>8, <1>9, CollectActions
-----------------------------------------------------------------------------
\* A reading more of p: who has said enough, and who was heard.
LEMMA OneMore ==
  ASSUME CollectorsAssumption, CollectType, NEW p \in Persons_, UNCHANGED given,
         times' = [q \in Persons_ |-> IF q \in {p} THEN times[q] + 1 ELSE times[q]]
  PROVE  /\ Enough' = IF times[p] + 1 >= Enough_ THEN Enough \cup {p} ELSE Enough
         /\ p \in Enough <=> times[p] >= Enough_
         /\ Heard' = Heard \cup {p}
<1>1. \A q \in Persons_ : times'[q] = IF q = p THEN times[q] + 1 ELSE times[q]
  OBVIOUS
<1>2. \A q \in Persons_ : times[q] \in Nat /\ Enough_ \in Nat
  BY Numbers
<1>3. Enough' = IF times[p] + 1 >= Enough_ THEN Enough \cup {p} ELSE Enough
  BY <1>1, <1>2 DEF Enough
<1>4. Heard' = Heard \cup {p}
  BY <1>1, <1>2 DEF Heard
<1> QED BY <1>3, <1>4 DEF Enough

\* One more is counted, or is not, as long as there were fewer than were asked for.
LEMMA WithinKeeps ==
  ASSUME CollectorsAssumption, CollectType, UNCHANGED given, NEW n \in Nat, NEW m \in Nat, Within(n), stage = "reading",
         m \in {n, n + 1}, stage' \in Early => ~Reached(m)
  PROVE  /\ goal > 0 => m <= goal
         /\ goal > 0 /\ stage' \in Early => m < goal
<1>1. goal \in Nat
  BY Numbers
<1> QED BY <1>1 DEF Within, Reached, Early

LEMMA MessagesKeep ==
  ASSUME CollectorsAssumption, CollectType, MessagesFit, NEW p \in Persons_, NEW shown \in SUBSET {p},
         ReadMessage(p, shown)
  PROVE  MessagesFit'
<1>1. /\ stage = "reading" /\ UNCHANGED <<given, ended, result>> /\ faces' = faces \cup shown
      /\ counted' = IF times[p] + 1 >= Enough_ /\ InlineReason(p, faces') = "none"
                    THEN counted \cup {p} ELSE counted
      /\ times' = [q \in Persons_ |-> IF q \in {p} THEN times[q] + 1 ELSE times[q]]
  BY ReadMessageFacts
<1>2. Enough' = IF times[p] + 1 >= Enough_ THEN Enough \cup {p} ELSE Enough
  BY <1>1, OneMore
<1>3. strict' = strict /\ looks' = looks /\ goal' = goal /\ goal \in Nat /\ ended' = ended
  BY <1>1, Numbers DEF given
<1>4. \A r \in counted' : r \in Enough' /\ (strict' => r \in faces' /\ looks'[r] # "unfit")
  <2>1. \A r \in counted : r \in Enough /\ (strict => r \in faces /\ looks[r] # "unfit")
    BY DEF MessagesFit
  <2>2. InlineReason(p, faces') = "none" /\ strict => p \in faces' /\ looks[p] # "unfit"
    BY DEF InlineReason, Faceless
  <2>3. ASSUME NEW r \in counted', r \in counted
        PROVE  r \in Enough' /\ (strict' => r \in faces' /\ looks'[r] # "unfit")
    BY <1>1, <1>2, <1>3, <2>1, <2>3
  <2>4. ASSUME NEW r \in counted', r \notin counted
        PROVE  r \in Enough' /\ (strict' => r \in faces' /\ looks'[r] # "unfit")
    BY <1>1, <1>2, <1>3, <2>2, <2>4
  <2> QED BY <2>3, <2>4
<1>5. \A r \in Enough' : InlineReason(r, faces)' = "none" => r \in counted'
  <2>1. \A r \in Enough : InlineReason(r, faces) = "none" => r \in counted
    BY DEF MessagesFit
  <2>2. \A r : r # p => InlineReason(r, faces)' = InlineReason(r, faces)
    BY <1>1, <1>3 DEF InlineReason, Faceless
  <2>3. InlineReason(p, faces)' = InlineReason(p, faces')
    BY <1>3 DEF InlineReason, Faceless
  <2>4. p \in Enough' => times[p] + 1 >= Enough_
    <3>1. times[p] \in Nat /\ Enough_ \in Nat
      BY Numbers
    <3>2. p \in Enough => times[p] >= Enough_
      BY DEF Enough
    <3> QED BY <1>2, <3>1, <3>2
  <2> QED BY <1>1, <1>2, <2>1, <2>2, <2>3, <2>4
<1>6. /\ Cardinality(counted) \in Nat /\ Cardinality(counted') \in Nat
      /\ Cardinality(counted') \in {Cardinality(counted), Cardinality(counted) + 1}
  <2>1. counted \in SUBSET Persons_ /\ counted' \in SUBSET Persons_
    BY <1>1 DEF CollectType, CollectTypeOK
  <2>2. Cardinality(counted \cup {p}) \in {Cardinality(counted), Cardinality(counted) + 1}
    BY <2>1, PersonsCount
  <2> QED BY <1>1, <2>1, <2>2, PersonsCount
<1> DEFINE n == Cardinality(counted')
           q == tally'.qualified
           bound == goal * Overscan
<1>7. GoesOn(Reached(n) \/ (goal > 0 /\ q >= bound))
  BY ReadMessageFacts
<1>8. bound \in Nat /\ q \in Nat
  <2>1. tally' \in [qualified: Nat, skipped: Nat]
    BY ReadMessageFacts DEF CollectType
  <2>2. goal \in Nat /\ Overscan \in Nat
    BY Numbers
  <2> QED BY <2>1, <2>2
<1>9. /\ stage' \in Early => ~Reached(n)
      /\ stage' = "read" => Reached(n) \/ q >= bound
      /\ stage' # "done"
  BY <1>7, GoesOnType DEF Reached
<1> HIDE DEF bound, q
<1>10. Within(Cardinality(counted))'
  <2>1. Within(Cardinality(counted))
    BY DEF MessagesFit
  <2>2. /\ goal > 0 => n <= goal
        /\ goal > 0 /\ stage' \in Early => n < goal
    BY <1>1, <1>6, <1>9, <2>1, WithinKeeps
  <2> QED BY <1>3, <2>2 DEF Within, Early
<1>11. goal' > 0 /\ stage' \in {"read", "done"} /\ ~ended' /\ tally'.qualified < goal' * Overscan =>
          Cardinality(counted') >= goal'
  <2>1. goal' > 0 /\ stage' \in {"read", "done"} /\ q < bound => n >= goal
    BY <1>3, <1>6, <1>8, <1>9 DEF Reached
  <2> QED BY <1>3, <2>1 DEF q, bound
<1> QED BY <1>4, <1>5, <1>10, <1>11 DEF MessagesFit

LEMMA CommentersKeep ==
  ASSUME CollectorsAssumption, CollectType, NEW p \in Persons_, NEW shown \in SUBSET {p},
         tally.qualified = Cardinality(Enough), Within(tally.qualified), ReadComment(p, shown)
  PROVE  tally'.qualified = Cardinality(Enough)' /\ Within(tally.qualified)'
<1>1. /\ stage = "reading" /\ UNCHANGED given
      /\ times' = [q \in Persons_ |-> IF q \in {p} THEN times[q] + 1 ELSE times[q]]
      /\ tally' = [tally EXCEPT !.qualified =
                       IF times[p] + 1 = Enough_ THEN tally.qualified + 1 ELSE tally.qualified]
      /\ GoesOn(Reached(tally'.qualified))
  BY ReadCommentFacts
<1>2. /\ Enough' = IF times[p] + 1 >= Enough_ THEN Enough \cup {p} ELSE Enough
      /\ p \in Enough <=> times[p] >= Enough_
      /\ times[p] \in Nat /\ Enough_ \in Nat /\ tally.qualified \in Nat
  BY <1>1, OneMore, Numbers
<1>3. tally'.qualified = IF times[p] + 1 = Enough_ THEN tally.qualified + 1 ELSE tally.qualified
  BY <1>1 DEF CollectType
<1>4. Cardinality(Enough \cup {p}) = IF p \in Enough THEN Cardinality(Enough) ELSE Cardinality(Enough) + 1
  <2>1. Enough \in SUBSET Persons_
    BY DEF Enough
  <2> QED BY <2>1, PersonsCount
<1>5. Cardinality(Enough') = tally'.qualified
  <2>1. CASE times[p] + 1 = Enough_
    BY <1>2, <1>3, <1>4, <2>1
  <2>2. CASE times[p] >= Enough_
    <3>1. Enough' = Enough \cup {p} /\ p \in Enough /\ tally'.qualified = tally.qualified
      BY <1>2, <1>3, <2>2
    <3> QED BY <1>4, <3>1
  <2>3. CASE times[p] + 1 < Enough_
    <3>1. Enough' = Enough /\ tally'.qualified = tally.qualified
      BY <1>2, <1>3, <2>3
    <3> QED BY <3>1
  <2> QED BY <1>2, <2>1, <2>2, <2>3
<1>6. tally'.qualified \in Nat /\ tally'.qualified \in {tally.qualified, tally.qualified + 1}
  BY <1>2, <1>3
<1>7. stage' \in Early => ~Reached(tally'.qualified)
  BY <1>1, GoesOnType DEF Reached
<1>8. /\ goal > 0 => tally'.qualified <= goal
      /\ goal > 0 /\ stage' \in Early => tally'.qualified < goal
  BY <1>1, <1>2, <1>6, <1>7, WithinKeeps
<1>9. goal' = goal
  BY <1>1 DEF given
<1> QED BY <1>5, <1>8, <1>9 DEF Within, Early

LEMMA MembersKeep ==
  ASSUME CollectorsAssumption, CollectType, NEW p \in Persons_,
         tally.skipped = Cardinality(Unseen), Within(Cardinality(Seen)), ReadMember(p)
  PROVE  tally'.skipped = Cardinality(Unseen)' /\ Within(Cardinality(Seen))'
<1>1. /\ stage = "reading" /\ UNCHANGED given /\ times[p] = 0
      /\ times' = [q \in Persons_ |-> IF q \in {p} THEN times[q] + 1 ELSE times[q]]
      /\ tally' = [tally EXCEPT !.skipped = IF Away(p) THEN @ + 1 ELSE @]
      /\ GoesOn(~Away(p) /\ Reached(Cardinality({r \in Heard \cup {p} : ~Away(r)})))
  BY ReadMemberFacts
<1>2. Heard' = Heard \cup {p} /\ p \notin Heard
  BY <1>1, OneMore DEF Heard
<1>3. \A r : Away(r)' <=> Away(r)
  BY <1>1 DEF Away, given
<1>4. /\ Seen' = IF Away(p) THEN Seen ELSE Seen \cup {p}
      /\ Unseen' = IF Away(p) THEN Unseen \cup {p} ELSE Unseen
      /\ Seen' = {r \in Heard \cup {p} : ~Away(r)}
      /\ p \notin Seen /\ p \notin Unseen
  BY <1>2, <1>3 DEF Seen, Unseen
<1>5. Seen \in SUBSET Persons_ /\ Unseen \in SUBSET Persons_
  BY Numbers
<1>6. /\ Cardinality(Seen \cup {p}) = Cardinality(Seen) + 1 /\ Cardinality(Unseen \cup {p}) = Cardinality(Unseen) + 1
      /\ Cardinality(Seen) \in Nat
  BY <1>4, <1>5, PersonsCount
<1>7. tally'.skipped = IF Away(p) THEN tally.skipped + 1 ELSE tally.skipped
  BY <1>1 DEF CollectType
<1>8. tally'.skipped = Cardinality(Unseen')
  BY <1>4, <1>6, <1>7
<1>9. GoesOn(~Away(p) /\ Reached(Cardinality(Seen')))
  BY <1>1, <1>4
<1>10. CASE ~Away(p)
  <2>1. Cardinality(Seen') = Cardinality(Seen) + 1
    BY <1>4, <1>6, <1>10
  <2>2. (~Away(p) /\ Reached(Cardinality(Seen'))) \in BOOLEAN
    BY DEF Reached
  <2>3. stage' \in Early => ~Reached(Cardinality(Seen'))
    BY <1>9, <1>10, <2>2, GoesOnType
  <2>4. /\ goal > 0 => Cardinality(Seen') <= goal
        /\ goal > 0 /\ stage' \in Early => Cardinality(Seen') < goal
    BY <1>1, <1>6, <2>1, <2>3, WithinKeeps
  <2>5. goal' = goal
    BY <1>1 DEF given
  <2> QED BY <1>8, <2>4, <2>5 DEF Within, Early
<1>11. CASE Away(p)
  <2>1. Seen' = Seen /\ goal' = goal
    BY <1>1, <1>4, <1>11 DEF given
  <2> QED BY <1>1, <1>8, <2>1 DEF Within, Early
<1> QED BY <1>10, <1>11

LEMMA CountsKeep ==
  ASSUME CollectorsAssumption, CollectType, CountsFit, CollectNext PROVE CountsFit'
<1>a. ASSUME UNCHANGED <<given, times, faces, counted, tally, read>>, stage' \in Early => stage \in Early,
             ended' = ended \/ ended',
             kind_ = "messages" /\ stage' \in {"read", "done"} /\ ~ended' => stage \in {"read", "done"} /\ ~ended
      PROVE  CountsFit'
  <2>1. UNCHANGED <<kind_, goal, strict, looks, times, faces, counted, tally>>
    BY <1>a DEF given
  <2>2. Enough' = Enough /\ Seen' = Seen /\ Unseen' = Unseen
    BY <2>1 DEF Enough, Seen, Unseen, Heard, Away
  <2>3. \A p : InlineReason(p, faces)' = InlineReason(p, faces)
    BY <2>1 DEF InlineReason, Faceless
  <2>4. ASSUME NEW n, Within(n) PROVE goal' > 0 => n <= goal' /\ (stage' \in Early' => n < goal')
    BY <1>a, <2>1, <2>4 DEF Within, Early
  <2>5. ASSUME kind_ = "messages" PROVE MessagesFit'
    <3>1. MessagesFit
      BY <2>5 DEF CountsFit
    <3>2. Within(Cardinality(counted))'
      BY <2>1, <2>4, <3>1 DEF MessagesFit, Within
    <3>3. /\ \A p \in counted : p \in Enough /\ (strict => p \in faces /\ looks[p] # "unfit")
          /\ \A p \in Enough : InlineReason(p, faces) = "none" => p \in counted
          /\ goal > 0 /\ stage \in {"read", "done"} /\ ~ended /\ tally.qualified < goal * Overscan =>
               Cardinality(counted) >= goal
      BY <3>1 DEF MessagesFit
    <3>4. goal' > 0 /\ stage' \in {"read", "done"} /\ ~ended' /\ tally'.qualified < goal' * Overscan =>
               Cardinality(counted') >= goal'
      BY <1>a, <2>1, <2>5, <3>3
    <3> QED BY <2>1, <2>2, <2>3, <3>2, <3>3, <3>4 DEF MessagesFit
  <2>6. ASSUME kind_ = "commenters" PROVE tally'.qualified = Cardinality(Enough') /\ Within(tally.qualified)'
    BY <2>1, <2>2, <2>4, <2>6 DEF CountsFit, Within
  <2>7. ASSUME kind_ = "members" PROVE tally'.skipped = Cardinality(Unseen') /\ Within(Cardinality(Seen))'
    BY <2>1, <2>2, <2>4, <2>7 DEF CountsFit, Within
  <2> QED BY <2>1, <2>5, <2>6, <2>7 DEF CountsFit
<1>1. CASE Opens \/ Enters \/ Breaks \/ Dropped
  <2>1. UNCHANGED <<given, reading>> /\ (stage' = stage \/ stage' \in {"over", "listed", "reading", "alone"})
    BY <1>1 DEF Opens, Enters, Breaks, Dropped
  <2>2. stage' \in Early => stage \in Early
    BY <1>1 DEF Opens, Enters, Breaks, Dropped, Early
  <2> QED BY <1>a, <2>1, <2>2 DEF reading
<1>2. CASE WindowEnds
  BY <1>2, <1>a DEF WindowEnds, Early
<1>3. CASE StoreAuthors \/ StoreCommenters \/ StoreReactors \/ StoreMembers
  <2>1. \E offered \in SUBSET Persons_ : \E before \in [Reasons -> Nat] : \E raw \in Nat :
           Commits(offered, before, raw) /\ (kind_ = "messages" => stage = "read")
    BY <1>3, StoresCommit
  <2> PICK offered \in SUBSET Persons_, before \in [Reasons -> Nat], raw \in Nat :
           Commits(offered, before, raw) /\ (kind_ = "messages" => stage = "read")
    BY <2>1
  <2>2. UNCHANGED <<given, reading>> /\ stage' \in {"done", "over"}
    BY CommitsFacts
  <2> QED BY <1>a, <2>2 DEF Early, reading
<1>4. CASE \E p \in Persons_ : \E shown \in SUBSET {p} : ReadMessage(p, shown)
  <2> PICK p \in Persons_ : \E shown \in SUBSET {p} : ReadMessage(p, shown)
    BY <1>4
  <2> PICK shown \in SUBSET {p} : ReadMessage(p, shown)
    OBVIOUS
  <2>1. kind_ = "messages" /\ kind_' = kind_
    BY DEF ReadMessage, given
  <2> QED BY <2>1, MessagesKeep DEF CountsFit
<1>5. CASE \E p \in Persons_ : \E shown \in SUBSET {p} : ReadComment(p, shown)
  <2> PICK p \in Persons_ : \E shown \in SUBSET {p} : ReadComment(p, shown)
    BY <1>5
  <2> PICK shown \in SUBSET {p} : ReadComment(p, shown)
    OBVIOUS
  <2>1. kind_ = "commenters" /\ kind_' = kind_
    BY DEF ReadComment, given
  <2> QED BY <2>1, CommentersKeep DEF CountsFit
<1>6. CASE \E p \in Persons_ : ReadMember(p)
  <2> PICK p \in Persons_ : ReadMember(p)
    BY <1>6
  <2>1. kind_ = "members" /\ kind_' = kind_
    BY DEF ReadMember, given
  <2> QED BY <2>1, MembersKeep DEF CountsFit
<1>7. CASE \E who \in SUBSET Persons_ : ReadPost(who)
  <2>1. kind_ = "reactors" /\ kind_' = kind_
    BY <1>7 DEF ReadPost, given
  <2> QED BY <2>1 DEF CountsFit
<1> QED BY <1>1, <1>2, <1>3, <1>4, <1>5, <1>6, <1>7, CollectActions
-----------------------------------------------------------------------------
\* What the filters leave of what each collector gives them, next to what it counted.
LEMMA KeptFits ==
  ASSUME CollectorsAssumption, CollectType, CountsFit
  PROVE  /\ goal > 0 /\ kind_ \in {"messages", "commenters"} => Cardinality(Kept(Enough)) <= goal
         /\ goal > 0 /\ kind_ = "members" => Cardinality(Kept(Seen)) <= goal
         /\ kind_ = "messages" =>
              counted \subseteq Kept(Enough) \cup {p \in counted : looks[p] = "barred" \/ (looks[p] = "unfit" /\ ~strict)}
<1>1. goal \in Nat /\ Enough \in SUBSET Persons_ /\ Seen \in SUBSET Persons_ /\ counted \in SUBSET Persons_
  BY Numbers DEF CollectType, CollectTypeOK
<1>2. Cardinality(Enough) \in Nat /\ Cardinality(Seen) \in Nat /\ Cardinality(counted) \in Nat
  BY <1>1, PersonsCount
<1>3. /\ Kept(Enough) \in SUBSET Enough /\ Kept(Seen) \in SUBSET Seen
      /\ Kept(Enough) \in SUBSET Persons_ /\ Kept(Seen) \in SUBSET Persons_
  BY <1>1 DEF Kept
<1>4. Cardinality(Kept(Enough)) \in Nat /\ Cardinality(Kept(Seen)) \in Nat
  BY <1>3, PersonsCount
<1>5. ASSUME kind_ = "messages"
      PROVE  /\ goal > 0 => Cardinality(Kept(Enough)) <= goal
             /\ counted \subseteq Kept(Enough) \cup {p \in counted : looks[p] = "barred" \/ (looks[p] = "unfit" /\ ~strict)}
  <2>1. /\ \A p \in counted : p \in Enough /\ (strict => p \in faces /\ looks[p] # "unfit")
        /\ \A p \in Enough : InlineReason(p, faces) = "none" => p \in counted
        /\ Within(Cardinality(counted))
    BY <1>5 DEF CountsFit, MessagesFit
  <2>2. Kept(Enough) \in SUBSET counted
    BY <1>1, <2>1, DropReasons DEF Kept
  <2>3. Cardinality(Kept(Enough)) <= Cardinality(counted)
    BY <1>1, <2>2, PersonsCount
  <2>4. goal > 0 => Cardinality(Kept(Enough)) <= goal
    BY <1>1, <1>2, <1>4, <2>1, <2>3 DEF Within
  <2>5. ASSUME NEW p \in counted, looks[p] # "barred", ~(looks[p] = "unfit" /\ ~strict)
        PROVE  p \in Kept(Enough)
    <3>1. p \in Persons_ /\ p \in Enough /\ (strict => p \in faces /\ looks[p] # "unfit")
      BY <1>1, <2>1
    <3>2. looks[p] # "unfit"
      BY <2>5, <3>1
    <3>3. InlineReason(p, faces) = "none"
      BY <3>1, <3>2 DEF InlineReason, Faceless
    <3>4. DropReason(p) # "unfit" /\ DropReason(p) # "barred"
      BY <2>5, <3>1, <3>3, DropReasons
    <3> QED BY <3>1, <3>4, DropReasons DEF Kept
  <2> QED BY <2>4, <2>5
<1>6. ASSUME kind_ = "commenters", goal > 0 PROVE Cardinality(Kept(Enough)) <= goal
  <2>1. Cardinality(Enough) <= goal
    BY <1>6 DEF CountsFit, Within
  <2>2. Cardinality(Kept(Enough)) <= Cardinality(Enough)
    BY <1>1, <1>3, PersonsCount
  <2> QED BY <1>1, <1>2, <1>4, <2>1, <2>2
<1>7. ASSUME kind_ = "members", goal > 0 PROVE Cardinality(Kept(Seen)) <= goal
  <2>1. Cardinality(Seen) <= goal
    BY <1>7 DEF CountsFit, Within
  <2>2. Cardinality(Kept(Seen)) <= Cardinality(Seen)
    BY <1>1, <1>3, PersonsCount
  <2> QED BY <1>1, <1>2, <1>4, <2>1, <2>2
<1> QED BY <1>5, <1>6, <1>7

\* Whom was heard: those who said too little and those who said enough; the seen and the others.
LEMMA HeardParts ==
  ASSUME CollectorsAssumption, CollectType
  PROVE  /\ Cardinality(Heard) = Cardinality(Few) + Cardinality(Enough)
         /\ Cardinality(Heard) = Cardinality(Seen) + Cardinality(Unseen)
         /\ Cardinality(Few) \in Nat /\ Cardinality(Enough) \in Nat /\ Cardinality(Seen) \in Nat /\ Cardinality(Unseen) \in Nat
<1>1. /\ Heard \in SUBSET Persons_ /\ Few \in SUBSET Heard /\ Enough \in SUBSET Heard
      /\ Seen \in SUBSET Heard /\ Unseen \in SUBSET Heard
  BY Numbers
<1>2. Heard = Few \cup Enough /\ Few \cap Enough = {}
  BY Numbers
<1>3. Heard = Seen \cup Unseen /\ Seen \cap Unseen = {}
  BY DEF Seen, Unseen
<1>4. Cardinality(Heard) = Cardinality(Few) + Cardinality(Enough)
  BY <1>1, <1>2, TwoParts_
<1>5. Cardinality(Heard) = Cardinality(Seen) + Cardinality(Unseen)
  BY <1>1, <1>3, TwoParts_
<1>6. Few \in SUBSET Persons_ /\ Enough \in SUBSET Persons_ /\ Seen \in SUBSET Persons_ /\ Unseen \in SUBSET Persons_
  BY <1>1
<1>7. Cardinality(Few) \in Nat /\ Cardinality(Enough) \in Nat /\ Cardinality(Seen) \in Nat /\ Cardinality(Unseen) \in Nat
  BY <1>6, PersonsCount
<1> QED BY <1>4, <1>5, <1>7

\* What the list says once it is stored, and how it stays.
LEMMA ListKeeps ==
  ASSUME CollectorsAssumption, CollectInv, CollectNext
  PROVE  EverybodyAccounted' /\ NoMoreThanAsked' /\ AsManyAsAsked'
<1>t. CollectType /\ CountsFit /\ EverybodyAccounted /\ NoMoreThanAsked /\ AsManyAsAsked
  BY DEF CollectInv
<1>g. goal \in Nat /\ result.targets \in SUBSET Persons_
  BY <1>t, Numbers DEF CollectType, CollectTypeOK
\* No list is finished by this step.
<1>a. ASSUME UNCHANGED given, ~Finished', result' = result \/ result'.targets = {}
      PROVE  EverybodyAccounted' /\ NoMoreThanAsked' /\ AsManyAsAsked'
  <2>1. EverybodyAccounted' /\ AsManyAsAsked'
    BY <1>a DEF EverybodyAccounted, AsManyAsAsked
  <2>2. goal > 0 /\ kind_ # "reactors" => Cardinality(result'.targets) <= goal
    <3>1. Cardinality({}) = 0
      BY FS_EmptySet
    <3>2. CASE result' = result
      BY <1>t, <3>2 DEF NoMoreThanAsked
    <3>3. CASE result'.targets = {}
      BY <1>g, <3>1, <3>3
    <3> QED BY <1>a, <3>2, <3>3
  <2> QED BY <1>a, <2>1, <2>2 DEF NoMoreThanAsked, given
<1>1. CASE Opens
  <2>1. UNCHANGED given /\ stage' # "done"
    BY <1>1 DEF Opens
  <2>2. result' = result \/ result'.targets = {}
    BY <1>1, EmptyFits DEF Opens
  <2> QED BY <1>a, <2>1, <2>2 DEF Finished
<1>2. CASE Enters \/ Breaks \/ WindowEnds
  <2>1. UNCHANGED given /\ stage' # "done" /\ result' = result
    BY <1>2 DEF Enters, Breaks, WindowEnds
  <2> QED BY <1>a, <2>1 DEF Finished
<1>3. CASE Dropped
  <2>1. UNCHANGED given /\ stage' # "done" /\ result' = Empty
    BY <1>3 DEF Dropped
  <2> QED BY <1>a, <2>1, EmptyFits DEF Finished
<1>4. CASE \/ \E p \in Persons_ : \E shown \in SUBSET {p} : ReadMessage(p, shown) \/ ReadComment(p, shown)
           \/ \E p \in Persons_ : ReadMember(p)
           \/ \E who \in SUBSET Persons_ : ReadPost(who)
  <2>1. UNCHANGED given /\ result' = result
    BY <1>4 DEF ReadMessage, ReadComment, ReadMember, ReadPost
  <2>2. stage' # "done"
    BY <1>4 DEF ReadMessage, ReadComment, ReadMember, ReadPost, GoesOn
  <2> QED BY <1>a, <2>1, <2>2 DEF Finished
<1>5. CASE StoreAuthors \/ StoreCommenters \/ StoreReactors \/ StoreMembers
  <2>1. \E offered \in SUBSET Persons_ : \E before \in [Reasons -> Nat] : \E raw \in Nat :
           /\ Commits(offered, before, raw)
           /\ IF kind_ = "members" THEN offered = Seen /\ before.few = 0 /\ before.away = tally.skipped
              ELSE offered = Enough /\ before.few = Cardinality(Few) /\ before.away = 0
           /\ stage \in {"read", "alone"} /\ (kind_ = "messages" => stage = "read")
    BY <1>t, <1>5, StoresCommit
  <2> PICK offered \in SUBSET Persons_, before \in [Reasons -> Nat], raw \in Nat :
           /\ Commits(offered, before, raw)
           /\ IF kind_ = "members" THEN offered = Seen /\ before.few = 0 /\ before.away = tally.skipped
              ELSE offered = Enough /\ before.few = Cardinality(Few) /\ before.away = 0
           /\ stage \in {"read", "alone"} /\ (kind_ = "messages" => stage = "read")
    BY <2>1
  <2>2. /\ UNCHANGED <<given, reading>> /\ result' \in Results
        /\ (result' = result /\ ~result.there) \/ result'.targets = Kept(offered)
        /\ Finished' =>
              /\ result'.targets = Kept(offered)
              /\ Cardinality(offered) = Cardinality(result'.targets) + result'.why.unfit + result'.why.barred
              /\ result'.why.few = before.few /\ result'.why.away = before.away
    BY <1>t, CommitsFacts
  <2>3. UNCHANGED <<kind_, goal, strict, looks, times, faces, counted, tally, ended>>
    BY <2>2 DEF given, reading
  <2>4. Heard' = Heard
    BY <2>3 DEF Heard
  <2>5. /\ result'.why.unfit \in Nat /\ result'.why.barred \in Nat /\ result'.why.few \in Nat
        /\ result'.why.away \in Nat /\ result'.targets \in SUBSET Persons_
    BY <2>2 DEF Results, Reasons
  <2>6. Cardinality(result'.targets) \in Nat
    BY <2>5, PersonsCount
  <2>7. EverybodyAccounted'
    <3>1. SUFFICES ASSUME Finished'
                   PROVE  Cardinality(Heard) = Cardinality(result'.targets) + result'.why.unfit
                              + result'.why.barred + result'.why.few + result'.why.away
      BY <2>4 DEF EverybodyAccounted
    <3>2. /\ Cardinality(offered) = Cardinality(result'.targets) + result'.why.unfit + result'.why.barred
          /\ result'.why.few = before.few /\ result'.why.away = before.away
      BY <2>2, <3>1
    <3>3. CASE kind_ = "members"
      <4>1. Cardinality(Heard) = Cardinality(offered) + result'.why.away /\ result'.why.few = 0
        BY <1>t, <3>2, <3>3, HeardParts DEF CountsFit
      <4> QED BY <2>5, <2>6, <3>2, <4>1
    <3>4. CASE kind_ # "members"
      <4>1. Cardinality(Heard) = result'.why.few + Cardinality(offered) /\ result'.why.away = 0
        BY <1>t, <3>2, <3>4, HeardParts
      <4> QED BY <2>5, <2>6, <3>2, <4>1
    <3> QED BY <3>3, <3>4
  <2>8. NoMoreThanAsked'
    <3>1. CASE result' = result
      BY <1>t, <2>3, <3>1 DEF NoMoreThanAsked
    <3>2. CASE result'.targets = Kept(offered)
      <4>1. kind_ \in {"messages", "commenters", "reactors", "members"}
        BY <1>t DEF CollectType, CollectTypeOK
      <4>2. goal > 0 /\ kind_ # "reactors" => Cardinality(Kept(offered)) <= goal
        BY <1>t, <4>1, KeptFits
      <4> QED BY <2>3, <3>2, <4>2 DEF NoMoreThanAsked
    <3> QED BY <2>2, <3>1, <3>2
  <2>9. AsManyAsAsked'
    <3> DEFINE missed == {p \in counted : looks[p] = "barred" \/ (looks[p] = "unfit" /\ ~strict)}
    <3>1. SUFFICES ASSUME Finished', kind_ = "messages", goal > 0, ~ended, tally.qualified < goal * Overscan
                   PROVE  Cardinality(result'.targets \cup missed) >= goal
      BY <2>3 DEF AsManyAsAsked
    <3>2. MessagesFit /\ offered = Enough /\ stage = "read"
      BY <1>t, <3>1 DEF CountsFit
    <3>3. Cardinality(counted) >= goal
      BY <3>1, <3>2 DEF MessagesFit
    <3>4. counted \subseteq Kept(Enough) \cup missed
      BY <1>t, <3>1, KeptFits
    <3>5. counted \subseteq result'.targets \cup missed
      BY <2>2, <3>1, <3>2, <3>4
    <3>6. result'.targets \cup missed \in SUBSET Persons_ /\ counted \in SUBSET Persons_
      BY <1>t, <2>5 DEF CollectType, CollectTypeOK
    <3> HIDE DEF missed
    <3>7. Cardinality(counted) <= Cardinality(result'.targets \cup missed)
      BY <3>5, <3>6, PersonsCount
    <3>8. Cardinality(counted) \in Nat /\ Cardinality(result'.targets \cup missed) \in Nat
      BY <3>6, PersonsCount
    <3> QED BY <1>g, <3>3, <3>7, <3>8
  <2> QED BY <2>7, <2>8, <2>9
<1> QED BY <1>1, <1>2, <1>3, <1>4, <1>5, CollectActions

LEMMA CollectBegins ==
  ASSUME CollectorsAssumption, CollectInit PROVE CollectInv
<1>1. goal \in Nat /\ MaxRead \in Nat /\ Enough_ \in Nat \ {0}
  BY DEF CollectInit, CollectorsAssumption
<1>2. /\ times = [p \in Persons_ |-> 0] /\ faces = {} /\ counted = {} /\ read = 0 /\ stage = "new"
      /\ tally = [qualified |-> 0, skipped |-> 0] /\ result = Empty /\ ended = FALSE
  BY DEF CollectInit
<1>3. times \in [Persons_ -> 0..MaxRead] /\ \A p \in Persons_ : times[p] = 0
  BY <1>1, <1>2
<1>4. tally \in [qualified: Nat, skipped: Nat] /\ tally.qualified = 0 /\ tally.skipped = 0
  BY <1>2
<1>5. result \in Results /\ result.targets = {}
  BY <1>2, EmptyFits
<1>6. CollectType
  <2>1. result.there \in BOOLEAN /\ result.why \in [Reasons -> Nat] /\ result.raw \in Nat
    BY <1>5 DEF Results
  <2>2. /\ kind_ \in {"messages", "commenters", "reactors", "members"}
        /\ goal \in Wants /\ strict \in BOOLEAN
        /\ looks \in [Persons_ -> {"fit", "unfit", "barred", "away"}]
    BY DEF CollectInit
  <2>3. \A p \in Persons_ : times[p] <= read
    BY <1>2, <1>3
  <2>4. (ended \in BOOLEAN) /\ (read \in 0..MaxRead)
    <3>1. ended \in {TRUE, FALSE}
      BY <1>2
    <3>2. read \in 0..MaxRead
      BY <1>1, <1>2
    <3> QED BY <3>1, <3>2
  <2>5. stage \in {"new", "listed", "reading", "read", "alone", "done", "over"}
    BY <1>2
  <2>6. faces \cup counted \cup result.targets \subseteq Persons_
    BY <1>2, <1>5
  <2> QED BY <1>3, <1>4, <1>5, <2>1, <2>2, <2>3, <2>4, <2>5, <2>6 DEF CollectType, CollectTypeOK
<1>7. Enough = {} /\ Heard = {} /\ Seen = {} /\ Unseen = {} /\ Cardinality({}) = 0
  BY <1>1, <1>3, FS_EmptySet DEF Enough, Heard, Seen, Unseen
<1>8. \A n : n = 0 => Within(n)
  BY <1>1, <1>2 DEF Within
<1>9. CountsFit
  <2>1. MessagesFit
    <3>1. Within(Cardinality(counted))
      BY <1>2, <1>7, <1>8
    <3> QED BY <1>2, <1>7, <3>1 DEF MessagesFit
  <2>2. tally.qualified = Cardinality(Enough) /\ Within(tally.qualified)
    BY <1>4, <1>7, <1>8
  <2>3. tally.skipped = Cardinality(Unseen) /\ Within(Cardinality(Seen))
    BY <1>4, <1>7, <1>8
  <2> QED BY <2>1, <2>2, <2>3 DEF CountsFit
<1>10. EverybodyAccounted /\ NoMoreThanAsked /\ AsManyAsAsked
  <2>1. ~Finished
    BY <1>2 DEF Finished
  <2> QED BY <1>1, <1>5, <1>7, <2>1 DEF EverybodyAccounted, NoMoreThanAsked, AsManyAsAsked
<1> QED BY <1>6, <1>9, <1>10 DEF CollectInv

LEMMA CollectStays ==
  ASSUME CollectInv, UNCHANGED collectVars PROVE CollectInv'
<1>1. /\ UNCHANGED <<kind_, goal, strict, looks, stage, times, faces, counted, tally, read>>
      /\ UNCHANGED <<ended, result>>
  BY DEF collectVars
<1>2. UNCHANGED <<Heard, Enough, Few, Seen, Unseen, Finished>>
  BY <1>1 DEF Heard, Enough, Few, Seen, Unseen, Away, Finished
<1>3. \A p : InlineReason(p, faces)' = InlineReason(p, faces)
  BY <1>1 DEF InlineReason, Faceless
<1>4. CollectType'
  BY <1>1 DEF CollectInv, CollectType, CollectTypeOK
<1>5. \A n : Within(n) => (goal' > 0 => n <= goal' /\ (stage' \in Early' => n < goal'))
  BY <1>1 DEF Within, Early
<1>6. MessagesFit => MessagesFit'
  <2>1. Within(Cardinality(counted)) => Within(Cardinality(counted))'
    BY <1>1, <1>5 DEF Within
  <2> QED BY <1>1, <1>2, <1>3, <2>1 DEF MessagesFit
<1>7. CountsFit'
  <2>1. CountsFit
    BY DEF CollectInv
  <2>2. kind_ = "commenters" => Within(tally.qualified)'
    BY <1>1, <1>5, <2>1 DEF CountsFit, Within
  <2>3. kind_ = "members" => Within(Cardinality(Seen))'
    BY <1>1, <1>2, <1>5, <2>1 DEF CountsFit, Within
  <2> QED BY <1>1, <1>2, <1>6, <2>1, <2>2, <2>3 DEF CountsFit
<1>8. EverybodyAccounted' /\ NoMoreThanAsked' /\ AsManyAsAsked'
  BY <1>1, <1>2 DEF CollectInv, EverybodyAccounted, NoMoreThanAsked, AsManyAsAsked
<1> QED BY <1>4, <1>7, <1>8 DEF CollectInv

LEMMA CollectKeeps ==
  ASSUME CollectorsAssumption
  PROVE  CollectInv /\ [CollectNext]_collectVars => CollectInv'
<1>1. ASSUME CollectInv, CollectNext PROVE CollectInv'
  BY <1>1, CollectTypeKeeps, CountsKeep, ListKeeps DEF CollectInv
<1> QED BY <1>1, CollectStays

LEMMA CollectHolds == CollectInv => CollectTypeOK /\ EverybodyAccounted /\ NoMoreThanAsked /\ AsManyAsAsked
BY DEF CollectInv, CollectType

\* A finished list has everybody who was read, or a reason for him; it is no longer than was
\* asked for; and the authors of messages are as many as were asked for, up to those who are
\* missed to the filters after the list.  For any set of persons and any thresholds.
THEOREM ListsAreComplete ==
  ASSUME CollectorsAssumption
  PROVE  CollectSpec => [](CollectTypeOK /\ EverybodyAccounted /\ NoMoreThanAsked /\ AsManyAsAsked)
<1>1. CollectInit => CollectInv
  BY CollectBegins
<1>2. CollectInv /\ [CollectNext]_collectVars => CollectInv'
  BY CollectKeeps
<1>3. CollectInv => CollectTypeOK /\ EverybodyAccounted /\ NoMoreThanAsked /\ AsManyAsAsked
  BY CollectHolds
<1> QED BY <1>1, <1>2, <1>3, PTL DEF CollectSpec
-----------------------------------------------------------------------------
(*************** Discovery ***************)

\* How often p is among the first n of s.
Seeded(s, n, p) == Cardinality({i \in 1..n : s[i] = p})

Found == [there: BOOLEAN, items: SUBSET Titled, raw: Nat, out: Nat, already: Nat]

DiscType ==
    /\ DiscTypeOK
    /\ task \in {"discover", "enrich"} /\ limit \in Limits_
    /\ nature \in [Sites -> {"channel", "chat", "person"}]
    /\ task = "enrich" => \A p \in Sites : nature[p] = "channel"
    /\ {seeds, frontier, next_, links} \subseteq Seq(Sites)
    /\ found_ \in Found
    /\ spot \in {"seeds", "search", "walk", "look", "posts"} => task = "discover"
    /\ spot = "links" => task = "enrich"

\* Found, and of the kind that is asked, but neither given as a seed nor asked yet.
Fresh(p) == p \in candidates /\ nature[p] = "channel" /\ p \notin Range(seeds) /\ asked[p] = 0

\* What the recommendations have come to.
WalkFits ==
    /\ \A p \in Range(seeds) : p \in Titled => p \in candidates
    /\ \A p \in Sites : asked[p] > 0 => p \in Range(seeds) \/ (p \in candidates /\ nature[p] = "channel")
    /\ spot \in {"new", "seeds", "search"} =>
          /\ \A p \in Sites : asked[p] = 0
          /\ next_ = <<>>
    /\ spot \in {"new", "seeds"} => candidates \subseteq Range(seeds)
    /\ spot = "walk" =>
          /\ level >= 1
          /\ IsInjective(next_) /\ \A p \in Range(next_) : Fresh(p)
    /\ spot = "walk" /\ level = 1 =>
          /\ Len(frontier) <= Len(seeds)
          /\ \A i \in 1..Len(frontier) : frontier[i] = seeds[Len(seeds) - Len(frontier) + i]
          /\ \A p \in Sites : asked[p] = Seeded(seeds, Len(seeds) - Len(frontier), p)
    /\ spot = "walk" /\ level > 1 =>
          /\ IsInjective(frontier) /\ \A p \in Range(frontier) : Fresh(p)
          /\ Range(frontier) \cap Range(next_) = {}

LinksFit ==
    /\ Cardinality(Range(links)) <= Len(links)
    /\ task = "enrich" => tried = Len(links) + failed_

DiscInv == DiscType /\ WalkFits /\ LinksFit /\ ResultsBounded /\ AskedOnce /\ NothingPassedOver /\ LinksAccounted
-----------------------------------------------------------------------------
LEMMA SitesCount ==
  ASSUME DiscoveryAssumption, NEW S \in SUBSET Sites
  PROVE  /\ IsFiniteSet(S) /\ Cardinality(S) \in Nat
         /\ \A p \in Sites : Cardinality(S \cup {p}) = IF p \in S THEN Cardinality(S) ELSE Cardinality(S) + 1
         /\ \A T \in SUBSET S : Cardinality(T) <= Cardinality(S) /\ Cardinality(T) \in Nat
<1>1. IsFiniteSet(S) /\ Cardinality(S) \in Nat /\ \A T \in SUBSET S : Cardinality(T) <= Cardinality(S) /\ Cardinality(T) \in Nat
  BY FS_Subset, FS_CardinalityType DEF DiscoveryAssumption
<1>2. \A p \in Sites : Cardinality(S \cup {p}) = IF p \in S THEN Cardinality(S) ELSE Cardinality(S) + 1
  BY <1>1, FS_AddElement
<1> QED BY <1>1, <1>2

LEMMA WalkNumbers ==
  ASSUME DiscoveryAssumption, DiscType
  PROVE  /\ limit \in Nat /\ Depth \in Nat /\ MaxSeeds \in Nat /\ MaxNews \in Nat
         /\ level \in 0..Depth /\ tried \in 0..MaxSeeds /\ news \in 0..MaxNews /\ failed_ \in Nat
         /\ candidates \in SUBSET Titled /\ candidates \in SUBSET Sites /\ Titled \subseteq Sites
         /\ Cardinality(candidates) \in Nat
         /\ passed \subseteq Titled /\ behind \subseteq Titled
         /\ asked \in [Sites -> Nat]
<1>1. candidates \in SUBSET Titled /\ candidates \in SUBSET Sites /\ Titled \subseteq Sites
  BY DEF DiscType, DiscTypeOK, Titled
<1>2. Cardinality(candidates) \in Nat
  BY <1>1, SitesCount
<1>3. limit \in Nat /\ Depth \in Nat /\ MaxSeeds \in Nat /\ MaxNews \in Nat
  BY DEF DiscType, DiscoveryAssumption
<1>4. /\ level \in 0..Depth /\ tried \in 0..MaxSeeds /\ news \in 0..MaxNews /\ failed_ \in Nat
      /\ passed \subseteq Titled /\ behind \subseteq Titled /\ asked \in [Sites -> Nat]
  BY DEF DiscType, DiscTypeOK
<1> QED BY <1>1, <1>2, <1>3, <1>4

LEMMA SeqFacts ==
  ASSUME NEW s \in Seq(Sites)
  PROVE  /\ Len(s) \in Nat /\ DOMAIN s = 1..Len(s) /\ Range(s) \subseteq Sites
         /\ \A i \in 1..Len(s) : s[i] \in Sites /\ s[i] \in Range(s)
         /\ \A p \in Range(s) : \E i \in 1..Len(s) : s[i] = p
         /\ s = <<>> <=> Len(s) = 0
<1>1. Len(s) \in Nat /\ DOMAIN s = 1..Len(s) /\ \A i \in 1..Len(s) : s[i] \in Sites
  OBVIOUS
<1>2. s = <<>> <=> Len(s) = 0
  OBVIOUS
<1> QED BY <1>1, <1>2 DEF Range

LEMMA Longer ==
  ASSUME NEW s \in Seq(Sites), NEW p \in Sites
  PROVE  /\ Append(s, p) \in Seq(Sites) /\ Len(Append(s, p)) = Len(s) + 1
         /\ Range(Append(s, p)) = Range(s) \cup {p}
<1>1. /\ Append(s, p) \in Seq(Sites) /\ Len(Append(s, p)) = Len(s) + 1 /\ Append(s, p)[Len(s) + 1] = p
      /\ \A i \in 1..Len(s) : Append(s, p)[i] = s[i]
  OBVIOUS
<1> DEFINE t == Append(s, p)
<1> HIDE DEF t
<1>2. t \in Seq(Sites) /\ Len(t) = Len(s) + 1 /\ t[Len(s) + 1] = p /\ \A i \in 1..Len(s) : t[i] = s[i]
  BY <1>1 DEF t
<1>3. \A q \in Range(t) : q \in Range(s) \cup {p}
  <2> TAKE q \in Range(t)
  <2>1. PICK i \in 1..Len(t) : t[i] = q
    BY <1>2, SeqFacts
  <2>2. CASE i = Len(s) + 1
    BY <1>2, <2>1, <2>2
  <2>3. CASE i # Len(s) + 1
    <3>1. i \in 1..Len(s)
      BY <1>2, <2>3, SeqFacts
    <3> QED BY <1>2, <2>1, <3>1, SeqFacts
  <2> QED BY <2>2, <2>3
<1>4. \A i \in 1..Len(t) : t[i] \in Range(t)
  BY <1>2, SeqFacts
<1>5. Range(s) \cup {p} \subseteq Range(t)
  <2>1. Len(s) \in Nat /\ Len(s) + 1 \in 1..Len(t) /\ \A i \in 1..Len(s) : i \in 1..Len(t)
    BY <1>2, SeqFacts
  <2>2. p \in Range(t)
    BY <1>2, <1>4, <2>1
  <2>3. \A q \in Range(s) : q \in Range(t)
    BY SMTT(20), <1>2, <1>4, <2>1, SeqFacts
  <2> QED BY <2>2, <2>3
<1>6. Range(t) = Range(s) \cup {p}
  BY <1>3, <1>5
<1> QED BY <1>1, <1>6 DEF t

LEMMA OneLess ==
  ASSUME NEW s \in Seq(Sites), s # <<>>
  PROVE  /\ Head(s) \in Sites /\ Head(s) \in Range(s) /\ Head(s) = s[1]
         /\ Tail(s) \in Seq(Sites) /\ Len(Tail(s)) = Len(s) - 1
         /\ \A i \in 1..Len(s) - 1 : Tail(s)[i] = s[i + 1]
         /\ Range(Tail(s)) \subseteq Range(s)
         /\ IsInjective(s) => IsInjective(Tail(s)) /\ Head(s) \notin Range(Tail(s))
<1>1. /\ Tail(s) \in Seq(Sites) /\ Len(Tail(s)) = Len(s) - 1 /\ Head(s) = s[1]
      /\ \A i \in 1..Len(s) - 1 : Tail(s)[i] = s[i + 1]
  OBVIOUS
<1> DEFINE t == Tail(s)
           h == Head(s)
<1> HIDE DEF t, h
<1>2. t \in Seq(Sites) /\ Len(t) = Len(s) - 1 /\ h = s[1] /\ \A i \in 1..Len(t) : t[i] = s[i + 1]
  BY <1>1 DEF t, h
<1>3. Len(s) \in Nat /\ Len(s) >= 1 /\ DOMAIN s = 1..Len(s) /\ DOMAIN t = 1..Len(t)
  BY <1>2, SeqFacts
<1>4. h \in Sites /\ h \in Range(s)
  BY <1>2, <1>3, SeqFacts
<1>5. \A p \in Range(t) : \E i \in 1..Len(t) : t[i] = p /\ i + 1 \in 1..Len(s) /\ s[i + 1] = p /\ i + 1 # 1
  <2> TAKE p \in Range(t)
  <2>1. PICK i \in 1..Len(t) : t[i] = p
    BY <1>2, SeqFacts
  <2> QED BY <1>2, <1>3, <2>1
<1>6. Range(t) \subseteq Range(s)
  BY <1>5, SeqFacts
<1>7. ASSUME IsInjective(s) PROVE IsInjective(t) /\ h \notin Range(t)
  <2>1. \A i, j \in 1..Len(s) : s[i] = s[j] => i = j
    BY <1>3, <1>7 DEF IsInjective
  <2>2. h \notin Range(t)
    BY <1>2, <1>3, <1>5, <2>1
  <2>3. \A i, j \in 1..Len(t) : t[i] = t[j] => i = j
    <3> TAKE i, j \in 1..Len(t)
    <3>1. i + 1 \in 1..Len(s) /\ j + 1 \in 1..Len(s)
      BY <1>2, <1>3
    <3> QED BY <1>2, <2>1, <3>1
  <2> QED BY <1>3, <2>2, <2>3 DEF IsInjective
<1> QED BY <1>2, <1>4, <1>6, <1>7 DEF t, h

LEMMA Joint ==
  ASSUME NEW s \in Seq(Sites), NEW t \in Seq(Sites)
  PROVE  /\ s \o t \in Seq(Sites)
         /\ Range(s \o t) \subseteq Range(s) \cup Range(t)
         /\ IsInjective(s) /\ IsInjective(t) /\ Range(s) \cap Range(t) = {} => IsInjective(s \o t)
<1> DEFINE u == s \o t
<1>1. /\ u \in Seq(Sites) /\ Len(u) = Len(s) + Len(t)
  OBVIOUS
<1>2. \A i \in 1..Len(s) + Len(t) : u[i] = IF i <= Len(s) THEN s[i] ELSE t[i - Len(s)]
  OBVIOUS
<1> HIDE DEF u
<1>3. Len(s) \in Nat /\ Len(t) \in Nat /\ DOMAIN s = 1..Len(s) /\ DOMAIN t = 1..Len(t) /\ DOMAIN u = 1..Len(u)
  BY <1>1, SeqFacts
<1>4. \A i \in 1..Len(u) : \/ i \in 1..Len(s) /\ u[i] = s[i] /\ u[i] \in Range(s)
                           \/ i - Len(s) \in 1..Len(t) /\ u[i] = t[i - Len(s)] /\ u[i] \in Range(t)
  <2> TAKE i \in 1..Len(u)
  <2>1. CASE i <= Len(s)
    <3>1. i \in 1..Len(s) /\ u[i] = s[i]
      BY <1>1, <1>2, <1>3, <2>1
    <3> QED BY <3>1, SeqFacts
  <2>2. CASE i > Len(s)
    <3>1. i - Len(s) \in 1..Len(t) /\ u[i] = t[i - Len(s)]
      BY <1>1, <1>2, <1>3, <2>2
    <3> QED BY <3>1, SeqFacts
  <2> QED BY <1>3, <2>1, <2>2
<1>5. Range(u) \subseteq Range(s) \cup Range(t)
  BY <1>1, <1>4, SeqFacts
<1>6. ASSUME IsInjective(s), IsInjective(t), Range(s) \cap Range(t) = {} PROVE IsInjective(u)
  <2>1. ASSUME NEW i \in 1..Len(u), NEW j \in 1..Len(u), u[i] = u[j] PROVE i = j
    <3>1. CASE i \in 1..Len(s) /\ u[i] = s[i] /\ j \in 1..Len(s) /\ u[j] = s[j]
      BY <1>3, <1>6, <2>1, <3>1 DEF IsInjective
    <3>2. CASE i - Len(s) \in 1..Len(t) /\ u[i] = t[i - Len(s)] /\ j - Len(s) \in 1..Len(t) /\ u[j] = t[j - Len(s)]
      <4>1. i - Len(s) = j - Len(s)
        BY <1>3, <1>6, <2>1, <3>2 DEF IsInjective
      <4> QED BY <1>3, <4>1
    <3> QED BY <1>4, <1>6, <2>1, <3>1, <3>2
  <2> QED BY <1>3, <2>1 DEF IsInjective
<1> QED BY <1>1, <1>5, <1>6 DEF u
-----------------------------------------------------------------------------
LEMMA AnswerIs ==
  ASSUME NEW answer \in Answers_
  PROVE  /\ answer \in Seq(Sites) /\ Len(answer) \in {1, 2} /\ DOMAIN answer = 1..Len(answer)
         /\ answer[1] \in Titled
         /\ Len(answer) = 2 => answer[2] \in Titled /\ answer[1] # answer[2]
<1>1. PICK m \in 0..2 : answer \in [1..m -> Titled]
  BY DEF Answers_, SeqOf
<1>2. answer # <<>> /\ IsInjective(answer)
  BY DEF Answers_
<1>3. m # 0
  BY <1>1, <1>2
<1>4. m \in {1, 2} /\ 1 \in 1..m /\ (m = 2 => 2 \in 1..m)
  BY <1>3
<1>5. answer \in Seq(Titled) /\ Len(answer) = m /\ DOMAIN answer = 1..m
  BY <1>1
<1>6. Titled \subseteq Sites
  BY DEF Titled
<1>7. answer \in Seq(Sites)
  BY <1>5, <1>6
<1>8. m = 2 => answer[1] # answer[2]
  BY <1>2, <1>4, <1>5 DEF IsInjective
<1> QED BY <1>1, <1>4, <1>5, <1>7, <1>8

\* The second of an answer is come to if the first was new and left room.
Second(answer) == Len(answer) = 2 /\ More(candidates, answer[1])

LEMMA BeforeIs ==
  ASSUME NEW answer \in Answers_
  PROVE  /\ Before(answer, 1) = candidates
         /\ Len(answer) = 2 => Before(answer, 2) = candidates \cup {answer[1]}
<1>1. /\ answer \in Seq(Sites) /\ Len(answer) \in {1, 2}
  BY AnswerIs
<1>2. SubSeq(answer, 1, 1 - 1) \in Seq(Sites) /\ Len(SubSeq(answer, 1, 1 - 1)) = 0
  BY <1>1
<1> DEFINE s0 == SubSeq(answer, 1, 1 - 1)
           s1 == SubSeq(answer, 1, 2 - 1)
<1>3. ASSUME Len(answer) = 2 PROVE s1 \in Seq(Sites) /\ Len(s1) = 1 /\ s1[1] = answer[1]
  BY <1>1, <1>3
<1> HIDE DEF s0, s1
<1>4. s0 \in Seq(Sites) /\ Len(s0) = 0
  BY <1>2 DEF s0
<1>5. Range(s0) = {}
  <2>1. \A p \in Range(s0) : \E i \in 1..0 : s0[i] = p
    BY <1>4, SeqFacts
  <2> QED BY <2>1
<1>6. ASSUME Len(answer) = 2 PROVE Range(s1) = {answer[1]}
  <2>1. s1 \in Seq(Sites) /\ Len(s1) = 1 /\ s1[1] = answer[1]
    BY <1>3, <1>6
  <2> QED BY <2>1, SeqFacts
<1> QED BY <1>5, <1>6 DEF Before, s0, s1

LEMMA GoesIs ==
  ASSUME NEW answer \in Answers_
  PROVE  /\ Goes_(answer, 1) <=> More(candidates, answer[1])
         /\ Len(answer) = 2 => (Goes_(answer, 2) <=> More(candidates, answer[1]) /\ More(candidates \cup {answer[1]}, answer[2]))
<1>1. 1..1 = {1} /\ 1..2 = {1, 2}
  OBVIOUS
<1> QED BY <1>1, BeforeIs DEF Goes_

LEMMA ComeIs ==
  ASSUME NEW answer \in Answers_
  PROVE  Come(answer) = IF Second(answer) THEN {1, 2} ELSE {1}
<1>1. /\ Len(answer) \in {1, 2} /\ DOMAIN answer = 1..Len(answer)
  BY AnswerIs
<1>2. Goes_(answer, 1) <=> More(candidates, answer[1])
  BY GoesIs
<1>3. CASE Len(answer) = 1
  BY <1>1, <1>3 DEF Come, Second
<1>4. CASE Len(answer) = 2
  <2>1. DOMAIN answer = {1, 2}
    BY <1>1, <1>4
  <2>2. 2 - 1 = 1
    OBVIOUS
  <2> QED BY <1>2, <1>4, <2>1, <2>2 DEF Come, Second
<1> QED BY <1>1, <1>3, <1>4

\* What an answer does to the candidates, and what of it is not come to.
LEMMA AnswerTaken ==
  ASSUME DiscoveryAssumption, DiscType, NothingPassedOver, Room, NEW answer \in Answers_, Takes(answer), Notes(answer)
  PROVE  /\ candidates \subseteq candidates' /\ candidates' \subseteq Titled
         /\ Cardinality(candidates') <= limit
         /\ passed' \subseteq Titled /\ behind' \subseteq Titled
         /\ passed' \subseteq candidates' \cup behind' \/ Cardinality(candidates') >= limit
         /\ \A i \in DOMAIN answer : Goes_(answer, i) => answer[i] \in candidates' /\ answer[i] \notin candidates
<1> DEFINE p == answer[1]
           q == answer[2]
<1>t. /\ limit \in Nat /\ candidates \in SUBSET Titled /\ candidates \in SUBSET Sites /\ Titled \subseteq Sites
      /\ Cardinality(candidates) \in Nat /\ passed \subseteq Titled /\ behind \subseteq Titled
  BY WalkNumbers
<1>a. /\ Len(answer) \in {1, 2} /\ DOMAIN answer = 1..Len(answer) /\ p \in Titled
      /\ Len(answer) = 2 => q \in Titled /\ p # q
  BY AnswerIs
<1>b. /\ Before(answer, 1) = candidates
      /\ Len(answer) = 2 => Before(answer, 2) = candidates \cup {p}
  BY BeforeIs
<1>c. /\ Goes_(answer, 1) <=> More(candidates, p)
      /\ Len(answer) = 2 => (Goes_(answer, 2) <=> More(candidates, p) /\ More(candidates \cup {p}, q))
  BY GoesIs
<1>d. Come(answer) = IF Second(answer) THEN {1, 2} ELSE {1}
  BY ComeIs
<1>e. Second(answer) <=> Len(answer) = 2 /\ More(candidates, p)
  BY DEF Second
<1>f. More(candidates, p) <=> p \notin candidates /\ Cardinality(candidates \cup {p}) < limit
  BY <1>a DEF More
<1>g. Cardinality(candidates \cup {p}) = IF p \in candidates THEN Cardinality(candidates) ELSE Cardinality(candidates) + 1
  BY <1>t, <1>a, SitesCount
<1>h. Cardinality(candidates) < limit
  BY DEF Room
<1>i. candidates' = candidates \cup {answer[i] : i \in Come(answer)}
  BY DEF Takes
<1> DEFINE rest == {answer[i] : i \in DOMAIN answer \ Come(answer)}
           last == CHOOSE i \in 0..Len(answer) : Come(answer) = 1..i
<1>j. /\ passed' = passed \cup rest
      /\ behind' = IF last > 0 /\ answer[last] \in Before(answer, last) THEN behind \cup rest ELSE behind
  BY DEF Notes
<1>k. passed \subseteq candidates \cup behind
  BY <1>t, <1>h DEF NothingPassedOver
<1> HIDE DEF rest, last
<1>1. CASE Second(answer)
  <2>1. Len(answer) = 2 /\ More(candidates, p) /\ DOMAIN answer = {1, 2} /\ Come(answer) = {1, 2}
    BY <1>1, <1>a, <1>d, <1>e
  <2>2. candidates' = (candidates \cup {p}) \cup {q}
    BY <1>i, <2>1
  <2>3. rest = {}
    BY <2>1 DEF rest
  <2>4. behind' = behind /\ passed' = passed
    BY <1>j, <2>3
  <2>5. candidates \cup {p} \in SUBSET Sites /\ q \in Sites /\ p \notin candidates
    BY <1>t, <1>a, <2>1, <1>f
  <2>6. Cardinality(candidates') = IF q \in candidates \cup {p} THEN Cardinality(candidates \cup {p}) ELSE Cardinality(candidates \cup {p}) + 1
    BY <2>2, <2>5, SitesCount
  <2>7. Cardinality(candidates') <= limit
    BY <1>t, <1>f, <1>g, <2>1, <2>6
  <2>8. \A i \in DOMAIN answer : Goes_(answer, i) => answer[i] \in candidates' /\ answer[i] \notin candidates
    <3>1. p \in candidates' /\ p \notin candidates /\ q \in candidates'
      BY <2>2, <2>5
    <3>2. Goes_(answer, 2) => q \notin candidates
      BY <1>c, <2>1 DEF More
    <3> QED BY <2>1, <3>1, <3>2
  <2>9. candidates' \subseteq Titled /\ candidates \subseteq candidates'
    BY <1>t, <1>a, <2>1, <2>2
  <2> QED BY <1>t, <1>k, <2>4, <2>7, <2>8, <2>9
<1>2. CASE ~Second(answer)
  <2>1. Come(answer) = {1}
    BY <1>2, <1>d
  <2>2. candidates' = candidates \cup {p}
    BY <1>i, <2>1
  <2>3. candidates' \subseteq Titled /\ candidates \subseteq candidates' /\ Cardinality(candidates') <= limit
    BY <1>t, <1>a, <1>g, <1>h, <2>2
  <2>4. \A i \in DOMAIN answer : Goes_(answer, i) => answer[i] \in candidates' /\ answer[i] \notin candidates
    <3>1. ASSUME NEW i \in DOMAIN answer, Goes_(answer, i) PROVE i = 1 /\ More(candidates, p)
      <4>1. CASE i = 1
        BY <1>c, <3>1, <4>1
      <4>2. CASE i = 2
        <5>1. Len(answer) = 2
          BY <1>a, <3>1, <4>2
        <5> QED BY <1>c, <1>e, <1>2, <3>1, <4>2, <5>1
      <4> QED BY <1>a, <3>1, <4>1, <4>2
    <3> QED BY <1>f, <2>2, <3>1
  <2>5. last = 1
    <3>1. 1 \in 0..Len(answer) /\ Come(answer) = 1..1
      BY <1>a, <2>1
    <3>2. \A i \in 0..Len(answer) : Come(answer) = 1..i => i = 1
      <4> TAKE i \in 0..Len(answer)
      <4>1. i \in 0..2
        BY <1>a
      <4>2. CASE i = 0
        BY <2>1, <4>2
      <4>3. CASE i = 2
        <5>1. 2 \in 1..2 /\ 2 \notin {1}
          OBVIOUS
        <5> QED BY <2>1, <4>3, <5>1
      <4> QED BY <4>1, <4>2, <4>3
    <3> QED BY <3>1, <3>2 DEF last
  <2>6. rest \subseteq Titled /\ (Len(answer) = 1 => rest = {})
    BY <1>a, <2>1 DEF rest
  <2>7. passed' = passed \cup rest /\ behind' = IF p \in candidates THEN behind \cup rest ELSE behind
    BY <1>b, <1>j, <2>5
  <2>8. passed' \subseteq Titled /\ behind' \subseteq Titled
    BY <1>t, <2>6, <2>7
  <2>9. passed' \subseteq candidates' \cup behind' \/ Cardinality(candidates') >= limit
    <3>1. CASE Len(answer) = 1
      BY <1>k, <2>3, <2>6, <2>7, <3>1
    <3>2. CASE p \in candidates
      BY <1>k, <2>3, <2>7, <3>2
    <3>3. CASE Len(answer) = 2 /\ p \notin candidates
      BY <1>t, <1>e, <1>f, <1>g, <1>2, <2>2, <3>3
    <3> QED BY <1>a, <3>1, <3>2, <3>3
  <2> QED BY <2>3, <2>4, <2>8, <2>9
<1> QED BY <1>1, <1>2

LEMMA NewlyFacts ==
  ASSUME NEW answer \in Answers_
  PROVE  /\ Newly(answer) \in Seq(Sites) /\ IsInjective(Newly(answer))
         /\ \A p \in Range(Newly(answer)) : \E i \in DOMAIN answer :
               Goes_(answer, i) /\ answer[i] = p /\ nature[p] = "channel"
<1> DEFINE new == {i \in DOMAIN answer : Goes_(answer, i) /\ nature[answer[i]] = "channel"}
           pos(k) == CHOOSE i \in new : Cardinality({j \in new : j <= i}) = k
           f == [k \in 1..Cardinality(new) |-> answer[pos(k)]]
<1>1. Newly(answer) = f
  BY DEF Newly
<1>2. /\ answer \in Seq(Sites) /\ Len(answer) \in {1, 2} /\ DOMAIN answer = 1..Len(answer)
      /\ Len(answer) = 2 => answer[1] # answer[2]
  BY AnswerIs
<1>3. \A i \in DOMAIN answer : answer[i] \in Sites
  BY <1>2
<1>4. new \in SUBSET {1, 2} /\ new \subseteq DOMAIN answer /\ (2 \in new => Len(answer) = 2)
  BY <1>2
<1>5. \A i \in new : Goes_(answer, i) /\ nature[answer[i]] = "channel"
  OBVIOUS
<1> HIDE DEF new
<1>6. /\ Cardinality(new) \in Nat
      /\ \A k \in 1..Cardinality(new) : pos(k) \in new
      /\ \A k, l \in 1..Cardinality(new) : pos(k) = pos(l) => k = l
  <2>1. CASE new = {}
    <3>1. Cardinality(new) = 0
      BY <2>1, FS_EmptySet
    <3>2. 1..0 = {}
      OBVIOUS
    <3> QED BY <3>1, <3>2
  <2>2. ASSUME NEW m \in {1, 2}, new = {m} PROVE <1>6!1 /\ <1>6!2 /\ <1>6!3
    <3>a. Cardinality({m}) = 1
      BY FS_Singleton
    <3>1. Cardinality(new) = 1 /\ 1..1 = {1}
      BY <2>2, <3>a
    <3>2. {j \in new : j <= m} = new
      BY <2>2
    <3>3. m \in new /\ Cardinality({j \in new : j <= m}) = 1
      BY <2>2, <3>1, <3>2
    <3>4. pos(1) \in new
      BY <3>3
    <3> QED BY <3>1, <3>4
  <2>3. CASE new = {1, 2}
    <3>1. Cardinality({1}) = 1 /\ IsFiniteSet({1})
      BY FS_Singleton
    <3>2. {1} \cup {2} = new /\ 2 \notin {1}
      BY <2>3
    <3>3. Cardinality(new) = 2
      <4>1. Cardinality({1} \cup {2}) = Cardinality({1}) + 1
        BY <3>1, <3>2, FS_AddElement
      <4> QED BY <3>1, <3>2, <4>1
    <3>4. {j \in new : j <= 1} = {1} /\ {j \in new : j <= 2} = new
      BY <2>3
    <3>5. /\ 1 \in new /\ Cardinality({j \in new : j <= 1}) = 1
          /\ 2 \in new /\ Cardinality({j \in new : j <= 2}) = 2
      BY <2>3, <3>1, <3>3, <3>4
    <3>6. /\ pos(1) \in new /\ Cardinality({j \in new : j <= pos(1)}) = 1
          /\ pos(2) \in new /\ Cardinality({j \in new : j <= pos(2)}) = 2
      BY <3>5
    <3>7. pos(1) # pos(2)
      <4>1. ASSUME pos(1) = pos(2) PROVE FALSE
        <5> DEFINE one == pos(1)
                   two == pos(2)
        <5> HIDE DEF one, two
        <5>1. Cardinality({j \in new : j <= one}) = 1 /\ Cardinality({j \in new : j <= two}) = 2 /\ one = two
          BY <3>6, <4>1 DEF one, two
        <5> QED BY <5>1
      <4> QED BY <4>1
    <3>8. 1..Cardinality(new) = {1, 2}
      <4>1. 1..2 = {1, 2}
        OBVIOUS
      <4> QED BY <3>3, <4>1
    <3>9. \A k, l \in {1, 2} : pos(k) = pos(l) => k = l
      <4> HIDE DEF pos
      <4> QED BY <3>7
    <3>10. \A k \in {1, 2} : pos(k) \in new
      BY <3>6
    <3>11. Cardinality(new) \in Nat
      BY <3>3
    <3> QED BY <3>8, <3>9, <3>10, <3>11
  <2>4. new = {} \/ new = {1} \/ new = {2} \/ new = {1, 2}
    BY <1>4
  <2> QED BY <2>1, <2>2, <2>3, <2>4
<1>7. \A k \in 1..Cardinality(new) : f[k] = answer[pos(k)] /\ f[k] \in Sites
  BY <1>3, <1>4, <1>6
<1>8. DOMAIN f = 1..Cardinality(new)
  OBVIOUS
<1>9. f \in Seq(Sites)
  <2>1. f \in [1..Cardinality(new) -> Sites]
    BY <1>7
  <2> HIDE DEF f
  <2> QED BY <1>6, <2>1
<1>10. IsInjective(f)
  <2>1. \A i, j \in new : answer[i] = answer[j] => i = j
    BY <1>2, <1>4
  <2>2. \A k, l \in 1..Cardinality(new) : f[k] = f[l] => k = l
    <3> HIDE DEF f, pos
    <3> QED BY <1>6, <1>7, <2>1
  <2> QED BY <1>8, <2>2 DEF IsInjective
<1>11. \A p \in Range(f) : \E i \in DOMAIN answer : Goes_(answer, i) /\ answer[i] = p /\ nature[p] = "channel"
  <2> TAKE p \in Range(f)
  <2>1. PICK k \in 1..Cardinality(new) : f[k] = p
    BY <1>8 DEF Range
  <2>2. pos(k) \in new /\ answer[pos(k)] = p
    BY <1>6, <1>7, <2>1
  <2> HIDE DEF f, pos
  <2> QED BY <1>4, <1>5, <2>2
<1> QED BY <1>1, <1>9, <1>10, <1>11
-----------------------------------------------------------------------------
\* What Add does.
LEMMA Added ==
  ASSUME DiscoveryAssumption, DiscType, NEW p \in Sites, candidates' = Add(candidates, p)
  PROVE  /\ candidates \subseteq candidates' /\ candidates' \subseteq Titled
         /\ candidates' \subseteq candidates \cup {p} /\ (p \in Titled => p \in candidates')
         /\ Cardinality(candidates') \in Nat /\ Cardinality(candidates') >= Cardinality(candidates)
         /\ Cardinality(candidates') <= Cardinality(candidates) + 1
<1>1. candidates \in SUBSET Titled /\ candidates \in SUBSET Sites /\ Titled \subseteq Sites /\ Cardinality(candidates) \in Nat
  BY WalkNumbers
<1>2. Cardinality(candidates \cup {p}) = IF p \in candidates THEN Cardinality(candidates) ELSE Cardinality(candidates) + 1
  BY <1>1, SitesCount
<1>3. CASE p \in Titled
  <2>1. candidates' = candidates \cup {p}
    BY <1>3 DEF Add
  <2> QED BY <1>1, <1>2, <1>3, <2>1
<1>4. CASE p \notin Titled
  <2>1. candidates' = candidates
    BY <1>4 DEF Add
  <2> QED BY <1>1, <1>4, <2>1
<1> QED BY <1>3, <1>4

LEMMA DiscUnchanged ==
  ASSUME DiscInv, UNCHANGED discVars
  PROVE  DiscInv'
<1>1. /\ task' = task /\ limit' = limit /\ nature' = nature /\ spot' = spot /\ seeds' = seeds
      /\ candidates' = candidates /\ frontier' = frontier /\ next_' = next_ /\ level' = level
      /\ links' = links /\ tried' = tried /\ failed_' = failed_ /\ news' = news /\ found_' = found_
      /\ asked' = asked /\ passed' = passed /\ behind' = behind
  BY DEF discVars
<1>2. Titled' = Titled
  BY <1>1 DEF Titled
<1>3. Found' = Found
  BY <1>2 DEF Found
<1>4. DiscType'
  BY <1>1, <1>2, <1>3 DEF DiscInv, DiscType, DiscTypeOK
<1>5. WalkFits'
  BY <1>1, <1>2 DEF DiscInv, WalkFits, Fresh, Seeded
<1>6. LinksFit' /\ ResultsBounded' /\ NothingPassedOver' /\ LinksAccounted'
  BY <1>1 DEF DiscInv, LinksFit, ResultsBounded, NothingPassedOver, LinksAccounted
<1>7. AskedOnce'
  BY <1>1 DEF DiscInv, AskedOnce
<1> QED BY <1>4, <1>5, <1>6, <1>7 DEF DiscInv

\* The steps that leave the walk alone.
LEMMA WalkAlone ==
  ASSUME DiscoveryAssumption, DiscInv, nature' = nature, seeds' = seeds, UNCHANGED walk,
         candidates \subseteq candidates', spot' = spot \/ spot' \notin {"new", "seeds", "search", "walk"},
         spot \in {"new", "seeds"} => candidates' = candidates
  PROVE  WalkFits' /\ AskedOnce'
<1>1. frontier' = frontier /\ next_' = next_ /\ level' = level /\ asked' = asked /\ Titled' = Titled
  BY DEF walk, Titled
<1>2. WalkFits
  BY DEF DiscInv
<1>3. \A p : Fresh(p) => Fresh(p)'
  BY <1>1 DEF Fresh
<1>5. /\ \A p \in Range(seeds') : p \in Titled' => p \in candidates'
      /\ \A p \in Sites : asked'[p] > 0 => p \in Range(seeds') \/ (p \in candidates' /\ nature'[p] = "channel")
  BY <1>1, <1>2 DEF WalkFits
<1>6. /\ spot' \in {"new", "seeds", "search"} =>
          /\ \A p \in Sites : asked'[p] = 0
          /\ next_' = <<>>
      /\ spot' \in {"new", "seeds"} => candidates' \subseteq Range(seeds')
  BY <1>1, <1>2 DEF WalkFits
<1>7. spot' = "walk" =>
          /\ level' >= 1
          /\ IsInjective(next_') /\ \A p \in Range(next_') : Fresh(p)'
  BY <1>1, <1>2, <1>3 DEF WalkFits
<1>8. spot' = "walk" /\ level' = 1 =>
          /\ Len(frontier') <= Len(seeds')
          /\ \A i \in 1..Len(frontier') : frontier'[i] = seeds'[Len(seeds') - Len(frontier') + i]
          /\ \A p \in Sites : asked'[p] = Seeded(seeds', Len(seeds') - Len(frontier'), p)
  BY <1>1, <1>2 DEF WalkFits
<1>9. spot' = "walk" /\ level' > 1 =>
          /\ IsInjective(frontier') /\ \A p \in Range(frontier') : Fresh(p)'
          /\ Range(frontier') \cap Range(next_') = {}
  BY <1>1, <1>2, <1>3 DEF WalkFits
<1>10. WalkFits'
  BY <1>5, <1>6, <1>7, <1>8, <1>9 DEF WalkFits
<1>11. AskedOnce'
  BY <1>1 DEF DiscInv, AskedOnce
<1> QED BY <1>10, <1>11

LEMMA SeedKeepsWalk ==
  ASSUME DiscoveryAssumption, DiscInv, Seed
  PROVE  WalkFits' /\ AskedOnce'
<1>1. /\ spot = "seeds" /\ spot' = spot /\ nature' = nature /\ UNCHANGED walk
  BY DEF Seed
<1>2. frontier' = frontier /\ next_' = next_ /\ level' = level /\ asked' = asked /\ Titled' = Titled
  BY <1>1 DEF walk, Titled
<1>3. DiscType /\ WalkFits
  BY DEF DiscInv
<1>4. /\ \A p \in Range(seeds) : p \in Titled => p \in candidates
      /\ \A p \in Sites : asked[p] = 0
      /\ next_ = <<>> /\ candidates \subseteq Range(seeds)
  BY <1>1, <1>3 DEF WalkFits
<1>5. /\ \A p \in Range(seeds') : p \in Titled => p \in candidates'
      /\ candidates' \subseteq Range(seeds')
  <2>1. CASE UNCHANGED <<seeds, candidates>>
    BY <1>4, <2>1
  <2>2. ASSUME NEW p \in Sites, seeds' = Append(seeds, p), candidates' = Add(candidates, p)
        PROVE <1>5!1 /\ <1>5!2
    <3>1. seeds \in Seq(Sites)
      BY <1>3 DEF DiscType
    <3>2. Range(seeds') = Range(seeds) \cup {p}
      BY <2>2, <3>1, Longer
    <3>3. candidates \subseteq candidates' /\ candidates' \subseteq candidates \cup {p} /\ (p \in Titled => p \in candidates')
      BY <1>3, <2>2, Added
    <3> QED BY <1>4, <3>2, <3>3
  <2> QED BY <2>1, <2>2 DEF Seed
<1>6. WalkFits'
  BY <1>1, <1>2, <1>4, <1>5 DEF WalkFits
<1>7. AskedOnce'
  BY <1>2, <1>4 DEF AskedOnce
<1> QED BY <1>6, <1>7

\* Where the walk is over, what it was is of no account.
LEMMA WalkOver ==
  ASSUME spot' \notin {"new", "seeds", "search", "walk"},
         \A p \in Range(seeds') : p \in Titled' => p \in candidates',
         \A p \in Sites : asked'[p] > 0 => p \in Range(seeds') \/ (p \in candidates' /\ nature'[p] = "channel")
  PROVE  WalkFits'
<1>1. spot' # "walk" /\ spot' \notin {"new", "seeds"} /\ spot' \notin {"new", "seeds", "search"}
  OBVIOUS
<1> QED BY <1>1, Zenon DEF WalkFits

LEMMA NoneSeeded ==
  ASSUME NEW s, NEW p
  PROVE  Seeded(s, 0, p) = 0
<1>1. {i \in 1..0 : s[i] = p} = {}
  OBVIOUS
<1> QED BY <1>1, FS_EmptySet DEF Seeded

LEMMA OneMoreSeeded ==
  ASSUME NEW s \in Seq(Sites), NEW n \in Nat, n < Len(s), NEW p
  PROVE  /\ Seeded(s, n, p) \in Nat
         /\ Seeded(s, n + 1, p) = IF s[n + 1] = p THEN Seeded(s, n, p) + 1 ELSE Seeded(s, n, p)
         /\ Seeded(s, n + 1, p) <= Cardinality({i \in DOMAIN s : s[i] = p})
<1> DEFINE old == {i \in 1..n : s[i] = p}
           new == {i \in 1..n + 1 : s[i] = p}
           all == {i \in DOMAIN s : s[i] = p}
<1>1. IsFiniteSet(1..Len(s)) /\ DOMAIN s = 1..Len(s) /\ Len(s) \in Nat
  BY FS_Interval
<1>2. old \subseteq 1..Len(s) /\ new \subseteq 1..Len(s) /\ all \subseteq 1..Len(s) /\ new \subseteq all
  BY <1>1
<1>3. IsFiniteSet(old) /\ IsFiniteSet(all)
  BY <1>1, <1>2, FS_Subset
<1>4. Cardinality(old) \in Nat /\ Cardinality(new) <= Cardinality(all)
  BY <1>2, <1>3, FS_CardinalityType, FS_Subset
<1>5. n + 1 \notin old
  OBVIOUS
<1>6. new = IF s[n + 1] = p THEN old \cup {n + 1} ELSE old
  OBVIOUS
<1> HIDE DEF old, new, all
<1>7. Cardinality(new) = IF s[n + 1] = p THEN Cardinality(old) + 1 ELSE Cardinality(old)
  BY <1>3, <1>5, <1>6, FS_AddElement
<1> QED BY <1>4, <1>7 DEF Seeded, old, new, all

LEMMA ProceedsKeepsWalk ==
  ASSUME DiscoveryAssumption, DiscInv, Proceeds
  PROVE  WalkFits' /\ AskedOnce'
<1>1. /\ nature' = nature /\ candidates' = candidates /\ next_' = next_ /\ asked' = asked /\ seeds' = seeds
      /\ Titled' = Titled
  BY DEF Proceeds, intake_, Titled
<1>2. DiscType /\ WalkFits
  BY DEF DiscInv
<1>3. AskedOnce'
  BY <1>1 DEF DiscInv, AskedOnce
<1>4. /\ \A p \in Range(seeds') : p \in Titled' => p \in candidates'
      /\ \A p \in Sites : asked'[p] > 0 => p \in Range(seeds') \/ (p \in candidates' /\ nature'[p] = "channel")
  BY <1>1, <1>2 DEF WalkFits
<1>5. CASE spot = "seeds" /\ spot' = "search"
  <2>1. next_' = <<>> /\ \A p \in Sites : asked'[p] = 0
    BY <1>1, <1>2, <1>5 DEF WalkFits
  <2>2. spot' # "walk" /\ spot' \notin {"new", "seeds"}
    BY <1>5
  <2> QED BY <1>3, <1>4, <2>1, <2>2, Zenon DEF WalkFits
<1>6. CASE spot = "search" /\ spot' = "walk" /\ seeds # <<>> /\ frontier' = seeds /\ level' = 1
  <2>1. next_ = <<>> /\ \A p \in Sites : asked[p] = 0
    BY <1>2, <1>6 DEF WalkFits
  <2>2. IsInjective(next_') /\ \A p \in Range(next_') : Fresh(p)'
    BY <1>1, <2>1 DEF IsInjective, Range
  <2>3. seeds \in Seq(Sites)
    BY <1>2 DEF DiscType
  <2>4. Len(seeds) \in Nat /\ Len(seeds') - Len(frontier') = 0
    BY <1>1, <1>6, <2>3
  <2>5. \A p \in Sites : asked'[p] = Seeded(seeds', Len(seeds') - Len(frontier'), p)
    BY <1>1, <2>1, <2>4, NoneSeeded
  <2>6. /\ Len(frontier') <= Len(seeds')
        /\ \A i \in 1..Len(frontier') : frontier'[i] = seeds'[Len(seeds') - Len(frontier') + i]
    BY <1>1, <1>6, <2>4
  <2>7. spot' = "walk" /\ level' >= 1 /\ ~(level' > 1) /\ spot' \notin {"new", "seeds"} /\ spot' \notin {"new", "seeds", "search"}
    BY <1>6
  <2> QED BY <1>3, <1>4, <2>2, <2>5, <2>6, <2>7, Zenon DEF WalkFits
<1>7. CASE spot' \notin {"new", "seeds", "search", "walk"}
  BY <1>3, <1>4, <1>7, WalkOver
<1>8. \/ spot = "seeds" /\ spot' = "search"
      \/ spot = "search" /\ spot' = "walk" /\ seeds # <<>> /\ frontier' = seeds /\ level' = 1
      \/ spot' \notin {"new", "seeds", "search", "walk"}
  BY DEF Proceeds
<1> QED BY <1>3, <1>5, <1>6, <1>7, <1>8

LEMMA NextLevelKeepsWalk ==
  ASSUME DiscoveryAssumption, DiscInv, NextLevel
  PROVE  WalkFits' /\ AskedOnce'
<1>1. /\ nature' = nature /\ candidates' = candidates /\ next_' = <<>> /\ asked' = asked /\ seeds' = seeds
      /\ Titled' = Titled /\ spot = "walk"
  BY DEF NextLevel, intake_, Titled
<1>2. DiscType /\ WalkFits /\ level \in Nat
  BY WalkNumbers DEF DiscInv
<1>3. AskedOnce'
  BY <1>1 DEF DiscInv, AskedOnce
<1>4. /\ \A p \in Range(seeds') : p \in Titled' => p \in candidates'
      /\ \A p \in Sites : asked'[p] > 0 => p \in Range(seeds') \/ (p \in candidates' /\ nature'[p] = "channel")
  BY <1>1, <1>2 DEF WalkFits
<1>5. level >= 1 /\ IsInjective(next_) /\ \A p \in Range(next_) : Fresh(p)
  BY <1>1, <1>2 DEF WalkFits
<1>6. CASE level < Depth /\ Room /\ next_ # <<>>
  <2>1. frontier' = next_ /\ level' = level + 1 /\ spot' = spot
    BY <1>6 DEF NextLevel
  <2>2. Range(next_') = {} /\ IsInjective(next_')
    BY <1>1 DEF Range, IsInjective
  <2>3. \A p : Fresh(p) => Fresh(p)'
    BY <1>1 DEF Fresh
  <2>4. level' > 1 /\ level' >= 1 /\ level' # 1
    BY <1>2, <1>5, <2>1
  <2>5. spot' = "walk" /\ spot' \notin {"new", "seeds"} /\ spot' \notin {"new", "seeds", "search"}
    BY <1>1, <2>1
  <2>6. IsInjective(frontier') /\ (\A p \in Range(frontier') : Fresh(p)') /\ Range(frontier') \cap Range(next_') = {}
    BY <1>5, <2>1, <2>2, <2>3
  <2>7. \A p \in Range(next_') : Fresh(p)'
    BY <2>2
  <2> QED BY <1>3, <1>4, <2>2, <2>4, <2>5, <2>6, <2>7, Zenon DEF WalkFits
<1>7. CASE ~(level < Depth /\ Room /\ next_ # <<>>)
  <2>1. spot' = "look"
    BY <1>7 DEF NextLevel
  <2> QED BY <1>3, <1>4, <2>1, WalkOver
<1> QED BY <1>3, <1>6, <1>7

LEMMA RecommendKeepsWalk ==
  ASSUME DiscoveryAssumption, DiscInv, Recommend
  PROVE  WalkFits' /\ AskedOnce'
<1> DEFINE place == Head(frontier)
<1>1. /\ spot = "walk" /\ spot' = spot /\ frontier # <<>> /\ Room
      /\ asked' = [asked EXCEPT ![place] = @ + 1] /\ frontier' = Tail(frontier)
      /\ nature' = nature /\ level' = level /\ seeds' = seeds /\ Titled' = Titled
  BY DEF Recommend, intake_, Titled
<1>2. DiscType /\ WalkFits /\ AskedOnce /\ NothingPassedOver
  BY DEF DiscInv
<1>3. /\ frontier \in Seq(Sites) /\ next_ \in Seq(Sites) /\ seeds \in Seq(Sites) /\ asked \in [Sites -> Nat]
      /\ level \in Nat /\ candidates \subseteq Sites
  BY <1>2, WalkNumbers DEF DiscType
<1>4. /\ place \in Sites /\ place \in Range(frontier) /\ place = frontier[1]
      /\ Tail(frontier) \in Seq(Sites) /\ Len(Tail(frontier)) = Len(frontier) - 1
      /\ \A i \in 1..Len(frontier) - 1 : Tail(frontier)[i] = frontier[i + 1]
      /\ Range(Tail(frontier)) \subseteq Range(frontier)
      /\ IsInjective(frontier) => IsInjective(Tail(frontier)) /\ place \notin Range(Tail(frontier))
  BY <1>1, <1>3, OneLess
<1>5. Len(frontier) \in Nat /\ Len(frontier) >= 1 /\ Len(seeds) \in Nat
  BY <1>1, <1>3, SeqFacts
<1> HIDE DEF place
<1>6. \A p \in Sites : asked'[p] = IF p = place THEN asked[p] + 1 ELSE asked[p]
  BY <1>1, <1>3
<1>7. /\ \A p \in Range(seeds) : p \in Titled => p \in candidates
      /\ \A p \in Sites : asked[p] > 0 => p \in Range(seeds) \/ (p \in candidates /\ nature[p] = "channel")
      /\ level >= 1 /\ IsInjective(next_) /\ \A p \in Range(next_) : Fresh(p)
  BY <1>1, <1>2 DEF WalkFits
\* What is next: what was, and new channels.
<1>8. /\ candidates \subseteq candidates'
      /\ IsInjective(next_')
      /\ \A p \in Range(next_') : \/ p \in Range(next_)
                                  \/ p \in candidates' /\ p \notin candidates /\ nature[p] = "channel"
  <2>1. CASE UNCHANGED <<candidates, next_, notes_, news>>
    BY <1>7, <2>1
  <2>2. ASSUME NEW answer \in Answers_, Takes(answer), Notes(answer), next_' = next_ \o Newly(answer)
        PROVE <1>8!1 /\ <1>8!2 /\ <1>8!3
    <3> DEFINE new == Newly(answer)
    <3>1. /\ candidates \subseteq candidates'
          /\ \A i \in DOMAIN answer : Goes_(answer, i) => answer[i] \in candidates' /\ answer[i] \notin candidates
      BY <1>1, <1>2, <2>2, AnswerTaken
    <3>2. /\ new \in Seq(Sites) /\ IsInjective(new)
          /\ \A p \in Range(new) : \E i \in DOMAIN answer : Goes_(answer, i) /\ answer[i] = p /\ nature[p] = "channel"
      BY <2>2, NewlyFacts
    <3>3. next_' = next_ \o new
      BY <2>2
    <3> HIDE DEF new
    <3>4. \A p \in Range(new) : p \in candidates' /\ p \notin candidates /\ nature[p] = "channel"
      BY <3>1, <3>2
    <3>5. \A p \in Range(next_) : p \in candidates
      BY <1>7 DEF Fresh
    <3>6. Range(next_) \cap Range(new) = {}
      BY <3>4, <3>5
    <3>7. Range(next_') \subseteq Range(next_) \cup Range(new) /\ IsInjective(next_')
      BY <1>3, <1>7, <3>2, <3>3, <3>6, Joint
    <3> QED BY <3>1, <3>4, <3>7
  <2> QED BY <2>1, <2>2 DEF Recommend
\* Of what kind the place is that is asked.
<1>9. CASE level = 1
  <2> DEFINE k == Len(seeds) - Len(frontier)
  <2>1. /\ Len(frontier) <= Len(seeds)
        /\ \A i \in 1..Len(frontier) : frontier[i] = seeds[k + i]
        /\ \A p \in Sites : asked[p] = Seeded(seeds, k, p)
    BY <1>1, <1>2, <1>9 DEF WalkFits
  <2>2. k \in Nat /\ k < Len(seeds) /\ Len(seeds') - Len(frontier') = k + 1 /\ k + 1 \in 1..Len(seeds)
    BY <1>1, <1>4, <1>5, <2>1
  <2>3. place = seeds[k + 1] /\ place \in Range(seeds)
    <3>1. 1 \in 1..Len(frontier)
      BY <1>5
    <3>2. place = seeds[k + 1]
      BY <1>4, <2>1, <3>1
    <3> QED BY <1>3, <2>2, <3>2, SeqFacts
  <2> HIDE DEF k
  <2>4. \A p \in Sites : /\ asked'[p] = Seeded(seeds, k + 1, p)
                         /\ asked'[p] <= Cardinality({i \in DOMAIN seeds : seeds[i] = p})
    <3> TAKE p \in Sites
    <3>1. /\ Seeded(seeds, k, p) \in Nat
          /\ Seeded(seeds, k + 1, p) = IF seeds[k + 1] = p THEN Seeded(seeds, k, p) + 1 ELSE Seeded(seeds, k, p)
          /\ Seeded(seeds, k + 1, p) <= Cardinality({i \in DOMAIN seeds : seeds[i] = p})
      <4>1. seeds \in Seq(Sites) /\ k \in Nat /\ k < Len(seeds)
        BY <1>3, <2>2
      <4> HIDE DEF Seeded
      <4> QED BY SMTT(20), <4>1, OneMoreSeeded
    <3> QED BY <1>6, <2>1, <2>3, <3>1
  <2>5. \A i \in 1..Len(frontier') : frontier'[i] = seeds'[Len(seeds') - Len(frontier') + i]
    <3> TAKE i \in 1..Len(frontier')
    <3>1. i \in 1..Len(frontier) - 1 /\ i + 1 \in 1..Len(frontier) /\ k + (i + 1) = (k + 1) + i
      BY <1>1, <1>4, <1>5, <2>2
    <3>2. frontier'[i] = frontier[i + 1]
      BY <1>1, <1>4, <3>1
    <3>3. frontier[i + 1] = seeds[k + (i + 1)]
      BY <2>1, <3>1
    <3> QED BY <1>1, <2>2, <3>1, <3>2, <3>3
  <2>6. Len(frontier') <= Len(seeds')
    BY <1>1, <1>4, <1>5, <2>1
  <2>7. \A p \in Sites : asked'[p] = Seeded(seeds', Len(seeds') - Len(frontier'), p)
    BY <1>1, <2>2, <2>4
  <2>8. \A p \in Range(next_') : Fresh(p)'
    <3> TAKE p \in Range(next_')
    <3>1. CASE p \in Range(next_)
      <4>1. Fresh(p) /\ p \in Sites
        BY <1>3, <1>7, <3>1 DEF Fresh
      <4>2. p # place
        BY <2>3, <4>1 DEF Fresh
      <4> QED BY <1>1, <1>6, <1>8, <4>1, <4>2 DEF Fresh
    <3>2. CASE p \in candidates' /\ p \notin candidates /\ nature[p] = "channel"
      <4>1. p \in Titled /\ p \in Sites
        <5>1. next_' \in Seq(Sites)
          <6>1. CASE UNCHANGED <<candidates, next_, notes_, news>>
            BY <1>3, <6>1
          <6>2. ASSUME NEW answer \in Answers_, next_' = next_ \o Newly(answer) PROVE next_' \in Seq(Sites)
            BY <1>3, <6>2, NewlyFacts
          <6> QED BY <6>1, <6>2 DEF Recommend
        <5>2. p \in Sites
          BY <5>1, SeqFacts
        <5> QED BY <3>2, <5>2 DEF Titled
      <4>2. p \notin Range(seeds)
        BY <1>7, <3>2, <4>1
      <4>3. asked[p] = 0
        BY <1>3, <1>7, <3>2, <4>1, <4>2
      <4>4. p # place
        BY <2>3, <4>2
      <4> QED BY <1>1, <1>6, <3>2, <4>1, <4>2, <4>3, <4>4 DEF Fresh
    <3> QED BY <1>8, <3>1, <3>2
  <2>9. \A p \in Sites : asked'[p] > 0 => p \in Range(seeds') \/ (p \in candidates' /\ nature'[p] = "channel")
    BY <1>1, <1>3, <1>6, <1>7, <1>8, <2>3
  <2>10. WalkFits'
    <3>1. \A p \in Range(seeds') : p \in Titled' => p \in candidates'
      BY <1>1, <1>7, <1>8
    <3> QED BY <1>1, <1>7, <1>8, <1>9, <2>5, <2>6, <2>7, <2>8, <2>9, <3>1 DEF WalkFits
  <2>11. AskedOnce'
    <3>1. \A p \in Sites : nature[p] = "chat" /\ asked'[p] > 0 => p \in Range(seeds)
      BY <1>1, <2>9
    <3> QED BY <1>1, <2>4, <3>1 DEF AskedOnce
  <2> QED BY <2>10, <2>11
<1>10. CASE level # 1
  <2>1. level > 1
    BY <1>3, <1>7, <1>10
  <2>2. /\ IsInjective(frontier) /\ \A p \in Range(frontier) : Fresh(p)
        /\ Range(frontier) \cap Range(next_) = {}
    BY <1>1, <1>2, <2>1 DEF WalkFits
  <2>3. Fresh(place) /\ place \notin Range(next_)
    BY <1>4, <2>2
  <2>4. IsInjective(frontier') /\ place \notin Range(frontier') /\ Range(frontier') \subseteq Range(frontier)
    BY <1>1, <1>4, <2>2
  <2>5. \A p \in Sites : Fresh(p) /\ p # place => Fresh(p)'
    BY <1>1, <1>6, <1>8 DEF Fresh
  <2>6. \A p \in Range(frontier') : Fresh(p)'
    <3>1. Range(frontier) \subseteq Sites
      BY <1>3, SeqFacts
    <3> QED BY <2>2, <2>4, <2>5, <3>1
  <2>a. place \in candidates
    BY <2>3 DEF Fresh
  <2>7. \A p \in Range(next_') : Fresh(p)'
    <3> TAKE p \in Range(next_')
    <3>1. CASE p \in Range(next_)
      <4>1. p \in Sites /\ Fresh(p) /\ p # place
        BY <1>3, <1>7, <2>3, <3>1, SeqFacts
      <4> QED BY <2>5, <4>1
    <3>2. CASE p \in candidates' /\ p \notin candidates /\ nature[p] = "channel"
      <4>1. p \in Titled /\ p \in Sites
        <5>1. next_' \in Seq(Sites)
          <6>1. CASE UNCHANGED <<candidates, next_, notes_, news>>
            BY <1>3, <6>1
          <6>2. ASSUME NEW answer \in Answers_, next_' = next_ \o Newly(answer) PROVE next_' \in Seq(Sites)
            BY <1>3, <6>2, NewlyFacts
          <6> QED BY <6>1, <6>2 DEF Recommend
        <5>2. p \in Sites
          BY <5>1, SeqFacts
        <5> QED BY <3>2, <5>2 DEF Titled
      <4>2. p \notin Range(seeds)
        BY <1>7, <3>2, <4>1
      <4>3. asked[p] = 0
        BY <1>3, <1>7, <3>2, <4>1, <4>2
      <4>4. p # place
        BY <2>a, <3>2
      <4> QED BY <1>1, <1>6, <3>2, <4>1, <4>2, <4>3, <4>4 DEF Fresh
    <3> QED BY <1>8, <3>1, <3>2
  <2>8. Range(frontier') \cap Range(next_') = {}
    <3>1. \A p \in Range(frontier') : p \notin Range(next_')
      <4> TAKE p \in Range(frontier')
      <4>1. p \in candidates /\ p \notin Range(next_)
        BY <2>2, <2>4 DEF Fresh
      <4> QED BY <1>8, <4>1
    <3> QED BY <3>1
  <2>9. \A p \in Sites : asked'[p] > 0 => p \in Range(seeds') \/ (p \in candidates' /\ nature'[p] = "channel")
    <3>1. nature[place] = "channel"
      BY <2>3 DEF Fresh
    <3> QED BY <1>1, <1>3, <1>6, <1>7, <1>8, <2>a, <3>1
  <2>10. WalkFits'
    <3>1. \A p \in Range(seeds') : p \in Titled' => p \in candidates'
      BY <1>1, <1>7, <1>8
    <3>2. level' > 1 /\ level' # 1 /\ level' >= 1 /\ spot' = "walk"
      BY <1>1, <2>1, <1>10, <1>3
    <3> QED BY <1>8, <2>4, <2>6, <2>7, <2>8, <2>9, <3>1, <3>2 DEF WalkFits
  <2>11. AskedOnce'
    <3>1. asked'[place] = 1
      BY <1>4, <1>6, <2>3 DEF Fresh
    <3>2. \A p \in Sites : p # place => asked'[p] = asked[p]
      BY <1>6
    <3>3. \A p \in Sites : nature[p] = "chat" /\ asked'[p] > 0 => p \in Range(seeds)
      BY <1>1, <2>9
    <3>4. \A p \in Sites : asked'[p] <= 1 \/ asked'[p] <= Cardinality({i \in DOMAIN seeds : seeds[i] = p})
      BY <1>2, <1>6, <3>1, <3>2 DEF AskedOnce
    <3> QED BY <1>1, <3>3, <3>4 DEF AskedOnce
  <2> QED BY <2>10, <2>11
<1> QED BY <1>9, <1>10

\* What every step leaves alone.
LEMMA DiscSteady ==
  ASSUME DiscNext
  PROVE  task' = task /\ limit' = limit /\ nature' = nature /\ Titled' = Titled /\ Found' = Found
<1>1. task' = task /\ limit' = limit /\ nature' = nature
  <2>1. CASE Opens_ BY <2>1 DEF Opens_
  <2>2. CASE Seed BY <2>2 DEF Seed
  <2>3. CASE Proceeds BY <2>3 DEF Proceeds
  <2>4. CASE Search BY <2>4 DEF Search
  <2>5. CASE Recommend BY <2>5 DEF Recommend
  <2>6. CASE NextLevel BY <2>6 DEF NextLevel
  <2>7. CASE Mentioned BY <2>7 DEF Mentioned
  <2>8. CASE Link BY <2>8 DEF Link
  <2>9. CASE LinksEnd BY <2>9 DEF LinksEnd
  <2>10. CASE Deleted BY <2>10 DEF Deleted
  <2>11. CASE Store_ BY <2>11 DEF Store_
  <2> QED BY <2>1, <2>2, <2>3, <2>4, <2>5, <2>6, <2>7, <2>8, <2>9, <2>10, <2>11 DEF DiscNext
<1> QED BY <1>1 DEF Titled, Found

LEMMA WalkStep ==
  ASSUME DiscoveryAssumption, DiscInv, DiscNext
  PROVE  WalkFits' /\ AskedOnce'
<1>1. nature' = nature
  BY DiscSteady
<1>2. CASE Seed BY <1>2, SeedKeepsWalk
<1>3. CASE Proceeds BY <1>3, ProceedsKeepsWalk
<1>4. CASE Recommend BY <1>4, RecommendKeepsWalk
<1>5. CASE NextLevel BY <1>5, NextLevelKeepsWalk
<1>6. CASE Search
  <2>1. /\ spot = "search" /\ spot' = spot /\ UNCHANGED walk /\ seeds' = seeds /\ Room
        /\ \E answer \in Answers_ : Takes(answer) /\ Notes(answer)
    BY <1>6 DEF Search, intake_
  <2>2. DiscType /\ WalkFits /\ NothingPassedOver /\ AskedOnce
    BY DEF DiscInv
  <2>3. candidates \subseteq candidates'
    BY <2>1, <2>2, AnswerTaken
  <2> QED BY <1>1, <2>1, <2>3, WalkAlone
<1>7. CASE Mentioned
  <2>1. /\ spot = "posts" /\ spot' = spot /\ UNCHANGED walk /\ seeds' = seeds
        /\ \/ \E p \in Sites : candidates' = Add(candidates, p)
           \/ candidates' = candidates
    BY <1>7 DEF Mentioned
  <2>2. candidates \subseteq candidates'
    BY <2>1, Added DEF DiscInv
  <2> QED BY <1>1, <2>1, <2>2, WalkAlone
<1>8. CASE Opens_
  <2>1. spot = "new" /\ UNCHANGED walk /\ seeds' = seeds /\ candidates' = candidates /\ spot' \in {"seeds", "links", "over"}
    BY <1>8 DEF Opens_, intake_
  <2>2. CASE spot' = "seeds"
    <3>1. frontier' = frontier /\ next_' = next_ /\ level' = level /\ asked' = asked /\ Titled' = Titled
      BY <1>1, <2>1 DEF walk, Titled
    <3>2. WalkFits /\ AskedOnce
      BY DEF DiscInv
    <3>3. /\ \A p \in Range(seeds') : p \in Titled' => p \in candidates'
          /\ \A p \in Sites : asked'[p] > 0 => p \in Range(seeds') \/ (p \in candidates' /\ nature'[p] = "channel")
          /\ \A p \in Sites : asked'[p] = 0
          /\ next_' = <<>> /\ candidates' \subseteq Range(seeds')
      BY <1>1, <2>1, <3>1, <3>2 DEF WalkFits
    <3>4. WalkFits'
      BY <2>2, <3>3 DEF WalkFits
    <3> QED BY <1>1, <2>1, <3>1, <3>2, <3>4 DEF AskedOnce
  <2>3. CASE spot' # "seeds"
    BY <1>1, <2>1, <2>3, WalkAlone
  <2> QED BY <2>2, <2>3
<1>9. CASE Link
  BY <1>1, <1>9, WalkAlone DEF Link
<1>10. CASE LinksEnd
  BY <1>1, <1>10, WalkAlone DEF LinksEnd, intake_
<1>11. CASE Deleted
  BY <1>1, <1>11, WalkAlone DEF Deleted, intake_
<1>12. CASE Store_
  <2>1. UNCHANGED walk /\ seeds' = seeds /\ candidates' = candidates /\ spot' \in {"done", "over"}
    BY <1>12 DEF Store_, intake_
  <2> QED BY <1>1, <2>1, WalkAlone
<1> QED BY <1>2, <1>3, <1>4, <1>5, <1>6, <1>7, <1>8, <1>9, <1>10, <1>11, <1>12 DEF DiscNext

LEMMA BoundStep ==
  ASSUME DiscoveryAssumption, DiscInv, DiscNext
  PROVE  ResultsBounded' /\ NothingPassedOver'
<1>1. limit' = limit /\ nature' = nature
  BY DiscSteady
<1>2. DiscType /\ WalkFits /\ ResultsBounded /\ NothingPassedOver
  BY DEF DiscInv
<1>t. limit \in Nat /\ Cardinality(candidates) \in Nat /\ candidates \subseteq Sites
  BY <1>2, WalkNumbers
<1>3. ASSUME UNCHANGED <<candidates, seeds, passed, behind>> PROVE ResultsBounded' /\ NothingPassedOver'
  BY <1>1, <1>2, <1>3 DEF ResultsBounded, NothingPassedOver
<1>4. ASSUME Room, seeds' = seeds, NEW answer \in Answers_, Takes(answer), Notes(answer)
      PROVE ResultsBounded' /\ NothingPassedOver'
  <2>1. /\ Cardinality(candidates') <= limit
        /\ passed' \subseteq candidates' \cup behind' \/ Cardinality(candidates') >= limit
    BY <1>2, <1>4, AnswerTaken
  <2> QED BY <1>1, <2>1 DEF ResultsBounded, NothingPassedOver
<1>5. ASSUME NEW p \in Sites, candidates' = Add(candidates, p), passed' = passed, behind' = behind
      PROVE NothingPassedOver'
  <2>1. candidates \subseteq candidates' /\ Cardinality(candidates') \in Nat /\ Cardinality(candidates') >= Cardinality(candidates)
    BY <1>2, <1>5, Added
  <2>2. CASE passed \subseteq candidates \cup behind
    BY <1>5, <2>1, <2>2 DEF NothingPassedOver
  <2>3. CASE Cardinality(candidates) >= limit
    BY <1>1, <1>t, <2>1, <2>3 DEF NothingPassedOver
  <2> QED BY <1>2, <2>2, <2>3 DEF NothingPassedOver
<1>6. CASE Seed
  <2>1. CASE UNCHANGED <<seeds, candidates>>
    BY <1>3, <1>6, <2>1 DEF Seed, notes_
  <2>2. ASSUME NEW p \in Sites, seeds' = Append(seeds, p), candidates' = Add(candidates, p)
        PROVE ResultsBounded' /\ NothingPassedOver'
    <3>1. spot = "seeds" /\ passed' = passed /\ behind' = behind
      BY <1>6 DEF Seed, notes_
    <3>2. candidates \subseteq Range(seeds) /\ seeds \in Seq(Sites)
      BY <1>2, <3>1 DEF WalkFits, DiscType
    <3>3. Range(seeds') = Range(seeds) \cup {p}
      BY <2>2, <3>2, Longer
    <3>4. candidates' \subseteq candidates \cup {p}
      BY <1>2, <2>2, Added
    <3> QED BY <1>5, <2>2, <3>1, <3>2, <3>3, <3>4 DEF ResultsBounded
  <2> QED BY <1>6, <2>1, <2>2 DEF Seed
<1>7. CASE Mentioned
  <2>1. Room /\ passed' = passed /\ behind' = behind /\ seeds' = seeds
    BY <1>7 DEF Mentioned, notes_
  <2>2. CASE candidates' = candidates
    BY <1>3, <2>1, <2>2
  <2>3. ASSUME NEW p \in Sites, candidates' = Add(candidates, p) PROVE ResultsBounded' /\ NothingPassedOver'
    <3>1. Cardinality(candidates') \in Nat /\ Cardinality(candidates') <= Cardinality(candidates) + 1
      BY <1>2, <2>3, Added
    <3>2. Cardinality(candidates') <= limit
      BY <1>t, <2>1, <3>1 DEF Room
    <3> QED BY <1>1, <1>5, <2>1, <2>3, <3>2 DEF ResultsBounded
  <2> QED BY <1>7, <2>2, <2>3 DEF Mentioned
<1>8. CASE Search
  BY <1>4, <1>8 DEF Search, intake_
<1>9. CASE Recommend
  <2>1. CASE UNCHANGED <<candidates, next_, notes_, news>>
    BY <1>3, <1>9, <2>1 DEF Recommend, intake_, notes_
  <2>2. CASE \E answer \in Answers_ : Takes(answer) /\ Notes(answer) /\ next_' = next_ \o Newly(answer)
    BY <1>4, <1>9, <2>2 DEF Recommend, intake_
  <2> QED BY <1>9, <2>1, <2>2 DEF Recommend
<1>10. CASE Opens_ BY <1>3, <1>10 DEF Opens_, intake_, notes_
<1>11. CASE Proceeds BY <1>3, <1>11 DEF Proceeds, intake_, notes_
<1>12. CASE NextLevel BY <1>3, <1>12 DEF NextLevel, intake_, notes_
<1>13. CASE Link BY <1>3, <1>13 DEF Link, notes_
<1>14. CASE LinksEnd BY <1>3, <1>14 DEF LinksEnd, intake_, notes_
<1>15. CASE Deleted BY <1>3, <1>15 DEF Deleted, intake_, notes_
<1>16. CASE Store_ BY <1>3, <1>16 DEF Store_, intake_, notes_
<1> QED BY <1>6, <1>7, <1>8, <1>9, <1>10, <1>11, <1>12, <1>13, <1>14, <1>15, <1>16 DEF DiscNext

LEMMA LinksStep ==
  ASSUME DiscoveryAssumption, DiscInv, DiscNext
  PROVE  LinksFit' /\ LinksAccounted'
<1>1. task' = task
  BY DiscSteady
<1>2. DiscType /\ LinksFit
  BY DEF DiscInv
<1>t. /\ links \in Seq(Sites) /\ tried \in Nat /\ failed_ \in Nat /\ Len(links) \in Nat /\ Range(links) \subseteq Sites
      /\ (spot \in {"seeds", "search", "walk", "look", "posts"} => task = "discover")
  BY <1>2, WalkNumbers, SeqFacts DEF DiscType
<1>3. ASSUME UNCHANGED <<links, tried, failed_>> PROVE LinksFit'
  BY <1>1, <1>2, <1>3 DEF LinksFit
<1>4. CASE Opens_
  BY <1>3, <1>4 DEF Opens_, intake_, LinksAccounted
<1>5. CASE Seed
  <2>1. links' = links /\ spot' = "seeds" /\ task = "discover"
    BY <1>5, <1>t DEF Seed
  <2> QED BY <1>1, <1>2, <2>1 DEF LinksFit, LinksAccounted
<1>6. CASE Proceeds
  <2>1. spot' # "done"
    BY <1>6 DEF Proceeds
  <2> QED BY <1>3, <1>6, <2>1 DEF Proceeds, intake_, LinksAccounted
<1>7. CASE Search
  BY <1>3, <1>7 DEF Search, intake_, LinksAccounted
<1>8. CASE Recommend
  BY <1>3, <1>8 DEF Recommend, intake_, LinksAccounted
<1>9. CASE NextLevel
  <2>1. spot' # "done"
    BY <1>9 DEF NextLevel
  <2> QED BY <1>3, <1>9, <2>1 DEF NextLevel, intake_, LinksAccounted
<1>10. CASE Mentioned
  <2>1. links' = links /\ spot' = "posts" /\ task = "discover"
    BY <1>10, <1>t DEF Mentioned
  <2> QED BY <1>1, <1>2, <2>1 DEF LinksFit, LinksAccounted
<1>11. CASE Link
  <2>1. spot' = "links" /\ tried' = tried + 1
    BY <1>11 DEF Link
  <2>2. CASE links' = links /\ failed_' = failed_ + 1
    <3>1. LinksFit'
      BY <1>1, <1>2, <1>t, <2>1, <2>2 DEF LinksFit
    <3> QED BY <2>1, <3>1 DEF LinksAccounted
  <2>3. ASSUME NEW p \in Sites, links' = Append(links, p), failed_' = failed_ PROVE LinksFit' /\ LinksAccounted'
    <3>1. Len(links') = Len(links) + 1 /\ Range(links') = Range(links) \cup {p}
      BY <1>t, <2>3, Longer
    <3>2. Cardinality(Range(links)) \in Nat /\ Cardinality(Range(links) \cup {p}) <= Cardinality(Range(links)) + 1
      BY <1>t, SitesCount
    <3>3. Cardinality(Range(links)) <= Len(links) /\ (task = "enrich" => tried = Len(links) + failed_)
      BY <1>2 DEF LinksFit
    <3>4. Cardinality(Range(links')) <= Len(links')
      <4>1. Cardinality(Range(links')) \in Nat
        BY <1>t, <3>1, SitesCount
      <4> QED BY <1>t, <3>1, <3>2, <3>3, <4>1
    <3>5. task' = "enrich" => tried' = Len(links') + failed_'
      BY <1>1, <1>t, <2>1, <2>3, <3>1, <3>3
    <3> QED BY <2>1, <3>4, <3>5 DEF LinksFit, LinksAccounted
  <2> QED BY <1>11, <2>2, <2>3 DEF Link, Leads
<1>12. CASE LinksEnd
  BY <1>3, <1>12 DEF LinksEnd, intake_, LinksAccounted
<1>13. CASE Deleted
  BY <1>3, <1>13 DEF Deleted, intake_, LinksAccounted
<1>14. CASE Store_
  <2>1. UNCHANGED <<links, tried, failed_>>
    BY <1>14 DEF Store_, intake_
  <2>2. ASSUME task = "enrich", found_'.there PROVE found_'.raw = Cardinality(found_'.items) + found_'.out + found_'.already
    <3>1. Keep(Range(links))
      <4>1. CASE ~found_.there
        BY <1>14, <2>2, <4>1 DEF Store_
      <4>2. CASE found_.there
        BY <1>14, <2>2, <4>2 DEF Store_
      <4> QED BY <4>1, <4>2
    <3>2. /\ found_'.items = Range(links) /\ found_'.raw = tried /\ found_'.out = failed_
          /\ found_'.already = Len(links) - Cardinality(Range(links))
      BY <2>2, <3>1 DEF Keep
    <3>3. tried = Len(links) + failed_
      BY <1>2, <2>2 DEF LinksFit
    <3>4. Cardinality(Range(links)) \in Nat
      BY <1>t, SitesCount
    <3> QED BY <1>t, <3>2, <3>3, <3>4
  <2> QED BY <1>1, <1>3, <2>1, <2>2 DEF LinksAccounted
<1> QED BY <1>4, <1>5, <1>6, <1>7, <1>8, <1>9, <1>10, <1>11, <1>12, <1>13, <1>14 DEF DiscNext

LEMMA SeqStep ==
  ASSUME DiscoveryAssumption, DiscInv, DiscNext
  PROVE  {seeds', frontier', next_', links'} \subseteq Seq(Sites)
<1>t. /\ seeds \in Seq(Sites) /\ frontier \in Seq(Sites) /\ next_ \in Seq(Sites) /\ links \in Seq(Sites)
      /\ <<>> \in Seq(Sites)
  BY DEF DiscInv, DiscType
<1>1. ASSUME UNCHANGED <<frontier, next_, seeds, links>> PROVE {seeds', frontier', next_', links'} \subseteq Seq(Sites)
  BY <1>t, <1>1
<1>2. CASE Seed
  <2>1. frontier' = frontier /\ next_' = next_ /\ links' = links
    BY <1>2 DEF Seed, walk
  <2>2. seeds' \in Seq(Sites)
    <3>1. CASE seeds' = seeds BY <1>t, <3>1
    <3>2. CASE \E p \in Sites : seeds' = Append(seeds, p) BY <1>t, <3>2, Longer
    <3> QED BY <1>2, <3>1, <3>2 DEF Seed
  <2> QED BY <1>t, <2>1, <2>2
<1>3. CASE Proceeds
  <2>1. next_' = next_ /\ links' = links /\ seeds' = seeds /\ (frontier' = frontier \/ frontier' = seeds)
    BY <1>3 DEF Proceeds, intake_
  <2> QED BY <1>t, <2>1
<1>4. CASE Recommend
  <2>1. frontier' = Tail(frontier) /\ frontier # <<>> /\ seeds' = seeds /\ links' = links
    BY <1>4 DEF Recommend, intake_
  <2>2. frontier' \in Seq(Sites)
    BY <1>t, <2>1, OneLess
  <2>3. next_' \in Seq(Sites)
    <3>1. CASE next_' = next_ BY <1>t, <3>1
    <3>2. CASE \E answer \in Answers_ : next_' = next_ \o Newly(answer)
      BY <1>t, <3>2, NewlyFacts, Joint
    <3> QED BY <1>4, <3>1, <3>2 DEF Recommend
  <2> QED BY <1>t, <2>1, <2>2, <2>3
<1>5. CASE NextLevel
  <2>1. next_' = <<>> /\ links' = links /\ seeds' = seeds /\ (frontier' = next_ \/ frontier' = <<>>)
    BY <1>5 DEF NextLevel, intake_
  <2> QED BY <1>t, <2>1
<1>6. CASE Link
  <2>1. frontier' = frontier /\ next_' = next_ /\ seeds' = seeds
    BY <1>6 DEF Link, walk
  <2>2. links' \in Seq(Sites)
    <3>1. CASE links' = links BY <1>t, <3>1
    <3>2. CASE \E p \in Sites : links' = Append(links, p) BY <1>t, <3>2, Longer
    <3> QED BY <1>6, <3>1, <3>2 DEF Link, Leads
  <2> QED BY <1>t, <2>1, <2>2
<1>7. CASE Opens_ BY <1>1, <1>7 DEF Opens_, walk, intake_
<1>8. CASE Search BY <1>1, <1>8 DEF Search, walk, intake_
<1>9. CASE Mentioned BY <1>1, <1>9 DEF Mentioned, walk
<1>10. CASE LinksEnd BY <1>1, <1>10 DEF LinksEnd, walk, intake_
<1>11. CASE Deleted BY <1>1, <1>11 DEF Deleted, walk, intake_
<1>12. CASE Store_ BY <1>1, <1>12 DEF Store_, walk, intake_
<1> QED BY <1>2, <1>3, <1>4, <1>5, <1>6, <1>7, <1>8, <1>9, <1>10, <1>11, <1>12 DEF DiscNext

LEMMA SetsStep ==
  ASSUME DiscoveryAssumption, DiscInv, DiscNext
  PROVE  candidates' \subseteq Titled /\ passed' \subseteq Titled /\ behind' \subseteq Titled /\ found_' \in Found
<1> DEFINE Goal == candidates' \subseteq Titled /\ passed' \subseteq Titled /\ behind' \subseteq Titled /\ found_' \in Found
<1>t. /\ candidates \in SUBSET Titled /\ passed \subseteq Titled /\ behind \subseteq Titled /\ found_ \in Found
      /\ failed_ \in Nat /\ tried \in Nat /\ links \in Seq(Sites) /\ Range(links) \subseteq Sites /\ Len(links) \in Nat
      /\ Cardinality(candidates) \in Nat /\ DiscType /\ NothingPassedOver /\ candidates \in SUBSET Sites
      /\ Titled \subseteq Sites
  BY SMTT(20), WalkNumbers, SeqFacts DEF DiscInv, DiscType
<1>1. ASSUME UNCHANGED <<candidates, passed, behind, found_>> PROVE Goal
  BY <1>t, <1>1
<1>2. ASSUME NEW answer \in Answers_, Room, Takes(answer), Notes(answer), found_' = found_ PROVE Goal
  BY <1>t, <1>2, AnswerTaken
<1>3. ASSUME NEW p \in Sites, candidates' = Add(candidates, p), passed' = passed, behind' = behind, found_' = found_ PROVE Goal
  BY <1>t, <1>3, Added
<1>4. None_ \in Found /\ [None_ EXCEPT !.there = TRUE] \in Found
  BY DEF None_, Found
<1>5. CASE Opens_
  <2>1. candidates' = candidates /\ passed' = passed /\ behind' = behind
    BY <1>5 DEF Opens_, notes_
  <2>2. found_' = found_ \/ found_' = [None_ EXCEPT !.there = TRUE]
    BY <1>5 DEF Opens_
  <2> QED BY <1>t, <1>4, <2>1, <2>2
<1>6. CASE Deleted
  <2>1. candidates' = candidates /\ passed' = passed /\ behind' = behind /\ found_' = None_
    BY <1>6 DEF Deleted, notes_
  <2> QED BY <1>t, <1>4, <2>1
<1>7. CASE Seed
  <2>1. passed' = passed /\ behind' = behind /\ found_' = found_
    BY <1>7 DEF Seed, notes_
  <2>2. candidates' = candidates \/ \E p \in Sites : candidates' = Add(candidates, p)
    BY <1>7 DEF Seed
  <2> QED BY <1>1, <1>3, <2>1, <2>2
<1>8. CASE Mentioned
  <2>1. passed' = passed /\ behind' = behind /\ found_' = found_
    BY <1>8 DEF Mentioned, notes_
  <2>2. candidates' = candidates \/ \E p \in Sites : candidates' = Add(candidates, p)
    BY <1>8 DEF Mentioned
  <2> QED BY <1>1, <1>3, <2>1, <2>2
<1>9. CASE Search
  BY <1>2, <1>9 DEF Search
<1>10. CASE Recommend
  <2>1. found_' = found_ /\ Room
    BY <1>10 DEF Recommend
  <2>2. CASE UNCHANGED <<candidates, next_, notes_, news>>
    BY <1>1, <2>1, <2>2 DEF notes_
  <2>3. CASE \E answer \in Answers_ : Takes(answer) /\ Notes(answer) /\ next_' = next_ \o Newly(answer)
    BY <1>2, <2>1, <2>3
  <2> QED BY <1>10, <2>2, <2>3 DEF Recommend
<1>11. CASE Store_
  <2>1. candidates' = candidates /\ passed' = passed /\ behind' = behind
    BY <1>11 DEF Store_, notes_
  <2>2. ASSUME task # "enrich", NEW items \in Left, Keep(items) PROVE found_' \in Found
    <3>1. items \in SUBSET Titled /\ candidates \ items \in SUBSET Sites
      BY <1>t, <2>2 DEF Left
    <3>2. Cardinality(candidates \ items) \in Nat
      BY <3>1, SitesCount
    <3> DEFINE n == Cardinality(candidates)
               m == Cardinality(candidates \ items)
    <3> HIDE DEF n, m
    <3>3. n \in Nat /\ m \in Nat /\ failed_ + m \in Nat
      BY <1>t, <3>2 DEF n, m
    <3>4. found_' = [there |-> TRUE, items |-> items, already |-> 0, out |-> failed_ + m, raw |-> n]
      BY <2>2 DEF Keep, n, m
    <3> QED BY <3>1, <3>3, <3>4 DEF Found
  <2>3. ASSUME task = "enrich", Keep(Range(links)) PROVE found_' \in Found
    <3>1. Range(links) \in SUBSET Titled
      BY <1>t, <2>3 DEF DiscType, Titled
    <3>2. Cardinality(Range(links)) \in Nat /\ Cardinality(Range(links)) <= Len(links)
      BY <1>t, SitesCount DEF DiscInv, LinksFit
    <3> DEFINE k == Len(links) - Cardinality(Range(links))
    <3>3. k \in Nat
      BY <1>t, <3>2
    <3>4. found_' = [there |-> TRUE, items |-> Range(links), already |-> k, out |-> failed_, raw |-> tried]
      BY <2>3 DEF Keep
    <3> HIDE DEF k
    <3> QED BY <1>t, <3>1, <3>3, <3>4 DEF Found
  <2>4. CASE found_' = found_
    BY <1>t, <2>1, <2>4
  <2>5. \/ found_' = found_
        \/ task = "enrich" /\ Keep(Range(links))
        \/ task # "enrich" /\ \E items \in Left : Keep(items)
    BY <1>11 DEF Store_
  <2> QED BY <1>t, <2>1, <2>2, <2>3, <2>4, <2>5
<1>12. CASE Proceeds BY <1>1, <1>12 DEF Proceeds, notes_
<1>13. CASE NextLevel BY <1>1, <1>13 DEF NextLevel, notes_
<1>14. CASE Link BY <1>1, <1>14 DEF Link, notes_
<1>15. CASE LinksEnd BY <1>1, <1>15 DEF LinksEnd, notes_
<1> QED BY <1>5, <1>6, <1>7, <1>8, <1>9, <1>10, <1>11, <1>12, <1>13, <1>14, <1>15 DEF DiscNext

LEMMA CountsStep ==
  ASSUME DiscoveryAssumption, DiscInv, DiscNext
  PROVE  /\ spot' \in {"new", "seeds", "search", "walk", "look", "posts", "links", "ready", "done", "over"}
         /\ level' \in 0..Depth /\ tried' \in 0..MaxSeeds /\ news' \in 0..MaxNews
         /\ asked' \in [Sites -> Nat] /\ failed_' \in Nat
         /\ spot' \in {"seeds", "search", "walk", "look", "posts"} => task = "discover"
         /\ spot' = "links" => task = "enrich"
<1> DEFINE Goal ==
         /\ spot' \in {"new", "seeds", "search", "walk", "look", "posts", "links", "ready", "done", "over"}
         /\ level' \in 0..Depth /\ tried' \in 0..MaxSeeds /\ news' \in 0..MaxNews
         /\ asked' \in [Sites -> Nat] /\ failed_' \in Nat
         /\ spot' \in {"seeds", "search", "walk", "look", "posts"} => task = "discover"
         /\ spot' = "links" => task = "enrich"
<1>t. /\ spot \in {"new", "seeds", "search", "walk", "look", "posts", "links", "ready", "done", "over"}
      /\ Depth \in Nat /\ MaxSeeds \in Nat /\ MaxNews \in Nat
      /\ level \in 0..Depth /\ tried \in 0..MaxSeeds /\ news \in 0..MaxNews
      /\ asked \in [Sites -> Nat] /\ failed_ \in Nat
      /\ spot \in {"seeds", "search", "walk", "look", "posts"} => task = "discover"
      /\ spot = "links" => task = "enrich"
      /\ task \in {"discover", "enrich"}
  BY WalkNumbers DEF DiscInv, DiscType, DiscTypeOK
<1>1. CASE Opens_ BY <1>t, <1>1 DEF Opens_, walk, intake_
<1>2. CASE Seed BY <1>t, <1>2 DEF Seed, walk
<1>3. CASE Proceeds
  <2>1. /\ asked' = asked /\ tried' = tried /\ failed_' = failed_ /\ news' = news
        /\ level' = level \/ level' = 1
    BY <1>3 DEF Proceeds, intake_
  <2>2. spot' \in {"search", "walk", "look", "posts", "over", "ready"} /\ task = "discover"
    BY <1>t, <1>3 DEF Proceeds
  <2>3. level' \in 0..Depth
    <3>1. Depth \in Nat \ {0}
      BY DEF DiscoveryAssumption
    <3> QED BY <1>t, <2>1, <3>1
  <2> QED BY <1>t, <2>1, <2>2, <2>3
<1>4. CASE Search BY <1>t, <1>4 DEF Search, walk, intake_, Heard_
<1>5. CASE Recommend
  <2>1. /\ level' = level /\ tried' = tried /\ failed_' = failed_ /\ spot' = spot
        /\ asked' = [asked EXCEPT ![Head(frontier)] = @ + 1]
        /\ news' = news \/ (news < MaxNews /\ news' = news + 1)
    BY <1>5 DEF Recommend, intake_, Heard_
  <2>2. asked' \in [Sites -> Nat]
    <3>1. frontier \in Seq(Sites) /\ frontier # <<>>
      BY <1>5 DEF Recommend, DiscInv, DiscType
    <3>2. Head(frontier) \in Sites
      BY <3>1, OneLess
    <3> QED BY <1>t, <2>1, <3>2
  <2>3. news' \in 0..MaxNews
    BY <1>t, <2>1
  <2> QED BY <1>t, <2>1, <2>2, <2>3
<1>6. CASE NextLevel
  <2>1. /\ tried' = tried /\ failed_' = failed_ /\ news' = news /\ asked' = asked /\ spot = "walk"
        /\ (spot' = spot /\ level < Depth /\ level' = level + 1) \/ (spot' = "look" /\ level' = level)
    BY <1>6 DEF NextLevel, intake_
  <2> QED BY <1>t, <2>1
<1>7. CASE Mentioned BY <1>t, <1>7 DEF Mentioned, walk, Heard_
<1>8. CASE Link BY <1>t, <1>8 DEF Link, walk
<1>9. CASE LinksEnd BY <1>t, <1>9 DEF LinksEnd, walk, intake_
<1>10. CASE Deleted BY <1>t, <1>10 DEF Deleted, walk, intake_
<1>11. CASE Store_
  <2>1. UNCHANGED <<walk, intake_, news>> /\ spot' \in {"done", "over"}
    BY <1>11 DEF Store_
  <2> QED BY <1>t, <2>1 DEF walk, intake_
<1> QED BY <1>1, <1>2, <1>3, <1>4, <1>5, <1>6, <1>7, <1>8, <1>9, <1>10, <1>11 DEF DiscNext

LEMMA DiscTypeStep ==
  ASSUME DiscoveryAssumption, DiscInv, DiscNext
  PROVE  DiscType'
<1>1. task' = task /\ limit' = limit /\ nature' = nature /\ Titled' = Titled /\ Found' = Found
  BY DiscSteady
<1>2. {seeds', frontier', next_', links'} \subseteq Seq(Sites)
  BY SeqStep
<1>3. Range(seeds') \subseteq Sites /\ Range(frontier') \subseteq Sites /\ Range(next_') \subseteq Sites /\ Range(links') \subseteq Sites
  BY <1>2, SeqFacts
<1>4. candidates' \subseteq Titled /\ passed' \subseteq Titled /\ behind' \subseteq Titled /\ found_' \in Found
  BY SetsStep
<1>5. /\ found_'.items \subseteq Titled /\ found_'.there \in BOOLEAN
      /\ {found_'.raw, found_'.out, found_'.already} \subseteq Nat
  BY <1>4 DEF Found
<1>6. /\ spot' \in {"new", "seeds", "search", "walk", "look", "posts", "links", "ready", "done", "over"}
      /\ level' \in 0..Depth /\ tried' \in 0..MaxSeeds /\ news' \in 0..MaxNews
      /\ asked' \in [Sites -> Nat] /\ failed_' \in Nat
      /\ spot' \in {"seeds", "search", "walk", "look", "posts"} => task = "discover"
      /\ spot' = "links" => task = "enrich"
  BY CountsStep
<1>7. DiscTypeOK'
  BY <1>1, <1>3, <1>4, <1>5, <1>6 DEF DiscTypeOK
<1>8. /\ task \in {"discover", "enrich"} /\ limit \in Limits_
      /\ nature \in [Sites -> {"channel", "chat", "person"}]
      /\ task = "enrich" => \A p \in Sites : nature[p] = "channel"
  BY DEF DiscInv, DiscType
<1> QED BY <1>1, <1>2, <1>4, <1>6, <1>7, <1>8 DEF DiscType

LEMMA DiscStarts ==
  ASSUME DiscoveryAssumption, DiscInit
  PROVE  DiscInv
<1>1. /\ task \in {"discover", "enrich"} /\ limit \in Limits_
      /\ nature \in [Sites -> {"channel", "chat", "person"}]
      /\ task = "enrich" => \A p \in Sites : nature[p] = "channel"
      /\ spot = "new" /\ seeds = <<>> /\ candidates = {}
      /\ frontier = <<>> /\ next_ = <<>> /\ level = 0
      /\ links = <<>> /\ tried = 0 /\ failed_ = 0 /\ news = 0
      /\ found_ = None_ /\ asked = [p \in Sites |-> 0] /\ passed = {} /\ behind = {}
  BY DEF DiscInit
<1>2. Depth \in Nat /\ MaxSeeds \in Nat /\ MaxNews \in Nat /\ limit \in Nat
  BY <1>1 DEF DiscoveryAssumption
<1>3. <<>> \in Seq(Sites) /\ Len(<<>>) = 0
  OBVIOUS
<1> DEFINE none == <<>>
<1>4. none \in Seq(Sites) /\ Len(none) = 0
  BY <1>3
<1> HIDE DEF none
<1>5. Range(none) = {}
  <2>1. \A p \in Range(none) : \E i \in 1..0 : none[i] = p
    BY <1>4, SeqFacts
  <2> QED BY <2>1
<1>6. Range(seeds) = {} /\ Range(frontier) = {} /\ Range(next_) = {} /\ Range(links) = {}
  BY <1>1, <1>5 DEF none
<1>7. found_ \in Found
  BY <1>1 DEF None_, Found
<1>8. /\ found_.items = {} /\ found_.there \in BOOLEAN /\ {found_.raw, found_.out, found_.already} \subseteq Nat
  BY <1>1 DEF None_
<1>9. asked \in [Sites -> Nat] /\ \A p \in Sites : asked[p] = 0
  BY <1>1
<1>10. DiscTypeOK
  BY <1>1, <1>2, <1>6, <1>8, <1>9 DEF DiscTypeOK
<1>11. DiscType
  BY <1>1, <1>3, <1>7, <1>10 DEF DiscType
<1>12. WalkFits
  BY <1>1, <1>6, <1>9 DEF WalkFits
<1>13. Cardinality({}) = 0
  BY FS_EmptySet
<1>14. LinksFit /\ ResultsBounded /\ NothingPassedOver /\ LinksAccounted
  <2>1. Cardinality(Range(links)) = 0 /\ Len(links) = 0
    BY <1>1, <1>3, <1>6, <1>13
  <2> QED BY <1>1, <2>1, <1>6 DEF LinksFit, ResultsBounded, NothingPassedOver, LinksAccounted
<1>15. AskedOnce
  BY <1>9 DEF AskedOnce
<1> QED BY <1>11, <1>12, <1>14, <1>15 DEF DiscInv

LEMMA DiscKeeps ==
  ASSUME DiscoveryAssumption
  PROVE  DiscInv /\ [DiscNext]_discVars => DiscInv'
<1>1. ASSUME DiscInv, DiscNext PROVE DiscInv'
  <2>1. DiscType' BY <1>1, DiscTypeStep
  <2>2. WalkFits' /\ AskedOnce' BY <1>1, WalkStep
  <2>3. ResultsBounded' /\ NothingPassedOver' BY <1>1, BoundStep
  <2>4. LinksFit' /\ LinksAccounted' BY <1>1, LinksStep
  <2> QED BY <2>1, <2>2, <2>3, <2>4 DEF DiscInv
<1> QED BY <1>1, DiscUnchanged

LEMMA DiscHolds ==
  DiscInv => DiscTypeOK /\ ResultsBounded /\ AskedOnce /\ NothingPassedOver /\ LinksAccounted
BY DEF DiscInv, DiscType

\* discover_communities and enrich_communities give what they were asked for: there are never more
\* candidates than max_results unless the seeds are more, nobody is asked for recommendations
\* twice, what an answer named is a candidate or was cut off by the limit or a known one, and every
\* link is stored or counted; for every set of places, depth, limit and number of answers.
THEOREM ResultsAreHonest ==
  ASSUME DiscoveryAssumption
  PROVE  DiscSpec => [](DiscTypeOK /\ ResultsBounded /\ AskedOnce /\ NothingPassedOver /\ LinksAccounted)
<1>1. DiscInit => DiscInv
  BY DiscStarts
<1>2. DiscInv /\ [DiscNext]_discVars => DiscInv'
  BY DiscKeeps
<1>3. DiscInv => DiscTypeOK /\ ResultsBounded /\ AskedOnce /\ NothingPassedOver /\ LinksAccounted
  BY DiscHolds
<1> QED BY <1>1, <1>2, <1>3, PTL DEF DiscSpec
-----------------------------------------------------------------------------
(*************** Autopilot ***************)

\* Accounts the tick may still send into warming.
ToStart == {x.acct : x \in {y \in todo : y.kind = "start_warming"}}
             \cup {r.act.acct : r \in {q \in acting : q.act.kind = "start_warming"}}

\* The accounts it has sent and may still send are some that fit the quota.
StartsFit == \E S : /\ IsFiniteSet(S) /\ Cardinality(S) <= quota
                    /\ started \cup ToStart \subseteq S

\* Transitions that wait for the next commit: one at most, as each commits those before it.
Unbooked == Transitions(open \cup acting)
Owed == IF Unbooked = {} THEN 0 ELSE 1

JournalInv ==
    /\ \A r, q \in Unbooked : r = q
    /\ \A r, q \in acting : r = q
    /\ \A r \in acting : r.at = "found" => r.act.kind # "throttle"
    /\ booked + Owed <= made
    /\ made <= booked + breaks + Owed

AutopilotInv == AutopilotTypeOK /\ StartsFit /\ JournalInv
-----------------------------------------------------------------------------
\* A finite set of numbers has a largest one.
LEMMA LargestOf ==
  ASSUME NEW A \in SUBSET Nat, IsFiniteSet(A), A # {}
  PROVE  \E m \in A : \A n \in A : n <= m
<1> DEFINE From_(n) == {m \in A : m >= n}
           Tops == {From_(n) : n \in A}
<1>1. IsWellFoundedOn(StrictSubsetOrdering(A), FiniteSubsetsOf(A))
  BY FS_StrictSubsetOrderingWellFounded
<1>2. Tops \subseteq FiniteSubsetsOf(A)
  <2>1. \A D \in SUBSET A : D \in FiniteSubsetsOf(A)
    BY FS_Subset DEF FiniteSubsetsOf
  <2>2. \A n : From_(n) \in SUBSET A
    OBVIOUS
  <2> QED BY <2>1, <2>2
<1>3. Tops # {}
  OBVIOUS
<1>4. PICK l \in Tops : \A b \in Tops : ~ (<<b, l>> \in StrictSubsetOrdering(A))
  <2> HIDE DEF Tops
  <2> QED BY <1>1, <1>2, <1>3, WFMin
<1>5. PICK t \in A : l = From_(t)
  OBVIOUS
<1>6. ASSUME NEW u \in A, u > t PROVE FALSE
  <2>1. From_(u) \in Tops /\ From_(u) \in SUBSET A /\ From_(t) \in SUBSET A
    OBVIOUS
  <2>2. t \in From_(t) /\ t \notin From_(u)
    BY <1>6
  <2>3. \A m \in From_(u) : m \in From_(t)
    BY <1>6
  <2>4. From_(u) \subseteq From_(t) /\ From_(u) # From_(t)
    BY <2>2, <2>3
  <2> QED BY <1>4, <1>5, <2>1, <2>4 DEF StrictSubsetOrdering
<1> QED BY <1>6

\* The n first are n at most, and the n first are among the m first.
LEMMA LowestFew ==
  ASSUME NEW A \in SUBSET Nat, IsFiniteSet(A), NEW n \in Nat
  PROVE  /\ IsFiniteSet(Lowest(A, n)) /\ Cardinality(Lowest(A, n)) <= n
         /\ Lowest(A, n) \subseteq A
<1>1. Lowest(A, n) \in SUBSET A
  BY DEF Lowest
<1>2. IsFiniteSet(Lowest(A, n)) /\ Lowest(A, n) \in SUBSET Nat
  BY <1>1, FS_Subset
<1>3. CASE Lowest(A, n) = {}
  BY <1>3, FS_EmptySet
<1>4. CASE Lowest(A, n) # {}
  <2>1. PICK m \in Lowest(A, n) : \A a \in Lowest(A, n) : a <= m
    BY <1>2, <1>4, LargestOf
  <2> DEFINE B == {b \in A : b < m}
  <2>2. m \in A /\ Cardinality(B) < n
    BY <2>1 DEF Lowest
  <2>3. IsFiniteSet(B)
    BY FS_Subset
  <2>4. Lowest(A, n) \in SUBSET (B \cup {m})
    <3> SUFFICES ASSUME NEW a \in Lowest(A, n), a # m PROVE a \in B
      OBVIOUS
    <3>1. a \in A /\ a \in Nat /\ m \in Nat /\ a <= m
      BY <1>1, <2>1
    <3> QED BY <3>1
  <2>5. /\ IsFiniteSet(B \cup {m})
        /\ Cardinality(B \cup {m}) = IF m \in B THEN Cardinality(B) ELSE Cardinality(B) + 1
    BY <2>3, FS_AddElement
  <2>6. Cardinality(Lowest(A, n)) <= Cardinality(B \cup {m})
    BY <2>4, <2>5, FS_Subset
  <2>7. Cardinality(B) \in Nat /\ Cardinality(Lowest(A, n)) \in Nat
    BY <1>2, <2>3, FS_CardinalityType
  <2> QED BY <1>1, <1>2, <2>2, <2>5, <2>6, <2>7
<1> QED BY <1>1, <1>2, <1>3, <1>4

LEMMA LowestGrows ==
  ASSUME NEW A \in SUBSET Nat, IsFiniteSet(A), NEW n \in Nat, NEW m \in Nat, n <= m
  PROVE  Lowest(A, n) \subseteq Lowest(A, m)
<1> SUFFICES ASSUME NEW a \in Lowest(A, n) PROVE a \in Lowest(A, m)
  OBVIOUS
<1>1. a \in A /\ Cardinality({b \in A : b < a}) < n
  BY DEF Lowest
<1>2. IsFiniteSet({b \in A : b < a})
  BY FS_Subset
<1>3. Cardinality({b \in A : b < a}) \in Nat
  BY <1>2, FS_CardinalityType
<1>4. Cardinality({b \in A : b < a}) < m
  BY <1>1, <1>3
<1> QED BY <1>1, <1>4 DEF Lowest

\* The least of three numbers is one of them.
LEMMA LeastOfThree ==
  ASSUME NEW a \in Nat, NEW b \in Nat, NEW c \in Nat
  PROVE  Min({a, b, c}) \in Nat /\ Min({a, b, c}) <= c
<1>1. \E x \in {a, b, c} : \A y \in {a, b, c} : x =< y
  <2>1. CASE a <= b /\ a <= c
    BY <2>1
  <2>2. CASE b <= a /\ b <= c
    BY <2>2
  <2>3. CASE c <= a /\ c <= b
    BY <2>3
  <2> QED BY <2>1, <2>2, <2>3
<1>2. Min({a, b, c}) \in {a, b, c} /\ \A y \in {a, b, c} : Min({a, b, c}) =< y
  BY <1>1 DEF Min
<1> QED BY <1>2

LEMMA NeedBounded ==
  ASSUME AutopilotAssumption, AutopilotTypeOK, NEW g \in Goals_
  PROVE  Need(g) \in Nat /\ Need(g) <= MaxActions
<1>1. \A st : IsFiniteSet(In(st)) /\ In(st) \in SUBSET Fleet
  BY FS_Subset DEF In, AutopilotAssumption
<1>2. IsFiniteSet(In("pool") \cup In("warming"))
  BY <1>1, FS_Union
<1>3. \A st : Cardinality(In(st)) \in Nat
  BY <1>1, FS_CardinalityType
<1>4. Cardinality(In("pool") \cup In("warming")) \in Nat
  BY <1>2, FS_CardinalityType
<1>5. GoalRows[g].target \in Int /\ MaxActions \in Nat
  BY DEF AutopilotAssumption, Goals_
<1>6. Deficit(g) \in Int
  <2>1. CASE GoalRows[g].type = "warmup_pipeline"
    BY <1>3, <1>5, <2>1 DEF Deficit
  <2>2. CASE GoalRows[g].type # "warmup_pipeline"
    BY <1>4, <1>5, <2>2 DEF Deficit
  <2> QED BY <2>1, <2>2
<1>7. CASE GoalRows[g].type = "keep_low_risk" \/ Deficit(g) <= 0
  BY <1>5, <1>7 DEF Need
<1>8. CASE ~(GoalRows[g].type = "keep_low_risk" \/ Deficit(g) <= 0)
  <2>1. Need(g) = Min({Deficit(g), Cardinality(In("created")), MaxActions})
    BY <1>8 DEF Need
  <2>2. Deficit(g) \in Nat /\ Cardinality(In("created")) \in Nat
    BY <1>3, <1>6, <1>8
  <2> QED BY <1>5, <2>1, <2>2, LeastOfThree
<1> QED BY <1>7, <1>8

\* The quota of a tick is not less than what any of its goals needs.
LEMMA QuotaCovers ==
  ASSUME AutopilotAssumption, AutopilotTypeOK
  PROVE  LET q == Max({0} \cup {Need(g) : g \in enabled}) IN
         q \in Nat /\ \A g \in enabled : Need(g) <= q
<1> DEFINE Q == {0} \cup {Need(g) : g \in enabled}
<1>1. \A g \in enabled : Need(g) \in Nat /\ Need(g) <= MaxActions
  BY NeedBounded DEF AutopilotTypeOK
<1>2. MaxActions \in Nat
  BY DEF AutopilotAssumption
<1>3. Q \in SUBSET Nat /\ \A n \in Q : n <= MaxActions
  BY <1>1, <1>2
<1>4. IsFiniteSet(Q) /\ Q # {}
  BY <1>2, <1>3, FS_BoundedSetOfNaturals
<1>5. PICK m \in Q : \A n \in Q : n <= m
  <2> HIDE DEF Q
  <2> QED BY <1>3, <1>4, LargestOf
<1>6. \A n \in Q : m >= n
  BY <1>3, <1>5
<1>7. Max(Q) \in Q /\ \A n \in Q : Max(Q) >= n
  <2> HIDE DEF Q
  <2> QED BY <1>6 DEF Max
<1>8. \A g \in enabled : Need(g) \in Q
  OBVIOUS
<1>9. Max(Q) \in Nat /\ \A g \in enabled : Need(g) <= Max(Q)
  <2> HIDE DEF Q
  <2> QED BY <1>3, <1>7, <1>8
<1> QED BY <1>9

\* What a goal plans: actions on the fleet, the starts among them on its first accounts.
LEMMA PlansFit ==
  ASSUME NEW g \in Goals_, NEW P \in GoalPlans(g), NEW x \in P
  PROVE  x \in Actions /\ (x.kind = "start_warming" => x.acct \in Starts(g))
<1>0. \A A \in SUBSET Fleet : \A k \in Kinds : \A y \in Do(g, A, k) :
        y \in Actions /\ y.kind = k /\ y.acct \in A
  BY DEF Do, Actions
<1>1. CASE GoalRows[g].type # "keep_low_risk"
  <2>1. P = Do(g, Starts(g), "start_warming")
    BY <1>1 DEF GoalPlans
  <2>2. Starts(g) \in SUBSET Fleet
    BY DEF Starts, Lowest, In
  <2>3. "start_warming" \in Kinds
    BY DEF Kinds
  <2> QED BY <1>0, <2>1, <2>2, <2>3
<1>2. CASE GoalRows[g].type = "keep_low_risk" /\ ~TooRisky(g)
  BY <1>2 DEF GoalPlans
<1>3. CASE GoalRows[g].type = "keep_low_risk" /\ TooRisky(g)
  <2>1. P \in RiskPlans(g)
    BY <1>3 DEF GoalPlans
  <2>2. PICK C \in SUBSET Fleet, H \in SUBSET Fleet :
            P = Do(g, C, "retire_risky") \cup Do(g, H, "throttle")
    BY <2>1 DEF RiskPlans, Some
  <2>3. "retire_risky" \in Kinds /\ "throttle" \in Kinds
    BY DEF Kinds
  <2>4. x \in Do(g, C, "retire_risky") \/ x \in Do(g, H, "throttle")
    BY <2>2
  <2>5. x \in Actions /\ x.kind \in {"retire_risky", "throttle"}
    BY <1>0, <2>3, <2>4
  <2> QED BY <2>5
<1> QED BY <1>1, <1>2, <1>3
-----------------------------------------------------------------------------
LEMMA PilotActions ==
  ASSUME AutopilotTypeOK, AutopilotNext
  PROVE
    \/ TickStarts \/ TickEnds \/ TickDies \/ (\E x \in Actions : Look(x)) \/ (\E x \in Actions : Make(x))
    \/ (\E r \in acting : Log(r)) \/ (\E a \in Fleet : \E to \in Statuses : Elsewhere(a, to))
    \/ (\E a \in Fleet : \E r \in {0, HighRisk, CriticalRisk} : Predict(a, r))
    \/ (\E g \in Goals_ : ChangeGoal(g))
<1>1. todo \cup {r.act : r \in acting} \subseteq Actions
  BY DEF AutopilotTypeOK, Deeds
<1> QED
  BY <1>1 DEF AutopilotNext

\* The planned actions of a tick.
LEMMA TickPlans ==
  ASSUME AutopilotAssumption, AutopilotTypeOK, TickStarts
  PROVE  /\ todo' \subseteq Actions
         /\ \A x \in todo' : x.kind = "start_warming" => x.acct \in Lowest(In("created"), quota')
         /\ quota' \in Nat
<1>1. PICK pick \in [enabled -> UNION {GoalPlans(g) : g \in enabled}] :
          /\ \A g \in enabled : pick[g] \in GoalPlans(g)
          /\ todo' \in OnePerAccount(UNION {pick[g] : g \in enabled})
  BY DEF TickStarts
<1>2. quota' \in Nat /\ \A g \in enabled : Need(g) <= quota' /\ Need(g) \in Nat
  <2>1. quota' = Max({0} \cup {Need(g) : g \in enabled})
    BY DEF TickStarts
  <2>2. enabled \subseteq Goals_
    BY DEF AutopilotTypeOK
  <2> QED BY <2>1, <2>2, QuotaCovers, NeedBounded
<1>3. todo' \subseteq UNION {pick[g] : g \in enabled}
  BY <1>1 DEF OnePerAccount
<1>4. ASSUME NEW x \in todo'
      PROVE  x \in Actions /\ (x.kind = "start_warming" => x.acct \in Lowest(In("created"), quota'))
  <2>1. PICK g \in enabled : x \in pick[g]
    BY <1>3
  <2>2. g \in Goals_ /\ pick[g] \in GoalPlans(g)
    BY <1>1 DEF AutopilotTypeOK
  <2>3. x \in Actions /\ (x.kind = "start_warming" => x.acct \in Starts(g))
    BY <2>1, <2>2, PlansFit
  <2>4. In("created") \in SUBSET Nat /\ IsFiniteSet(In("created"))
    BY FS_Subset DEF In, AutopilotAssumption
  <2>5. Starts(g) \subseteq Lowest(In("created"), quota')
    BY <1>2, <2>2, <2>4, LowestGrows DEF Starts
  <2> QED BY <2>3, <2>5
<1> QED BY <1>2, <1>4

LEMMA OneOrNone == /\ Cardinality({}) <= 1
                   /\ \A x : Cardinality({x}) <= 1
BY FS_EmptySet, FS_Singleton

LEMMA PendingMade ==
  ASSUME AutopilotTypeOK, JournalInv
  PROVE  /\ Transitions(open) \subseteq Unbooked /\ IsFiniteSet(Transitions(open))
         /\ Cardinality(Transitions(open)) = IF Transitions(open) = {} THEN 0 ELSE 1
         /\ acting = {} \/ (\A r \in acting : r.at # "made") => Transitions(open) = Unbooked
<1>1. Transitions(open) \subseteq Unbooked
  BY DEF Transitions, Unbooked
<1>2. CASE Transitions(open) = {}
  BY <1>1, <1>2, FS_EmptySet DEF Transitions, Unbooked
<1>3. CASE Transitions(open) # {}
  <2>1. PICK r \in Transitions(open) : TRUE
    BY <1>3
  <2>2. Transitions(open) = {r}
    BY <1>1, <2>1 DEF JournalInv
  <2> QED BY <1>1, <2>2, FS_Singleton DEF Transitions, Unbooked
<1> QED BY <1>2, <1>3

LEMMA AutopilotTypeKeeps ==
  ASSUME AutopilotAssumption, AutopilotTypeOK, JournalInv, AutopilotNext PROVE AutopilotTypeOK'
<1>a. MaxTouches \in Nat /\ booked \in Nat /\ made \in Nat /\ breaks \in Nat /\ touches \in 0..MaxTouches
  BY DEF AutopilotTypeOK, AutopilotAssumption
<1>b. Cardinality(Transitions(open)) \in Nat
  BY PendingMade
<1>c. Throttled(open) \subseteq Fleet
  <2>1. \A r \in open : r.act.acct \in Fleet
    BY DEF AutopilotTypeOK, Deeds, Actions
  <2> QED BY <2>1 DEF Throttled
<1>d. ASSUME Breaks_ PROVE /\ busy' = FALSE /\ todo' \cup acting' \cup open' = {} /\ Cardinality(acting') <= 1
                           /\ todo' \subseteq Actions /\ acting' \subseteq Deeds /\ open' \subseteq Deeds
                           /\ breaks' \in Nat /\ UNCHANGED <<slow, made, booked>>
  <2>1. busy' = FALSE /\ todo' = {} /\ acting' = {} /\ open' = {} /\ breaks' \in Nat
    BY <1>a, <1>d DEF Breaks_
  <2>2. Cardinality(acting') <= 1
    BY <2>1, OneOrNone
  <2> QED BY <1>d, <2>1, <2>2 DEF Breaks_
<1>e. ASSUME Commit PROVE open' = {} /\ booked' \in Nat /\ slow' \subseteq Fleet
  BY <1>a, <1>b, <1>c, <1>e DEF Commit, AutopilotTypeOK
<1>1. CASE TickStarts
  <2>1. /\ busy' = TRUE /\ started' = {}
        /\ UNCHANGED <<status, risk, enabled, dropped, slow, acting, open, made, booked, touches, breaks>>
    BY <1>1 DEF TickStarts, rows
  <2>2. todo' \subseteq Actions /\ quota' \in Nat
    BY <1>1, TickPlans
  <2> QED BY <2>1, <2>2 DEF AutopilotTypeOK
<1>2. CASE TickEnds
  <2>1. /\ busy' = FALSE /\ todo = {} /\ acting = {} /\ Commit
        /\ UNCHANGED <<status, risk, enabled, dropped, todo, acting, quota, started, made, touches, breaks>>
    BY <1>2 DEF TickEnds, rows
  <2> QED BY <1>e, <2>1 DEF AutopilotTypeOK
<1>3. CASE TickDies
  <2>1. Breaks_ /\ UNCHANGED <<status, risk, enabled, dropped, quota, started, touches>>
    BY <1>3 DEF TickDies, rows
  <2> QED BY <1>d, <2>1 DEF AutopilotTypeOK
<1>4. CASE \E x \in Actions : Look(x)
  <2> PICK x \in Actions : Look(x)
    BY <1>4
  <2>1. /\ busy /\ x \in todo /\ todo' = todo \ {x}
        /\ UNCHANGED <<status, risk, enabled, dropped, slow, open, busy, quota, started, made, booked,
                       touches, breaks>>
    BY DEF Look, rows
  <2>2. PICK p \in {"found", "made", "refused"} : acting' = {[act |-> x, at |-> p]}
    <3>1. CASE x.kind = "throttle" /\ status[x.acct] = "gone"
      BY <3>1 DEF Look
    <3>2. CASE x.kind = "throttle" /\ status[x.acct] # "gone"
      BY <3>2 DEF Look
    <3>3. CASE x.kind # "throttle" /\ status[x.acct] \in From(x.kind)
      BY <3>3 DEF Look
    <3>4. CASE x.kind # "throttle" /\ status[x.acct] \notin From(x.kind)
      BY <3>4 DEF Look
    <3> QED BY <3>1, <3>2, <3>3, <3>4
  <2>3. acting' \subseteq Deeds
    BY <2>2 DEF Deeds
  <2>4. Cardinality(acting') <= 1
    BY <2>2, OneOrNone
  <2> QED BY <2>1, <2>3, <2>4 DEF AutopilotTypeOK
<1>5. CASE \E x \in Actions : Make(x)
  <2> PICK x \in Actions : Make(x)
    BY <1>5
  <2>1. busy /\ UNCHANGED <<risk, enabled, dropped, quota, touches>>
    BY DEF Make
  <2>2. CASE status[x.acct] = "gone"
    <3>1. Breaks_ /\ UNCHANGED <<status, started>>
      BY <2>2 DEF Make
    <3> QED BY <1>d, <2>1, <3>1 DEF AutopilotTypeOK
  <2>3. CASE status[x.acct] # "gone"
    <3>1. /\ status' = [status EXCEPT ![x.acct] = Becomes(x.kind)]
          /\ started' = IF x.kind = "start_warming" THEN started \cup {x.acct} ELSE started
          /\ made' = made + 1 /\ acting' = {[act |-> x, at |-> "made"]} /\ Commit
          /\ UNCHANGED <<todo, busy, breaks>>
      BY <2>3 DEF Make
    <3>2. x.acct \in Fleet /\ Becomes(x.kind) \in Statuses
      BY DEF Actions, Becomes, Statuses
    <3>3. status' \in [Fleet -> Statuses] /\ started' \subseteq Fleet
      BY <3>1, <3>2 DEF AutopilotTypeOK
    <3>4. acting' \subseteq Deeds /\ Cardinality(acting') <= 1
      BY <3>1, OneOrNone DEF Deeds
    <3> QED BY <1>a, <1>e, <2>1, <3>1, <3>3, <3>4 DEF AutopilotTypeOK
  <2> QED BY <2>2, <2>3
<1>6. CASE \E r \in acting : Log(r)
  <2> PICK r \in acting : Log(r)
    BY <1>6
  <2>1. busy /\ UNCHANGED <<status, risk, enabled, dropped, quota, started, touches>>
    BY DEF Log, rows
  <2>2. CASE Breaks_
    BY <1>d, <2>1, <2>2 DEF AutopilotTypeOK
  <2>3. CASE ~Breaks_
    <3>1. open' = open \cup {r} /\ acting' = {} /\ UNCHANGED <<todo, busy, breaks, slow, made, booked>>
      BY <2>3 DEF Log
    <3>2. open' \subseteq Deeds /\ Cardinality(acting') <= 1 /\ acting' \subseteq Deeds
      BY <3>1, OneOrNone DEF AutopilotTypeOK
    <3> QED BY <2>1, <3>1, <3>2 DEF AutopilotTypeOK
  <2> QED BY <2>2, <2>3
<1>7. CASE \E a \in Fleet : \E to \in Statuses : Elsewhere(a, to)
  <2> PICK a \in Fleet, to \in Statuses : Elsewhere(a, to)
    BY <1>7
  <2>1. /\ touches < MaxTouches /\ touches' = touches + 1 /\ status' = [status EXCEPT ![a] = to]
        /\ UNCHANGED <<risk, slow, enabled, dropped, todo, acting, open, busy, quota, started, made,
                       booked, breaks>>
    BY DEF Elsewhere, Touch
  <2> QED BY <1>a, <2>1 DEF AutopilotTypeOK
<1>8. CASE \E a \in Fleet : \E r \in {0, HighRisk, CriticalRisk} : Predict(a, r)
  <2> PICK a \in Fleet, r \in {0, HighRisk, CriticalRisk} : Predict(a, r)
    BY <1>8
  <2>1. /\ touches < MaxTouches /\ touches' = touches + 1 /\ risk' = [risk EXCEPT ![a] = r]
        /\ UNCHANGED <<status, slow, enabled, dropped, todo, acting, open, busy, quota, started, made,
                       booked, breaks>>
    BY DEF Predict, Touch
  <2> QED BY <1>a, <2>1 DEF AutopilotTypeOK
<1>9. CASE \E g \in Goals_ : ChangeGoal(g)
  <2> PICK g \in Goals_ : ChangeGoal(g)
    BY <1>9
  <2>1. /\ touches < MaxTouches /\ touches' = touches + 1
        /\ UNCHANGED <<status, risk, slow, todo, acting, open, busy, quota, started, made, booked, breaks>>
    BY DEF ChangeGoal, Touch
  <2>2. enabled' \subseteq Goals_ \ dropped' /\ dropped' \subseteq Goals_
    <3>1. CASE g \notin dropped /\ dropped' = dropped /\ enabled' = SymDiff(enabled, {g})
      BY <3>1 DEF SymDiff, AutopilotTypeOK
    <3>2. CASE dropped' = dropped \cup {g} /\ enabled' = enabled \ {g}
      BY <3>2 DEF AutopilotTypeOK
    <3> QED BY <3>1, <3>2 DEF ChangeGoal
  <2> QED BY <1>a, <2>1, <2>2 DEF AutopilotTypeOK
<1> QED
  BY <1>1, <1>2, <1>3, <1>4, <1>5, <1>6, <1>7, <1>8, <1>9, PilotActions

LEMMA StartsKeep ==
  ASSUME AutopilotAssumption, AutopilotTypeOK, StartsFit, AutopilotNext PROVE StartsFit'
<1>a. ASSUME quota' = quota, started' \cup ToStart' \subseteq started \cup ToStart PROVE StartsFit'
  <2>1. PICK S : IsFiniteSet(S) /\ Cardinality(S) <= quota /\ started \cup ToStart \subseteq S
    BY DEF StartsFit
  <2> QED BY <1>a, <2>1 DEF StartsFit
<1>b. ASSUME Breaks_ PROVE ToStart' = {}
  BY <1>b DEF Breaks_, ToStart
<1>1. CASE TickStarts
  <2>1. todo' \subseteq Actions /\ quota' \in Nat
        /\ \A x \in todo' : x.kind = "start_warming" => x.acct \in Lowest(In("created"), quota')
    BY <1>1, TickPlans
  <2>2. acting' = {} /\ started' = {}
    BY <1>1 DEF TickStarts, AutopilotTypeOK
  <2>3. started' \cup ToStart' \subseteq Lowest(In("created"), quota')
    BY <2>1, <2>2 DEF ToStart
  <2>4. In("created") \in SUBSET Nat /\ IsFiniteSet(In("created"))
    BY FS_Subset DEF In, AutopilotAssumption
  <2>5. IsFiniteSet(Lowest(In("created"), quota')) /\ Cardinality(Lowest(In("created"), quota')) <= quota'
    BY <2>1, <2>4, LowestFew
  <2> QED BY <2>3, <2>5 DEF StartsFit
<1>2. CASE TickEnds
  BY <1>2, <1>a DEF TickEnds, ToStart
<1>3. CASE TickDies
  BY <1>3, <1>a, <1>b DEF TickDies
<1>4. CASE \E x \in Actions : Look(x)
  <2> PICK x \in Actions : Look(x)
    BY <1>4
  <2>1. x \in todo /\ todo' = todo \ {x} /\ UNCHANGED <<quota, started>>
    BY DEF Look
  <2>2. \A r \in acting' : r.act = x
    BY DEF Look
  <2> QED BY <1>a, <2>1, <2>2 DEF ToStart
<1>5. CASE \E x \in Actions : Make(x)
  <2> PICK x \in Actions : Make(x)
    BY <1>5
  <2>1. [act |-> x, at |-> "found"] \in acting /\ UNCHANGED quota
    BY DEF Make
  <2>2. CASE status[x.acct] = "gone"
    BY <1>a, <1>b, <2>1, <2>2 DEF Make
  <2>3. CASE status[x.acct] # "gone"
    <3>1. /\ started' = IF x.kind = "start_warming" THEN started \cup {x.acct} ELSE started
          /\ acting' = {[act |-> x, at |-> "made"]} /\ UNCHANGED todo
      BY <2>3 DEF Make
    <3>2. x.kind = "start_warming" => x.acct \in ToStart
      BY <2>1 DEF ToStart
    <3>3. started' \subseteq started \cup ToStart
      BY <3>1, <3>2
    <3>4. ToStart' \subseteq ToStart
      <4>1. \A r \in acting' : r.act = x
        BY <3>1
      <4> QED BY <3>1, <3>2, <4>1 DEF ToStart
    <3> QED BY <1>a, <2>1, <3>3, <3>4
  <2> QED BY <2>2, <2>3
<1>6. CASE \E r \in acting : Log(r)
  <2> PICK r \in acting : Log(r)
    BY <1>6
  <2>1. UNCHANGED <<quota, started>>
    BY DEF Log
  <2>2. ToStart' \subseteq ToStart
    <3>1. CASE Breaks_
      BY <1>b, <3>1
    <3>2. CASE ~Breaks_
      <4>1. acting' = {} /\ UNCHANGED todo
        BY <3>2 DEF Log
      <4> QED BY <4>1 DEF ToStart
    <3> QED BY <3>1, <3>2
  <2> QED BY <1>a, <2>1, <2>2
<1>7. CASE \E a \in Fleet : \E to \in Statuses : Elsewhere(a, to)
  BY <1>7, <1>a DEF Elsewhere, ToStart
<1>8. CASE \E a \in Fleet : \E r \in {0, HighRisk, CriticalRisk} : Predict(a, r)
  BY <1>8, <1>a DEF Predict, ToStart
<1>9. CASE \E g \in Goals_ : ChangeGoal(g)
  BY <1>9, <1>a DEF ChangeGoal, ToStart
<1> QED
  BY <1>1, <1>2, <1>3, <1>4, <1>5, <1>6, <1>7, <1>8, <1>9, PilotActions

LEMMA JournalKeeps ==
  ASSUME AutopilotAssumption, AutopilotTypeOK, JournalInv, AutopilotNext PROVE JournalInv'
<1>t. made \in Nat /\ booked \in Nat /\ breaks \in Nat
  BY DEF AutopilotTypeOK
<1>a. ASSUME UNCHANGED <<acting, open, made, booked, breaks>> PROVE JournalInv'
  BY <1>a DEF JournalInv, Unbooked, Owed, Transitions
<1>o. Owed \in {0, 1}
  BY DEF Owed
<1>b. ASSUME Breaks_ PROVE JournalInv'
  <2>1. acting' = {} /\ open' = {} /\ breaks' = breaks + 1 /\ UNCHANGED <<made, booked>>
    BY <1>b DEF Breaks_
  <2>2. Unbooked' = {} /\ Owed' = 0
    BY <2>1 DEF Unbooked, Owed, Transitions
  <2>3. booked + Owed <= made /\ made <= booked + breaks + Owed
    BY DEF JournalInv
  <2>4. booked' + Owed' <= made' /\ made' <= booked' + breaks' + Owed'
    BY <1>t, <1>o, <2>1, <2>2, <2>3
  <2> QED BY <2>1, <2>2, <2>4 DEF JournalInv
<1>1. CASE TickStarts
  BY <1>1, <1>a DEF TickStarts
<1>2. CASE TickEnds
  <2>1. /\ acting = {} /\ acting' = {} /\ open' = {} /\ UNCHANGED <<made, breaks>>
        /\ booked' = booked + Cardinality(Transitions(open))
    BY <1>2 DEF TickEnds, Commit
  <2>2. Unbooked' = {} /\ Owed' = 0
    BY <2>1 DEF Unbooked, Owed, Transitions
  <2>3. Cardinality(Transitions(open)) = Owed
    BY <2>1, PendingMade DEF Owed
  <2>4. booked + Owed <= made /\ made <= booked + breaks + Owed
    BY DEF JournalInv
  <2>5. booked' + Owed' <= made' /\ made' <= booked' + breaks' + Owed'
    BY <1>t, <1>o, <2>1, <2>2, <2>3, <2>4
  <2> QED BY <2>1, <2>2, <2>5 DEF JournalInv
<1>3. CASE TickDies
  BY <1>3, <1>b DEF TickDies
<1>4. CASE \E x \in Actions : Look(x)
  <2> PICK x \in Actions : Look(x)
    BY <1>4
  <2>1. acting = {} /\ UNCHANGED <<open, made, booked, breaks>>
    BY DEF Look
  <2>2. /\ \A r, q \in acting' : r = q
        /\ \A r \in acting' : r.act = x
        /\ \A r \in acting' : r.at = "found" => x.kind # "throttle"
        /\ \A r \in acting' : r.at = "made" => x.kind = "throttle"
    BY DEF Look
  <2>3. Unbooked' = Unbooked
    BY <2>1, <2>2 DEF Unbooked, Transitions
  <2> QED BY <2>1, <2>2, <2>3 DEF JournalInv, Owed
<1>5. CASE \E x \in Actions : Make(x)
  <2> PICK x \in Actions : Make(x)
    BY <1>5
  <2>1. [act |-> x, at |-> "found"] \in acting
    BY DEF Make
  <2>2. CASE status[x.acct] = "gone"
    BY <1>b, <2>2 DEF Make
  <2>3. CASE status[x.acct] # "gone"
    <3>1. /\ made' = made + 1 /\ acting' = {[act |-> x, at |-> "made"]} /\ open' = {}
          /\ booked' = booked + Cardinality(Transitions(open)) /\ UNCHANGED breaks
      BY <2>3 DEF Make, Commit
    <3>2. \A r \in acting : r = [act |-> x, at |-> "found"]
      BY <2>1 DEF JournalInv
    <3>3. x.kind # "throttle"
      BY <2>1 DEF JournalInv
    <3>4. Cardinality(Transitions(open)) = Owed
      BY <3>2, PendingMade DEF Owed
    <3>5. Unbooked' = {[act |-> x, at |-> "made"]}
      BY <3>1, <3>3 DEF Unbooked, Transitions
    <3>6. Owed' = 1
      BY <3>5 DEF Owed
    <3>7. booked + Owed <= made /\ made <= booked + breaks + Owed
      BY DEF JournalInv
    <3>8. booked' + Owed' <= made' /\ made' <= booked' + breaks' + Owed'
      BY <1>t, <1>o, <3>1, <3>4, <3>6, <3>7
    <3> QED BY <3>1, <3>5, <3>8 DEF JournalInv
  <2> QED BY <2>2, <2>3
<1>6. CASE \E r \in acting : Log(r)
  <2> PICK r \in acting : Log(r)
    BY <1>6
  <2>1. CASE Breaks_
    BY <1>b, <2>1
  <2>2. CASE ~Breaks_
    <3>1. open' = open \cup {r} /\ acting' = {} /\ UNCHANGED <<breaks, made, booked>>
      BY <2>2 DEF Log
    <3>2. open' \cup acting' = open \cup acting
      BY <3>1 DEF JournalInv
    <3>3. Unbooked' = Unbooked
      BY <3>2 DEF Unbooked, Transitions
    <3> QED BY <3>1, <3>3 DEF JournalInv, Owed
  <2> QED BY <2>1, <2>2
<1>7. CASE \E a \in Fleet : \E to \in Statuses : Elsewhere(a, to)
  BY <1>7, <1>a DEF Elsewhere
<1>8. CASE \E a \in Fleet : \E r \in {0, HighRisk, CriticalRisk} : Predict(a, r)
  BY <1>8, <1>a DEF Predict
<1>9. CASE \E g \in Goals_ : ChangeGoal(g)
  BY <1>9, <1>a DEF ChangeGoal
<1> QED
  BY <1>1, <1>2, <1>3, <1>4, <1>5, <1>6, <1>7, <1>8, <1>9, PilotActions

LEMMA PilotStart == ASSUME AutopilotAssumption PROVE AutopilotInit => AutopilotInv
<1> SUFFICES ASSUME AutopilotInit PROVE AutopilotInv
  OBVIOUS
<1>1. AutopilotTypeOK
  <2>1. todo = {} /\ acting = {} /\ open = {} /\ busy = FALSE /\ slow = {} /\ started = {}
    BY DEF AutopilotInit
  <2>2. Cardinality(acting) <= 1
    BY <2>1, OneOrNone
  <2>3. status \in [Fleet -> Statuses] /\ risk \in [Fleet -> {0, HighRisk, CriticalRisk}]
    BY DEF AutopilotInit, Statuses
  <2>4. enabled \subseteq Goals_ \ dropped /\ dropped \subseteq Goals_
    BY DEF AutopilotInit
  <2>5. quota = 0 /\ made = 0 /\ booked = 0 /\ touches = 0 /\ breaks = 0 /\ MaxTouches \in Nat
    BY DEF AutopilotInit, AutopilotAssumption
  <2>6. touches \in 0..MaxTouches
    BY <2>5
  <2> QED BY <2>1, <2>2, <2>3, <2>4, <2>5, <2>6 DEF AutopilotTypeOK
<1>2. StartsFit
  <2>1. started \cup ToStart \subseteq {} /\ quota = 0
    BY DEF AutopilotInit, ToStart
  <2>2. IsFiniteSet({}) /\ Cardinality({}) <= quota
    BY <2>1, FS_EmptySet
  <2> QED BY <2>1, <2>2 DEF StartsFit
<1>3. JournalInv
  <2>1. Unbooked = {} /\ Owed = 0 /\ acting = {} /\ made = 0 /\ booked = 0 /\ breaks = 0
    BY DEF AutopilotInit, Unbooked, Owed, Transitions
  <2> QED BY <2>1 DEF JournalInv
<1> QED BY <1>1, <1>2, <1>3 DEF AutopilotInv

LEMMA PilotKeeps ==
  ASSUME AutopilotAssumption PROVE AutopilotInv /\ [AutopilotNext]_autopilotVars => AutopilotInv'
<1> SUFFICES ASSUME AutopilotInv, [AutopilotNext]_autopilotVars PROVE AutopilotInv'
  OBVIOUS
<1>1. CASE AutopilotNext
  BY <1>1, AutopilotTypeKeeps, StartsKeep, JournalKeeps DEF AutopilotInv
<1>2. CASE UNCHANGED autopilotVars
  BY <1>2 DEF autopilotVars, AutopilotInv, AutopilotTypeOK, StartsFit, ToStart, JournalInv, Unbooked,
     Owed, Transitions
<1> QED BY <1>1, <1>2

LEMMA PilotHolds ==
  ASSUME AutopilotAssumption PROVE AutopilotInv => AutopilotTypeOK /\ StartsBounded /\ JournalComplete
<1> SUFFICES ASSUME AutopilotInv PROVE AutopilotTypeOK /\ StartsBounded /\ JournalComplete
  OBVIOUS
<1>1. AutopilotTypeOK
  BY DEF AutopilotInv
<1>2. StartsBounded
  <2>1. PICK S : IsFiniteSet(S) /\ Cardinality(S) <= quota /\ started \in SUBSET S
    BY DEF AutopilotInv, StartsFit
  <2>2. Cardinality(started) <= Cardinality(S) /\ IsFiniteSet(started)
    BY <2>1, FS_Subset
  <2>3. Cardinality(started) \in Nat /\ Cardinality(S) \in Nat /\ quota \in Nat
    BY <1>1, <2>1, <2>2, FS_CardinalityType DEF AutopilotTypeOK
  <2>4. Cardinality(started) <= quota
    BY <2>1, <2>2, <2>3
  <2> QED BY <2>4 DEF StartsBounded
<1>3. JournalComplete
  <2>1. made \in Nat /\ booked \in Nat /\ breaks \in Nat
    BY <1>1 DEF AutopilotTypeOK
  <2>2. booked + Owed <= made /\ made <= booked + breaks + Owed /\ Owed \in {0, 1}
    BY DEF AutopilotInv, JournalInv, Owed
  <2>3. ~busy => Owed = 0
    BY <1>1 DEF AutopilotTypeOK, Owed, Unbooked, Transitions
  <2>4. booked <= made
    BY <2>1, <2>2
  <2>5. made - booked <= breaks + (IF busy THEN 1 ELSE 0)
    <3>1. CASE busy
      BY <2>1, <2>2, <3>1
    <3>2. CASE ~busy
      BY <2>1, <2>2, <2>3, <3>2
    <3> QED BY <3>1, <3>2
  <2> QED BY <2>4, <2>5 DEF JournalComplete
<1> QED BY <1>1, <1>2, <1>3

\* core/autopilot/planner.py, worker/tasks/autopilot.py: for any fleet, goals and users, and
\* whatever happens to accounts and goals meanwhile, a tick sends no more accounts into warming
\* than its neediest goal lacked, and one that breaks off owes the journal one transition.
THEOREM TicksAreHonest ==
  ASSUME AutopilotAssumption
  PROVE  AutopilotSpec => [](AutopilotTypeOK /\ StartsBounded /\ JournalComplete)
<1>1. AutopilotInit => AutopilotInv BY PilotStart
<1>2. AutopilotInv /\ [AutopilotNext]_autopilotVars => AutopilotInv' BY PilotKeeps
<1>3. AutopilotInv => AutopilotTypeOK /\ StartsBounded /\ JournalComplete BY PilotHolds
<1> QED BY <1>1, <1>2, <1>3, PTL DEF AutopilotSpec
=============================================================================
