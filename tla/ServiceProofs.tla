--------------------------- MODULE ServiceProofs ---------------------------
(***************************************************************************)
(* Proofs about what the API, its streams and the services beside it keep, *)
(* for any number of accounts, users, managers, promotions, channels,      *)
(* requests and workers.  Each component has an invariant that its steps   *)
(* keep (MirrorInv, HubInv, PostInv, DeskInv, IntakeInv, SalesInv,         *)
(* WarmInv, TriggerInv) and that implies what its module promises: the     *)
(* conjuncts say, for each place a request can be at, what it has read or  *)
(* done so far and what the shared state then owes it.                     *)
(***************************************************************************)
EXTENDS ProfileMirror, EventHub, PostListener, SupportDesk, Intake, Sales, Warming, Triggers,
        FiniteSetTheorems, TLAPS

-----------------------------------------------------------------------------
(* ProfileMirror *)
Kinds_ == Appliers \cup {"nothing", "sync", "set_2fa", "request", "confirm", "scenario"}
Places_ == {"free", "name", "nick", "photo", "write", "names", "picture", "read", "edit", "ask",
            "pend", "code"}
Found == UNION {[D -> Field] : D \in SUBSET Fields}
Errand == [does: Kinds_, at: Places_, gives: SUBSET (Looks \cup {"typed", "right"}), value: Field,
           found: Found, mixed: SUBSET Fields]

\* What an errand has found at each of its places.
FindsInTurn(r) ==
    /\ DOMAIN r.found \cup r.mixed \subseteq Handles(r)
    /\ r.does = "nothing" => r = Free
    /\ r.at \in {"name", "names", "read", "edit", "ask", "code"} => DOMAIN r.found = {}
    /\ r.does \in Appliers /\ r.at \in Looks => r.at \in r.gives
    /\ r.does \in Appliers /\ r.at = "nick" => DOMAIN r.found \subseteq {"name"}
    /\ r.does = "request" /\ "mail" \in DOMAIN r.found => r.found["mail"] = r.value
    /\ r.does = "scenario" => DOMAIN r.found = {"mail"}
    /\ r.does \in Appliers => r.gives \subseteq Looks
    /\ r.does = "request" => r.at \in {"ask", "pend"}
    /\ r.at = "pend" => r.does = "request"

\* What it found is so, unless another errand handles it as well.
FoundIsSo(r) ==
    /\ r.does # "scenario" => \A f \in DOMAIN r.found \ r.mixed : r.found[f] = telegram[f]
    /\ r.does = "scenario" /\ "mail" \notin r.mixed =>
          r.found["mail"] = row["mail"] /\ r.value = pending
    /\ r.does = "request" /\ r.at = "pend" /\ r.mixed = {} /\ DOMAIN r.found = {} =>
          asked = r.value
    /\ r.does = "confirm" /\ r.at = "code" /\ r.mixed = {} /\ "pending" \notin stray =>
          asked \in {Nothing, r.value}

ErrandFits(r) == r \in Errand /\ FindsInTurn(r) /\ FoundIsSo(r)

\* Two errands that handle a field both know it.
ErrandsApart(q, r) == Handles(q) \cap Handles(r) \subseteq q.mixed \cap r.mixed

\* A field that differs is one that an errand has told Telegram and will write.
WillWrite(r, f) == r.does \notin {"sync", "scenario"} /\ f \in DOMAIN r.found
FieldKept(f) == f \in stray \/ row[f] = telegram[f] \/ \E h \in Bearers : WillWrite(bearer[h], f)

\* The email waited for is the one Telegram has sent its code to.
CodeAwaited ==
    \/ "pending" \in stray \/ asked = Nothing \/ pending = Nothing \/ asked = pending
    \/ \E h \in Bearers : bearer[h].does = "request" /\ bearer[h].at = "pend"

FieldsTyped ==
    /\ telegram \in [Fields -> Field] /\ row \in [Fields -> Field]
    /\ asked \in Field /\ pending \in Field
    /\ stray \subseteq Fields \cup {"pending"}

MirrorInv ==
    /\ FieldsTyped
    /\ DOMAIN bearer = Bearers /\ bearer = [h \in Bearers |-> bearer[h]]
    /\ \A h \in Bearers : ErrandFits(bearer[h])
    /\ \A h, g \in Bearers : h # g => ErrandsApart(bearer[h], bearer[g])
    /\ \A f \in Fields : FieldKept(f)
    /\ CodeAwaited
-----------------------------------------------------------------------------
LEMMA EmptyFound == <<>> \in Found /\ DOMAIN <<>> = {}
<1>1. DOMAIN <<>> = {}
  OBVIOUS
<1>2. <<>> \in [{} -> Field]
  OBVIOUS
<1> QED BY <1>1, <1>2 DEF Found

LEMMA FreeErrand ==
  ASSUME MirrorAssumption
  PROVE  Free \in Errand /\ FindsInTurn(Free) /\ Handles(Free) = {}
<1>1. Free \in Errand
  BY EmptyFound DEF Free, Errand, Kinds_, Places_, Field
<1> QED BY <1>1, EmptyFound DEF Free, FindsInTurn, Handles, Appliers, Looks

\* Knows adds one field.
LEMMA KnowsOne ==
  ASSUME NEW r \in Errand, NEW f \in Fields, NEW v \in Field
  PROVE  /\ Knows(r, f, v) \in Errand
         /\ Knows(r, f, v).does = r.does /\ Knows(r, f, v).at = r.at
         /\ Knows(r, f, v).gives = r.gives /\ Knows(r, f, v).value = r.value
         /\ Knows(r, f, v).mixed = r.mixed
         /\ DOMAIN Knows(r, f, v).found = DOMAIN r.found \cup {f}
         /\ Knows(r, f, v).found[f] = v
         /\ \A g \in DOMAIN r.found \ {f} : Knows(r, f, v).found[g] = r.found[g]
<1> DEFINE d == [g \in DOMAIN r.found \cup {f} |-> IF g = f THEN v ELSE r.found[g]]
<1>1. Knows(r, f, v) = [r EXCEPT !.found = d]
  BY DEF Knows, Errand
<1>2. DOMAIN r.found \subseteq Fields /\ \A g \in DOMAIN r.found : r.found[g] \in Field
  BY DEF Errand, Found
<1>3. d \in [DOMAIN r.found \cup {f} -> Field]
  BY <1>2
<1>4. d \in Found
  BY <1>2, <1>3 DEF Found
<1>5. DOMAIN d = DOMAIN r.found \cup {f} /\ d[f] = v /\ \A g \in DOMAIN r.found \ {f} : d[g] = r.found[g]
  OBVIOUS
<1> HIDE DEF d
<1>6. [r EXCEPT !.found = d] \in Errand
  BY <1>4 DEF Errand
<1> QED BY <1>1, <1>5, <1>6 DEF Errand
-----------------------------------------------------------------------------
\* Errand h changes only what it handles, and leaves that well.
ErrandSteps(h) ==
    /\ bearer' = [g \in Bearers |-> IF g = h THEN bearer'[h] ELSE bearer[g]]
    /\ Handles(bearer'[h]) \subseteq Handles(bearer[h])
    /\ Handles(bearer'[h]) \cap bearer[h].mixed \subseteq bearer'[h].mixed
    /\ FieldsTyped'
    /\ \A f \in Fields \ Handles(bearer[h]) :
          telegram'[f] = telegram[f] /\ row'[f] = row[f] /\ (f \in stray' <=> f \in stray)
    /\ "mail" \notin Handles(bearer[h]) =>
          asked' = asked /\ pending' = pending /\ ("pending" \in stray' <=> "pending" \in stray)
    /\ ErrandFits(bearer[h])'
    /\ \A f \in Handles(bearer[h]) : FieldKept(f)'
    /\ "mail" \in Handles(bearer[h]) => CodeAwaited'

LEMMA HandlesBy ==
  ASSUME NEW r
  PROVE  /\ r.does = "sync" => Handles(r) = Looks
         /\ r.does \in Appliers => Handles(r) = r.gives
         /\ r.does = "set_2fa" => Handles(r) = {"word"}
         /\ r.does \in {"request", "confirm", "scenario"} => Handles(r) = {"mail"}
         /\ r.does = "nothing" => Handles(r) = {}
  BY DEF Handles, Appliers

LEMMA HandlesFields == ASSUME NEW r \in Errand, FindsInTurn(r) PROVE Handles(r) \subseteq Fields
<1>1. r.does \in Kinds_
  BY DEF Errand
<1> QED BY <1>1, HandlesBy DEF Kinds_, Looks, Fields, FindsInTurn, Appliers

LEMMA ErrandStepKeeps ==
  ASSUME MirrorInv, NEW h \in Bearers, ErrandSteps(h)
  PROVE  MirrorInv'
<1>1. /\ DOMAIN bearer' = Bearers /\ bearer' = [g \in Bearers |-> bearer'[g]]
      /\ \A g \in Bearers \ {h} : bearer'[g] = bearer[g]
  BY DEF ErrandSteps
<1>2. \A g \in Bearers \ {h} : \A f \in Handles(bearer[g]) \cap Handles(bearer[h]) : f \in bearer[g].mixed
  BY DEF MirrorInv, ErrandsApart
<1>3. ASSUME NEW g \in Bearers PROVE ErrandFits(bearer[g])'
  <2>1. CASE g = h BY <2>1 DEF ErrandSteps
  <2>2. CASE g # h
    <3>1. bearer'[g] = bearer[g] BY <1>1, <2>2
    <3>2. ErrandFits(bearer[g]) BY DEF MirrorInv
    <3>3. PICK q : q = bearer[g] OBVIOUS
    <3>4. q \in Errand /\ FindsInTurn(q) /\ FoundIsSo(q) BY <3>2, <3>3 DEF ErrandFits
    <3>5. \A f \in Handles(q) \ q.mixed : f \in Fields \ Handles(bearer[h])
      BY <1>2, <2>2, <3>3, <3>4, HandlesFields
    <3>6. \A f \in DOMAIN q.found \ q.mixed : telegram'[f] = telegram[f]
      BY <3>4, <3>5 DEF ErrandSteps, FindsInTurn
    <3>7. q.does \in {"scenario", "request", "confirm"} /\ "mail" \notin q.mixed =>
             /\ row'["mail"] = row["mail"] /\ asked' = asked /\ pending' = pending
             /\ ("pending" \in stray' <=> "pending" \in stray)
      <4>1. q.does \in {"scenario", "request", "confirm"} => "mail" \in Handles(q)
        BY HandlesBy
      <4> QED BY <4>1, <3>5 DEF ErrandSteps
    <3>8. FoundIsSo(q)'
      BY <3>4, <3>6, <3>7 DEF FoundIsSo
    <3> QED BY <3>1, <3>3, <3>4, <3>8 DEF ErrandFits
  <2> QED BY <2>1, <2>2
<1>4. ASSUME NEW g \in Bearers, NEW k \in Bearers, g # k
      PROVE  ErrandsApart(bearer[g], bearer[k])'
  <2>1. ErrandsApart(bearer[g], bearer[k]) BY <1>4 DEF MirrorInv
  <2> QED BY <1>1, <1>4, <2>1 DEF ErrandsApart, ErrandSteps
<1>5. ASSUME NEW f \in Fields PROVE FieldKept(f)'
  <2>1. CASE f \in Handles(bearer[h]) BY <2>1 DEF ErrandSteps
  <2>2. CASE f \notin Handles(bearer[h])
    <3>1. f \notin DOMAIN bearer[h].found BY <2>2 DEF MirrorInv, ErrandFits, FindsInTurn
    <3>2. \A g \in Bearers : WillWrite(bearer[g], f) => WillWrite(bearer'[g], f)
      BY <1>1, <3>1 DEF WillWrite
    <3>3. FieldKept(f) BY DEF MirrorInv
    <3> QED BY <2>2, <3>2, <3>3 DEF FieldKept, ErrandSteps, WillWrite
  <2> QED BY <2>1, <2>2
<1>6. CodeAwaited'
  <2>1. CASE "mail" \in Handles(bearer[h]) BY <2>1 DEF ErrandSteps
  <2>2. CASE "mail" \notin Handles(bearer[h])
    <3>1. bearer[h].does # "request" BY <2>2, HandlesBy
    <3> QED BY <1>1, <2>2, <3>1 DEF ErrandSteps, CodeAwaited, MirrorInv
  <2> QED BY <2>1, <2>2
<1> QED BY <1>1, <1>3, <1>4, <1>5, <1>6 DEF MirrorInv, ErrandSteps
-----------------------------------------------------------------------------
LEMMA Gone ==
  ASSUME MirrorInv, NEW h \in Bearers, NEW q, Goes(h, q)
  PROVE  bearer'[h] = q /\ bearer' = [g \in Bearers |-> IF g = h THEN bearer'[h] ELSE bearer[g]]
<1>1. DOMAIN bearer = Bearers /\ bearer = [g \in Bearers |-> bearer[g]]
  BY DEF MirrorInv
<1>2. bearer' = [bearer EXCEPT ![h] = q]
  BY DEF Goes
<1> QED BY <1>1, <1>2

\* An errand goes on, and nothing outside it changes.
LEMMA GoesOnKeeps ==
  ASSUME MirrorInv, NEW h \in Bearers, NEW q, Goes(h, q),
         UNCHANGED <<telegram, row, pending, stray, asked>>,
         ErrandFits(q), q.does = bearer[h].does,
         Handles(q) \subseteq Handles(bearer[h]),
         Handles(q) \cap bearer[h].mixed \subseteq q.mixed,
         bearer[h].does \in {"sync", "scenario"} \/ DOMAIN bearer[h].found \subseteq DOMAIN q.found,
         bearer[h].at # "pend"
  PROVE  MirrorInv'
<1>1. bearer'[h] = q /\ bearer' = [g \in Bearers |-> IF g = h THEN bearer'[h] ELSE bearer[g]]
  BY Gone
<1>2. ErrandFits(bearer[h])'
  BY <1>1 DEF ErrandFits, FoundIsSo
<1>3. FieldsTyped'
  BY DEF MirrorInv, FieldsTyped
<1>4. ASSUME NEW f \in Handles(bearer[h]) PROVE FieldKept(f)'
  <2>1. f \in Fields BY HandlesFields DEF MirrorInv, ErrandFits
  <2>2. \A g \in Bearers : WillWrite(bearer[g], f) => WillWrite(bearer'[g], f)
    BY <1>1 DEF WillWrite
  <2> QED BY <2>1, <2>2 DEF MirrorInv, FieldKept, WillWrite
<1>5. CodeAwaited'
  BY <1>1 DEF MirrorInv, CodeAwaited
<1>6. ErrandSteps(h)
  BY <1>1, <1>2, <1>3, <1>4, <1>5 DEF ErrandSteps
<1> QED BY <1>6, ErrandStepKeeps

\* An errand tells Telegram one field of those it handles.
LEMMA TellsKeeps ==
  ASSUME MirrorInv, NEW h \in Bearers, NEW q, NEW f \in Handles(bearer[h]), NEW v \in Field,
         Goes(h, q), telegram' = [telegram EXCEPT ![f] = v],
         UNCHANGED <<row, pending, stray, asked>>,
         q \in Errand, FindsInTurn(q),
         q.does = bearer[h].does, q.does \notin {"sync", "scenario"},
         Handles(q) \subseteq Handles(bearer[h]),
         q.mixed = bearer[h].mixed,
         DOMAIN q.found = DOMAIN bearer[h].found \cup {f}, q.found[f] = v,
         \A g \in DOMAIN bearer[h].found \ {f} : q.found[g] = bearer[h].found[g],
         q.at # "code",
         bearer[h].at # "pend"
  PROVE  MirrorInv'
<1> DEFINE r == bearer[h]
<1>1. bearer'[h] = q /\ bearer' = [g \in Bearers |-> IF g = h THEN bearer'[h] ELSE bearer[g]]
  BY Gone
<1>2. r \in Errand /\ FindsInTurn(r) /\ FoundIsSo(r)
  BY DEF MirrorInv, ErrandFits
<1>3. f \in Fields /\ DOMAIN r.found \subseteq Fields
  BY <1>2, HandlesFields DEF FindsInTurn
<1>4. telegram \in [Fields -> Field]
  BY DEF MirrorInv, FieldsTyped
<1>5. telegram' \in [Fields -> Field] /\ telegram'[f] = v
      /\ \A g \in Fields \ {f} : telegram'[g] = telegram[g]
  BY <1>3, <1>4
<1>6. \A g \in DOMAIN q.found \ q.mixed : q.found[g] = telegram'[g]
  BY <1>2, <1>3, <1>5 DEF FoundIsSo
<1>7. FoundIsSo(q)'
  BY <1>6 DEF FoundIsSo
<1>8. ErrandFits(bearer[h])'
  BY <1>1, <1>7 DEF ErrandFits
<1>9. FieldsTyped'
  BY <1>5 DEF MirrorInv, FieldsTyped
<1>10. ASSUME NEW g \in Handles(r) PROVE FieldKept(g)'
  <2>1. g \in Fields BY <1>2, HandlesFields
  <2>2. CASE g = f BY <2>2, <1>1 DEF FieldKept, WillWrite
  <2>3. CASE g # f
    <3>1. \A k \in Bearers : WillWrite(bearer[k], g) => WillWrite(bearer'[k], g)
      BY <1>1 DEF WillWrite
    <3> QED BY <2>1, <2>3, <3>1, <1>5 DEF MirrorInv, FieldKept, WillWrite
  <2> QED BY <2>2, <2>3
<1>11. CodeAwaited'
  BY <1>1 DEF MirrorInv, CodeAwaited
<1>12. ErrandSteps(h)
  BY <1>1, <1>3, <1>5, <1>8, <1>9, <1>10, <1>11 DEF ErrandSteps
<1> QED BY <1>12, ErrandStepKeeps

\* An errand breaks off.
LEMMA BreaksOffKeeps ==
  ASSUME MirrorAssumption, MirrorInv, NEW h \in Bearers, NEW lost,
         BreaksOff(h, lost), telegram' \in [Fields -> Field],
         lost \subseteq Handles(bearer[h]) \cup {"pending"},
         "pending" \in lost => "mail" \in Handles(bearer[h]),
         \A f \in Fields \ lost : telegram'[f] = telegram[f],
         bearer[h].does \notin {"sync", "scenario"} => DOMAIN bearer[h].found \subseteq lost,
         bearer[h].at = "pend" => "pending" \in lost
  PROVE  MirrorInv'
<1> DEFINE r == bearer[h]
<1>1. bearer'[h] = Free /\ bearer' = [g \in Bearers |-> IF g = h THEN bearer'[h] ELSE bearer[g]]
  BY Gone DEF BreaksOff
<1>2. r \in Errand /\ FindsInTurn(r)
  BY DEF MirrorInv, ErrandFits
<1>3. Handles(r) \subseteq Fields
  BY <1>2, HandlesFields
<1>4. stray' = stray \cup lost /\ row' = row /\ pending' = pending /\ asked' = asked
  BY DEF BreaksOff
<1>5. ErrandFits(bearer[h])'
  <2>1. Free \in Errand /\ FindsInTurn(Free) BY FreeErrand
  <2>2. FoundIsSo(Free)' BY EmptyFound DEF FoundIsSo, Free
  <2> QED BY <1>1, <2>1, <2>2 DEF ErrandFits
<1>6. FieldsTyped'
  BY <1>3, <1>4 DEF MirrorInv, FieldsTyped
<1>7. ASSUME NEW f \in Handles(r) PROVE FieldKept(f)'
  <2>1. f \in Fields BY <1>3
  <2>2. CASE f \in lost BY <2>2, <1>4 DEF FieldKept
  <2>3. CASE f \notin lost
    <3>1. \A k \in Bearers : WillWrite(bearer[k], f) => WillWrite(bearer'[k], f)
      BY <1>1, <2>3 DEF WillWrite
    <3> QED BY <2>1, <2>3, <3>1, <1>4 DEF MirrorInv, FieldKept, WillWrite
  <2> QED BY <2>2, <2>3
<1>8. CodeAwaited'
  BY <1>1, <1>4 DEF MirrorInv, CodeAwaited
<1>9. "pending" \notin Fields
  BY DEF Fields, Looks
<1>10. Handles(bearer'[h]) = {}
  BY <1>1, FreeErrand
<1>11. ErrandSteps(h)
  BY <1>1, <1>3, <1>4, <1>5, <1>6, <1>7, <1>8, <1>9, <1>10 DEF ErrandSteps
<1> QED BY <1>11, ErrandStepKeeps

\* An errand writes what it has found, and is over.
LEMMA ConcludesKeeps ==
  ASSUME MirrorAssumption, MirrorInv, NEW h \in Bearers, Concludes(h, bearer[h]),
         bearer[h].does # "scenario", bearer[h].at = "write",
         pending' = pending \/ (pending' = Nothing /\ "mail" \in Handles(bearer[h]))
  PROVE  MirrorInv'
<1> DEFINE r == bearer[h]
<1>1. bearer'[h] = Free /\ bearer' = [g \in Bearers |-> IF g = h THEN bearer'[h] ELSE bearer[g]]
  BY Gone DEF Concludes
<1>2. r \in Errand /\ FindsInTurn(r) /\ FoundIsSo(r)
  BY DEF MirrorInv, ErrandFits
<1>3. Handles(r) \subseteq Fields /\ DOMAIN r.found \subseteq Handles(r) /\ r.mixed \subseteq Handles(r)
  BY <1>2, HandlesFields DEF FindsInTurn
<1>4. /\ row' = [f \in Fields |-> IF f \in DOMAIN r.found THEN r.found[f] ELSE row[f]]
      /\ stray' = (stray \ DOMAIN r.found) \cup (r.mixed \cap DOMAIN r.found)
      /\ asked' = asked /\ telegram' = telegram
  BY DEF Concludes
<1>5. ErrandFits(bearer[h])'
  <2>1. Free \in Errand /\ FindsInTurn(Free) BY FreeErrand
  <2>2. FoundIsSo(Free)' BY EmptyFound DEF FoundIsSo, Free
  <2> QED BY <1>1, <2>1, <2>2 DEF ErrandFits
<1>6. FieldsTyped'
  <2>1. \A f \in DOMAIN r.found : r.found[f] \in Field
    BY <1>2 DEF Errand, Found
  <2> QED BY <1>3, <1>4, <2>1 DEF MirrorInv, FieldsTyped, Field
<1>7. ASSUME NEW f \in Handles(r) PROVE FieldKept(f)'
  <2>1. f \in Fields BY <1>3
  <2>2. CASE f \in DOMAIN r.found /\ f \in r.mixed BY <2>2, <1>4 DEF FieldKept
  <2>3. CASE f \in DOMAIN r.found /\ f \notin r.mixed
    <3>1. r.found[f] = telegram[f] BY <2>3, <1>2 DEF FoundIsSo
    <3> QED BY <2>1, <2>3, <3>1, <1>4 DEF FieldKept
  <2>4. CASE f \notin DOMAIN r.found
    <3>1. \A k \in Bearers : WillWrite(bearer[k], f) => WillWrite(bearer'[k], f)
      BY <1>1, <2>4 DEF WillWrite
    <3>2. FieldKept(f) BY <2>1 DEF MirrorInv
    <3>3. row'[f] = row[f] /\ (f \in stray' <=> f \in stray) BY <1>4, <2>1, <2>4
    <3> QED BY <3>1, <3>2, <3>3, <1>4 DEF FieldKept
  <2> QED BY <2>2, <2>3, <2>4
<1>8. "pending" \notin Fields
  BY DEF Fields, Looks
<1>9. "pending" \in stray' <=> "pending" \in stray
  BY <1>3, <1>4, <1>8
<1>10. CodeAwaited'
  BY <1>1, <1>4, <1>9 DEF MirrorInv, CodeAwaited
<1>11. Handles(bearer'[h]) = {}
  BY <1>1, FreeErrand
<1>12. \A f \in Fields \ Handles(r) : row'[f] = row[f] /\ (f \in stray' <=> f \in stray)
  BY <1>3, <1>4
<1>13. ErrandSteps(h)
  BY <1>1, <1>3, <1>4, <1>5, <1>6, <1>7, <1>9, <1>10, <1>11, <1>12 DEF ErrandSteps
<1> QED BY <1>13, ErrandStepKeeps
-----------------------------------------------------------------------------
\* A new errand, and those that handle the same, know each other.
LEMMA StartsKeeps ==
  ASSUME MirrorAssumption, MirrorInv, NEW h \in Bearers, NEW q, Starts(h, q),
         q \in Errand, FindsInTurn(q), q.mixed = {}, q.at # "pend",
         DOMAIN q.found = {} \/ q.does = "scenario",
         q.does = "scenario" => q.found["mail"] = row["mail"] /\ q.value = pending,
         q.does = "confirm" => q.value = pending /\ pending # Nothing
  PROVE  MirrorInv'
<1> DEFINE shared(g) == Handles(bearer[g]) \cap Handles(q)
           m(g) == IF g = h THEN UNION {shared(k) : k \in Bearers} ELSE bearer[g].mixed \cup shared(g)
           r(g) == IF g = h THEN q ELSE bearer[g]
<1>1. /\ bearer[h] = Free
      /\ bearer' = [g \in Bearers |-> IF g = h THEN [q EXCEPT !.mixed = m(h)]
                                      ELSE [bearer[g] EXCEPT !.mixed = m(g)]]
      /\ UNCHANGED <<telegram, asked, row, pending, stray>>
  BY DEF Starts
<1>2. \A g \in Bearers : r(g) \in Errand /\ FindsInTurn(r(g)) /\ bearer'[g] = [r(g) EXCEPT !.mixed = m(g)]
  BY <1>1 DEF MirrorInv, ErrandFits
<1>3. ASSUME NEW g \in Bearers
      PROVE  m(g) \subseteq Handles(r(g)) /\ r(g).mixed \subseteq m(g)
  <2>1. CASE g = h
    <3>1. m(g) = UNION {shared(k) : k \in Bearers} /\ r(g) = q BY <2>1
    <3>2. \A k \in Bearers : shared(k) \subseteq Handles(q) OBVIOUS
    <3> HIDE DEF shared
    <3> QED BY <3>1, <3>2
  <2>2. CASE g # h
    <3>1. m(g) = bearer[g].mixed \cup shared(g) /\ r(g) = bearer[g] BY <2>2
    <3>2. bearer[g].mixed \subseteq Handles(bearer[g]) BY <1>2, <3>1 DEF FindsInTurn
    <3> QED BY <3>1, <3>2
  <2> QED BY <2>1, <2>2
<1>4. \A g \in Bearers : Handles(r(g)) \subseteq Fields
  BY <1>2, HandlesFields
<1>5. ASSUME NEW g \in Bearers
      PROVE  /\ bearer'[g] \in Errand /\ bearer'[g].mixed = m(g)
             /\ bearer'[g].does = r(g).does /\ bearer'[g].at = r(g).at
             /\ bearer'[g].gives = r(g).gives /\ bearer'[g].value = r(g).value
             /\ bearer'[g].found = r(g).found
             /\ Handles(bearer'[g]) = Handles(r(g))
  <2>1. PICK k : k = r(g) OBVIOUS
  <2>2. PICK s : s = m(g) OBVIOUS
  <2>3. k \in Errand /\ s \subseteq Fields /\ bearer'[g] = [k EXCEPT !.mixed = s]
    BY <1>2, <1>3, <1>4, <2>1, <2>2
  <2>4. /\ bearer'[g] \in Errand /\ bearer'[g].mixed = s
        /\ bearer'[g].does = k.does /\ bearer'[g].at = k.at
        /\ bearer'[g].gives = k.gives /\ bearer'[g].value = k.value
        /\ bearer'[g].found = k.found
    BY <2>3 DEF Errand
  <2>5. Handles(bearer'[g]) = Handles(k)
    BY <2>4 DEF Handles
  <2> QED BY <2>1, <2>2, <2>4, <2>5
<1>6. \A g \in Bearers \ {h} : Handles(r(g)) \cap Handles(q) \subseteq m(g) \cap m(h)
  OBVIOUS
<1>7. ASSUME NEW g \in Bearers PROVE FindsInTurn(bearer[g])'
  <2>1. CASE r(g).does = "nothing"
    <3>1. g # h => bearer[g] = Free BY <1>2, <2>1 DEF FindsInTurn
    <3>2. Handles(Free) = {} /\ Free.mixed = {} BY FreeErrand DEF Free
    <3>3. g # h => bearer'[g] = Free BY <1>1, <3>1, <3>2 DEF Free
    <3>4. CASE g # h BY <3>3, <3>4, FreeErrand
    <3>5. CASE g = h
      <4>1. q = Free BY <3>5, <2>1, <1>2 DEF FindsInTurn
      <4>2. m(h) = {} BY <4>1, <3>2
      <4>3. bearer'[h] = Free BY <1>1, <4>1, <4>2 DEF Free
      <4> QED BY <3>5, <4>3, FreeErrand
    <3> QED BY <3>4, <3>5
  <2>2. CASE r(g).does # "nothing"
    <3>1. FindsInTurn(r(g)) /\ m(g) \subseteq Handles(r(g)) BY <1>2, <1>3
    <3>2. PICK k : k = r(g) OBVIOUS
    <3>3. PICK s : s = m(g) OBVIOUS
    <3> HIDE DEF r, m
    <3> QED BY <3>1, <3>2, <3>3, <2>2, <1>5 DEF FindsInTurn
  <2> QED BY <2>1, <2>2
<1>8. ASSUME NEW g \in Bearers PROVE FoundIsSo(bearer[g])'
  <2>1. CASE g # h
    <3>1. FoundIsSo(bearer[g]) BY DEF MirrorInv, ErrandFits
    <3>2. r(g) = bearer[g] /\ bearer[g].mixed \subseteq m(g) BY <2>1
    <3>3. bearer'[g].does = bearer[g].does /\ bearer'[g].at = bearer[g].at
          /\ bearer'[g].value = bearer[g].value /\ bearer'[g].found = bearer[g].found
          /\ bearer'[g].mixed = m(g)
      BY <3>2, <1>5
    <3> HIDE DEF r, m
    <3>4. bearer[g].mixed \subseteq bearer'[g].mixed BY <3>2, <3>3
    <3> QED BY <3>1, <3>3, <3>4, <1>1 DEF FoundIsSo
  <2>2. CASE g = h
    <3>1. r(g) = q BY <2>2
    <3>2. q.does = "confirm" /\ m(h) = {} /\ "pending" \notin stray => asked \in {Nothing, pending}
      <4> SUFFICES ASSUME q.does = "confirm", m(h) = {}, "pending" \notin stray,
                          asked # Nothing, asked # pending
                   PROVE  FALSE
        OBVIOUS
      <4>1. PICK k \in Bearers : bearer[k].does = "request"
        BY DEF MirrorInv, CodeAwaited
      <4>2. "mail" \in shared(k) BY <4>1, HandlesBy
      <4> QED BY <4>2
    <3> HIDE DEF r, m
    <3>3. bearer'[g].found = q.found /\ bearer'[g].does = q.does /\ bearer'[g].value = q.value
          /\ bearer'[g].mixed = m(h) /\ bearer'[g].at = q.at
      BY <3>1, <1>5, <2>2
    <3>4. q.does = "request" => q.at # "pend" OBVIOUS
    <3> QED BY <3>2, <3>3, <3>4, <1>1 DEF FoundIsSo
  <2> QED BY <2>1, <2>2
<1>9. ASSUME NEW g \in Bearers, NEW k \in Bearers, g # k
      PROVE  ErrandsApart(bearer[g], bearer[k])'
  <2>1. g # h /\ k # h => ErrandsApart(bearer[g], bearer[k]) BY <1>9 DEF MirrorInv
  <2>2. Handles(r(g)) \cap Handles(r(k)) \subseteq m(g) \cap m(k)
    BY <1>9, <2>1, <1>6 DEF ErrandsApart
  <2> HIDE DEF r, m
  <2> QED BY <2>2, <1>5 DEF ErrandsApart
<1>10. ASSUME NEW f \in Fields PROVE FieldKept(f)'
  <2>1. \A g \in Bearers : WillWrite(bearer[g], f) => WillWrite(bearer'[g], f)
    <3>1. DOMAIN bearer[h].found = {} BY <1>1, EmptyFound DEF Free
    <3>2. \A g \in Bearers \ {h} : r(g) = bearer[g] OBVIOUS
    <3> HIDE DEF r, m
    <3> QED BY <1>5, <3>1, <3>2 DEF WillWrite
  <2> QED BY <2>1, <1>1 DEF MirrorInv, FieldKept, WillWrite
<1>11. CodeAwaited'
  <2>1. ASSUME NEW g \in Bearers, bearer[g].does = "request", bearer[g].at = "pend"
        PROVE  bearer'[g].does = "request" /\ bearer'[g].at = "pend"
    <3>1. g # h BY <2>1, <1>1 DEF Free
    <3>2. r(g) = bearer[g] BY <3>1
    <3> HIDE DEF r, m
    <3> QED BY <2>1, <3>2, <1>5
  <2> QED BY <2>1, <1>1 DEF MirrorInv, CodeAwaited
<1>12. \A g \in Bearers : ErrandFits(bearer[g])'
  BY <1>5, <1>7, <1>8 DEF ErrandFits
<1>13. DOMAIN bearer' = Bearers /\ bearer' = [g \in Bearers |-> bearer'[g]]
  BY <1>1
<1>14. FieldsTyped'
  BY <1>1 DEF MirrorInv, FieldsTyped
<1> QED BY <1>9, <1>10, <1>11, <1>12, <1>13, <1>14 DEF MirrorInv

\* What Telegram is told beside the errands is nobody's finding.
LEMMA BehindKeeps ==
  ASSUME MirrorInv, NEW w \in {"word", "mail"}, NEW v \in Field, Behind(w),
         telegram' = [telegram EXCEPT ![w] = v], UNCHANGED <<asked, row, pending>>
  PROVE  MirrorInv'
<1>2. /\ stray' = stray \cup {w}
      /\ bearer' = [h \in Bearers |-> IF w \in Handles(bearer[h])
                                      THEN [bearer[h] EXCEPT !.mixed = @ \cup {w}]
                                      ELSE bearer[h]]
  BY DEF Behind
<1>3. w \in Fields /\ "pending" # w
  BY DEF Fields, Looks
<1>4. telegram' \in [Fields -> Field] /\ \A f \in Fields \ {w} : telegram'[f] = telegram[f]
  BY <1>3 DEF MirrorInv, FieldsTyped
<1>5. ASSUME NEW g \in Bearers
      PROVE  /\ bearer'[g] \in Errand /\ bearer[g].mixed \subseteq bearer'[g].mixed
             /\ bearer'[g].does = bearer[g].does /\ bearer'[g].at = bearer[g].at
             /\ bearer'[g].gives = bearer[g].gives /\ bearer'[g].value = bearer[g].value
             /\ bearer'[g].found = bearer[g].found
             /\ Handles(bearer'[g]) = Handles(bearer[g])
             /\ w \in Handles(bearer[g]) => w \in bearer'[g].mixed
             /\ FindsInTurn(bearer[g])'
  <2>1. PICK k : k = bearer[g] OBVIOUS
  <2>2. k \in Errand /\ FindsInTurn(k) BY <2>1 DEF MirrorInv, ErrandFits
  <2>3. CASE w \in Handles(k)
    <3>1. bearer'[g] = [k EXCEPT !.mixed = k.mixed \cup {w}] BY <1>2, <2>1, <2>3
    <3>2. /\ bearer'[g] \in Errand /\ bearer'[g].mixed = k.mixed \cup {w}
          /\ bearer'[g].does = k.does /\ bearer'[g].at = k.at
          /\ bearer'[g].gives = k.gives /\ bearer'[g].value = k.value
          /\ bearer'[g].found = k.found
      BY <1>3, <2>2, <3>1 DEF Errand
    <3>3. Handles(bearer'[g]) = Handles(k) BY <3>2 DEF Handles
    <3>4. k.does # "nothing" BY <2>3, HandlesBy
    <3>5. FindsInTurn(bearer[g])'
      BY <2>2, <2>3, <3>2, <3>3, <3>4 DEF FindsInTurn
    <3> QED BY <2>1, <3>2, <3>3, <3>5
  <2>4. CASE w \notin Handles(k)
    <3>1. bearer'[g] = k BY <1>2, <2>1, <2>4
    <3> QED BY <2>1, <2>2, <2>4, <3>1
  <2> QED BY <2>3, <2>4
<1>6. ASSUME NEW g \in Bearers PROVE FoundIsSo(bearer[g])'
  <2>1. FoundIsSo(bearer[g]) /\ FindsInTurn(bearer[g]) BY DEF MirrorInv, ErrandFits
  <2>2. DOMAIN bearer[g].found \subseteq Fields
    BY <2>1, HandlesFields DEF MirrorInv, ErrandFits, FindsInTurn
  <2>3. \A f \in DOMAIN bearer[g].found \ bearer'[g].mixed : f # w
    BY <1>5, <2>1 DEF FindsInTurn
  <2> QED BY <1>2, <1>3, <1>4, <1>5, <2>1, <2>2, <2>3 DEF FoundIsSo
<1>7. \A g \in Bearers : ErrandFits(bearer[g])'
  BY <1>5, <1>6 DEF ErrandFits
<1>8. ASSUME NEW g \in Bearers, NEW k \in Bearers, g # k
      PROVE  ErrandsApart(bearer[g], bearer[k])'
  <2>1. ErrandsApart(bearer[g], bearer[k]) BY <1>8 DEF MirrorInv
  <2> QED BY <2>1, <1>5 DEF ErrandsApart
<1>9. ASSUME NEW f \in Fields PROVE FieldKept(f)'
  BY <1>2, <1>4, <1>5 DEF MirrorInv, FieldKept, WillWrite
<1>10. CodeAwaited'
  BY <1>2, <1>5 DEF MirrorInv, CodeAwaited
<1>11. DOMAIN bearer' = Bearers /\ bearer' = [g \in Bearers |-> bearer'[g]]
  BY <1>2
<1>12. FieldsTyped'
  BY <1>2, <1>3, <1>4 DEF MirrorInv, FieldsTyped
<1> QED BY <1>7, <1>8, <1>9, <1>10, <1>11, <1>12 DEF MirrorInv

LEMMA OwnerKeeps == ASSUME MirrorInv, OwnerSets PROVE MirrorInv'
<1>1. PICK v \in Field : telegram' = [telegram EXCEPT !["word"] = v]
  BY DEF OwnerSets
<1> QED BY <1>1, BehindKeeps DEF OwnerSets

LEMMA PassMailKeeps == ASSUME MirrorInv, NEW h \in Bearers, PassMail(h) PROVE MirrorInv'
<1>1. PICK v \in Values : telegram' = [telegram EXCEPT !["mail"] = v]
  BY DEF PassMail
<1>2. v \in Field
  BY DEF Field
<1> QED BY <1>1, <1>2, BehindKeeps DEF PassMail

\* A PATCH tells nobody: what it makes differ goes astray.
LEMMA PatchRowKeeps == ASSUME MirrorInv, PatchRow PROVE MirrorInv'
<1>1. PICK f \in Looks, v \in Field :
          row' = [row EXCEPT ![f] = v] /\ stray' = stray \cup (IF v = telegram[f] THEN {} ELSE {f})
  BY DEF PatchRow
<1>2. UNCHANGED <<telegram, asked, pending, bearer>>
  BY DEF PatchRow
<1>3. f \in Fields /\ f # "mail" /\ f # "pending"
  BY DEF Fields, Looks
<1>4. row' \in [Fields -> Field] /\ row'[f] = v /\ \A g \in Fields \ {f} : row'[g] = row[g]
  BY <1>1, <1>3 DEF MirrorInv, FieldsTyped
<1>5. "mail" \in Fields /\ row'["mail"] = row["mail"] /\ ("pending" \in stray' <=> "pending" \in stray)
  BY <1>1, <1>3, <1>4 DEF Fields
<1>6. ASSUME NEW g \in Bearers PROVE ErrandFits(bearer[g])'
  BY <1>2, <1>5 DEF MirrorInv, ErrandFits, FindsInTurn, FoundIsSo
<1>7. ASSUME NEW g \in Fields PROVE FieldKept(g)'
  BY <1>1, <1>2, <1>4 DEF MirrorInv, FieldKept, WillWrite
<1>8. FieldsTyped' /\ CodeAwaited'
  BY <1>1, <1>2, <1>3, <1>4, <1>5 DEF MirrorInv, FieldsTyped, CodeAwaited
<1>9. \A h, g \in Bearers : h # g => ErrandsApart(bearer[h], bearer[g])'
  BY <1>2 DEF MirrorInv, ErrandsApart
<1> QED BY <1>2, <1>6, <1>7, <1>8, <1>9 DEF MirrorInv
-----------------------------------------------------------------------------
LEMMA ThenAt ==
  ASSUME NEW r \in Errand, NEW done \in {"begun", "name", "nick", "photo"}
  PROVE  /\ Then(r, done) \in Errand
         /\ Then(r, done).does = r.does /\ Then(r, done).gives = r.gives
         /\ Then(r, done).value = r.value /\ Then(r, done).found = r.found
         /\ Then(r, done).mixed = r.mixed
         /\ Then(r, done).at \in Looks \cup {"write"}
         /\ Then(r, done).at \in Looks => Then(r, done).at \in r.gives
         /\ Then(r, done).at = "name" => done = "begun"
         /\ Then(r, done).at = "nick" => done \in {"begun", "name"}
<1> DEFINE gone == CASE done = "begun" -> {}
                     [] done = "name" -> {"name"}
                     [] done = "nick" -> {"name", "nick"}
                     [] done = "photo" -> Looks
           loose == r.gives \ gone
           at == IF "name" \in loose THEN "name"
                 ELSE IF "nick" \in loose THEN "nick"
                 ELSE IF "photo" \in loose THEN "photo" ELSE "write"
<1>1. Then(r, done) = [r EXCEPT !.at = at]
  BY DEF Then
<1>2. /\ done = "begun" => gone = {}
      /\ done = "name" => gone = {"name"}
      /\ done = "nick" => gone = {"name", "nick"}
      /\ done = "photo" => gone = Looks
  OBVIOUS
<1> HIDE DEF gone
<1>3. /\ at \in Looks \cup {"write"} /\ (at \in Looks => at \in r.gives)
      /\ at = "name" => done = "begun"
      /\ at = "nick" => done \in {"begun", "name"}
  BY <1>2 DEF Looks
<1> HIDE DEF at
<1>4. at \in Places_
  BY <1>3 DEF Looks, Places_
<1> QED BY <1>1, <1>3, <1>4 DEF Errand

LEMMA AppliersAre ==
  \A r : r.does \in Appliers =>
      r.does \notin {"nothing", "sync", "set_2fa", "request", "confirm", "scenario"}
  BY DEF Appliers

LEMMA BeginApplyKeeps ==
  ASSUME MirrorAssumption, MirrorInv, NEW h \in Bearers, BeginApply(h)
  PROVE  MirrorInv'
<1>1. PICK v \in Values : \E t \in OfPayload \cup OfPool \cup OfModel :
         Starts(h, Then([Free EXCEPT !.does = t.does, !.gives = t.gives, !.value = v], "begun"))
  BY DEF BeginApply
<1>9. PICK t \in OfPayload \cup OfPool \cup OfModel :
         Starts(h, Then([Free EXCEPT !.does = t.does, !.gives = t.gives, !.value = v], "begun"))
  BY <1>1
<1>2. t.does \in Appliers /\ t.gives \subseteq Looks
  <2>1. CASE t \in OfPayload
    <3>1. PICK g \in SUBSET {"name", "nick"} : t = [does |-> "apply", gives |-> g]
      BY <2>1 DEF OfPayload
    <3>2. g \subseteq {"name", "nick"} OBVIOUS
    <3> QED BY <3>1, <3>2 DEF Appliers, Looks
  <2>2. CASE t \in OfPool BY <2>2 DEF OfPool, Appliers
  <2>3. CASE t \in OfModel BY <2>3 DEF OfModel, Appliers
  <2> QED BY <2>1, <2>2, <2>3
<1> DEFINE r == [Free EXCEPT !.does = t.does, !.gives = t.gives, !.value = v]
<1>3. r \in Errand
  BY <1>2, EmptyFound DEF Free, Errand, Kinds_, Places_, Field
<1>4. r.does = t.does /\ r.gives = t.gives /\ r.found = <<>> /\ r.mixed = {}
  BY DEF Free
<1> HIDE DEF r
<1>5. /\ Then(r, "begun") \in Errand /\ Then(r, "begun").does = t.does
      /\ Then(r, "begun").gives = t.gives /\ Then(r, "begun").found = <<>>
      /\ Then(r, "begun").mixed = {} /\ Then(r, "begun").at \in Looks \cup {"write"}
      /\ Then(r, "begun").at \in Looks => Then(r, "begun").at \in t.gives
  BY <1>3, <1>4, ThenAt
<1>6. PICK q : q = Then(r, "begun")
  OBVIOUS
<1>7. q.at # "pend"
  BY <1>5, <1>6 DEF Looks
<1>8. FindsInTurn(q)
  BY <1>2, <1>5, <1>6, <1>7, EmptyFound, HandlesBy, AppliersAre DEF FindsInTurn
<1>10. Starts(h, q)
  BY <1>9, <1>6 DEF r
<1> QED BY <1>2, <1>5, <1>6, <1>7, <1>8, <1>10, EmptyFound, StartsKeeps, AppliersAre

\* What is known of an errand that applies looks.
LEMMA ApplyingIs ==
  ASSUME MirrorInv, NEW h \in Bearers, bearer[h].does \in Appliers
  PROVE  /\ bearer[h] \in Errand /\ FindsInTurn(bearer[h]) /\ FoundIsSo(bearer[h])
         /\ Handles(bearer[h]) = bearer[h].gives /\ bearer[h].gives \subseteq Looks
         /\ bearer[h].value \in Field
         /\ bearer[h].does \notin {"nothing", "sync", "set_2fa", "request", "confirm", "scenario"}
<1>1. bearer[h] \in Errand /\ FindsInTurn(bearer[h]) /\ FoundIsSo(bearer[h])
  BY DEF MirrorInv, ErrandFits
<1> QED BY <1>1, HandlesBy, AppliersAre DEF Errand, FindsInTurn

\* Told of a field, and on to the next.
LEMMA AppliesKeeps ==
  ASSUME MirrorInv, NEW h \in Bearers, NEW f \in Looks, Applying(h, f),
         Goes(h, Then(Knows(bearer[h], f, bearer[h].value), f)),
         telegram' = [telegram EXCEPT ![f] = bearer[h].value],
         UNCHANGED <<row, pending, stray, asked>>
  PROVE  MirrorInv'
<1>1. PICK r : r = bearer[h]
  OBVIOUS
<1>2. r.at = f /\ r.does \in Appliers
  BY <1>1 DEF Applying
<1>3. /\ r \in Errand /\ FindsInTurn(r) /\ FoundIsSo(r)
      /\ Handles(r) = r.gives /\ r.gives \subseteq Looks
      /\ r.value \in Field
      /\ r.does \notin {"nothing", "sync", "set_2fa", "request", "confirm", "scenario"}
  BY <1>1, <1>2, ApplyingIs
<1>4. f \in Fields /\ f # "pend" /\ f \in r.gives
  BY <1>2, <1>3 DEF Looks, Fields, FindsInTurn
<1>5. PICK k : k = Knows(r, f, r.value)
  OBVIOUS
<1>6. /\ k \in Errand /\ k.does = r.does /\ k.at = r.at /\ k.gives = r.gives
      /\ k.value = r.value /\ k.mixed = r.mixed
      /\ DOMAIN k.found = DOMAIN r.found \cup {f} /\ k.found[f] = r.value
      /\ \A g \in DOMAIN r.found \ {f} : k.found[g] = r.found[g]
  BY <1>3, <1>4, <1>5, KnowsOne
<1>7. PICK q : q = Then(k, f)
  OBVIOUS
<1>8. /\ q \in Errand /\ q.does = r.does /\ q.gives = r.gives /\ q.value = r.value
      /\ q.mixed = r.mixed /\ q.found = k.found
      /\ q.at \in Looks \cup {"write"} /\ (q.at \in Looks => q.at \in r.gives)
      /\ q.at # "name" /\ (q.at = "nick" => f = "name")
  BY <1>6, <1>7, ThenAt DEF Looks
<1>9. Handles(q) = r.gives
  BY <1>2, <1>8, HandlesBy
<1>10. q.at \notin {"name", "names", "read", "edit", "ask", "code", "pend"}
  BY <1>8 DEF Looks
<1>11. q.at = "nick" => DOMAIN q.found \subseteq {"name"}
  BY <1>2, <1>3, <1>6, <1>8 DEF FindsInTurn
<1>12. FindsInTurn(q)
  BY <1>2, <1>3, <1>4, <1>6, <1>8, <1>9, <1>10, <1>11 DEF FindsInTurn
<1>13. Goes(h, q)
  BY <1>1, <1>5, <1>7
<1>14. /\ f \in Handles(bearer[h]) /\ bearer[h].value \in Field
       /\ q.does = bearer[h].does /\ q.does \notin {"sync", "scenario"}
       /\ Handles(q) \subseteq Handles(bearer[h]) /\ q.mixed = bearer[h].mixed
       /\ DOMAIN q.found = DOMAIN bearer[h].found \cup {f} /\ q.found[f] = bearer[h].value
       /\ \A g \in DOMAIN bearer[h].found \ {f} : q.found[g] = bearer[h].found[g]
       /\ q.at # "code" /\ bearer[h].at # "pend"
  BY <1>1, <1>2, <1>3, <1>4, <1>6, <1>8, <1>9, <1>10
<1> QED BY <1>8, <1>12, <1>13, <1>14, TellsKeeps

\* Not told, and on.
LEMMA PassesKeeps ==
  ASSUME MirrorInv, NEW h \in Bearers, bearer[h].does \in Appliers, bearer[h].at \in Looks, NEW q,
         Goes(h, q), UNCHANGED <<telegram, row, pending, stray, asked>>,
         q \in Errand, q.does = bearer[h].does, q.gives = bearer[h].gives,
         q.value = bearer[h].value, q.at \in {"photo", "write"},
         q.at = "photo" => "photo" \in bearer[h].gives,
         \/ q.found = bearer[h].found /\ q.mixed = bearer[h].mixed
         \/ /\ DOMAIN q.found = DOMAIN bearer[h].found \cup {"photo"}
            /\ \A g \in DOMAIN bearer[h].found \ {"photo"} : q.found[g] = bearer[h].found[g]
            /\ q.mixed = bearer[h].mixed \cup {"photo"} /\ "photo" \in bearer[h].gives
  PROVE  MirrorInv'
<1>1. PICK r : r = bearer[h]
  OBVIOUS
<1>2. /\ r \in Errand /\ FindsInTurn(r) /\ FoundIsSo(r)
      /\ Handles(r) = r.gives /\ r.gives \subseteq Looks
      /\ r.does \notin {"nothing", "sync", "set_2fa", "request", "confirm", "scenario"}
  BY <1>1, ApplyingIs
<1>3. Handles(q) = r.gives
  BY <1>1, HandlesBy
<1>4. FindsInTurn(q)
  BY <1>1, <1>2, <1>3 DEF FindsInTurn, Looks
<1>5. FoundIsSo(q)
  BY <1>1, <1>2 DEF FoundIsSo
<1>6. r.at # "pend"
  BY <1>1 DEF Looks
<1> QED BY <1>1, <1>2, <1>3, <1>4, <1>5, <1>6, GoesOnKeeps DEF ErrandFits

LEMMA Unmoved ==
  MirrorInv => telegram \in [Fields -> Field] /\ \A h \in Bearers : bearer[h] \in Errand
  BY DEF MirrorInv, FieldsTyped, ErrandFits

LEMMA TellNameKeeps ==
  ASSUME MirrorAssumption, MirrorInv, NEW h \in Bearers, TellName(h)
  PROVE  MirrorInv'
<1>1. /\ bearer[h].does \in Appliers /\ bearer[h].at = "name" /\ "name" \in Looks /\ "name" \in Fields
      /\ bearer[h].value \in Field /\ bearer[h].at # "pend"
  BY Unmoved DEF TellName, Applying, Looks, Fields, Errand
<1>2. DOMAIN bearer[h].found = {} /\ Handles(bearer[h]) = bearer[h].gives /\ "name" \in bearer[h].gives
  BY <1>1, ApplyingIs DEF FindsInTurn
<1>3. telegram \in [Fields -> Field]
  BY Unmoved
<1>4. CASE /\ Goes(h, Then(Knows(bearer[h], "name", bearer[h].value), "name"))
           /\ telegram' = [telegram EXCEPT !["name"] = bearer[h].value]
           /\ UNCHANGED <<asked, row, pending, stray>>
  BY <1>1, <1>4, AppliesKeeps DEF TellName
<1>5. CASE BreaksOff(h, {}) /\ UNCHANGED telegram
  BY <1>1, <1>2, <1>3, <1>5, BreaksOffKeeps
<1>6. CASE BreaksOff(h, {"name"}) /\ telegram' = [telegram EXCEPT !["name"] = bearer[h].value]
  <2>1. telegram' \in [Fields -> Field] /\ \A f \in Fields \ {"name"} : telegram'[f] = telegram[f]
    BY <1>1, <1>3, <1>6
  <2> QED BY <1>1, <1>2, <1>6, <2>1, BreaksOffKeeps
<1> QED BY <1>4, <1>5, <1>6 DEF TellName

LEMMA TellNickKeeps ==
  ASSUME MirrorAssumption, MirrorInv, NEW h \in Bearers, TellNick(h)
  PROVE  MirrorInv'
<1>1. /\ bearer[h].does \in Appliers /\ bearer[h].at = "nick" /\ "nick" \in Looks
      /\ bearer[h].at # "pend" /\ bearer[h] \in Errand
  BY Unmoved DEF TellNick, Applying, Looks
<1>2. DOMAIN bearer[h].found \subseteq Looks /\ Handles(bearer[h]) = bearer[h].gives
      /\ DOMAIN bearer[h].found \subseteq bearer[h].gives
      /\ bearer[h].does \notin {"sync", "request", "scenario"}
  BY <1>1, ApplyingIs DEF FindsInTurn
<1>3. CASE Goes(h, Then(bearer[h], "nick")) /\ UNCHANGED <<telegram, asked, row, pending, stray>>
  <2>1. PICK q : q = Then(bearer[h], "nick") OBVIOUS
  <2>2. /\ q \in Errand /\ q.does = bearer[h].does /\ q.gives = bearer[h].gives
        /\ q.value = bearer[h].value /\ q.found = bearer[h].found /\ q.mixed = bearer[h].mixed
        /\ q.at \in {"photo", "write"} /\ (q.at = "photo" => "photo" \in bearer[h].gives)
    BY <1>1, <2>1, ThenAt DEF Looks
  <2> QED BY <1>1, <1>3, <2>1, <2>2, PassesKeeps
<1>4. CASE /\ Goes(h, Then(Knows(bearer[h], "nick", bearer[h].value), "nick"))
           /\ telegram' = [telegram EXCEPT !["nick"] = bearer[h].value]
           /\ UNCHANGED <<asked, row, pending, stray>>
  BY <1>1, <1>4, AppliesKeeps DEF TellNick
<1>5. CASE BreaksOff(h, Told(h)) /\ UNCHANGED telegram
  <2>1. Told(h) = DOMAIN bearer[h].found
    BY <1>2 DEF Told, Fields
  <2>2. "pending" \notin Told(h)
    BY <2>1, <1>2 DEF Looks
  <2> QED BY <1>1, <1>2, <1>5, <2>1, <2>2, Unmoved, BreaksOffKeeps
<1> QED BY <1>3, <1>4, <1>5 DEF TellNick

LEMMA UploadFailsKeeps ==
  ASSUME MirrorAssumption, MirrorInv, NEW h \in Bearers, UploadFails(h) \/ PoolUploadFails(h)
  PROVE  MirrorInv'
<1>1. /\ bearer[h].does \in Appliers /\ bearer[h].at = "photo" /\ "photo" \in Looks
      /\ "photo" \in Fields
      /\ bearer[h] \in Errand /\ UNCHANGED <<telegram, row, pending, stray, asked>>
  BY Unmoved DEF UploadFails, PoolUploadFails, Applying, Looks, Fields
<1>2. "photo" \in bearer[h].gives /\ bearer[h].mixed \subseteq Fields /\ bearer[h].value \in Field
  BY <1>1, ApplyingIs DEF FindsInTurn, Errand
<1>3. CASE UploadFails(h)
  <2>1. PICK q : q = [bearer[h] EXCEPT !.at = "write"] OBVIOUS
  <2>2. /\ q \in Errand /\ q.does = bearer[h].does /\ q.gives = bearer[h].gives
        /\ q.value = bearer[h].value /\ q.found = bearer[h].found /\ q.mixed = bearer[h].mixed
        /\ q.at = "write"
    BY <1>1, <2>1 DEF Errand, Places_
  <2>3. Goes(h, q) BY <1>3, <2>1 DEF UploadFails
  <2> QED BY <1>1, <2>2, <2>3, PassesKeeps
<1>4. CASE PoolUploadFails(h)
  <2>1. PICK k : k = Knows(bearer[h], "photo", bearer[h].value) OBVIOUS
  <2>2. /\ k \in Errand /\ k.does = bearer[h].does /\ k.gives = bearer[h].gives
        /\ k.value = bearer[h].value /\ k.mixed = bearer[h].mixed
        /\ DOMAIN k.found = DOMAIN bearer[h].found \cup {"photo"}
        /\ \A g \in DOMAIN bearer[h].found \ {"photo"} : k.found[g] = bearer[h].found[g]
    BY <1>1, <1>2, <2>1, KnowsOne
  <2>3. PICK q : q = [k EXCEPT !.at = "write", !.mixed = @ \cup {"photo"}] OBVIOUS
  <2>4. /\ q \in Errand /\ q.does = k.does /\ q.gives = k.gives
        /\ q.value = k.value /\ q.found = k.found /\ q.mixed = k.mixed \cup {"photo"}
        /\ q.at = "write"
    BY <1>1, <1>2, <2>2, <2>3 DEF Errand, Places_
  <2>5. Goes(h, q) BY <1>4, <2>1, <2>3 DEF PoolUploadFails
  <2> QED BY <1>1, <1>2, <2>2, <2>4, <2>5, PassesKeeps
<1> QED BY <1>3, <1>4

LEMMA TellPhotoKeeps ==
  ASSUME MirrorInv, NEW h \in Bearers, TellPhoto(h)
  PROVE  MirrorInv'
  BY AppliesKeeps DEF TellPhoto, Looks

LEMMA WriteLooksKeeps ==
  ASSUME MirrorAssumption, MirrorInv, NEW h \in Bearers, WriteLooks(h)
  PROVE  MirrorInv'
<1>1. bearer[h].does # "scenario" /\ bearer[h].at = "write" /\ Concludes(h, bearer[h])
      /\ pending' = pending
  BY ApplyingIs DEF WriteLooks, Applying
<1> QED BY <1>1, ConcludesKeeps
-----------------------------------------------------------------------------
LEMMA BeginSyncKeeps ==
  ASSUME MirrorAssumption, MirrorInv, NEW h \in Bearers, BeginSync(h)
  PROVE  MirrorInv'
<1>1. PICK q : q = [Free EXCEPT !.does = "sync", !.at = "names"]
  OBVIOUS
<1>2. q \in Errand /\ q.does = "sync" /\ q.at = "names" /\ q.found = <<>> /\ q.mixed = {}
  BY <1>1, EmptyFound DEF Free, Errand, Kinds_, Places_, Field
<1>3. FindsInTurn(q)
  BY <1>2, EmptyFound DEF FindsInTurn, Appliers
<1>4. Starts(h, q)
  BY <1>1 DEF BeginSync
<1> QED BY <1>2, <1>3, <1>4, EmptyFound, StartsKeeps

LEMMA SyncingIs ==
  ASSUME MirrorInv, NEW h \in Bearers, bearer[h].does = "sync"
  PROVE  /\ bearer[h] \in Errand /\ FindsInTurn(bearer[h]) /\ FoundIsSo(bearer[h])
         /\ Handles(bearer[h]) = Looks /\ telegram \in [Fields -> Field]
         /\ bearer[h].at # "pend"
  BY HandlesBy DEF MirrorInv, ErrandFits, FieldsTyped, FindsInTurn

\* What sync_profile reads is so.
LEMMA ReadsKeeps ==
  ASSUME MirrorInv, NEW h \in Bearers, bearer[h].does = "sync", NEW q, Goes(h, q),
         UNCHANGED <<telegram, row, pending, stray, asked>>,
         q \in Errand, q.does = "sync", q.at \in {"picture", "write"}, q.mixed = bearer[h].mixed,
         DOMAIN q.found \subseteq Looks,
         \A f \in DOMAIN q.found : q.found[f] = telegram[f]
                                   \/ (f \in DOMAIN bearer[h].found /\ q.found[f] = bearer[h].found[f])
  PROVE  MirrorInv'
<1>1. PICK r : r = bearer[h]
  OBVIOUS
<1>2. /\ r \in Errand /\ FindsInTurn(r) /\ FoundIsSo(r)
      /\ Handles(r) = Looks /\ r.at # "pend" /\ Handles(q) = Looks
  BY <1>1, SyncingIs, HandlesBy
<1>3. FindsInTurn(q)
  BY <1>1, <1>2 DEF FindsInTurn, Appliers
<1>4. FoundIsSo(q)
  BY <1>1, <1>2 DEF FoundIsSo
<1> QED BY <1>1, <1>2, <1>3, <1>4, GoesOnKeeps DEF ErrandFits

LEMMA ReadNamesKeeps ==
  ASSUME MirrorInv, NEW h \in Bearers, ReadNames(h)
  PROVE  MirrorInv'
<1>1. bearer[h].does = "sync" /\ bearer[h].at = "names"
  BY DEF ReadNames, Syncing
<1>2. bearer[h] \in Errand /\ telegram \in [Fields -> Field] /\ DOMAIN bearer[h].found = {}
  BY <1>1, SyncingIs DEF FindsInTurn
<1>3. /\ "name" \in Fields /\ "nick" \in Fields /\ "name" \in Looks /\ "nick" \in Looks
      /\ telegram["name"] \in Field /\ telegram["nick"] \in Field
  BY <1>2 DEF Fields, Looks
<1>4. PICK p : p = [bearer[h] EXCEPT !.at = "picture"]
  OBVIOUS
<1>5. p \in Errand /\ p.does = "sync" /\ p.at = "picture" /\ p.mixed = bearer[h].mixed
      /\ p.found = bearer[h].found
  BY <1>1, <1>2, <1>4 DEF Errand, Places_
<1>6. PICK k : k = Knows(p, "name", telegram["name"])
  OBVIOUS
<1>7. /\ k \in Errand /\ k.does = "sync" /\ k.at = "picture" /\ k.mixed = p.mixed
      /\ DOMAIN k.found = {"name"} /\ k.found["name"] = telegram["name"]
  <2>1. /\ k \in Errand /\ k.does = p.does /\ k.at = p.at /\ k.mixed = p.mixed
        /\ DOMAIN k.found = DOMAIN p.found \cup {"name"} /\ k.found["name"] = telegram["name"]
    BY <1>3, <1>5, <1>6, KnowsOne
  <2> QED BY <2>1, <1>2, <1>5
<1>8. PICK q : q = Knows(k, "nick", telegram["nick"])
  OBVIOUS
<1>9. /\ q \in Errand /\ q.does = "sync" /\ q.at = "picture" /\ q.mixed = p.mixed
      /\ DOMAIN q.found = {"name", "nick"}
      /\ q.found["name"] = telegram["name"] /\ q.found["nick"] = telegram["nick"]
  <2>1. /\ q \in Errand /\ q.does = k.does /\ q.at = k.at /\ q.mixed = k.mixed
        /\ DOMAIN q.found = DOMAIN k.found \cup {"nick"} /\ q.found["nick"] = telegram["nick"]
        /\ \A g \in DOMAIN k.found \ {"nick"} : q.found[g] = k.found[g]
    BY <1>3, <1>7, <1>8, KnowsOne
  <2> QED BY <2>1, <1>7
<1>10. Goes(h, q)
  BY <1>4, <1>6, <1>8 DEF ReadNames
<1>11. /\ DOMAIN q.found \subseteq Looks
       /\ \A f \in DOMAIN q.found :
             q.found[f] = telegram[f] \/ (f \in DOMAIN bearer[h].found /\ q.found[f] = bearer[h].found[f])
  BY <1>3, <1>9
<1>12. UNCHANGED <<telegram, row, pending, stray, asked>>
  BY DEF ReadNames
<1>13. q.at \in {"picture", "write"} /\ q.mixed = bearer[h].mixed
  BY <1>5, <1>9
<1> QED BY <1>1, <1>9, <1>10, <1>11, <1>12, <1>13, ReadsKeeps

LEMMA ReadPictureKeeps ==
  ASSUME MirrorInv, NEW h \in Bearers, ReadPicture(h)
  PROVE  MirrorInv'
<1>1. bearer[h].does = "sync" /\ bearer[h].at = "picture"
      /\ UNCHANGED <<telegram, row, pending, stray, asked>>
  BY DEF ReadPicture, Syncing
<1>2. /\ bearer[h] \in Errand /\ telegram \in [Fields -> Field]
      /\ DOMAIN bearer[h].found \subseteq Looks
  BY <1>1, SyncingIs DEF FindsInTurn
<1>3. PICK p : p = [bearer[h] EXCEPT !.at = "write"]
  OBVIOUS
<1>4. p \in Errand /\ p.does = "sync" /\ p.at = "write" /\ p.mixed = bearer[h].mixed
      /\ p.found = bearer[h].found
  BY <1>1, <1>2, <1>3 DEF Errand, Places_
<1>5. "photo" \in Fields /\ "photo" \in Looks
  BY DEF Fields, Looks
<1>6. PICK q \in Picture(h, p) : Goes(h, q)
  BY <1>3 DEF ReadPicture
<1>7. CASE q = p
  BY <1>1, <1>2, <1>4, <1>6, <1>7, ReadsKeeps
<1>8. CASE q = Knows(p, "photo", telegram["photo"])
  <2>1. /\ q \in Errand /\ q.does = "sync" /\ q.at = "write" /\ q.mixed = bearer[h].mixed
        /\ DOMAIN q.found = DOMAIN p.found \cup {"photo"} /\ q.found["photo"] = telegram["photo"]
        /\ \A g \in DOMAIN p.found \ {"photo"} : q.found[g] = p.found[g]
    BY <1>2, <1>4, <1>5, <1>8, KnowsOne
  <2>2. DOMAIN q.found \subseteq Looks
        /\ \A f \in DOMAIN q.found : q.found[f] = telegram[f]
                                     \/ (f \in DOMAIN bearer[h].found /\ q.found[f] = bearer[h].found[f])
    <3>1. DOMAIN q.found \subseteq Looks BY <1>2, <1>4, <1>5, <2>1
    <3>2. ASSUME NEW f \in DOMAIN q.found, f # "photo"
          PROVE  f \in DOMAIN bearer[h].found /\ q.found[f] = bearer[h].found[f]
      BY <3>2, <1>4, <2>1
    <3>3. ASSUME NEW f \in DOMAIN q.found
          PROVE  q.found[f] = telegram[f] \/ (f \in DOMAIN bearer[h].found /\ q.found[f] = bearer[h].found[f])
      <4>1. CASE f = "photo" BY <4>1, <2>1
      <4>2. CASE f # "photo" BY <4>2, <3>2
      <4> QED BY <4>1, <4>2
    <3> QED BY <3>1, <3>3
  <2> QED BY <1>1, <1>6, <2>1, <2>2, ReadsKeeps
<1> QED BY <1>6, <1>7, <1>8 DEF Picture

LEMMA WriteSyncKeeps ==
  ASSUME MirrorAssumption, MirrorInv, NEW h \in Bearers, WriteSync(h)
  PROVE  MirrorInv'
  BY ConcludesKeeps DEF WriteSync, Syncing
-----------------------------------------------------------------------------
LEMMA BeginSet2faKeeps ==
  ASSUME MirrorAssumption, MirrorInv, NEW h \in Bearers, BeginSet2fa(h)
  PROVE  MirrorInv'
<1>1. PICK v \in Field, typed \in SUBSET {"typed"} :
         Starts(h, [Free EXCEPT !.does = "set_2fa", !.at = "read", !.gives = typed, !.value = v])
  BY DEF BeginSet2fa
<1>2. PICK q : q = [Free EXCEPT !.does = "set_2fa", !.at = "read", !.gives = typed, !.value = v]
  OBVIOUS
<1>3. q \in Errand /\ q.does = "set_2fa" /\ q.at = "read" /\ q.found = <<>> /\ q.mixed = {}
  BY <1>2, EmptyFound DEF Free, Errand, Kinds_, Places_, Field
<1>4. FindsInTurn(q)
  BY <1>3, EmptyFound DEF FindsInTurn, Appliers
<1> QED BY <1>1, <1>2, <1>3, <1>4, EmptyFound, StartsKeeps

LEMMA SettingIs ==
  ASSUME MirrorInv, NEW h \in Bearers, bearer[h].does = "set_2fa"
  PROVE  /\ bearer[h] \in Errand /\ FindsInTurn(bearer[h]) /\ FoundIsSo(bearer[h])
         /\ Handles(bearer[h]) = {"word"} /\ telegram \in [Fields -> Field]
         /\ bearer[h].at # "pend" /\ "word" \in Fields /\ bearer[h].value \in Field
  BY HandlesBy DEF MirrorInv, ErrandFits, FieldsTyped, FindsInTurn, Fields, Errand

LEMMA ReadWordKeeps ==
  ASSUME MirrorAssumption, MirrorInv, NEW h \in Bearers, ReadWord(h)
  PROVE  MirrorInv'
<1>1. bearer[h].does = "set_2fa" /\ bearer[h].at = "read"
  BY DEF ReadWord, Setting
<1>2. PICK r : r = bearer[h]
  OBVIOUS
<1>3. /\ r \in Errand /\ FindsInTurn(r) /\ FoundIsSo(r) /\ Handles(r) = {"word"}
      /\ telegram \in [Fields -> Field] /\ DOMAIN r.found = {} /\ r.at # "pend"
  BY <1>1, <1>2, SettingIs DEF FindsInTurn
<1>4. CASE BreaksOff(h, {}) /\ UNCHANGED telegram
  BY <1>1, <1>2, <1>3, <1>4, BreaksOffKeeps
<1>5. ASSUME NEW g \in SUBSET {"right"}, Goes(h, [r EXCEPT !.at = "edit", !.gives = g]),
             UNCHANGED <<telegram, asked, row, pending, stray>>
      PROVE  MirrorInv'
  <2>1. PICK q : q = [r EXCEPT !.at = "edit", !.gives = g] OBVIOUS
  <2>2. g \subseteq {"right"} OBVIOUS
  <2>3. /\ q \in Errand /\ q.does = r.does /\ q.at = "edit" /\ q.found = r.found
        /\ q.mixed = r.mixed
    BY <1>3, <2>1, <2>2 DEF Errand, Places_
  <2>4. Handles(q) = {"word"} BY <1>1, <1>2, <2>3, HandlesBy
  <2>5. FindsInTurn(q)
    BY <1>1, <1>2, <1>3, <2>3, <2>4 DEF FindsInTurn, Appliers
  <2>6. FoundIsSo(q)
    BY <1>1, <1>2, <1>3, <2>3 DEF FoundIsSo
  <2>7. Goes(h, q) BY <1>5, <2>1
  <2> QED BY <1>2, <1>3, <1>5, <2>3, <2>4, <2>5, <2>6, <2>7, GoesOnKeeps DEF ErrandFits
<1>6. CASE \E current \in IF "typed" \in r.gives THEN Field ELSE {row["word"]} :
              /\ Goes(h, [r EXCEPT !.at = "edit",
                                   !.gives = IF current = telegram["word"] THEN {"right"} ELSE {}])
              /\ UNCHANGED <<telegram, asked, row, pending, stray, errands, hitches>>
  <2>1. PICK current : Goes(h, [r EXCEPT !.at = "edit",
                                   !.gives = IF current = telegram["word"] THEN {"right"} ELSE {}])
    BY <1>6
  <2>2. PICK g : g = IF current = telegram["word"] THEN {"right"} ELSE {} OBVIOUS
  <2>3. g \in SUBSET {"right"} BY <2>2
  <2> QED BY <1>5, <1>6, <2>1, <2>2, <2>3
<1> QED BY <1>2, <1>4, <1>6 DEF ReadWord

LEMMA Edit2faKeeps ==
  ASSUME MirrorAssumption, MirrorInv, NEW h \in Bearers, Edit2fa(h)
  PROVE  MirrorInv'
<1>1. bearer[h].does = "set_2fa" /\ bearer[h].at = "edit"
  BY DEF Edit2fa, Setting
<1>2. PICK r : r = bearer[h]
  OBVIOUS
<1>3. /\ r \in Errand /\ FindsInTurn(r) /\ FoundIsSo(r) /\ Handles(r) = {"word"} /\ "word" \in Fields
      /\ telegram \in [Fields -> Field] /\ DOMAIN r.found = {} /\ r.at # "pend" /\ r.value \in Field
  BY <1>1, <1>2, SettingIs DEF FindsInTurn
<1>4. CASE /\ Goes(h, Knows([r EXCEPT !.at = "write"], "word", r.value))
           /\ telegram' = [telegram EXCEPT !["word"] = r.value]
           /\ UNCHANGED <<asked, row, pending, stray>>
  <2>1. PICK p : p = [r EXCEPT !.at = "write"] OBVIOUS
  <2>2. p \in Errand /\ p.does = r.does /\ p.at = "write" /\ p.mixed = r.mixed /\ p.found = r.found
    BY <1>3, <2>1 DEF Errand, Places_
  <2>3. PICK q : q = Knows(p, "word", r.value) OBVIOUS
  <2>4. /\ q \in Errand /\ q.does = r.does /\ q.at = "write" /\ q.mixed = r.mixed
        /\ DOMAIN q.found = {"word"} /\ q.found["word"] = r.value
    BY <1>3, <2>2, <2>3, KnowsOne
  <2>5. Handles(q) = {"word"} BY <1>1, <1>2, <2>4, HandlesBy
  <2>6. FindsInTurn(q)
    BY <1>1, <1>2, <1>3, <2>4, <2>5 DEF FindsInTurn, Appliers
  <2>7. Goes(h, q) BY <1>4, <2>1, <2>3
  <2>8. /\ "word" \in Handles(bearer[h]) /\ r.value \in Field /\ Handles(q) \subseteq Handles(bearer[h])
        /\ q.does = bearer[h].does /\ q.does \notin {"sync", "scenario"} /\ q.mixed = bearer[h].mixed
        /\ DOMAIN q.found = DOMAIN bearer[h].found \cup {"word"}
        /\ \A g \in DOMAIN bearer[h].found \ {"word"} : q.found[g] = bearer[h].found[g]
        /\ q.at # "code" /\ bearer[h].at # "pend"
    BY <1>1, <1>2, <1>3, <2>4, <2>5
  <2> QED BY <1>4, <2>4, <2>6, <2>7, <2>8, TellsKeeps
<1>5. CASE BreaksOff(h, {}) /\ UNCHANGED telegram
  BY <1>1, <1>2, <1>3, <1>5, BreaksOffKeeps
<1>6. CASE BreaksOff(h, {"word"}) /\ telegram' = [telegram EXCEPT !["word"] = r.value]
  <2>1. telegram' \in [Fields -> Field] /\ \A f \in Fields \ {"word"} : telegram'[f] = telegram[f]
    BY <1>3, <1>6
  <2> QED BY <1>1, <1>2, <1>3, <1>6, <2>1, BreaksOffKeeps
<1> QED BY <1>2, <1>4, <1>5, <1>6 DEF Edit2fa

LEMMA WriteWordKeeps ==
  ASSUME MirrorAssumption, MirrorInv, NEW h \in Bearers, WriteWord(h)
  PROVE  MirrorInv'
  BY ConcludesKeeps DEF WriteWord, Setting
-----------------------------------------------------------------------------
LEMMA BeginRequestKeeps ==
  ASSUME MirrorAssumption, MirrorInv, NEW h \in Bearers, BeginRequest(h)
  PROVE  MirrorInv'
<1>1. PICK v \in Values : Starts(h, [Free EXCEPT !.does = "request", !.at = "ask", !.value = v])
  BY DEF BeginRequest
<1>2. PICK q : q = [Free EXCEPT !.does = "request", !.at = "ask", !.value = v]
  OBVIOUS
<1>3. q \in Errand /\ q.does = "request" /\ q.at = "ask" /\ q.found = <<>> /\ q.mixed = {}
  BY <1>2, EmptyFound DEF Free, Errand, Kinds_, Places_, Field
<1>4. FindsInTurn(q)
  BY <1>3, EmptyFound DEF FindsInTurn, Appliers
<1> QED BY <1>1, <1>2, <1>3, <1>4, EmptyFound, StartsKeeps

LEMMA BeginConfirmKeeps ==
  ASSUME MirrorAssumption, MirrorInv, NEW h \in Bearers, BeginConfirm(h)
  PROVE  MirrorInv'
<1>1. PICK q : q = [Free EXCEPT !.does = "confirm", !.at = "code", !.value = pending]
  OBVIOUS
<1>2. pending \in Field /\ pending # Nothing
  BY DEF BeginConfirm, MirrorInv, FieldsTyped
<1>3. q \in Errand /\ q.does = "confirm" /\ q.at = "code" /\ q.found = <<>> /\ q.mixed = {}
      /\ q.value = pending
  BY <1>1, <1>2, EmptyFound DEF Free, Errand, Kinds_, Places_, Field
<1>4. FindsInTurn(q)
  BY <1>3, EmptyFound DEF FindsInTurn, Appliers
<1>5. Starts(h, q)
  BY <1>1 DEF BeginConfirm
<1> QED BY <1>2, <1>3, <1>4, <1>5, EmptyFound, StartsKeeps

LEMMA BeginScenarioKeeps ==
  ASSUME MirrorAssumption, MirrorInv, NEW h \in Bearers, BeginScenario(h)
  PROVE  MirrorInv'
<1>1. pending \in Field /\ row["mail"] \in Field /\ "mail" \in Fields
  BY DEF MirrorInv, FieldsTyped, Fields
<1>2. PICK p : p = [Free EXCEPT !.does = "scenario", !.at = "write", !.value = pending]
  OBVIOUS
<1>3. /\ p \in Errand /\ p.does = "scenario" /\ p.at = "write" /\ p.found = <<>> /\ p.mixed = {}
      /\ p.value = pending
  BY <1>1, <1>2, EmptyFound DEF Free, Errand, Kinds_, Places_, Field
<1>4. PICK q : q = Knows(p, "mail", row["mail"])
  OBVIOUS
<1>5. /\ q \in Errand /\ q.does = p.does /\ q.at = p.at /\ q.value = p.value /\ q.mixed = p.mixed
      /\ DOMAIN q.found = DOMAIN p.found \cup {"mail"} /\ q.found["mail"] = row["mail"]
  BY <1>1, <1>3, <1>4, KnowsOne
<1>6. FindsInTurn(q)
  BY <1>3, <1>5, EmptyFound, HandlesBy DEF FindsInTurn, Appliers, Looks
<1>7. Starts(h, q)
  BY <1>2, <1>4 DEF BeginScenario
<1> QED BY <1>3, <1>5, <1>6, <1>7, StartsKeeps

LEMMA MailIs ==
  ASSUME MirrorInv, NEW h \in Bearers, bearer[h].does \in {"request", "confirm", "scenario"}
  PROVE  /\ bearer[h] \in Errand /\ FindsInTurn(bearer[h]) /\ FoundIsSo(bearer[h])
         /\ Handles(bearer[h]) = {"mail"} /\ bearer[h].mixed \subseteq {"mail"}
         /\ DOMAIN bearer[h].found \subseteq {"mail"}
         /\ telegram \in [Fields -> Field] /\ row \in [Fields -> Field] /\ asked \in Field
         /\ pending \in Field /\ stray \subseteq Fields \cup {"pending"}
         /\ "mail" \in Fields /\ "pending" \notin Fields
         /\ bearer[h].value \in Field /\ bearer[h].does \notin Appliers
  BY HandlesBy DEF MirrorInv, ErrandFits, FieldsTyped, FindsInTurn, Fields, Looks, Errand, Appliers

\* An errand of the email: what is to be seen of it.
LEMMA MailKeeps ==
  ASSUME MirrorInv, NEW h \in Bearers, bearer[h].does \in {"request", "confirm", "scenario"},
         NEW q, Goes(h, q), q \in Errand, FindsInTurn(q), FoundIsSo(q)',
         Handles(q) \subseteq {"mail"}, Handles(q) \cap bearer[h].mixed \subseteq q.mixed,
         telegram' \in [Fields -> Field], row' \in [Fields -> Field],
         asked' \in Field, pending' \in Field,
         \A f \in Fields \ {"mail"} :
            telegram'[f] = telegram[f] /\ row'[f] = row[f] /\ (f \in stray' <=> f \in stray),
         stray' \subseteq Fields \cup {"pending"},
         \/ "mail" \in stray' \/ row'["mail"] = telegram'["mail"] \/ WillWrite(q, "mail")
         \/ /\ telegram' = telegram /\ row' = row /\ stray' = stray
            /\ ~ WillWrite(bearer[h], "mail"),
         CodeAwaited'
  PROVE  MirrorInv'
<1>1. bearer'[h] = q /\ bearer' = [g \in Bearers |-> IF g = h THEN bearer'[h] ELSE bearer[g]]
  BY Gone
<1>2. Handles(bearer[h]) = {"mail"} /\ "mail" \in Fields
  BY MailIs
<1>3. FieldKept("mail")'
  <2>1. CASE "mail" \in stray' \/ row'["mail"] = telegram'["mail"] \/ WillWrite(q, "mail")
    BY <1>1, <2>1 DEF FieldKept
  <2>2. CASE telegram' = telegram /\ row' = row /\ stray' = stray /\ ~ WillWrite(bearer[h], "mail")
    <3>1. FieldKept("mail") BY <1>2 DEF MirrorInv
    <3>2. \A g \in Bearers : WillWrite(bearer[g], "mail") => bearer'[g] = bearer[g]
      BY <1>1, <2>2
    <3>3. CASE \E g \in Bearers : WillWrite(bearer[g], "mail")
      BY <3>2, <3>3 DEF FieldKept
    <3>4. CASE ~ \E g \in Bearers : WillWrite(bearer[g], "mail")
      BY <2>2, <3>1, <3>4 DEF FieldKept
    <3> QED BY <3>3, <3>4
  <2> QED BY <2>1, <2>2
<1>4. ErrandFits(bearer[h])'
  BY <1>1 DEF ErrandFits
<1>5. FieldsTyped'
  BY DEF FieldsTyped
<1>6. ErrandSteps(h)
  BY <1>1, <1>2, <1>3, <1>4, <1>5 DEF ErrandSteps
<1> QED BY <1>6, ErrandStepKeeps

LEMMA AskCodeKeeps ==
  ASSUME MirrorAssumption, MirrorInv, NEW h \in Bearers, AskCode(h)
  PROVE  MirrorInv'
<1>1. bearer[h].does = "request" /\ bearer[h].at = "ask"
  BY DEF AskCode
<1>2. PICK r : r = bearer[h]
  OBVIOUS
<1>3. /\ r \in Errand /\ FindsInTurn(r) /\ FoundIsSo(r)
      /\ Handles(r) = {"mail"} /\ r.mixed \subseteq {"mail"} /\ DOMAIN r.found = {}
      /\ telegram \in [Fields -> Field] /\ row \in [Fields -> Field] /\ asked \in Field
      /\ pending \in Field /\ stray \subseteq Fields \cup {"pending"}
      /\ "mail" \in Fields /\ "pending" \notin Fields /\ r.value \in Field /\ r.does \notin Appliers
  BY <1>1, <1>2, MailIs DEF FindsInTurn
<1>4. PICK p : p = [r EXCEPT !.at = "pend"]
  OBVIOUS
<1>5. p \in Errand /\ p.does = "request" /\ p.at = "pend" /\ p.mixed = r.mixed /\ p.found = r.found
      /\ p.value = r.value
  BY <1>1, <1>2, <1>3, <1>4 DEF Errand, Places_
<1>6. CASE /\ asked' = r.value /\ Goes(h, p)
           /\ UNCHANGED <<telegram, row, pending, stray, errands>>
  <2>1. Handles(p) = {"mail"} BY <1>5, HandlesBy
  <2>2. FindsInTurn(p) BY <1>1, <1>2, <1>3, <1>5, <2>1 DEF FindsInTurn, Appliers
  <2>3. FoundIsSo(p)' BY <1>3, <1>5, <1>6 DEF FoundIsSo
  <2>4. bearer'[h] = p BY <1>6, Gone
  <2>5. CodeAwaited' BY <1>5, <2>4 DEF CodeAwaited
  <2>6. ~ WillWrite(bearer[h], "mail") BY <1>2, <1>3 DEF WillWrite
  <2> QED BY <1>1, <1>2, <1>3, <1>5, <1>6, <2>1, <2>2, <2>3, <2>5, <2>6, MailKeeps
<1>7. CASE /\ telegram' = [telegram EXCEPT !["mail"] = r.value]
           /\ Goes(h, Knows(p, "mail", r.value))
           /\ UNCHANGED <<asked, row, pending, stray, errands>>
  <2>1. PICK q : q = Knows(p, "mail", r.value) OBVIOUS
  <2>2. /\ q \in Errand /\ q.does = p.does /\ q.at = p.at /\ q.mixed = p.mixed /\ q.value = p.value
        /\ DOMAIN q.found = DOMAIN p.found \cup {"mail"} /\ q.found["mail"] = r.value
    <3>1. p \in Errand /\ "mail" \in Fields /\ r.value \in Field BY <1>3, <1>5
    <3> QED BY <2>1, <3>1, KnowsOne
  <2>3. DOMAIN q.found = {"mail"} /\ q.does = "request" BY <1>3, <1>5, <2>2
  <2>4. Handles(q) = {"mail"} BY <2>3, HandlesBy
  <2>5. FindsInTurn(q) BY <1>1, <1>2, <1>3, <1>5, <2>2, <2>3, <2>4 DEF FindsInTurn, Appliers
  <2>6. telegram' \in [Fields -> Field] /\ telegram'["mail"] = r.value
        /\ \A f \in Fields \ {"mail"} : telegram'[f] = telegram[f]
    BY <1>3, <1>7
  <2>7. FoundIsSo(q)' BY <2>2, <2>3, <2>6 DEF FoundIsSo
  <2>8. Goes(h, q) BY <1>7, <2>1
  <2>9. bearer'[h] = q BY <2>8, Gone
  <2>10. CodeAwaited' BY <1>5, <2>2, <2>9 DEF CodeAwaited
  <2>11. WillWrite(q, "mail") BY <2>3 DEF WillWrite
  <2>12. Handles(q) \cap bearer[h].mixed \subseteq q.mixed BY <1>2, <1>5, <2>2
  <2> QED BY <1>1, <1>3, <1>7, <2>2, <2>4, <2>5, <2>6, <2>7, <2>8, <2>10, <2>11, <2>12, MailKeeps
<1>8. CASE BreaksOff(h, {}) /\ UNCHANGED telegram
  BY <1>1, <1>2, <1>3, <1>8, BreaksOffKeeps
<1> QED BY <1>2, <1>4, <1>6, <1>7, <1>8 DEF AskCode

LEMMA PendKeeps ==
  ASSUME MirrorAssumption, MirrorInv, NEW h \in Bearers, Pend(h)
  PROVE  MirrorInv'
<1>1. bearer[h].does = "request" /\ bearer[h].at = "pend"
  BY DEF Pend
<1>2. PICK r : r = bearer[h]
  OBVIOUS
<1>3. /\ r \in Errand /\ FindsInTurn(r) /\ FoundIsSo(r)
      /\ Handles(r) = {"mail"} /\ r.mixed \subseteq {"mail"} /\ DOMAIN r.found \subseteq {"mail"}
      /\ telegram \in [Fields -> Field] /\ row \in [Fields -> Field] /\ asked \in Field
      /\ pending \in Field /\ stray \subseteq Fields \cup {"pending"}
      /\ "mail" \in Fields /\ "pending" \notin Fields /\ r.value \in Field
  BY <1>1, <1>2, MailIs
<1>4. /\ IF DOMAIN r.found = {} THEN pending' = r.value /\ UNCHANGED row
         ELSE pending' = Nothing /\ row' = [row EXCEPT !["mail"] = r.value]
      /\ stray' = (stray \ (DOMAIN r.found \cup {"pending"})) \cup (r.mixed \cap DOMAIN r.found)
                   \cup (IF r.mixed = {} THEN {} ELSE {"pending"})
      /\ Goes(h, Free)
      /\ UNCHANGED <<telegram, asked, errands, hitches>>
  BY <1>2 DEF Pend
<1>5. Free \in Errand /\ FindsInTurn(Free) /\ Handles(Free) = {}
  BY FreeErrand
<1>6. FoundIsSo(Free)'
  BY EmptyFound DEF FoundIsSo, Free
<1>7. Nothing \in Field
  BY DEF Field
<1>8. /\ row' \in [Fields -> Field] /\ asked' \in Field /\ pending' \in Field
      /\ \A f \in Fields \ {"mail"} : row'[f] = row[f] /\ (f \in stray' <=> f \in stray)
  BY <1>3, <1>4, <1>7
<1>9. stray' \subseteq Fields \cup {"pending"}
  BY <1>3, <1>4
<1>10. CodeAwaited'
  <2>1. CASE DOMAIN r.found = {} /\ r.mixed = {}
    BY <1>1, <1>2, <1>3, <1>4, <2>1 DEF FoundIsSo, CodeAwaited
  <2>2. CASE r.mixed # {}
    BY <1>4, <2>2 DEF CodeAwaited
  <2>3. CASE DOMAIN r.found # {}
    BY <1>4, <2>3 DEF CodeAwaited
  <2> QED BY <2>1, <2>2, <2>3
<1>11. \/ "mail" \in stray' \/ row'["mail"] = telegram'["mail"]
       \/ telegram' = telegram /\ row' = row /\ ~ WillWrite(r, "mail") /\ DOMAIN r.found = {}
  <2>1. CASE DOMAIN r.found = {} BY <1>4, <2>1 DEF WillWrite
  <2>2. CASE DOMAIN r.found # {}
    <3>1. DOMAIN r.found = {"mail"} BY <1>3, <2>2
    <3>2. r.found["mail"] = r.value BY <1>1, <1>2, <1>3, <3>1 DEF FindsInTurn
    <3>3. CASE "mail" \in r.mixed BY <1>4, <3>1, <3>3
    <3>4. CASE "mail" \notin r.mixed
      <4>1. telegram["mail"] = r.value
        BY <1>1, <1>2, <1>3, <3>1, <3>2, <3>4 DEF FoundIsSo
      <4>2. row'["mail"] = r.value BY <1>3, <1>4, <2>2
      <4> QED BY <4>1, <4>2, <1>4
    <3> QED BY <3>3, <3>4
  <2> QED BY <2>1, <2>2
<1>12. bearer'[h] = Free /\ bearer' = [g \in Bearers |-> IF g = h THEN bearer'[h] ELSE bearer[g]]
  BY <1>4, Gone
<1>13. FieldKept("mail")'
  <2>1. CASE "mail" \in stray' \/ row'["mail"] = telegram'["mail"] BY <2>1 DEF FieldKept
  <2>2. CASE telegram' = telegram /\ row' = row /\ ~ WillWrite(r, "mail") /\ DOMAIN r.found = {}
    <3>1. FieldKept("mail") BY <1>3 DEF MirrorInv
    <3>2. \A g \in Bearers : WillWrite(bearer[g], "mail") => bearer'[g] = bearer[g]
      BY <1>2, <1>12, <2>2
    <3>3. "mail" \in stray => "mail" \in stray' BY <1>3, <1>4, <2>2
    <3>4. CASE \E g \in Bearers : WillWrite(bearer[g], "mail")
      BY <3>2, <3>4 DEF FieldKept
    <3>5. CASE ~ \E g \in Bearers : WillWrite(bearer[g], "mail")
      BY <2>2, <3>1, <3>3, <3>5 DEF FieldKept
    <3> QED BY <3>4, <3>5
  <2> QED BY <1>11, <2>1, <2>2
<1>14. ErrandFits(bearer[h])'
  BY <1>5, <1>6, <1>12 DEF ErrandFits
<1>15. FieldsTyped'
  BY <1>3, <1>4, <1>8, <1>9 DEF FieldsTyped
<1>16. ErrandSteps(h)
  BY <1>2, <1>3, <1>4, <1>5, <1>8, <1>10, <1>12, <1>13, <1>14, <1>15 DEF ErrandSteps
<1> QED BY <1>16, ErrandStepKeeps

LEMMA ConfirmCodeKeeps ==
  ASSUME MirrorAssumption, MirrorInv, NEW h \in Bearers, ConfirmCode(h)
  PROVE  MirrorInv'
<1>1. bearer[h].does = "confirm" /\ bearer[h].at = "code"
  BY DEF ConfirmCode
<1>2. PICK r : r = bearer[h]
  OBVIOUS
<1>3. /\ r \in Errand /\ FindsInTurn(r) /\ FoundIsSo(r)
      /\ Handles(r) = {"mail"} /\ r.mixed \subseteq {"mail"} /\ DOMAIN r.found = {}
      /\ telegram \in [Fields -> Field] /\ row \in [Fields -> Field] /\ asked \in Field
      /\ pending \in Field /\ stray \subseteq Fields \cup {"pending"}
      /\ "mail" \in Fields /\ "pending" \notin Fields /\ r.value \in Field /\ r.does \notin Appliers
  BY <1>1, <1>2, MailIs DEF FindsInTurn
<1>4. CASE /\ asked # Nothing
           /\ telegram' = [telegram EXCEPT !["mail"] = asked] /\ asked' = Nothing
           /\ Goes(h, Knows([r EXCEPT !.at = "write",
                                      !.mixed = IF "pending" \in stray THEN {"mail"} ELSE @],
                            "mail", r.value))
           /\ UNCHANGED <<row, pending, stray, errands>>
  <2>1. PICK m : m = IF "pending" \in stray THEN {"mail"} ELSE r.mixed OBVIOUS
  <2>2. m \subseteq Fields /\ r.mixed \subseteq m /\ m \subseteq {"mail"} BY <1>3, <2>1
  <2>3. PICK p : p = [r EXCEPT !.at = "write", !.mixed = m] OBVIOUS
  <2>4. p \in Errand /\ p.does = "confirm" /\ p.at = "write" /\ p.mixed = m /\ p.found = r.found
        /\ p.value = r.value
    BY <1>1, <1>2, <1>3, <2>2, <2>3 DEF Errand, Places_
  <2>5. PICK q : q = Knows(p, "mail", r.value) OBVIOUS
  <2>6. /\ q \in Errand /\ q.does = p.does /\ q.at = p.at /\ q.mixed = p.mixed /\ q.value = p.value
        /\ DOMAIN q.found = DOMAIN p.found \cup {"mail"} /\ q.found["mail"] = r.value
    <3>1. p \in Errand /\ "mail" \in Fields /\ r.value \in Field BY <1>3, <2>4
    <3> QED BY <2>5, <3>1, KnowsOne
  <2>7. DOMAIN q.found = {"mail"} /\ q.does = "confirm" BY <1>3, <2>4, <2>6
  <2>8. Handles(q) = {"mail"} BY <2>7, HandlesBy
  <2>9. FindsInTurn(q) BY <2>2, <2>4, <2>6, <2>7, <2>8 DEF FindsInTurn, Appliers
  <2>10. telegram' \in [Fields -> Field] /\ telegram'["mail"] = asked
         /\ \A f \in Fields \ {"mail"} : telegram'[f] = telegram[f]
    BY <1>3, <1>4
  <2>11. "mail" \notin m => asked = r.value
    <3>1. "mail" \notin m => r.mixed = {} /\ "pending" \notin stray BY <1>3, <2>1
    <3> QED BY <1>1, <1>2, <1>3, <1>4, <3>1 DEF FoundIsSo
  <2>12. FoundIsSo(q)' BY <2>4, <2>6, <2>7, <2>10, <2>11 DEF FoundIsSo
  <2>13. [r EXCEPT !.at = "write", !.mixed = IF "pending" \in stray THEN {"mail"} ELSE @] = p
    BY <2>1, <2>3
  <2>14. Goes(h, q) BY <1>4, <2>5, <2>13
  <2>15. CodeAwaited' BY <1>4 DEF CodeAwaited
  <2>16. WillWrite(q, "mail") BY <2>7 DEF WillWrite
  <2>17. Handles(q) \cap bearer[h].mixed \subseteq q.mixed BY <1>2, <2>2, <2>4, <2>6
  <2>18. asked' \in Field BY <1>4 DEF Field
  <2> QED BY <1>1, <1>3, <1>4, <2>6, <2>8, <2>9, <2>10, <2>12, <2>14, <2>15, <2>16, <2>17, <2>18,
             MailKeeps
<1>5. CASE BreaksOff(h, {}) /\ UNCHANGED telegram
  BY <1>1, <1>2, <1>3, <1>5, BreaksOffKeeps
<1> QED BY <1>2, <1>4, <1>5 DEF ConfirmCode

LEMMA WriteMailKeeps ==
  ASSUME MirrorAssumption, MirrorInv, NEW h \in Bearers, WriteMail(h)
  PROVE  MirrorInv'
<1>1. Handles(bearer[h]) = {"mail"}
  BY MailIs DEF WriteMail
<1> QED BY <1>1, ConcludesKeeps DEF WriteMail

LEMMA WriteMetaKeeps ==
  ASSUME MirrorAssumption, MirrorInv, NEW h \in Bearers, WriteMeta(h)
  PROVE  MirrorInv'
<1>1. bearer[h].does = "scenario" /\ bearer[h].at = "write"
  BY DEF WriteMeta
<1>2. PICK r : r = bearer[h]
  OBVIOUS
<1>3. /\ r \in Errand /\ FindsInTurn(r) /\ FoundIsSo(r)
      /\ Handles(r) = {"mail"} /\ r.mixed \subseteq {"mail"} /\ DOMAIN r.found = {"mail"}
      /\ telegram \in [Fields -> Field] /\ row \in [Fields -> Field] /\ asked \in Field
      /\ pending \in Field /\ stray \subseteq Fields \cup {"pending"}
      /\ "mail" \in Fields /\ "pending" \notin Fields /\ r.value \in Field
  BY <1>1, <1>2, MailIs DEF FindsInTurn
<1>4. /\ pending' = r.value /\ row' = [row EXCEPT !["mail"] = r.found["mail"]]
      /\ stray' = stray \cup (IF r.mixed = {} THEN {} ELSE {"mail", "pending"})
      /\ Goes(h, Free)
      /\ UNCHANGED <<telegram, asked, errands, hitches>>
  BY <1>2 DEF WriteMeta
<1>5. Free \in Errand /\ FindsInTurn(Free) /\ Handles(Free) = {}
  BY FreeErrand
<1>6. FoundIsSo(Free)'
  BY EmptyFound DEF FoundIsSo, Free
<1>7. r.found["mail"] \in Field
  BY <1>3 DEF Errand, Found
<1>8. /\ row' \in [Fields -> Field] /\ pending' \in Field /\ asked' \in Field
      /\ \A f \in Fields \ {"mail"} : row'[f] = row[f] /\ (f \in stray' <=> f \in stray)
  BY <1>3, <1>4, <1>7
<1>9. stray' \subseteq Fields \cup {"pending"}
  BY <1>3, <1>4
<1>10. r.mixed = {} => row' = row /\ pending' = pending /\ stray' = stray
  <2>1. r.mixed = {} => r.found["mail"] = row["mail"] /\ r.value = pending
    BY <1>1, <1>2, <1>3 DEF FoundIsSo
  <2> QED BY <1>3, <1>4, <2>1
<1>11. CodeAwaited'
  <2>1. bearer' = [g \in Bearers |-> IF g = h THEN Free ELSE bearer[g]]
    BY <1>4, Gone
  <2> QED BY <1>1, <1>4, <1>10, <2>1 DEF CodeAwaited, MirrorInv
<1>12. "mail" \in stray' \/ (telegram' = telegram /\ row' = row /\ stray' = stray)
  BY <1>4, <1>10
<1>13. ~ WillWrite(bearer[h], "mail")
  BY <1>1 DEF WillWrite
<1> QED BY <1>1, <1>3, <1>4, <1>5, <1>6, <1>8, <1>9, <1>11, <1>12, <1>13, MailKeeps

LEMMA DiesKeeps ==
  ASSUME MirrorAssumption, MirrorInv, NEW h \in Bearers, Dies(h)
  PROVE  MirrorInv'
<1>1. PICK r : r = bearer[h]
  OBVIOUS
<1>2. r \in Errand /\ FindsInTurn(r)
  BY <1>1 DEF MirrorInv, ErrandFits
<1>3. PICK lost : lost = Told(h) \cup (IF r.at # "pend" THEN {} ELSE {"pending"} \cup DOMAIN r.found)
  OBVIOUS
<1>4. BreaksOff(h, lost) /\ telegram' = telegram
  BY <1>1, <1>3 DEF Dies
<1>5. DOMAIN r.found \subseteq Handles(r) /\ Handles(r) \subseteq Fields
  BY <1>2, HandlesFields DEF FindsInTurn
<1>6. "pending" \notin Fields
  BY DEF Fields, Looks
<1>7. lost \subseteq Handles(r) \cup {"pending"}
  BY <1>1, <1>3, <1>5 DEF Told
<1>8. "pending" \in lost => "mail" \in Handles(r)
  <2>1. r.at = "pend" => "mail" \in Handles(r) BY <1>2, HandlesBy DEF FindsInTurn
  <2>2. "pending" \notin Told(h) BY <1>6 DEF Told
  <2> QED BY <1>3, <2>1, <2>2
<1>9. r.does \notin {"sync", "scenario"} => DOMAIN r.found \subseteq lost
  <2>1. CASE r.does = "request"
    <3>1. CASE r.at = "pend" BY <1>3, <3>1
    <3>2. CASE r.at = "ask" BY <1>2, <3>2 DEF FindsInTurn
    <3> QED BY <1>2, <2>1, <3>1, <3>2 DEF FindsInTurn
  <2>2. CASE r.does # "request"
    BY <1>1, <1>3, <1>5, <2>2 DEF Told
  <2> QED BY <2>1, <2>2
<1>10. r.at = "pend" => "pending" \in lost
  BY <1>3
<1> QED BY <1>1, <1>4, <1>7, <1>8, <1>9, <1>10, Unmoved, BreaksOffKeeps
-----------------------------------------------------------------------------
LEMMA MirrorInitInv == MirrorAssumption /\ MirrorInit => MirrorInv
<1> SUFFICES ASSUME MirrorAssumption, MirrorInit PROVE MirrorInv
  OBVIOUS
<1>1. /\ row = [f \in Fields |-> Nothing] /\ asked = Nothing /\ pending = Nothing
      /\ bearer = [h \in Bearers |-> Free]
  BY DEF MirrorInit
<1>9. PICK had \in {{}, {"name"}, Fields}, v \in Values :
         telegram = [f \in Fields |-> IF f \in had THEN v ELSE Nothing] /\ stray = had
  BY DEF MirrorInit
<1>2. Free \in Errand /\ FindsInTurn(Free) /\ Handles(Free) = {}
  BY FreeErrand
<1>3. FoundIsSo(Free)
  BY EmptyFound DEF FoundIsSo, Free
<1>4. Nothing \in Field
  BY DEF Field
<1>5. FieldsTyped
  <2>1. had \subseteq Fields BY DEF Fields, Looks
  <2>2. v \in Field BY DEF Field
  <2> QED BY <1>1, <1>4, <1>9, <2>1, <2>2 DEF FieldsTyped
<1>6. \A h, g \in Bearers : ErrandsApart(bearer[h], bearer[g])
  BY <1>1, <1>2 DEF ErrandsApart
<1>7. \A f \in Fields : FieldKept(f)
  BY <1>1, <1>9 DEF FieldKept
<1>8. CodeAwaited
  BY <1>1 DEF CodeAwaited
<1> QED BY <1>1, <1>2, <1>3, <1>5, <1>6, <1>7, <1>8 DEF MirrorInv, ErrandFits

LEMMA MirrorInvKeeps == MirrorAssumption /\ MirrorInv /\ [MirrorNext]_mirrorVars => MirrorInv'
<1> SUFFICES ASSUME MirrorAssumption, MirrorInv, [MirrorNext]_mirrorVars PROVE MirrorInv'
  OBVIOUS
<1>1. CASE UNCHANGED mirrorVars
  BY <1>1 DEF mirrorVars, MirrorInv, FieldsTyped, ErrandFits, FoundIsSo, FieldKept, CodeAwaited
<1>2. ASSUME NEW h \in Bearers,
             \/ BeginApply(h) \/ TellName(h) \/ TellNick(h) \/ UploadFails(h) \/ PoolUploadFails(h)
             \/ TellPhoto(h) \/ WriteLooks(h)
      PROVE  MirrorInv'
  BY <1>2, BeginApplyKeeps, TellNameKeeps, TellNickKeeps, UploadFailsKeeps, TellPhotoKeeps,
     WriteLooksKeeps
<1>3. ASSUME NEW h \in Bearers,
             \/ BeginSync(h) \/ ReadNames(h) \/ ReadPicture(h) \/ WriteSync(h)
             \/ BeginSet2fa(h) \/ ReadWord(h) \/ Edit2fa(h) \/ PassMail(h) \/ WriteWord(h)
      PROVE  MirrorInv'
  BY <1>3, BeginSyncKeeps, ReadNamesKeeps, ReadPictureKeeps, WriteSyncKeeps,
     BeginSet2faKeeps, ReadWordKeeps, Edit2faKeeps, PassMailKeeps, WriteWordKeeps
<1>4. ASSUME NEW h \in Bearers,
             \/ BeginRequest(h) \/ AskCode(h) \/ Pend(h)
             \/ BeginConfirm(h) \/ ConfirmCode(h) \/ WriteMail(h)
             \/ BeginScenario(h) \/ WriteMeta(h) \/ Dies(h)
      PROVE  MirrorInv'
  BY <1>4, BeginRequestKeeps, AskCodeKeeps, PendKeeps, BeginConfirmKeeps, ConfirmCodeKeeps,
     WriteMailKeeps, BeginScenarioKeeps, WriteMetaKeeps, DiesKeeps
<1> QED BY <1>1, <1>2, <1>3, <1>4, OwnerKeeps, PatchRowKeeps DEF MirrorNext

LEMMA MirrorHolds == MirrorInv => MirrorTypeOK /\ MirrorKept
<1> SUFFICES ASSUME MirrorInv PROVE MirrorTypeOK /\ MirrorKept
  OBVIOUS
<1>1. MirrorTypeOK
  <2>1. \A h \in Bearers : DOMAIN bearer[h].found \subseteq Fields /\ bearer[h].mixed \subseteq Fields
    BY DEF MirrorInv, ErrandFits, Errand, Found
  <2> QED BY <2>1 DEF MirrorTypeOK, MirrorInv, FieldsTyped
<1>2. MirrorKept
  BY DEF MirrorInv, FieldKept, MirrorKept, WillWrite
<1> QED BY <1>1, <1>2

\* ProfileMirror: whatever order the bulk errands, the sync, the password's and the recovery
\* address's requests and the scenario write in, the row says of each field what Telegram has,
\* except of a field an errand under way will still write and of one that went astray: imported
\* with the account, written by a PATCH, handled by two errands at once, left by one that broke
\* off, or changed beside them all.
THEOREM MirrorIsKept ==
  ASSUME MirrorAssumption
  PROVE  MirrorSpec => [](MirrorTypeOK /\ MirrorKept)
<1>1. MirrorInit => MirrorInv
  BY MirrorInitInv
<1>2. MirrorInv /\ [MirrorNext]_mirrorVars => MirrorInv'
  BY MirrorInvKeeps
<1> QED BY <1>1, <1>2, MirrorHolds, PTL DEF MirrorSpec

-----------------------------------------------------------------------------
(* EventHub *)
\* The sequence g gives the numbers of w in order.
GivesAll(g, w) == /\ {g[i] : i \in 1..Len(g)} = w
                  /\ \A i, j \in 1..Len(g) : i < j => g[i] < g[j]

Empty(q) == q.got = <<>> /\ q.queue = <<>>

StreamFits(s) ==
    /\ stream[s] \in [stage: {"closed", "waiting", "starting", "joined", "served", "cut"},
                      want: Wants \cup {{}}, since: Nat, queue: Seq(Nat), got: Seq(Nat)]
    /\ stream[s].since <= heard
    /\ stream[s].stage = "closed" \/ stream[s].want \in Wants
    /\ stream[s].stage \in {"joined", "served", "cut"} \/ Empty(stream[s])

\* A listener has before it exactly what was published and not handled; there is one at most.
TapFits(s) ==
    s \in Tapped => /\ started /\ tap[s] = [i \in 1 .. Len(news) - heard |-> heard + i]
                    /\ \A q \in Tapped : q = s

NewsTyped ==
    /\ news \in Seq([about: Accounts, kind: NewsKinds]) /\ Len(news) <= MaxEvents
    /\ started \in BOOLEAN /\ gate \in Streams \cup {NoOne} /\ subs \subseteq Streams
    /\ heard \in 0..Len(news) /\ began \in 0..heard /\ falls \in 0..MaxFalls
    /\ cache \in [Accounts -> 0..heard]
    /\ DOMAIN stream = Streams /\ DOMAIN tap = Streams

\* The hub is started by the one that has the lock, and has no queues before.
StartsAlone ==
    /\ \A s \in Streams : stream[s].stage = "starting" <=> gate = s
    /\ started => gate = NoOne
    /\ ~started => subs = {} /\ began = heard

HubInv ==
    /\ NewsTyped /\ StartsAlone
    /\ \A s \in Streams : StreamFits(s) /\ TapFits(s)
    /\ StreamsInStep /\ CacheIsLastLogin /\ QueuesAreRead
-----------------------------------------------------------------------------
LEMMA AppendGives ==
  ASSUME NEW g \in Seq(Nat), NEW w, NEW n \in Nat, GivesAll(g, w), \A k \in w : k < n
  PROVE  GivesAll(Append(g, n), w \cup {n})
<1>1. Len(Append(g, n)) = Len(g) + 1 /\ Append(g, n)[Len(g) + 1] = n
      /\ \A i \in 1..Len(g) : Append(g, n)[i] = g[i] /\ g[i] \in Nat
  OBVIOUS
<1>2. \A i \in 1..Len(g) : g[i] \in w
  BY DEF GivesAll
<1>3. {Append(g, n)[i] : i \in 1..Len(Append(g, n))} = w \cup {n}
  <2>1. ASSUME NEW k \in w PROVE k \in {Append(g, n)[i] : i \in 1..Len(Append(g, n))}
    <3>1. PICK i \in 1..Len(g) : k = g[i] BY DEF GivesAll
    <3>2. i \in 1..Len(Append(g, n)) /\ Append(g, n)[i] = k BY <1>1, <3>1
    <3> QED BY <3>2
  <2>2. n \in {Append(g, n)[i] : i \in 1..Len(Append(g, n))}
    <3>1. Len(g) + 1 \in 1..Len(Append(g, n)) BY <1>1
    <3> QED BY <1>1, <3>1
  <2>3. ASSUME NEW i \in 1..Len(Append(g, n)) PROVE Append(g, n)[i] \in w \cup {n}
    <3>1. i \in 1..Len(g) \/ i = Len(g) + 1 BY <1>1
    <3> QED BY <1>1, <1>2, <3>1
  <2> QED BY <2>1, <2>2, <2>3
<1>4. ASSUME NEW i \in 1..Len(Append(g, n)), NEW j \in 1..Len(Append(g, n)), i < j
      PROVE  Append(g, n)[i] < Append(g, n)[j]
  <2>1. i \in 1..Len(g) /\ (j \in 1..Len(g) \/ j = Len(g) + 1) BY <1>1, <1>4
  <2> QED BY <1>1, <1>2, <1>4, <2>1 DEF GivesAll
<1> QED BY <1>3, <1>4 DEF GivesAll

LEMMA ConcatAppend ==
  ASSUME NEW g \in Seq(Nat), NEW q \in Seq(Nat), NEW n \in Nat
  PROVE  g \o Append(q, n) = Append(g \o q, n)
  OBVIOUS

LEMMA ConcatServe ==
  ASSUME NEW g \in Seq(Nat), NEW q \in Seq(Nat), q # <<>>
  PROVE  Append(g, Head(q)) \o Tail(q) = g \o q
  BY SMTT(20)
-----------------------------------------------------------------------------
StreamState == [stage: {"closed", "waiting", "starting", "joined", "served", "cut"},
                want: Wants \cup {{}}, since: Nat, queue: Seq(Nat), got: Seq(Nat)]

Owed(q) == {n \in q.since + 1 .. heard : news[n].about \in q.want}

LEMMA InStep ==
  StreamsInStep <=> \A s \in subs : GivesAll(stream[s].got \o stream[s].queue, Owed(stream[s]))
  BY DEF StreamsInStep, GivesAll, Owed, WantedOf

\* Only stream s changes, and with it perhaps the lock and who is served.
LEMMA StreamKeeps ==
  ASSUME HubInv, NEW s \in Streams, NEW q \in StreamState,
         stream' = [stream EXCEPT ![s] = q], UNCHANGED <<news, started, tap, heard, began, cache, falls>>,
         q.since <= heard, q.stage = "closed" \/ q.want \in Wants,
         q.stage \in {"joined", "served", "cut"} \/ Empty(q),
         gate' \in Streams \cup {NoOne}, q.stage = "starting" <=> gate' = s,
         \A t \in Streams \ {s} : gate' = t <=> gate = t,
         started => gate' = NoOne,
         subs' \subseteq Streams, \A t \in Streams \ {s} : t \in subs' <=> t \in subs,
         ~started => s \notin subs',
         s \in subs' => /\ GivesAll(q.got \o q.queue, Owed(q))
                        /\ q.stage \in {"joined", "served", "cut"}
  PROVE  HubInv'
<1>1. stream'[s] = q /\ DOMAIN stream' = Streams /\ \A t \in Streams \ {s} : stream'[t] = stream[t]
  BY DEF HubInv, NewsTyped
<1>2. NewsTyped'
  BY <1>1 DEF HubInv, NewsTyped
<1>3. StartsAlone'
  <2>1. \A t \in Streams : stream'[t].stage = "starting" <=> gate' = t
    BY <1>1 DEF HubInv, StartsAlone
  <2> QED BY <2>1 DEF HubInv, StartsAlone, NewsTyped
<1>4. ASSUME NEW t \in Streams PROVE StreamFits(t)' /\ TapFits(t)'
  <2>1. StreamFits(t)'
    <3>1. CASE t = s BY <3>1, <1>1 DEF StreamFits, StreamState
    <3>2. CASE t # s BY <3>2, <1>1 DEF HubInv, StreamFits
    <3> QED BY <3>1, <3>2
  <2>2. Tapped' = Tapped BY DEF Tapped
  <2> QED BY <2>1, <2>2 DEF HubInv, TapFits
<1>5. StreamsInStep'
  <2>1. ASSUME NEW t \in subs'
        PROVE  GivesAll(stream'[t].got \o stream'[t].queue, Owed(stream'[t]))
    <3>1. CASE t = s BY <3>1, <2>1, <1>1
    <3>2. CASE t # s BY <3>2, <2>1, <1>1, InStep DEF HubInv
    <3> QED BY <3>1, <3>2
  <2>2. \A t \in subs' : {n \in stream'[t].since + 1 .. heard' : news'[n].about \in stream'[t].want}
                         = Owed(stream'[t])
    BY DEF Owed
  <2> QED BY <2>1, <2>2 DEF StreamsInStep, GivesAll, WantedOf
<1>6. CacheIsLastLogin'
  BY DEF HubInv, CacheIsLastLogin
<1>7. QueuesAreRead'
  BY <1>1 DEF HubInv, QueuesAreRead
<1> QED BY <1>2, <1>3, <1>4, <1>5, <1>6, <1>7 DEF HubInv

LEMMA ClosedIs ==
  /\ Closed \in StreamState /\ Closed.since = 0 /\ Closed.stage = "closed"
  /\ Closed.got = <<>> /\ Closed.queue = <<>> /\ Empty(Closed)
  BY DEF Closed, StreamState, Empty

LEMMA NobodyStarts ==
  ASSUME EventHubAssumption, HubInv, NEW s \in Streams
  PROVE  /\ stream[s] \in StreamState /\ stream[s].since <= heard /\ heard \in Nat
         /\ stream[s].stage = "closed" \/ stream[s].want \in Wants
         /\ stream[s].stage \in {"joined", "served", "cut"} \/ Empty(stream[s])
         /\ stream[s].stage = "starting" <=> gate = s
         /\ gate \in Streams \cup {NoOne} /\ NoOne \notin Streams /\ subs \subseteq Streams
         /\ started => gate = NoOne
         /\ s \in subs => /\ stream[s].stage \in {"joined", "served", "cut"} /\ started
                          /\ GivesAll(stream[s].got \o stream[s].queue, Owed(stream[s]))
<1>1. s \in subs => GivesAll(stream[s].got \o stream[s].queue, Owed(stream[s]))
  BY InStep DEF HubInv
<1> QED BY <1>1 DEF HubInv, StartsAlone, NewsTyped, StreamFits, StreamState, EventHubAssumption,
           QueuesAreRead

LEMMA NothingOwed == ASSUME NEW q, q.got = <<>>, q.queue = <<>>, q.since = heard, heard \in Nat
                     PROVE  GivesAll(q.got \o q.queue, Owed(q))
<1>1. q.got \o q.queue = <<>>
  OBVIOUS
<1>2. Owed(q) = {}
  BY DEF Owed
<1>3. {<<>>[i] : i \in 1..Len(<<>>)} = {} /\ 1..Len(<<>>) = {}
  OBVIOUS
<1> QED BY <1>1, <1>2, <1>3 DEF GivesAll

LEMMA JoinKeeps ==
  ASSUME EventHubAssumption, HubInv, NEW s \in Streams, NEW want \in Wants, JoinHub(s, want), started,
         UNCHANGED <<news, started, tap, heard, began, cache, falls, gate>>,
         stream[s].stage \in {"closed", "waiting"}
  PROVE  HubInv'
<1>1. PICK q : q = [Closed EXCEPT !.stage = "joined", !.want = want, !.since = heard]
  OBVIOUS
<1>2. /\ q \in StreamState /\ q.since = heard /\ q.stage = "joined" /\ q.want \in Wants /\ q.got = <<>> /\ q.queue = <<>>
  BY <1>1, NobodyStarts, ClosedIs DEF StreamState
<1>3. stream' = [stream EXCEPT ![s] = q] /\ subs' = subs \cup {s}
  BY <1>1 DEF JoinHub
<1>4. GivesAll(q.got \o q.queue, Owed(q))
  BY <1>2, NobodyStarts, NothingOwed
<1>5. heard \in Nat /\ gate = NoOne /\ NoOne \notin Streams /\ subs \subseteq Streams
  BY NobodyStarts
<1>6. q.since <= heard
  BY <1>2, <1>3, <1>5
<1>7. q.stage = "starting" <=> gate' = s
  BY <1>2, <1>3, <1>5
<1>8. \A t \in Streams \ {s} : gate' = t <=> gate = t
  BY <1>2, <1>3, <1>5
<1>9. subs' \subseteq Streams /\ \A t \in Streams \ {s} : t \in subs' <=> t \in subs
  BY <1>2, <1>3, <1>5
<1>10. gate' \in Streams \cup {NoOne} /\ (started => gate' = NoOne)
  BY <1>2, <1>3, <1>5
<1> QED BY <1>2, <1>3, <1>4, <1>5, <1>6, <1>7, <1>8, <1>9, <1>10, StreamKeeps

LEMMA EnterKeeps ==
  ASSUME EventHubAssumption, HubInv, NEW s \in Streams, NEW want \in Wants, Enter(s, want), ~started,
         gate = NoOne, UNCHANGED <<news, started, tap, heard, began, cache, falls>>
  PROVE  HubInv'
<1>1. PICK q : q = [Closed EXCEPT !.stage = "starting", !.want = want]
  OBVIOUS
<1>2. /\ q \in StreamState /\ q.since = 0 /\ q.stage = "starting" /\ q.want \in Wants /\ Empty(q)
  BY <1>1, ClosedIs DEF StreamState, Empty
<1>3. stream' = [stream EXCEPT ![s] = q] /\ subs' = subs /\ gate' = s
  BY <1>1 DEF Enter
<1>4. heard \in Nat /\ NoOne \notin Streams /\ subs \subseteq Streams /\ s \notin subs
  BY NobodyStarts
<1>5. q.since <= heard
  BY <1>2, <1>3, <1>4
<1>6. q.stage = "starting" <=> gate' = s
  BY <1>2, <1>3, <1>4
<1>7. \A t \in Streams \ {s} : gate' = t <=> gate = t
  BY <1>2, <1>3, <1>4
<1>8. subs' \subseteq Streams /\ \A t \in Streams \ {s} : t \in subs' <=> t \in subs
  BY <1>2, <1>3, <1>4
<1>9. gate' \in Streams \cup {NoOne} /\ (started => gate' = NoOne)
  BY <1>2, <1>3, <1>4
<1> QED BY <1>2, <1>3, <1>4, <1>5, <1>6, <1>7, <1>8, <1>9, StreamKeeps

LEMMA OpenKeeps ==
  ASSUME EventHubAssumption, HubInv, NEW s \in Streams, NEW want \in Wants, Open(s, want)
  PROVE  HubInv'
<1>1. CASE started /\ JoinHub(s, want) /\ UNCHANGED gate
  BY <1>1, JoinKeeps DEF Open
<1>2. CASE ~started /\ gate = NoOne /\ Enter(s, want)
  BY <1>2, EnterKeeps DEF Open
<1>3. CASE /\ ~started /\ gate # NoOne
           /\ stream' = [stream EXCEPT ![s] = [Closed EXCEPT !.stage = "waiting", !.want = want]]
           /\ UNCHANGED <<gate, subs>>
  <2>1. PICK q : q = [Closed EXCEPT !.stage = "waiting", !.want = want] OBVIOUS
  <2>2. /\ q \in StreamState /\ q.since = 0 /\ q.stage = "waiting" /\ q.want \in Wants /\ Empty(q)
    BY <2>1, ClosedIs DEF StreamState, Empty
  <2>3. stream' = [stream EXCEPT ![s] = q] BY <1>3, <2>1
  <2>4. /\ heard \in Nat /\ subs \subseteq Streams /\ s \notin subs
        /\ gate # s /\ gate \in Streams \cup {NoOne}
    BY <1>3, NobodyStarts DEF Open
  <2>5. q.since <= heard
    BY <1>3, <2>2, <2>4
  <2>6. q.stage = "starting" <=> gate' = s
    BY <1>3, <2>2, <2>4
  <2>7. \A t \in Streams \ {s} : gate' = t <=> gate = t
    BY <1>3, <2>2, <2>4
  <2>8. subs' \subseteq Streams /\ \A t \in Streams \ {s} : t \in subs' <=> t \in subs
    BY <1>3, <2>2, <2>4
  <2>9. gate' \in Streams \cup {NoOne} /\ (started => gate' = NoOne)
    BY <1>3, <2>2, <2>4
  <2> QED BY <1>3, <2>2, <2>3, <2>4, <2>5, <2>6, <2>7, <2>8, <2>9, StreamKeeps DEF Open
<1> QED BY <1>1, <1>2, <1>3 DEF Open

LEMMA PassGateKeeps ==
  ASSUME EventHubAssumption, HubInv, NEW s \in Streams, PassGate(s)
  PROVE  HubInv'
<1>. stream[s].want \in Wants
  BY NobodyStarts DEF PassGate
<1>1. CASE started
  BY <1>1, JoinKeeps DEF PassGate
<1>2. CASE ~started
  BY <1>2, EnterKeeps DEF PassGate
<1> QED BY <1>1, <1>2

LEMMA StartFailsKeeps ==
  ASSUME EventHubAssumption, HubInv, NEW s \in Streams, StartFails(s)
  PROVE  HubInv'
<1>1. /\ heard \in Nat /\ subs \subseteq Streams /\ s \notin subs /\ NoOne \notin Streams
      /\ gate \in Streams \cup {NoOne} /\ (started => gate = NoOne)
  BY NobodyStarts DEF StartFails
<1>2. /\ gate' = (IF gate = s THEN NoOne ELSE gate) /\ stream' = [stream EXCEPT ![s] = Closed]
      /\ UNCHANGED <<news, started, tap, heard, began, subs, cache, falls>>
  BY DEF StartFails
<1>3. PICK q : q = Closed
  OBVIOUS
<1>4. q \in StreamState /\ q.since = 0 /\ q.stage = "closed" /\ Empty(q)
      /\ stream' = [stream EXCEPT ![s] = q]
  BY <1>2, <1>3, ClosedIs
<1>5. q.since <= heard
  BY <1>1, <1>2, <1>4
<1>6. q.stage = "starting" <=> gate' = s
  BY <1>1, <1>2, <1>4
<1>7. \A t \in Streams \ {s} : gate' = t <=> gate = t
  BY <1>1, <1>2, <1>4
<1>8. subs' \subseteq Streams /\ \A t \in Streams \ {s} : t \in subs' <=> t \in subs
  BY <1>1, <1>2, <1>4
<1>9. gate' \in Streams \cup {NoOne} /\ (started => gate' = NoOne)
  <2>1. CASE gate = s BY <1>2, <2>1
  <2>2. CASE gate # s BY <1>1, <1>2, <2>2
  <2> QED BY <2>1, <2>2
<1> QED BY <1>1, <1>2, <1>4, <1>5, <1>6, <1>7, <1>8, <1>9, StreamKeeps

LEMMA BeginsKeeps ==
  ASSUME EventHubAssumption, HubInv, NEW s \in Streams, BeginStream(s) \/ CutOff(s)
  PROVE  HubInv'
<1>1. PICK g \in {"served", "cut"} : stream' = [stream EXCEPT ![s].stage = g]
  BY DEF BeginStream, CutOff
<1>2. PICK r : r = stream[s]
  OBVIOUS
<1>3. PICK q : q = [r EXCEPT !.stage = g]
  OBVIOUS
<1>4. /\ r \in StreamState /\ r.want \in Wants /\ r.since <= heard /\ heard \in Nat /\ subs \subseteq Streams
      /\ NoOne \notin Streams /\ gate # s /\ gate \in Streams \cup {NoOne} /\ (started => gate = NoOne)
      /\ s \in subs => GivesAll(r.got \o r.queue, Owed(r)) /\ started
  BY <1>2, NobodyStarts DEF BeginStream, CutOff
<1>5. /\ q \in StreamState /\ q.stage = g /\ q.since = r.since /\ q.want = r.want /\ q.got = r.got
      /\ q.queue = r.queue
  BY <1>3, <1>4 DEF StreamState
<1>6. Owed(q) = Owed(r)
  BY <1>5 DEF Owed
<1>7. stream' = [stream EXCEPT ![s] = q]
  BY <1>1, <1>2, <1>3
<1>8. UNCHANGED <<news, started, gate, tap, heard, began, subs, cache, falls>>
  BY DEF BeginStream, CutOff
<1> QED BY <1>4, <1>5, <1>6, <1>7, <1>8, StreamKeeps

LEMMA ServeKeeps ==
  ASSUME EventHubAssumption, HubInv, NEW s \in Streams, Serve(s)
  PROVE  HubInv'
<1>1. PICK r : r = stream[s]
  OBVIOUS
<1>2. PICK q : q = [r EXCEPT !.got = Append(r.got, Head(r.queue)), !.queue = Tail(r.queue)]
  OBVIOUS
<1>3. /\ r \in StreamState /\ r.want \in Wants /\ r.since <= heard /\ heard \in Nat /\ subs \subseteq Streams
      /\ NoOne \notin Streams /\ gate # s /\ gate \in Streams \cup {NoOne} /\ (started => gate = NoOne)
      /\ s \in subs => GivesAll(r.got \o r.queue, Owed(r)) /\ started
      /\ r.stage = "served" /\ r.queue # <<>>
  BY <1>1, NobodyStarts DEF Serve
<1>4. r.got \in Seq(Nat) /\ r.queue \in Seq(Nat)
  BY <1>3 DEF StreamState
<1>5. Append(r.got, Head(r.queue)) \in Seq(Nat) /\ Tail(r.queue) \in Seq(Nat)
  BY <1>3, <1>4
<1>6. /\ q \in StreamState /\ q.stage = "served" /\ q.since = r.since /\ q.want = r.want
      /\ q.got = Append(r.got, Head(r.queue)) /\ q.queue = Tail(r.queue)
  BY <1>2, <1>3, <1>5 DEF StreamState
<1>7. q.got \o q.queue = r.got \o r.queue
  BY <1>3, <1>4, <1>6, ConcatServe
<1>8. Owed(q) = Owed(r)
  BY <1>6 DEF Owed
<1>9. stream' = [stream EXCEPT ![s] = q]
  BY <1>1, <1>2 DEF Serve
<1>10. UNCHANGED <<news, started, gate, tap, heard, began, subs, cache, falls>>
  BY DEF Serve
<1> QED BY <1>3, <1>6, <1>7, <1>8, <1>9, <1>10, StreamKeeps

LEMMA LeaveKeeps ==
  ASSUME EventHubAssumption, HubInv, NEW s \in Streams, Leave(s)
  PROVE  HubInv'
<1>1. /\ heard \in Nat /\ subs \subseteq Streams /\ NoOne \notin Streams
      /\ gate # s /\ gate \in Streams \cup {NoOne} /\ (started => gate = NoOne)
  BY NobodyStarts DEF Leave
<1>2. stream' = [stream EXCEPT ![s] = Closed] /\ subs' = subs \ {s}
      /\ UNCHANGED <<news, started, gate, tap, heard, began, cache, falls>>
  BY DEF Leave
<1>3. PICK q : q = Closed
  OBVIOUS
<1>4. q \in StreamState /\ q.since = 0 /\ q.stage = "closed" /\ Empty(q)
      /\ stream' = [stream EXCEPT ![s] = q]
  BY <1>2, <1>3, ClosedIs
<1>5. q.since <= heard
  BY <1>1, <1>4
<1>6. q.stage = "starting" <=> gate' = s
  BY <1>1, <1>2, <1>4
<1>7. \A t \in Streams \ {s} : gate' = t <=> gate = t
  BY <1>1, <1>2, <1>4
<1>8. s \notin subs' /\ subs' \subseteq Streams /\ \A t \in Streams \ {s} : t \in subs' <=> t \in subs
  BY <1>1, <1>2, <1>4
<1>9. gate' \in Streams \cup {NoOne} /\ (started => gate' = NoOne)
  BY <1>1, <1>2, <1>4
<1> QED BY <1>2, <1>4, <1>5, <1>6, <1>7, <1>8, <1>9, StreamKeeps

\* The queue of a stream that is asked for as the hub starts gets what comes after.
LEMMA StartKeeps ==
  ASSUME EventHubAssumption, HubInv, NEW s \in Streams, Start(s)
  PROVE  HubInv'
<1>1. /\ gate = s /\ ~started /\ subs = {} /\ began = heard /\ NoOne \notin Streams
      /\ stream[s] \in StreamState /\ stream[s].want \in Wants
      /\ stream[s].got = <<>> /\ stream[s].queue = <<>>
  BY NobodyStarts DEF HubInv, StartsAlone, Start, Empty
<1>2. /\ Len(news) \in Nat /\ heard \in 0..Len(news) /\ news' = news /\ cache' = cache
      /\ DOMAIN stream = Streams /\ DOMAIN tap = Streams
      /\ started' = TRUE /\ gate' = NoOne /\ heard' = Len(news) /\ began' = Len(news)
      /\ falls' = falls /\ subs' = {s} /\ tap' = [tap EXCEPT ![s] = <<>>]
      /\ stream' = [stream EXCEPT ![s].stage = "joined", ![s].since = heard']
  BY <1>1 DEF HubInv, NewsTyped, Start
<1>3. PICK q : q = [stream[s] EXCEPT !.stage = "joined", !.since = Len(news)]
  OBVIOUS
<1>4. /\ q \in StreamState /\ q.stage = "joined" /\ q.since = Len(news)
      /\ q.want \in Wants /\ q.got = <<>> /\ q.queue = <<>>
  BY <1>1, <1>2, <1>3 DEF StreamState
<1>5. /\ stream'[s] = q /\ DOMAIN stream' = Streams
      /\ \A t \in Streams \ {s} : stream'[t] = stream[t]
  BY <1>2, <1>3
<1>6. NewsTyped'
  <2>1. cache \in [Accounts -> 0..Len(news)]
    BY <1>2 DEF HubInv, NewsTyped
  <2>2. DOMAIN tap' = Streams BY <1>2
  <2> QED BY <1>1, <1>2, <1>5, <2>1, <2>2 DEF HubInv, NewsTyped
<1>7. StartsAlone'
  <2>1. \A t \in Streams : stream'[t].stage = "starting" <=> gate' = t
    BY <1>1, <1>2, <1>4, <1>5 DEF HubInv, StartsAlone
  <2> QED BY <1>2, <2>1 DEF StartsAlone
<1>8. Tapped' = {s}
  <2>1. Tapped = {} BY <1>1 DEF HubInv, TapFits, Tapped
  <2>2. <<>> # Deaf BY DEF Deaf
  <2>3. tap'[s] = <<>> /\ \A t \in Streams \ {s} : tap'[t] = tap[t] BY <1>2
  <2> QED BY <2>1, <2>2, <2>3 DEF Tapped
<1>9. ASSUME NEW t \in Streams PROVE StreamFits(t)' /\ TapFits(t)'
  <2>1. StreamFits(t)'
    <3>1. CASE t = s
      <4>1. q.since <= heard' BY <1>2, <1>4
      <4> QED BY <3>1, <4>1, <1>4, <1>5 DEF StreamFits, StreamState
    <3>2. CASE t # s
      <4>1. StreamFits(t) BY DEF HubInv
      <4> QED BY <3>2, <4>1, <1>2, <1>5 DEF StreamFits
    <3> QED BY <3>1, <3>2
  <2>2. TapFits(t)'
    <3>1. tap'[s] = <<>> BY <1>2
    <3>2. [i \in 1 .. Len(news') - heard' |-> heard' + i] = <<>>
      <4>1. 1 .. Len(news') - heard' = {} BY <1>2
      <4> QED BY <4>1
    <3> QED BY <1>2, <1>8, <3>1, <3>2 DEF TapFits
  <2> QED BY <2>1, <2>2
<1>10. StreamsInStep'
  <2>1. GivesAll(q.got \o q.queue, {n \in q.since + 1 .. heard' : news'[n].about \in q.want})
    <3>1. {n \in q.since + 1 .. heard' : news'[n].about \in q.want} = {} BY <1>2, <1>4
    <3>2. q.got \o q.queue = <<>> BY <1>4
    <3>3. {<<>>[i] : i \in 1..Len(<<>>)} = {} /\ 1..Len(<<>>) = {} OBVIOUS
    <3> QED BY <3>1, <3>2, <3>3 DEF GivesAll
  <2>2. \A t \in subs' : t = s /\ stream'[t] = q BY <1>2, <1>5
  <2>3. \A t \in subs' : GivesAll(stream'[t].got \o stream'[t].queue,
                 {n \in stream'[t].since + 1 .. heard' : news'[n].about \in stream'[t].want})
    BY <2>1, <2>2
  <2> QED BY <2>3 DEF StreamsInStep, GivesAll, WantedOf
<1>11. CacheIsLastLogin'
  <2>1. ASSUME NEW a \in Accounts
        PROVE  cache[a] = 0 /\ {n \in began' + 1 .. heard' : news'[n].about = a /\ news'[n].kind = "login"} = {}
    <3>1. {n \in began + 1 .. heard : news[n].about = a /\ news[n].kind = "login"} = {}
      BY <1>1, <1>2
    <3>2. cache[a] = 0 BY <3>1 DEF HubInv, CacheIsLastLogin
    <3>3. began' + 1 .. heard' = {} BY <1>2
    <3> QED BY <3>2, <3>3
  <2> QED BY <2>1, <1>2 DEF CacheIsLastLogin
<1>12. QueuesAreRead'
  BY <1>2, <1>4, <1>5 DEF QueuesAreRead
<1> QED BY <1>6, <1>7, <1>9, <1>10, <1>11, <1>12 DEF HubInv

\* What is published waits behind what waits already.
LEMMA PublishKeeps ==
  ASSUME EventHubAssumption, HubInv, NEW a \in Accounts, NEW k \in NewsKinds, PublishNews(a, k)
  PROVE  HubInv'
<1>1. PICK e : e = [about |-> a, kind |-> k]
  OBVIOUS
<1>2. e \in [about: Accounts, kind: NewsKinds]
  BY <1>1
<1>3. /\ news \in Seq([about: Accounts, kind: NewsKinds]) /\ Len(news) \in Nat /\ heard \in 0..Len(news)
      /\ began \in 0..heard /\ MaxEvents \in Nat /\ Len(news) < MaxEvents /\ news' = Append(news, e)
      /\ UNCHANGED <<started, gate, heard, began, stream, subs, cache, falls>>
      /\ tap' = [s \in Streams |-> IF s \in Tapped THEN Append(tap[s], Len(news) + 1) ELSE Deaf]
  BY <1>1 DEF EventHubAssumption, HubInv, NewsTyped, PublishNews
<1>4. /\ news' \in Seq([about: Accounts, kind: NewsKinds]) /\ Len(news') = Len(news) + 1
      /\ \A n \in 1..Len(news) : news'[n] = news[n]
  BY <1>2, <1>3
<1>5. NewsTyped'
  BY <1>3, <1>4 DEF HubInv, NewsTyped
<1>6. StartsAlone'
  BY <1>3 DEF HubInv, StartsAlone
<1>7. ASSUME NEW s \in Streams PROVE StreamFits(s)'
  BY <1>3 DEF HubInv, StreamFits
<1>8. \A s \in Streams : s \in Tapped => tap[s] = [i \in 1 .. Len(news) - heard |-> heard + i]
  BY DEF HubInv, TapFits
<1>9. \A s \in Tapped : tap'[s] = [i \in 1 .. Len(news') - heard' |-> heard' + i]
  <2>1. ASSUME NEW s \in Tapped PROVE tap'[s] = [i \in 1 .. Len(news') - heard' |-> heard' + i]
    <3>1. PICK t : t = tap[s] OBVIOUS
    <3>2. s \in Streams /\ t = [i \in 1 .. Len(news) - heard |-> heard + i] BY <1>8, <3>1 DEF Tapped
    <3>3. /\ t \in Seq(Nat) /\ Len(t) = Len(news) - heard
          /\ \A i \in 1 .. Len(news) - heard : t[i] = heard + i
      BY <1>3, <3>2
    <3>4. tap'[s] = Append(t, Len(news) + 1) BY <1>3, <3>1, <3>2
    <3>5. /\ DOMAIN Append(t, Len(news) + 1) = 1 .. Len(news) - heard + 1
          /\ Append(t, Len(news) + 1)[Len(news) - heard + 1] = Len(news) + 1
          /\ \A i \in 1 .. Len(news) - heard : Append(t, Len(news) + 1)[i] = t[i]
          /\ Append(t, Len(news) + 1) \in Seq(Nat)
      BY <3>3, <1>3
    <3>6. ASSUME NEW i \in 1 .. Len(news) - heard + 1 PROVE Append(t, Len(news) + 1)[i] = heard + i
      <4>1. i \in 1 .. Len(news) - heard \/ i = Len(news) - heard + 1
        <5>1. PICK h : h = Len(news) - heard OBVIOUS
        <5>2. h \in Nat BY <5>1, <1>3
        <5>3. i \in 1..h + 1 BY <5>1, <3>6
        <5>4. i \in 1..h \/ i = h + 1 BY <5>2, <5>3
        <5> QED BY <5>1, <5>4
      <4>2. CASE i \in 1 .. Len(news) - heard BY <4>2, <3>3, <3>5
      <4>3. CASE i = Len(news) - heard + 1
        <5>1. heard + i = Len(news) + 1 BY <4>3, <1>3
        <5> QED BY <4>3, <5>1, <3>5
      <4> QED BY <4>1, <4>2, <4>3
    <3>7. Len(news') - heard' = Len(news) - heard + 1 /\ heard' = heard BY <1>3, <1>4
    <3>8. Append(t, Len(news) + 1) = [i \in 1 .. Len(news) - heard + 1 |-> heard + i]
      <4>1. PICK u : u = Append(t, Len(news) + 1) OBVIOUS
      <4>2. u = [i \in DOMAIN u |-> u[i]]
        <5>1. u \in Seq(Nat) BY <3>5, <4>1
        <5>2. u \in [1..Len(u) -> Nat] BY <5>1
        <5> QED BY <5>2
      <4>3. DOMAIN u = 1 .. Len(news) - heard + 1 BY <3>5, <4>1
      <4>4. \A i \in 1 .. Len(news) - heard + 1 : u[i] = heard + i BY <3>6, <4>1
      <4> QED BY <4>1, <4>2, <4>3, <4>4
    <3> QED BY <3>4, <3>7, <3>8
  <2> QED BY <2>1
<1>10. Tapped' \subseteq Tapped
  BY <1>3 DEF Tapped
<1>11. ASSUME NEW s \in Streams PROVE TapFits(s)'
  <2>1. s \in Tapped => started /\ \A q \in Tapped : q = s
    BY DEF HubInv, TapFits
  <2> QED BY <2>1, <1>3, <1>9, <1>10 DEF TapFits
<1>12. \A n \in 1..heard : news'[n] = news[n]
  BY <1>3, <1>4
<1>13. StreamsInStep'
  <2>1. ASSUME NEW s \in subs'
        PROVE  GivesAll(stream'[s].got \o stream'[s].queue,
                        {n \in stream'[s].since + 1 .. heard' : news'[n].about \in stream'[s].want})
    <3>1. s \in subs /\ stream' = stream /\ heard' = heard BY <2>1, <1>3
    <3>2. GivesAll(stream[s].got \o stream[s].queue, Owed(stream[s])) BY <3>1, InStep DEF HubInv
    <3>3. {n \in stream[s].since + 1 .. heard : news'[n].about \in stream[s].want} = Owed(stream[s])
      <4>1. stream[s].since \in Nat BY <3>1 DEF HubInv, NewsTyped, StreamFits
      <4>2. \A n \in stream[s].since + 1 .. heard : news'[n] = news[n] BY <1>3, <1>12, <4>1
      <4> QED BY <4>2 DEF Owed
    <3> QED BY <3>1, <3>2, <3>3
  <2> QED BY <2>1 DEF StreamsInStep, GivesAll, WantedOf
<1>14. CacheIsLastLogin'
  <2>1. \A n \in began + 1 .. heard : news'[n] = news[n] BY <1>3, <1>12
  <2>2. \A b \in Accounts : {n \in began' + 1 .. heard' : news'[n].about = b /\ news'[n].kind = "login"}
                             = {n \in began + 1 .. heard : news[n].about = b /\ news[n].kind = "login"}
    BY <1>3, <2>1
  <2> QED BY <1>3, <2>2 DEF HubInv, CacheIsLastLogin
<1>15. QueuesAreRead'
  BY <1>3 DEF HubInv, QueuesAreRead
<1> QED BY <1>5, <1>6, <1>7, <1>11, <1>13, <1>14, <1>15 DEF HubInv

\* One event goes to every queue that wants it, and to the cache.
LEMMA HandleKeeps ==
  ASSUME EventHubAssumption, HubInv, NEW l \in Streams, Handle(l)
  PROVE  HubInv'
<1>1. PICK n : n = Head(tap[l])
  OBVIOUS
<1>2. /\ news \in Seq([about: Accounts, kind: NewsKinds]) /\ Len(news) \in Nat /\ heard \in 0..Len(news)
      /\ began \in 0..heard /\ DOMAIN stream = Streams /\ DOMAIN tap = Streams
      /\ cache \in [Accounts -> 0..heard] /\ subs \subseteq Streams
  BY DEF HubInv, NewsTyped
<1>3. /\ l \in Tapped /\ tap[l] # <<>> /\ started
      /\ tap[l] = [i \in 1 .. Len(news) - heard |-> heard + i] /\ \A q \in Tapped : q = l
  BY DEF Handle, HubInv, TapFits
<1>4. /\ n = heard + 1 /\ n \in 1..Len(news)
      /\ Tail(tap[l]) = [i \in 1 .. Len(news) - n |-> n + i]
  <2>1. PICK t : t = tap[l] OBVIOUS
  <2>2. PICK k : k = Len(news) - heard OBVIOUS
  <2>3. k \in Nat /\ t = [i \in 1 .. k |-> heard + i] BY <1>2, <1>3, <2>1, <2>2
  <2>4. t \in Seq(Nat) /\ Len(t) = k BY <1>2, <2>3
  <2>5. k # 0
    <3>1. t # <<>> BY <1>3, <2>1
    <3>2. Len(t) = 0 => t = <<>> BY <2>4
    <3> QED BY <2>4, <3>1, <3>2
  <2>6. n = heard + 1
    <3>1. n = t[1] BY <1>1, <2>1, <2>4, <2>5
    <3> QED BY <3>1, <2>3, <2>5
  <2>7. n \in 1..Len(news) BY <1>2, <2>2, <2>3, <2>5, <2>6
  <2>8. Tail(t) \in Seq(Nat) /\ Len(Tail(t)) = k - 1 /\ \A i \in 1 .. k - 1 : Tail(t)[i] = t[i + 1]
    BY <2>3, <2>4, <2>5
  <2>9. \A i \in 1 .. k - 1 : Tail(t)[i] = n + i
    BY <1>2, <2>3, <2>6, <2>8
  <2>10. Tail(t) = [i \in 1 .. k - 1 |-> n + i]
    <3>1. PICK u : u = Tail(t) OBVIOUS
    <3>2. u \in Seq(Nat) BY <2>8, <3>1
    <3>3. u \in [1..Len(u) -> Nat] BY <3>2
    <3>4. u = [i \in 1..Len(u) |-> u[i]] BY <3>3
    <3> QED BY <3>4, <2>8, <2>9, <3>1
  <2>11. k - 1 = Len(news) - n BY <1>2, <2>2, <2>6
  <2> QED BY <2>1, <2>6, <2>7, <2>10, <2>11
<1>5. /\ UNCHANGED <<news, started, gate, began, subs, falls>> /\ heard' = n
      /\ tap' = [tap EXCEPT ![l] = Tail(tap[l])] /\ cache' = Cached(n)
      /\ stream' = [s \in Streams |->
                       IF s \in subs /\ news[n].about \in stream[s].want
                       THEN [stream[s] EXCEPT !.queue = Append(stream[s].queue, n)] ELSE stream[s]]
  BY <1>1 DEF Handle
<1>6. heard \in Nat /\ n \in Nat /\ heard' = heard + 1
  BY <1>2, <1>4, <1>5
<1>7. news[n].about \in Accounts
  <2>1. news[n] \in [about: Accounts, kind: NewsKinds]
    <3>1. PICK R : R = [about: Accounts, kind: NewsKinds] OBVIOUS
    <3>2. news \in Seq(R) BY <1>2, <3>1
    <3>3. news[n] \in R BY <3>2, <1>4
    <3> QED BY <3>1, <3>3
  <2> QED BY <2>1
<1>8. NewsTyped'
  <2>1. cache' \in [Accounts -> 0..n]
    <3>1. cache \in [Accounts -> 0..n]
      <4>1. 0..heard \subseteq 0..n BY <1>4, <1>6
      <4> QED BY <1>2, <4>1
    <3>2. n \in 0..n BY <1>6
    <3> QED BY <1>5, <1>7, <3>1, <3>2 DEF Cached
  <2>2. n \in 0..Len(news) /\ began \in 0..n BY <1>2, <1>4, <1>6
  <2>3. DOMAIN stream' = Streams /\ DOMAIN tap' = Streams BY <1>2, <1>5
  <2> QED BY <1>5, <2>1, <2>2, <2>3 DEF HubInv, NewsTyped
<1>9. ASSUME NEW s \in Streams
      PROVE  /\ stream'[s].stage = stream[s].stage /\ stream'[s].want = stream[s].want
             /\ stream'[s].since = stream[s].since /\ stream'[s].got = stream[s].got
             /\ stream[s] \in StreamState /\ stream'[s] \in StreamState
             /\ stream'[s].queue = IF s \in subs /\ news[n].about \in stream[s].want
                                   THEN Append(stream[s].queue, n) ELSE stream[s].queue
  <2>1. PICK r : r = stream[s] OBVIOUS
  <2>2. r \in StreamState BY <2>1 DEF HubInv, StreamFits, StreamState
  <2>3. r.queue \in Seq(Nat) BY <2>2 DEF StreamState
  <2>4. Append(r.queue, n) \in Seq(Nat) BY <2>3, <1>6
  <2>5. PICK q : q = [r EXCEPT !.queue = Append(r.queue, n)] OBVIOUS
  <2>6. /\ q \in StreamState /\ q.stage = r.stage /\ q.want = r.want /\ q.since = r.since
        /\ q.got = r.got /\ q.queue = Append(r.queue, n)
    BY <2>2, <2>4, <2>5 DEF StreamState
  <2>7. CASE s \in subs /\ news[n].about \in stream[s].want
    <3>1. stream'[s] = q BY <1>5, <2>1, <2>5, <2>7
    <3> QED BY <3>1, <2>1, <2>2, <2>6, <2>7
  <2>8. CASE ~(s \in subs /\ news[n].about \in stream[s].want)
    <3>1. stream'[s] = r BY <1>5, <2>1, <2>8
    <3> QED BY <3>1, <2>1, <2>2, <2>8
  <2> QED BY <2>7, <2>8
<1>10. StartsAlone'
  <2>1. \A t \in Streams : stream'[t].stage = "starting" <=> gate' = t
    BY <1>5, <1>9 DEF HubInv, StartsAlone
  <2> QED BY <1>3, <1>5, <2>1 DEF HubInv, StartsAlone
<1>11. ASSUME NEW s \in Streams PROVE StreamFits(s)'
  <2>1. StreamFits(s) /\ (s \in subs => stream[s].stage \in {"joined", "served", "cut"})
    BY DEF HubInv, QueuesAreRead
  <2>2. stream[s].since \in Nat BY <1>9 DEF StreamState
  <2>3. stream'[s].since <= heard' BY <2>1, <2>2, <1>6, <1>9 DEF StreamFits
  <2>4. stream'[s].stage \in {"joined", "served", "cut"} \/ Empty(stream'[s])
    BY <2>1, <1>9 DEF StreamFits, Empty
  <2> QED BY <2>1, <2>3, <2>4, <1>9 DEF StreamFits, StreamState
<1>12. ASSUME NEW s \in Streams PROVE TapFits(s)'
  <2>1. Tapped' \subseteq Tapped BY <1>3, <1>5 DEF Tapped
  <2>2. tap'[l] = [i \in 1 .. Len(news) - n |-> n + i] BY <1>2, <1>3, <1>4, <1>5 DEF Tapped
  <2> QED BY <1>3, <1>5, <2>1, <2>2 DEF TapFits
<1>13. StreamsInStep'
  <2>1. ASSUME NEW s \in subs
        PROVE  GivesAll(stream'[s].got \o stream'[s].queue,
                        {m \in stream'[s].since + 1 .. heard' : news'[m].about \in stream'[s].want})
    <3>1. s \in Streams BY <1>2
    <3>2. PICK r : r = stream[s] OBVIOUS
    <3>3. /\ r \in StreamState /\ r.since \in Nat /\ r.since <= heard
          /\ GivesAll(r.got \o r.queue, Owed(r))
      BY <3>1, <3>2, NobodyStarts DEF StreamState
    <3>4. r.got \in Seq(Nat) /\ r.queue \in Seq(Nat) /\ r.got \o r.queue \in Seq(Nat)
      BY <3>3 DEF StreamState
    <3>5. PICK w : w = {m \in r.since + 1 .. heard' : news[m].about \in r.want}
      OBVIOUS
    <3>6. /\ {m \in stream'[s].since + 1 .. heard' : news'[m].about \in stream'[s].want} = w
          /\ stream'[s].got = r.got
      BY <3>1, <3>2, <3>5, <1>5, <1>9
    <3>7. r.since + 1 .. heard' = (r.since + 1 .. heard) \cup {n}
      BY <3>3, <1>4, <1>6
    <3>8. CASE news[n].about \in r.want
      <4>1. w = Owed(r) \cup {n} BY <3>5, <3>7, <3>8 DEF Owed
      <4>2. stream'[s].queue = Append(r.queue, n) BY <3>1, <3>2, <3>8, <1>9
      <4>3. \A k \in Owed(r) : k < n BY <3>3, <1>4, <1>6 DEF Owed
      <4>4. PICK g : g = r.got \o r.queue OBVIOUS
      <4>5. g \in Seq(Nat) /\ GivesAll(g, Owed(r)) BY <3>3, <3>4, <4>4
      <4>6. GivesAll(Append(g, n), Owed(r) \cup {n})
        BY <4>3, <4>5, <1>6, AppendGives
      <4>7. r.got \o Append(r.queue, n) = Append(g, n) BY <3>4, <4>4, <1>6, ConcatAppend
      <4> QED BY <4>1, <4>2, <4>6, <4>7, <3>6
    <3>9. CASE news[n].about \notin r.want
      <4>1. w = Owed(r) BY <3>5, <3>7, <3>9 DEF Owed
      <4>2. stream'[s].queue = r.queue BY <3>1, <3>2, <3>9, <1>9
      <4> QED BY <4>1, <4>2, <3>3, <3>6
    <3> QED BY <3>8, <3>9
  <2>2. subs' = subs BY <1>5
  <2> QED BY <2>1, <2>2 DEF StreamsInStep, GivesAll, WantedOf
<1>14. CacheIsLastLogin'
  <2>1. began + 1 .. n = (began + 1 .. heard) \cup {n}
    <3>1. began \in Nat /\ began <= heard BY <1>2, <1>6
    <3>2. n = heard + 1 BY <1>4
    <3> QED BY <1>6, <3>1, <3>2
  <2>2. ASSUME NEW a \in Accounts
        PROVE  LET own == {m \in began + 1 .. n : news[m].about = a /\ news[m].kind = "login"}
               IN  /\ own = {} => cache'[a] = 0
                   /\ own # {} => cache'[a] \in own /\ \A m \in own : m <= cache'[a]
    <3>1. PICK w : w = {m \in began + 1 .. heard : news[m].about = a /\ news[m].kind = "login"}
      OBVIOUS
    <3>2. (w = {} => cache[a] = 0) /\ (w # {} => (cache[a] \in w /\ \A m \in w : m <= cache[a]))
      BY <3>1 DEF HubInv, CacheIsLastLogin
    <3>3. PICK v : v = {m \in began + 1 .. n : news[m].about = a /\ news[m].kind = "login"}
      OBVIOUS
    <3>4. CASE news[n].about = a /\ news[n].kind = "login"
      <4>1. v = w \cup {n} BY <3>1, <3>3, <3>4, <2>1
      <4>2. cache'[a] = n BY <3>4, <1>2, <1>5 DEF Cached
      <4>3. \A m \in w : m <= n BY <3>1, <1>2, <1>4, <1>6
      <4>4. \A m \in v : m <= n BY <4>1, <4>3, <1>6
      <4> QED BY <3>3, <4>1, <4>2, <4>4
    <3>5. CASE ~(news[n].about = a /\ news[n].kind = "login")
      <4>1. v = w BY <3>1, <3>3, <3>5, <2>1
      <4>2. cache'[a] = cache[a] BY <3>5, <1>2, <1>5 DEF Cached
      <4> QED BY <3>2, <3>3, <4>1, <4>2
    <3> QED BY <3>4, <3>5
  <2>3. heard' = n /\ began' = began /\ news' = news BY <1>5
  <2> QED BY <2>2, <2>3 DEF CacheIsLastLogin
<1>15. QueuesAreRead'
  BY <1>2, <1>5, <1>9 DEF HubInv, QueuesAreRead
<1> QED BY <1>8, <1>10, <1>11, <1>12, <1>13, <1>14, <1>15 DEF HubInv

\* The listener goes, or the process: what is kept is kept.
LEMMA FallKeeps ==
  ASSUME EventHubAssumption, HubInv, NEW s \in Streams, Fall(s)
  PROVE  HubInv'
<1>1. /\ UNCHANGED <<news, started, gate, heard, began, stream, subs, cache>>
      /\ tap' = [tap EXCEPT ![s] = Deaf] /\ falls' \in 0..MaxFalls /\ DOMAIN tap = Streams
  BY DEF Fall, HubInv, NewsTyped, EventHubAssumption
<1>2. NewsTyped'
  BY <1>1 DEF HubInv, NewsTyped
<1>3. StartsAlone'
  BY <1>1 DEF HubInv, StartsAlone
<1>4. Tapped' \subseteq Tapped /\ \A t \in Tapped' : tap'[t] = tap[t]
  BY <1>1 DEF Tapped
<1>5. ASSUME NEW t \in Streams PROVE StreamFits(t)' /\ TapFits(t)'
  <2>1. StreamFits(t)'
    BY <1>1 DEF HubInv, StreamFits
  <2>2. TapFits(t)'
    BY <1>1, <1>4 DEF HubInv, TapFits
  <2> QED BY <2>1, <2>2
<1>6. StreamsInStep'
  <2>1. ASSUME NEW t \in subs'
        PROVE  GivesAll(stream'[t].got \o stream'[t].queue,
                        {n \in stream'[t].since + 1 .. heard' : news'[n].about \in stream'[t].want})
    <3>1. t \in subs /\ stream' = stream /\ heard' = heard BY <2>1, <1>1
    <3>2. GivesAll(stream[t].got \o stream[t].queue, Owed(stream[t])) BY <3>1, InStep DEF HubInv
    <3>3. {n \in stream[t].since + 1 .. heard : news'[n].about \in stream[t].want} = Owed(stream[t])
      BY <1>1 DEF Owed
    <3> QED BY <3>1, <3>2, <3>3
  <2> QED BY <2>1 DEF StreamsInStep, GivesAll, WantedOf
<1>7. CacheIsLastLogin' /\ QueuesAreRead'
  BY <1>1 DEF HubInv, CacheIsLastLogin, QueuesAreRead
<1> QED BY <1>2, <1>3, <1>5, <1>6, <1>7 DEF HubInv

LEMMA AfreshKeeps ==
  ASSUME EventHubAssumption,
         news \in Seq([about: Accounts, kind: NewsKinds]), Len(news) <= MaxEvents,
         falls \in 0..MaxFalls, heard = Len(news), began = Len(news), started = FALSE, gate = NoOne,
         subs = {}, tap = [s \in Streams |-> Deaf], stream = [s \in Streams |-> Closed],
         cache = [a \in Accounts |-> 0]
  PROVE  HubInv
<1>1. NewsTyped
  <2>1. Len(news) \in Nat BY DEF EventHubAssumption
  <2>2. cache \in [Accounts -> 0..heard] BY <2>1
  <2>3. heard \in 0..Len(news) /\ began \in 0..heard BY <2>1
  <2>4. DOMAIN stream = Streams /\ DOMAIN tap = Streams OBVIOUS
  <2> QED BY <2>2, <2>3, <2>4 DEF NewsTyped
<1>2. StartsAlone
  BY ClosedIs DEF StartsAlone, EventHubAssumption
<1>3. ASSUME NEW s \in Streams PROVE StreamFits(s) /\ TapFits(s)
  BY ClosedIs DEF StreamFits, TapFits, Tapped, StreamState
<1>4. StreamsInStep /\ QueuesAreRead
  BY DEF StreamsInStep, QueuesAreRead
<1>5. CacheIsLastLogin
  <2>1. began + 1 .. heard = {}
    BY DEF EventHubAssumption
  <2> QED BY <2>1 DEF CacheIsLastLogin
<1> QED BY <1>1, <1>2, <1>3, <1>4, <1>5 DEF HubInv

LEMMA HubInitInv == ASSUME EventHubAssumption, HubInit PROVE HubInv
<1>1. /\ news \in Seq([about: Accounts, kind: NewsKinds]) /\ Len(news) <= MaxEvents
      /\ falls \in 0..MaxFalls /\ heard = Len(news) /\ began = Len(news)
  BY DEF HubInit, EventHubAssumption
<1> QED BY <1>1, AfreshKeeps DEF HubInit

LEMMA RestartKeeps == ASSUME EventHubAssumption, HubInv, Restart PROVE HubInv'
<1>1. /\ news' = news /\ news \in Seq([about: Accounts, kind: NewsKinds]) /\ Len(news) <= MaxEvents
      /\ falls' \in 0..MaxFalls /\ heard' = Len(news') /\ began' = Len(news')
  BY DEF Restart, HubInv, NewsTyped, EventHubAssumption
<1>2. NewsTyped'
  <2>1. Len(news') \in Nat BY <1>1
  <2>2. cache' \in [Accounts -> 0..heard'] BY <1>1, <2>1 DEF Restart
  <2>3. heard' \in 0..Len(news') /\ began' \in 0..heard' BY <1>1, <2>1
  <2>4. DOMAIN stream' = Streams /\ DOMAIN tap' = Streams BY DEF Restart
  <2>5. started' = FALSE /\ gate' = NoOne /\ subs' = {} BY DEF Restart
  <2> QED BY <1>1, <2>2, <2>3, <2>4, <2>5 DEF NewsTyped
<1>3. StartsAlone'
  BY ClosedIs DEF StartsAlone, EventHubAssumption, Restart
<1>4. ASSUME NEW s \in Streams PROVE StreamFits(s)' /\ TapFits(s)'
  BY <1>1, ClosedIs DEF StreamFits, TapFits, Tapped, StreamState, Restart
<1>5. StreamsInStep' /\ QueuesAreRead'
  BY DEF StreamsInStep, QueuesAreRead, Restart
<1>6. CacheIsLastLogin'
  <2>1. began' + 1 .. heard' = {}
    BY <1>1
  <2> QED BY <2>1 DEF CacheIsLastLogin, Restart
<1> QED BY <1>2, <1>3, <1>4, <1>5, <1>6 DEF HubInv

LEMMA HubUnmoved == ASSUME HubInv, UNCHANGED hubVars PROVE HubInv'
<1>1. NewsTyped' /\ StartsAlone' /\ CacheIsLastLogin' /\ QueuesAreRead' /\ Tapped' = Tapped
  BY DEF HubInv, NewsTyped, StartsAlone, CacheIsLastLogin, QueuesAreRead, Tapped, hubVars
<1>2. \A s \in Streams : StreamFits(s)' /\ TapFits(s)'
  BY <1>1 DEF HubInv, StreamFits, TapFits, hubVars
<1>5. StreamsInStep'
  <2>1. ASSUME NEW s \in subs'
        PROVE  GivesAll(stream'[s].got \o stream'[s].queue,
                        {n \in stream'[s].since + 1 .. heard' : news'[n].about \in stream'[s].want})
    <3>1. s \in subs /\ stream' = stream /\ heard' = heard BY <2>1 DEF hubVars
    <3>2. GivesAll(stream[s].got \o stream[s].queue, Owed(stream[s])) BY <3>1, InStep DEF HubInv
    <3>3. {n \in stream[s].since + 1 .. heard : news'[n].about \in stream[s].want} = Owed(stream[s])
      BY DEF Owed, hubVars
    <3> QED BY <3>1, <3>2, <3>3
  <2> QED BY <2>1 DEF StreamsInStep, GivesAll, WantedOf
<1> QED BY <1>1, <1>2, <1>5 DEF HubInv

LEMMA HubStep == ASSUME EventHubAssumption, HubInv, [HubNext]_hubVars PROVE HubInv'
<1>1. ASSUME NEW s \in Streams,
             \/ \E want \in Wants : Open(s, want)
             \/ PassGate(s) \/ Start(s) \/ StartFails(s) \/ Handle(s) \/ Fall(s)
             \/ BeginStream(s) \/ CutOff(s) \/ Serve(s) \/ Leave(s)
      PROVE  HubInv'
  BY <1>1, OpenKeeps, PassGateKeeps, StartKeeps, StartFailsKeeps, HandleKeeps, FallKeeps,
     BeginsKeeps,
     ServeKeeps, LeaveKeeps
<1>2. ASSUME NEW a \in Accounts, NEW k \in NewsKinds, PublishNews(a, k) PROVE HubInv'
  BY <1>2, PublishKeeps
<1>3. CASE Restart
  BY <1>3, RestartKeeps
<1>4. CASE UNCHANGED hubVars
  BY <1>4, HubUnmoved
<1> QED BY <1>1, <1>2, <1>3, <1>4 DEF HubNext

LEMMA HubHolds == ASSUME EventHubAssumption, HubInv PROVE HubTypeOK /\ StreamsKept
<1>1. StreamsKept
  BY DEF HubInv, StreamsKept
<1>2. gate # NoOne => stream[gate].stage = "starting"
  BY DEF HubInv, StartsAlone, NewsTyped
<1>3. Len(news) \in Nat /\ heard \in 0..Len(news) /\ began \in 0..heard
  BY DEF HubInv, NewsTyped
<1>4. began \in 0..Len(news) /\ \A a \in Accounts : cache[a] \in 0..heard
  BY <1>3 DEF HubInv, NewsTyped
<1>5. ASSUME NEW s \in Streams
      PROVE  /\ tap[s] = Deaf \/ tap[s] \in Seq(1..Len(news))
             /\ stream[s].stage \in {"closed", "waiting", "starting", "joined", "served", "cut"}
             /\ stream[s].want \in Wants \cup {{}} /\ stream[s].since \in 0..heard
  <2>1. s \in Tapped => tap[s] \in Seq(1..Len(news))
    <3>1. s \in Tapped => tap[s] = [i \in 1 .. Len(news) - heard |-> heard + i]
      BY DEF HubInv, TapFits
    <3>2. Len(news) - heard \in Nat /\ \A i \in 1 .. Len(news) - heard : heard + i \in 1..Len(news)
      BY <1>3
    <3>3. [i \in 1 .. Len(news) - heard |-> heard + i] \in Seq(1..Len(news))
      BY <3>2
    <3> QED BY <3>1, <3>3
  <2>2. StreamFits(s) BY DEF HubInv
  <2>3. stream[s].since \in 0..heard BY <1>3, <2>2 DEF StreamFits
  <2> QED BY <2>1, <2>2, <2>3 DEF StreamFits, Tapped
<1>6. HubTypeOK
  BY <1>2, <1>3, <1>4, <1>5 DEF HubTypeOK, HubInv, NewsTyped
<1> QED BY <1>1, <1>6

\* EventHub: a stream gives its client each event it asked for once and in order, those before
\* the client's loss of the connection included; the cache of codes holds the account's latest
\* code; and the hub fills no queue of a client that has left.
THEOREM StreamsAreKept == ASSUME EventHubAssumption PROVE HubSpec => [](HubTypeOK /\ StreamsKept)
<1>1. HubInit => HubInv
  BY HubInitInv
<1>2. HubInv /\ [HubNext]_hubVars => HubInv'
  BY HubStep
<1>3. HubInv => HubTypeOK /\ StreamsKept
  BY HubHolds
<1> QED BY <1>1, <1>2, <1>3, PTL DEF HubSpec

-----------------------------------------------------------------------------
(* PostListener *)
Request == [op: {"none", "write", "tell", "told", "count"}, to: {"on", "off"},
            was: {"on", "off"}, who: Hosts \cup {Nobody}]

Straying == {"unheard", "overtaken", "retargeted", "failed", "untold"}

HandlersTyped ==
    /\ enabled \in {"on", "off", "gone"} /\ suited \in BOOLEAN
    /\ links \subseteq Hosts /\ IsFiniteSet(links) /\ able \subseteq links
    /\ request \in [Requests -> Request]
    /\ bus \in Seq({"on", "off"})
    /\ worker \in {"down", "loading", "listening"}
    /\ joining \in Hosts \cup {Nobody} /\ host \in Hosts \cup {Nobody}
    /\ held \in [Hosts -> Nat] /\ leaked \in [Hosts -> Nat]
    /\ astray \subseteq Straying
    /\ edits \in 0..MaxEdits /\ troubles \in 0..MaxTroubles

Alone == /\ joining # Nobody => host = Nobody
         /\ worker # "listening" => bus = <<>>
         /\ worker = "down" => host = Nobody /\ joining = Nobody

Detaches == \E i \in 1..Len(bus) : bus[i] = "off"
EndsWith(action) == bus # <<>> /\ bus[Len(bus)] = action
Unhosted == host = Nobody /\ joining = Nobody

\* As long as nothing went astray one request is under way, and it knows the row.
InTurn ==
    /\ \A r, s \in Requests : r = s \/ request[r].op = "none" \/ request[s].op = "none"
    /\ \A r \in Requests : /\ request[r].op = "write" => request[r].was = enabled
                           /\ request[r].op = "tell" => request[r].to = enabled

\* A handler that has to go is going to be told.
OffIsTold == enabled # "on" =>
    Unhosted \/ Detaches \/ \E r \in Requests : request[r].op = "tell" /\ request[r].to = "off"

\* A handler that is wanted is there, or asked for, or going to be.
OnIsTold == Wanted =>
    \/ \E r \in Requests : \/ request[r].op = "tell" /\ request[r].to = "on"
                           \/ request[r].op = "told"
                           \/ request[r].op = "count" /\ Cardinality(links) = 1
    \/ EndsWith("on")
    \/ ~Detaches /\ ~Unhosted

\* What sent an old handler away has been put right where the campaign is on again.
OffIsOver == enabled = "on" /\ Detaches =>
    \/ EndsWith("on")
    \/ \E r \in Requests : \/ request[r].op = "tell" /\ request[r].to = "on"
                           \/ request[r].op = "told"

\* The event of a deletion comes last.
DeleteIsTold == \A r \in Requests : request[r].op = "told" =>
    EndsWith("off") \/ (bus = <<>> /\ Unhosted)

Follows == InTurn /\ OffIsTold /\ OnIsTold /\ OffIsOver /\ DeleteIsTold

PostInv == HandlersTyped /\ Alone /\ HostHeld /\ (worker # "down" /\ astray = {} => Follows)
-----------------------------------------------------------------------------
AllIdle == \A s \in Requests : request[s].op = "none"

LEMMA OpensAlone ==
  ASSUME NEW r \in Requests, request[r].op = "none", Overlap(r) = {}
  PROVE  AllIdle
  BY DEF Overlap, AllIdle

\* Between requests a campaign that is on has its handler and one that is not has none,
\* but for what is on its way to the worker.
LEMMA IdleFollows ==
  ASSUME AllIdle, Follows
  PROVE  /\ enabled # "on" => Unhosted \/ Detaches
         /\ Wanted => EndsWith("on") \/ (~Detaches /\ ~Unhosted)
         /\ enabled = "on" /\ Detaches => EndsWith("on")
  BY DEF AllIdle, Follows, OffIsTold, OnIsTold, OffIsOver

LEMMA NoRequestIs == NoRequest \in Request /\ NoRequest.op = "none"
  BY DEF NoRequest, Request

LEMMA PublishIs ==
  ASSUME HandlersTyped, NEW action \in {"on", "off"}, Publish(action)
  PROVE  /\ bus' \in Seq({"on", "off"})
         /\ astray' \subseteq Straying
         /\ worker # "listening" => bus' = bus
         /\ astray' = {} => /\ worker = "listening" /\ astray = {}
                            /\ bus' # <<>> /\ bus'[Len(bus')] = action
                            /\ action = "off" => Detaches'
                            /\ action = "on" => (Detaches' <=> Detaches)
<1>1. CASE worker = "listening"
  <2>1. bus' = Append(bus, action) /\ astray' = astray
    BY <1>1 DEF Publish
  <2>2. /\ bus \in Seq({"on", "off"}) /\ bus' \in Seq({"on", "off"}) /\ Len(bus') = Len(bus) + 1
        /\ bus'[Len(bus) + 1] = action /\ \A i \in 1..Len(bus) : bus'[i] = bus[i]
        /\ Len(bus) \in Nat
    BY <2>1 DEF HandlersTyped
  <2>3. bus' # <<>>
    BY <2>2
  <2>4. Detaches' <=> (Detaches \/ action = "off")
    <3>1. \A i \in 1..Len(bus') : i \in 1..Len(bus) \/ i = Len(bus) + 1 BY <2>2
    <3>2. Len(bus) + 1 \in 1..Len(bus') /\ \A i \in 1..Len(bus) : i \in 1..Len(bus') BY <2>2
    <3> QED BY <2>2, <3>1, <3>2 DEF Detaches
  <2>5. (action = "off" => Detaches') /\ (action = "on" => (Detaches' <=> Detaches))
    BY <2>4
  <2> QED BY <1>1, <2>1, <2>2, <2>3, <2>5 DEF HandlersTyped
<1>2. CASE worker # "listening"
  BY <1>2 DEF Publish, HandlersTyped, Straying
<1> QED BY <1>1, <1>2

\* The next event is taken off the bus.
LEMMA TakenIs ==
  ASSUME HandlersTyped, bus # <<>>, bus' = Tail(bus)
  PROVE  /\ bus' \in Seq({"on", "off"})
         /\ Detaches' => Detaches
         /\ Head(bus) = "on" => (Detaches' <=> Detaches)
         /\ bus' # <<>> => bus'[Len(bus')] = bus[Len(bus)]
         /\ bus' = <<>> => Head(bus) = bus[Len(bus)]
<1>1. /\ Len(bus) \in Nat \ {0} /\ Head(bus) = bus[1] /\ bus' \in Seq({"on", "off"})
      /\ Len(bus') = Len(bus) - 1 /\ \A i \in 1..Len(bus) - 1 : bus'[i] = bus[i + 1]
  BY DEF HandlersTyped
<1>2. \A i \in 1..Len(bus') : i + 1 \in 1..Len(bus) /\ bus'[i] = bus[i + 1]
  BY <1>1
<1>3. \A i \in 1..Len(bus) : i = 1 \/ (i - 1 \in 1..Len(bus') /\ bus'[i - 1] = bus[i])
  BY <1>1
<1>4. Detaches' => Detaches
  BY <1>2 DEF Detaches
<1>5. Head(bus) = "on" => (Detaches => Detaches')
  BY <1>1, <1>3 DEF Detaches
<1>6. bus' # <<>> => bus'[Len(bus')] = bus[Len(bus)]
  <2>1. bus' # <<>> => Len(bus') \in Nat \ {0} BY <1>1
  <2>2. bus' # <<>> => Len(bus') \in 1..Len(bus') /\ Len(bus') + 1 = Len(bus) BY <1>1, <2>1
  <2> QED BY <1>2, <2>2
<1>7. bus' = <<>> => Len(bus) = 1
  <2>1. bus' = <<>> => Len(bus') = 0 OBVIOUS
  <2> QED BY <1>1, <2>1
<1> QED BY <1>1, <1>4, <1>5, <1>6, <1>7

\* What the requests do but the registry does not see.
LEMMA RequestTyped ==
  ASSUME HandlersTyped, NEW r \in Requests, NEW q \in Request, request' = [request EXCEPT ![r] = q]
  PROVE  /\ request' \in [Requests -> Request] /\ request'[r] = q
         /\ \A s \in Requests \ {r} : request'[s] = request[s]
  BY DEF HandlersTyped
-----------------------------------------------------------------------------
LEMMA PatchKeeps ==
  ASSUME PostListenerAssumption, PostInv, NEW r \in Requests, NEW to \in {"on", "off"}, Patch(r, to)
  PROVE  PostInv'
<1>1. PICK q : q = [op |-> "write", to |-> to, was |-> enabled, who |-> Nobody]
  OBVIOUS
<1>2. /\ request[r].op = "none" /\ enabled \in {"on", "off"} /\ edits < MaxEdits /\ edits' = edits + 1
      /\ request' = [request EXCEPT ![r] = q] /\ astray' = astray \cup Overlap(r)
      /\ UNCHANGED <<enabled, suited, links, able, bus, worker, joining, host, held, leaked, troubles>>
  BY <1>1 DEF Patch, Opens, Edit, PostInv, HandlersTyped
<1>3. q \in Request /\ q.op = "write" /\ q.was = enabled
  BY <1>1, <1>2 DEF Request
<1>4. /\ request' \in [Requests -> Request] /\ request'[r] = q
      /\ \A s \in Requests \ {r} : request'[s] = request[s]
  BY <1>2, <1>3, RequestTyped DEF PostInv
<1>5. HandlersTyped'
  BY <1>2, <1>4 DEF PostInv, HandlersTyped, Overlap, Straying, PostListenerAssumption
<1>6. Alone' /\ HostHeld'
  BY <1>2 DEF PostInv, Alone, HostHeld
<1>7. ASSUME worker' # "down", astray' = {} PROVE Follows'
  <2>1. Overlap(r) = {} /\ astray = {} /\ worker # "down" BY <1>2, <1>7
  <2>2. AllIdle BY <2>1, <1>2, OpensAlone
  <2>3. Follows BY <2>1 DEF PostInv
  <2>4. /\ enabled # "on" => Unhosted \/ Detaches
        /\ Wanted => EndsWith("on") \/ (~Detaches /\ ~Unhosted)
        /\ enabled = "on" /\ Detaches => EndsWith("on")
    BY <2>2, <2>3, IdleFollows
  <2>5. \A s \in Requests : s = r \/ request'[s].op = "none" BY <1>4, <2>2 DEF AllIdle
  <2>6. InTurn' BY <1>2, <1>3, <1>4, <2>5 DEF InTurn
  <2>7. OffIsTold' BY <1>2, <2>4 DEF OffIsTold, Unhosted, Detaches
  <2>8. OnIsTold' BY <1>2, <2>4 DEF OnIsTold, Unhosted, Detaches, EndsWith, Wanted
  <2>9. DeleteIsTold' BY <1>3, <1>4, <2>5 DEF DeleteIsTold
  <2>10. OffIsOver' BY <1>2, <2>4 DEF OffIsOver, Detaches, EndsWith
  <2> QED BY <2>6, <2>7, <2>8, <2>9, <2>10 DEF Follows
<1> QED BY <1>5, <1>6, <1>7 DEF PostInv

LEMMA CommitPatchKeeps ==
  ASSUME PostListenerAssumption, PostInv, NEW r \in Requests, CommitPatch(r)
  PROVE  PostInv'
<1>1. PICK p : p = request[r]
  OBVIOUS
<1>2. PICK q : q = IF enabled = "gone" THEN NoRequest ELSE [p EXCEPT !.op = "tell"]
  OBVIOUS
<1>3. /\ p \in Request /\ p.op = "write" /\ request' = [request EXCEPT ![r] = q]
      /\ enabled' = IF enabled = "gone" THEN enabled ELSE IF p.to # p.was THEN p.to ELSE enabled
      /\ UNCHANGED <<suited, links, able, bus, worker, joining, host, held, leaked, astray, edits, troubles>>
  BY <1>1, <1>2 DEF CommitPatch, Answered, PostInv, HandlersTyped
<1>4. /\ q \in Request /\ p.to \in {"on", "off"} /\ p.was \in {"on", "off"}
      /\ enabled # "gone" => (q.op = "tell" /\ q.to = p.to)
  BY <1>2, <1>3, NoRequestIs DEF Request
<1>5. /\ request' \in [Requests -> Request] /\ request'[r] = q
      /\ \A s \in Requests \ {r} : request'[s] = request[s]
  BY <1>3, <1>4, RequestTyped DEF PostInv
<1>6. HandlersTyped'
  BY <1>3, <1>4, <1>5 DEF PostInv, HandlersTyped
<1>7. Alone' /\ HostHeld'
  BY <1>3 DEF PostInv, Alone, HostHeld
<1>8. ASSUME worker' # "down", astray' = {} PROVE Follows'
  <2>1. Follows BY <1>3, <1>8 DEF PostInv
  <2>2. p.was = enabled BY <1>1, <1>3, <2>1 DEF Follows, InTurn
  <2>3. enabled # "gone" /\ enabled' = p.to BY <1>3, <1>4, <2>2
  <2>4. \A s \in Requests : s = r \/ request'[s].op = "none"
    BY <1>1, <1>3, <1>5, <2>1 DEF Follows, InTurn
  <2>5. q.op = "tell" /\ q.to = enabled' BY <1>4, <2>3
  <2>6. InTurn' BY <1>5, <2>4, <2>5 DEF InTurn
  <2>7. OffIsTold' BY <1>4, <1>5, <2>3, <2>5 DEF OffIsTold
  <2>8. OnIsTold' BY <1>5, <2>5 DEF OnIsTold, Wanted
  <2>9. DeleteIsTold' BY <1>5, <2>4, <2>5 DEF DeleteIsTold
  <2>10. OffIsOver' BY <1>5, <2>5 DEF OffIsOver
  <2> QED BY <2>6, <2>7, <2>8, <2>9, <2>10 DEF Follows
<1> QED BY <1>6, <1>7, <1>8 DEF PostInv

LEMMA TellWorkerKeeps ==
  ASSUME PostListenerAssumption, PostInv, NEW r \in Requests, TellWorker(r)
  PROVE  PostInv'
<1>1. PICK p : p = request[r]
  OBVIOUS
<1>2. /\ p \in Request /\ p.op = "tell" /\ request' = [request EXCEPT ![r] = NoRequest] /\ Publish(p.to)
      /\ UNCHANGED <<enabled, suited, links, able, worker, joining, host, held, leaked, edits, troubles>>
  BY <1>1 DEF TellWorker, Answered, PostInv, HandlersTyped
<1>3. p.to \in {"on", "off"} /\ HandlersTyped
  BY <1>2 DEF Request, PostInv
<1>4. /\ bus' \in Seq({"on", "off"})
      /\ astray' \subseteq Straying
      /\ worker # "listening" => bus' = bus
      /\ astray' = {} => /\ worker = "listening" /\ astray = {}
                         /\ bus' # <<>> /\ bus'[Len(bus')] = p.to
                         /\ p.to = "off" => Detaches'
                         /\ p.to = "on" => (Detaches' <=> Detaches)
  BY <1>2, <1>3, PublishIs
<1>5. /\ request' \in [Requests -> Request] /\ request'[r] = NoRequest
      /\ \A s \in Requests \ {r} : request'[s] = request[s]
  BY <1>2, <1>3, RequestTyped, NoRequestIs
<1>6. HandlersTyped'
  BY <1>2, <1>3, <1>4, <1>5 DEF HandlersTyped
<1>7. Alone' /\ HostHeld'
  BY <1>2, <1>4 DEF PostInv, Alone, HostHeld
<1>8. ASSUME worker' # "down", astray' = {} PROVE Follows'
  <2>8. /\ worker = "listening" /\ astray = {} /\ bus' # <<>> /\ bus'[Len(bus')] = p.to
        /\ p.to = "off" => Detaches'
        /\ p.to = "on" => (Detaches' <=> Detaches)
    BY <1>4, <1>8
  <2>1. Follows BY <2>8 DEF PostInv
  <2>2. p.to = enabled BY <1>1, <1>2, <2>1 DEF Follows, InTurn
  <2>3. \A s \in Requests : request'[s].op = "none"
    BY <1>1, <1>2, <1>5, <2>1, NoRequestIs DEF Follows, InTurn
  <2>4. InTurn' BY <2>3 DEF InTurn
  <2>5. OffIsTold' BY <1>2, <1>3, <2>2, <2>8 DEF OffIsTold
  <2>6. OnIsTold' BY <1>2, <2>2, <2>8 DEF OnIsTold, EndsWith, Wanted
  <2>7. DeleteIsTold' BY <2>3 DEF DeleteIsTold
  <2>10. OffIsOver' BY <1>2, <2>2, <2>8 DEF OffIsOver, EndsWith
  <2> QED BY <2>4, <2>5, <2>6, <2>7, <2>10 DEF Follows
<1> QED BY <1>6, <1>7, <1>8 DEF PostInv

LEMMA RetargetKeeps == ASSUME PostListenerAssumption, PostInv, Retarget PROVE PostInv'
<1>1. /\ enabled # "gone" /\ edits < MaxEdits /\ edits' = edits + 1 /\ suited' = ~suited
      /\ astray' = astray \cup {"retargeted"}
      /\ UNCHANGED <<enabled, links, able, request, bus, worker, joining, host, held, leaked, troubles>>
  BY DEF Retarget, Edit
<1>2. HandlersTyped'
  BY <1>1 DEF PostInv, HandlersTyped, Straying, PostListenerAssumption
<1>3. Alone' /\ HostHeld'
  BY <1>1 DEF PostInv, Alone, HostHeld
<1> QED BY <1>1, <1>2, <1>3 DEF PostInv

LEMMA DeleteKeeps ==
  ASSUME PostListenerAssumption, PostInv, NEW r \in Requests, Delete(r)
  PROVE  PostInv'
<1>1. PICK q : q = [op |-> "told", to |-> "off", was |-> enabled, who |-> Nobody]
  OBVIOUS
<1>2. /\ request[r].op = "none" /\ enabled \in {"on", "off"} /\ edits < MaxEdits /\ edits' = edits + 1
      /\ request' = [request EXCEPT ![r] = q]
      /\ IF worker = "listening" THEN bus' = Append(bus, "off") ELSE bus' = bus
      /\ astray' = astray \cup Overlap(r) \cup (IF worker = "listening" THEN {} ELSE {"unheard"})
      /\ UNCHANGED <<enabled, suited, links, able, worker, joining, host, held, leaked, troubles>>
  BY <1>1 DEF Delete, Opens, Edit, PostInv, HandlersTyped
<1>3. q \in Request /\ q.op = "told"
  BY <1>1, <1>2 DEF Request
<1>4. /\ request' \in [Requests -> Request] /\ request'[r] = q
      /\ \A s \in Requests \ {r} : request'[s] = request[s]
  BY <1>2, <1>3, RequestTyped DEF PostInv
<1>5. bus' \in Seq({"on", "off"}) /\ (worker # "listening" => bus' = bus)
  <2>1. bus \in Seq({"on", "off"}) BY DEF PostInv, HandlersTyped
  <2>2. Append(bus, "off") \in Seq({"on", "off"}) BY <2>1
  <2> QED BY <1>2, <2>1, <2>2
<1>6. astray' \subseteq Straying
  BY <1>2 DEF PostInv, HandlersTyped, Overlap, Straying
<1>7. HandlersTyped'
  BY <1>2, <1>4, <1>5, <1>6 DEF PostInv, HandlersTyped, PostListenerAssumption
<1>8. Alone' /\ HostHeld'
  BY <1>2, <1>5 DEF PostInv, Alone, HostHeld
<1>9. ASSUME worker' # "down", astray' = {} PROVE Follows'
  <2>1. Overlap(r) = {} /\ astray = {} /\ worker = "listening" /\ bus' = Append(bus, "off")
    BY <1>2, <1>9
  <2>2. AllIdle BY <2>1, <1>2, OpensAlone
  <2>3. /\ bus' # <<>> /\ bus'[Len(bus')] = "off" /\ Len(bus') \in 1..Len(bus')
    BY <2>1 DEF PostInv, HandlersTyped
  <2>4. Detaches' BY <2>3 DEF Detaches
  <2>5. \A s \in Requests : s = r \/ request'[s].op = "none" BY <1>4, <2>2 DEF AllIdle
  <2>6. InTurn' BY <1>3, <1>4, <2>5 DEF InTurn
  <2>7. OffIsTold' BY <2>4 DEF OffIsTold
  <2>8. OnIsTold' BY <1>3, <1>4 DEF OnIsTold
  <2>9. DeleteIsTold' BY <2>3 DEF DeleteIsTold, EndsWith
  <2>10. OffIsOver' BY <1>3, <1>4 DEF OffIsOver
  <2> QED BY <2>6, <2>7, <2>8, <2>9, <2>10 DEF Follows
<1> QED BY <1>7, <1>8, <1>9 DEF PostInv

LEMMA CommitDeleteKeeps ==
  ASSUME PostListenerAssumption, PostInv, NEW r \in Requests, CommitDelete(r)
  PROVE  PostInv'
<1>1. /\ request[r].op = "told" /\ enabled' = "gone" /\ links' = {} /\ able' = {}
      /\ request' = [request EXCEPT ![r] = NoRequest]
      /\ UNCHANGED <<suited, bus, worker, joining, host, held, leaked, astray, edits, troubles>>
  BY DEF CommitDelete, Answered
<1>2. /\ request' \in [Requests -> Request] /\ request'[r] = NoRequest
      /\ \A s \in Requests \ {r} : request'[s] = request[s]
  BY <1>1, RequestTyped, NoRequestIs DEF PostInv
<1>3. HandlersTyped'
  <2>1. IsFiniteSet({}) BY FS_EmptySet, FS_AddElement, FS_RemoveElement DEF PostInv, HandlersTyped
  <2> QED BY <2>1, <1>1, <1>2 DEF PostInv, HandlersTyped
<1>4. Alone' /\ HostHeld'
  BY <1>1 DEF PostInv, Alone, HostHeld
<1>5. ASSUME worker' # "down", astray' = {} PROVE Follows'
  <2>1. Follows BY <1>1, <1>5 DEF PostInv
  <2>2. \A s \in Requests : request'[s].op = "none"
    BY <1>1, <1>2, <2>1, NoRequestIs DEF Follows, InTurn
  <2>3. EndsWith("off") \/ (bus = <<>> /\ Unhosted) BY <1>1, <2>1 DEF Follows, DeleteIsTold
  <2>4. EndsWith("off") => Detaches
    <3>1. bus # <<>> => Len(bus) \in 1..Len(bus) BY DEF PostInv, HandlersTyped
    <3> QED BY <3>1 DEF EndsWith, Detaches
  <2>5. OffIsTold' BY <1>1, <2>3, <2>4 DEF OffIsTold, Unhosted, Detaches
  <2>6. InTurn' /\ DeleteIsTold' BY <2>2 DEF InTurn, DeleteIsTold
  <2>7. OnIsTold' BY <1>1 DEF OnIsTold, Wanted
  <2>8. OffIsOver' BY <1>1 DEF OffIsOver
  <2> QED BY <2>5, <2>6, <2>7, <2>8 DEF Follows
<1> QED BY <1>3, <1>4, <1>5 DEF PostInv

LEMMA AttachKeeps ==
  ASSUME PostListenerAssumption, PostInv, NEW r \in Requests, NEW a \in Hosts, Attach(r, a)
  PROVE  PostInv'
<1>1. PICK q : q = [op |-> "count", to |-> "on", was |-> enabled, who |-> a]
  OBVIOUS
<1>2. /\ request[r].op = "none" /\ enabled \in {"on", "off"} /\ edits < MaxEdits /\ edits' = edits + 1
      /\ request' = [request EXCEPT ![r] = q] /\ links' = links \cup {a}
      /\ able' = able \cup {a}
      /\ astray' = astray \cup Overlap(r) \cup (IF links = {} THEN {} ELSE Untold)
      /\ UNCHANGED <<enabled, suited, bus, worker, joining, host, held, leaked, troubles>>
  BY <1>1 DEF Attach, Opens, Edit, PostInv, HandlersTyped
<1>3. q \in Request /\ q.op = "count"
  BY <1>1, <1>2 DEF Request
<1>4. /\ request' \in [Requests -> Request] /\ request'[r] = q
      /\ \A s \in Requests \ {r} : request'[s] = request[s]
  BY <1>2, <1>3, RequestTyped DEF PostInv
<1>5. HandlersTyped'
  <2>1. IsFiniteSet(links \cup {a})
    BY FS_EmptySet, FS_AddElement, FS_RemoveElement DEF PostInv, HandlersTyped
  <2> QED BY <2>1, <1>2, <1>4 DEF PostInv, HandlersTyped, Overlap, Untold, Straying, PostListenerAssumption
<1>6. Alone' /\ HostHeld'
  BY <1>2 DEF PostInv, Alone, HostHeld
<1>7. ASSUME worker' # "down", astray' = {} PROVE Follows'
  <2>1. Overlap(r) = {} /\ astray = {} /\ worker # "down" BY <1>2, <1>7
  <2>2. AllIdle BY <2>1, <1>2, OpensAlone
  <2>3. Follows BY <2>1 DEF PostInv
  <2>4. /\ enabled # "on" => Unhosted \/ Detaches
        /\ Wanted => EndsWith("on") \/ (~Detaches /\ ~Unhosted)
        /\ enabled = "on" /\ Detaches => EndsWith("on")
    BY <2>2, <2>3, IdleFollows
  <2>5. \A s \in Requests : s = r \/ request'[s].op = "none" BY <1>4, <2>2 DEF AllIdle
  <2>6. InTurn' BY <1>3, <1>4, <2>5 DEF InTurn
  <2>7. OffIsTold' BY <1>2, <2>4 DEF OffIsTold, Unhosted, Detaches
  <2>8. OnIsTold'
    <3>1. CASE links = {}
      <4>1. Cardinality(links') = 1 BY <1>2, <3>1, FS_Singleton
      <4> QED BY <4>1, <1>3, <1>4 DEF OnIsTold
    <3>2. CASE links # {}
      <4>1. able = {} => enabled # "on" \/ ~Unhosted
        BY <1>2, <1>7, <3>2 DEF Untold, Unhosted
      <4>2. Wanted' => EndsWith("on") \/ (~Detaches /\ ~Unhosted)
        BY <1>2, <2>4, <4>1 DEF Wanted
      <4> QED BY <1>2, <4>2 DEF OnIsTold, Unhosted, Detaches, EndsWith
    <3> QED BY <3>1, <3>2
  <2>9. DeleteIsTold' BY <1>3, <1>4, <2>5 DEF DeleteIsTold
  <2>10. OffIsOver' BY <1>2, <2>4 DEF OffIsOver, Detaches, EndsWith
  <2> QED BY <2>6, <2>7, <2>8, <2>9, <2>10 DEF Follows
<1> QED BY <1>5, <1>6, <1>7 DEF PostInv

LEMMA CountKeeps ==
  ASSUME PostListenerAssumption, PostInv, NEW r \in Requests, Count(r)
  PROVE  PostInv'
<1>1. /\ request[r].op = "count" /\ request' = [request EXCEPT ![r] = NoRequest]
      /\ IF Cardinality(links) = 1 /\ enabled = "on" THEN Publish("on")
                                                  ELSE bus' = bus /\ astray' = astray
      /\ UNCHANGED <<enabled, suited, links, able, worker, joining, host, held, leaked, edits, troubles>>
  BY DEF Count, Answered
<1>2. /\ request' \in [Requests -> Request] /\ request'[r] = NoRequest
      /\ \A s \in Requests \ {r} : request'[s] = request[s]
  BY <1>1, RequestTyped, NoRequestIs DEF PostInv
<1>3. /\ bus' \in Seq({"on", "off"})
      /\ astray' \subseteq Straying
      /\ worker # "listening" => bus' = bus
      /\ astray' = {} => astray = {} /\ (Detaches' <=> Detaches)
      /\ astray' = {} /\ Cardinality(links) = 1 /\ enabled = "on" =>
            bus' # <<>> /\ bus'[Len(bus')] = "on"
  <2>1. CASE Cardinality(links) = 1 /\ enabled = "on"
    <3>1. Publish("on") /\ HandlersTyped BY <1>1, <2>1 DEF PostInv
    <3>2. /\ bus' \in Seq({"on", "off"})
          /\ astray' \subseteq Straying
          /\ worker # "listening" => bus' = bus
          /\ astray' = {} => /\ worker = "listening" /\ astray = {}
                             /\ bus' # <<>> /\ bus'[Len(bus')] = "on"
                             /\ Detaches' <=> Detaches
      BY <3>1, PublishIs
    <3> QED BY <3>2
  <2>2. CASE ~(Cardinality(links) = 1 /\ enabled = "on")
    BY <1>1, <2>2 DEF PostInv, HandlersTyped, Detaches
  <2> QED BY <2>1, <2>2
<1>4. HandlersTyped'
  BY <1>1, <1>2, <1>3 DEF PostInv, HandlersTyped
<1>5. Alone' /\ HostHeld'
  BY <1>1, <1>3 DEF PostInv, Alone, HostHeld
<1>6. ASSUME worker' # "down", astray' = {} PROVE Follows'
  <2>1. Follows /\ (Detaches' <=> Detaches) BY <1>1, <1>3, <1>6 DEF PostInv
  <2>2. \A s \in Requests : request'[s].op = "none"
    BY <1>1, <1>2, <2>1, NoRequestIs DEF Follows, InTurn
  <2>3. InTurn' /\ DeleteIsTold' BY <2>2 DEF InTurn, DeleteIsTold
  <2>4. \A s \in Requests : request[s].op # "tell" /\ request[s].op # "told"
                           /\ (request[s].op = "count" => s = r)
    BY <1>1, <2>1 DEF Follows, InTurn
  <2>5. OffIsTold' BY <1>1, <2>1, <2>4 DEF Follows, OffIsTold, Unhosted
  <2>6. OnIsTold'
    <3>1. CASE Cardinality(links) = 1 /\ enabled = "on"
      BY <1>3, <1>6, <3>1 DEF OnIsTold, EndsWith
    <3>2. CASE ~(Cardinality(links) = 1 /\ enabled = "on")
      BY <1>1, <2>1, <2>4, <3>2 DEF Follows, OnIsTold, Wanted, EndsWith, Unhosted
    <3> QED BY <3>1, <3>2
  <2>7. OffIsOver'
    <3>1. CASE Cardinality(links) = 1 /\ enabled = "on"
      BY <1>3, <1>6, <3>1 DEF OffIsOver, EndsWith
    <3>2. CASE ~(Cardinality(links) = 1 /\ enabled = "on")
      BY <1>1, <2>1, <2>4, <3>2 DEF Follows, OffIsOver, EndsWith
    <3> QED BY <3>1, <3>2
  <2> QED BY <2>3, <2>5, <2>6, <2>7 DEF Follows
<1> QED BY <1>4, <1>5, <1>6 DEF PostInv

\* One account linked is that account.
LEMMA OneHost ==
  ASSUME NEW a \in links, Cardinality(links) = 1, IsFiniteSet(links)
  PROVE  links = {a}
  BY FS_Singleton

LEMMA DetachKeeps ==
  ASSUME PostListenerAssumption, PostInv, NEW a \in Hosts, Detach(a)
  PROVE  PostInv'
<1>1. /\ a \in links /\ edits < MaxEdits /\ edits' = edits + 1 /\ links' = links \ {a}
      /\ able' = able \ {a}
      /\ UNCHANGED <<enabled, suited, request, bus, worker, joining, host, held, leaked, astray, troubles>>
  BY DEF Detach, Edit
<1>2. HandlersTyped'
  <2>1. IsFiniteSet(links \ {a})
    BY FS_EmptySet, FS_AddElement, FS_RemoveElement DEF PostInv, HandlersTyped
  <2> QED BY <2>1, <1>1 DEF PostInv, HandlersTyped, PostListenerAssumption
<1>3. Alone' /\ HostHeld'
  BY <1>1 DEF PostInv, Alone, HostHeld
<1>4. ASSUME worker' # "down", astray' = {} PROVE Follows'
  <2>1. Follows BY <1>1, <1>4 DEF PostInv
  <2>2. InTurn' /\ OffIsTold' /\ OffIsOver' /\ DeleteIsTold'
    BY <1>1, <2>1 DEF Follows, InTurn, OffIsTold, OffIsOver, DeleteIsTold, Unhosted, Detaches,
           EndsWith
  <2>3. OnIsTold'
    <3>1. CASE Cardinality(links) = 1
      <4>1. IsFiniteSet(links) /\ links = {a}
        BY <1>1, <3>1, OneHost DEF PostInv, HandlersTyped
      <4>2. able' = {} BY <4>1, <1>1 DEF PostInv, HandlersTyped
      <4> QED BY <4>2 DEF OnIsTold, Wanted
    <3>2. CASE Cardinality(links) # 1
      BY <1>1, <2>1, <3>2 DEF Follows, OnIsTold, Wanted, Unhosted, Detaches, EndsWith
    <3> QED BY <3>1, <3>2
  <2> QED BY <2>2, <2>3 DEF Follows
<1> QED BY <1>2, <1>3, <1>4 DEF PostInv

LEMMA LapseKeeps ==
  ASSUME PostListenerAssumption, PostInv, NEW a \in Hosts, Lapse(a)
  PROVE  PostInv'
<1>1. /\ edits < MaxEdits /\ edits' = edits + 1 /\ able' = able \ {a}
      /\ UNCHANGED <<enabled, suited, links, request, bus, worker, joining, host, held, leaked, astray,
                     troubles>>
  BY DEF Lapse, Edit
<1>2. HandlersTyped'
  BY <1>1 DEF PostInv, HandlersTyped, PostListenerAssumption
<1>3. Alone' /\ HostHeld'
  BY <1>1 DEF PostInv, Alone, HostHeld
<1>4. Wanted' => Wanted
  BY <1>1 DEF Wanted
<1>5. Follows => Follows'
  BY <1>1, <1>4 DEF Follows, InTurn, OffIsTold, OnIsTold, OffIsOver, DeleteIsTold, Unhosted, Detaches,
     EndsWith
<1> QED BY <1>1, <1>2, <1>3, <1>5 DEF PostInv

\* An account that comes back finds a handler, or one on its way, or its return goes untold.
LEMMA ReturnKeeps ==
  ASSUME PostListenerAssumption, PostInv, NEW a \in Hosts, Return(a)
  PROVE  PostInv'
<1>1. /\ a \in links /\ edits < MaxEdits /\ edits' = edits + 1 /\ able' = able \cup {a}
      /\ astray' = astray \cup Untold
      /\ UNCHANGED <<enabled, suited, links, request, bus, worker, joining, host, held, leaked,
                     troubles>>
  BY DEF Return, Edit
<1>2. HandlersTyped'
  BY <1>1 DEF PostInv, HandlersTyped, Untold, Straying, PostListenerAssumption
<1>3. Alone' /\ HostHeld'
  BY <1>1 DEF PostInv, Alone, HostHeld
<1>4. ASSUME worker' # "down", astray' = {} PROVE Follows'
  <2>1. Follows BY <1>1, <1>4 DEF PostInv
  <2>2. InTurn' /\ OffIsTold' /\ OffIsOver' /\ DeleteIsTold'
    BY <1>1, <2>1 DEF Follows, InTurn, OffIsTold, OffIsOver, DeleteIsTold, Unhosted, Detaches,
       EndsWith
  <2>3. OnIsTold'
    <3>1. CASE able # {}
      BY <1>1, <2>1, <3>1 DEF Follows, OnIsTold, Wanted, Unhosted, Detaches, EndsWith
    <3>2. CASE able = {} /\ enabled = "on"
      <4>1. ~Unhosted BY <1>1, <1>4, <3>2 DEF Untold, Unhosted
      <4> QED BY <1>1, <2>1, <3>2, <4>1 DEF Follows, OffIsOver, OnIsTold, Unhosted, Detaches, EndsWith
    <3>3. CASE enabled # "on"
      BY <1>1, <3>3 DEF OnIsTold, Wanted
    <3> QED BY <3>1, <3>2, <3>3
  <2> QED BY <2>2, <2>3 DEF Follows
<1> QED BY <1>2, <1>3, <1>4 DEF PostInv
-----------------------------------------------------------------------------
LEMMA HearAttachKeeps == ASSUME PostListenerAssumption, PostInv, HearAttach PROVE PostInv'
<1>1. /\ worker = "listening" /\ joining = Nobody /\ bus # <<>> /\ Head(bus) = "on" /\ bus' = Tail(bus)
      /\ UNCHANGED <<enabled, suited, links, able, request, worker, host, held, leaked, astray, edits, troubles>>
      /\ IF host = Nobody /\ Wanted THEN joining' \in able ELSE joining' = joining
  BY DEF HearAttach, AttachHandler
<1>2. /\ bus' \in Seq({"on", "off"}) /\ (Detaches' <=> Detaches)
      /\ bus' # <<>> => bus'[Len(bus')] = bus[Len(bus)]
      /\ bus' = <<>> => Head(bus) = bus[Len(bus)]
  BY <1>1, TakenIs DEF PostInv
<1>3. able \subseteq Hosts /\ Nobody \notin able
  BY DEF PostInv, HandlersTyped, PostListenerAssumption
<1>4. HandlersTyped'
  BY <1>1, <1>2, <1>3 DEF PostInv, HandlersTyped
<1>5. Alone' /\ HostHeld'
  BY <1>1 DEF PostInv, Alone, HostHeld
<1>6. ASSUME worker' # "down", astray' = {} PROVE Follows'
  <2>1. Follows BY <1>1, <1>6 DEF PostInv
  <2>2. InTurn' BY <1>1, <2>1 DEF Follows, InTurn
  <2>3. OffIsTold' BY <1>1, <1>2, <2>1 DEF Follows, OffIsTold, Unhosted, Wanted
  <2>4. OnIsTold'
    <3>1. CASE EndsWith("on")
      <4>1. CASE bus' # <<>> BY <1>2, <3>1, <4>1 DEF OnIsTold, EndsWith
      <4>2. CASE bus' = <<>>
        <5>1. ~Detaches' BY <4>2 DEF Detaches
        <5>2. Wanted => ~Unhosted' BY <1>1, <1>3 DEF Unhosted
        <5> QED BY <5>1, <5>2, <1>1 DEF OnIsTold, Wanted
      <4> QED BY <4>1, <4>2
    <3>2. CASE ~EndsWith("on")
      BY <1>1, <1>2, <1>3, <2>1, <3>2 DEF Follows, OnIsTold, Wanted, Unhosted
    <3> QED BY <3>1, <3>2
  <2>5. DeleteIsTold'
    <3>1. \A r \in Requests : request[r].op = "told" => bus[Len(bus)] = "off"
      BY <1>1, <2>1 DEF Follows, DeleteIsTold, EndsWith
    <3>2. \A r \in Requests : request[r].op = "told" => bus' # <<>> /\ bus'[Len(bus')] = "off"
      BY <1>1, <1>2, <3>1
    <3> QED BY <1>1, <3>2 DEF DeleteIsTold, EndsWith
  <2>6. OffIsOver'
    <3>1. Detaches' => bus' # <<>> BY DEF Detaches
    <3> QED BY <1>1, <1>2, <2>1, <3>1 DEF Follows, OffIsOver, EndsWith
  <2> QED BY <2>2, <2>3, <2>4, <2>5, <2>6 DEF Follows
<1> QED BY <1>4, <1>5, <1>6 DEF PostInv

LEMMA HearDetachKeeps == ASSUME PostListenerAssumption, PostInv, HearDetach PROVE PostInv'
<1>1. /\ worker = "listening" /\ joining = Nobody /\ bus # <<>> /\ Head(bus) = "off" /\ bus' = Tail(bus)
      /\ host' = Nobody /\ held' = [a \in Hosts |-> held[a] - (IF a = host THEN 1 ELSE 0)]
      /\ UNCHANGED <<enabled, suited, links, able, request, worker, joining, leaked, astray, edits, troubles>>
  BY DEF HearDetach
<1>2. /\ bus' \in Seq({"on", "off"})
      /\ bus' # <<>> => bus'[Len(bus')] = bus[Len(bus)]
      /\ bus' = <<>> => Head(bus) = bus[Len(bus)]
  BY <1>1, TakenIs DEF PostInv
<1>3. ASSUME NEW a \in Hosts PROVE held'[a] = leaked[a] /\ leaked[a] \in Nat
  <2>1. held[a] \in Nat /\ leaked[a] \in Nat /\ held[a] = leaked[a] + (IF host = a THEN 1 ELSE 0)
    BY DEF PostInv, HandlersTyped, HostHeld
  <2>2. held'[a] = held[a] - (IF a = host THEN 1 ELSE 0) BY <1>1
  <2> QED BY <2>1, <2>2
<1>4. held' \in [Hosts -> Nat]
  BY <1>1, <1>3
<1>5. HandlersTyped'
  BY <1>1, <1>2, <1>4 DEF PostInv, HandlersTyped
<1>6. Alone'
  BY <1>1 DEF PostInv, Alone
<1>7. HostHeld'
  BY <1>1, <1>3 DEF HostHeld, PostListenerAssumption
<1>8. Unhosted'
  BY <1>1 DEF Unhosted
<1>9. Detaches
  BY <1>1 DEF Detaches, PostInv, HandlersTyped
<1>10. ASSUME worker' # "down", astray' = {} PROVE Follows'
  <2>1. Follows BY <1>1, <1>10 DEF PostInv
  <2>2. InTurn' BY <1>1, <2>1 DEF Follows, InTurn
  <2>3. OffIsTold' BY <1>8 DEF OffIsTold
  <2>4. OnIsTold'
    <3>1. CASE EndsWith("on") BY <1>1, <1>2, <3>1 DEF OnIsTold, EndsWith
    <3>2. CASE ~EndsWith("on") BY <1>1, <1>9, <2>1, <3>2 DEF Follows, OnIsTold, Wanted
    <3> QED BY <3>1, <3>2
  <2>5. DeleteIsTold'
    <3>1. \A r \in Requests : request[r].op = "told" => bus[Len(bus)] = "off"
      BY <1>1, <2>1 DEF Follows, DeleteIsTold, EndsWith
    <3> QED BY <1>1, <1>2, <1>8, <3>1 DEF DeleteIsTold, EndsWith
  <2>6. OffIsOver'
    <3>1. Detaches' => bus' # <<>> BY DEF Detaches
    <3> QED BY <1>1, <1>2, <1>9, <2>1, <3>1 DEF Follows, OffIsOver, EndsWith
  <2> QED BY <2>2, <2>3, <2>4, <2>5, <2>6 DEF Follows
<1> QED BY <1>5, <1>6, <1>7, <1>10 DEF PostInv

LEMMA JoinHandlerKeeps == ASSUME PostListenerAssumption, PostInv, Join PROVE PostInv'
<1>1. /\ joining # Nobody /\ host' = joining /\ joining' = Nobody
      /\ held' = [held EXCEPT ![joining] = held[joining] + 1]
      /\ UNCHANGED <<enabled, suited, links, able, request, bus, worker, leaked, astray, edits, troubles>>
  BY DEF Join
<1>2. joining \in Hosts /\ host = Nobody /\ worker # "down" /\ Nobody \notin Hosts
  BY <1>1 DEF PostInv, HandlersTyped, Alone, PostListenerAssumption
<1>3. held' \in [Hosts -> Nat]
  BY <1>1, <1>2 DEF PostInv, HandlersTyped
<1>4. HandlersTyped'
  BY <1>1, <1>2, <1>3 DEF PostInv, HandlersTyped
<1>5. Alone'
  BY <1>1, <1>2 DEF PostInv, Alone
<1>6. HostHeld'
  <2>1. ASSUME NEW a \in Hosts PROVE held'[a] = leaked[a] + (IF joining = a THEN 1 ELSE 0)
    <3>1. held[a] = leaked[a] /\ leaked[a] \in Nat BY <1>2 DEF PostInv, HandlersTyped, HostHeld
    <3>2. held'[a] = IF joining = a THEN held[a] + 1 ELSE held[a]
      BY <1>1 DEF PostInv, HandlersTyped
    <3> QED BY <3>1, <3>2
  <2> QED BY <1>1, <2>1 DEF HostHeld
<1>7. ~Unhosted /\ ~Unhosted'
  BY <1>1 DEF Unhosted
<1>8. ASSUME worker' # "down", astray' = {} PROVE Follows'
  <2>1. Follows BY <1>1, <1>8 DEF PostInv
  <2> QED BY <1>1, <1>7, <2>1
          DEF Follows, InTurn, OffIsTold, OnIsTold, OffIsOver, DeleteIsTold, Detaches, EndsWith, Wanted
<1> QED BY <1>4, <1>5, <1>6, <1>8 DEF PostInv

LEMMA JoinFailsKeeps == ASSUME PostListenerAssumption, PostInv, JoinFails PROVE PostInv'
<1>1. /\ joining # Nobody /\ joining' = Nobody /\ troubles' \in 0..MaxTroubles
      /\ astray' = astray \cup {"failed"}
      /\ UNCHANGED <<enabled, suited, links, able, request, bus, worker, host, edits>>
  BY DEF JoinFails, PostInv, HandlersTyped, PostListenerAssumption
<1>2. joining \in Hosts
  BY <1>1 DEF PostInv, HandlersTyped
<1>3. held' \in [Hosts -> Nat] /\ leaked' \in [Hosts -> Nat] /\ HostHeld'
  <2>1. CASE UNCHANGED <<held, leaked>>
    BY <1>1, <2>1 DEF PostInv, HandlersTyped, HostHeld
  <2>2. CASE /\ held' = [held EXCEPT ![joining] = held[joining] + 1]
             /\ leaked' = [leaked EXCEPT ![joining] = leaked[joining] + 1]
    <3>1. held' \in [Hosts -> Nat] /\ leaked' \in [Hosts -> Nat]
      BY <1>2, <2>2 DEF PostInv, HandlersTyped
    <3>2. ASSUME NEW a \in Hosts PROVE held'[a] = leaked'[a] + (IF host = a THEN 1 ELSE 0)
      <4>1. /\ held[a] = leaked[a] + (IF host = a THEN 1 ELSE 0)
            /\ held[a] \in Nat /\ leaked[a] \in Nat
        BY DEF PostInv, HandlersTyped, HostHeld
      <4>2. /\ held'[a] = IF joining = a THEN held[a] + 1 ELSE held[a]
            /\ leaked'[a] = IF joining = a THEN leaked[a] + 1 ELSE leaked[a]
        BY <2>2 DEF PostInv, HandlersTyped
      <4> QED BY <4>1, <4>2
    <3> QED BY <1>1, <3>1, <3>2 DEF HostHeld
  <2> QED BY <2>1, <2>2 DEF JoinFails
<1>4. HandlersTyped'
  BY <1>1, <1>3 DEF PostInv, HandlersTyped, Straying
<1>5. Alone'
  BY <1>1 DEF PostInv, Alone
<1> QED BY <1>1, <1>3, <1>4, <1>5 DEF PostInv

LEMMA StopKeeps == ASSUME PostListenerAssumption, PostInv, Stop PROVE PostInv'
<1>1. troubles' \in 0..MaxTroubles
  BY DEF Stop, PostInv, HandlersTyped, PostListenerAssumption
<1>2. /\ worker' = "down" /\ bus' = <<>> /\ joining' = Nobody /\ host' = Nobody
      /\ held' = [a \in Hosts |-> 0] /\ leaked' = [a \in Hosts |-> 0]
      /\ UNCHANGED <<enabled, suited, links, able, request, astray, edits>>
  BY DEF Stop
<1>3. HandlersTyped'
  BY <1>1, <1>2 DEF PostInv, HandlersTyped
<1>4. Alone' /\ HostHeld'
  BY <1>2 DEF Alone, HostHeld, PostListenerAssumption
<1> QED BY <1>2, <1>3, <1>4 DEF PostInv

LEMMA LoadKeeps == ASSUME PostListenerAssumption, PostInv, Load PROVE PostInv'
<1>1. /\ worker = "down" /\ worker' = "loading"
      /\ astray' = IF \E r \in Requests : request[r].op # "none" THEN {"unheard"} ELSE {}
      /\ UNCHANGED <<enabled, suited, links, able, request, bus, host, held, leaked, edits, troubles>>
      /\ IF host = Nobody /\ Wanted THEN joining' \in able ELSE joining' = joining
  BY DEF Load, AttachHandler
<1>2. able \subseteq Hosts /\ Nobody \notin able /\ host = Nobody /\ joining = Nobody /\ bus = <<>>
  BY <1>1 DEF PostInv, HandlersTyped, Alone, PostListenerAssumption
<1>3. HandlersTyped'
  BY <1>1, <1>2 DEF PostInv, HandlersTyped, Straying
<1>4. Alone' /\ HostHeld'
  BY <1>1, <1>2 DEF PostInv, Alone, HostHeld
<1>5. ASSUME astray' = {} PROVE Follows'
  <2>1. \A r \in Requests : request'[r].op = "none" BY <1>1, <1>5
  <2>2. Wanted => ~Unhosted' BY <1>1, <1>2 DEF Unhosted
  <2>3. ~Detaches' BY <1>1, <1>2 DEF Detaches
  <2>4. InTurn' /\ DeleteIsTold' BY <2>1 DEF InTurn, DeleteIsTold
  <2>5. OffIsTold' BY <1>1, <1>2 DEF OffIsTold, Unhosted, Wanted
  <2>6. OnIsTold' BY <1>1, <2>2, <2>3 DEF OnIsTold, Wanted
  <2>7. OffIsOver' BY <2>3 DEF OffIsOver
  <2> QED BY <2>4, <2>5, <2>6, <2>7 DEF Follows
<1> QED BY <1>3, <1>4, <1>5 DEF PostInv

LEMMA SubscribeKeeps == ASSUME PostListenerAssumption, PostInv, Subscribe PROVE PostInv'
<1>1. /\ worker = "loading" /\ worker' = "listening" /\ joining = Nobody
      /\ astray' = astray \/ astray' = astray \cup {"unheard"}
      /\ UNCHANGED <<enabled, suited, links, able, request, bus, joining, host, held, leaked, edits, troubles>>
  BY DEF Subscribe
<1>2. HandlersTyped'
  BY <1>1 DEF PostInv, HandlersTyped, Straying
<1>3. Alone' /\ HostHeld'
  BY <1>1 DEF PostInv, Alone, HostHeld
<1>4. ASSUME astray' = {} PROVE Follows'
  <2>1. Follows BY <1>1, <1>4 DEF PostInv
  <2> QED BY <1>1, <2>1 DEF Follows, InTurn, OffIsTold, OnIsTold, OffIsOver, DeleteIsTold, Detaches, EndsWith,
             Wanted, Unhosted
<1> QED BY <1>2, <1>3, <1>4 DEF PostInv
-----------------------------------------------------------------------------
LEMMA PostInitInv == ASSUME PostListenerAssumption, PostInit PROVE PostInv
<1>1. HandlersTyped
  <2>1. NoRequest \in Request BY NoRequestIs
  <2>2. request \in [Requests -> Request] BY <2>1 DEF PostInit
  <2>3. <<>> \in Seq({"on", "off"}) OBVIOUS
  <2> QED BY <2>2, <2>3, FS_EmptySet DEF PostInit, HandlersTyped, PostListenerAssumption
<1>2. Alone /\ HostHeld
  BY DEF PostInit, Alone, HostHeld, PostListenerAssumption
<1>3. Follows
  BY NoRequestIs DEF PostInit, Follows, InTurn, OffIsTold, OnIsTold, OffIsOver, Detaches, DeleteIsTold,
     Unhosted, Wanted
<1> QED BY <1>1, <1>2, <1>3 DEF PostInv

LEMMA PostUnmoved == ASSUME PostInv, UNCHANGED postVars PROVE PostInv'
<1>1. HandlersTyped' /\ Alone' /\ HostHeld'
  BY DEF PostInv, HandlersTyped, Alone, HostHeld, postVars
<1>2. Follows => Follows'
  BY DEF Follows, InTurn, OffIsTold, OnIsTold, OffIsOver, DeleteIsTold, Detaches, EndsWith, Wanted, Unhosted,
         postVars
<1> QED BY <1>1, <1>2 DEF PostInv, postVars

LEMMA PostStep == ASSUME PostListenerAssumption, PostInv, [PostNext]_postVars PROVE PostInv'
<1>1. ASSUME NEW r \in Requests,
             \/ \E to \in {"on", "off"} : Patch(r, to)
             \/ CommitPatch(r) \/ TellWorker(r) \/ Delete(r) \/ CommitDelete(r)
             \/ \E a \in Hosts : Attach(r, a)
             \/ Count(r)
      PROVE  PostInv'
  BY <1>1, PatchKeeps, CommitPatchKeeps, TellWorkerKeeps, DeleteKeeps, CommitDeleteKeeps,
     AttachKeeps,
     CountKeeps
<1>2. ASSUME NEW a \in Hosts, Detach(a) \/ Lapse(a) \/ Return(a) PROVE PostInv'
  BY <1>2, DetachKeeps, LapseKeeps, ReturnKeeps
<1>3. CASE Retarget \/ HearAttach \/ HearDetach \/ Join \/ JoinFails \/ Stop \/ Load \/ Subscribe
  BY <1>3, RetargetKeeps, HearAttachKeeps, HearDetachKeeps, JoinHandlerKeeps, JoinFailsKeeps,
     StopKeeps,
     LoadKeeps, SubscribeKeeps
<1>4. CASE UNCHANGED postVars
  BY <1>4, PostUnmoved
<1> QED BY <1>1, <1>2, <1>3, <1>4 DEF PostNext

LEMMA PostHolds == ASSUME PostListenerAssumption, PostInv PROVE PostTypeOK /\ ListenerFollows
<1>1. HandlerFits
  <2>1. ASSUME Settled, astray = {} PROVE (host # Nobody => enabled = "on") /\ (Wanted => host # Nobody)
    <3>1. /\ worker = "listening" /\ joining = Nobody /\ bus = <<>>
          /\ \A r \in Requests : request[r].op = "none"
      BY <2>1 DEF Settled
    <3>2. Follows BY <2>1, <3>1 DEF PostInv
    <3>3. ~Detaches BY <3>1 DEF Detaches
    <3> QED BY <3>1, <3>2, <3>3 DEF Follows, OffIsTold, OnIsTold, Unhosted, EndsWith
  <2> QED BY <2>1 DEF HandlerFits
<1>2. \A i \in DOMAIN bus : bus[i] \in {"on", "off"}
  BY DEF PostInv, HandlersTyped
<1>3. PostTypeOK
  BY <1>2 DEF PostTypeOK, PostInv, HandlersTyped, Request, Straying
<1> QED BY <1>1, <1>3 DEF ListenerFollows, PostInv

\* PostListener: once the toggles were told to the worker and handled, the handler is there
\* exactly when the campaign's channel wants it, and the registry holds one reference for it.
THEOREM HandlersFollow ==
  ASSUME PostListenerAssumption PROVE PostSpec => [](PostTypeOK /\ ListenerFollows)
<1>1. PostInit => PostInv
  BY PostInitInv
<1>2. PostInv /\ [PostNext]_postVars => PostInv'
  BY PostStep
<1>3. PostInv => PostTypeOK /\ ListenerFollows
  BY PostHolds
<1> QED BY <1>1, <1>2, <1>3, PTL DEF PostSpec

-----------------------------------------------------------------------------
(* SupportDesk *)
Entry == [user: Users, from: {"user", "manager"}, re: Forwards]

ChatsTyped ==
    /\ chat \in [Managers -> Seq(Nat)]
    /\ \A m \in Managers : \A j \in 1..Len(chat[m]) : chat[m][j] \in Messages
WireTyped == wire \in Seq(Nat) /\ \A k \in 1..Len(wire) : wire[k] \in Messages

DeskTyped ==
    /\ msgs \in Seq(Entry)
    /\ writing \subseteq Messages /\ untold \subseteq Messages /\ WireTyped /\ ChatsTyped
    /\ round \in [of: Messages \cup {0}, left: SUBSET Managers]
    /\ sent \in Forwards
    /\ relays \subseteq [chat: Managers, no: Nat, user: Users]
    /\ answer \in [Managers -> Messages \cup {0}]
    /\ inbox \in [Users -> SUBSET Messages]
    /\ stops \in 0..MaxStops

Unseen(i) == \A m \in Managers : \A j \in 1..Len(chat[m]) : chat[m][j] # i

\* A message is in one place on its way to the managers, and it is a user's.
OnTheWay ==
    /\ \A i \in writing : /\ msgs[i].from = "user" /\ Unseen(i) /\ round.of # i
                          /\ \A k \in 1..Len(wire) : wire[k] # i
    /\ \A k \in 1..Len(wire) : msgs[wire[k]].from = "user" /\ Unseen(wire[k]) /\ round.of # wire[k]
    /\ \A k, l \in 1..Len(wire) : wire[k] = wire[l] => k = l
    /\ IF round.of = 0 THEN round.left = {} ELSE msgs[round.of].from = "user"
    /\ \A m \in round.left : \A j \in 1..Len(chat[m]) : chat[m][j] # round.of

SentFits ==
    sent # NoForward => /\ sent.chat \in Managers /\ sent.no \in 1..Len(chat[sent.chat])
                        /\ chat[sent.chat][sent.no] = round.of /\ round.of # 0

\* A relay names the user whose message the manager has under that number.
RelaysFit ==
    \A r \in relays : r.no \in 1..Len(chat[r.chat]) /\ msgs[chat[r.chat][r.no]].user = r.user

AnswersFit ==
    \A i \in Messages : msgs[i].from = "manager" =>
        /\ msgs[i].re.chat \in Managers /\ msgs[i].re.no \in 1..Len(chat[msgs[i].re.chat])
        /\ msgs[i].user = msgs[chat[msgs[i].re.chat][msgs[i].re.no]].user

SendsFit == \A m \in Managers : answer[m] # 0 => msgs[answer[m]].from = "manager"

DeskInv == DeskTyped /\ OnTheWay /\ SentFits /\ RelaysFit /\ AnswersFit /\ SendsFit
           /\ InboxIsThread /\ ForwardedOnce
-----------------------------------------------------------------------------

\* While no message and no chat changes, what is said of them stays.
LEMMA ThreadsStay ==
  ASSUME DeskInv, UNCHANGED <<msgs, chat>>
  PROVE  /\ AnswersFit' /\ ForwardedOnce'
         /\ relays' = relays => RelaysFit'
         /\ inbox' = inbox => InboxIsThread'
         /\ answer' = answer => SendsFit'
         /\ sent' = sent /\ round' = round => SentFits'
<1>1. Messages' = Messages
  BY DEF Messages
<1>2. AnswersFit'
  <2>1. AnswersFit
    BY DEF DeskInv
  <2> QED BY <1>1, <2>1 DEF AnswersFit
<1>3. ForwardedOnce'
  BY DEF DeskInv, ForwardedOnce
<1>4. relays' = relays => RelaysFit'
  BY DEF DeskInv, RelaysFit
<1>5. inbox' = inbox => InboxIsThread'
  BY DEF DeskInv, InboxIsThread
<1>6. answer' = answer => SendsFit'
  BY DEF DeskInv, SendsFit
<1>7. sent' = sent /\ round' = round => SentFits'
  BY DEF DeskInv, SentFits
<1> QED BY <1>2, <1>3, <1>4, <1>5, <1>6, <1>7

\* A message is added to the thread of its user; what is there stays.
LEMMA Added ==
  ASSUME DeskInv, NEW e \in Entry, msgs' = Append(msgs, e)
  PROVE  /\ Len(msgs) \in Nat /\ Len(msgs') = Len(msgs) + 1 /\ msgs' \in Seq(Entry)
         /\ Messages' = Messages \cup {Len(msgs) + 1} /\ Len(msgs) + 1 \notin Messages
         /\ Len(msgs) + 1 # 0 /\ 0 \notin Messages
         /\ msgs'[Len(msgs) + 1] = e /\ \A i \in Messages : msgs'[i] = msgs[i]
<1>1. msgs \in Seq(Entry)
  BY DEF DeskInv, DeskTyped
<1>2. /\ Len(msgs) \in Nat /\ Len(msgs') = Len(msgs) + 1 /\ msgs' \in Seq(Entry)
      /\ msgs'[Len(msgs) + 1] = e /\ \A i \in 1..Len(msgs) : msgs'[i] = msgs[i]
  BY <1>1
<1>3. 1..Len(msgs') = 1..Len(msgs) \cup {Len(msgs) + 1} /\ Len(msgs) + 1 \notin 1..Len(msgs)
  BY <1>2
<1> QED BY <1>2, <1>3 DEF Messages

LEMMA Places ==
  ASSUME DeskInv
  PROVE  /\ \A m \in Managers : \A j \in 1..Len(chat[m]) : chat[m][j] \in Messages
         /\ \A k \in 1..Len(wire) : wire[k] \in Messages
         /\ round.of \in Messages \cup {0} /\ round.left \subseteq Managers
         /\ writing \subseteq Messages /\ Messages \subseteq Nat /\ 0 \notin Messages
         /\ \A m \in Managers : answer[m] \in Messages \cup {0}
         /\ \A u \in Users : inbox[u] \subseteq Messages
         /\ \A r \in relays : r.chat \in Managers
  BY DEF DeskInv, DeskTyped, WireTyped, ChatsTyped, Messages

\* What does not name the new message does not change by it.
LEMMA AddedKeeps ==
  ASSUME DeskInv, NEW e \in Entry, msgs' = Append(msgs, e),
         UNCHANGED <<wire, round, sent, chat, relays, inbox>>
  PROVE  /\ WireTyped' /\ ChatsTyped' /\ round' \in [of: Messages' \cup {0}, left: SUBSET Managers]
         /\ inbox' \in [Users -> SUBSET Messages']
         /\ SentFits' /\ RelaysFit' /\ InboxIsThread' /\ ForwardedOnce'
<1>1. /\ Messages \subseteq Messages' /\ \A i \in Messages : msgs'[i] = msgs[i]
  BY Added
<1>2. WireTyped' /\ ChatsTyped' /\ round' \in [of: Messages' \cup {0}, left: SUBSET Managers]
  BY <1>1 DEF DeskInv, DeskTyped, WireTyped, ChatsTyped
<1>3. inbox' \in [Users -> SUBSET Messages']
  BY <1>1 DEF DeskInv, DeskTyped
<1>4. SentFits'
  BY DEF DeskInv, SentFits
<1>5. RelaysFit'
  BY <1>1, Places DEF DeskInv, RelaysFit
<1>6. InboxIsThread'
  BY <1>1, Places DEF DeskInv, InboxIsThread
<1>7. ForwardedOnce'
  <2>1. ASSUME NEW m \in Managers, NEW j \in 1..Len(chat[m]), NEW k \in 1..Len(chat[m])
        PROVE  (chat[m][j] = chat[m][k] => j = k) /\ msgs'[chat[m][j]].from = "user"
    <3>1. (chat[m][j] = chat[m][k] => j = k) /\ msgs[chat[m][j]].from = "user"
      BY DEF DeskInv, ForwardedOnce
    <3>2. chat[m][j] \in Messages BY Places
    <3>3. msgs'[chat[m][j]] = msgs[chat[m][j]] BY <1>1, <3>2
    <3> QED BY <3>1, <3>3
  <2> QED BY <2>1 DEF ForwardedOnce
<1> QED BY <1>2, <1>3, <1>4, <1>5, <1>6, <1>7

LEMMA FromUserIs ==
  ASSUME SupportDeskAssumption, NEW u \in Users
  PROVE  FromUser(u) \in Entry /\ FromUser(u).from = "user"
  BY DEF FromUser, Entry, Forwards, NoForward

LEMMA UserWritesKeeps ==
  ASSUME SupportDeskAssumption, DeskInv, NEW u \in Users, Write(u) \/ Ticket(u)
  PROVE  DeskInv'
<1>1. PICK e : e = FromUser(u)
  OBVIOUS
<1>2. /\ e \in Entry /\ e.from = "user" /\ msgs' = Append(msgs, e)
      /\ UNCHANGED <<untold, wire, round, sent, chat, relays, answer, inbox, stops>>
      /\ writing' = writing \/ writing' = writing \cup {Len(msgs')}
  BY <1>1, FromUserIs DEF Write, Ticket
<1>3. PICK n : n = Len(msgs) + 1
  OBVIOUS
<1>4. /\ msgs' \in Seq(Entry) /\ Messages' = Messages \cup {n} /\ n \notin Messages /\ n # 0
      /\ msgs'[n] = e /\ Len(msgs') = n /\ \A i \in Messages : msgs'[i] = msgs[i]
  BY <1>2, <1>3, Added
<1>5. /\ WireTyped' /\ ChatsTyped' /\ round' \in [of: Messages' \cup {0}, left: SUBSET Managers]
      /\ inbox' \in [Users -> SUBSET Messages']
      /\ SentFits' /\ RelaysFit' /\ InboxIsThread' /\ ForwardedOnce'
  BY <1>2, AddedKeeps
<1>6. DeskTyped'
  <2>1. writing' \subseteq Messages' BY <1>2, <1>4 DEF DeskInv, DeskTyped
  <2>2. answer' \in [Managers -> Messages' \cup {0}] BY <1>2, <1>4 DEF DeskInv, DeskTyped
  <2> QED BY <1>2, <1>4, <1>5, <2>1, <2>2 DEF DeskInv, DeskTyped
<1>7. OnTheWay'
  <2>1. \A i \in writing' : i \in writing \/ i = n BY <1>2, <1>4
  <2>2. Unseen(n) /\ round.of # n /\ \A k \in 1..Len(wire) : wire[k] # n
    BY <1>4, Places DEF Unseen
  <2>3. \A i \in writing' : msgs'[i].from = "user" /\ Unseen(i) /\ round.of # i
                           /\ \A k \in 1..Len(wire) : wire[k] # i
    BY <1>2, <1>4, <2>1, <2>2, Places DEF DeskInv, OnTheWay
  <2>4. \A k \in 1..Len(wire) : msgs'[wire[k]].from = "user" /\ Unseen(wire[k]) /\ round.of # wire[k]
    BY <1>4, Places DEF DeskInv, OnTheWay
  <2>5. IF round.of = 0 THEN round.left = {} ELSE msgs'[round.of].from = "user"
    BY <1>4, Places DEF DeskInv, OnTheWay
  <2>6. \A i : Unseen(i)' <=> Unseen(i)
    BY <1>2 DEF Unseen
  <2>7. /\ \A k, l \in 1..Len(wire) : wire[k] = wire[l] => k = l
        /\ \A m \in round.left : \A j \in 1..Len(chat[m]) : chat[m][j] # round.of
    BY DEF DeskInv, OnTheWay
  <2> QED BY <1>2, <2>3, <2>4, <2>5, <2>6, <2>7 DEF OnTheWay
<1>8. AnswersFit'
  <2>1. ASSUME NEW i \in Messages', msgs'[i].from = "manager"
        PROVE  /\ msgs'[i].re.chat \in Managers /\ msgs'[i].re.no \in 1..Len(chat[msgs'[i].re.chat])
               /\ msgs'[i].user = msgs'[chat[msgs'[i].re.chat][msgs'[i].re.no]].user
    <3>1. i \in Messages /\ msgs'[i] = msgs[i] BY <1>2, <1>4, <2>1
    <3>2. /\ msgs[i].re.chat \in Managers /\ msgs[i].re.no \in 1..Len(chat[msgs[i].re.chat])
          /\ msgs[i].user = msgs[chat[msgs[i].re.chat][msgs[i].re.no]].user
      BY <2>1, <3>1 DEF DeskInv, AnswersFit
    <3> QED BY <1>4, <3>1, <3>2, Places
  <2> QED BY <1>2, <2>1 DEF AnswersFit
<1>9. SendsFit'
  BY <1>2, <1>4, Places DEF DeskInv, SendsFit
<1> QED BY <1>5, <1>6, <1>7, <1>8, <1>9 DEF DeskInv

LEMMA ReplyKeeps ==
  ASSUME SupportDeskAssumption, DeskInv, NEW m \in Managers, NEW no \in 1..MaxMessages, Reply(m, no)
  PROVE  DeskInv'
<1>1. PICK r \in Relay(m, no) :
        /\ msgs' = Append(msgs, [user |-> r.user, from |-> "manager", re |-> [chat |-> m, no |-> no]])
        /\ answer' = [answer EXCEPT ![m] = Len(msgs')]
  BY DEF Reply
<1>2. PICK e : e = [user |-> r.user, from |-> "manager", re |-> [chat |-> m, no |-> no]]
  OBVIOUS
<1>3. /\ r \in relays /\ r.chat = m /\ r.no = no /\ r.user \in Users /\ no \in Nat
      /\ no \in 1..Len(chat[m]) /\ r.user = msgs[chat[m][no]].user
  BY DEF Relay, DeskInv, DeskTyped, RelaysFit
<1>4. /\ e \in Entry /\ e.from = "manager" /\ e.user = r.user /\ e.re.chat = m /\ e.re.no = no
  BY <1>2, <1>3 DEF Entry, Forwards
<1>5. /\ msgs' = Append(msgs, e)
      /\ UNCHANGED <<writing, untold, wire, round, sent, chat, relays, inbox, stops>>
  BY <1>1, <1>2 DEF Reply
<1>6. PICK n : n = Len(msgs) + 1
  OBVIOUS
<1>7. /\ msgs' \in Seq(Entry) /\ Messages' = Messages \cup {n} /\ n \notin Messages /\ n # 0
      /\ msgs'[n] = e /\ Len(msgs') = n /\ \A i \in Messages : msgs'[i] = msgs[i]
  BY <1>4, <1>5, <1>6, Added
<1>8. /\ WireTyped' /\ ChatsTyped' /\ round' \in [of: Messages' \cup {0}, left: SUBSET Managers]
      /\ inbox' \in [Users -> SUBSET Messages']
      /\ SentFits' /\ RelaysFit' /\ InboxIsThread' /\ ForwardedOnce'
  BY <1>4, <1>5, AddedKeeps
<1>9. answer' \in [Managers -> Messages' \cup {0}]
      /\ \A k \in Managers : answer'[k] = IF k = m THEN n ELSE answer[k]
  BY <1>1, <1>7 DEF DeskInv, DeskTyped
<1>10. DeskTyped'
  BY <1>5, <1>7, <1>8, <1>9 DEF DeskInv, DeskTyped
<1>11. OnTheWay'
  <2>1. \A i \in writing : msgs'[i].from = "user" /\ Unseen(i) /\ round.of # i
                          /\ \A k \in 1..Len(wire) : wire[k] # i
    BY <1>7, Places DEF DeskInv, OnTheWay
  <2>2. \A k \in 1..Len(wire) : msgs'[wire[k]].from = "user" /\ Unseen(wire[k]) /\ round.of # wire[k]
    BY <1>7, Places DEF DeskInv, OnTheWay
  <2>3. IF round.of = 0 THEN round.left = {} ELSE msgs'[round.of].from = "user"
    BY <1>7, Places DEF DeskInv, OnTheWay
  <2>4. \A i : Unseen(i)' <=> Unseen(i)
    BY <1>5 DEF Unseen
  <2>5. /\ \A k, l \in 1..Len(wire) : wire[k] = wire[l] => k = l
        /\ \A q \in round.left : \A j \in 1..Len(chat[q]) : chat[q][j] # round.of
    BY DEF DeskInv, OnTheWay
  <2> QED BY <1>5, <2>1, <2>2, <2>3, <2>4, <2>5 DEF OnTheWay
<1>12. AnswersFit'
  <2>1. ASSUME NEW i \in Messages', msgs'[i].from = "manager"
        PROVE  /\ msgs'[i].re.chat \in Managers /\ msgs'[i].re.no \in 1..Len(chat[msgs'[i].re.chat])
               /\ msgs'[i].user = msgs'[chat[msgs'[i].re.chat][msgs'[i].re.no]].user
    <3>1. CASE i \in Messages
      <4>1. msgs'[i] = msgs[i] BY <1>7, <3>1
      <4>2. /\ msgs[i].re.chat \in Managers /\ msgs[i].re.no \in 1..Len(chat[msgs[i].re.chat])
            /\ msgs[i].user = msgs[chat[msgs[i].re.chat][msgs[i].re.no]].user
        BY <2>1, <3>1, <4>1 DEF DeskInv, AnswersFit
      <4> QED BY <1>7, <4>1, <4>2, Places
    <3>2. CASE i = n
      <4>1. chat[m][no] \in Messages BY <1>3, Places
      <4> QED BY <1>3, <1>4, <1>7, <3>2, <4>1
    <3> QED BY <1>7, <2>1, <3>1, <3>2
  <2> QED BY <1>5, <2>1 DEF AnswersFit
<1>13. SendsFit'
  BY <1>4, <1>7, <1>9, Places DEF DeskInv, SendsFit
<1> QED BY <1>8, <1>10, <1>11, <1>12, <1>13 DEF DeskInv
-----------------------------------------------------------------------------
LEMMA PublishMessageKeeps ==
  ASSUME SupportDeskAssumption, DeskInv, NEW i \in Messages, PublishMessage(i)
  PROVE  DeskInv'
<1>1. /\ i \in writing /\ writing' = writing \ {i} /\ wire' = Append(wire, i)
      /\ UNCHANGED <<msgs, untold, round, sent, chat, relays, answer, inbox, stops>>
  BY DEF PublishMessage
<1>2. wire \in Seq(Nat) /\ i \in Nat
  BY Places DEF DeskInv, DeskTyped, WireTyped
<1>3. PICK n : n = Len(wire)
  OBVIOUS
<1>4. /\ n \in Nat /\ wire' \in Seq(Nat) /\ Len(wire') = n + 1 /\ wire'[n + 1] = i
      /\ \A k \in 1..n : wire'[k] = wire[k]
  BY <1>1, <1>2, <1>3
<1>5. \A k \in 1..Len(wire') : k \in 1..n \/ k = n + 1
  BY <1>4
<1>6. /\ msgs[i].from = "user" /\ Unseen(i) /\ round.of # i /\ \A k \in 1..n : wire[k] # i
  BY <1>1, <1>3 DEF DeskInv, OnTheWay
<1>7. Messages' = Messages /\ \A q : Unseen(q)' <=> Unseen(q)
  BY <1>1 DEF Messages, Unseen
<1>8. DeskTyped'
  <2>1. WireTyped' BY <1>1, <1>3, <1>4, <1>5, <1>7, Places DEF WireTyped
  <2>2. ChatsTyped' BY <1>1, <1>7 DEF DeskInv, DeskTyped, ChatsTyped
  <2> QED BY <1>1, <1>7, <2>1, <2>2 DEF DeskInv, DeskTyped
<1>9. OnTheWay'
  <2>1. \A q \in writing' : /\ msgs[q].from = "user" /\ Unseen(q) /\ round.of # q
                           /\ \A k \in 1..Len(wire') : wire'[k] # q
    BY <1>1, <1>3, <1>4, <1>5 DEF DeskInv, OnTheWay
  <2>2. \A k \in 1..Len(wire') : msgs[wire'[k]].from = "user" /\ Unseen(wire'[k]) /\ round.of # wire'[k]
    BY <1>3, <1>4, <1>5, <1>6 DEF DeskInv, OnTheWay
  <2>3. \A k, l \in 1..Len(wire') : wire'[k] = wire'[l] => k = l
    BY <1>3, <1>4, <1>5, <1>6 DEF DeskInv, OnTheWay
  <2>4. /\ IF round.of = 0 THEN round.left = {} ELSE msgs[round.of].from = "user"
        /\ \A m \in round.left : \A j \in 1..Len(chat[m]) : chat[m][j] # round.of
    BY DEF DeskInv, OnTheWay
  <2> QED BY <1>1, <1>7, <2>1, <2>2, <2>3, <2>4 DEF OnTheWay
<1>10. SentFits' /\ RelaysFit' /\ AnswersFit' /\ SendsFit' /\ InboxIsThread' /\ ForwardedOnce'
  BY <1>1, ThreadsStay
<1> QED BY <1>8, <1>9, <1>10 DEF DeskInv

\* A message that is told to nobody is on its way no more.
LEMMA PublishFailsKeeps ==
  ASSUME SupportDeskAssumption, DeskInv, NEW i \in Messages, PublishFails(i)
  PROVE  DeskInv'
<1>1. /\ writing' = writing \ {i} /\ untold' = untold \cup {i}
      /\ UNCHANGED <<msgs, wire, round, sent, chat, relays, answer, inbox, stops>>
  BY DEF PublishFails
<1>2. Messages' = Messages /\ \A q : Unseen(q)' <=> Unseen(q)
  BY <1>1 DEF Messages, Unseen
<1>3. DeskTyped'
  BY <1>1, <1>2 DEF DeskInv, DeskTyped, WireTyped, ChatsTyped
<1>4. OnTheWay'
  BY <1>1, <1>2 DEF DeskInv, OnTheWay
<1>5. SentFits' /\ RelaysFit' /\ AnswersFit' /\ SendsFit' /\ InboxIsThread' /\ ForwardedOnce'
  BY <1>1, ThreadsStay
<1> QED BY <1>3, <1>4, <1>5 DEF DeskInv

LEMMA TakeUpKeeps == ASSUME SupportDeskAssumption, DeskInv, TakeUp PROVE DeskInv'
<1>1. /\ round = NoRound /\ wire # <<>> /\ wire' = Tail(wire)
      /\ round' = [of |-> Head(wire), left |-> Managers]
      /\ UNCHANGED <<msgs, writing, untold, sent, chat, relays, answer, inbox, stops>>
  BY DEF TakeUp
<1>2. wire \in Seq(Nat)
  BY DEF DeskInv, DeskTyped, WireTyped
<1>3. PICK n : n = Len(wire)
  OBVIOUS
<1>4. /\ n \in Nat \ {0} /\ Head(wire) = wire[1] /\ wire' \in Seq(Nat) /\ Len(wire') = n - 1
      /\ \A k \in 1..n - 1 : wire'[k] = wire[k + 1]
  BY <1>1, <1>2, <1>3
<1>5. 1 \in 1..n /\ \A k \in 1..Len(wire') : k + 1 \in 1..n /\ wire'[k] = wire[k + 1] /\ k + 1 # 1 /\ k \in Nat
  <2>1. \A k \in 1..n - 1 : k + 1 \in 1..n /\ k + 1 # 1 /\ k \in Nat
    BY <1>4
  <2>2. 1 \in 1..n /\ 1..Len(wire') = 1..n - 1
    BY <1>4
  <2> QED BY <1>4, <2>1, <2>2
<1>6. Messages' = Messages /\ \A q : Unseen(q)' <=> Unseen(q)
  BY <1>1 DEF Messages, Unseen
<1>7. PICK h : h = wire[1]
  OBVIOUS
<1>8. /\ round'.of = h /\ round'.left = Managers /\ h \in Messages /\ h # 0
      /\ msgs[h].from = "user" /\ Unseen(h)
  BY <1>1, <1>3, <1>4, <1>5, <1>7, Places DEF DeskInv, OnTheWay
<1>9. DeskTyped'
  <2>1. WireTyped' BY <1>3, <1>4, <1>5, <1>6, Places DEF WireTyped
  <2>2. round' \in [of: Messages' \cup {0}, left: SUBSET Managers]
    BY <1>1, <1>4, <1>6, <1>7, <1>8
  <2>3. ChatsTyped' BY <1>1, <1>6 DEF DeskInv, DeskTyped, ChatsTyped
  <2> QED BY <1>1, <1>6, <2>1, <2>2, <2>3 DEF DeskInv, DeskTyped
<1>10. OnTheWay'
  <2>1. \A q \in writing : /\ msgs[q].from = "user" /\ Unseen(q) /\ h # q
                          /\ \A k \in 1..Len(wire') : wire'[k] # q
    BY <1>3, <1>5, <1>7 DEF DeskInv, OnTheWay
  <2>2. \A k \in 1..Len(wire') : msgs[wire'[k]].from = "user" /\ Unseen(wire'[k]) /\ h # wire'[k]
    BY <1>3, <1>5, <1>7 DEF DeskInv, OnTheWay
  <2>3. \A k, l \in 1..Len(wire') : wire'[k] = wire'[l] => k = l
    <3>1. ASSUME NEW k \in 1..Len(wire'), NEW l \in 1..Len(wire'), wire'[k] = wire'[l] PROVE k = l
      <4>1. k + 1 \in 1..n /\ l + 1 \in 1..n /\ wire[k + 1] = wire[l + 1] /\ k \in Nat /\ l \in Nat
        BY <1>5, <3>1
      <4>2. k + 1 = l + 1 BY <1>3, <4>1 DEF DeskInv, OnTheWay
      <4> QED BY <4>1, <4>2
    <3> QED BY <3>1
  <2>4. \A m \in Managers : \A j \in 1..Len(chat[m]) : chat[m][j] # h
    BY <1>8 DEF Unseen
  <2> QED BY <1>1, <1>6, <1>8, <2>1, <2>2, <2>3, <2>4 DEF OnTheWay
<1>11. SentFits'
  <2>1. sent = NoForward BY <1>1 DEF DeskInv, SentFits, NoRound
  <2> QED BY <1>1, <2>1 DEF SentFits
<1>12. RelaysFit' /\ AnswersFit' /\ SendsFit' /\ InboxIsThread' /\ ForwardedOnce'
  BY <1>1, ThreadsStay
<1> QED BY <1>9, <1>10, <1>11, <1>12 DEF DeskInv

\* A manager is done with; the message has reached the chat or not.
LEMMA ReachesKeeps ==
  ASSUME SupportDeskAssumption, DeskInv, NEW m \in round.left, sent = NoForward,
         round' = [round EXCEPT !.left = round.left \ {m}],
         chat' = chat \/ chat' = [chat EXCEPT ![m] = Append(chat[m], round.of)],
         UNCHANGED <<msgs, writing, untold, wire, relays, answer, inbox, stops>>
  PROVE  /\ WireTyped' /\ ChatsTyped' /\ Messages' = Messages
         /\ round'.of = round.of /\ round' \in [of: Messages \cup {0}, left: SUBSET Managers]
         /\ OnTheWay' /\ RelaysFit' /\ AnswersFit' /\ SendsFit' /\ InboxIsThread' /\ ForwardedOnce'
<1>1. m \in Managers /\ round.of \in Messages /\ msgs[round.of].from = "user"
      /\ \A j \in 1..Len(chat[m]) : chat[m][j] # round.of
  BY Places DEF DeskInv, OnTheWay
<1>2. /\ round'.of = round.of /\ round'.left = round.left \ {m}
      /\ round' \in [of: Messages \cup {0}, left: SUBSET Managers]
  BY DEF DeskInv, DeskTyped
<1>3. Messages' = Messages
  BY DEF Messages
<1>4. chat \in [Managers -> Seq(Nat)] /\ round.of \in Nat
  BY <1>1, Places DEF DeskInv, DeskTyped, ChatsTyped
<1>5. /\ chat' \in [Managers -> Seq(Nat)] /\ \A q \in Managers \ {m} : chat'[q] = chat[q]
      /\ chat'[m] = chat[m] \/ chat'[m] = Append(chat[m], round.of)
  <2>1. Append(chat[m], round.of) \in Seq(Nat) BY <1>1, <1>4
  <2> QED BY <1>1, <1>4, <2>1
<1>6. /\ \A j \in 1..Len(chat[m]) : j \in 1..Len(chat'[m]) /\ chat'[m][j] = chat[m][j]
      /\ \A j \in 1..Len(chat'[m]) :
            \/ j \in 1..Len(chat[m])
            \/ j = Len(chat[m]) + 1 /\ chat'[m][j] = round.of
  <2>1. chat[m] \in Seq(Nat) BY <1>1, <1>4
  <2>2. PICK c : c = chat[m] OBVIOUS
  <2>3. PICK d : d = Append(c, round.of) OBVIOUS
  <2>4. /\ Len(d) = Len(c) + 1 /\ Len(c) \in Nat /\ d[Len(c) + 1] = round.of
        /\ \A j \in 1..Len(c) : d[j] = c[j]
    BY <2>1, <2>2, <2>3, <1>4
  <2>5. (\A j \in 1..Len(d) : j \in 1..Len(c) \/ j = Len(c) + 1) /\ (\A j \in 1..Len(c) : j \in 1..Len(d))
    BY <2>4
  <2>6. chat'[m] = c \/ chat'[m] = d BY <1>5, <2>2, <2>3
  <2> QED BY <2>2, <2>4, <2>5, <2>6
<1>7. ASSUME NEW q \in Managers, NEW j \in 1..Len(chat[q])
      PROVE  j \in 1..Len(chat'[q]) /\ chat'[q][j] = chat[q][j]
  BY <1>5, <1>6, <1>7
<1>8. ASSUME NEW q \in Managers, NEW j \in 1..Len(chat'[q])
      PROVE  \/ j \in 1..Len(chat[q]) /\ chat'[q][j] = chat[q][j]
             \/ q = m /\ j = Len(chat[m]) + 1 /\ chat'[q][j] = round.of
  BY <1>5, <1>6, <1>8
<1>9. WireTyped' BY <1>3 DEF DeskInv, DeskTyped, WireTyped
<1>10. ChatsTyped' BY <1>1, <1>3, <1>5, <1>8, Places DEF ChatsTyped
<1>11. \A i : Unseen(i) /\ round.of # i => Unseen(i)'
  BY <1>8 DEF Unseen
<1>12. OnTheWay'
  <2>1. \A i \in writing : /\ msgs[i].from = "user" /\ Unseen(i)' /\ round.of # i
                          /\ \A k \in 1..Len(wire) : wire[k] # i
    BY <1>11 DEF DeskInv, OnTheWay
  <2>2. \A k \in 1..Len(wire) : msgs[wire[k]].from = "user" /\ Unseen(wire[k])' /\ round.of # wire[k]
    BY <1>11 DEF DeskInv, OnTheWay
  <2>3. \A q \in round.left \ {m} : \A j \in 1..Len(chat'[q]) : chat'[q][j] # round.of
    BY <1>5, Places DEF DeskInv, OnTheWay
  <2>4. /\ \A k, l \in 1..Len(wire) : wire[k] = wire[l] => k = l
        /\ IF round.of = 0 THEN round.left = {} ELSE msgs[round.of].from = "user"
    BY DEF DeskInv, OnTheWay
  <2> QED BY <1>2, <2>1, <2>2, <2>3, <2>4 DEF OnTheWay
<1>13. RelaysFit' BY <1>7, Places DEF DeskInv, RelaysFit
<1>14. AnswersFit'
  <2>1. ASSUME NEW i \in Messages, msgs[i].from = "manager", NEW re, re = msgs[i].re
        PROVE  /\ re.chat \in Managers /\ re.no \in 1..Len(chat'[re.chat])
               /\ msgs[i].user = msgs[chat'[re.chat][re.no]].user
    <3>1. /\ re.chat \in Managers /\ re.no \in 1..Len(chat[re.chat])
          /\ msgs[i].user = msgs[chat[re.chat][re.no]].user
      BY <2>1 DEF DeskInv, AnswersFit
    <3> QED BY <1>7, <3>1
  <2> QED BY <1>3, <2>1 DEF AnswersFit
<1>15. SendsFit' /\ InboxIsThread' BY <1>3 DEF DeskInv, SendsFit, InboxIsThread
<1>16. ForwardedOnce'
  <2>1. ASSUME NEW q \in Managers, NEW j \in 1..Len(chat'[q]) PROVE msgs[chat'[q][j]].from = "user"
    BY <1>1, <1>8 DEF DeskInv, ForwardedOnce
  <2>2. ASSUME NEW q \in Managers, NEW j \in 1..Len(chat'[q]), NEW k \in 1..Len(chat'[q]),
               chat'[q][j] = chat'[q][k]
        PROVE  j = k
    BY <1>1, <1>8, <2>2 DEF DeskInv, ForwardedOnce
  <2> QED BY <2>1, <2>2 DEF ForwardedOnce
<1> QED BY <1>2, <1>3, <1>9, <1>10, <1>12, <1>13, <1>14, <1>15, <1>16

LEMMA ForwardKeeps ==
  ASSUME SupportDeskAssumption, DeskInv, NEW m \in Managers, Forward(m)
  PROVE  DeskInv'
<1>1. /\ m \in round.left /\ sent = NoForward
      /\ round' = [round EXCEPT !.left = round.left \ {m}]
      /\ chat' = [chat EXCEPT ![m] = Append(chat[m], round.of)]
      /\ sent' = [chat |-> m, no |-> Len(chat'[m])]
      /\ UNCHANGED <<msgs, writing, untold, wire, relays, answer, inbox, stops>>
  BY DEF Forward
<1>2. /\ WireTyped' /\ ChatsTyped' /\ Messages' = Messages
      /\ round'.of = round.of /\ round' \in [of: Messages \cup {0}, left: SUBSET Managers]
      /\ OnTheWay' /\ RelaysFit' /\ AnswersFit' /\ SendsFit' /\ InboxIsThread' /\ ForwardedOnce'
  BY <1>1, ReachesKeeps
<1>3. /\ chat[m] \in Seq(Nat) /\ round.of \in Nat \ {0} /\ chat'[m] = Append(chat[m], round.of)
  BY <1>1, Places DEF DeskInv, DeskTyped, ChatsTyped, OnTheWay
<1>4. Len(chat'[m]) \in Nat /\ Len(chat'[m]) \in 1..Len(chat'[m]) /\ chat'[m][Len(chat'[m])] = round.of
  BY <1>3
<1>5. sent' \in Forwards /\ SentFits'
  BY <1>1, <1>2, <1>3, <1>4 DEF Forwards, SentFits
<1>6. DeskTyped'
  BY <1>1, <1>2, <1>5 DEF DeskInv, DeskTyped
<1> QED BY <1>2, <1>5, <1>6 DEF DeskInv

LEMMA ForwardFailsKeeps ==
  ASSUME SupportDeskAssumption, DeskInv, NEW m \in Managers, ForwardFails(m)
  PROVE  DeskInv'
<1>1. /\ m \in round.left /\ sent = NoForward
      /\ round' = [round EXCEPT !.left = round.left \ {m}]
      /\ chat' = chat \/ chat' = [chat EXCEPT ![m] = Append(chat[m], round.of)]
      /\ UNCHANGED <<msgs, writing, untold, wire, sent, relays, answer, inbox, stops>>
  BY DEF ForwardFails
<1>2. /\ WireTyped' /\ ChatsTyped' /\ Messages' = Messages
      /\ round'.of = round.of /\ round' \in [of: Messages \cup {0}, left: SUBSET Managers]
      /\ OnTheWay' /\ RelaysFit' /\ AnswersFit' /\ SendsFit' /\ InboxIsThread' /\ ForwardedOnce'
  BY <1>1, ReachesKeeps
<1>3. SentFits'
  BY <1>1 DEF SentFits
<1>4. DeskTyped'
  BY <1>1, <1>2 DEF DeskInv, DeskTyped
<1> QED BY <1>2, <1>3, <1>4 DEF DeskInv

LEMMA StoreKeeps == ASSUME SupportDeskAssumption, DeskInv, StoreRelay \/ StoreFails PROVE DeskInv'
<1>1. PICK e : e = [chat |-> sent.chat, no |-> sent.no, user |-> msgs[round.of].user]
  OBVIOUS
<1>2. /\ sent # NoForward /\ sent' = NoForward /\ relays' \subseteq relays \cup {e}
      /\ UNCHANGED <<msgs, writing, untold, wire, round, chat, answer, inbox, stops>>
  BY <1>1 DEF StoreRelay, StoreFails
<1>3. /\ sent.chat \in Managers /\ sent.no \in 1..Len(chat[sent.chat]) /\ sent.no \in Nat
      /\ chat[sent.chat][sent.no] = round.of /\ round.of \in Messages
  BY <1>2, Places DEF DeskInv, SentFits, DeskTyped, Forwards
<1>4. msgs[round.of].user \in Users
  <2>1. msgs[round.of] \in Entry BY <1>3 DEF DeskInv, DeskTyped, Messages
  <2> QED BY <2>1 DEF Entry
<1>5. /\ e \in [chat: Managers, no: Nat, user: Users] /\ e.chat = sent.chat /\ e.no = sent.no
      /\ e.user = msgs[round.of].user
  BY <1>1, <1>3, <1>4
<1>6. Messages' = Messages /\ \A q : Unseen(q)' <=> Unseen(q)
  BY <1>2 DEF Messages, Unseen
<1>7. DeskTyped'
  <2>1. NoForward \in Forwards BY DEF NoForward, Forwards
  <2>2. WireTyped' /\ ChatsTyped' BY <1>2, <1>6 DEF DeskInv, DeskTyped, WireTyped, ChatsTyped
  <2>3. relays' \subseteq [chat: Managers, no: Nat, user: Users]
    BY <1>2, <1>5 DEF DeskInv, DeskTyped
  <2> QED BY <1>2, <1>6, <2>1, <2>2, <2>3 DEF DeskInv, DeskTyped
<1>8. RelaysFit'
  BY <1>2, <1>3, <1>5 DEF DeskInv, RelaysFit
<1>9. OnTheWay' /\ SentFits'
  BY <1>2, <1>6 DEF DeskInv, OnTheWay, SentFits
<1>10. AnswersFit' /\ SendsFit' /\ InboxIsThread' /\ ForwardedOnce'
  BY <1>2, ThreadsStay
<1> QED BY <1>7, <1>8, <1>9, <1>10 DEF DeskInv

LEMMA NextEventKeeps == ASSUME SupportDeskAssumption, DeskInv, NextEvent PROVE DeskInv'
<1>1. /\ sent = NoForward /\ round' = NoRound
      /\ UNCHANGED <<msgs, writing, untold, wire, sent, chat, relays, answer, inbox, stops>>
  BY DEF NextEvent
<1>2. Messages' = Messages /\ \A q : Unseen(q)' <=> Unseen(q)
  BY <1>1 DEF Messages, Unseen
<1>3. round'.of = 0 /\ round'.left = {} /\ round' \in [of: Messages \cup {0}, left: SUBSET Managers]
  BY <1>1 DEF NoRound
<1>4. DeskTyped'
  BY <1>1, <1>2, <1>3 DEF DeskInv, DeskTyped, WireTyped, ChatsTyped
<1>5. OnTheWay'
  BY <1>1, <1>2, <1>3, Places DEF DeskInv, OnTheWay
<1>6. RelaysFit' /\ AnswersFit' /\ SendsFit' /\ InboxIsThread' /\ ForwardedOnce'
  BY <1>1, ThreadsStay
<1>7. SentFits'
  BY <1>1 DEF SentFits
<1> QED BY <1>4, <1>5, <1>6, <1>7 DEF DeskInv

LEMMA SendKeeps ==
  ASSUME SupportDeskAssumption, DeskInv, NEW m \in Managers, Send(m) \/ SendFails(m)
  PROVE  DeskInv'
<1>1. PICK i : i = answer[m]
  OBVIOUS
<1>2. /\ i # 0 /\ answer' = [answer EXCEPT ![m] = 0]
      /\ inbox' = inbox \/ inbox' = [inbox EXCEPT ![msgs[i].user] = inbox[msgs[i].user] \cup {i}]
      /\ UNCHANGED <<msgs, writing, untold, wire, round, sent, chat, relays, stops>>
  BY <1>1 DEF Send, SendFails
<1>3. i \in Messages /\ msgs[i].from = "manager"
  BY <1>1, <1>2, Places DEF DeskInv, SendsFit
<1>4. msgs[i].user \in Users
  <2>1. msgs[i] \in Entry BY <1>3 DEF DeskInv, DeskTyped, Messages
  <2> QED BY <2>1 DEF Entry
<1>5. Messages' = Messages /\ \A q : Unseen(q)' <=> Unseen(q)
  BY <1>2 DEF Messages, Unseen
<1>6. /\ inbox' \in [Users -> SUBSET Messages]
      /\ \A u \in Users : \A k \in inbox'[u] : k \in inbox[u] \/ (k = i /\ u = msgs[i].user)
  BY <1>2, <1>3, <1>4 DEF DeskInv, DeskTyped
<1>7. /\ answer' \in [Managers -> Messages \cup {0}]
      /\ \A q \in Managers : answer'[q] = 0 \/ answer'[q] = answer[q]
  BY <1>2 DEF DeskInv, DeskTyped
<1>8. DeskTyped'
  <2>1. WireTyped' /\ ChatsTyped' BY <1>2, <1>5 DEF DeskInv, DeskTyped, WireTyped, ChatsTyped
  <2> QED BY <1>2, <1>5, <1>6, <1>7, <2>1 DEF DeskInv, DeskTyped
<1>9. InboxIsThread'
  BY <1>2, <1>3, <1>6 DEF DeskInv, InboxIsThread
<1>10. SendsFit'
  BY <1>2, <1>7 DEF DeskInv, SendsFit
<1>11. OnTheWay' /\ SentFits' /\ RelaysFit'
  BY <1>2, <1>5 DEF DeskInv, OnTheWay, SentFits, RelaysFit
<1>12. AnswersFit' /\ ForwardedOnce'
  BY <1>2, ThreadsStay
<1> QED BY <1>8, <1>9, <1>10, <1>11, <1>12 DEF DeskInv

LEMMA StopBotKeeps == ASSUME SupportDeskAssumption, DeskInv, StopBot PROVE DeskInv'
<1>1. /\ stops' \in 0..MaxStops /\ wire' = <<>> /\ round' = NoRound /\ sent' = NoForward
      /\ answer' = [m \in Managers |-> 0]
      /\ UNCHANGED <<msgs, writing, chat, relays, inbox>>
  BY DEF StopBot, DeskInv, DeskTyped, SupportDeskAssumption
<1>2. untold' \subseteq Messages
  <2>1. wire \in Seq(Nat) /\ \A k \in 1..Len(wire) : wire[k] \in Messages
    BY DEF DeskInv, DeskTyped, WireTyped
  <2>2. DOMAIN wire = 1..Len(wire) BY <2>1
  <2>3. untold' = untold \cup {wire[i] : i \in DOMAIN wire} /\ untold \subseteq Messages
    BY DEF StopBot, DeskInv, DeskTyped
  <2> QED BY <2>1, <2>2, <2>3
<1>3. Messages' = Messages /\ \A q : Unseen(q)' <=> Unseen(q)
  BY <1>1 DEF Messages, Unseen
<1>4. round'.of = 0 /\ round'.left = {} /\ round' \in [of: Messages \cup {0}, left: SUBSET Managers]
  BY <1>1 DEF NoRound
<1>5. wire' \in Seq(Nat) /\ 1..Len(wire') = {}
  BY <1>1
<1>6. DeskTyped'
  <2>1. WireTyped' BY <1>5 DEF WireTyped
  <2>2. ChatsTyped' BY <1>1, <1>3 DEF DeskInv, DeskTyped, ChatsTyped
  <2>3. sent' \in Forwards BY <1>1 DEF NoForward, Forwards
  <2>4. answer' \in [Managers -> Messages' \cup {0}] BY <1>1
  <2> QED BY <1>1, <1>2, <1>3, <1>4, <2>1, <2>2, <2>3, <2>4 DEF DeskInv, DeskTyped
<1>7. OnTheWay'
  BY <1>1, <1>3, <1>4, <1>5, Places DEF DeskInv, OnTheWay
<1>8. SentFits' /\ SendsFit'
  BY <1>1 DEF SentFits, SendsFit
<1>9. RelaysFit' /\ AnswersFit' /\ InboxIsThread' /\ ForwardedOnce'
  BY <1>1, ThreadsStay
<1> QED BY <1>6, <1>7, <1>8, <1>9 DEF DeskInv
-----------------------------------------------------------------------------
LEMMA DeskInitInv == ASSUME SupportDeskAssumption, DeskInit PROVE DeskInv
<1>1. /\ msgs = <<>> /\ writing = {} /\ untold = {} /\ wire = <<>> /\ sent = NoForward /\ relays = {}
      /\ chat = [m \in Managers |-> <<>>] /\ answer = [m \in Managers |-> 0]
      /\ inbox = [u \in Users |-> {}] /\ stops \in 0..MaxStops /\ round.of = 0 /\ round.left = {}
      /\ round = NoRound
  BY DEF DeskInit, NoRound, SupportDeskAssumption
<1>2. Messages = {} /\ msgs \in Seq(Entry) /\ wire \in Seq(Nat) /\ 1..Len(wire) = {}
  BY <1>1 DEF Messages
<1>3. \A m \in Managers : chat[m] = <<>> /\ 1..Len(chat[m]) = {}
  BY <1>1
<1>4. ChatsTyped
  <2>1. <<>> \in Seq(Nat) OBVIOUS
  <2> QED BY <1>1, <1>3, <2>1 DEF ChatsTyped
<1>5. DeskTyped
  <2>1. sent \in Forwards BY <1>1 DEF NoForward, Forwards
  <2>2. round \in [of: Messages \cup {0}, left: SUBSET Managers] BY <1>1 DEF NoRound
  <2> QED BY <1>1, <1>2, <1>4, <2>1, <2>2 DEF DeskTyped, WireTyped
<1>6. OnTheWay
  BY <1>1, <1>2 DEF OnTheWay
<1>7. SentFits /\ RelaysFit /\ AnswersFit /\ SendsFit /\ InboxIsThread
  BY <1>1, <1>2 DEF SentFits, RelaysFit, AnswersFit, SendsFit, InboxIsThread
<1>8. ForwardedOnce
  BY <1>3 DEF ForwardedOnce
<1> QED BY <1>5, <1>6, <1>7, <1>8 DEF DeskInv

LEMMA DeskUnmoved == ASSUME DeskInv, UNCHANGED deskVars PROVE DeskInv'
<1>1. Messages' = Messages /\ \A q : Unseen(q)' <=> Unseen(q)
  BY DEF Messages, Unseen, deskVars
<1>2. DeskTyped'
  BY <1>1 DEF DeskInv, DeskTyped, WireTyped, ChatsTyped, deskVars
<1>3. OnTheWay'
  BY <1>1 DEF DeskInv, OnTheWay, deskVars
<1>4. SentFits' /\ RelaysFit' /\ AnswersFit' /\ SendsFit' /\ InboxIsThread' /\ ForwardedOnce'
  BY <1>1, ThreadsStay DEF deskVars
<1> QED BY <1>2, <1>3, <1>4 DEF DeskInv

LEMMA DeskStep == ASSUME SupportDeskAssumption, DeskInv, [DeskNext]_deskVars PROVE DeskInv'
<1>1. ASSUME NEW u \in Users, Write(u) \/ Ticket(u) PROVE DeskInv'
  BY <1>1, UserWritesKeeps
<1>2. ASSUME NEW i \in Messages, PublishMessage(i) \/ PublishFails(i) PROVE DeskInv'
  BY <1>2, PublishMessageKeeps, PublishFailsKeeps
<1>3. CASE TakeUp \/ StoreRelay \/ StoreFails \/ NextEvent \/ StopBot
  BY <1>3, TakeUpKeeps, StoreKeeps, NextEventKeeps, StopBotKeeps
<1>4. ASSUME NEW m \in Managers,
             \/ Forward(m) \/ ForwardFails(m) \/ Send(m) \/ SendFails(m)
             \/ \E no \in 1..MaxMessages : Reply(m, no)
      PROVE  DeskInv'
  BY <1>4, ForwardKeeps, ForwardFailsKeeps, SendKeeps, ReplyKeeps
<1>5. CASE UNCHANGED deskVars
  BY <1>5, DeskUnmoved
<1> QED BY <1>1, <1>2, <1>3, <1>4, <1>5 DEF DeskNext

LEMMA DeskHolds == ASSUME DeskInv PROVE DeskTypeOK /\ DeskKept
<1>1. AnswerFindsItsUser
  BY DEF DeskInv, AnswersFit, AnswerFindsItsUser
<1>2. wire \in Seq(Messages)
  <2>1. wire \in Seq(Nat) /\ \A k \in 1..Len(wire) : wire[k] \in Messages
    BY DEF DeskInv, DeskTyped, WireTyped
  <2> QED BY <2>1
<1>3. chat \in [Managers -> Seq(Messages)]
  <2>1. ASSUME NEW m \in Managers PROVE chat[m] \in Seq(Messages)
    <3>1. chat[m] \in Seq(Nat) /\ \A j \in 1..Len(chat[m]) : chat[m][j] \in Messages
      BY DEF DeskInv, DeskTyped, ChatsTyped
    <3> QED BY <3>1
  <2> QED BY <2>1 DEF DeskInv, DeskTyped, ChatsTyped
<1>4. DeskTypeOK
  <2>1. sent # NoForward => chat[sent.chat][sent.no] = round.of BY DEF DeskInv, SentFits
  <2> QED BY <1>2, <1>3, <2>1 DEF DeskTypeOK, DeskInv, DeskTyped, Entry
<1> QED BY <1>1, <1>4 DEF DeskKept, DeskInv

\* SupportDesk: an answer reaches the user who asked, the inbox shows the thread as it was
\* written, and the relay forwards a question to a manager at most once, crashes included.
THEOREM DeskIsKept == ASSUME SupportDeskAssumption PROVE DeskSpec => [](DeskTypeOK /\ DeskKept)
<1>1. DeskInit => DeskInv
  BY DeskInitInv
<1>2. DeskInv /\ [DeskNext]_deskVars => DeskInv'
  BY DeskStep
<1>3. DeskInv => DeskTypeOK /\ DeskKept
  BY DeskHolds
<1> QED BY <1>1, <1>2, <1>3, PTL DEF DeskSpec

-----------------------------------------------------------------------------
(* Intake *)
Rows == [there: BOOLEAN, status: Statuses, geo: Countries \cup {CHOOSE c \in Countries : TRUE}]
Owned == [there: BOOLEAN, proxy: ProxyIds \cup {NoProxy}, via: {"hand", "pool"},
          works: BOOLEAN]
Doing == {"idle", "insert", "rows", "fields", "assign", "probe", "tell"}
Work == [at: Doing, phone: Phones \cup {"none"}, proxy: ProxyIds \cup {NoProxy},
         rows: SUBSET Phones, todo: SUBSET (ProxyIds \X Statuses)]

\* A request knows what it is about.
KnowsIts(r) ==
    /\ r.at \in {"insert", "assign", "fields"} => r.phone \in Phones
    /\ r.at \in {"assign", "tell"} => r.proxy \in ProxyIds

IntakeTyped ==
    /\ proxy \in [ProxyIds -> Rows] /\ accounts \in [Phones -> Owned] /\ clerk \in [Clerks -> Work]
    /\ told \subseteq Phones \X ProxyIds /\ since \subseteq Phones /\ orders \in 0..MaxOrders
    /\ \A h \in Clerks : KnowsIts(clerk[h])

\* The number read still holds when the one row is inserted.
RoomIsThere ==
    ~unlimited => /\ Cardinality(Present) <= AccountsMax
                  /\ \A g, h \in Clerks : clerk[g].at = "insert" /\ clerk[h].at = "insert" => g = h
                  /\ \A h \in Clerks : clerk[h].at = "insert" => Cardinality(Present) < AccountsMax

\* A proxy that one request has picked is nobody's of the pool until it is given.
PickIsFree ==
    /\ \A h \in Clerks : \A b \in Phones :
          clerk[h].at = "assign" /\ clerk[h].proxy \notin raced /\ accounts[b].there
              /\ accounts[b].proxy = clerk[h].proxy => accounts[b].via = "hand"
    /\ \A g, h \in Clerks :
          clerk[g].at = "assign" /\ clerk[h].at = "assign" /\ clerk[g].proxy = clerk[h].proxy =>
              g = h \/ clerk[g].proxy \in raced

IntakeInv == IntakeTyped /\ RoomIsThere /\ PickIsFree /\ OneProxyEach /\ DeadIsTold
-----------------------------------------------------------------------------
LEMMA PresentIs ==
  ASSUME IntakeAssumption
  PROVE  /\ IsFiniteSet(Present) /\ Cardinality(Present) \in Nat
         /\ \A S \in SUBSET Phones : IsFiniteSet(S) /\ Cardinality(S) \in Nat
<1>1. \A S \in SUBSET Phones : IsFiniteSet(S)
  BY FS_Subset DEF IntakeAssumption
<1>2. Present \in SUBSET Phones
  BY DEF Present
<1> QED BY <1>1, <1>2, FS_CardinalityType

\* One request goes on and the rows stay.
LEMMA ClerkGoesOn ==
  ASSUME IntakeAssumption, IntakeInv, NEW h \in Clerks, NEW r \in Work, KnowsIts(r),
         clerk' = [clerk EXCEPT ![h] = r], UNCHANGED <<proxy, accounts, told, since>>,
         raced \subseteq raced', unlimited => unlimited', cutShort => cutShort',
         orders' \in 0..MaxOrders,
         r.at = "insert" => \/ unlimited'
                           \/ /\ Cardinality(Present) < AccountsMax
                              /\ \A g \in Clerks \ {h} : clerk[g].at # "insert",
         r.at = "assign" => \/ r.proxy \in raced'
                           \/ /\ OnProxy(r.proxy) = {}
                              /\ \A g \in Clerks \ {h} : ~(clerk[g].at = "assign" /\ clerk[g].proxy = r.proxy),
         clerk[h].at = "tell" => cutShort'
  PROVE  IntakeInv'
<1>1. clerk'[h] = r /\ clerk' \in [Clerks -> Work] /\ \A g \in Clerks \ {h} : clerk'[g] = clerk[g]
  BY DEF IntakeInv, IntakeTyped
<1>2. IntakeTyped'
  BY <1>1 DEF IntakeInv, IntakeTyped, KnowsIts
<1>3. Present' = Present
  BY DEF Present
<1>4. RoomIsThere'
  <2>1. ASSUME ~unlimited'
        PROVE  /\ Cardinality(Present) <= AccountsMax
               /\ \A g, k \in Clerks : clerk'[g].at = "insert" /\ clerk'[k].at = "insert" => g = k
               /\ \A k \in Clerks : clerk'[k].at = "insert" => Cardinality(Present) < AccountsMax
    BY <1>1, <2>1 DEF IntakeInv, RoomIsThere
  <2> QED BY <1>3, <2>1 DEF RoomIsThere
<1>5. PickIsFree'
  <2>1. ASSUME NEW k \in Clerks, NEW b \in Phones, clerk'[k].at = "assign", clerk'[k].proxy \notin raced',
               accounts[b].there, accounts[b].proxy = clerk'[k].proxy
        PROVE  accounts[b].via = "hand"
    <3>1. CASE k = h
      <4>1. OnProxy(r.proxy) = {} BY <1>1, <2>1, <3>1
      <4>2. b \in OnProxy(r.proxy) BY <1>1, <2>1, <3>1 DEF OnProxy, Present
      <4> QED BY <4>1, <4>2
    <3>2. CASE k # h BY <1>1, <2>1, <3>2 DEF IntakeInv, PickIsFree
    <3> QED BY <3>1, <3>2
  <2>2. ASSUME NEW g \in Clerks, NEW k \in Clerks, clerk'[g].at = "assign", clerk'[k].at = "assign",
               clerk'[g].proxy = clerk'[k].proxy, g # k
        PROVE  clerk'[g].proxy \in raced'
    BY <1>1, <2>2 DEF IntakeInv, PickIsFree
  <2> QED BY <2>1, <2>2 DEF PickIsFree
<1>6. OneProxyEach'
  BY <1>3 DEF IntakeInv, OneProxyEach
<1>7. DeadIsTold'
  <2>1. ASSUME NEW a \in Present, accounts[a].proxy # NoProxy, accounts[a].works, a \notin since,
               proxy[accounts[a].proxy].status = "dead", ~cutShort',
               \A k \in Clerks : ~(clerk'[k].at = "tell" /\ clerk'[k].proxy = accounts[a].proxy)
        PROVE  <<a, accounts[a].proxy>> \in told
    <3>1. \A k \in Clerks : ~(clerk[k].at = "tell" /\ clerk[k].proxy = accounts[a].proxy)
      BY <1>1, <2>1
    <3> QED BY <2>1, <3>1 DEF IntakeInv, DeadIsTold
  <2> QED BY <1>3, <2>1 DEF DeadIsTold
<1> QED BY <1>2, <1>4, <1>5, <1>6, <1>7 DEF IntakeInv

\* An account is created or changes its proxy.
LEMMA AccountSettles ==
  ASSUME IntakeAssumption, IntakeInv, NEW a \in Phones, NEW q \in Owned, q.there,
         accounts' = [accounts EXCEPT ![a] = q], since' = since \cup {a},
         clerk' \in [Clerks -> Work],
         \A g \in Clerks : \/ clerk'[g] = clerk[g]
                          \/ /\ clerk'[g].at \notin {"insert", "assign", "tell"} /\ clerk[g].at # "tell"
                             /\ KnowsIts(clerk'[g]),
         UNCHANGED <<proxy, told, raced, cutShort>>, unlimited => unlimited', orders' \in 0..MaxOrders,
         \/ accounts[a].there \/ unlimited'
         \/ /\ Cardinality(Present) < AccountsMax
            /\ \A g \in Clerks : clerk'[g].at # "insert",
         \/ q.via = "hand" \/ q.proxy \in raced
         \/ /\ \A b \in Present : accounts[b].proxy = q.proxy => accounts[b].via = "hand"
            /\ \A g \in Clerks : ~(clerk'[g].at = "assign" /\ clerk'[g].proxy = q.proxy)
  PROVE  IntakeInv'
<1>1. /\ accounts' \in [Phones -> Owned] /\ accounts'[a] = q
      /\ \A b \in Phones \ {a} : accounts'[b] = accounts[b]
  BY DEF IntakeInv, IntakeTyped
<1>2. IntakeTyped'
  BY <1>1 DEF IntakeInv, IntakeTyped, KnowsIts
<1>3. Present' = Present \cup {a} /\ (accounts[a].there <=> a \in Present)
  BY <1>1 DEF Present
<1>4. RoomIsThere'
  <2>1. CASE unlimited' BY <2>1 DEF RoomIsThere
  <2>2. CASE ~unlimited'
    <3>1. /\ Cardinality(Present) <= AccountsMax /\ Cardinality(Present) \in Nat /\ AccountsMax \in Nat
          /\ IsFiniteSet(Present)
      BY <2>2, PresentIs DEF IntakeInv, RoomIsThere, IntakeAssumption
    <3>2. \A g, k \in Clerks : clerk'[g].at = "insert" /\ clerk'[k].at = "insert" => g = k
      BY <2>2 DEF IntakeInv, RoomIsThere
    <3>3. CASE accounts[a].there
      <4>1. Present' = Present BY <1>3, <3>3
      <4> QED BY <2>2, <3>2, <4>1 DEF IntakeInv, RoomIsThere
    <3>4. CASE ~accounts[a].there
      <4>1. a \notin Present /\ Cardinality(Present) < AccountsMax /\ \A g \in Clerks : clerk'[g].at # "insert"
        BY <1>3, <2>2, <3>4
      <4>2. Cardinality(Present \cup {a}) = Cardinality(Present) + 1 BY <3>1, <4>1, FS_AddElement
      <4> QED BY <1>3, <3>1, <3>2, <4>1, <4>2 DEF RoomIsThere
    <3> QED BY <3>3, <3>4
  <2> QED BY <2>1, <2>2
<1>5. PickIsFree'
  <2>1. ASSUME NEW k \in Clerks, NEW b \in Phones, clerk'[k].at = "assign", clerk'[k].proxy \notin raced,
               accounts'[b].there, accounts'[b].proxy = clerk'[k].proxy
        PROVE  accounts'[b].via = "hand"
    <3>1. clerk'[k] = clerk[k] BY <2>1
    <3>2. CASE b = a BY <1>1, <2>1, <3>2 DEF Owned
    <3>3. CASE b # a BY <1>1, <2>1, <3>1, <3>3 DEF IntakeInv, PickIsFree
    <3> QED BY <3>2, <3>3
  <2>2. ASSUME NEW g \in Clerks, NEW k \in Clerks, clerk'[g].at = "assign", clerk'[k].at = "assign",
               clerk'[g].proxy = clerk'[k].proxy, g # k
        PROVE  clerk'[g].proxy \in raced
    <3>1. clerk'[g] = clerk[g] /\ clerk'[k] = clerk[k] BY <2>2
    <3> QED BY <2>2, <3>1 DEF IntakeInv, PickIsFree
  <2> QED BY <2>1, <2>2 DEF PickIsFree
<1>6. OneProxyEach'
  <2>1. ASSUME NEW b \in Present', NEW c \in Present', b # c, accounts'[b].via = "pool",
               accounts'[c].via = "pool", accounts'[b].proxy = accounts'[c].proxy,
               accounts'[b].proxy # NoProxy
        PROVE  accounts'[b].proxy \in raced
    <3>1. CASE b # a /\ c # a
      <4>1. b \in Present /\ c \in Present /\ accounts'[b] = accounts[b] /\ accounts'[c] = accounts[c]
        BY <1>1, <1>3, <2>1, <3>1 DEF Present
      <4> QED BY <2>1, <3>1, <4>1 DEF IntakeInv, OneProxyEach
    <3>2. CASE b = a
      <4>1. c \in Present /\ accounts'[c] = accounts[c] /\ accounts'[b] = q
        BY <1>1, <1>3, <2>1, <3>2 DEF Present
      <4> QED BY <2>1, <4>1
    <3>3. CASE c = a
      <4>1. b \in Present /\ accounts'[b] = accounts[b] /\ accounts'[c] = q
        BY <1>1, <1>3, <2>1, <3>3 DEF Present
      <4> QED BY <2>1, <4>1
    <3> QED BY <3>1, <3>2, <3>3
  <2> QED BY <2>1 DEF OneProxyEach
<1>7. DeadIsTold'
  <2>1. ASSUME NEW b \in Present', accounts'[b].proxy # NoProxy, accounts'[b].works, b \notin since',
               proxy[accounts'[b].proxy].status = "dead", ~cutShort,
               \A k \in Clerks : ~(clerk'[k].at = "tell" /\ clerk'[k].proxy = accounts'[b].proxy)
        PROVE  <<b, accounts'[b].proxy>> \in told
    <3>1. b # a /\ b \in Present /\ b \notin since /\ accounts'[b] = accounts[b]
      BY <1>1, <1>3, <2>1 DEF Present
    <3>2. \A k \in Clerks : ~(clerk[k].at = "tell" /\ clerk[k].proxy = accounts[b].proxy)
      BY <2>1, <3>1
    <3> QED BY <2>1, <3>1, <3>2 DEF IntakeInv, DeadIsTold
  <2> QED BY <2>1 DEF DeadIsTold
<1> QED BY <1>2, <1>4, <1>5, <1>6, <1>7 DEF IntakeInv

LEMMA IdleIs == Idle \in Work /\ KnowsIts(Idle) /\ Idle.at = "idle"
  BY DEF Idle, Work, KnowsIts, Doing

LEMMA OrderIs ==
  ASSUME IntakeAssumption, IntakeInv, NEW h \in Clerks, NEW r, Order(h, r)
  PROVE  /\ clerk[h].at = "idle" /\ orders' \in 0..MaxOrders /\ clerk' = [clerk EXCEPT ![h] = r]
  BY DEF Order, IntakeInv, IntakeTyped, IntakeAssumption

LEMMA ClerkIs ==
  ASSUME IntakeInv, NEW h \in Clerks
  PROVE  clerk[h] \in Work /\ KnowsIts(clerk[h]) /\ orders \in 0..MaxOrders /\ clerk \in [Clerks -> Work]
         /\ accounts \in [Phones -> Owned]
  BY DEF IntakeInv, IntakeTyped

\* The request is done and has changed nothing.
LEMMA LeavesKeeps ==
  ASSUME IntakeAssumption, IntakeInv, NEW h \in Clerks, Leaves(h),
         UNCHANGED <<proxy, accounts, told, since, raced, unlimited, orders>>, cutShort => cutShort',
         clerk[h].at = "tell" => cutShort'
  PROVE  IntakeInv'
<1>1. PICK r : r = Idle
  OBVIOUS
<1>2. r \in Work /\ KnowsIts(r) /\ r.at = "idle" /\ clerk' = [clerk EXCEPT ![h] = r]
  BY <1>1, IdleIs DEF Leaves
<1>3. orders' \in 0..MaxOrders /\ (raced \subseteq raced') /\ (unlimited => unlimited')
  BY ClerkIs
<1> QED BY <1>2, <1>3, ClerkGoesOn
-----------------------------------------------------------------------------
LEMMA BeginKeeps ==
  ASSUME IntakeAssumption, IntakeInv, NEW h \in Clerks, NEW a \in Phones,
         NEW p \in ProxyIds \cup {NoProxy}, Begin(h, a, p)
  PROVE  IntakeInv'
<1>1. PICK r : r = [Idle EXCEPT !.at = "insert", !.phone = a, !.proxy = p]
  OBVIOUS
<1>2. r \in Work /\ KnowsIts(r) /\ r.at = "insert"
  BY <1>1 DEF Idle, Work, KnowsIts, Doing
<1>3. /\ Order(h, r) /\ UNCHANGED <<proxy, accounts, told, since, raced, cutShort>>
      /\ Cardinality(Present) < AccountsMax
      /\ unlimited' = (unlimited \/ \E g \in Clerks : clerk[g].at = "insert")
  BY <1>1 DEF Begin, WithinLimit
<1>4. clerk[h].at = "idle" /\ orders' \in 0..MaxOrders /\ clerk' = [clerk EXCEPT ![h] = r]
  BY <1>3, OrderIs
<1>5. /\ raced \subseteq raced' /\ (unlimited => unlimited') /\ (cutShort => cutShort')
      /\ (unlimited' \/ (/\ Cardinality(Present) < AccountsMax
                         /\ \A g \in Clerks \ {h} : clerk[g].at # "insert"))
  BY <1>3
<1> QED BY <1>2, <1>3, <1>4, <1>5, ClerkGoesOn

LEMMA InsertKeeps ==
  ASSUME IntakeAssumption, IntakeInv, NEW h \in Clerks, Insert(h)
  PROVE  IntakeInv'
<1>1. PICK a : a = clerk[h].phone
  OBVIOUS
<1>2. PICK p : p = clerk[h].proxy
  OBVIOUS
<1>3. /\ clerk[h].at = "insert" /\ a \in Phones /\ p \in ProxyIds \cup {NoProxy} /\ Leaves(h)
      /\ UNCHANGED <<proxy, told, unlimited, raced, cutShort, orders>>
  <2>1. /\ clerk[h].at = "insert" /\ Leaves(h)
        /\ UNCHANGED <<proxy, told, unlimited, raced, cutShort, orders>>
    BY DEF Insert, Calm
  <2>2. clerk[h] \in Work /\ KnowsIts(clerk[h]) BY ClerkIs
  <2>3. a \in Phones BY <1>1, <2>1, <2>2 DEF KnowsIts
  <2>4. p \in ProxyIds \cup {NoProxy} BY <1>2, <2>2 DEF Work
  <2> QED BY <2>1, <2>3, <2>4
<1>4. CASE accounts[a].there \/ ~There(p)
  <2>1. UNCHANGED <<accounts, since>> BY <1>1, <1>2, <1>4 DEF Insert
  <2> QED BY <1>3, <2>1, LeavesKeeps
<1>5. CASE ~(accounts[a].there \/ ~There(p))
  <2>1. PICK q : q = [Absent EXCEPT !.there = TRUE, !.proxy = p] OBVIOUS
  <2>2. q \in Owned /\ q.there /\ q.via = "hand" BY <1>3, <2>1 DEF Owned, Absent
  <2>3. accounts' = [accounts EXCEPT ![a] = q] /\ since' = since \cup {a}
    BY <1>1, <1>2, <1>5, <2>1 DEF Insert
  <2>4. /\ clerk' \in [Clerks -> Work] /\ clerk'[h] = Idle /\ Idle.at = "idle" /\ KnowsIts(Idle)
        /\ \A g \in Clerks \ {h} : clerk'[g] = clerk[g]
    BY <1>3, IdleIs, ClerkIs DEF Leaves
  <2>5. \A g \in Clerks : \/ clerk'[g] = clerk[g]
                        \/ /\ clerk'[g].at \notin {"insert", "assign", "tell"} /\ clerk[g].at # "tell"
                           /\ KnowsIts(clerk'[g])
    BY <1>3, <2>4
  <2>6. \/ unlimited'
        \/ /\ Cardinality(Present) < AccountsMax
           /\ \A g \in Clerks : clerk'[g].at # "insert"
    BY <1>3, <2>4 DEF IntakeInv, RoomIsThere
  <2>7. orders' \in 0..MaxOrders /\ (unlimited => unlimited') BY <1>3, ClerkIs
  <2> QED BY <1>3, <2>2, <2>3, <2>4, <2>5, <2>6, <2>7, AccountSettles
<1> QED BY <1>4, <1>5

LEMMA BeginImportKeeps ==
  ASSUME IntakeAssumption, IntakeInv, NEW h \in Clerks, NEW S \in SUBSET Phones, BeginImport(h, S)
  PROVE  IntakeInv'
<1>1. PICK r : r = [Idle EXCEPT !.at = "rows", !.rows = S]
  OBVIOUS
<1>2. r \in Work /\ KnowsIts(r) /\ r.at = "rows"
  BY <1>1 DEF Idle, Work, KnowsIts, Doing
<1>3. Order(h, r) /\ UNCHANGED <<proxy, accounts, told, since, raced, unlimited, cutShort>>
  BY <1>1 DEF BeginImport
<1>4. clerk[h].at = "idle" /\ orders' \in 0..MaxOrders /\ clerk' = [clerk EXCEPT ![h] = r]
  BY <1>3, OrderIs
<1>5. raced \subseteq raced' /\ (unlimited => unlimited') /\ (cutShort => cutShort')
  BY <1>3
<1> QED BY <1>2, <1>3, <1>4, <1>5, ClerkGoesOn

LEMMA ImportRowKeeps ==
  ASSUME IntakeAssumption, IntakeInv, NEW h \in Clerks, NEW a \in Phones,
         NEW p \in ProxyIds \cup {NoProxy}, ImportRow(h, a, p)
  PROVE  IntakeInv'
<1>1. PICK r : r = [clerk[h] EXCEPT !.rows = clerk[h].rows \ {a}]
  OBVIOUS
<1>2. /\ clerk[h].at = "rows" /\ UNCHANGED <<proxy, told, raced, cutShort, orders>>
      /\ \/ /\ clerk' = [clerk EXCEPT ![h] = r]
            /\ UNCHANGED <<accounts, since, unlimited>>
         \/ /\ There(p) /\ ~accounts[a].there
            /\ accounts' = [accounts EXCEPT ![a] = [Absent EXCEPT !.there = TRUE, !.proxy = p]]
            /\ since' = since \cup {a} /\ unlimited' = TRUE
            /\ clerk' = [clerk EXCEPT ![h] = [r EXCEPT !.at = "fields", !.phone = a]]
  BY <1>1 DEF ImportRow, Calm
<1>3. r \in Work /\ KnowsIts(r) /\ r.at = "rows"
  BY <1>1, <1>2, ClerkIs DEF Work, KnowsIts
<1>4. CASE clerk' = [clerk EXCEPT ![h] = r] /\ UNCHANGED <<accounts, since, unlimited>>
  <2>1. orders' \in 0..MaxOrders /\ (raced \subseteq raced') /\ (unlimited => unlimited') /\ (cutShort => cutShort')
    BY <1>2, <1>4, ClerkIs
  <2> QED BY <1>2, <1>3, <1>4, <2>1, ClerkGoesOn
<1>5. CASE /\ accounts' = [accounts EXCEPT ![a] = [Absent EXCEPT !.there = TRUE, !.proxy = p]]
           /\ since' = since \cup {a} /\ unlimited' = TRUE
           /\ clerk' = [clerk EXCEPT ![h] = [r EXCEPT !.at = "fields", !.phone = a]]
  <2>1. PICK q : q = [Absent EXCEPT !.there = TRUE, !.proxy = p] OBVIOUS
  <2>2. q \in Owned /\ q.there /\ q.via = "hand" BY <2>1 DEF Owned, Absent
  <2>3. PICK w : w = [r EXCEPT !.at = "fields", !.phone = a] OBVIOUS
  <2>4. w \in Work /\ KnowsIts(w) /\ w.at = "fields" BY <1>3, <2>3 DEF Work, KnowsIts, Doing
  <2>5. clerk' \in [Clerks -> Work] /\ clerk'[h] = w /\ \A g \in Clerks \ {h} : clerk'[g] = clerk[g]
    BY <1>5, <2>3, <2>4, ClerkIs
  <2>6. \A g \in Clerks : \/ clerk'[g] = clerk[g]
                        \/ /\ clerk'[g].at \notin {"insert", "assign", "tell"} /\ clerk[g].at # "tell"
                           /\ KnowsIts(clerk'[g])
    BY <1>2, <2>4, <2>5
  <2>7. accounts' = [accounts EXCEPT ![a] = q] /\ orders' \in 0..MaxOrders /\ unlimited' /\ since' = since \cup {a}
    BY <1>2, <1>5, <2>1, ClerkIs
  <2> QED BY <1>2, <2>2, <2>5, <2>6, <2>7, AccountSettles
<1> QED BY <1>2, <1>4, <1>5

LEMMA ImportFieldsKeeps ==
  ASSUME IntakeAssumption, IntakeInv, NEW h \in Clerks, NEW known \in BOOLEAN, ImportFields(h, known)
  PROVE  IntakeInv'
<1>1. /\ clerk[h].at = "fields" /\ UNCHANGED <<proxy, accounts, told, since, raced, unlimited, cutShort, orders>>
      /\ \/ Leaves(h)
         \/ clerk' = [clerk EXCEPT ![h].at = "rows", ![h].phone = "none"]
  BY DEF ImportFields
<1>2. CASE Leaves(h)
  BY <1>1, <1>2, LeavesKeeps
<1>3. CASE clerk' = [clerk EXCEPT ![h].at = "rows", ![h].phone = "none"]
  <2>1. PICK r : r = [clerk[h] EXCEPT !.at = "rows", !.phone = "none"] OBVIOUS
  <2>2. r \in Work /\ KnowsIts(r) /\ r.at = "rows" BY <2>1, ClerkIs DEF Work, KnowsIts, Doing
  <2>3. clerk' = [clerk EXCEPT ![h] = r] BY <1>3, <2>1, ClerkIs
  <2>4. orders' \in 0..MaxOrders /\ (raced \subseteq raced') /\ (unlimited => unlimited') /\ (cutShort => cutShort')
    BY <1>1, ClerkIs
  <2> QED BY <1>1, <2>2, <2>3, <2>4, ClerkGoesOn
<1> QED BY <1>1, <1>2, <1>3

LEMMA EndsKeep ==
  ASSUME IntakeAssumption, IntakeInv, NEW h \in Clerks, EndImport(h) \/ EndSweep(h) \/ SweepDies(h)
  PROVE  IntakeInv'
<1>1. /\ Leaves(h) /\ UNCHANGED <<proxy, accounts, told, since, raced, unlimited, orders>>
      /\ (cutShort => cutShort') /\ (clerk[h].at = "tell" => cutShort')
  <2>1. CASE EndImport(h) \/ EndSweep(h) BY <2>1 DEF EndImport, EndSweep, Calm
  <2>2. CASE SweepDies(h)
    <3>1. Leaves(h) /\ UNCHANGED <<proxy, accounts, told, since, raced, unlimited, orders>>
      BY <2>2 DEF SweepDies
    <3>2. cutShort' = (cutShort \/ clerk[h].at = "tell") BY <2>2 DEF SweepDies
    <3>3. (cutShort => cutShort') /\ (clerk[h].at = "tell" => cutShort') BY <3>2, Zenon
    <3> QED BY <3>1, <3>3
  <2> QED BY <2>1, <2>2
<1> QED BY <1>1, LeavesKeeps
-----------------------------------------------------------------------------
LEMMA PickFreeKeeps ==
  ASSUME IntakeAssumption, IntakeInv, NEW h \in Clerks, NEW a \in Phones, NEW geo, NEW p \in ProxyIds,
         PickFree(h, a, geo, p)
  PROVE  IntakeInv'
<1>1. PICK r : r = [Idle EXCEPT !.at = "assign", !.phone = a, !.proxy = p]
  OBVIOUS
<1>2. r \in Work /\ KnowsIts(r) /\ r.at = "assign" /\ r.proxy = p
  BY <1>1 DEF Idle, Work, KnowsIts, Doing
<1>3. /\ Order(h, r) /\ UNCHANGED <<proxy, accounts, told, since, unlimited, cutShort>>
      /\ OnProxy(p) = {}
      /\ raced' = IF \E g \in Clerks : clerk[g].at = "assign" /\ clerk[g].proxy = p
                  THEN raced \cup {p} ELSE raced
  BY <1>1 DEF PickFree, FreeProxies
<1>4. clerk[h].at = "idle" /\ orders' \in 0..MaxOrders /\ clerk' = [clerk EXCEPT ![h] = r]
  BY <1>3, OrderIs
<1>5. \/ p \in raced'
      \/ /\ OnProxy(p) = {}
         /\ \A g \in Clerks \ {h} : ~(clerk[g].at = "assign" /\ clerk[g].proxy = p)
  BY <1>3
<1>6. (raced \subseteq raced') /\ (unlimited => unlimited') /\ (cutShort => cutShort')
  BY <1>3
<1> QED BY <1>2, <1>3, <1>4, <1>5, <1>6, ClerkGoesOn

LEMMA AssignFreeKeeps ==
  ASSUME IntakeAssumption, IntakeInv, NEW h \in Clerks, AssignFree(h)
  PROVE  IntakeInv'
<1>1. PICK a : a = clerk[h].phone
  OBVIOUS
<1>2. PICK p : p = clerk[h].proxy
  OBVIOUS
<1>3. /\ clerk[h].at = "assign" /\ a \in Phones /\ p \in ProxyIds /\ Leaves(h)
      /\ UNCHANGED <<proxy, told, unlimited, raced, cutShort, orders>>
  <2>1. /\ clerk[h].at = "assign" /\ Leaves(h)
        /\ UNCHANGED <<proxy, told, unlimited, raced, cutShort, orders>>
    BY DEF AssignFree, Calm
  <2>2. clerk[h] \in Work /\ KnowsIts(clerk[h]) BY ClerkIs
  <2>3. a \in Phones BY <1>1, <2>1, <2>2 DEF KnowsIts
  <2>4. p \in ProxyIds BY <1>2, <2>1, <2>2 DEF KnowsIts
  <2> QED BY <2>1, <2>3, <2>4
<1>4. CASE ~accounts[a].there \/ ~There(p)
  <2>1. UNCHANGED <<accounts, since>> BY <1>1, <1>2, <1>4 DEF AssignFree
  <2> QED BY <1>3, <2>1, LeavesKeeps
<1>5. CASE ~(~accounts[a].there \/ ~There(p))
  <2>1. PICK q : q = [accounts[a] EXCEPT !.proxy = p, !.via = "pool"] OBVIOUS
  <2>2. q \in Owned /\ q.there /\ q.proxy = p BY <1>3, <1>5, <2>1, ClerkIs DEF Owned
  <2>3. accounts' = [accounts EXCEPT ![a].proxy = p, ![a].via = "pool"] /\ since' = since \cup {a}
    BY <1>1, <1>2, <1>5 DEF AssignFree
  <2>4. accounts' = [accounts EXCEPT ![a] = q] BY <1>3, <2>1, <2>3, ClerkIs
  <2>5. /\ clerk' \in [Clerks -> Work] /\ clerk'[h] = Idle /\ Idle.at = "idle" /\ KnowsIts(Idle)
        /\ \A g \in Clerks \ {h} : clerk'[g] = clerk[g]
    BY <1>3, IdleIs, ClerkIs DEF Leaves
  <2>6. \A g \in Clerks : \/ clerk'[g] = clerk[g]
                        \/ /\ clerk'[g].at \notin {"insert", "assign", "tell"} /\ clerk[g].at # "tell"
                           /\ KnowsIts(clerk'[g])
    BY <1>3, <2>5
  <2>7. orders' \in 0..MaxOrders /\ (unlimited => unlimited') /\ accounts[a].there
    BY <1>3, <1>5, ClerkIs
  <2>8. \/ q.proxy \in raced
        \/ /\ \A b \in Present : accounts[b].proxy = q.proxy => accounts[b].via = "hand"
           /\ \A g \in Clerks : ~(clerk'[g].at = "assign" /\ clerk'[g].proxy = q.proxy)
    <3>1. ASSUME p \notin raced, NEW b \in Present, accounts[b].proxy = p PROVE accounts[b].via = "hand"
      BY <1>2, <1>3, <3>1 DEF IntakeInv, PickIsFree, Present
    <3>2. ASSUME p \notin raced, NEW g \in Clerks PROVE ~(clerk'[g].at = "assign" /\ clerk'[g].proxy = p)
      BY <1>2, <1>3, <2>5, <3>2 DEF IntakeInv, PickIsFree
    <3> QED BY <2>2, <3>1, <3>2
  <2> QED BY <1>3, <2>2, <2>3, <2>4, <2>5, <2>6, <2>7, <2>8, AccountSettles
<1> QED BY <1>4, <1>5

LEMMA AssignFixedKeeps ==
  ASSUME IntakeAssumption, IntakeInv, NEW a \in Phones, NEW p \in ProxyIds, AssignFixed(a, p)
  PROVE  IntakeInv'
<1>1. /\ orders' \in 0..MaxOrders /\ accounts[a].there /\ since' = since \cup {a}
      /\ accounts' = [accounts EXCEPT ![a].proxy = p, ![a].via = "hand"]
      /\ UNCHANGED <<proxy, clerk, told, raced, unlimited, cutShort>>
      /\ accounts \in [Phones -> Owned] /\ clerk \in [Clerks -> Work]
  BY DEF AssignFixed, IntakeInv, IntakeTyped, IntakeAssumption
<1>2. PICK q : q = [accounts[a] EXCEPT !.proxy = p, !.via = "hand"]
  OBVIOUS
<1>3. q \in Owned /\ q.there /\ q.via = "hand" /\ accounts' = [accounts EXCEPT ![a] = q]
  BY <1>1, <1>2 DEF Owned
<1>4. clerk' \in [Clerks -> Work] /\ (unlimited => unlimited') /\ \A g \in Clerks : clerk'[g] = clerk[g]
  BY <1>1
<1> QED BY <1>1, <1>3, <1>4, AccountSettles
-----------------------------------------------------------------------------
LEMMA SweepKeeps ==
  ASSUME IntakeAssumption, IntakeInv, NEW h \in Clerks, Sweep(h)
  PROVE  IntakeInv'
<1>1. PICK r : r = [Idle EXCEPT !.at = "probe",
                  !.todo = {<<p, proxy[p].status>> : p \in {q \in ProxyIds : proxy[q].there}}]
  OBVIOUS
<1>2. r \in Work /\ KnowsIts(r) /\ r.at = "probe"
  <2>1. \A p \in ProxyIds : proxy[p].status \in Statuses BY DEF IntakeInv, IntakeTyped, Rows
  <2>2. {<<p, proxy[p].status>> : p \in {q \in ProxyIds : proxy[q].there}}
            \in SUBSET (ProxyIds \X Statuses)
    BY <2>1
  <2> QED BY <1>1, <2>2 DEF Idle, Work, KnowsIts, Doing
<1>3. Order(h, r) /\ UNCHANGED <<proxy, accounts, told, since, raced, unlimited, cutShort>>
  BY <1>1 DEF Sweep
<1>4. clerk[h].at = "idle" /\ orders' \in 0..MaxOrders /\ clerk' = [clerk EXCEPT ![h] = r]
  BY <1>3, OrderIs
<1>5. (raced \subseteq raced') /\ (unlimited => unlimited') /\ (cutShort => cutShort')
  BY <1>3
<1> QED BY <1>2, <1>3, <1>4, <1>5, ClerkGoesOn

\* The accounts that are there stay, and so do the requests but for their probes.
LEMMA RoomStays ==
  ASSUME IntakeAssumption, IntakeInv, unlimited' = unlimited, Present' \subseteq Present,
         \A g \in Clerks : clerk'[g].at = "insert" => clerk[g].at = "insert"
  PROVE  RoomIsThere'
<1>1. Cardinality(Present') <= Cardinality(Present) /\ Cardinality(Present') \in Nat
      /\ Cardinality(Present) \in Nat /\ AccountsMax \in Nat
  <2>1. IsFiniteSet(Present) /\ Cardinality(Present) \in Nat BY PresentIs
  <2>2. IsFiniteSet(Present') /\ Cardinality(Present') <= Cardinality(Present) BY <2>1, FS_Subset
  <2>3. Cardinality(Present') \in Nat BY <2>2, FS_CardinalityType
  <2> QED BY <2>1, <2>2, <2>3 DEF IntakeAssumption
<1>2. ASSUME ~unlimited
      PROVE  /\ Cardinality(Present') <= AccountsMax
             /\ \A g, k \in Clerks : clerk'[g].at = "insert" /\ clerk'[k].at = "insert" => g = k
             /\ \A k \in Clerks : clerk'[k].at = "insert" => Cardinality(Present') < AccountsMax
  BY <1>1, <1>2 DEF IntakeInv, RoomIsThere
<1> QED BY <1>2 DEF RoomIsThere

LEMMA VerdictKeeps ==
  ASSUME IntakeAssumption, IntakeInv, NEW h \in Clerks, NEW p \in ProxyIds, NEW seen \in Statuses,
         NEW answers \in BOOLEAN, Verdict(h, p, seen, answers)
  PROVE  IntakeInv'
<1>1. /\ clerk[h].at = "probe" /\ <<p, seen>> \in clerk[h].todo /\ told' = StillTold(p)
      /\ UNCHANGED <<accounts, unlimited, raced, cutShort, orders>>
  BY DEF Verdict, Calm
<1>2. CASE ~proxy[p].there
  <2>1. Leaves(h) /\ UNCHANGED <<proxy, since>> BY <1>2 DEF Verdict
  <2>2. told' = told BY <1>1, <2>1 DEF StillTold
  <2> QED BY <1>1, <2>1, <2>2, LeavesKeeps
<1>3. CASE proxy[p].there
  <2>1. PICK v : v = IF answers THEN "alive" ELSE "dead" OBVIOUS
  <2>2. PICK r : r = [clerk[h] EXCEPT !.todo = clerk[h].todo \ {<<p, seen>>},
                                      !.at = IF answers THEN "probe" ELSE "tell", !.proxy = p]
    OBVIOUS
  <2>3. /\ proxy' = IF v = seen THEN proxy ELSE [proxy EXCEPT ![p].status = v]
        /\ since' = IF answers /\ proxy'[p].status = "dead" THEN since ELSE since \ OnProxy(p)
        /\ clerk' = [clerk EXCEPT ![h].todo = clerk[h].todo \ {<<p, seen>>},
                                  ![h].at = IF answers THEN "probe" ELSE "tell", ![h].proxy = p]
    BY <1>3, <2>1 DEF Verdict
  <2>4. /\ r \in Work /\ r.at = (IF answers THEN "probe" ELSE "tell") /\ r.proxy = p /\ KnowsIts(r)
    BY <2>2, ClerkIs DEF Work, KnowsIts, Doing
  <2>5. /\ clerk' \in [Clerks -> Work] /\ clerk'[h] = r /\ \A g \in Clerks \ {h} : clerk'[g] = clerk[g]
    BY <2>2, <2>3, <2>4, ClerkIs
  <2>6. /\ proxy' \in [ProxyIds -> Rows]
        /\ proxy'[p].status = v \/ proxy'[p].status = proxy[p].status
        /\ \A q \in ProxyIds \ {p} : proxy'[q] = proxy[q]
    <3>1. proxy \in [ProxyIds -> Rows] /\ v \in Statuses
      BY <2>1 DEF IntakeInv, IntakeTyped, Statuses
    <3>2. PICK w : w = [proxy[p] EXCEPT !.status = v] OBVIOUS
    <3>3. w \in Rows /\ w.status = v BY <3>1, <3>2 DEF Rows
    <3>4. proxy' = proxy \/ proxy' = [proxy EXCEPT ![p] = w] BY <2>3, <3>2
    <3> QED BY <3>1, <3>3, <3>4
  <2>7. Present' = Present BY <1>1 DEF Present
  <2>8. IntakeTyped'
    <3>1. told' \subseteq told /\ since' \subseteq since BY <1>1, <2>3 DEF StillTold
    <3> QED BY <1>1, <3>1, <2>3, <2>4, <2>5, <2>6 DEF IntakeInv, IntakeTyped, KnowsIts
  <2>9. RoomIsThere'
    <3>1. \A g \in Clerks : clerk'[g].at = "insert" => clerk[g].at = "insert" BY <2>4, <2>5
    <3> QED BY <1>1, <2>7, <3>1, RoomStays
  <2>10. PickIsFree'
    <3>1. \A g \in Clerks : clerk'[g].at = "assign" => clerk'[g] = clerk[g] BY <2>4, <2>5
    <3> QED BY <1>1, <3>1 DEF IntakeInv, PickIsFree
  <2>11. OneProxyEach' BY <1>1, <2>7 DEF IntakeInv, OneProxyEach
  <2>12. DeadIsTold'
    <3>1. ASSUME NEW a \in Present, accounts[a].proxy # NoProxy, accounts[a].works, a \notin since',
                 proxy'[accounts[a].proxy].status = "dead", ~cutShort,
                 \A k \in Clerks : ~(clerk'[k].at = "tell" /\ clerk'[k].proxy = accounts[a].proxy)
          PROVE  <<a, accounts[a].proxy>> \in told'
      <4>1. accounts[a].proxy \in ProxyIds
        BY <3>1 DEF Present, IntakeInv, IntakeTyped, Owned
      <4>2. answers \/ accounts[a].proxy # p
        BY <2>4, <2>5, <3>1
      <4>3. a \notin since BY <2>3, <3>1, <4>2 DEF OnProxy
      <4>4. /\ proxy[accounts[a].proxy].status = "dead"
            /\ accounts[a].proxy = p => proxy[p].status = "dead"
        BY <2>1, <2>6, <3>1, <4>1, <4>2
      <4>5. \A k \in Clerks : ~(clerk[k].at = "tell" /\ clerk[k].proxy = accounts[a].proxy)
        BY <1>1, <2>5, <3>1
      <4>6. <<a, accounts[a].proxy>> \in told BY <3>1, <4>3, <4>4, <4>5 DEF IntakeInv, DeadIsTold
      <4> QED BY <1>1, <4>4, <4>6 DEF StillTold
    <3> QED BY <1>1, <2>7, <3>1 DEF DeadIsTold
  <2> QED BY <2>8, <2>9, <2>10, <2>11, <2>12 DEF IntakeInv
<1> QED BY <1>2, <1>3

LEMMA TellKeeps ==
  ASSUME IntakeAssumption, IntakeInv, NEW h \in Clerks, Tell(h)
  PROVE  IntakeInv'
<1>1. PICK p : p = clerk[h].proxy
  OBVIOUS
<1>2. PICK r : r = [clerk[h] EXCEPT !.at = "probe", !.proxy = NoProxy]
  OBVIOUS
<1>3. /\ clerk[h].at = "tell" /\ p \in ProxyIds
      /\ told' = told \cup {<<a, p>> : a \in AtWork(p)}
      /\ clerk' = [clerk EXCEPT ![h].at = "probe", ![h].proxy = NoProxy]
      /\ UNCHANGED <<proxy, accounts, since, unlimited, raced, cutShort, orders>>
  BY <1>1, ClerkIs DEF Tell, Calm, KnowsIts
<1>4. r \in Work /\ KnowsIts(r) /\ r.at = "probe"
  BY <1>2, ClerkIs DEF Work, KnowsIts, Doing
<1>5. /\ clerk' \in [Clerks -> Work] /\ clerk'[h] = r /\ \A g \in Clerks \ {h} : clerk'[g] = clerk[g]
  BY <1>2, <1>3, <1>4, ClerkIs
<1>6. Present' = Present
  BY <1>3 DEF Present
<1>7. told' \subseteq Phones \X ProxyIds /\ told \subseteq told'
  BY <1>3 DEF IntakeInv, IntakeTyped, AtWork, OnProxy, Present
<1>8. IntakeTyped'
  BY <1>3, <1>4, <1>5, <1>7 DEF IntakeInv, IntakeTyped, KnowsIts
<1>9. RoomIsThere'
  <2>1. \A g \in Clerks : clerk'[g].at = "insert" => clerk[g].at = "insert" BY <1>4, <1>5
  <2> QED BY <1>3, <1>6, <2>1, RoomStays
<1>10. PickIsFree'
  <2>1. \A g \in Clerks : clerk'[g].at = "assign" => clerk'[g] = clerk[g] BY <1>4, <1>5
  <2>2. accounts' = accounts /\ raced' = raced BY <1>3
  <2> QED BY <2>1, <2>2 DEF IntakeInv, PickIsFree
<1>11. OneProxyEach'
  BY <1>3, <1>6 DEF IntakeInv, OneProxyEach
<1>12. DeadIsTold'
  <2>1. ASSUME NEW a \in Present, accounts[a].proxy # NoProxy, accounts[a].works, a \notin since,
               proxy[accounts[a].proxy].status = "dead", ~cutShort,
               \A k \in Clerks : ~(clerk'[k].at = "tell" /\ clerk'[k].proxy = accounts[a].proxy)
        PROVE  <<a, accounts[a].proxy>> \in told'
    <3>1. CASE accounts[a].proxy = p
      <4>1. a \in AtWork(p) BY <2>1, <3>1 DEF AtWork, OnProxy
      <4> QED BY <1>3, <3>1, <4>1
    <3>2. CASE accounts[a].proxy # p
      <4>1. \A k \in Clerks : ~(clerk[k].at = "tell" /\ clerk[k].proxy = accounts[a].proxy)
        BY <1>1, <1>5, <2>1, <3>2
      <4>2. <<a, accounts[a].proxy>> \in told BY <2>1, <4>1 DEF IntakeInv, DeadIsTold
      <4> QED BY <1>7, <4>2
    <3> QED BY <3>1, <3>2
  <2> QED BY <1>3, <1>6, <2>1 DEF DeadIsTold
<1> QED BY <1>8, <1>9, <1>10, <1>11, <1>12 DEF IntakeInv
-----------------------------------------------------------------------------
LEMMA DeleteProxyKeeps ==
  ASSUME IntakeAssumption, IntakeInv, NEW p \in ProxyIds, DeleteProxy(p)
  PROVE  IntakeInv'
<1>1. /\ orders' \in 0..MaxOrders /\ proxy' = [proxy EXCEPT ![p].there = FALSE]
      /\ accounts' = [a \in Phones |-> IF accounts[a].proxy = p
                                       THEN [accounts[a] EXCEPT !.proxy = NoProxy] ELSE accounts[a]]
      /\ UNCHANGED <<clerk, told, since, raced, unlimited, cutShort>>
      /\ accounts \in [Phones -> Owned] /\ proxy \in [ProxyIds -> Rows]
  BY DEF DeleteProxy, IntakeInv, IntakeTyped, IntakeAssumption
<1>2. proxy' \in [ProxyIds -> Rows] /\ \A q \in ProxyIds : proxy'[q].status = proxy[q].status
  <2>1. PICK w : w = [proxy[p] EXCEPT !.there = FALSE] OBVIOUS
  <2>2. w \in Rows /\ w.status = proxy[p].status BY <1>1, <2>1 DEF Rows
  <2>3. proxy' = [proxy EXCEPT ![p] = w] BY <1>1, <2>1
  <2> QED BY <1>1, <2>2, <2>3
<1>3. ASSUME NEW a \in Phones
      PROVE  /\ accounts'[a] \in Owned /\ accounts'[a].there = accounts[a].there
             /\ accounts'[a].via = accounts[a].via /\ accounts'[a].works = accounts[a].works
             /\ accounts'[a].proxy = NoProxy \/ accounts'[a].proxy = accounts[a].proxy
  <2>1. PICK w : w = [accounts[a] EXCEPT !.proxy = NoProxy] OBVIOUS
  <2>2. w \in Owned /\ w.there = accounts[a].there /\ w.via = accounts[a].via /\ w.proxy = NoProxy
        /\ w.works = accounts[a].works
    BY <1>1, <2>1 DEF Owned
  <2>3. accounts'[a] = w \/ accounts'[a] = accounts[a] BY <1>1, <2>1
  <2> QED BY <1>1, <2>2, <2>3
<1>4. Present' = Present
  BY <1>3 DEF Present
<1>5. IntakeTyped'
  BY <1>1, <1>2, <1>3 DEF IntakeInv, IntakeTyped, KnowsIts
<1>6. RoomIsThere'
  BY <1>1, <1>4, RoomStays
<1>7. PickIsFree'
  <2>1. ASSUME NEW k \in Clerks, NEW b \in Phones, clerk[k].at = "assign", clerk[k].proxy \notin raced,
               accounts'[b].there, accounts'[b].proxy = clerk[k].proxy
        PROVE  accounts'[b].via = "hand"
    <3>1. KnowsIts(clerk[k]) BY <2>1 DEF IntakeInv, IntakeTyped
    <3>2. clerk[k].proxy \in ProxyIds BY <2>1, <3>1 DEF KnowsIts
    <3>3. clerk[k].proxy # NoProxy BY <3>2 DEF IntakeAssumption
    <3> QED BY <1>3, <2>1, <3>3 DEF IntakeInv, PickIsFree
  <2> QED BY <1>1, <2>1 DEF IntakeInv, PickIsFree
<1>8. OneProxyEach'
  <2>1. Present \subseteq Phones BY DEF Present
  <2> QED BY <1>1, <1>3, <1>4, <2>1 DEF IntakeInv, OneProxyEach
<1>9. DeadIsTold'
  <2>1. ASSUME NEW a \in Present, accounts'[a].proxy # NoProxy, accounts'[a].works, a \notin since,
               proxy'[accounts'[a].proxy].status = "dead", ~cutShort,
               \A k \in Clerks : ~(clerk[k].at = "tell" /\ clerk[k].proxy = accounts'[a].proxy)
        PROVE  <<a, accounts'[a].proxy>> \in told
    <3>1. /\ a \in Phones /\ accounts'[a].proxy = accounts[a].proxy
          /\ accounts'[a].works = accounts[a].works
      BY <1>3, <2>1 DEF Present
    <3>2. accounts[a].proxy \in ProxyIds BY <1>1, <2>1, <3>1 DEF Owned
    <3> QED BY <1>2, <2>1, <3>1, <3>2 DEF IntakeInv, DeadIsTold
  <2> QED BY <1>1, <1>4, <2>1 DEF DeadIsTold
<1> QED BY <1>5, <1>6, <1>7, <1>8, <1>9 DEF IntakeInv

LEMMA DeleteAccountKeeps ==
  ASSUME IntakeAssumption, IntakeInv, NEW a \in Phones, DeleteAccount(a)
  PROVE  IntakeInv'
<1>1. /\ orders' \in 0..MaxOrders /\ accounts' = [accounts EXCEPT ![a] = Absent]
      /\ told' = {e \in told : e[1] # a}
      /\ UNCHANGED <<proxy, clerk, since, raced, unlimited, cutShort>>
      /\ accounts \in [Phones -> Owned]
  BY DEF DeleteAccount, IntakeInv, IntakeTyped, IntakeAssumption
<1>2. /\ accounts' \in [Phones -> Owned] /\ ~accounts'[a].there
      /\ \A b \in Phones \ {a} : accounts'[b] = accounts[b]
  BY <1>1 DEF Absent, Owned
<1>3. Present' \subseteq Present /\ a \notin Present' /\ \A b \in Present' : accounts'[b] = accounts[b]
  BY <1>2 DEF Present
<1>4. IntakeTyped'
  <2>1. told' \subseteq Phones \X ProxyIds BY <1>1 DEF IntakeInv, IntakeTyped
  <2> QED BY <1>1, <1>2, <2>1 DEF IntakeInv, IntakeTyped, KnowsIts
<1>5. RoomIsThere'
  BY <1>1, <1>3, RoomStays
<1>6. PickIsFree'
  <2>1. ASSUME NEW k \in Clerks, NEW b \in Phones, clerk[k].at = "assign", clerk[k].proxy \notin raced,
               accounts'[b].there, accounts'[b].proxy = clerk[k].proxy
        PROVE  accounts'[b].via = "hand"
    BY <1>2, <2>1 DEF IntakeInv, PickIsFree
  <2> QED BY <1>1, <2>1 DEF IntakeInv, PickIsFree
<1>7. OneProxyEach'
  BY <1>1, <1>3 DEF IntakeInv, OneProxyEach
<1>8. DeadIsTold'
  <2>1. ASSUME NEW b \in Present', accounts'[b].proxy # NoProxy, accounts'[b].works, b \notin since,
               proxy[accounts'[b].proxy].status = "dead", ~cutShort,
               \A k \in Clerks : ~(clerk[k].at = "tell" /\ clerk[k].proxy = accounts'[b].proxy)
        PROVE  <<b, accounts'[b].proxy>> \in told'
    <3>1. b # a /\ b \in Present /\ accounts'[b] = accounts[b] BY <1>3
    <3>2. <<b, accounts[b].proxy>> \in told BY <2>1, <3>1 DEF IntakeInv, DeadIsTold
    <3> QED BY <1>1, <3>1, <3>2
  <2> QED BY <1>1, <2>1 DEF DeadIsTold
<1> QED BY <1>4, <1>5, <1>6, <1>7, <1>8 DEF IntakeInv

LEMMA PatchProxyKeeps ==
  ASSUME IntakeAssumption, IntakeInv, NEW p \in ProxyIds, PatchProxy(p)
  PROVE  IntakeInv'
<1>1. /\ orders' \in 0..MaxOrders /\ UNCHANGED <<accounts, clerk, raced, unlimited, cutShort>>
      /\ told' = StillTold(p) /\ proxy \in [ProxyIds -> Rows] /\ accounts \in [Phones -> Owned]
  BY DEF PatchProxy, IntakeInv, IntakeTyped, IntakeAssumption
<1>2. /\ proxy' \in [ProxyIds -> Rows] /\ \A q \in ProxyIds \ {p} : proxy'[q] = proxy[q]
      /\ \/ since' = since /\ proxy'[p].status = proxy[p].status
         \/ since' = since \cup OnProxy(p)
  <2>1. CASE UNCHANGED since /\ \E c \in Countries : proxy' = [proxy EXCEPT ![p].geo = c]
    <3>1. PICK c \in Countries : proxy' = [proxy EXCEPT ![p].geo = c] BY <2>1
    <3>2. PICK w : w = [proxy[p] EXCEPT !.geo = c] OBVIOUS
    <3>3. w \in Rows /\ w.status = proxy[p].status BY <1>1, <3>2 DEF Rows
    <3>4. proxy' = [proxy EXCEPT ![p] = w] BY <3>1, <3>2
    <3> QED BY <1>1, <2>1, <3>3, <3>4
  <2>2. CASE /\ \E status \in Statuses : proxy' = [proxy EXCEPT ![p].status = status]
             /\ since' = since \cup OnProxy(p)
    <3>1. PICK v \in Statuses : proxy' = [proxy EXCEPT ![p].status = v] BY <2>2
    <3>2. PICK w : w = [proxy[p] EXCEPT !.status = v] OBVIOUS
    <3>3. w \in Rows BY <1>1, <3>2 DEF Rows
    <3>4. proxy' = [proxy EXCEPT ![p] = w] BY <3>1, <3>2
    <3> QED BY <1>1, <2>2, <3>3, <3>4
  <2> QED BY <2>1, <2>2 DEF PatchProxy
<1>3. Present' = Present
  BY <1>1 DEF Present
<1>4. IntakeTyped'
  <2>1. since' \subseteq Phones /\ told' \subseteq told
    BY <1>1, <1>2 DEF IntakeInv, IntakeTyped, OnProxy, Present, StillTold
  <2> QED BY <1>1, <1>2, <2>1 DEF IntakeInv, IntakeTyped, KnowsIts
<1>5. RoomIsThere'
  BY <1>1, <1>3, RoomStays
<1>6. PickIsFree' /\ OneProxyEach'
  BY <1>1, <1>3 DEF IntakeInv, PickIsFree, OneProxyEach
<1>7. DeadIsTold'
  <2>1. ASSUME NEW a \in Present, accounts[a].proxy # NoProxy, accounts[a].works, a \notin since',
               proxy'[accounts[a].proxy].status = "dead", ~cutShort,
               \A k \in Clerks : ~(clerk[k].at = "tell" /\ clerk[k].proxy = accounts[a].proxy)
        PROVE  <<a, accounts[a].proxy>> \in told'
    <3>1. accounts[a].proxy \in ProxyIds BY <1>1, <2>1 DEF Present, Owned
    <3>2. a \notin since /\ proxy[accounts[a].proxy].status = "dead"
      BY <1>2, <2>1, <3>1 DEF OnProxy
    <3>3. <<a, accounts[a].proxy>> \in told BY <2>1, <3>1, <3>2 DEF IntakeInv, DeadIsTold
    <3> QED BY <1>1, <3>2, <3>3 DEF StillTold
  <2> QED BY <1>1, <1>3, <2>1 DEF DeadIsTold
<1> QED BY <1>4, <1>5, <1>6, <1>7 DEF IntakeInv

LEMMA MovesKeeps ==
  ASSUME IntakeAssumption, IntakeInv, NEW a \in Phones, Moves(a)
  PROVE  IntakeInv'
<1>1. /\ accounts[a].there /\ accounts' = [accounts EXCEPT ![a].works = ~accounts[a].works]
      /\ since' = IF accounts[a].works THEN since ELSE since \cup {a}
      /\ UNCHANGED <<proxy, clerk, told, raced, unlimited, cutShort, orders>>
      /\ accounts \in [Phones -> Owned]
  BY DEF Moves, IntakeInv, IntakeTyped
<1>2. /\ accounts' \in [Phones -> Owned] /\ \A b \in Phones \ {a} : accounts'[b] = accounts[b]
      /\ \A b \in Phones : /\ accounts'[b].there = accounts[b].there
                           /\ accounts'[b].proxy = accounts[b].proxy /\ accounts'[b].via = accounts[b].via
      /\ accounts'[a].works => a \in since'
  <2>1. PICK w : w = [accounts[a] EXCEPT !.works = ~accounts[a].works] OBVIOUS
  <2>2. /\ w \in Owned /\ w.there = accounts[a].there /\ w.proxy = accounts[a].proxy
        /\ w.via = accounts[a].via /\ w.works = ~accounts[a].works
    BY <1>1, <2>1 DEF Owned
  <2>3. accounts' = [accounts EXCEPT ![a] = w] BY <1>1, <2>1
  <2>4. accounts'[a] = w BY <1>1, <2>3
  <2>5. accounts'[a].works => a \in since' BY <1>1, <2>2, <2>4
  <2> QED BY <1>1, <2>2, <2>3, <2>5
<1>3. Present' = Present
  BY <1>2 DEF Present
<1>4. IntakeTyped'
  <2>1. since' \subseteq Phones BY <1>1 DEF IntakeInv, IntakeTyped
  <2> QED BY <1>1, <1>2, <2>1 DEF IntakeInv, IntakeTyped, KnowsIts
<1>5. RoomIsThere'
  BY <1>1, <1>3, RoomStays
<1>6. PickIsFree' /\ OneProxyEach'
  <2>1. Present \subseteq Phones BY DEF Present
  <2> QED BY <1>1, <1>2, <1>3, <2>1 DEF IntakeInv, PickIsFree, OneProxyEach
<1>7. DeadIsTold'
  <2>1. ASSUME NEW b \in Present, accounts'[b].proxy # NoProxy, accounts'[b].works, b \notin since',
               proxy[accounts'[b].proxy].status = "dead", ~cutShort,
               \A k \in Clerks : ~(clerk[k].at = "tell" /\ clerk[k].proxy = accounts'[b].proxy)
        PROVE  <<b, accounts'[b].proxy>> \in told
    <3>1. b \in Phones /\ b # a BY <1>2, <2>1 DEF Present
    <3>2. accounts'[b] = accounts[b] /\ b \notin since BY <1>1, <1>2, <2>1, <3>1
    <3> QED BY <2>1, <3>2 DEF IntakeInv, DeadIsTold
  <2> QED BY <1>1, <1>3, <2>1 DEF DeadIsTold
<1> QED BY <1>4, <1>5, <1>6, <1>7 DEF IntakeInv
-----------------------------------------------------------------------------
LEMMA IntakeInitInv == ASSUME IntakeAssumption, IntakeInit PROVE IntakeInv
<1>1. PICK c : c = CHOOSE d \in Countries : TRUE
  OBVIOUS
<1>2. /\ proxy = [p \in ProxyIds |-> [there |-> TRUE, status |-> "alive", geo |-> c]]
      /\ accounts = [a \in Phones |-> Absent] /\ clerk = [h \in Clerks |-> Idle]
      /\ told = {} /\ since = {} /\ orders = 0
  BY <1>1 DEF IntakeInit
<1>3. proxy \in [ProxyIds -> Rows]
  <2>1. PICK w : w = [there |-> TRUE, status |-> "alive", geo |-> c] OBVIOUS
  <2>2. w \in Rows BY <1>1, <2>1 DEF Rows, Statuses
  <2> QED BY <1>2, <2>1, <2>2
<1>4. Absent \in Owned /\ ~Absent.there
  BY DEF Absent, Owned
<1>5. Present = {} /\ accounts \in [Phones -> Owned]
  BY <1>2, <1>4 DEF Present
<1>6. IntakeTyped
  <2>1. clerk \in [Clerks -> Work] /\ \A h \in Clerks : KnowsIts(clerk[h]) BY <1>2, IdleIs
  <2>2. orders \in 0..MaxOrders BY <1>2 DEF IntakeAssumption
  <2> QED BY <1>2, <1>3, <1>5, <2>1, <2>2 DEF IntakeTyped
<1>7. RoomIsThere
  <2>1. Cardinality(Present) = 0 BY <1>5, FS_EmptySet
  <2> QED BY <1>2, <2>1, IdleIs DEF RoomIsThere, IntakeAssumption
<1>8. PickIsFree
  BY <1>2, IdleIs DEF PickIsFree
<1>9. OneProxyEach /\ DeadIsTold
  BY <1>5 DEF OneProxyEach, DeadIsTold
<1> QED BY <1>6, <1>7, <1>8, <1>9 DEF IntakeInv

LEMMA IntakeUnmoved == ASSUME IntakeInv, UNCHANGED intakeVars PROVE IntakeInv'
<1>1. Present' = Present
  BY DEF Present, intakeVars
<1> QED BY <1>1 DEF IntakeInv, IntakeTyped, RoomIsThere, PickIsFree, OneProxyEach, DeadIsTold,
           KnowsIts, intakeVars

LEMMA IntakeStep == ASSUME IntakeAssumption, IntakeInv, [IntakeNext]_intakeVars PROVE IntakeInv'
<1>1. ASSUME NEW h \in Clerks,
             \/ Insert(h) \/ EndImport(h) \/ AssignFree(h) \/ Sweep(h) \/ Tell(h) \/ EndSweep(h)
             \/ SweepDies(h)
             \/ \E a \in Phones, p \in ProxyIds \cup {NoProxy} : Begin(h, a, p) \/ ImportRow(h, a, p)
             \/ \E S \in SUBSET Phones : BeginImport(h, S)
             \/ \E known \in BOOLEAN : ImportFields(h, known)
             \/ \E a \in Phones, geo \in {Countries} \cup {{c} : c \in Countries}, p \in ProxyIds :
                  PickFree(h, a, geo, p)
             \/ \E p \in ProxyIds, seen \in Statuses, answers \in BOOLEAN : Verdict(h, p, seen, answers)
      PROVE  IntakeInv'
  <2>1. CASE Insert(h) \/ EndImport(h) \/ AssignFree(h) \/ Sweep(h) \/ Tell(h) \/ EndSweep(h) \/ SweepDies(h)
    BY <2>1, InsertKeeps, EndsKeep, AssignFreeKeeps, SweepKeeps, TellKeeps
  <2>2. CASE \E a \in Phones, p \in ProxyIds \cup {NoProxy} : Begin(h, a, p) \/ ImportRow(h, a, p)
    BY <2>2, BeginKeeps, ImportRowKeeps
  <2>3. CASE \E S \in SUBSET Phones : BeginImport(h, S)
    BY <2>3, BeginImportKeeps
  <2>4. CASE \E known \in BOOLEAN : ImportFields(h, known)
    BY <2>4, ImportFieldsKeeps
  <2>5. CASE \E a \in Phones, geo \in {Countries} \cup {{c} : c \in Countries}, p \in ProxyIds :
                 PickFree(h, a, geo, p)
    BY <2>5, PickFreeKeeps
  <2>6. CASE \E p \in ProxyIds, seen \in Statuses, answers \in BOOLEAN : Verdict(h, p, seen, answers)
    BY <2>6, VerdictKeeps
  <2> QED BY <1>1, <2>1, <2>2, <2>3, <2>4, <2>5, <2>6
<1>2. ASSUME NEW a \in Phones, NEW p \in ProxyIds, AssignFixed(a, p) PROVE IntakeInv'
  BY <1>2, AssignFixedKeeps
<1>3. ASSUME NEW p \in ProxyIds, DeleteProxy(p) \/ PatchProxy(p) PROVE IntakeInv'
  BY <1>3, DeleteProxyKeeps, PatchProxyKeeps
<1>4. ASSUME NEW a \in Phones, DeleteAccount(a) \/ Moves(a) PROVE IntakeInv'
  BY <1>4, DeleteAccountKeeps, MovesKeeps
<1>5. CASE UNCHANGED intakeVars
  BY <1>5, IntakeUnmoved
<1> QED BY <1>1, <1>2, <1>3, <1>4, <1>5 DEF IntakeNext

LEMMA IntakeHolds == ASSUME IntakeInv PROVE IntakeTypeOK /\ IntakeKept
<1>1. LimitKept
  BY DEF IntakeInv, RoomIsThere, LimitKept
<1>2. IntakeTypeOK
  BY DEF IntakeInv, IntakeTyped, IntakeTypeOK, Rows, Owned, Work, Doing, Statuses
<1> QED BY <1>1, <1>2 DEF IntakeInv, IntakeKept

\* Intake: imports and adds keep the user's limit of accounts unless they race, no proxy of the
\* pool is given to two accounts unless two requests picked it, and each account at work whose
\* proxy the sweep finds dead has its event.
THEOREM IntakeIsKept == ASSUME IntakeAssumption PROVE IntakeSpec => [](IntakeTypeOK /\ IntakeKept)
<1>1. IntakeInit => IntakeInv
  BY IntakeInitInv
<1>2. IntakeInv /\ [IntakeNext]_intakeVars => IntakeInv'
  BY IntakeStep
<1>3. IntakeInv => IntakeTypeOK /\ IntakeKept
  BY IntakeHolds
<1> QED BY <1>1, <1>2, <1>3, PTL DEF IntakeSpec

-----------------------------------------------------------------------------
(* Sales *)
Ends_ == Nat \cup {NoEnd}
SubRows == [plan: Plans \cup {"none"}, ends: Ends_]
WishRows == [user: Buyers \cup {NoBuyer}, found: Plans \cup {"none"}, plan: Plans]

\* What a request wants is a promotion, and so is what an update has read.
DesksFit ==
    \A e \in Admins : /\ desk[e].op # "idle" => desk[e].want \in Offered
                      /\ desk[e].op = "update" => desk[e].id \in PromoIds /\ desk[e].seen \in Offered

\* A check under which no row has changed still holds.
DesksHold ==
    \A e \in Admins : ~desk[e].stale =>
        /\ (desk[e].op = "create" /\ desk[e].want.on) => ~Crowded(desk[e].want, NoPromo)
        /\ (desk[e].op = "update" /\ desk[e].want.on) => ~Crowded(desk[e].want, desk[e].id)
        /\ (desk[e].op = "update" /\ desk[e].id \in Kept) => desk[e].seen = promo[desk[e].id]

TableApart ==
    clean => \A p, q \in Kept : (p # q /\ promo[p].on /\ promo[q].on) =>
                 ~Overlaps(promo[p], promo[q])

CatalogInv ==
    /\ base \in Bases /\ clean \in BOOLEAN /\ revisions \in 0..MaxRevisions
    /\ promo \in [PromoIds -> Offered \cup {NoTerms}]
    /\ life \in [PromoIds -> {"none", "kept", "deleted"}]
    /\ \A p \in Kept : Valid(promo[p])
    /\ desk \in [Admins -> Desks]
    /\ DesksFit /\ DesksHold /\ TableApart

BillsInv == bill \in [Buyers -> Bills] /\ BillWithinBase

\* A term without days to come is over, and Pro without a term was given.
TermsFit ==
    \A u \in Buyers : /\ owed[u] = 0 => sub[u].ends = NoEnd \/ sub[u].ends <= today
                      /\ (sub[u].plan = "pro" /\ sub[u].ends = NoEnd) => u \in favour
                      /\ sub[u].plan = "none" => sub[u] = NoSub

MembersInv ==
    /\ today \in 0..MaxToday
    /\ sub \in [Buyers -> SubRows] /\ wish \in [Admins -> WishRows]
    /\ owed \in [Buyers -> Nat] /\ favour \subseteq Buyers
    /\ pays \in 0..MaxPays /\ wishes \in 0..MaxWishes
    /\ PaidDaysKept /\ TermsFit

SalesInv == CatalogInv /\ BillsInv /\ MembersInv
-----------------------------------------------------------------------------
\* A discount in percent is a price and not above the base.
LEMMA PercentWithin ==
  ASSUME NEW b \in Nat, NEW n \in 1..95
  PROVE  /\ (b * (100 - n) + 50) \div 100 \in Nat
         /\ (b * (100 - n) + 50) \div 100 <= b
<1>1. PICK k \in 5..99 : k = 100 - n
  OBVIOUS
<1>2. PICK x \in Int : x = b * k
  BY SMT
<1>3. 0 <= x /\ x <= b * 99
  BY <1>2, SMT
<1>4. 0 <= (x + 50) \div 100 /\ (x + 50) \div 100 <= b /\ (x + 50) \div 100 \in Int
  BY <1>3, SMT
<1> QED BY <1>1, <1>2, <1>4

\* The table and the requests are left alone.
LEMMA CatalogStays ==
  ASSUME CatalogInv, UNCHANGED catalog
  PROVE  CatalogInv'
<1>1. base' = base /\ promo' = promo /\ life' = life /\ desk' = desk /\ clean' = clean
      /\ revisions' = revisions
  BY DEF catalog
<1>2. Kept' = Kept
  BY <1>1 DEF Kept
<1>3. DesksFit' /\ DesksHold' /\ TableApart'
  BY <1>1, <1>2 DEF CatalogInv, DesksFit, DesksHold, TableApart, Crowded
<1> QED BY <1>1, <1>2, <1>3 DEF CatalogInv

\* The rows of the buyers are left alone.
LEMMA MembersStay ==
  ASSUME MembersInv, UNCHANGED <<today, members>>
  PROVE  MembersInv'
<1>1. today' = today /\ sub' = sub /\ wish' = wish /\ owed' = owed /\ favour' = favour
      /\ pays' = pays /\ wishes' = wishes
  BY DEF members
<1> QED BY <1>1 DEF MembersInv, PaidDaysKept, TermsFit

LEMMA BillsStay ==
  ASSUME BillsInv, UNCHANGED bill
  PROVE  BillsInv'
  BY DEF BillsInv, BillWithinBase

\* One request goes on; the table stays, or loses rows.
LEMMA DeskGoesOn ==
  ASSUME CatalogInv, NEW e \in Admins, NEW d \in Desks,
         desk' = [desk EXCEPT ![e] = d], UNCHANGED <<base, promo, life, clean>>,
         revisions' \in 0..MaxRevisions,
         d.op # "idle" => d.want \in Offered,
         d.op = "update" => d.id \in PromoIds /\ d.seen \in Offered,
         d.op = "create" /\ d.want.on => ~Crowded(d.want, NoPromo),
         d.op = "update" /\ d.want.on => ~Crowded(d.want, d.id),
         d.op = "update" => d.seen = promo[d.id]
  PROVE  CatalogInv'
<1>1. Kept' = Kept
  BY DEF Kept
<1>2. desk' \in [Admins -> Desks] /\ \A x \in Admins : desk'[x] = IF x = e THEN d ELSE desk[x]
  BY DEF CatalogInv
<1>3. DesksFit'
  BY <1>2 DEF CatalogInv, DesksFit
<1>4. DesksHold'
  <2> SUFFICES ASSUME NEW x \in Admins, ~desk'[x].stale
               PROVE  /\ (desk'[x].op = "create" /\ desk'[x].want.on) =>
                             ~\E q \in Kept \ {NoPromo} : promo[q].on /\ Overlaps(desk'[x].want, promo[q])
                      /\ (desk'[x].op = "update" /\ desk'[x].want.on) =>
                             ~\E q \in Kept \ {desk'[x].id} :
                                  promo[q].on /\ Overlaps(desk'[x].want, promo[q])
                      /\ (desk'[x].op = "update" /\ desk'[x].id \in Kept) =>
                             desk'[x].seen = promo[desk'[x].id]
    BY <1>1, promo' = promo DEF DesksHold, Crowded, Overlaps
  <2>1. CASE x = e
    BY <2>1, <1>2 DEF Crowded
  <2>2. CASE x # e
    BY <2>2, <1>2 DEF Crowded, CatalogInv, DesksHold
  <2> QED BY <2>1, <2>2
<1>5. TableApart'
  BY <1>1 DEF CatalogInv, TableApart, Overlaps
<1> QED BY <1>1, <1>2, <1>3, <1>4, <1>5 DEF CatalogInv

\* A row is written, under a check that may have gone stale.
LEMMA LandKeeps ==
  ASSUME CatalogInv, SalesAssumption, NEW e \in Admins, NEW p \in PromoIds, NEW t \in Offered,
         Land(e, p, t), life' = [life EXCEPT ![p] = "kept"],
         ~desk[e].stale /\ t.on =>
             \A q \in Kept \ {p} : promo[q].on => ~Overlaps(t, promo[q])
  PROVE  CatalogInv'
<1>1. promo' \in [PromoIds -> Offered \cup {NoTerms}]
      /\ \A q \in PromoIds : promo'[q] = IF q = p THEN t ELSE promo[q]
  BY DEF CatalogInv, Land
<1>2. life' \in [PromoIds -> {"none", "kept", "deleted"}] /\ Kept' = Kept \cup {p}
  BY DEF CatalogInv, Kept
<1>3. \A q \in Kept' : Valid(promo'[q])
  <2> SUFFICES ASSUME NEW q \in Kept' PROVE Valid(promo'[q])
    OBVIOUS
  <2>1. q \in PromoIds /\ Valid(t)
    BY <1>2 DEF Kept, Offered
  <2>2. CASE q = p
    BY <2>1, <2>2, <1>1
  <2>3. CASE q # p
    <3>1. q \in Kept /\ promo'[q] = promo[q]
      BY <2>1, <2>3, <1>1, <1>2
    <3> QED BY <3>1 DEF CatalogInv
  <2> QED BY <2>2, <2>3
<1>4. desk' = [x \in Admins |-> IF x = e THEN FreeDesk
                                ELSE [desk[x] EXCEPT !.stale = desk[x].stale \/ desk[x].op # "idle"]]
  BY DEF Land
<1>5. \A x \in Admins : desk[x] \in Desks
  BY DEF CatalogInv
<1>6. FreeDesk \in Desks /\ FreeDesk.op = "idle"
  BY DEF FreeDesk, Desks
<1>7. ASSUME NEW x \in Admins, x # e
      PROVE  /\ desk'[x] \in Desks
             /\ desk'[x].op = desk[x].op /\ desk'[x].id = desk[x].id
             /\ desk'[x].seen = desk[x].seen /\ desk'[x].want = desk[x].want
             /\ desk[x].op # "idle" => desk'[x].stale
  <2>1. PICK b \in BOOLEAN : b <=> (desk[x].stale \/ desk[x].op # "idle")
    OBVIOUS
  <2>2. b = (desk[x].stale \/ desk[x].op # "idle")
    BY <2>1, <1>5, Zenon DEF Desks
  <2>3. desk'[x] = [desk[x] EXCEPT !.stale = b]
    BY <1>4, <1>7, <2>2, Zenon
  <2>4. PICK d \in Desks : d = desk[x]
    BY <1>5
  <2>5. desk'[x] = [d EXCEPT !.stale = b]
    BY <2>3, <2>4
  <2> QED BY <2>1, <2>4, <2>5 DEF Desks
<1>8. desk'[e] = FreeDesk
  BY <1>4
<1>9. desk' \in [Admins -> Desks]
  <2>1. \A x \in Admins : desk'[x] \in Desks
    BY <1>6, <1>7, <1>8
  <2> QED BY <1>4, <2>1
<1>10. DesksFit'
  <2> SUFFICES ASSUME NEW x \in Admins
               PROVE  /\ desk'[x].op # "idle" => desk'[x].want \in Offered
                      /\ desk'[x].op = "update" => desk'[x].id \in PromoIds /\ desk'[x].seen \in Offered
    BY DEF DesksFit
  <2>1. CASE x = e
    BY <2>1, <1>6, <1>8
  <2>2. CASE x # e
    BY <2>2, <1>7 DEF CatalogInv, DesksFit
  <2> QED BY <2>1, <2>2
<1>11. DesksHold'
  <2>1. \A x \in Admins : ~desk'[x].stale => desk'[x].op = "idle"
    BY <1>6, <1>7, <1>8
  <2> QED BY <2>1 DEF DesksHold
<1>12. TableApart'
  <2>1. clean' = (clean /\ ~desk[e].stale)
    BY DEF Land
  <2> SUFFICES ASSUME clean', NEW q \in Kept', NEW r \in Kept', q # r, promo'[q].on, promo'[r].on
               PROVE  ~Overlaps(promo'[q], promo'[r])
    BY DEF TableApart, Overlaps
  <2>2. clean /\ ~desk[e].stale
    BY <2>1
  <2>3. q \in PromoIds /\ r \in PromoIds
    BY DEF Kept
  <2>4. CASE q = p
    <3>1. promo'[q] = t /\ promo'[r] = promo[r] /\ r \in Kept \ {p}
      BY <2>3, <2>4, <1>1, <1>2
    <3> QED BY <3>1, <2>2
  <2>5. CASE r = p
    <3>1. promo'[r] = t /\ promo'[q] = promo[q] /\ q \in Kept \ {p}
      BY <2>3, <2>5, <1>1, <1>2
    <3>2. ~Overlaps(t, promo[q])
      BY <3>1, <2>2
    <3> QED BY <3>1, <3>2 DEF Overlaps
  <2>6. CASE q # p /\ r # p
    <3>1. promo'[r] = promo[r] /\ promo'[q] = promo[q] /\ q \in Kept /\ r \in Kept
      BY <2>3, <2>6, <1>1, <1>2
    <3> QED BY <3>1, <2>2 DEF CatalogInv, TableApart
  <2> QED BY <2>4, <2>5, <2>6
<1>13. base' \in Bases /\ clean' \in BOOLEAN /\ revisions' \in 0..MaxRevisions
  BY DEF Land, CatalogInv
<1> QED BY <1>1, <1>2, <1>3, <1>9, <1>10, <1>11, <1>12, <1>13 DEF CatalogInv
-----------------------------------------------------------------------------
LEMMA ReviseKeeps ==
  ASSUME CatalogInv, SalesAssumption, Revise
  PROVE  revisions' \in 0..MaxRevisions
  BY DEF CatalogInv, SalesAssumption, Revise

LEMMA SetBaseKeeps ==
  ASSUME SalesAssumption, SalesInv, NEW b \in Bases, SetBase(b)
  PROVE  SalesInv'
<1>1. UNCHANGED <<today, promo, life, desk, bill, clean, members>> /\ base' = b /\ Revise
  BY DEF SetBase
<1>2. MembersInv' /\ BillsInv' /\ revisions' \in 0..MaxRevisions
  BY <1>1, MembersStay, BillsStay, ReviseKeeps DEF SalesInv
<1>3. Kept' = Kept
  BY <1>1 DEF Kept
<1>4. DesksFit' /\ DesksHold' /\ TableApart'
  BY <1>1, <1>3 DEF SalesInv, CatalogInv, DesksFit, DesksHold, TableApart, Crowded
<1>5. CatalogInv'
  BY <1>1, <1>2, <1>3, <1>4 DEF SalesInv, CatalogInv
<1> QED BY <1>2, <1>5 DEF SalesInv

LEMMA AskCreateKeeps ==
  ASSUME SalesAssumption, SalesInv, NEW e \in Admins, NEW t \in Offered, AskCreate(e, t)
  PROVE  SalesInv'
<1>1. PICK d : d = [FreeDesk EXCEPT !.op = "create", !.want = t]
  OBVIOUS
<1>2. d \in Desks /\ d.op = "create" /\ d.want = t
  BY <1>1 DEF FreeDesk, Desks
<1>3. /\ UNCHANGED <<today, base, promo, life, bill, clean, members>>
      /\ desk' = [desk EXCEPT ![e] = d] /\ Revise /\ (t.on => ~Crowded(t, NoPromo))
  BY <1>1 DEF AskCreate
<1>4. MembersInv' /\ BillsInv' /\ revisions' \in 0..MaxRevisions
  BY <1>3, MembersStay, BillsStay, ReviseKeeps DEF SalesInv
<1>5. CatalogInv'
  BY <1>2, <1>3, <1>4, DeskGoesOn DEF SalesInv
<1> QED BY <1>4, <1>5 DEF SalesInv

LEMMA AskUpdateKeeps ==
  ASSUME SalesAssumption, SalesInv, NEW e \in Admins, NEW p \in PromoIds, NEW t \in Offered,
         AskUpdate(e, p, t)
  PROVE  SalesInv'
<1>1. PICK d : d = [FreeDesk EXCEPT !.op = "update", !.id = p, !.seen = promo[p], !.want = t]
  OBVIOUS
<1>2. p \in Kept /\ promo[p] \in Offered
  <2>1. p \in Kept /\ promo[p] \in Offered \cup {NoTerms} /\ Valid(promo[p])
    BY DEF AskUpdate, SalesInv, CatalogInv
  <2> QED BY <2>1 DEF NoTerms, Valid
<1>3. d \in Desks /\ d.op = "update" /\ d.want = t /\ d.id = p /\ d.seen = promo[p]
  BY <1>1, <1>2 DEF FreeDesk, Desks
<1>4. /\ UNCHANGED <<today, base, promo, life, bill, clean, members>>
      /\ desk' = [desk EXCEPT ![e] = d] /\ Revise /\ (t.on => ~Crowded(t, p))
  BY <1>1 DEF AskUpdate
<1>5. MembersInv' /\ BillsInv' /\ revisions' \in 0..MaxRevisions
  BY <1>4, MembersStay, BillsStay, ReviseKeeps DEF SalesInv
<1>6. CatalogInv'
  BY <1>2, <1>3, <1>4, <1>5, DeskGoesOn DEF SalesInv
<1> QED BY <1>5, <1>6 DEF SalesInv

LEMMA AbandonKeeps ==
  ASSUME SalesAssumption, SalesInv, NEW e \in Admins, Abandon(e)
  PROVE  SalesInv'
<1>1. FreeDesk \in Desks /\ FreeDesk.op = "idle"
  BY DEF FreeDesk, Desks
<1>2. UNCHANGED <<today, base, promo, life, bill, clean, revisions, members>>
      /\ desk' = [desk EXCEPT ![e] = FreeDesk]
  BY DEF Abandon
<1>3. MembersInv' /\ BillsInv' /\ revisions' \in 0..MaxRevisions
  BY <1>2, MembersStay, BillsStay DEF SalesInv, CatalogInv
<1>4. CatalogInv'
  BY <1>1, <1>2, <1>3, DeskGoesOn DEF SalesInv
<1> QED BY <1>3, <1>4 DEF SalesInv

LEMMA CommitCreateKeeps ==
  ASSUME SalesAssumption, SalesInv, NEW e \in Admins, CommitCreate(e)
  PROVE  SalesInv'
<1>1. PICK p \in PromoIds : /\ life[p] = "none" /\ life' = [life EXCEPT ![p] = "kept"]
                            /\ Land(e, p, desk[e].want)
  BY DEF CommitCreate
<1>2. desk[e].op = "create" /\ desk[e].want \in Offered
  BY DEF CommitCreate, SalesInv, CatalogInv, DesksFit
<1>3. UNCHANGED <<today, bill, members>>
  BY <1>1 DEF Land
<1>4. MembersInv' /\ BillsInv'
  BY <1>3, MembersStay, BillsStay DEF SalesInv
<1>5. ~desk[e].stale /\ desk[e].want.on =>
          \A q \in Kept \ {p} : promo[q].on => ~Overlaps(desk[e].want, promo[q])
  <2>1. Kept \subseteq PromoIds /\ NoPromo \notin PromoIds
    BY DEF Kept, SalesAssumption
  <2> QED BY <1>2, <2>1 DEF SalesInv, CatalogInv, DesksHold, Crowded
<1>6. CatalogInv'
  BY <1>1, <1>2, <1>5, LandKeeps DEF SalesInv
<1> QED BY <1>4, <1>6 DEF SalesInv

LEMMA WrittenIs ==
  ASSUME NEW loaded \in Terms, NEW seen \in Terms, NEW want \in Terms
  PROVE  Written(loaded, seen, want) \in Terms /\ (loaded = seen => Written(loaded, seen, want) = want)
<1>1. DOMAIN loaded = {"on", "from", "to", "cut"} /\ DOMAIN want = {"on", "from", "to", "cut"}
  BY DEF Terms
<1>2. PICK w : w = Written(loaded, seen, want)
  OBVIOUS
<1>3. w = [c \in {"on", "from", "to", "cut"} |-> IF want[c] # seen[c] THEN want[c] ELSE loaded[c]]
  BY <1>1, <1>2 DEF Written
<1>4. w = [on |-> w.on, from |-> w.from, to |-> w.to, cut |-> w.cut]
  BY <1>3
<1>5. w.on \in BOOLEAN /\ w.from \in 0..MaxToday /\ w.to \in 0..MaxToday /\ w.cut \in Cuts
  BY <1>3 DEF Terms
<1>6. w \in Terms
  BY <1>4, <1>5 DEF Terms
<1>7. ASSUME loaded = seen PROVE w = want
  <2>1. w.on = want.on /\ w.from = want.from /\ w.to = want.to /\ w.cut = want.cut
    BY <1>3, <1>7
  <2>2. want = [on |-> want.on, from |-> want.from, to |-> want.to, cut |-> want.cut]
    BY DEF Terms
  <2> QED BY <1>4, <2>1, <2>2
<1> QED BY <1>2, <1>6, <1>7

LEMMA CommitUpdateKeeps ==
  ASSUME SalesAssumption, SalesInv, NEW e \in Admins, CommitUpdate(e)
  PROVE  SalesInv'
<1>1. PICK p : p = desk[e].id
  OBVIOUS
<1>2. PICK t : t = Written(promo[p], desk[e].seen, desk[e].want)
  OBVIOUS
<1>3. desk[e].op = "update" /\ p \in Kept /\ Valid(t) /\ Land(e, p, t) /\ UNCHANGED life
  BY <1>1, <1>2 DEF CommitUpdate
<1>4. p \in PromoIds /\ life[p] = "kept"
  BY <1>3 DEF Kept
<1>5. promo[p] \in Terms /\ desk[e].seen \in Terms /\ desk[e].want \in Terms
  <2>1. promo[p] \in Offered \cup {NoTerms} /\ Valid(promo[p])
    BY <1>3, <1>4 DEF SalesInv, CatalogInv
  <2>2. promo[p] \in Offered
    BY <2>1 DEF NoTerms, Valid
  <2>3. desk[e].seen \in Offered /\ desk[e].want \in Offered
    BY <1>3 DEF SalesInv, CatalogInv, DesksFit
  <2> QED BY <2>2, <2>3 DEF Offered
<1>6. t \in Terms /\ (promo[p] = desk[e].seen => t = desk[e].want)
  BY <1>2, <1>5, WrittenIs
<1>7. t \in Offered
  BY <1>3, <1>6 DEF Offered
<1>8. life' = [life EXCEPT ![p] = "kept"]
  BY <1>3, <1>4 DEF SalesInv, CatalogInv
<1>9. ~desk[e].stale /\ t.on => \A q \in Kept \ {p} : promo[q].on => ~Overlaps(t, promo[q])
  BY <1>1, <1>3, <1>6 DEF SalesInv, CatalogInv, DesksHold, Crowded
<1>10. CatalogInv'
  BY <1>3, <1>4, <1>7, <1>8, <1>9, LandKeeps DEF SalesInv
<1>11. UNCHANGED <<today, bill, members>>
  BY <1>3 DEF Land
<1>12. MembersInv' /\ BillsInv'
  BY <1>11, MembersStay, BillsStay DEF SalesInv
<1> QED BY <1>10, <1>12 DEF SalesInv

LEMMA DeletePromoKeeps ==
  ASSUME SalesAssumption, SalesInv, NEW p \in PromoIds, DeletePromo(p)
  PROVE  SalesInv'
<1>1. UNCHANGED <<today, base, promo, desk, bill, clean, members>> /\ Revise
      /\ life' = [life EXCEPT ![p] = "deleted"]
  BY DEF DeletePromo
<1>2. MembersInv' /\ BillsInv' /\ revisions' \in 0..MaxRevisions
  BY <1>1, MembersStay, BillsStay, ReviseKeeps DEF SalesInv
<1>3. Kept' \subseteq Kept /\ life' \in [PromoIds -> {"none", "kept", "deleted"}]
  BY <1>1 DEF Kept, SalesInv, CatalogInv
<1>4. DesksFit' /\ TableApart' /\ (\A q \in Kept' : Valid(promo'[q]))
  BY <1>1, <1>3 DEF SalesInv, CatalogInv, DesksFit, TableApart
<1>5. DesksHold'
  <2> SUFFICES ASSUME NEW x \in Admins, ~desk[x].stale
               PROVE  /\ (desk[x].op = "create" /\ desk[x].want.on) =>
                             ~\E q \in Kept' \ {NoPromo} : promo[q].on /\ Overlaps(desk[x].want, promo[q])
                      /\ (desk[x].op = "update" /\ desk[x].want.on) =>
                             ~\E q \in Kept' \ {desk[x].id} :
                                  promo[q].on /\ Overlaps(desk[x].want, promo[q])
                      /\ (desk[x].op = "update" /\ desk[x].id \in Kept') =>
                             desk[x].seen = promo[desk[x].id]
    BY <1>1 DEF DesksHold, Crowded, Overlaps
  <2> QED BY <1>3 DEF SalesInv, CatalogInv, DesksHold, Crowded
<1>6. CatalogInv'
  BY <1>1, <1>2, <1>3, <1>4, <1>5 DEF SalesInv, CatalogInv
<1> QED BY <1>2, <1>6 DEF SalesInv
-----------------------------------------------------------------------------
\* What the property says of one bill.
BillFits(b) ==
    b.stage = "pending" =>
        \/ b.by = NoPromo /\ b.price = b.base
        \/ b.by # NoPromo /\ Fixed(b.by) /\ b.price = b.by.amount
        \/ b.by # NoPromo /\ ~Fixed(b.by) /\ b.price <= b.base

LEMMA BillGoesOn ==
  ASSUME BillsInv, NEW u \in Buyers, NEW b \in Bills, BillFits(b), bill' = [bill EXCEPT ![u] = b]
  PROVE  BillsInv'
<1>1. bill' \in [Buyers -> Bills] /\ \A v \in Buyers : bill'[v] = IF v = u THEN b ELSE bill[v]
  BY DEF BillsInv
<1>2. \A v \in Buyers : BillFits(bill[v])
  BY DEF BillsInv, BillWithinBase, BillFits
<1>3. \A v \in Buyers : BillFits(bill'[v])
  BY <1>1, <1>2
<1>4. BillWithinBase'
  BY <1>3 DEF BillWithinBase, BillFits
<1> QED BY <1>1, <1>4 DEF BillsInv

LEMMA ReadBaseKeeps ==
  ASSUME SalesAssumption, SalesInv, NEW u \in Buyers, ReadBase(u)
  PROVE  SalesInv'
<1>1. PICK b : b = [NoBill EXCEPT !.stage = "reading", !.base = base]
  OBVIOUS
<1>2. b \in Bills /\ BillFits(b)
  BY <1>1 DEF SalesInv, CatalogInv, NoBill, Bills, BillFits
<1>3. bill' = [bill EXCEPT ![u] = b] /\ UNCHANGED <<today, catalog, members>>
  BY <1>1 DEF ReadBase
<1> QED BY <1>2, <1>3, BillGoesOn, CatalogStays, MembersStay DEF SalesInv

LEMMA PriceFits ==
  ASSUME SalesAssumption, SalesInv, NEW n \in Nat, NEW p \in Picked
  PROVE  /\ Effective(n, p) \in Nat /\ CutOf(p) \in Cuts \cup {NoPromo}
         /\ \/ CutOf(p) = NoPromo /\ Effective(n, p) = n
            \/ CutOf(p) # NoPromo /\ Fixed(CutOf(p)) /\ Effective(n, p) = CutOf(p).amount
            \/ CutOf(p) # NoPromo /\ ~Fixed(CutOf(p)) /\ Effective(n, p) <= n
<1>1. CASE p = NoPromo
  BY <1>1 DEF Effective, CutOf
<1>2. CASE p # NoPromo
  <2>1. p \in Kept
    BY <1>2 DEF Picked, Active
  <2>2. promo[p] \in Offered
    <3>1. promo[p] \in Offered \cup {NoTerms} /\ Valid(promo[p])
      BY <2>1 DEF SalesInv, CatalogInv, Kept
    <3> QED BY <3>1 DEF NoTerms, Valid
  <2>3. PICK c : c = promo[p].cut
    OBVIOUS
  <2>4. c \in Cuts /\ c # NoPromo
    BY <2>2, <2>3 DEF Offered, Terms, SalesAssumption
  <2>5. CutOf(p) = c /\ Effective(n, p) = Cut(n, c)
    BY <1>2, <2>3 DEF CutOf, Effective
  <2>6. CASE Fixed(c)
    BY <2>4, <2>5, <2>6 DEF Cut, SalesAssumption
  <2>7. CASE ~Fixed(c)
    <3>1. c.amount \in 1..95
      BY <2>4, <2>7 DEF SalesAssumption
    <3>2. Cut(n, c) = (n * (100 - c.amount) + 50) \div 100
      BY <2>7 DEF Cut
    <3>3. Effective(n, p) = (n * (100 - c.amount) + 50) \div 100
      BY <2>5, <3>2
    <3>4. /\ (n * (100 - c.amount) + 50) \div 100 \in Nat
          /\ (n * (100 - c.amount) + 50) \div 100 <= n
      BY <3>1, PercentWithin, Zenon
    <3>5. Effective(n, p) \in Nat /\ Effective(n, p) <= n
      BY <3>3, <3>4, Zenon
    <3>6. CutOf(p) \in Cuts /\ CutOf(p) # NoPromo /\ ~Fixed(CutOf(p))
      BY <2>4, <2>5, <2>7
    <3> QED BY <3>5, <3>6
  <2> QED BY <2>6, <2>7
<1> QED BY <1>1, <1>2

LEMMA FixPriceKeeps ==
  ASSUME SalesAssumption, SalesInv, NEW u \in Buyers, FixPrice(u)
  PROVE  SalesInv'
<1>1. PICK p \in Picked : bill' = [bill EXCEPT ![u].stage = "pending", ![u].by = CutOf(p),
                                               ![u].price = Effective(bill[u].base, p)]
  BY DEF FixPrice
<1>2. UNCHANGED <<today, catalog, members>>
  BY DEF FixPrice
<1>3. PICK o \in Bills : o = bill[u]
  BY DEF SalesInv, BillsInv
<1>4. o.base \in Nat
  <2>1. o.base \in Bases \cup {0} BY <1>3 DEF Bills
  <2>2. \A n \in Bases \cup {0} : n \in Nat BY DEF SalesAssumption
  <2> QED BY <2>1, <2>2
<1>5. PICK x : x = Effective(o.base, p)
  OBVIOUS
<1>6. PICK y : y = CutOf(p)
  OBVIOUS
<1>7. /\ x \in Nat /\ y \in Cuts \cup {NoPromo}
      /\ \/ y = NoPromo /\ x = o.base
         \/ y # NoPromo /\ Fixed(y) /\ x = y.amount
         \/ y # NoPromo /\ ~Fixed(y) /\ x <= o.base
  BY <1>4, <1>5, <1>6, PriceFits
<1>8. PICK b : b = [o EXCEPT !.stage = "pending", !.by = y, !.price = x]
  OBVIOUS
<1>9. b.stage = "pending" /\ b.by = y /\ b.price = x /\ b.base = o.base /\ b \in Bills
  BY <1>3, <1>7, <1>8 DEF Bills
<1>10. BillFits(b)
  BY <1>7, <1>9 DEF BillFits
<1>11. bill' = [bill EXCEPT ![u] = [o EXCEPT !.stage = "pending", !.by = y, !.price = x]]
  BY <1>1, <1>3, <1>5, <1>6 DEF SalesInv, BillsInv
<1>12. bill' = [bill EXCEPT ![u] = b]
  BY <1>8, <1>11
<1> QED BY <1>2, <1>9, <1>10, <1>12, BillGoesOn, CatalogStays, MembersStay DEF SalesInv

LEMMA NoBillFits ==
  ASSUME SalesAssumption
  PROVE  NoBill \in Bills /\ BillFits(NoBill)
  BY DEF NoBill, Bills, BillFits

LEMMA ExpireKeeps ==
  ASSUME SalesAssumption, SalesInv, NEW u \in Buyers, Expire(u)
  PROVE  SalesInv'
<1>1. bill' = [bill EXCEPT ![u] = NoBill] /\ UNCHANGED <<today, catalog, members>>
  BY DEF Expire
<1> QED BY <1>1, NoBillFits, BillGoesOn, CatalogStays, MembersStay DEF SalesInv
-----------------------------------------------------------------------------
\* What the invariant says of one buyer.
BuyerFits(line, days, day, given) ==
    /\ days > 0 => line.ends = day + days
    /\ days = 0 => line.ends = NoEnd \/ line.ends <= day
    /\ (line.plan = "pro" /\ line.ends = NoEnd) => given
    /\ line.plan = "none" => line = NoSub

LEMMA BuyersFit ==
  /\ MembersInv => \A u \in Buyers : BuyerFits(sub[u], owed[u], today, u \in favour)
  /\ (\A u \in Buyers : BuyerFits(sub'[u], owed'[u], today', u \in favour')) =>
         PaidDaysKept' /\ TermsFit'
  BY DEF MembersInv, BuyerFits, PaidDaysKept, TermsFit

LEMMA PayKeeps ==
  ASSUME SalesAssumption, SalesInv, NEW u \in Buyers, NEW n \in Periods, Pay(u, n)
  PROVE  SalesInv'
<1>1. /\ bill' = [bill EXCEPT ![u] = NoBill] /\ pays < MaxPays /\ pays' = pays + 1
      /\ sub' = [sub EXCEPT ![u] = [plan |-> "pro", ends |-> Extended(sub[u], n)]]
      /\ owed' = [owed EXCEPT ![u] = owed[u] + n]
      /\ UNCHANGED <<today, catalog, wish, favour, wishes>>
  BY DEF Pay
<1>2. CatalogInv' /\ BillsInv'
  BY <1>1, NoBillFits, BillGoesOn, CatalogStays DEF SalesInv
<1>3. n \in Nat \ {0} /\ today \in Nat /\ owed[u] \in Nat /\ sub[u] \in SubRows
  BY DEF SalesAssumption, SalesInv, MembersInv
<1>4. sub[u].ends \in Ends_ /\ BuyerFits(sub[u], owed[u], today, u \in favour)
  BY <1>3, BuyersFit DEF SubRows, SalesInv
<1>5. NoEnd \notin Int
  BY DEF SalesAssumption
<1>6. Extended(sub[u], n) = today + owed[u] + n
  BY <1>3, <1>4, <1>5 DEF Extended, Larger, BuyerFits, Ends_
<1>7. PICK r : r = [plan |-> "pro", ends |-> today + owed[u] + n]
  OBVIOUS
<1>8. sub' = [sub EXCEPT ![u] = r]
  BY <1>1, <1>6, <1>7
<1>9. r \in SubRows /\ r.ends = today + (owed[u] + n) /\ r.plan = "pro" /\ r.ends # NoEnd
  BY <1>3, <1>5, <1>7 DEF SubRows, Ends_, Plans
<1>10. BuyerFits(r, owed[u] + n, today, u \in favour)
  BY <1>3, <1>9 DEF BuyerFits
<1>11. sub' \in [Buyers -> SubRows] /\ owed' \in [Buyers -> Nat]
  BY <1>1, <1>3, <1>8, <1>9 DEF SalesInv, MembersInv
<1>12. \A v \in Buyers : BuyerFits(sub'[v], owed'[v], today', v \in favour')
  <2> SUFFICES ASSUME NEW v \in Buyers PROVE BuyerFits(sub'[v], owed'[v], today, v \in favour)
    BY <1>1
  <2>1. CASE v = u
    BY <2>1, <1>1, <1>8, <1>10 DEF SalesInv, MembersInv
  <2>2. CASE v # u
    <3>1. sub'[v] = sub[v] /\ owed'[v] = owed[v]
      BY <2>2, <1>1 DEF SalesInv, MembersInv
    <3> QED BY <3>1, BuyersFit DEF SalesInv
  <2> QED BY <2>1, <2>2
<1>13. pays' \in 0..MaxPays
  BY <1>1 DEF SalesInv, MembersInv, SalesAssumption
<1>14. MembersInv'
  BY <1>1, <1>11, <1>12, <1>13, BuyersFit DEF SalesInv, MembersInv
<1> QED BY <1>2, <1>14 DEF SalesInv

LEMMA AskPlanKeeps ==
  ASSUME SalesAssumption, SalesInv, NEW e \in Admins, NEW u \in Buyers, NEW plan \in Plans,
         AskPlan(e, u, plan)
  PROVE  SalesInv'
<1>1. PICK w : w = [user |-> u, found |-> sub[u].plan, plan |-> plan]
  OBVIOUS
<1>2. sub[u] \in SubRows
  BY DEF SalesInv, MembersInv
<1>3. w \in WishRows
  BY <1>1, <1>2 DEF WishRows, SubRows
<1>4. wish' = [wish EXCEPT ![e] = w] /\ wishes < MaxWishes /\ wishes' = wishes + 1
      /\ UNCHANGED <<today, catalog, bill, sub, owed, favour, pays>>
  BY <1>1 DEF AskPlan
<1>5. wish' \in [Admins -> WishRows] /\ wishes' \in 0..MaxWishes
  BY <1>3, <1>4 DEF SalesInv, MembersInv, SalesAssumption
<1>6. PaidDaysKept' /\ TermsFit'
  BY <1>4 DEF SalesInv, MembersInv, PaidDaysKept, TermsFit
<1>7. MembersInv'
  BY <1>4, <1>5, <1>6 DEF SalesInv, MembersInv
<1> QED BY <1>4, <1>7, CatalogStays, BillsStay DEF SalesInv

LEMMA NoWishFits ==
  NoWish \in WishRows
  BY DEF NoWish, WishRows, Plans

LEMMA DropPlanKeeps ==
  ASSUME SalesAssumption, SalesInv, NEW e \in Admins, DropPlan(e)
  PROVE  SalesInv'
<1>1. wish' = [wish EXCEPT ![e] = NoWish]
      /\ UNCHANGED <<today, catalog, bill, sub, owed, favour, pays, wishes>>
  BY DEF DropPlan
<1>2. wish' \in [Admins -> WishRows]
  BY <1>1, NoWishFits DEF SalesInv, MembersInv
<1>3. PaidDaysKept' /\ TermsFit'
  BY <1>1 DEF SalesInv, MembersInv, PaidDaysKept, TermsFit
<1>4. MembersInv'
  BY <1>1, <1>2, <1>3 DEF SalesInv, MembersInv
<1> QED BY <1>1, <1>4, CatalogStays, BillsStay DEF SalesInv

LEMMA CommitPlanKeeps ==
  ASSUME SalesAssumption, SalesInv, NEW e \in Admins, CommitPlan(e)
  PROVE  SalesInv'
<1>1. PICK w : w = wish[e]
  OBVIOUS
<1>2. PICK u : u = w.user
  OBVIOUS
<1>3. w \in WishRows
  BY <1>1 DEF SalesInv, MembersInv
<1>4. /\ u # NoBuyer
      /\ sub' = IF w.found = w.plan THEN sub ELSE [sub EXCEPT ![u] = Given(sub[u], w.plan)]
      /\ favour' = IF w.plan = "pro" THEN favour \cup {u}
                   ELSE IF w.found = w.plan THEN favour ELSE favour \ {u}
      /\ wish' = [wish EXCEPT ![e] = NoWish]
      /\ UNCHANGED <<today, catalog, bill, owed, pays, wishes>>
  BY <1>1, <1>2 DEF CommitPlan
<1>5. u \in Buyers /\ w.plan \in Plans
  BY <1>2, <1>3, <1>4 DEF WishRows
<1>6. PICK r \in SubRows : r = sub[u]
  BY <1>5 DEF SalesInv, MembersInv
<1>7. PICK s : s = [r EXCEPT !.plan = w.plan]
  OBVIOUS
<1>8. s \in SubRows /\ s.ends = r.ends /\ s.plan = w.plan
  BY <1>5, <1>7 DEF SubRows
<1>9. sub' = IF w.found = w.plan THEN sub ELSE [sub EXCEPT ![u] = s]
  BY <1>4, <1>6, <1>7 DEF Given
<1>10. sub' \in [Buyers -> SubRows] /\ favour' \subseteq Buyers
       /\ wish' \in [Admins -> WishRows]
  BY <1>4, <1>5, <1>8, <1>9, NoWishFits DEF SalesInv, MembersInv
<1>11. \A v \in Buyers : BuyerFits(sub'[v], owed'[v], today', v \in favour')
  <2> SUFFICES ASSUME NEW v \in Buyers PROVE BuyerFits(sub'[v], owed[v], today, v \in favour')
    BY <1>4
  <2>1. BuyerFits(sub[v], owed[v], today, v \in favour)
    BY BuyersFit DEF SalesInv
  <2>2. CASE v # u
    <3>1. sub'[v] = sub[v] /\ (v \in favour => v \in favour')
      BY <2>2, <1>4, <1>9 DEF SalesInv, MembersInv
    <3> QED BY <2>1, <3>1 DEF BuyerFits
  <2>3. CASE v = u /\ w.found = w.plan
    <3>1. sub'[v] = sub[v] /\ (v \in favour => v \in favour')
      BY <2>3, <1>4, <1>9 DEF SalesInv, MembersInv
    <3> QED BY <2>1, <3>1 DEF BuyerFits
  <2>4. CASE v = u /\ w.found # w.plan
    <3>1. sub'[v] = s /\ (w.plan = "pro" => v \in favour')
      BY <2>4, <1>4, <1>9 DEF SalesInv, MembersInv
    <3>2. sub[v].ends = s.ends /\ (s.plan = "pro" => v \in favour') /\ s.plan # "none"
      BY <2>4, <1>5, <1>6, <1>8, <3>1 DEF Plans
    <3> QED BY <2>1, <3>1, <3>2 DEF BuyerFits
  <2> QED BY <2>2, <2>3, <2>4
<1>12. MembersInv'
  BY <1>4, <1>10, <1>11, BuyersFit DEF SalesInv, MembersInv
<1> QED BY <1>4, <1>12, CatalogStays, BillsStay DEF SalesInv

LEMMA TickKeeps ==
  ASSUME SalesAssumption, SalesInv, Tick
  PROVE  SalesInv'
<1>1. /\ today < MaxToday /\ today' = today + 1
      /\ owed' = [u \in Buyers |-> IF owed[u] > 0 THEN owed[u] - 1 ELSE 0]
      /\ UNCHANGED <<catalog, bill, sub, wish, favour, pays, wishes>>
  BY DEF Tick
<1>2. today \in Nat /\ today' \in 0..MaxToday /\ NoEnd \notin Int
  BY <1>1 DEF SalesInv, MembersInv, SalesAssumption
<1>3. owed' \in [Buyers -> Nat]
  BY <1>1 DEF SalesInv, MembersInv
<1>4. \A v \in Buyers : BuyerFits(sub'[v], owed'[v], today', v \in favour')
  <2> SUFFICES ASSUME NEW v \in Buyers PROVE BuyerFits(sub[v], owed'[v], today + 1, v \in favour)
    BY <1>1
  <2>1. BuyerFits(sub[v], owed[v], today, v \in favour)
    BY BuyersFit DEF SalesInv
  <2>2. owed[v] \in Nat /\ owed'[v] = IF owed[v] > 0 THEN owed[v] - 1 ELSE 0
    BY <1>1 DEF SalesInv, MembersInv
  <2>3. sub[v].ends \in Ends_
    BY DEF SalesInv, MembersInv, SubRows
  <2> QED BY <1>2, <2>1, <2>2, <2>3 DEF BuyerFits, Ends_
<1>5. MembersInv'
  BY <1>1, <1>2, <1>3, <1>4, BuyersFit DEF SalesInv, MembersInv
<1> QED BY <1>1, <1>5, CatalogStays, BillsStay DEF SalesInv
-----------------------------------------------------------------------------
LEMMA SalesInitInv ==
  ASSUME SalesAssumption, SalesInit
  PROVE  SalesInv
<1>1. FreeDesk \in Desks /\ FreeDesk.op = "idle"
  BY DEF FreeDesk, Desks
<1>2. Kept = {}
  BY DEF SalesInit, Kept
<1>3. CatalogInv
  <2>1. desk \in [Admins -> Desks] /\ DesksFit /\ DesksHold
    BY <1>1 DEF SalesInit, DesksFit, DesksHold
  <2> QED BY <1>2, <2>1 DEF SalesInit, CatalogInv, TableApart, SalesAssumption
<1>4. BillsInv
  BY NoBillFits DEF SalesInit, BillsInv, BillWithinBase, BillFits
<1>5. MembersInv
  <2>1. NoSub \in SubRows /\ NoSub.ends = NoEnd /\ NoSub.plan = "none"
    BY DEF NoSub, SubRows, Ends_
  <2>2. PaidDaysKept /\ TermsFit
    BY <2>1 DEF SalesInit, PaidDaysKept, TermsFit
  <2> QED BY <2>1, <2>2, NoWishFits DEF SalesInit, MembersInv, SalesAssumption
<1> QED BY <1>3, <1>4, <1>5 DEF SalesInv

LEMMA SalesNextKeeps ==
  ASSUME SalesAssumption, SalesInv, SalesNext
  PROVE  SalesInv'
<1>1. CASE PanelEdits
  BY <1>1, SetBaseKeeps, DeletePromoKeeps, AskCreateKeeps, AskUpdateKeeps, CommitCreateKeeps,
     CommitUpdateKeeps, AbandonKeeps DEF PanelEdits
<1>2. CASE Giving
  BY <1>2, AskPlanKeeps, CommitPlanKeeps, DropPlanKeeps DEF Giving
<1>3. CASE Buying
  BY <1>3, ReadBaseKeeps, FixPriceKeeps, ExpireKeeps, PayKeeps DEF Buying
<1>4. CASE Tick
  BY <1>4, TickKeeps
<1> QED BY <1>1, <1>2, <1>3, <1>4 DEF SalesNext

LEMMA SalesHolds ==
  ASSUME SalesAssumption, SalesInv
  PROVE  SalesTypeOK /\ SalesKept
<1>1. SalesTypeOK
  BY DEF SalesInv, CatalogInv, BillsInv, MembersInv, SalesTypeOK, SubRows, WishRows, Ends_,
         TermsFit
<1>2. ClashNeedsRace
  <2> SUFFICES ASSUME clean, NEW p \in Kept, NEW q \in Kept, p # q, promo[p].on, promo[q].on
               PROVE  Window(promo[p]) \cap Window(promo[q]) = {}
    BY DEF ClashNeedsRace
  <2>1. ~Overlaps(promo[p], promo[q])
    BY DEF SalesInv, CatalogInv, TableApart
  <2>2. /\ promo[p].from \in Int /\ promo[p].to \in Int
        /\ promo[q].from \in Int /\ promo[q].to \in Int
    <3>1. promo[p] \in Offered \cup {NoTerms} /\ promo[q] \in Offered \cup {NoTerms}
      BY DEF SalesInv, CatalogInv, Kept
    <3> QED BY <3>1 DEF Offered, Terms, NoTerms
  <2> QED BY <2>1, <2>2 DEF Overlaps, Window
<1>3. BillWithinBase /\ PaidDaysKept
  BY DEF SalesInv, BillsInv, MembersInv
<1>4. ProIsEarned
  <2> SUFFICES ASSUME NEW u \in Buyers, PlanOf(u) = "pro" PROVE owed[u] > 0 \/ u \in favour
    BY DEF ProIsEarned
  <2>1. sub[u].plan = "pro" /\ (sub[u].ends = NoEnd \/ sub[u].ends > today)
    BY DEF PlanOf
  <2>2. BuyerFits(sub[u], owed[u], today, u \in favour)
    BY BuyersFit DEF SalesInv
  <2>3. owed[u] \in Nat /\ today \in Nat /\ sub[u].ends \in Ends_
    BY DEF SalesInv, MembersInv, SubRows, SalesAssumption
  <2> QED BY <2>1, <2>2, <2>3 DEF BuyerFits, Ends_
<1> QED BY <1>1, <1>2, <1>3, <1>4 DEF SalesKept

LEMMA SalesStutter ==
  ASSUME SalesInv, UNCHANGED salesVars
  PROVE  SalesInv'
<1>1. UNCHANGED <<today, catalog, bill, members>>
  BY DEF salesVars, catalog, members
<1> QED BY <1>1, CatalogStays, BillsStay, MembersStay DEF SalesInv

LEMMA SalesStep ==
  ASSUME SalesAssumption, SalesInv, [SalesNext]_salesVars
  PROVE  SalesInv'
  BY SalesNextKeeps, SalesStutter

\* Sales: two promotions clash only when two admins raced, a bill never exceeds the base price,
\* a payment adds all of its days, and Pro is had only for days paid or given.
THEOREM SalesAreKept == ASSUME SalesAssumption PROVE SalesSpec => [](SalesTypeOK /\ SalesKept)
<1>1. SalesInit => SalesInv
  BY SalesInitInv
<1>2. SalesInv /\ [SalesNext]_salesVars => SalesInv'
  BY SalesStep
<1>3. SalesInv => SalesTypeOK /\ SalesKept
  BY SalesHolds
<1> QED BY <1>1, <1>2, <1>3, PTL DEF SalesSpec

-----------------------------------------------------------------------------
(* Warming *)
Accts == [status: {"warming", "pool", "assigned", "cooldown", "banned"},
          kind: {"young", "aged", "own"}, open: {0, 1}, zero: BOOLEAN]
Queues == [ready: Nat, batch: 0..Batch, at: Int]
Works == [at: {"free", "client", "row"}, kind: Kinds, result: Outcomes]
Entries == Kinds \X Outcomes

WarmTyped ==
    /\ now \in 0..MaxNow /\ harm \in 0..MaxWarmingDamage
    /\ acct \in Accts /\ ticks \in Queues /\ busy \in [Workers -> Works]
    /\ rows \in Seq(Entries) /\ Len(rows) <= Keep
    /\ latest \in Int /\ good \in 0..ReadyActions

\* The rows kept tell of no more actions than were done.
Counted == good < ReadyActions => Done(rows) <= good

\* The tick that was enqueued alone is alone, and still due.
Lone ==
    ~crowded => /\ ticks.batch = 0 /\ ticks.ready <= 1
                /\ \A v, w \in Workers : Running(v) /\ Running(w) => v = w
                /\ \A w \in Workers : Running(w) => ticks.ready = 0
                /\ Outstanding => Due

WarmInv == WarmTyped /\ Counted /\ Lone /\ WarmingKept
-----------------------------------------------------------------------------
LEMMA WarmNumbers ==
  ASSUME WarmingAssumption
  PROVE  /\ WindowStart \in Int /\ WindowEnd \in Int /\ MaxNow \in Nat /\ IdleHours \in Nat
         /\ MaxWarmingDamage \in Nat /\ Day \in Nat \ {0} /\ Batch \in Nat \ {0}
         /\ Interval \in Nat \ {0} /\ ReadyActions \in Nat \ {0} /\ ReadyDays \in Nat \ {0}
         /\ AgedReadyDays \in Nat \ {0} /\ Keep \in Nat \ {0} /\ MaxTicks \in Nat \ {0}
         /\ IsFiniteSet(Workers)
<1>1. WindowStart \in 0..(Day - 1) /\ WindowEnd \in 0..(Day - 1)
  BY DEF WarmingAssumption
<1> QED BY <1>1 DEF WarmingAssumption

\* Nothing that a tick may choose is unasked for.
LEMMA ChosenIsAsked ==
  ASSUME NEW sc \in Scenarios, NEW auto \in BOOLEAN, NEW x \in Choosable(sc, auto)
  PROVE  ~Unasked(sc, auto, x)
<1>1. DOMAIN sc \subseteq Actions
  BY DEF Scenarios, NoScenario, Actions
<1>2. PICK off : off = (IF auto \/ \E y \in Joins : Explicit(sc, y) THEN {} ELSE Joins)
                       \cup (IF Explicit(sc, "update_profile") THEN {} ELSE {"update_profile"})
  OBVIOUS
<1>3. "read" \notin off
  BY <1>2 DEF Joins
<1>4. \E y \in Listed(sc) : y \notin off
  <2>1. CASE \E y \in DOMAIN sc : sc[y] > 0
    <3>1. PICK y \in DOMAIN sc : sc[y] > 0
      BY <2>1
    <3>2. y \in Listed(sc) /\ Explicit(sc, y)
      BY <3>1 DEF Listed, Explicit
    <3>3. y \notin off
      BY <1>2, <3>2 DEF Joins
    <3> QED BY <3>2, <3>3
  <2>2. CASE ~\E y \in DOMAIN sc : sc[y] > 0
    BY <2>2, <1>3 DEF Listed, Actions
  <2> QED BY <2>1, <2>2
<1>5. Choosable(sc, auto) = Listed(sc) \ off
  BY <1>2, <1>4 DEF Choosable
<1>6. x \notin off
  BY <1>5
<1> QED BY <1>2, <1>6 DEF Unasked

LEMMA TrimIs ==
  ASSUME WarmingAssumption, NEW S, NEW s \in Seq(S)
  PROVE  /\ Trim(s) \in Seq(S) /\ Len(Trim(s)) <= Keep /\ Len(Trim(s)) <= Len(s)
         /\ \A i \in 1..Len(Trim(s)) : Trim(s)[i] = s[i]
<1>1. Keep \in Nat \ {0} /\ Len(s) \in Nat
  BY WarmNumbers
<1>2. PICK n \in Nat : n = IF Len(s) < Keep THEN Len(s) ELSE Keep
  BY <1>1
<1>3. n <= Len(s) /\ n <= Keep
  BY <1>1, <1>2
<1>4. Trim(s) = SubSeq(s, 1, n)
  BY <1>2 DEF Trim
<1>5. \A i \in 1..n : s[i] \in S
  BY <1>1, <1>3
<1>6. SubSeq(s, 1, n) \in Seq(S) /\ Len(SubSeq(s, 1, n)) = n
  BY <1>1, <1>3, <1>5
<1>7. \A i \in 1..n : SubSeq(s, 1, n)[i] = s[i]
  BY <1>1, <1>3
<1> QED BY <1>3, <1>4, <1>6, <1>7

\* The actions done that rows tell of are as many as their places.
Told_(s) == {i \in DOMAIN s : s[i] = <<"initial", "done">>}

LEMMA ToldFinite ==
  ASSUME NEW S, NEW s \in Seq(S)
  PROVE  IsFiniteSet(Told_(s)) /\ Cardinality(Told_(s)) \in Nat /\ Done(s) = Cardinality(Told_(s))
<1>1. DOMAIN s = 1..Len(s) /\ Len(s) \in Int
  OBVIOUS
<1>2. IsFiniteSet(1..Len(s))
  BY <1>1, FS_Interval
<1>3. Told_(s) \in SUBSET (1..Len(s))
  BY <1>1 DEF Told_
<1>4. IsFiniteSet(Told_(s))
  BY <1>2, <1>3, FS_Subset
<1> QED BY <1>4, FS_CardinalityType DEF Done, Told_

\* A new row adds one to them if it is one.
LEMMA DoneWith ==
  ASSUME WarmingAssumption, NEW r \in Seq(Entries), NEW x \in Entries,
         NEW s, s = Trim(<<x>> \o r)
  PROVE  /\ Done(s) \in Nat /\ Done(r) \in Nat /\ Done(s) <= Done(r) + 1
         /\ x # <<"initial", "done">> => Done(s) <= Done(r)
<1>1. <<x>> \o r \in Seq(Entries) /\ Len(<<x>> \o r) = Len(r) + 1 /\ (<<x>> \o r)[1] = x
      /\ \A i \in 2..(Len(r) + 1) : (<<x>> \o r)[i] = r[i - 1]
  OBVIOUS
<1>2. s \in Seq(Entries) /\ Len(s) <= Len(r) + 1 /\ \A i \in 1..Len(s) : s[i] = (<<x>> \o r)[i]
  BY <1>1, TrimIs
<1>3. DOMAIN s = 1..Len(s) /\ DOMAIN r = 1..Len(r) /\ Len(s) \in Nat /\ Len(r) \in Nat
  BY <1>2
<1>4. PICK T : T = Told_(s) \ {1}
  OBVIOUS
<1>5. \A i \in T : i \in 2..(Len(r) + 1) /\ i - 1 \in Told_(r)
  <2> SUFFICES ASSUME NEW i \in T PROVE i \in 2..(Len(r) + 1) /\ i - 1 \in Told_(r)
    OBVIOUS
  <2>1. i \in 1..Len(s) /\ i # 1 /\ s[i] = <<"initial", "done">>
    BY <1>3, <1>4 DEF Told_
  <2>2. i \in 2..(Len(r) + 1)
    BY <2>1, <1>2, <1>3
  <2>3. s[i] = r[i - 1]
    BY <2>1, <2>2, <1>1, <1>2
  <2>4. i - 1 \in 1..Len(r)
    BY <2>2, <1>3
  <2> QED BY <2>1, <2>2, <2>3, <2>4, <1>3 DEF Told_
<1>6. PICK f : f = [i \in T |-> i - 1]
  OBVIOUS
<1>7. f \in Injection(T, Told_(r))
  <2>1. f \in [T -> Told_(r)]
    BY <1>5, <1>6
  <2>2. \A i, j \in T : f[i] = f[j] => i = j
    BY <1>5, <1>6
  <2> QED BY <2>1, <2>2 DEF Injection, IsInjective
<1>8. IsFiniteSet(Told_(r)) /\ Done(r) = Cardinality(Told_(r)) /\ Done(r) \in Nat
  BY ToldFinite
<1>9. IsFiniteSet(Told_(s)) /\ Done(s) = Cardinality(Told_(s)) /\ Done(s) \in Nat
  BY <1>2, ToldFinite
<1>10. IsFiniteSet(T) /\ Cardinality(T) <= Done(r)
  BY <1>7, <1>8, FS_Injection
<1>11. Cardinality(T) \in Nat
  BY <1>10, FS_CardinalityType
<1>12. Done(s) <= Cardinality(T) + 1
  <2>1. IsFiniteSet(T \cup {1}) /\ Cardinality(T \cup {1}) <= Cardinality(T) + 1
    <3>1. 1 \notin T
      BY <1>4
    <3>2. Cardinality(T \cup {1}) = Cardinality(T) + 1 /\ IsFiniteSet(T \cup {1})
      BY <1>10, <3>1, FS_AddElement
    <3> QED BY <1>11, <3>2
  <2>2. Told_(s) \in SUBSET (T \cup {1})
    BY <1>4
  <2>3. Cardinality(Told_(s)) <= Cardinality(T \cup {1})
    BY <2>1, <2>2, FS_Subset
  <2>4. Cardinality(T \cup {1}) \in Nat
    BY <2>1, FS_CardinalityType
  <2> QED BY <1>9, <1>11, <2>1, <2>3, <2>4
<1>13. ASSUME x # <<"initial", "done">> PROVE Done(s) <= Done(r)
  <2>1. 1 \notin Told_(s)
    BY <1>1, <1>2, <1>3, <1>13 DEF Told_
  <2>2. Told_(s) = T
    BY <1>4, <2>1
  <2> QED BY <1>9, <1>10, <2>2
<1> QED BY <1>8, <1>9, <1>10, <1>11, <1>12, <1>13
-----------------------------------------------------------------------------
\* One task goes on.
LEMMA TaskGoesOn ==
  ASSUME WarmTyped, NEW w \in Workers, NEW r \in Works, busy' = [busy EXCEPT ![w] = r]
  PROVE  /\ busy' \in [Workers -> Works] /\ busy'[w] = r
         /\ \A v \in Workers : v # w => busy'[v] = busy[v]
  BY DEF WarmTyped

LEMMA RestingIs ==
  Resting \in Works /\ Resting.at = "free"
  BY DEF Resting, Works, Kinds, Outcomes

\* Ticks are added to those ready.
LEMMA EnqueueIs ==
  ASSUME ticks \in Queues, NEW n \in Int, ticks.ready + n >= 0, Enqueue(n)
  PROVE  /\ ticks' \in Queues /\ ticks'.ready = ticks.ready + n
         /\ ticks'.batch = ticks.batch /\ ticks'.at = ticks.at
  BY DEF Queues, Enqueue

\* The latest tick is not alone: nothing is owed to the others.
LEMMA CrowdedIs ==
  ASSUME WarmInv, WarmTyped', crowded', Outstanding' \/ shaken',
         UNCHANGED <<rows, good, early, hurried, unasked>>
  PROVE  WarmInv'
<1>1. Counted'
  BY DEF WarmInv, Counted, Done
<1>2. Lone'
  BY DEF Lone
<1>3. WarmingKept'
  BY DEF WarmInv, WarmingKept, Graduated, NobodyStuck, Rested, AskedOnly
<1> QED BY <1>1, <1>2, <1>3 DEF WarmInv

LEMMA LaterKeeps ==
  ASSUME WarmingAssumption, WarmInv, Later
  PROVE  WarmInv'
<1>1. /\ now < MaxNow /\ now' = now + 1 /\ cron' = FALSE
      /\ UNCHANGED <<acct, ticks, busy, rows, latest, good, early, crowded, hurried, unasked, harm>>
  BY DEF Later
<1>2. WarmTyped'
  BY SMTT(20), <1>1, WarmNumbers DEF WarmInv, WarmTyped
<1>3. Counted'
  BY <1>1 DEF WarmInv, Counted, Done
<1>4. Outstanding' <=> Outstanding
  BY <1>1 DEF Outstanding, Running
<1>5. Due => Due'
  <2>1. now \in Int /\ latest \in Int /\ Interval \in Int
    BY WarmNumbers DEF WarmInv, WarmTyped
  <2>2. now - latest >= Interval => now + 1 - latest >= Interval
    BY <2>1
  <2>3. latest' = latest /\ now' = now + 1
    BY <1>1
  <2>4. Due' <=> (latest' = Never \/ now' - latest' >= Interval)
    BY DEF Due
  <2>5. Due' <=> (latest = Never \/ now + 1 - latest >= Interval)
    BY <2>1, <2>3, <2>4
  <2> QED BY <2>2, <2>5 DEF Due
<1>6. Lone'
  BY <1>1, <1>4, <1>5 DEF WarmInv, Lone, Running
<1>7. WarmingKept'
  BY <1>1 DEF WarmInv, WarmingKept, Graduated, NobodyStuck, Rested, AskedOnly
<1> QED BY <1>2, <1>3, <1>6, <1>7 DEF WarmInv

LEMMA InitialStartKeeps ==
  ASSUME WarmingAssumption, WarmInv, InitialStart
  PROVE  WarmInv'
<1>1. /\ ticks' = [ticks EXCEPT !.batch = Batch, !.at = now + IdleHours] /\ crowded' = TRUE
      /\ UNCHANGED <<now, acct, busy, rows, latest, good, cron, early, hurried, unasked, shaken, harm>>
  BY DEF InitialStart
<1>2. PICK q \in Queues : q = ticks
  BY DEF WarmInv, WarmTyped
<1>3. Batch \in 0..Batch /\ now + IdleHours \in Int /\ Batch > 0
  <2>1. now \in 0..MaxNow
    BY DEF WarmInv, WarmTyped
  <2>2. MaxNow \in Nat /\ IdleHours \in Nat /\ Batch \in Nat \ {0}
    BY WarmNumbers
  <2> QED BY <2>1, <2>2
<1>4. ticks' \in Queues /\ ticks'.batch = Batch /\ ticks'.ready \in Nat
  BY <1>1, <1>2, <1>3 DEF Queues
<1>5. WarmTyped'
  BY <1>1, <1>4 DEF WarmInv, WarmTyped
<1>6. Outstanding'
  BY <1>3, <1>4 DEF Outstanding
<1> QED BY <1>1, <1>5, <1>6, CrowdedIs

LEMMA SchedulerKeeps ==
  ASSUME WarmingAssumption, WarmInv, MaintenanceScheduler
  PROVE  WarmInv'
<1>1. /\ \/ /\ acct.status \in {"pool", "warming"} /\ Due
            /\ Enqueue(1) /\ crowded' = Outstanding
         \/ /\ ~(acct.status \in {"pool", "warming"} /\ Due)
            /\ UNCHANGED <<ticks, crowded>>
      /\ UNCHANGED <<now, acct, busy, rows, latest, good, early, hurried, unasked, shaken, harm>>
  BY DEF MaintenanceScheduler
<1>2. Due' <=> Due
  BY <1>1 DEF Due
<1>3. Counted'
  BY <1>1 DEF WarmInv, Counted, Done
<1>4. \A w \in Workers : Running(w)' <=> Running(w)
  BY <1>1 DEF Running
<1>5. CASE Due /\ Enqueue(1) /\ crowded' = Outstanding
  <2>1. ticks \in Queues /\ ticks.ready \in Nat /\ ticks.batch \in Nat
    <3>1. ticks \in Queues
      BY DEF WarmInv, WarmTyped
    <3>2. Batch \in Nat
      BY WarmNumbers
    <3> QED BY <3>1, <3>2 DEF Queues
  <2>2. ticks' \in Queues /\ ticks'.ready = ticks.ready + 1 /\ ticks'.batch = ticks.batch
    BY <1>5, <2>1, EnqueueIs
  <2>3. WarmTyped'
    BY <1>1, <2>2 DEF WarmInv, WarmTyped
  <2>4. Outstanding'
    BY <2>1, <2>2 DEF Outstanding
  <2>5. ~crowded' => ~Outstanding
    BY <1>5, Zenon
  <2>6. Lone'
    <3> SUFFICES ASSUME ~crowded'
                 PROVE  /\ ticks'.batch = 0 /\ ticks'.ready <= 1
                        /\ \A v, w \in Workers : Running(v)' /\ Running(w)' => v = w
                        /\ \A w \in Workers : Running(w)' => ticks'.ready = 0
                        /\ Outstanding' => Due'
      BY DEF Lone, Running
    <3>1. ~(ticks.ready + ticks.batch > 0) /\ \A w \in Workers : ~Running(w)
      BY <2>5 DEF Outstanding
    <3> QED BY <3>1, <1>2, <1>4, <1>5, <2>1, <2>2
  <2>7. WarmingKept'
    BY <1>1, <2>4 DEF WarmInv, WarmingKept, Graduated, NobodyStuck, Rested, AskedOnly
  <2> QED BY <1>3, <2>3, <2>6, <2>7 DEF WarmInv
<1>6. CASE ~(acct.status \in {"pool", "warming"} /\ Due) /\ UNCHANGED <<ticks, crowded>>
  <2>1. WarmTyped'
    BY <1>1, <1>6 DEF WarmInv, WarmTyped
  <2>2. Outstanding' <=> Outstanding
    BY <1>1, <1>6 DEF Outstanding, Running
  <2>3. Lone'
    BY <1>1, <1>2, <1>6, <2>2 DEF WarmInv, Lone, Running
  <2>4. NobodyStuck'
    BY <1>1, <1>2, <1>6 DEF NobodyStuck
  <2>5. WarmingKept'
    BY <1>1, <2>4 DEF WarmInv, WarmingKept, Graduated, Rested, AskedOnly
  <2> QED BY <1>3, <2>1, <2>3, <2>5 DEF WarmInv
<1> QED BY <1>1, <1>5, <1>6

LEMMA TakeTickKeeps ==
  ASSUME WarmingAssumption, WarmInv, NEW w \in Workers, TakeTick(w)
  PROVE  WarmInv'
<1>1. /\ busy[w].at = "free"
      /\ \/ ticks.ready > 0 /\ Enqueue(-1)
         \/ /\ ticks.batch > 0 /\ ticks' = [ticks EXCEPT !.batch = ticks.batch - 1]
      /\ UNCHANGED <<now, acct, rows, latest, good, cron, early, crowded, hurried, shaken, harm>>
  BY DEF TakeTick
<1>2. PICK q \in Queues : q = ticks
  BY DEF WarmInv, WarmTyped
<1>3. Batch \in Nat /\ q.ready \in Nat /\ q.batch \in Nat /\ q.batch <= Batch
  BY WarmNumbers, <1>2 DEF Queues
<1>4. /\ ticks' \in Queues /\ ticks'.ready <= q.ready /\ ticks'.batch <= q.batch
      /\ ticks'.ready + ticks'.batch + 1 = q.ready + q.batch
      /\ ticks'.ready \in Nat /\ ticks'.batch \in Nat
  <2>1. CASE ticks.ready > 0 /\ Enqueue(-1)
    BY <2>1, <1>2, <1>3, EnqueueIs
  <2>2. CASE ticks.batch > 0 /\ ticks' = [ticks EXCEPT !.batch = ticks.batch - 1]
    <3>1. ticks' = [q EXCEPT !.batch = q.batch - 1] /\ q.batch - 1 \in 0..Batch
      BY <2>2, <1>2, <1>3
    <3>2. ticks' \in Queues /\ ticks'.ready = q.ready /\ ticks'.batch = q.batch - 1
      BY <3>1, <1>2 DEF Queues
    <3> QED BY <1>3, <3>1, <3>2
  <2> QED BY <1>1, <2>1, <2>2
<1>5. Counted'
  BY <1>1 DEF WarmInv, Counted, Done
<1>6. Due' <=> Due
  BY <1>1 DEF Due
<1>7. Outstanding /\ ~Running(w)
  BY <1>1, <1>2, <1>3, <1>4 DEF Outstanding, Running
<1>8. ~crowded => /\ ticks.batch = 0 /\ ticks.ready <= 1 /\ Due
                  /\ \A v \in Workers : ~Running(v)
  <2> SUFFICES ASSUME ~crowded
               PROVE  /\ ticks.batch = 0 /\ ticks.ready <= 1 /\ Due
                      /\ \A v \in Workers : ~Running(v)
    OBVIOUS
  <2>1. ticks.batch = 0 /\ ticks.ready <= 1 /\ Due /\ \A v \in Workers : Running(v) => ticks.ready = 0
    BY <1>7 DEF WarmInv, Lone
  <2>2. ticks.ready # 0
    BY <1>2, <1>3, <1>4, <2>1
  <2> QED BY <2>1, <2>2
<1>9. CASE acct.status \in {"pool", "warming"} /\ ~acct.zero /\ Awake(now)
  <2>1. PICK r : r = [Resting EXCEPT !.at = "client",
                          !.kind = IF acct.status = "warming" THEN @ ELSE "maintenance"]
    OBVIOUS
  <2>2. r \in Works /\ r.at = "client"
    BY <2>1, RestingIs DEF Works, Kinds
  <2>3. busy' = [busy EXCEPT ![w] = r]
    BY <1>9, <2>1 DEF TakeTick
  <2>4. PICK sc \in Scenarios, auto \in BOOLEAN :
           \E x \in Choosable(sc, auto) : unasked' = (unasked \/ Unasked(sc, auto, x))
    BY <1>9 DEF TakeTick
  <2>5. PICK x \in Choosable(sc, auto) : unasked' = (unasked \/ Unasked(sc, auto, x))
    BY <2>4
  <2>6. ~unasked
    BY DEF WarmInv, WarmingKept, AskedOnly
  <2>7. ~Unasked(sc, auto, x)
    BY ChosenIsAsked
  <2>8. ~unasked'
    BY <2>5, <2>6, <2>7, Zenon
  <2>9. /\ busy' \in [Workers -> Works] /\ busy'[w] = r
        /\ \A v \in Workers : v # w => busy'[v] = busy[v]
    BY <2>2, <2>3, TaskGoesOn DEF WarmInv
  <2>10. WarmTyped'
    BY <1>1, <1>4, <2>9 DEF WarmInv, WarmTyped
  <2>11. Outstanding'
    BY <2>2, <2>9 DEF Outstanding, Running
  <2>12. Lone'
    <3> SUFFICES ASSUME ~crowded'
                 PROVE  /\ ticks'.batch = 0 /\ ticks'.ready <= 1
                        /\ \A v, u \in Workers : Running(v)' /\ Running(u)' => v = u
                        /\ \A v \in Workers : Running(v)' => ticks'.ready = 0
                        /\ Outstanding' => Due'
      BY DEF Lone, Running
    <3>1. ticks.batch = 0 /\ ticks.ready <= 1 /\ Due /\ \A v \in Workers : ~Running(v)
      BY <1>1, <1>8
    <3>2. ticks'.batch = 0 /\ ticks'.ready = 0
      BY <1>2, <1>3, <1>4, <3>1
    <3>3. \A v \in Workers : Running(v)' => v = w
      BY <2>9, <3>1 DEF Running
    <3> QED BY <1>6, <3>1, <3>2, <3>3
  <2>13. WarmingKept'
    BY <1>1, <2>8, <2>11 DEF WarmInv, WarmingKept, Graduated, NobodyStuck, Rested, AskedOnly
  <2> QED BY <1>5, <2>10, <2>12, <2>13 DEF WarmInv
<1>10. CASE ~(acct.status \in {"pool", "warming"} /\ ~acct.zero /\ Awake(now))
  <2>1. UNCHANGED <<busy, unasked>>
    BY <1>10 DEF TakeTick
  <2>2. WarmTyped'
    BY <1>1, <1>4, <2>1 DEF WarmInv, WarmTyped
  <2>3. Lone'
    <3> SUFFICES ASSUME ~crowded'
                 PROVE  /\ ticks'.batch = 0 /\ ticks'.ready <= 1
                        /\ \A v, u \in Workers : Running(v)' /\ Running(u)' => v = u
                        /\ \A v \in Workers : Running(v)' => ticks'.ready = 0
                        /\ Outstanding' => Due'
      BY DEF Lone, Running
    <3>1. ticks.batch = 0 /\ ticks.ready <= 1 /\ Due /\ \A v \in Workers : ~Running(v)
      BY <1>1, <1>8
    <3>2. ticks'.batch = 0 /\ ticks'.ready = 0
      BY <1>2, <1>3, <1>4, <3>1
    <3>3. \A v \in Workers : ~Running(v)'
      BY <2>1, <3>1 DEF Running
    <3> QED BY <1>6, <3>1, <3>2, <3>3
  <2>4. NobodyStuck'
    BY <1>1, <1>10 DEF NobodyStuck, Awake
  <2>5. WarmingKept'
    BY <1>1, <2>1, <2>4 DEF WarmInv, WarmingKept, Graduated, Rested, AskedOnly
  <2> QED BY <1>5, <2>2, <2>3, <2>5 DEF WarmInv
<1> QED BY <1>9, <1>10

LEMMA NoClientKeeps ==
  ASSUME WarmingAssumption, WarmInv, NEW w \in Workers, NoClient(w)
  PROVE  WarmInv'
<1>1. /\ harm < MaxWarmingDamage /\ harm' = harm + 1 /\ Enqueue(1) /\ crowded' = TRUE
      /\ busy' = [busy EXCEPT ![w] = Resting]
      /\ UNCHANGED <<now, acct, rows, latest, good, cron, early, hurried, unasked, shaken>>
  BY DEF NoClient, Rests
<1>2. ticks \in Queues /\ ticks.ready \in Nat /\ ticks.batch \in Nat
  <2>1. ticks \in Queues
    BY DEF WarmInv, WarmTyped
  <2>2. Batch \in Nat
    BY WarmNumbers
  <2> QED BY <2>1, <2>2 DEF Queues
<1>3. ticks' \in Queues /\ ticks'.ready = ticks.ready + 1 /\ ticks'.batch = ticks.batch
  BY <1>1, <1>2, EnqueueIs
<1>4. busy' \in [Workers -> Works]
  BY <1>1, RestingIs, TaskGoesOn DEF WarmInv
<1>5. WarmTyped'
  BY SMTT(20), <1>1, <1>3, <1>4, WarmNumbers DEF WarmInv, WarmTyped
<1>6. Outstanding'
  BY <1>2, <1>3 DEF Outstanding
<1> QED BY <1>1, <1>5, <1>6, CrowdedIs

\* A tick given up leaves nothing behind: whether one is owed is asked at the next round.
LEMMA GivesUpKeeps ==
  ASSUME WarmingAssumption, WarmInv, NEW w \in Workers, GivesUp(w)
  PROVE  WarmInv'
<1>1. /\ busy[w].at = "client" /\ harm < MaxWarmingDamage /\ harm' = harm + 1 /\ shaken' = TRUE
      /\ busy' = [busy EXCEPT ![w] = Resting]
      /\ UNCHANGED <<now, acct, ticks, rows, latest, good, cron, early, crowded, hurried, unasked>>
  BY DEF GivesUp, Rests
<1>2. /\ busy' \in [Workers -> Works] /\ busy'[w] = Resting
      /\ \A v \in Workers : v # w => busy'[v] = busy[v]
  BY <1>1, RestingIs, TaskGoesOn DEF WarmInv
<1>3. WarmTyped'
  BY SMTT(20), <1>1, <1>2, WarmNumbers DEF WarmInv, WarmTyped
<1>4. Counted'
  BY <1>1 DEF WarmInv, Counted, Done
<1>5. Running(w) /\ ~Running(w)' /\ \A v \in Workers : Running(v)' => Running(v)
  BY <1>1, <1>2, RestingIs DEF Running
<1>6. (Due' <=> Due) /\ (Outstanding' => Outstanding)
  BY <1>1, <1>5 DEF Due, Outstanding
<1>7. Lone'
  <2> SUFFICES ASSUME ~crowded
               PROVE  /\ ticks.batch = 0 /\ ticks.ready <= 1
                      /\ \A v, u \in Workers : Running(v)' /\ Running(u)' => v = u
                      /\ \A v \in Workers : Running(v)' => ticks.ready = 0
                      /\ Outstanding' => Due'
    BY <1>1 DEF Lone, Running
  <2> QED BY <1>5, <1>6 DEF WarmInv, Lone
<1>8. WarmingKept'
  BY <1>1 DEF WarmInv, WarmingKept, Graduated, NobodyStuck, Rested, AskedOnly
<1> QED BY <1>3, <1>4, <1>7, <1>8 DEF WarmInv

\* A task that has its client goes on to its row; the account may cool down or be banned.
LEMMA ActedKeeps ==
  ASSUME WarmingAssumption, WarmInv, NEW w \in Workers, NEW r \in Works,
         busy[w].at = "client", r.at = "row", busy' = [busy EXCEPT ![w] = r],
         acct' \in Accts, harm' \in 0..MaxWarmingDamage,
         UNCHANGED <<now, ticks, rows, latest, good, cron, early, crowded, hurried, unasked, shaken>>
  PROVE  WarmInv'
<1>1. /\ busy' \in [Workers -> Works] /\ busy'[w] = r
      /\ \A v \in Workers : v # w => busy'[v] = busy[v]
  BY TaskGoesOn DEF WarmInv
<1>2. WarmTyped'
  BY <1>1 DEF WarmInv, WarmTyped
<1>3. Counted'
  BY DEF WarmInv, Counted, Done
<1>4. \A v \in Workers : Running(v)' <=> Running(v)
  BY <1>1 DEF Running
<1>5. Outstanding /\ Outstanding'
  BY <1>1 DEF Outstanding, Running
<1>6. Due' <=> Due
  BY DEF Due
<1>7. Lone'
  <2> SUFFICES ASSUME ~crowded
               PROVE  /\ ticks.batch = 0 /\ ticks.ready <= 1
                      /\ \A v, u \in Workers : Running(v)' /\ Running(u)' => v = u
                      /\ \A v \in Workers : Running(v)' => ticks.ready = 0
                      /\ Outstanding' => Due'
    BY DEF Lone, Running
  <2> QED BY <1>4, <1>5, <1>6 DEF WarmInv, Lone
<1>8. WarmingKept'
  BY <1>5 DEF WarmInv, WarmingKept, Graduated, NobodyStuck, Rested, AskedOnly
<1> QED BY <1>2, <1>3, <1>7, <1>8 DEF WarmInv

LEMMA ActKeeps ==
  ASSUME WarmingAssumption, WarmInv, NEW w \in Workers, NEW result \in Outcomes, Act(w, result)
  PROVE  WarmInv'
<1>1. /\ busy[w].at = "client"
      /\ busy' = [busy EXCEPT ![w].at = "row", ![w].result = result]
      /\ UNCHANGED <<now, acct, ticks, rows, latest, good, cron, early, crowded, hurried, unasked,
                     shaken, harm>>
  BY DEF Act
<1>2. PICK o \in Works : o = busy[w]
  BY DEF WarmInv, WarmTyped
<1>3. PICK r : r = [o EXCEPT !.at = "row", !.result = result]
  OBVIOUS
<1>4. r \in Works /\ r.at = "row"
  BY <1>2, <1>3 DEF Works
<1>5. busy' = [busy EXCEPT ![w] = r]
  BY <1>1, <1>2, <1>3 DEF WarmInv, WarmTyped
<1>6. acct' \in Accts /\ harm' \in 0..MaxWarmingDamage
  BY <1>1 DEF WarmInv, WarmTyped
<1> QED BY <1>1, <1>4, <1>5, <1>6, ActedKeeps

LEMMA ActBadlyKeeps ==
  ASSUME WarmingAssumption, WarmInv, NEW w \in Workers, NEW banned \in BOOLEAN, ActBadly(w, banned)
  PROVE  WarmInv'
<1>1. /\ busy[w].at = "client" /\ harm < MaxWarmingDamage /\ harm' = harm + 1
      /\ busy' = [busy EXCEPT ![w].at = "row", ![w].result = "failed"]
      /\ UNCHANGED <<now, ticks, rows, latest, good, cron, early, crowded, hurried, unasked, shaken>>
  BY DEF ActBadly
<1>2. PICK o \in Works : o = busy[w]
  BY DEF WarmInv, WarmTyped
<1>3. PICK r : r = [o EXCEPT !.at = "row", !.result = "failed"]
  OBVIOUS
<1>4. r \in Works /\ r.at = "row"
  BY <1>2, <1>3 DEF Works, Outcomes
<1>5. busy' = [busy EXCEPT ![w] = r]
  BY <1>1, <1>2, <1>3 DEF WarmInv, WarmTyped
<1>6. PICK a \in Accts : a = acct
  BY DEF WarmInv, WarmTyped
<1>7. PICK st : st = IF banned THEN "banned" ELSE IF a.status = "pool" THEN "cooldown" ELSE a.status
  OBVIOUS
<1>8. acct' = [a EXCEPT !.open = 1, !.status = st]
  BY <1>6, <1>7 DEF ActBadly
<1>9. acct' \in Accts
  <2>1. st \in {"warming", "pool", "assigned", "cooldown", "banned"}
    BY <1>6, <1>7 DEF Accts
  <2> QED BY <1>6, <1>8, <2>1 DEF Accts
<1>10. harm' \in 0..MaxWarmingDamage
  BY SMTT(20), <1>1, WarmNumbers DEF WarmInv, WarmTyped
<1> QED BY <1>1, <1>4, <1>5, <1>9, <1>10, ActedKeeps

LEMMA WriteRowKeeps ==
  ASSUME WarmingAssumption, WarmInv, NEW w \in Workers, WriteRow(w)
  PROVE  WarmInv'
<1>1. PICK o \in Works : o = busy[w]
  BY DEF WarmInv, WarmTyped
<1>2. PICK g : g = IF o.kind = "initial" /\ o.result = "done" /\ good < ReadyActions
                   THEN good + 1 ELSE good
  OBVIOUS
<1>3. PICK x : x = <<o.kind, o.result>>
  OBVIOUS
<1>4. PICK s : s = Trim(<<x>> \o rows)
  OBVIOUS
<1>5. /\ o.at = "row" /\ rows' = s /\ latest' = now /\ good' = g
      /\ hurried' = (hurried \/ (~(o.kind = "initial") /\ ~crowded /\ ~Due))
      /\ IF o.kind = "initial" /\ Ready(s)
         THEN /\ acct' = [acct EXCEPT !.status = "pool"]
              /\ early' = (early \/ acct.open > 0 \/ (g < ReadyActions /\ now < Days * Day))
         ELSE UNCHANGED <<acct, early>>
      /\ busy' = [busy EXCEPT ![w] = Resting]
      /\ UNCHANGED <<now, ticks, cron, crowded, unasked, shaken, harm>>
  BY <1>1, <1>2, <1>3, <1>4 DEF WriteRow, Rests
<1>6. x \in Entries /\ rows \in Seq(Entries)
  BY <1>1, <1>3 DEF Works, Entries, WarmInv, WarmTyped
<1>7. /\ Done(s) \in Nat /\ Done(rows) \in Nat /\ Done(s) <= Done(rows) + 1
      /\ (x # <<"initial", "done">> => Done(s) <= Done(rows))
  BY <1>4, <1>6, DoneWith
<1>8. s \in Seq(Entries) /\ Len(s) <= Keep
  <2>1. <<x>> \o rows \in Seq(Entries)
    BY <1>6
  <2> QED BY <1>4, <2>1, TrimIs
<1>9. ReadyActions \in Nat /\ good \in Nat /\ good <= ReadyActions /\ now \in Nat /\ MaxNow \in Nat
      /\ Interval \in Nat \ {0}
  BY WarmNumbers DEF WarmInv, WarmTyped
<1>10. g \in 0..ReadyActions /\ (g < ReadyActions => Done(s) <= g)
  <2>1. good < ReadyActions => Done(rows) <= good
    BY DEF WarmInv, Counted
  <2>2. x = <<"initial", "done">> => o.kind = "initial" /\ o.result = "done"
    BY <1>3
  <2> QED BY <2>1, <2>2, <1>2, <1>7, <1>9
<1>11. acct' \in Accts
  <2>1. PICK a \in Accts : a = acct
    BY DEF WarmInv, WarmTyped
  <2>2. [a EXCEPT !.status = "pool"] \in Accts
    BY <2>1 DEF Accts
  <2> QED BY <1>5, <2>1, <2>2
<1>12. /\ busy' \in [Workers -> Works] /\ busy'[w] = Resting
       /\ \A v \in Workers : v # w => busy'[v] = busy[v]
  BY <1>5, RestingIs, TaskGoesOn DEF WarmInv
<1>13. WarmTyped'
  BY <1>5, <1>8, <1>9, <1>10, <1>11, <1>12 DEF WarmInv, WarmTyped
<1>14. Counted'
  BY <1>5, <1>10 DEF Counted, Done
<1>15. ~Due'
  BY <1>5, <1>9 DEF Due, Never
<1>16. Running(w)
  BY <1>1, <1>5 DEF Running
<1>17. ~crowded => Due
  BY <1>16 DEF WarmInv, Lone, Outstanding
<1>18. ~hurried'
  <2>1. ~hurried
    BY DEF WarmInv, WarmingKept, Rested
  <2>2. hurried' = (hurried \/ (~(o.kind = "initial") /\ ~crowded /\ ~Due))
    BY <1>5
  <2> QED BY <1>17, <2>1, <2>2, Zenon
<1>19. ~early'
  <2>1. ~early
    BY DEF WarmInv, WarmingKept, Graduated
  <2>2. CASE o.kind = "initial" /\ Ready(s)
    <3>1. early' = (early \/ acct.open > 0 \/ (g < ReadyActions /\ now < Days * Day))
      BY <1>5, <2>2
    <3>2. acct.open = 0 /\ (Done(s) >= ReadyActions \/ now >= Days * Day)
      BY <2>2 DEF Ready
    <3>3. ~(acct.open > 0)
      BY <3>2
    <3>4. PICK n \in Int : n = Days * Day
      <4>1. Days \in Nat /\ Day \in Nat
        BY WarmNumbers DEF Days
      <4> QED BY <4>1
    <3>5. ~(g < ReadyActions /\ now < n)
      BY <1>7, <1>9, <1>10, <3>2, <3>4
    <3>6. ~(g < ReadyActions /\ now < Days * Day)
      BY <3>4, <3>5
    <3> QED BY <2>1, <3>1, <3>3, <3>6, Zenon
  <2>3. CASE ~(o.kind = "initial" /\ Ready(s))
    BY <1>5, <2>1, <2>3
  <2> QED BY <2>2, <2>3
<1>20. Lone'
  <2> SUFFICES ASSUME ~crowded
               PROVE  /\ ticks.batch = 0 /\ ticks.ready <= 1
                      /\ \A v, u \in Workers : Running(v)' /\ Running(u)' => v = u
                      /\ \A v \in Workers : Running(v)' => ticks.ready = 0
                      /\ ~Outstanding'
    BY <1>5 DEF Lone, Running
  <2>1. /\ ticks.batch = 0 /\ ticks.ready = 0
        /\ \A v \in Workers : Running(v) => v = w
    BY <1>16 DEF WarmInv, Lone
  <2>2. \A v \in Workers : ~Running(v)'
    BY <1>12, <2>1, RestingIs DEF Running
  <2>3. ~Outstanding'
    BY <1>5, <2>1, <2>2 DEF Outstanding
  <2> QED BY <2>1, <2>2, <2>3
<1>21. WarmingKept'
  BY <1>5, <1>15, <1>18, <1>19 DEF WarmInv, WarmingKept, Graduated, NobodyStuck, Rested, AskedOnly
<1> QED BY <1>13, <1>14, <1>20, <1>21 DEF WarmInv

LEMMA WarmingDiesKeeps ==
  ASSUME WarmingAssumption, WarmInv, WarmingDies
  PROVE  WarmInv'
<1>1. PICK U : U = {w \in Workers : Running(w)}
  OBVIOUS
<1>2. PICK again \in SUBSET U : /\ Enqueue(Cardinality(again))
                               /\ shaken' = (shaken \/ again # U)
  BY <1>1 DEF WarmingDies
<1>3. /\ harm < MaxWarmingDamage /\ harm' = harm + 1 /\ U # {}
      /\ busy' = [w \in Workers |-> Resting] /\ crowded' = TRUE
      /\ UNCHANGED <<now, acct, rows, latest, good, cron, early, hurried, unasked>>
  BY <1>1 DEF WarmingDies
<1>4. IsFiniteSet(again)
  <2>1. IsFiniteSet(Workers) /\ again \in SUBSET Workers
    BY <1>1, <1>2, WarmNumbers
  <2> QED BY <2>1, FS_Subset
<1>5. PICK n \in Nat : n = Cardinality(again)
  BY <1>4, FS_CardinalityType
<1>6. again = U => n # 0
  BY <1>3, <1>4, <1>5, FS_EmptySet
<1>7. ticks \in Queues /\ ticks.ready \in Nat /\ ticks.batch \in Nat
  <2>1. ticks \in Queues
    BY DEF WarmInv, WarmTyped
  <2>2. Batch \in Nat
    BY WarmNumbers
  <2> QED BY <2>1, <2>2 DEF Queues
<1>8. ticks' \in Queues /\ ticks'.ready = ticks.ready + n /\ ticks'.batch = ticks.batch
  BY <1>2, <1>5, <1>7, EnqueueIs
<1>9. busy' \in [Workers -> Works]
  BY <1>3, RestingIs
<1>10. WarmTyped'
  BY SMTT(20), <1>2, <1>3, <1>8, <1>9, WarmNumbers DEF WarmInv, WarmTyped
<1>11. Outstanding' \/ shaken'
  <2>1. CASE again = U
    BY <1>6, <1>7, <1>8, <2>1 DEF Outstanding
  <2>2. CASE again # U
    BY <1>2, <2>2, Zenon
  <2> QED BY <2>1, <2>2
<1> QED BY <1>3, <1>10, <1>11, CrowdedIs

LEMMA ElsewhereKeeps ==
  ASSUME WarmingAssumption, WarmInv, Elsewhere
  PROVE  WarmInv'
<1>1. /\ harm < MaxWarmingDamage /\ harm' = harm + 1
      /\ UNCHANGED <<now, ticks, busy, rows, latest, good, cron, early, crowded, hurried, unasked>>
  BY DEF Elsewhere
<1>2. PICK a \in Accts : a = acct
  BY DEF WarmInv, WarmTyped
<1>3. /\ acct' \in Accts
      /\ \/ shaken' = TRUE
         \/ /\ UNCHANGED shaken
            /\ acct'.status = "warming" => acct.status = "warming" /\ acct.zero = acct'.zero
  <2>1. CASE acct' = [acct EXCEPT !.zero = ~acct.zero] /\ shaken' = TRUE
    <3>1. PICK z \in BOOLEAN : z = ~a.zero
      OBVIOUS
    <3>2. acct' = [a EXCEPT !.zero = z]
      BY <2>1, <1>2, <3>1
    <3> QED BY <1>2, <2>1, <3>1, <3>2 DEF Accts
  <2>2. CASE UNCHANGED shaken /\ acct' = [acct EXCEPT !.open = 0]
    BY <1>2, <2>2 DEF Accts
  <2>3. CASE UNCHANGED shaken /\ acct' = [acct EXCEPT !.status = "assigned"]
    BY <1>2, <2>3 DEF Accts
  <2>4. CASE UNCHANGED shaken /\ acct' = [acct EXCEPT !.status = "pool"]
    BY <1>2, <2>4 DEF Accts
  <2> QED BY <2>1, <2>2, <2>3, <2>4 DEF Elsewhere
<1>4. WarmTyped'
  BY SMTT(20), <1>1, <1>3, WarmNumbers DEF WarmInv, WarmTyped
<1>5. Counted'
  BY <1>1 DEF WarmInv, Counted, Done
<1>6. (Outstanding' <=> Outstanding) /\ (Due' <=> Due)
  BY <1>1 DEF Outstanding, Running, Due
<1>7. Lone'
  BY <1>1, <1>6 DEF WarmInv, Lone, Running
<1>8. NobodyStuck'
  BY <1>1, <1>3, <1>6 DEF WarmInv, WarmingKept, NobodyStuck, Awake
<1>9. WarmingKept'
  BY <1>1, <1>8 DEF WarmInv, WarmingKept, Graduated, Rested, AskedOnly
<1> QED BY <1>4, <1>5, <1>7, <1>9 DEF WarmInv
-----------------------------------------------------------------------------
LEMMA WarmInitInv ==
  ASSUME WarmingAssumption, WarmInit
  PROVE  WarmInv
<1>1. WarmTyped
  <2>1. acct \in Accts
    BY DEF WarmInit, Accts
  <2>2. ticks \in Queues
    BY WarmNumbers DEF WarmInit, Queues, Never
  <2>3. busy \in [Workers -> Works]
    BY RestingIs DEF WarmInit
  <2>4. rows \in Seq(Entries) /\ Len(rows) <= Keep
    BY WarmNumbers DEF WarmInit
  <2>5. latest \in Int /\ now \in 0..MaxNow /\ harm \in 0..MaxWarmingDamage
        /\ good \in 0..ReadyActions
    BY WarmNumbers DEF WarmInit, Never
  <2> QED BY <2>1, <2>2, <2>3, <2>4, <2>5 DEF WarmTyped
<1>2. Counted
  <2>1. rows = <<>> /\ <<>> \in Seq(Entries)
    BY DEF WarmInit
  <2>2. Told_(<<>>) = {}
    BY DEF Told_
  <2>3. Done(<<>>) = 0
    BY <2>1, <2>2, ToldFinite, FS_EmptySet
  <2> QED BY <2>1, <2>3 DEF WarmInit, Counted
<1>3. ~Outstanding
  BY RestingIs DEF WarmInit, Outstanding, Running
<1>4. Lone
  BY <1>3, RestingIs DEF WarmInit, Lone, Running
<1>5. WarmingKept
  BY DEF WarmInit, WarmingKept, Graduated, NobodyStuck, Rested, AskedOnly
<1> QED BY <1>1, <1>2, <1>4, <1>5 DEF WarmInv

LEMMA WarmStutter ==
  ASSUME WarmInv, UNCHANGED warmVars
  PROVE  WarmInv'
<1>1. UNCHANGED <<now, acct, ticks, busy, rows, latest, good, cron, early, crowded, hurried,
                  unasked, shaken, harm>>
  BY DEF warmVars
<1>2. (Outstanding' <=> Outstanding) /\ (Due' <=> Due)
  BY <1>1 DEF Outstanding, Running, Due
<1>3. WarmTyped' /\ Counted'
  BY <1>1 DEF WarmInv, WarmTyped, Counted, Done
<1>4. Lone'
  BY <1>1, <1>2 DEF WarmInv, Lone, Running
<1>5. WarmingKept'
  BY <1>1, <1>2 DEF WarmInv, WarmingKept, Graduated, NobodyStuck, Rested, AskedOnly, Awake
<1> QED BY <1>3, <1>4, <1>5 DEF WarmInv

LEMMA WarmNextKeeps ==
  ASSUME WarmingAssumption, WarmInv, WarmNext
  PROVE  WarmInv'
  BY LaterKeeps, InitialStartKeeps, SchedulerKeeps, WarmingDiesKeeps, ElsewhereKeeps,
     TakeTickKeeps, NoClientKeeps, GivesUpKeeps, WriteRowKeeps, ActKeeps, ActBadlyKeeps DEF WarmNext

LEMMA WarmStep ==
  ASSUME WarmingAssumption, WarmInv, [WarmNext]_warmVars
  PROVE  WarmInv'
  BY WarmNextKeeps, WarmStutter

LEMMA WarmHolds ==
  ASSUME WarmInv
  PROVE  WarmTypeOK /\ WarmingKept
  BY DEF WarmInv, WarmTyped, WarmTypeOK, Accts, Queues, Works, Entries

\* Warming: an account leaves the warming for the pool with its actions done or its days over and
\* no incident open; each round of the cron job finds or leaves it a tick if it is due, whatever
\* died or was given up before; it rests between two actions, and joins or changes its profile
\* only where the scenario or the setting asks for it.
THEOREM WarmingIsKept == ASSUME WarmingAssumption PROVE WarmSpec => [](WarmTypeOK /\ WarmingKept)
<1>1. WarmInit => WarmInv
  BY WarmInitInv
<1>2. WarmInv /\ [WarmNext]_warmVars => WarmInv'
  BY WarmStep
<1>3. WarmInv => WarmTypeOK /\ WarmingKept
  BY WarmHolds
<1> QED BY <1>1, <1>2, <1>3, PTL DEF WarmSpec

-----------------------------------------------------------------------------
(* Triggers *)
AccountRows == [state: States, until: Nat, floods: Nat, total: Nat, today: Nat]
Runs == [at: {"off", "queued", "resolve", "call", "store"}, goal: Goals \cup {NoGoal},
         action: TriggerActions \cup {NoGoal}, dry: BOOLEAN, outcome: Endings \cup {""}, wait: Nat]
LogRows == [goal: Goals, action: TriggerActions, dry: BOOLEAN, outcome: Endings]
GoalStates == {"pending", "assigned", "primed", "skipped", "failed"}

TriggerTyped ==
    /\ clock \in 0..MaxClock /\ dry \in BOOLEAN /\ account \in AccountRows
    /\ goal \in [Goals -> GoalStates] /\ prime \in Runs /\ beats \in 0..MaxBeats
    /\ log \in Seq(LogRows)

\* A run has an account and a target of its own, has the trigger whose turn it is, and says
\* primed only of what was applied or was dry.
RunFits(p, acc, goals, done) ==
    /\ p.at # "off" => acc.state = "working" /\ p.goal \in Goals /\ goals[p.goal] = "assigned"
    /\ p.at \notin {"off", "queued"} => p.action = Rotation[(acc.total % Len(Rotation)) + 1]
    /\ p.at = "store" => /\ p.outcome \in Endings
                         /\ p.outcome = "primed" /\ ~p.dry =>
                                [goal |-> p.goal, action |-> p.action] \in done

\* The places of the log that say primed.
PrimedIn(entries) == {n \in DOMAIN entries : entries[n].outcome = "primed"}

\* The row of the account is told by the log.
RowIsTold ==
    /\ account.total = Len(log)
    /\ account.today = Cardinality(PrimedIn(log))
    /\ RunOver /\ log # <<>> => (account.state = "idle" <=> Last # "flood_wait")

TriggerInv ==
    TriggerTyped /\ RunFits(prime, account, goal, applied) /\ RowIsTold /\ TriggersKept
-----------------------------------------------------------------------------
LEMMA TurnIs ==
  ASSUME TriggersAssumption, NEW n \in Nat
  PROVE  Rotation[(n % Len(Rotation)) + 1] \in TriggerActions
<1>1. Rotation \in Seq(TriggerActions) /\ Len(Rotation) \in Nat /\ Len(Rotation) > 0
  BY DEF TriggersAssumption
<1>2. n % Len(Rotation) \in 0..(Len(Rotation) - 1)
  BY <1>1
<1>3. (n % Len(Rotation)) + 1 \in 1..Len(Rotation)
  BY <1>1, <1>2
<1> QED BY <1>1, <1>3

LEMMA TurnNow ==
  ASSUME TriggersAssumption, TriggerInv
  PROVE  Turn \in TriggerActions /\ Turn = Rotation[(account.total % Len(Rotation)) + 1]
<1>1. account.total \in Nat
  BY DEF TriggerInv, TriggerTyped, AccountRows
<1> QED BY <1>1, TurnIs DEF Turn

LEMMA PrimedFinite ==
  ASSUME NEW l \in Seq(LogRows)
  PROVE  IsFiniteSet(PrimedIn(l)) /\ Cardinality(PrimedIn(l)) \in Nat
<1>1. DOMAIN l = 1..Len(l) /\ Len(l) \in Int
  OBVIOUS
<1>2. IsFiniteSet(1..Len(l))
  BY <1>1, FS_Interval
<1>3. PrimedIn(l) \in SUBSET (1..Len(l))
  BY <1>1 DEF PrimedIn
<1> QED BY <1>2, <1>3, FS_Subset, FS_CardinalityType

LEMMA PrimedWith ==
  ASSUME NEW l \in Seq(LogRows), NEW e \in LogRows
  PROVE  Cardinality(PrimedIn(Append(l, e))) =
             IF e.outcome = "primed" THEN Cardinality(PrimedIn(l)) + 1 ELSE Cardinality(PrimedIn(l))
<1>1. /\ DOMAIN l = 1..Len(l) /\ Len(l) \in Nat /\ DOMAIN Append(l, e) = 1..(Len(l) + 1)
      /\ Append(l, e)[Len(l) + 1] = e /\ \A i \in 1..Len(l) : Append(l, e)[i] = l[i]
  OBVIOUS
<1>2. IsFiniteSet(PrimedIn(l)) /\ Len(l) + 1 \notin PrimedIn(l)
  BY <1>1, PrimedFinite DEF PrimedIn
<1>3. CASE e.outcome = "primed"
  <2>1. PrimedIn(Append(l, e)) = PrimedIn(l) \cup {Len(l) + 1}
    BY <1>1, <1>3 DEF PrimedIn
  <2>2. Cardinality(PrimedIn(l) \cup {Len(l) + 1}) = Cardinality(PrimedIn(l)) + 1
    BY <1>2, FS_AddElement
  <2> QED BY <1>3, <2>1, <2>2
<1>4. CASE e.outcome # "primed"
  <2>1. PrimedIn(Append(l, e)) = PrimedIn(l)
    BY <1>1, <1>4 DEF PrimedIn
  <2> QED BY <1>4, <2>1
<1> QED BY <1>3, <1>4
-----------------------------------------------------------------------------
\* The log, the account and the targets stay, and nothing that was applied is undone.
LEMMA RunGoesOn ==
  ASSUME TriggersAssumption, TriggerInv, prime' \in Runs, clock' \in 0..MaxClock,
         dry' \in BOOLEAN, beats' \in 0..MaxBeats, UNCHANGED <<account, goal, log>>,
         applied \subseteq applied', RunFits(prime', account, goal, applied'),
         prime.at # "off" \/ prime' = prime
  PROVE  TriggerInv'
<1>1. TriggerTyped'
  BY DEF TriggerInv, TriggerTyped
<1>2. RunFits(prime, account, goal, applied)'
  BY DEF RunFits
<1>3. RunOver' => RunOver
  BY DEF RunOver, TriggerInv, RunFits
<1>4. RowIsTold'
  BY <1>3 DEF TriggerInv, RowIsTold, PrimedIn, Last
<1>5. PrimedIsApplied'
  BY DEF TriggerInv, TriggersKept, PrimedIsApplied
<1>6. TriggersTakeTurns'
  BY DEF TriggerInv, TriggersKept, TriggersTakeTurns
<1> QED BY <1>1, <1>2, <1>4, <1>5, <1>6 DEF TriggerInv, TriggersKept

LEMMA OffIs ==
  Off \in Runs /\ Off.at = "off"
  BY DEF Off, Runs

\* What reads the row and the campaign has the turn.
LEMMA ReadIs ==
  ASSUME TriggersAssumption, TriggerInv, prime.at = "queued",
         NEW at \in {"resolve", "store"}, NEW outcome \in Endings \cup {""}, NEW wait \in Nat,
         Read(at, outcome, wait), at = "store" => outcome \in Endings,
         outcome = "primed" => dry, applied' = applied
  PROVE  prime' \in Runs /\ RunFits(prime', account, goal, applied')
<1>1. PICK p \in Runs : p = prime
  BY DEF TriggerInv, TriggerTyped
<1>2. PICK d \in BOOLEAN : d = dry
  BY DEF TriggerInv, TriggerTyped
<1>3. PICK t \in TriggerActions : t = Turn
  BY TurnNow
<1>4. prime' = [p EXCEPT !.at = at, !.action = t, !.dry = d, !.outcome = outcome, !.wait = wait]
  BY <1>1, <1>2, <1>3 DEF Read
<1>5. /\ prime' \in Runs /\ prime'.at = at /\ prime'.goal = p.goal /\ prime'.action = t
      /\ prime'.dry = d /\ prime'.outcome = outcome
  BY <1>1, <1>4 DEF Runs
<1>6. account.state = "working" /\ p.goal \in Goals /\ goal[p.goal] = "assigned"
  BY <1>1 DEF TriggerInv, RunFits
<1>7. ASSUME outcome = "primed" PROVE prime'.dry
  <2>1. d
    BY <1>2, <1>7, Zenon
  <2> QED BY <1>5, <2>1
<1> QED BY <1>3, <1>5, <1>6, <1>7, TurnNow DEF RunFits

LEMMA PassKeeps ==
  ASSUME TriggersAssumption, TriggerInv, Pass
  PROVE  TriggerInv'
<1>1. clock' \in 0..MaxClock
  BY DEF Pass, TriggerInv, TriggerTyped, TriggersAssumption
<1> QED BY <1>1, RunGoesOn DEF Pass, TriggerInv, TriggerTyped

LEMMA SwitchDryKeeps ==
  ASSUME TriggersAssumption, TriggerInv, SwitchDry
  PROVE  TriggerInv'
<1>1. dry' \in BOOLEAN
  BY Zenon DEF SwitchDry
<1> QED BY <1>1, RunGoesOn DEF SwitchDry, TriggerInv, TriggerTyped

\* A run that is read, resolved, called or lost.
LEMMA StepKeeps ==
  ASSUME TriggersAssumption, TriggerInv, prime.at # "off", prime' \in Runs,
         RunFits(prime', account, goal, applied'), applied \subseteq applied',
         UNCHANGED <<clock, dry, account, goal, beat, beats, log>>
  PROVE  TriggerInv'
  BY RunGoesOn DEF TriggerInv, TriggerTyped

LEMMA ReadsKeep ==
  ASSUME TriggersAssumption, TriggerInv, OutOfHours \/ Draw \/ Admitted \/ Held
  PROVE  TriggerInv'
<1>1. prime.at = "queued" /\ UNCHANGED <<clock, dry, account, goal, beat, beats, log, applied>>
  BY DEF OutOfHours, Draw, Admitted, Held
<1>2. prime' \in Runs /\ RunFits(prime', account, goal, applied')
  <2>1. CASE OutOfHours
    <3>1. "skipped_quiet" \in Endings /\ 0 \in Nat
      BY DEF Endings
    <3> QED BY <1>1, <2>1, <3>1, ReadIs DEF OutOfHours
  <2>2. CASE Draw
    <3>1. PICK outcome \in {"primed", "privacy", "flood_wait", "deleted"}, w \in Waits :
              Read("store", outcome, IF outcome = "flood_wait" THEN w ELSE 0)
      BY <2>2 DEF Draw
    <3>2. outcome \in Endings /\ (IF outcome = "flood_wait" THEN w ELSE 0) \in Nat
      BY DEF Endings, Mapped, TriggersAssumption
    <3>3. dry
      BY <2>2 DEF Draw
    <3> QED BY <1>1, <3>1, <3>2, <3>3, ReadIs
  <2>3. CASE Admitted
    BY <1>1, <2>3, ReadIs DEF Admitted
  <2>4. CASE Held
    <3>1. PICK outcome \in {"flood_wait", "internal_error"} : Read("store", outcome, 0)
      BY <2>4 DEF Held
    <3>2. outcome \in Endings /\ outcome # "primed"
      BY DEF Endings, Mapped
    <3> QED BY <1>1, <3>1, <3>2, ReadIs
  <2> QED BY <2>1, <2>2, <2>3, <2>4
<1> QED BY <1>1, <1>2, StepKeeps

LEMMA LostKeeps ==
  ASSUME TriggersAssumption, TriggerInv, Lost \/ Raises
  PROVE  TriggerInv'
<1>1. prime.at # "off" /\ prime' = Off
      /\ UNCHANGED <<clock, dry, account, goal, beat, beats, log, applied>>
  BY DEF Lost, Raises
<1>2. RunFits(prime', account, goal, applied')
  BY <1>1, OffIs DEF RunFits
<1> QED BY <1>1, <1>2, OffIs, StepKeeps

\* A run that ends keeps its target and its turn.
LEMMA EndsIs ==
  ASSUME TriggersAssumption, TriggerInv, prime.at \in {"resolve", "call"}, NEW outcome \in Endings,
         NEW wait \in Nat, Ends(outcome, wait),
         outcome = "primed" => [goal |-> prime.goal, action |-> prime.action] \in applied'
  PROVE  prime' \in Runs /\ RunFits(prime', account, goal, applied')
<1>1. PICK p \in Runs : p = prime
  BY DEF TriggerInv, TriggerTyped
<1>2. prime' = [p EXCEPT !.at = "store", !.outcome = outcome, !.wait = wait]
  BY <1>1 DEF Ends
<1>3. /\ prime' \in Runs /\ prime'.at = "store" /\ prime'.goal = p.goal
      /\ prime'.action = p.action /\ prime'.outcome = outcome
  BY <1>1, <1>2 DEF Runs
<1>4. /\ account.state = "working" /\ p.goal \in Goals /\ goal[p.goal] = "assigned"
      /\ p.action = Rotation[(account.total % Len(Rotation)) + 1]
  BY <1>1 DEF TriggerInv, RunFits
<1> QED BY <1>1, <1>3, <1>4 DEF RunFits

LEMMA ResolveKeeps ==
  ASSUME TriggersAssumption, TriggerInv, Resolve
  PROVE  TriggerInv'
<1>1. prime.at = "resolve" /\ UNCHANGED <<clock, dry, account, goal, beat, beats, log, applied>>
  BY DEF Resolve
<1>2. prime' \in Runs /\ RunFits(prime', account, goal, applied')
  <2>1. CASE prime' = [prime EXCEPT !.at = "call"]
    <3>1. PICK p \in Runs : p = prime
      BY DEF TriggerInv, TriggerTyped
    <3>2. prime' \in Runs /\ prime'.at = "call" /\ prime'.goal = p.goal /\ prime'.action = p.action
      BY <2>1, <3>1 DEF Runs
    <3>3. /\ account.state = "working" /\ p.goal \in Goals /\ goal[p.goal] = "assigned"
          /\ p.action = Rotation[(account.total % Len(Rotation)) + 1]
      BY <1>1, <3>1 DEF TriggerInv, RunFits
    <3> QED BY <3>2, <3>3 DEF RunFits
  <2>2. CASE \E outcome \in Mapped : Ends(outcome, 0)
    <3>1. PICK outcome \in Mapped : Ends(outcome, 0)
      BY <2>2
    <3>2. outcome \in Endings /\ outcome # "primed"
      BY DEF Endings, Mapped
    <3> QED BY <1>1, <3>1, <3>2, EndsIs
  <2> QED BY <2>1, <2>2 DEF Resolve
<1> QED BY <1>1, <1>2, StepKeeps

LEMMA CallKeeps ==
  ASSUME TriggersAssumption, TriggerInv, Call
  PROVE  TriggerInv'
<1>1. prime.at = "call" /\ UNCHANGED <<clock, dry, account, goal, beat, beats, log>>
  BY DEF Call
<1>2. /\ applied \subseteq applied'
      /\ prime' \in Runs /\ RunFits(prime', account, goal, applied')
  <2>1. CASE Ends("primed", 0) /\ Apply
    <3>1. "primed" \in Endings
      BY DEF Endings
    <3>2. applied \subseteq applied' /\ [goal |-> prime.goal, action |-> prime.action] \in applied'
      BY <2>1 DEF Apply
    <3> QED BY <1>1, <2>1, <3>1, <3>2, EndsIs
  <2>2. CASE \E w \in Waits : Ends("flood_wait", w) /\ UNCHANGED applied
    <3>1. PICK w \in Waits : Ends("flood_wait", w) /\ UNCHANGED applied
      BY <2>2
    <3>2. w \in Nat /\ "flood_wait" \in Endings
      BY DEF Endings, TriggersAssumption
    <3> QED BY <1>1, <3>1, <3>2, EndsIs
  <2>3. CASE \E outcome \in Mapped : Refused(outcome) /\ UNCHANGED applied
    <3>1. PICK outcome \in Mapped : Ends(outcome, 0) /\ UNCHANGED applied
      BY <2>3 DEF Refused
    <3>2. outcome \in Endings /\ outcome # "primed"
      BY DEF Endings, Mapped
    <3> QED BY <1>1, <3>1, <3>2, EndsIs
  <2>4. CASE Ends("internal_error", 0) /\ Apply
    <3>1. "internal_error" \in Endings
      BY DEF Endings, Mapped
    <3>2. applied \subseteq applied'
      BY <2>4 DEF Apply
    <3> QED BY <1>1, <2>4, <3>1, <3>2, EndsIs
  <2> QED BY <2>1, <2>2, <2>3, <2>4 DEF Call
<1> QED BY <1>1, <1>2, StepKeeps

LEMMA PairKeeps ==
  ASSUME TriggersAssumption, TriggerInv, NEW t \in Goals, Pair(t)
  PROVE  TriggerInv'
<1>1. /\ account.state = "idle" /\ prime.at = "off" /\ goal[t] = "pending"
      /\ account' = [account EXCEPT !.state = "working"]
      /\ goal' = [goal EXCEPT ![t] = "assigned"]
      /\ prime' = [Off EXCEPT !.at = "queued", !.goal = t]
      /\ UNCHANGED <<clock, dry, beat, beats, log, applied>>
  BY DEF Pair
<1>2. PICK a \in AccountRows : a = account
  BY DEF TriggerInv, TriggerTyped
<1>3. /\ account' \in AccountRows /\ account'.state = "working" /\ account'.total = account.total
      /\ account'.today = account.today
  BY <1>1, <1>2 DEF AccountRows, States
<1>4. goal' \in [Goals -> GoalStates] /\ goal'[t] = "assigned"
      /\ \A u \in Goals : goal'[u] = "primed" => goal[u] = "primed"
  BY <1>1 DEF TriggerInv, TriggerTyped, GoalStates
<1>5. prime' \in Runs /\ prime'.at = "queued" /\ prime'.goal = t
  BY <1>1 DEF Off, Runs
<1>6. TriggerTyped'
  BY <1>1, <1>3, <1>4, <1>5 DEF TriggerInv, TriggerTyped
<1>7. RunFits(prime, account, goal, applied)'
  BY <1>3, <1>4, <1>5 DEF RunFits
<1>8. RowIsTold'
  BY <1>1, <1>3, <1>5 DEF TriggerInv, RowIsTold, RunOver, PrimedIn
<1>9. TriggersKept'
  BY <1>1, <1>4 DEF TriggerInv, TriggersKept, PrimedIsApplied, TriggersTakeTurns
<1> QED BY <1>6, <1>7, <1>8, <1>9 DEF TriggerInv

\* The row after the attempt counts it, and rests after a flood.
LEMMA ReleasedIs ==
  ASSUME TriggersAssumption, TriggerInv, prime.at = "store"
  PROVE  /\ Released(account) \in AccountRows
         /\ Released(account).total = account.total + 1
         /\ Released(account).today =
                IF prime.outcome = "primed" THEN account.today + 1 ELSE account.today
         /\ Released(account).state \in {"idle", "quarantined", "cooldown"}
         /\ Released(account).state = "idle" <=> prime.outcome # "flood_wait"
<1>1. PICK a \in AccountRows : a = account
  BY DEF TriggerInv, TriggerTyped
<1>2. PICK r : r = Released(account)
  OBVIOUS
<1>3. a.total + 1 \in Nat /\ a.today + 1 \in Nat /\ a.floods + 1 \in Nat
  BY DEF AccountRows
<1>4. CASE prime.outcome = "primed"
  <2>1. r = [a EXCEPT !.total = a.total + 1, !.today = a.today + 1, !.floods = 0, !.state = "idle"]
    BY <1>1, <1>2, <1>4 DEF Released
  <2>2. /\ r.total = a.total + 1 /\ r.today = a.today + 1 /\ r.state = "idle"
        /\ r \in AccountRows
    BY <1>3, <2>1 DEF AccountRows, States
  <2> QED BY <1>1, <1>2, <1>4, <2>2
<1>5. CASE prime.outcome = "flood_wait"
  <2>1. PICK n \in Nat : n = clock + Rest
    <3>1. prime \in Runs
      BY DEF TriggerInv, TriggerTyped
    <3>2. prime.wait \in Nat
      BY <3>1 DEF Runs
    <3>3. Pause \in Nat /\ clock \in Nat
      BY DEF TriggerInv, TriggerTyped, TriggersAssumption
    <3> QED BY <3>2, <3>3 DEF Rest
  <2>2. PICK st : st = IF a.floods + 1 >= MaxFloods THEN "quarantined" ELSE "cooldown"
    OBVIOUS
  <2>3. r = [a EXCEPT !.total = a.total + 1, !.floods = a.floods + 1, !.until = n, !.state = st]
    BY <1>1, <1>2, <1>5, <2>1, <2>2 DEF Released
  <2>4. st \in {"quarantined", "cooldown"}
    BY <2>2
  <2>5. /\ r.total = a.total + 1 /\ r.today = a.today /\ r.state = st
        /\ r \in AccountRows
    BY <1>3, <2>1, <2>3, <2>4 DEF AccountRows, States
  <2> QED BY <1>1, <1>2, <1>5, <2>4, <2>5
<1>6. CASE prime.outcome \notin {"primed", "flood_wait"}
  <2>1. r = [a EXCEPT !.total = a.total + 1, !.state = "idle"]
    BY <1>1, <1>2, <1>6 DEF Released, GivenBack
  <2>2. /\ r.total = a.total + 1 /\ r.today = a.today /\ r.state = "idle"
        /\ r \in AccountRows
    BY <1>3, <2>1 DEF AccountRows, States
  <2> QED BY <1>1, <1>2, <1>6, <2>2
<1> QED BY <1>4, <1>5, <1>6

LEMMA LogKeeps ==
  ASSUME TriggersAssumption, TriggerInv, Store
  PROVE  TriggerInv'
<1>1. PICK e : e = [goal |-> prime.goal, action |-> prime.action, dry |-> prime.dry,
                    outcome |-> prime.outcome]
  OBVIOUS
<1>2. /\ prime.at = "store" /\ log' = Append(log, e) /\ account' = Released(account)
      /\ goal' = Marked /\ prime' = Off /\ UNCHANGED <<clock, dry, beat, beats, applied>>
  BY <1>1 DEF Store, DryOfRun
<1>3. PICK p \in Runs : p = prime
  BY DEF TriggerInv, TriggerTyped
<1>4. account.total \in Nat /\ log \in Seq(LogRows) /\ goal \in [Goals -> GoalStates]
  BY DEF TriggerInv, TriggerTyped, AccountRows
<1>5. /\ account.state = "working" /\ p.goal \in Goals /\ goal[p.goal] = "assigned"
      /\ p.action = Rotation[(account.total % Len(Rotation)) + 1] /\ p.outcome \in Endings
      /\ (p.outcome = "primed" /\ ~p.dry => [goal |-> p.goal, action |-> p.action] \in applied)
  BY <1>2, <1>3 DEF TriggerInv, RunFits
<1>6. e \in LogRows /\ e.goal = p.goal /\ e.action = p.action /\ e.dry = p.dry
      /\ e.outcome = p.outcome
  <2>1. p.action \in TriggerActions
    BY <1>4, <1>5, TurnIs
  <2> QED BY <1>1, <1>3, <1>5, <2>1 DEF LogRows, Runs
<1>7. /\ log' \in Seq(LogRows) /\ Len(log') = Len(log) + 1 /\ log'[Len(log) + 1] = e
      /\ \A n \in 1..Len(log) : log'[n] = log[n]
      /\ DOMAIN log = 1..Len(log) /\ DOMAIN log' = 1..(Len(log) + 1) /\ Len(log) \in Nat
  BY <1>2, <1>4, <1>6
<1>8. /\ account' \in AccountRows /\ account'.total = account.total + 1
      /\ account'.today = (IF p.outcome = "primed" THEN account.today + 1 ELSE account.today)
      /\ account'.state \in {"idle", "quarantined", "cooldown"}
      /\ (account'.state = "idle" <=> p.outcome # "flood_wait")
  BY <1>2, <1>3, ReleasedIs
<1>9. PICK st : st = StatusAfter(p.outcome, goal[p.goal])
  OBVIOUS
<1>10. st \in GoalStates /\ (st = "primed" => p.outcome = "primed")
  BY <1>5, <1>9 DEF StatusAfter, GoalStates
<1>11. goal' = [goal EXCEPT ![p.goal] = st]
  BY <1>2, <1>3, <1>9 DEF Marked
<1>12. goal' \in [Goals -> GoalStates] /\ \A t \in Goals : goal'[t] = IF t = p.goal THEN st ELSE goal[t]
  BY <1>4, <1>10, <1>11
<1>13. TriggerTyped'
  BY <1>2, <1>7, <1>8, <1>12, OffIs DEF TriggerInv, TriggerTyped
<1>14. RunFits(prime, account, goal, applied)'
  BY <1>2, OffIs DEF RunFits
<1>15. RowIsTold'
  <2>1. account.total = Len(log) /\ account.today = Cardinality(PrimedIn(log))
    BY DEF TriggerInv, RowIsTold
  <2>2. account'.total = Len(log')
    BY <1>7, <1>8, <2>1
  <2>3. Cardinality(PrimedIn(log')) = IF p.outcome = "primed" THEN account.today + 1 ELSE account.today
    BY <1>2, <1>4, <1>6, <2>1, PrimedWith
  <2>4. account'.today = Cardinality(PrimedIn(log'))
    BY <1>8, <2>3
  <2>5. log'[Len(log')].outcome = p.outcome
    BY <1>6, <1>7
  <2>6. Last' = p.outcome
    BY <2>5 DEF Last
  <2> QED BY <1>8, <2>2, <2>4, <2>6 DEF RowIsTold, PrimedIn
<1>16. PrimedIsApplied'
  <2>1. \A n \in DOMAIN log' : log'[n].outcome = "primed" /\ ~log'[n].dry =>
            [goal |-> log'[n].goal, action |-> log'[n].action] \in applied
    <3> SUFFICES ASSUME NEW n \in DOMAIN log', log'[n].outcome = "primed", ~log'[n].dry
                 PROVE  [goal |-> log'[n].goal, action |-> log'[n].action] \in applied
      OBVIOUS
    <3>1. CASE n \in DOMAIN log
      BY <3>1, <1>7 DEF TriggerInv, TriggersKept, PrimedIsApplied
    <3>2. CASE n = Len(log) + 1
      BY <3>2, <1>5, <1>6, <1>7
    <3> QED BY <3>1, <3>2, <1>7
  <2>2. \A t \in Goals : goal'[t] = "primed" =>
            \E n \in DOMAIN log' : log'[n].goal = t /\ log'[n].outcome = "primed"
    <3> SUFFICES ASSUME NEW t \in Goals, goal'[t] = "primed"
                 PROVE  \E n \in DOMAIN log' : log'[n].goal = t /\ log'[n].outcome = "primed"
      OBVIOUS
    <3>1. CASE t = p.goal
      <4>1. p.outcome = "primed" /\ Len(log) + 1 \in DOMAIN log'
        BY <3>1, <1>7, <1>10, <1>12
      <4> QED BY <3>1, <4>1, <1>6, <1>7
    <3>2. CASE t # p.goal
      <4>1. goal[t] = "primed"
        BY <3>2, <1>12
      <4>2. PICK n \in DOMAIN log : log[n].goal = t /\ log[n].outcome = "primed"
        BY <4>1 DEF TriggerInv, TriggersKept, PrimedIsApplied
      <4>3. n \in DOMAIN log' /\ log'[n] = log[n]
        BY <1>7
      <4> QED BY <4>2, <4>3
    <3> QED BY <3>1, <3>2
  <2> QED BY <1>2, <2>1, <2>2 DEF PrimedIsApplied
<1>17. TriggersTakeTurns'
  <2> SUFFICES ASSUME NEW n \in DOMAIN log'
               PROVE  log'[n].action = Rotation[((n - 1) % Len(Rotation)) + 1]
    BY DEF TriggersTakeTurns
  <2>1. CASE n \in DOMAIN log
    BY <2>1, <1>7 DEF TriggerInv, TriggersKept, TriggersTakeTurns
  <2>2. CASE n = Len(log) + 1
    <3>1. n - 1 = account.total
      BY <2>2, <1>7 DEF TriggerInv, RowIsTold
    <3> QED BY <2>2, <3>1, <1>5, <1>6, <1>7
  <2> QED BY <2>1, <2>2, <1>7
<1> QED BY <1>13, <1>14, <1>15, <1>16, <1>17 DEF TriggerInv, TriggersKept

LEMMA BeatKeeps ==
  ASSUME TriggersAssumption, TriggerInv, LookAt \/ Reads \/ BeatEnds
  PROVE  TriggerInv'
<1>1. beats' \in 0..MaxBeats /\ UNCHANGED <<clock, dry, account, goal, prime, log, applied>>
  BY DEF LookAt, Reads, BeatEnds, TriggerInv, TriggerTyped, TriggersAssumption
<1> QED BY <1>1, RunGoesOn DEF TriggerInv, TriggerTyped
-----------------------------------------------------------------------------
LEMMA TriggerInitInv ==
  ASSUME TriggersAssumption, TriggerInit
  PROVE  TriggerInv
<1>1. Fresh \in AccountRows /\ Fresh.total = 0 /\ Fresh.today = 0
  BY DEF Fresh, AccountRows, States
<1>2. log = <<>> /\ <<>> \in Seq(LogRows)
  BY DEF TriggerInit
<1>3. TriggerTyped
  BY <1>1, <1>2, OffIs DEF TriggerInit, TriggerTyped, GoalStates, TriggersAssumption
<1>4. RowIsTold
  <2>1. PrimedIn(<<>>) = {}
    BY DEF PrimedIn
  <2>2. Cardinality(PrimedIn(<<>>)) = 0
    BY <2>1, FS_EmptySet
  <2> QED BY <1>1, <1>2, <2>2 DEF TriggerInit, RowIsTold
<1>5. RunFits(prime, account, goal, applied)
  BY OffIs DEF TriggerInit, RunFits
<1>6. TriggersKept
  BY <1>2 DEF TriggerInit, TriggersKept, PrimedIsApplied, TriggersTakeTurns
<1> QED BY <1>3, <1>4, <1>5, <1>6 DEF TriggerInv

LEMMA TriggerNextKeeps ==
  ASSUME TriggersAssumption, TriggerInv, TriggerNext
  PROVE  TriggerInv'
  BY PassKeeps, SwitchDryKeeps, LostKeeps, PairKeeps, ReadsKeep, ResolveKeeps, CallKeeps,
     LogKeeps, BeatKeeps DEF TriggerNext, Execute

LEMMA TriggerStutter ==
  ASSUME TriggersAssumption, TriggerInv, UNCHANGED triggerVars
  PROVE  TriggerInv'
  BY RunGoesOn DEF triggerVars, TriggerInv, TriggerTyped

LEMMA TriggerStep ==
  ASSUME TriggersAssumption, TriggerInv, [TriggerNext]_triggerVars
  PROVE  TriggerInv'
  BY TriggerNextKeeps, TriggerStutter

LEMMA TriggerHolds ==
  ASSUME TriggerInv
  PROVE  TriggerTypeOK /\ TriggersKept
<1>1. \A n \in DOMAIN log : log[n].goal \in Goals /\ log[n].outcome \in Endings
  <2>1. log \in Seq(LogRows)
    BY DEF TriggerInv, TriggerTyped
  <2>2. \A n \in DOMAIN log : log[n] \in LogRows
    BY <2>1
  <2> QED BY <2>2 DEF LogRows
<1>2. account.state \in States
  BY DEF TriggerInv, TriggerTyped, AccountRows
<1> QED BY <1>1, <1>2 DEF TriggerInv, TriggerTyped, TriggerTypeOK, RunFits, RowIsTold, PrimedIn,
           GoalStates

\* Triggers: a target the log calls primed was primed by an action that was applied, and the
\* n-th attempt has the n-th trigger of the rotation.
THEOREM TriggersAreKept ==
  ASSUME TriggersAssumption
  PROVE  TriggerSpec => [](TriggerTypeOK /\ TriggersKept)
<1>1. TriggerInit => TriggerInv
  BY TriggerInitInv
<1>2. TriggerInv /\ [TriggerNext]_triggerVars => TriggerInv'
  BY TriggerStep
<1>3. TriggerInv => TriggerTypeOK /\ TriggersKept
  BY TriggerHolds
<1> QED BY <1>1, <1>2, <1>3, PTL DEF TriggerSpec
=============================================================================
