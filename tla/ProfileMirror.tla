---------------------------- MODULE ProfileMirror ----------------------------
(***************************************************************************)
(* What the database knows of an account's profile against what Telegram   *)
(* has: name, username, picture, cloud password and recovery email.  Bulk  *)
(* items change the profile and the password (modules/bulk/actions,        *)
(* worker/profiles/apply.py), tasks bind the email in two steps            *)
(* (worker/tasks/security.py), another copies the profile from Telegram    *)
(* (worker/profiles/sync.py), and the API rewrites accounts.meta, where    *)
(* the email is kept, when it saves a warming scenario, and takes a name   *)
(* and a picture for the row alone (PATCH /accounts).                      *)
(*                                                                         *)
(* One account, created here or imported with what it had at Telegram.     *)
(* Every errand talks to Telegram first and writes the row at its end,     *)
(* from what it has learnt: two errands may be under way at once, and each *)
(* may break off.                                                          *)
(***************************************************************************)
EXTENDS Integers, FiniteSets

CONSTANTS
    Errands,     \* the kinds of errands looked at
    Bearers,     \* places for errands under way
    Values,      \* what a field can be set to
    Nothing,     \* no password, no email, the picture of a new account
    MaxErrands,  \* bounds
    MaxHitches

MirrorAssumption == Nothing \notin Values /\ MaxErrands \in Nat /\ MaxHitches \in Nat

VARIABLES
    telegram,   \* the fields at Telegram
    asked,      \* the email Telegram waits for a code from
    row,        \* the fields of accounts, and of accounts.meta
    pending,    \* meta.recovery_email_pending
    bearer,     \* what each errand does
    stray,      \* fields (and `pending`) that differ for a reason named in MirrorKept
    errands,
    hitches

mirrorVars == <<telegram, asked, row, pending, bearer, stray, errands, hitches>>

Looks == {"name", "nick", "photo"}
Fields == Looks \cup {"word", "mail"}
Field == Values \cup {Nothing}

\* found: the fields the errand will write, with what it will write; mixed: those another
\* errand handles meanwhile.
Free == [does |-> "nothing", at |-> "free", gives |-> {}, value |-> Nothing,
         found |-> <<>>, mixed |-> {}]
Knows(r, f, v) == [r EXCEPT !.found = [g \in DOMAIN @ \cup {f} |-> IF g = f THEN v ELSE @[g]]]

\* A new account has at most a name; an imported one has all it had before, of which its
\* row knows nothing.
MirrorInit ==
    /\ \E had \in {{}, {"name"}, Fields}, v \in Values :
          /\ telegram = [f \in Fields |-> IF f \in had THEN v ELSE Nothing]
          /\ stray = had
    /\ row = [f \in Fields |-> Nothing]
    /\ asked = Nothing /\ pending = Nothing
    /\ bearer = [h \in Bearers |-> Free]
    /\ errands = 0 /\ hitches = 0

\* What an errand may write.
Handles(r) ==
    CASE r.does = "sync" -> Looks
      [] r.does \in {"apply", "pool", "generate"} -> r.gives
      [] r.does = "set_2fa" -> {"word"}
      [] r.does \in {"request", "confirm", "scenario"} -> {"mail"}
      [] OTHER -> {}

Starts(h, r) ==
    /\ bearer[h] = Free /\ errands < MaxErrands
    /\ errands' = errands + 1
    /\ LET shared(g) == Handles(bearer[g]) \cap Handles(r)
       IN bearer' = [g \in Bearers |->
             IF g = h THEN [r EXCEPT !.mixed = UNION {shared(k) : k \in Bearers}]
             ELSE [bearer[g] EXCEPT !.mixed = @ \cup shared(g)]]
    /\ UNCHANGED <<telegram, asked, row, pending, stray, hitches>>

Goes(h, r) == bearer' = [bearer EXCEPT ![h] = r]

\* An errand ends without writing: what it told Telegram stays unwritten.
BreaksOff(h, lost) ==
    /\ Goes(h, Free)
    /\ stray' = stray \cup lost
    /\ UNCHANGED <<row, pending, asked, errands>>

\* Telegram is told of a field beside the errands that handle it.
Behind(f) ==
    /\ stray' = stray \cup {f}
    /\ bearer' = [h \in Bearers |-> IF f \in Handles(bearer[h])
                                    THEN [bearer[h] EXCEPT !.mixed = @ \cup {f}]
                                    ELSE bearer[h]]

Told(h) == IF bearer[h].does \notin {"sync", "request", "scenario"}
           THEN DOMAIN bearer[h].found \cap Fields ELSE {}
Hitch == hitches < MaxHitches /\ hitches' = hitches + 1
Smooth == UNCHANGED hitches

\* The row is written, at the end.
Concludes(h, r) ==
    /\ row' = [f \in Fields |-> IF f \in DOMAIN r.found THEN r.found[f] ELSE row[f]]
    /\ stray' = (stray \ DOMAIN r.found) \cup (r.mixed \cap DOMAIN r.found)
    /\ Goes(h, Free)
    /\ UNCHANGED <<telegram, asked, errands>>
-----------------------------------------------------------------------------
(* Looks: apply_profile, apply_profile_pool, generate_and_apply_profile *)

\* What comes after `done`: a field that is not given is passed over.
Then(r, done) ==
    LET left == r.gives \ (CASE done = "begun" -> {}
                              [] done = "name" -> {"name"}
                              [] done = "nick" -> {"name", "nick"}
                              [] done = "photo" -> Looks)
    IN [r EXCEPT !.at = IF "name" \in left THEN "name"
                        ELSE IF "nick" \in left THEN "nick"
                        ELSE IF "photo" \in left THEN "photo" ELSE "write"]

Appliers == {"apply", "pool", "generate"}
Applying(h, at) == bearer[h].does \in Appliers /\ bearer[h].at = at

\* What a payload of apply_profile gives: no pictures.
OfPayload == {[does |-> "apply", gives |-> g] : g \in SUBSET {"name", "nick"}}
\* What the pool of assets gives: of each kind one, if it was asked for and any matches.
OfPool == {[does |-> "pool", gives |-> g] : g \in SUBSET Looks}
\* What the language model gives: always a name, and a picture of the pool.
OfModel == {[does |-> "generate", gives |-> g] : g \in {s \in SUBSET Looks : "name" \in s}}

\* The item of a bulk job; one to which nothing is given ends at once.
BeginApply(h) ==
    /\ bearer[h] = Free /\ Appliers \cap Errands # {}
    /\ \E v \in Values, r \in OfPayload \cup OfPool \cup OfModel :
        /\ r.does \in Errands /\ r.gives # {}
        /\ Starts(h, Then([Free EXCEPT !.does = r.does, !.gives = r.gives, !.value = v], "begun"))

\* UpdateProfile.  An error ends the item; the change may have been made all the same.
TellName(h) ==
    LET r == bearer[h]
    IN /\ Applying(h, "name")
       /\ \/ /\ Goes(h, Then(Knows(r, "name", r.value), "name")) /\ Smooth
             /\ telegram' = [telegram EXCEPT !["name"] = r.value]
             /\ UNCHANGED <<asked, row, pending, stray, errands>>
          \/ BreaksOff(h, {}) /\ UNCHANGED <<telegram, hitches>>
          \/ /\ BreaksOff(h, {"name"}) /\ Hitch
             /\ telegram' = [telegram EXCEPT !["name"] = r.value]

\* CheckUsername and UpdateUsername, candidate by candidate: one is free, or none is, or
\* Telegram refuses to go on, which ends the item after the name is changed.
TellNick(h) ==
    LET r == bearer[h]
    IN /\ Applying(h, "nick")
       /\ \/ /\ Goes(h, Then(r, "nick")) /\ Smooth
             /\ UNCHANGED <<telegram, asked, row, pending, stray, errands>>
          \/ /\ Goes(h, Then(Knows(r, "nick", r.value), "nick")) /\ Smooth
             /\ telegram' = [telegram EXCEPT !["nick"] = r.value]
             /\ UNCHANGED <<asked, row, pending, stray, errands>>
          \/ BreaksOff(h, Told(h)) /\ UNCHANGED <<telegram, hitches>>

\* Mutant: whatever came of it, the picture is written.
UploadedAnyway(h) ==
    LET r == bearer[h]
    IN /\ Applying(h, "photo") /\ r.does = "generate" /\ Smooth
       /\ Goes(h, [Knows(r, "photo", r.value) EXCEPT !.at = "write"])
       /\ UNCHANGED <<telegram, asked, row, pending, stray, errands>>

\* upload_avatar catches its errors; generate_and_apply_profile writes the picture only if
\* it is up.
UploadFails(h) ==
    LET r == bearer[h]
    IN /\ Applying(h, "photo") /\ r.does = "generate" /\ Smooth
       /\ Goes(h, [r EXCEPT !.at = "write"])
       /\ UNCHANGED <<telegram, asked, row, pending, stray, errands>>

\* apply_profile_pool writes it whatever the answer: of that the row is wrong.
PoolUploadFails(h) ==
    LET r == bearer[h]
    IN /\ Applying(h, "photo") /\ r.does = "pool" /\ Hitch
       /\ Goes(h, [Knows(r, "photo", r.value) EXCEPT !.at = "write", !.mixed = @ \cup {"photo"}])
       /\ UNCHANGED <<telegram, asked, row, pending, stray, errands>>

TellPhoto(h) ==
    /\ Applying(h, "photo") /\ Smooth
    /\ Goes(h, Then(Knows(bearer[h], "photo", bearer[h].value), "photo"))
    /\ telegram' = [telegram EXCEPT !["photo"] = bearer[h].value]
    /\ UNCHANGED <<asked, row, pending, stray, errands>>

\* What was really applied is written to the row.
WriteLooks(h) == /\ Applying(h, "write") /\ Concludes(h, bearer[h])
                 /\ UNCHANGED <<pending, hitches>>

\* sync_profile: names with get_me, then the picture.
BeginSync(h) ==
    /\ "sync" \in Errands
    /\ Starts(h, [Free EXCEPT !.does = "sync", !.at = "names"])

Syncing(h, at) == bearer[h].does = "sync" /\ bearer[h].at = at

ReadNames(h) ==
    /\ Syncing(h, "names")
    /\ Goes(h, Knows(Knows([bearer[h] EXCEPT !.at = "picture"], "name", telegram["name"]),
                     "nick", telegram["nick"]))
    /\ UNCHANGED <<telegram, asked, row, pending, stray, errands, hitches>>

\* Mutant: a picture that was not fetched is written empty.
PictureOrNothing(h, r) == {Knows(r, "photo", telegram["photo"]), Knows(r, "photo", Nothing)}

\* No picture at Telegram, or none fetched: avatar_url is left as it is.
Picture(h, r) == (IF telegram["photo"] # Nothing THEN {Knows(r, "photo", telegram["photo"])}
                  ELSE {}) \cup {r}

ReadPicture(h) ==
    /\ Syncing(h, "picture")
    /\ \E r \in Picture(h, [bearer[h] EXCEPT !.at = "write"]) : Goes(h, r)
    /\ UNCHANGED <<telegram, asked, row, pending, stray, errands, hitches>>

WriteSync(h) ==
    /\ Syncing(h, "write") /\ Concludes(h, bearer[h])
    /\ UNCHANGED <<pending, hitches>>
-----------------------------------------------------------------------------
(* The cloud password: set_2fa *)

\* The password to set, or Nothing to remove it; the one in force as the user typed it, or
\* as it is stored.
BeginSet2fa(h) ==
    \E v \in Field, typed \in SUBSET {"typed"} :
        /\ "set_2fa" \in Errands
        /\ Starts(h, [Free EXCEPT !.does = "set_2fa", !.at = "read", !.gives = typed,
                                  !.value = v])

Setting(h, at) == bearer[h].does = "set_2fa" /\ bearer[h].at = at

\* With nothing to remove, or no password to remove it with, the item ends.
ReadWord(h) ==
    LET r == bearer[h]
    IN /\ Setting(h, "read")
       /\ IF r.value = Nothing /\ row["word"] = Nothing /\ "typed" \notin r.gives
          THEN BreaksOff(h, {}) /\ UNCHANGED <<telegram, hitches>>
          ELSE \E current \in IF "typed" \in r.gives THEN Field ELSE {row["word"]} :
                  /\ Goes(h, [r EXCEPT !.at = "edit",
                                       !.gives = IF current = telegram["word"]
                                                 THEN {"right"} ELSE {}])
                  /\ UNCHANGED <<telegram, asked, row, pending, stray, errands, hitches>>

\* Mutant: an error is taken for a change.
EditAnyway(h) ==
    LET r == bearer[h]
    IN /\ Setting(h, "edit") /\ Smooth
       /\ Goes(h, Knows([r EXCEPT !.at = "write"], "word", r.value))
       /\ IF telegram["word"] = Nothing \/ "right" \in r.gives
          THEN telegram' = [telegram EXCEPT !["word"] = r.value]
          ELSE UNCHANGED telegram
       /\ UNCHANGED <<asked, row, pending, stray, errands>>

\* edit_2fa.  An account without a password asks for none; any error ends the item, one
\* after the change was made as well.
Edit2fa(h) ==
    LET r == bearer[h] accepted == telegram["word"] = Nothing \/ "right" \in r.gives
    IN /\ Setting(h, "edit")
       /\ \/ /\ accepted /\ Goes(h, Knows([r EXCEPT !.at = "write"], "word", r.value)) /\ Smooth
             /\ telegram' = [telegram EXCEPT !["word"] = r.value]
             /\ UNCHANGED <<asked, row, pending, stray, errands>>
          \/ BreaksOff(h, {}) /\ UNCHANGED <<telegram, hitches>>
          \/ /\ accepted /\ BreaksOff(h, {"word"}) /\ Hitch
             /\ telegram' = [telegram EXCEPT !["word"] = r.value]

\* An email given with a new password goes to Telegram as well; of it no row is told.
PassMail(h) ==
    /\ Setting(h, "edit") /\ bearer[h].value # Nothing /\ Hitch
    /\ telegram["word"] = Nothing \/ "right" \in bearer[h].gives
    /\ \E v \in Values : telegram' = [telegram EXCEPT !["mail"] = v]
    /\ Behind("mail")
    /\ UNCHANGED <<asked, row, pending, errands>>

WriteWord(h) == /\ Setting(h, "write") /\ Concludes(h, bearer[h])
                /\ UNCHANGED <<pending, hitches>>
-----------------------------------------------------------------------------
(* The recovery email, in accounts.meta *)

BeginRequest(h) ==
    \E v \in Values :
        /\ "request" \in Errands
        /\ Starts(h, [Free EXCEPT !.does = "request", !.at = "ask", !.value = v])

\* request_email_setup: Telegram sends a code, takes the email at once, or refuses; without
\* a password there is nothing to bind it to.
AskCode(h) ==
    LET r == bearer[h]
    IN /\ bearer[h].does = "request" /\ bearer[h].at = "ask" /\ Smooth
       /\ \/ /\ telegram["word"] # Nothing /\ asked' = r.value
             /\ Goes(h, [r EXCEPT !.at = "pend"])
             /\ UNCHANGED <<telegram, row, pending, stray, errands>>
          \/ /\ telegram["word"] # Nothing /\ telegram' = [telegram EXCEPT !["mail"] = r.value]
             /\ Goes(h, Knows([r EXCEPT !.at = "pend"], "mail", r.value))
             /\ UNCHANGED <<asked, row, pending, stray, errands>>
          \/ BreaksOff(h, {}) /\ UNCHANGED telegram

\* _set_pending, and at once _clear_pending_and_set if no code is needed.
Pend(h) ==
    LET r == bearer[h] done == DOMAIN r.found
    IN /\ bearer[h].does = "request" /\ bearer[h].at = "pend"
       /\ IF done = {} THEN pending' = r.value /\ UNCHANGED row
          ELSE pending' = Nothing /\ row' = [row EXCEPT !["mail"] = r.value]
       /\ stray' = (stray \ (done \cup {"pending"})) \cup (r.mixed \cap done)
                    \cup (IF r.mixed = {} THEN {} ELSE {"pending"})
       /\ Goes(h, Free)
       /\ UNCHANGED <<telegram, asked, errands, hitches>>

\* confirm_recovery_email reads the email it waits for before it takes a client.
BeginConfirm(h) ==
    /\ "confirm" \in Errands /\ pending # Nothing
    /\ Starts(h, [Free EXCEPT !.does = "confirm", !.at = "code", !.value = pending])

\* Telegram takes the code it has sent last, for the email it has sent it to.
ConfirmCode(h) ==
    LET r == bearer[h]
    IN /\ bearer[h].does = "confirm" /\ bearer[h].at = "code" /\ Smooth
       /\ \/ /\ asked # Nothing
             /\ telegram' = [telegram EXCEPT !["mail"] = asked] /\ asked' = Nothing
             /\ Goes(h, Knows([r EXCEPT !.at = "write",
                                       !.mixed = IF "pending" \in stray THEN {"mail"} ELSE @],
                              "mail", r.value))
             /\ UNCHANGED <<row, pending, stray, errands>>
          \/ BreaksOff(h, {}) /\ UNCHANGED telegram

WriteMail(h) == /\ bearer[h].does = "confirm" /\ bearer[h].at = "write"
                /\ pending' = Nothing /\ Concludes(h, bearer[h])
                /\ UNCHANGED hitches

\* put_warming_scenario and its like: meta is read, changed elsewhere and written whole.
BeginScenario(h) ==
    /\ "scenario" \in Errands
    /\ Starts(h, Knows([Free EXCEPT !.does = "scenario", !.at = "write", !.value = pending],
                       "mail", row["mail"]))

WriteMeta(h) ==
    LET r == bearer[h]
    IN /\ r.does = "scenario" /\ r.at = "write"
       /\ pending' = r.value
       /\ row' = [row EXCEPT !["mail"] = r.found["mail"]]
       /\ stray' = stray \cup (IF r.mixed = {} THEN {} ELSE {"mail", "pending"})
       /\ Goes(h, Free)
       /\ UNCHANGED <<telegram, asked, errands, hitches>>
-----------------------------------------------------------------------------
\* The process dies, or the item runs into its time limit.
Dies(h) == /\ bearer[h] # Free /\ Hitch
           /\ BreaksOff(h, Told(h) \cup (IF bearer[h].at # "pend" THEN {}
                                        ELSE {"pending"} \cup DOMAIN bearer[h].found))
           /\ UNCHANGED telegram

\* The owner changes the password with his own telephone.
OwnerSets == /\ "set_2fa" \in Errands /\ Hitch
             /\ \E v \in Field : telegram' = [telegram EXCEPT !["word"] = v]
             /\ Behind("word")
             /\ UNCHANGED <<asked, row, pending, errands>>

\* PATCH /accounts/{id}: the row takes a name, a username or a picture; Telegram is not told.
PatchRow ==
    /\ "patch" \in Errands /\ errands < MaxErrands /\ errands' = errands + 1
    /\ \E f \in Looks, v \in Field :
          /\ row' = [row EXCEPT ![f] = v]
          /\ stray' = stray \cup (IF v = telegram[f] THEN {} ELSE {f})
    /\ UNCHANGED <<telegram, asked, pending, bearer, hitches>>

MirrorNext ==
    \/ \E h \in Bearers :
        \/ BeginApply(h) \/ TellName(h) \/ TellNick(h) \/ UploadFails(h) \/ PoolUploadFails(h)
        \/ TellPhoto(h) \/ WriteLooks(h)
        \/ BeginSync(h) \/ ReadNames(h) \/ ReadPicture(h) \/ WriteSync(h)
        \/ BeginSet2fa(h) \/ ReadWord(h) \/ Edit2fa(h) \/ PassMail(h) \/ WriteWord(h)
        \/ BeginRequest(h) \/ AskCode(h) \/ Pend(h)
        \/ BeginConfirm(h) \/ ConfirmCode(h) \/ WriteMail(h)
        \/ BeginScenario(h) \/ WriteMeta(h) \/ Dies(h)
    \/ OwnerSets
    \/ PatchRow

MirrorSpec == MirrorInit /\ [][MirrorNext]_mirrorVars
-----------------------------------------------------------------------------
(* Properties *)

MirrorTypeOK ==
    /\ telegram \in [Fields -> Field] /\ row \in [Fields -> Field]
    /\ asked \in Field /\ pending \in Field
    /\ \A h \in Bearers : /\ DOMAIN bearer[h].found \subseteq Fields
                          /\ bearer[h].mixed \subseteq Fields
    /\ stray \subseteq Fields \cup {"pending"}

\* modules/bulk/actions, worker/profiles and worker/tasks/security.py: the row says of each
\* field what Telegram has - the password that opens the account among them - unless an
\* errand that will write it is under way, or the field went astray: the account was imported
\* with it, a PATCH wrote it to the row alone, two errands handled it at once, one broke off
\* after Telegram had changed it, the owner changed it himself, the email went with a new
\* password, or apply_profile_pool wrote a picture that was not taken.  The next errand that
\* writes a field alone puts it right.
MirrorKept ==
    \A f \in Fields \ stray :
        row[f] = telegram[f] \/ \E h \in Bearers : f \in DOMAIN bearer[h].found
=============================================================================
