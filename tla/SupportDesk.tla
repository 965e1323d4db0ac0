---------------------------- MODULE SupportDesk ----------------------------
(***************************************************************************)
(* The support chat.  A user writes in the app (api/routers/               *)
(* app_content.py) or to the bot (bot/user_commands.py); the message is    *)
(* kept in support_messages and published; the bot's notifier forwards it  *)
(* to every manager and keeps, for each forward, whose message it is       *)
(* (bot/notifier.py, support_relays); a manager answers by replying to the *)
(* forward (bot/main.py).                                                  *)
(*                                                                         *)
(* A message is known by its place in msgs, a forward by the chat of the   *)
(* manager and its number there: the bot's chats count their messages      *)
(* apart.                                                                  *)
(***************************************************************************)
EXTENDS Naturals, Sequences, FiniteSets

CONSTANTS
    Users,
    Managers,    \* ADMIN_USER_IDS
    MaxMessages, \* bound: messages of users and managers
    MaxStops,    \* bound: ends of the bot's process
    NoManager

\* What the module assumes of its constants.
SupportDeskAssumption ==
    /\ MaxMessages \in Nat /\ MaxStops \in Nat
    /\ NoManager \notin Users \cup Managers

VARIABLES
    msgs,     \* support_messages: [user, from, re], re is the forward a manager answered
    writing,  \* requests of the app between commit and publish: messages
    untold,   \* messages whose publication failed or never ran because the process died
    wire,     \* published and received by the notifier
    round,    \* the message the notifier forwards and the managers still to come
    sent,     \* the forward whose relay is to be stored
    chat,     \* what each manager has from the bot: messages by number
    relays,   \* support_relays: [chat, no, user]
    answer,   \* the answers kept but not yet sent on, one for each manager: a message
    inbox,    \* the answers each user has got
    stops

deskVars == <<msgs, writing, untold, wire, round, sent, chat, relays, answer, inbox, stops>>
-----------------------------------------------------------------------------
NoForward == [chat |-> NoManager, no |-> 0]
NoRound == [of |-> 0, left |-> {}]

Messages == 1..Len(msgs)
HasPlace == Len(msgs) < MaxMessages
FromUser(u) == [user |-> u, from |-> "user", re |-> NoForward]

DeskInit ==
    /\ msgs = <<>> /\ writing = {} /\ untold = {}
    /\ wire = <<>> /\ round = NoRound /\ sent = NoForward
    /\ chat = [m \in Managers |-> <<>>]
    /\ relays = {}
    /\ answer = [m \in Managers |-> 0]
    /\ inbox = [u \in Users |-> {}]
    /\ stops = 0
-----------------------------------------------------------------------------
(* The user *)

\* support_send: the message is committed before the bot hears of it.
Write(u) ==
    /\ HasPlace
    /\ msgs' = Append(msgs, FromUser(u))
    /\ writing' = writing \cup {Len(msgs')}
    /\ UNCHANGED <<untold, wire, round, sent, chat, relays, answer, inbox, stops>>

\* Mutant: what is published is the message after the one that was kept.
PublishNext(i) ==
    /\ i \in writing
    /\ writing' = writing \ {i}
    /\ wire' = Append(wire, i + 1)
    /\ UNCHANGED <<msgs, untold, round, sent, chat, relays, answer, inbox, stops>>

PublishMessage(i) ==
    /\ i \in writing
    /\ writing' = writing \ {i}
    /\ wire' = Append(wire, i)
    /\ UNCHANGED <<msgs, untold, round, sent, chat, relays, answer, inbox, stops>>

\* Redis is away, or the API dies, or the bot does not listen: best effort.
PublishFails(i) ==
    /\ i \in writing
    /\ writing' = writing \ {i}
    /\ untold' = untold \cup {i}
    /\ UNCHANGED <<msgs, wire, round, sent, chat, relays, answer, inbox, stops>>

\* cmd_support: the message is kept and the user is told that it was sent.
Ticket(u) ==
    /\ HasPlace
    /\ msgs' = Append(msgs, FromUser(u))
    /\ UNCHANGED <<writing, untold, wire, round, sent, chat, relays, answer, inbox, stops>>
-----------------------------------------------------------------------------
(* The notifier: one event after the other, one manager after the other *)

TakeUp ==
    /\ round = NoRound /\ wire # <<>>
    /\ round' = [of |-> Head(wire), left |-> Managers]
    /\ wire' = Tail(wire)
    /\ UNCHANGED <<msgs, writing, untold, sent, chat, relays, answer, inbox, stops>>

\* send_message to one of them: it arrives and the relay comes next.
Forward(m) ==
    /\ m \in round.left /\ sent = NoForward
    /\ chat' = [chat EXCEPT ![m] = Append(@, round.of)]
    /\ sent' = [chat |-> m, no |-> Len(chat'[m])]
    /\ round' = [round EXCEPT !.left = @ \ {m}]
    /\ UNCHANGED <<msgs, writing, untold, wire, relays, answer, inbox, stops>>

\* Mutant: a manager whom the message may not have reached stays in the round.
ForwardAgain(m) ==
    /\ m \in round.left /\ sent = NoForward
    /\ chat' \in {chat, [chat EXCEPT ![m] = Append(@, round.of)]}
    /\ Len(chat'[m]) <= MaxMessages
    /\ UNCHANGED <<msgs, writing, untold, wire, round, sent, relays, answer, inbox, stops>>

\* It fails, or it arrives and the answer of Telegram does not: on to the next manager.
ForwardFails(m) ==
    /\ m \in round.left /\ sent = NoForward
    /\ chat' \in {chat, [chat EXCEPT ![m] = Append(@, round.of)]}
    /\ round' = [round EXCEPT !.left = @ \ {m}]
    /\ UNCHANGED <<msgs, writing, untold, wire, sent, relays, answer, inbox, stops>>

StoreRelay ==
    /\ sent # NoForward
    /\ relays' = relays \cup {[chat |-> sent.chat, no |-> sent.no, user |-> msgs[round.of].user]}
    /\ sent' = NoForward
    /\ UNCHANGED <<msgs, writing, untold, wire, round, chat, answer, inbox, stops>>

\* The database is away: a warning in the log.
StoreFails ==
    /\ sent # NoForward
    /\ sent' = NoForward
    /\ UNCHANGED <<msgs, writing, untold, wire, round, chat, relays, answer, inbox, stops>>

NextEvent ==
    /\ round # NoRound /\ round.left = {} /\ sent = NoForward
    /\ round' = NoRound
    /\ UNCHANGED <<msgs, writing, untold, wire, sent, chat, relays, answer, inbox, stops>>
-----------------------------------------------------------------------------
(* The manager *)

\* Mutant: the number is looked up in the chats of all managers.
RelayAnywhere(m, no) == {r \in relays : r.no = no}

\* user_for_relay
Relay(m, no) == {r \in relays : r.chat = m /\ r.no = no}

\* on_support_reply: without a relay nothing happens, with one the answer is committed ...
Reply(m, no) ==
    /\ HasPlace /\ answer[m] = 0
    /\ no \in 1..Len(chat[m])
    /\ \E r \in Relay(m, no) :
          /\ msgs' = Append(msgs, [user |-> r.user, from |-> "manager",
                                   re |-> [chat |-> m, no |-> no]])
          /\ answer' = [answer EXCEPT ![m] = Len(msgs')]
    /\ UNCHANGED <<writing, untold, wire, round, sent, chat, relays, inbox, stops>>

\* Mutant: the answer goes to the user whose message was kept last.
SendToLast(m) ==
    /\ answer[m] # 0
    /\ inbox' = [inbox EXCEPT ![msgs[Len(msgs)].user] = @ \cup {answer[m]}]
    /\ answer' = [answer EXCEPT ![m] = 0]
    /\ UNCHANGED <<msgs, writing, untold, wire, round, sent, chat, relays, stops>>

\* ... and sent on ...
Send(m) ==
    /\ answer[m] # 0
    /\ inbox' = [inbox EXCEPT ![msgs[answer[m]].user] = @ \cup {answer[m]}]
    /\ answer' = [answer EXCEPT ![m] = 0]
    /\ UNCHANGED <<msgs, writing, untold, wire, round, sent, chat, relays, stops>>

\* ... or the user has stopped the bot, and the manager is told.
SendFails(m) ==
    /\ answer[m] # 0
    /\ answer' = [answer EXCEPT ![m] = 0]
    /\ UNCHANGED <<msgs, writing, untold, wire, round, sent, chat, relays, inbox, stops>>

\* The polling and the notifier end together; what Redis had brought is gone.
StopBot ==
    /\ stops < MaxStops
    /\ stops' = stops + 1
    /\ untold' = untold \cup {wire[i] : i \in DOMAIN wire}
    /\ wire' = <<>> /\ round' = NoRound /\ sent' = NoForward
    /\ answer' = [m \in Managers |-> 0]
    /\ UNCHANGED <<msgs, writing, chat, relays, inbox>>
-----------------------------------------------------------------------------
DeskNext ==
    \/ \E u \in Users : Write(u) \/ Ticket(u)
    \/ \E i \in Messages : PublishMessage(i) \/ PublishFails(i)
    \/ TakeUp \/ StoreRelay \/ StoreFails \/ NextEvent \/ StopBot
    \/ \E m \in Managers : \/ Forward(m) \/ ForwardFails(m) \/ Send(m) \/ SendFails(m)
                           \/ \E no \in 1..MaxMessages : Reply(m, no)

DeskSpec == DeskInit /\ [][DeskNext]_deskVars
-----------------------------------------------------------------------------
(* Properties *)

Forwards == [chat: Managers \cup {NoManager}, no: Nat]

\* What is on its way is a message that is kept.
DeskTypeOK ==
    /\ msgs \in Seq([user: Users, from: {"user", "manager"}, re: Forwards])
    /\ writing \subseteq Messages /\ untold \subseteq Messages /\ wire \in Seq(Messages)
    /\ round.of \in Messages \cup {0} /\ round.left \subseteq Managers
    /\ sent \in Forwards /\ sent # NoForward => chat[sent.chat][sent.no] = round.of
    /\ chat \in [Managers -> Seq(Messages)]
    /\ relays \subseteq [chat: Managers, no: Nat, user: Users]
    /\ answer \in [Managers -> Messages \cup {0}]
    /\ inbox \in [Users -> SUBSET Messages]
    /\ stops \in 0..MaxStops

\* An answer is in the thread of the person whose message the manager replied to, with two
\* managers answering, forwards that miss one of them and a bot that stops anywhere
\* (bot/main.py:151-167, core/repositories/support.py:58-63).
AnswerFindsItsUser ==
    \A i \in Messages : msgs[i].from = "manager" =>
        msgs[i].user = msgs[chat[msgs[i].re.chat][msgs[i].re.no]].user

\* What a user gets from the bot is an answer of the own thread: what is sent on is kept,
\* and it is nobody else's (bot/main.py:168-180).
InboxIsThread ==
    \A u \in Users : \A i \in inbox[u] : msgs[i].from = "manager" /\ msgs[i].user = u

\* A manager has a message at most once, whatever fails, and no manager's answer
\* is forwarded.
ForwardedOnce ==
    \A m \in Managers : \A j, k \in 1..Len(chat[m]) :
        /\ chat[m][j] = chat[m][k] => j = k
        /\ msgs[chat[m][j]].from = "user"

\* Questions and answers reach whom they are for, once.
DeskKept == AnswerFindsItsUser /\ InboxIsThread /\ ForwardedOnce
=============================================================================
