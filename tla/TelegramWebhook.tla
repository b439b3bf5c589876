-------------------------- MODULE TelegramWebhook ---------------------------
(***************************************************************************)
(* Commands by Telegram: the webhook handler, the table of update ids, the *)
(* commander, the access cleanup, and the two commands that register and   *)
(* remove the webhook.  Telegram itself is external: it holds an update    *)
(* until a delivery of it is answered with a success, delivers the updates *)
(* of one chat in order, may give up waiting for an answer and deliver     *)
(* again, and drops what it has held too long.                             *)
(*                                                                         *)
(* A delivery whose secret is not the running server's, or whose body does *)
(* not decode, is refused before anything is stored: it changes nothing    *)
(* and is no step.  A day is one tick of the clock.                        *)
(*                                                                         *)
(* Where an operation is followed by another of nearly its name, the first *)
(* is the operation with a slip in it, kept to see a property notice.      *)
(***************************************************************************)
EXTENDS Integers, Sequences, FiniteSets

CONSTANTS
    User,       \* accounts that write to the bot
    Delivery,   \* handler goroutines that may be in flight at once
    Keep,       \* days Telegram holds an update
    Retention,  \* days an update id stays recorded
    MaxTime,    \* bound: the clock stops here
    MaxUpdates, \* bound: updates ever sent
    MaxEdits    \* bound: edits of the configuration, removals of the webhook

ASSUME WebhookAssumption ==
    /\ Keep \in Nat /\ Retention \in Nat /\ Keep < Retention
    /\ MaxTime \in Nat \ {0} /\ MaxUpdates \in Nat /\ MaxEdits \in Nat

Id == 1..MaxUpdates
Time == 1..MaxTime
Commands == {"/alerts_on", "/alerts_off", "none"}
NoSecret == 0
Secret == 1..(MaxEdits + 1)  \* in the order they are configured
Config == [secret: Secret, admins: SUBSET User \ {{}}]

VARIABLES
    clock,
    update,     \* what was written to the bot, in the order of the ids
    held,       \* the ids Telegram still has to deliver
    registered, \* the secret Telegram delivers with, NoSecret without a webhook
    config,     \* the configuration on disk
    loaded,     \* the configuration the server last started with
    up,         \* the server is running
    delivery,   \* the handlers: the update they work on and where they are
    recorded,   \* telegram_updates: received_at, 0 without a row
    preference, \* alert_preferences
    ran,        \* auxiliary: how often an update's command was carried out
    gaveUp,     \* auxiliary: updates of which a delivery was not waited for
    dropped,    \* auxiliary: updates that ended for a reason without a command
    edits       \* auxiliary: edits so far

telegram == <<update, held, registered>>
server == <<loaded, up>>
history == <<ran, gaveUp, dropped>>
vars == <<clock, telegram, config, server, delivery, recorded, preference, history, edits>>

Idle == [at |-> "idle", id |-> 0, waited |-> FALSE, since |-> 0]
Working == [at: {"received", "command", "send"}, id: Id, waited: BOOLEAN, since: Time]

Types ==
    /\ clock \in Time
    /\ update \in Seq([user: User, command: Commands, at: Time])
    /\ Len(update) <= MaxUpdates
    /\ held \subseteq DOMAIN update
    /\ registered \in Secret \cup {NoSecret}
    /\ config \in Config /\ loaded \in Config /\ up \in BOOLEAN
    /\ delivery \in [Delivery -> Working \cup {Idle}]
    /\ up \/ \A d \in Delivery : delivery[d] = Idle
    /\ recorded \in [Id -> 0..MaxTime]
    /\ preference \in [User -> BOOLEAN]
    /\ ran \in [Id -> Nat]
    /\ gaveUp \subseteq DOMAIN update /\ dropped \subseteq DOMAIN update
    /\ edits \in 0..MaxEdits

(* Every variable keeps its type, and a handler that carries out a command *)
(* or answers it has the update on record.                                 *)
TypeOK ==
    /\ Types
    /\ \A d \in Delivery : delivery[d].at \in {"command", "send"} => recorded[delivery[d].id] # 0

Init ==
    /\ clock = 1 /\ edits = 0
    /\ update = <<>> /\ held = {} /\ registered = NoSecret
    /\ config \in Config /\ config.secret = 1
    /\ loaded = config /\ up = FALSE
    /\ delivery = [d \in Delivery |-> Idle]
    /\ recorded = [i \in Id |-> 0]
    /\ preference = [u \in User |-> TRUE]
    /\ ran = [i \in Id |-> 0] /\ gaveUp = {} /\ dropped = {}

-----------------------------------------------------------------------------
(* Telegram.                                                               *)

(* Bound: nothing is written so late that its id would not be cleaned up.  *)
Write(u, c) ==
    /\ Len(update) < MaxUpdates /\ clock + Retention < MaxTime
    /\ update' = Append(update, [user |-> u, command |-> c, at |-> clock])
    /\ held' = held \cup {Len(update')}
    /\ UNCHANGED <<clock, registered, config, server, delivery, recorded, preference, history, edits>>

Waited(i) == \E d \in Delivery : delivery[d].id = i /\ delivery[d].waited
FirstOfChat(i) == \A j \in held : j < i => update[j].user # update[i].user

Deliver(d, i) ==
    /\ up /\ registered = loaded.secret
    /\ delivery[d] = Idle
    /\ i \in held /\ FirstOfChat(i) /\ ~Waited(i)
    /\ clock <= update[i].at + Keep
    /\ delivery' = [delivery EXCEPT ![d] = [at |-> "received", id |-> i, waited |-> TRUE, since |-> clock]]
    /\ UNCHANGED <<clock, telegram, config, server, recorded, preference, history, edits>>

(* The delivery times out or its connection is lost; the handler goes on   *)
(* until it notices that its context is cancelled.                         *)
GiveUp(d) ==
    /\ delivery[d].waited
    /\ delivery' = [delivery EXCEPT ![d].waited = FALSE]
    /\ gaveUp' = gaveUp \cup {delivery[d].id}
    /\ UNCHANGED <<clock, telegram, config, server, recorded, preference, ran, dropped, edits>>

Expire(i) ==
    /\ i \in held /\ ~Waited(i) /\ clock > update[i].at + Keep
    /\ held' = held \ {i} /\ dropped' = dropped \cup {i}
    /\ UNCHANGED <<clock, update, registered, config, server, delivery, recorded, preference, ran, gaveUp, edits>>

-----------------------------------------------------------------------------
(* The handler.                                                            *)

Goto(d, place) == delivery' = [delivery EXCEPT ![d].at = place]

(* A success ends the update at Telegram, if Telegram is still waiting.    *)
Answered(d) ==
    /\ delivery' = [delivery EXCEPT ![d] = Idle]
    /\ held' = IF delivery[d].waited THEN held \ {delivery[d].id} ELSE held
Refused(d) ==
    /\ delivery' = [delivery EXCEPT ![d] = Idle]
    /\ held' = held

handled == <<clock, update, registered, config, server, edits>>

(* A private text of an administrator, by the list the server runs with.   *)
Heeded(i) == update[i].user \in loaded.admins /\ update[i].command # "none"

RecordTelegramUpdate(i) ==
    /\ recorded[i] = 0
    /\ recorded' = [recorded EXCEPT ![i] = clock]

TakeOnAtOnce(d) ==
    /\ delivery[d].at = "received"
    /\ RecordTelegramUpdate(delivery[d].id)
    /\ held' = IF delivery[d].waited THEN held \ {delivery[d].id} ELSE held
    /\ \/ Heeded(delivery[d].id) /\ Goto(d, "command") /\ UNCHANGED dropped
       \/ ~Heeded(delivery[d].id) /\ Answered(d) /\ dropped' = dropped \cup {delivery[d].id}
    /\ UNCHANGED <<preference, ran, gaveUp, handled>>
TakeOn(d) ==
    /\ delivery[d].at = "received"
    /\ RecordTelegramUpdate(delivery[d].id)
    /\ \/ Heeded(delivery[d].id) /\ Goto(d, "command") /\ UNCHANGED <<held, dropped>>
       \/ ~Heeded(delivery[d].id) /\ Answered(d) /\ dropped' = dropped \cup {delivery[d].id}
    /\ UNCHANGED <<preference, ran, gaveUp, handled>>

(* An id that is on record: the delivery is a duplicate.                   *)
KnownAlreadyRefused(d) ==
    /\ delivery[d].at = "received" /\ recorded[delivery[d].id] # 0
    /\ Refused(d)
    /\ UNCHANGED <<recorded, preference, history, handled>>
KnownAlready(d) ==
    /\ delivery[d].at = "received" /\ recorded[delivery[d].id] # 0
    /\ Answered(d)
    /\ UNCHANGED <<recorded, preference, history, handled>>

(* The store fails: a 503, after which Telegram delivers the update again. *)
(* A call cut short with its request may have stored the id all the same,  *)
(* and then the next delivery is taken for a duplicate.                    *)
RecordFailsQuietly(d) ==
    /\ delivery[d].at = "received"
    /\ Answered(d)
    /\ UNCHANGED <<recorded, preference, history, handled>>
RecordFailsGoesOn(d) ==
    /\ delivery[d].at = "received"
    /\ Goto(d, "command")
    /\ UNCHANGED <<held, recorded, preference, history, handled>>
RecordFails(d) ==
    /\ delivery[d].at = "received"
    /\ Refused(d)
    /\ \/ UNCHANGED <<recorded, dropped>>
       \/ RecordTelegramUpdate(delivery[d].id) /\ dropped' = dropped \cup {delivery[d].id}
    /\ UNCHANGED <<preference, ran, gaveUp, handled>>

SetAlertPreference(i) ==
    preference' = IF update[i].command \in {"/alerts_on", "/alerts_off"}
                  THEN [preference EXCEPT ![update[i].user] = update[i].command = "/alerts_on"]
                  ELSE preference

(* The command: a preference is written, or the status read.               *)
Reply(d) ==
    /\ delivery[d].at = "command"
    /\ SetAlertPreference(delivery[d].id)
    /\ ran' = [ran EXCEPT ![delivery[d].id] = @ + 1]
    /\ Goto(d, "send")
    /\ UNCHANGED <<held, recorded, gaveUp, dropped, handled>>

(* The repository fails: the failure is logged, the update is answered.    *)
(* One that fails after it wrote the preference is a Reply whose answer is *)
(* lost.                                                                   *)
ReplyFails(d) ==
    /\ delivery[d].at = "command"
    /\ Answered(d) /\ dropped' = dropped \cup {delivery[d].id}
    /\ UNCHANGED <<recorded, preference, ran, gaveUp, handled>>

(* Whatever becomes of the answer, the update is answered.  A call that    *)
(* fails may still have been accepted.                                     *)
SendMessage(d) ==
    /\ delivery[d].at = "send"
    /\ Answered(d)
    /\ UNCHANGED <<recorded, preference, ran, gaveUp, dropped, handled>>

ServeHTTP(d) ==
    \/ TakeOn(d) \/ KnownAlready(d) \/ RecordFails(d)
    \/ Reply(d) \/ ReplyFails(d) \/ SendMessage(d)

-----------------------------------------------------------------------------
(* Time, the cleanup, the process, and the operator.                       *)

(* A handler lasts less than a day: its calls have deadlines of seconds.   *)
Tick ==
    /\ clock < MaxTime
    /\ \A d \in Delivery : delivery[d] # Idle => delivery[d].since = clock
    /\ clock' = clock + 1
    /\ UNCHANGED <<telegram, config, server, delivery, recorded, preference, history, edits>>

PastEarly(i) == recorded[i] # 0 /\ recorded[i] < clock - (Retention - 1)
Past(i) == recorded[i] # 0 /\ recorded[i] < clock - Retention

DeleteTelegramUpdatesBefore ==
    /\ up /\ \E i \in Id : Past(i)
    /\ recorded' = [i \in Id |-> IF Past(i) THEN 0 ELSE recorded[i]]
    /\ UNCHANGED <<clock, telegram, config, server, delivery, preference, history, edits>>

(* What a handler was about to carry out is lost with the process.         *)
Crash ==
    /\ up /\ up' = FALSE
    /\ delivery' = [d \in Delivery |-> Idle]
    /\ dropped' = dropped \cup {delivery[d].id : d \in {e \in Delivery : delivery[e].at = "command"}}
    /\ UNCHANGED <<clock, telegram, config, loaded, recorded, preference, ran, gaveUp, edits>>

Restart ==
    /\ ~up /\ up' = TRUE /\ loaded' = config
    /\ UNCHANGED <<clock, telegram, config, delivery, recorded, preference, history, edits>>

(* The secret is replaced, or the list of administrators.                  *)
Reconfigure(c) ==
    /\ edits < MaxEdits
    /\ c.secret = config.secret + 1 \/ (c.secret = config.secret /\ c.admins # config.admins)
    /\ config' = c /\ edits' = edits + 1
    /\ UNCHANGED <<clock, telegram, server, delivery, recorded, preference, history>>

(* tg-monitor-server telegram set-webhook: what Telegram holds, it keeps.  *)
SetWebhook ==
    /\ registered # config.secret
    /\ registered' = config.secret
    /\ UNCHANGED <<clock, update, held, config, server, delivery, recorded, preference, history, edits>>

DeleteWebhook ==
    /\ edits < MaxEdits /\ edits' = edits + 1
    /\ registered' = NoSecret
    /\ UNCHANGED <<clock, update, held, config, server, delivery, recorded, preference, history>>

Next ==
    \/ \E u \in User, c \in Commands : Write(u, c)
    \/ \E d \in Delivery : GiveUp(d) \/ ServeHTTP(d) \/ \E i \in DOMAIN update : Deliver(d, i)
    \/ \E i \in DOMAIN update : Expire(i)
    \/ Tick \/ DeleteTelegramUpdatesBefore \/ Crash \/ Restart
    \/ \E c \in Config : Reconfigure(c)
    \/ SetWebhook \/ DeleteWebhook

Spec == Init /\ [][Next]_vars

-----------------------------------------------------------------------------
(* Safety.                                                                 *)

(* A command is carried out, and answered, at most once, however often     *)
(* Telegram delivers it, the server restarts and the ids are cleaned up:   *)
(* the webhook's promise under Telegram's retries.                         *)
CommandAtMostOnce == \A i \in Id : ran[i] <= 1

(* An update that has left Telegram without its command being carried out  *)
(* expired there, was of nobody on the list, or met a fault that left it   *)
(* on record: ServeHTTP answers with success only what it dealt with.      *)
NothingLostUnnoticed ==
    \A i \in DOMAIN update \ (held \cup dropped) :
        ran[i] = 1 \/ \E d \in Delivery : delivery[d].id = i

Carried(u) == {i \in DOMAIN update : update[i].user = u /\ ran[i] > 0
                                     /\ update[i].command \in {"/alerts_on", "/alerts_off"}}

(* Among the commands of its owner, the preference is the one last asked   *)
(* for, as long as Telegram waited for each of their answers: ServeHTTP    *)
(* answers after the command, and a chat's next update comes after the     *)
(* answer.  The console writes the same row and is no step of this module: *)
(* nothing puts its writes and the bot's in an order.                      *)
LastCommandStands ==
    \A u \in User : \A i \in Carried(u) :
        (\A j \in Carried(u) : j <= i /\ j \notin gaveUp)
            => preference[u] = (update[i].command = "/alerts_on")

-----------------------------------------------------------------------------
(* Liveness.  Telegram tries again and again, the operating system starts  *)
(* the server again, and neither the store nor the connection fails for    *)
(* ever: a delivery that can be recorded and answered often enough is.     *)

Taken(i) == \E d \in Delivery :
    /\ delivery[d].id = i /\ delivery[d].waited
    /\ TakeOn(d) \/ KnownAlready(d)

Fairness ==
    /\ WF_vars(Restart)
    /\ \A d \in Delivery : WF_vars(ServeHTTP(d))
    /\ \A i \in Id :
        /\ SF_vars(i \in DOMAIN update /\ \E d \in Delivery : Deliver(d, i))
        /\ SF_vars(Taken(i))
        /\ WF_vars(i \in DOMAIN update /\ Expire(i))

FairSpec == Spec /\ Fairness

Registered == registered = loaded.secret

(* While the webhook is registered with the secret the server runs with,   *)
(* no update stays with Telegram for ever, before those written after it.  *)
EveryUpdateLeaves == <>[]Registered => \A i \in Id : [](i \in held => <>(i \notin held))
=============================================================================
