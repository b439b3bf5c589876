---------------------------- MODULE AlertWorker ----------------------------
(***************************************************************************)
(* The alert worker of the central server (internal/alerting) over the     *)
(* alert tables: one goroutine that, every interval, samples the clock,    *)
(* evaluates all servers in one transaction and then delivers the due      *)
(* outbox rows one after another through Telegram.  Between any two of its *)
(* repository calls and sends the administrator, agents, the cleanup and   *)
(* the clock may act, a repository call may fail, and the process may stop *)
(* and be started again, possibly with another allowlist.                  *)
(*                                                                         *)
(* Where an operation is followed by another of nearly its name, the first *)
(* is the operation with a slip in it, kept to see a property notice.      *)
(***************************************************************************)
EXTENDS AlertTables

CONSTANTS
    BatchSize,   \* the limit given to ListDueAlertOutbox
    MaxAttempts, \* bound: attempts are counted up to here
    RetryDelay   \* delay after the n-th failed attempt, in ticks

ASSUME WorkerAssumption ==
    /\ BatchSize \in Nat \ {0}
    /\ MaxAttempts \in Nat \ {0}
    /\ RetryDelay \in [1..MaxAttempts -> Nat \ {0}]

VARIABLES
    pc,       \* where the worker is; "down" while the process is not running
    now,      \* nowMS, sampled once per run
    batch,    \* the rows of the run still to be handled, as they were listed
    allowed,  \* the administrators the process was configured with
    accepted  \* auxiliary: the messages Telegram has accepted

workerVars == <<pc, now, batch, allowed, accepted>>
vars == <<tableVars, workerVars>>

Suppressing == {"recipient_removed", "recipient_disabled", "invalid_payload"}
PCs == {"down", "idle", "evaluate", "list", "recheck", "send", "sent", "refused"}
       \cup Suppressing

Item == [id: 1..MaxId, row: Row(MaxAttempts)]
Message == [id: 1..MaxId, server: Server \cup {NoServer}, user: Admin,
            kind: Kinds, since: Time]
AsMessage(item) ==
    [id |-> item.id, server |-> item.row.server, user |-> item.row.user,
     kind |-> item.row.kind, since |-> item.row.since]

TypeOK ==
    /\ clock \in Time
    /\ status \in [Server -> Statuses]
    /\ created \in [Server -> TimeOrNull]
    /\ received \in [Server -> TimeOrNull]
    /\ alertState \in [Server -> StateRow]
    /\ DOMAIN outbox \subseteq 1..MaxId
    /\ outbox \in [DOMAIN outbox -> Row(MaxAttempts)]
    /\ nextId \in 1..(MaxId + 1)
    /\ alertsOn \in [Admin -> BOOLEAN]
    /\ threshold \in Threshold
    /\ alive \in [Server -> TimeOrNull]
    /\ joined \in [Admin -> TimeOrNull]
    /\ edits \in 0..MaxEdits
    /\ pc \in PCs
    /\ now \in TimeOrNull
    /\ batch \subseteq Item
    /\ allowed \subseteq Admin
    /\ accepted \subseteq Message

Init ==
    /\ TablesInit
    /\ pc = "down" /\ now = Null /\ batch = {}
    /\ allowed \in (SUBSET Admin) \ {{}}
    /\ accepted = {}

-----------------------------------------------------------------------------
(* The worker goroutine.                                                   *)

(* The run is over, or given up at a repository error: the next one starts *)
(* with the next tick.                                                     *)
RunEnds ==
    /\ pc' = "idle" /\ now' = Null /\ batch' = {}
    /\ UNCHANGED <<allowed, accepted>>

(* The first listed row not yet handled.                                   *)
IsNext(item) == item \in batch /\ \A other \in batch : item.id <= other.id

(* The row is handled: on to the next one.                                 *)
Handled(item) ==
    IF batch = {item} THEN RunEnds
    ELSE /\ batch' = batch \ {item}
         /\ pc' = "recheck"
         /\ UNCHANGED <<now, allowed, accepted>>

Goto(place) == pc' = place /\ UNCHANGED <<now, batch, allowed, accepted>>

RunOnce ==
    /\ pc = "idle"
    /\ pc' = "evaluate" /\ now' = clock
    /\ UNCHANGED <<tableVars, batch, allowed, accepted>>

Evaluate == pc = "evaluate" /\ EvaluateAlerts(now, allowed) /\ Goto("list")

(* A failed evaluation is rolled back and does not stop the delivery.      *)
EvaluationFails == pc = "evaluate" /\ Goto("list") /\ UNCHANGED tableVars

List ==
    /\ pc = "list"
    /\ LET due == ListDueAlertOutbox(now, BatchSize)
       IN  IF due = {} THEN RunEnds
           ELSE /\ batch' = {[id |-> i, row |-> outbox[i]] : i \in due}
                /\ pc' = "recheck"
                /\ UNCHANGED <<now, allowed, accepted>>
    /\ UNCHANGED tableVars

(* Render accepts a payload whose event is not before the outage began.    *)
Renders(row) == row.created >= row.since

(* The checks before a send: the allowlist, the preference as it now       *)
(* stands, and the payload.                                                *)
Recheck(item) ==
    /\ pc = "recheck" /\ IsNext(item)
    /\ \/ item.row.user \notin allowed /\ Goto("recipient_removed")
       \/ item.row.user \in allowed /\ ~alertsOn[item.row.user] /\ Goto("recipient_disabled")
       \/ /\ item.row.user \in allowed /\ alertsOn[item.row.user] /\ ~Renders(item.row)
          /\ Goto("invalid_payload")
       \/ item.row.user \in allowed /\ alertsOn[item.row.user] /\ Renders(item.row) /\ Goto("send")
    /\ UNCHANGED tableVars

Suppress(item) ==
    /\ pc \in Suppressing /\ IsNext(item)
    /\ MarkAlertSuppressed(item.id, now, pc)
    /\ Handled(item)

(* Telegram accepts the message; the answer may or may not come back.      *)
SendAccepted(item) ==
    /\ pc = "send" /\ IsNext(item)
    /\ accepted' = accepted \cup {AsMessage(item)}
    /\ pc' \in {"sent", "refused"}
    /\ UNCHANGED <<tableVars, now, batch, allowed>>

SendRefused(item) ==
    /\ pc = "send" /\ IsNext(item)
    /\ Goto("refused") /\ UNCHANGED tableVars

DeliverAnyAnswer(item) ==
    /\ pc \in {"sent", "refused"} /\ IsNext(item)
    /\ MarkAlertDelivered(item.id, now)
    /\ Handled(item)
Deliver(item) ==
    /\ pc = "sent" /\ IsNext(item)
    /\ MarkAlertDelivered(item.id, now)
    /\ Handled(item)

(* The delay goes by the attempts of the row as it was listed.  Times stop *)
(* at MaxTime, and attempts at MaxAttempts, where the delay has stopped    *)
(* growing.                                                                *)
RetryAt(item) ==
    LET attempts == IF item.row.attempts < MaxAttempts
                    THEN item.row.attempts + 1 ELSE MaxAttempts
        next == now + RetryDelay[attempts]
    IN  IF next > MaxTime THEN MaxTime ELSE next

Retry(item) ==
    /\ pc = "refused" /\ IsNext(item)
    /\ MarkAlertFailed(item.id, RetryAt(item), MaxAttempts)
    /\ Handled(item)

(* A repository call fails, or its row is no longer pending: the rest of   *)
(* the batch is given up.                                                  *)
RepositoryFails ==
    /\ pc \in {"list", "recheck", "sent", "refused"} \cup Suppressing
    /\ RunEnds /\ UNCHANGED tableVars

(* The process crashes, or is stopped: the worker leaves at whatever call  *)
(* it is in and the row it was sending stays as it was.                    *)
Crash ==
    /\ pc # "down"
    /\ pc' = "down" /\ now' = Null /\ batch' = {}
    /\ UNCHANGED <<tableVars, allowed, accepted>>

Restart(admins) ==
    /\ pc = "down"
    /\ pc' = "idle" /\ allowed' = admins
    /\ joined' = [u \in Admin |-> IF u \in admins \ allowed THEN clock ELSE joined[u]]
    /\ IF admins = allowed THEN UNCHANGED edits ELSE Edit
    /\ UNCHANGED <<clock, status, created, received, alertState, outbox, nextId,
                   alertsOn, threshold, alive, now, batch, accepted>>

WorkerStep ==
    \/ RunOnce \/ Evaluate \/ EvaluationFails \/ List \/ RepositoryFails
    \/ \E item \in batch : Recheck(item)
    \/ \E item \in batch : Suppress(item)
    \/ \E item \in batch : SendAccepted(item)
    \/ \E item \in batch : SendRefused(item)
    \/ \E item \in batch : Deliver(item)
    \/ \E item \in batch : Retry(item)

Next ==
    \/ WorkerStep
    \/ TablesStep /\ UNCHANGED workerVars
    \/ Crash
    \/ \E admins \in (SUBSET Admin) \ {{}} : Restart(admins)

Spec == Init /\ [][Next]_vars

(* The worker keeps running: the ticker fires, a call returns, systemd     *)
(* starts the process again, time passes.  Nothing is promised of the      *)
(* outcome of one call, but one tried again and again succeeds some day:   *)
(* a repository call, and a send whose answer arrives.                     *)
SendSucceeds(item) == SendAccepted(item) /\ pc' = "sent"
ForRow(i, Action(_)) == \E item \in batch : item.id = i /\ Action(item)
Fairness ==
    /\ WF_vars(WorkerStep)
    /\ WF_vars(Restart(allowed))
    /\ WF_vars(Tick /\ UNCHANGED workerVars)
    /\ SF_vars(RunOnce)
    /\ SF_vars(Evaluate)
    /\ SF_vars(List)
    /\ \A i \in 1..MaxId :
         /\ SF_vars(ForRow(i, Recheck))
         /\ SF_vars(ForRow(i, SendSucceeds))
         /\ SF_vars(ForRow(i, Suppress))
         /\ SF_vars(ForRow(i, Deliver))
FairSpec == Spec /\ Fairness

-----------------------------------------------------------------------------
(* Safety.                                                                 *)

(* A row that waits for delivery belongs to a server that exists and is    *)
(* enabled: disabling and deleting suppress the waiting rows in their own  *)
(* transaction, and no evaluation queues one behind them.                  *)
PendingIsServed ==
    \A i \in DOMAIN outbox : Pending(outbox[i]) =>
        outbox[i].server \in Server /\ status[outbox[i].server] = "enabled"

(* An alert state is either closed or an episode of an enabled server,     *)
(* alerted no sooner than a threshold after its baseline: whatever the     *)
(* clock does, whatever was switched in between.                           *)
Closed(row) == row.offlineSince = Null /\ row.alertSent = Null
OpenedFairly(row) ==
    /\ row.offlineSince # Null /\ row.alertSent # Null
    /\ row.recovered = Null /\ row.updated = row.alertSent
    /\ \E t \in Threshold : row.alertSent - row.offlineSince >= t
EpisodeShape ==
    \A s \in Server :
        \/ Closed(alertState[s])
        \/ OpenedFairly(alertState[s]) /\ status[s] = "enabled"

(* A recipient is told of one outage at most once, and of its end at most  *)
(* once: no evaluation, restart or re-enabling queues the same transition  *)
(* again.  An outage is known by its server and the time it began.         *)
OneRowPerTransition ==
    \A i, j \in DOMAIN outbox :
        /\ outbox[i].server # NoServer
        /\ outbox[i].server = outbox[j].server /\ outbox[i].user = outbox[j].user
        /\ outbox[i].kind = outbox[j].kind /\ outbox[i].since = outbox[j].since
        => i = j

(* A row counts as delivered only if Telegram accepted its message, across *)
(* crashes, restarts and rows changed behind the dispatcher's back.        *)
DeliveredWasAccepted ==
    \A i \in DOMAIN outbox :
        ~Pending(outbox[i]) /\ outbox[i].lastError = "" =>
            \E m \in accepted : m.id = i

(* Every payload the evaluation queues is one Render accepts: the event is *)
(* never dated before the outage it ends.                                  *)
QueuedRowsRender == \A i \in DOMAIN outbox : Renders(outbox[i])

-----------------------------------------------------------------------------
(* What a step may never do.                                               *)

(* An outbox row is never lost while it waits, and a settled one never     *)
(* changes its outcome: a late answer of Telegram does not overwrite a     *)
(* suppression, nor the other way round.                                   *)
OutboxSettlesOnce ==
    [][\A i \in DOMAIN outbox :
        /\ Pending(outbox[i]) => i \in DOMAIN outbox'
        /\ ~Pending(outbox[i]) /\ i \in DOMAIN outbox' =>
              /\ outbox'[i].doneAt = outbox[i].doneAt
              /\ outbox'[i].lastError = outbox[i].lastError]_vars

(* Telegram receives the messages of one recipient and server in outbox    *)
(* order; a message may be repeated, never overtaken.                      *)
InOrder ==
    [][\A item \in batch :
        IsNext(item) /\ pc = "send" /\ AsMessage(item) \in accepted' =>
            \A m \in accepted :
                m.user = item.row.user /\ m.server = item.row.server => m.id <= item.id]_vars

(* A server is reported offline only after a whole threshold without any   *)
(* sign of life: creation, a report, or being enabled again.  A report     *)
(* stored late may shorten it by the time it waited.                       *)
FullGrace ==
    [][\A s \in Server :
        alertState[s].alertSent = Null /\ alertState'[s].alertSent # Null =>
            alertState'[s].alertSent - alive[s] >= threshold - IngestLag]_vars

Queues(i) == i \in DOMAIN outbox' /\ i \notin DOMAIN outbox

(* A recovery is queued only behind the offline row of the same outage and *)
(* recipient, one that was not suppressed.                                 *)
RecoveryFollowsOffline ==
    [][\A i \in DOMAIN outbox' : Queues(i) /\ outbox'[i].kind = "recovery" =>
        \E j \in DOMAIN outbox : LET row == outbox[j] IN
            /\ j < i /\ row.kind = "offline" /\ ~terminalAlertClass(row.lastError)
            /\ row.server = outbox'[i].server /\ row.user = outbox'[i].user
            /\ row.since = outbox'[i].since]_vars

(* Whoever has been a recipient since before a server was reported offline *)
(* is queued the news of its recovery, until the alert is as old as the    *)
(* retention: whether the offline message got through or is still being    *)
(* retried, and whoever else was added, removed or switched off.  Nothing  *)
(* is claimed for an administrator who was no recipient for a while in     *)
(* between: his row may have been suppressed then, even after Telegram had *)
(* accepted its message, and a suppressed row brings no recovery.          *)
IsQueued(s, u) == \E i \in DOMAIN outbox' :
    /\ Queues(i) /\ outbox'[i].server = s /\ outbox'[i].user = u
    /\ outbox'[i].kind = "recovery" /\ outbox'[i].since = alertState[s].offlineSince
Recovers(s) == Open(s) /\ alertState'[s].recovered # Null
Steady(u, at) == u \in enabledAlertRecipients(allowed) /\ joined[u] < at
RecoveryReachesTheSteady ==
    [][\A s \in Server :
        Recovers(s) /\ clock <= alertState[s].alertSent + Retention =>
            \A u \in Admin : Steady(u, alertState[s].alertSent) => IsQueued(s, u)]_vars

(* Whoever was told that a server is offline, and is a recipient when it   *)
(* is back, is queued the news, as the design has it.                      *)
ToldOffline(s, u) == \E m \in accepted :
    m.server = s /\ m.user = u /\ m.kind = "offline" /\ m.since = alertState[s].offlineSince
RecoveryReachesTheTold ==
    [][\A s \in Server : Recovers(s) =>
        \A u \in enabledAlertRecipients(allowed) : ToldOffline(s, u) => IsQueued(s, u)]_vars

-----------------------------------------------------------------------------
(* Refinement.                                                             *)

(* The worker over its tables keeps the contract of AlertContract: the     *)
(* rows that wait are what is owed, the batch is the selection and what    *)
(* Telegram accepted is what was told.  No crash, restart, failed call,    *)
(* edit, cleanup or clock makes a step the contract does not have.         *)
Notice(row) == [server |-> row.server, user |-> row.user, kind |-> row.kind,
                since |-> row.since]
Owed == [i \in {j \in DOMAIN outbox : Pending(outbox[j])} |-> Notice(outbox[i])]
Selected == {[id |-> item.id, notice |-> Notice(item.row)] : item \in batch}
Told == {[id |-> m.id, notice |-> [server |-> m.server, user |-> m.user, kind |-> m.kind,
          since |-> m.since]] : m \in accepted}
Confirmed == {i \in DOMAIN outbox : ~Pending(outbox[i]) /\ outbox[i].lastError = ""}

Contract == INSTANCE AlertContract WITH
    owed <- Owed, next <- nextId, selected <- Selected, told <- Told, confirmed <- Confirmed
KeepsContract == Contract!Spec

-----------------------------------------------------------------------------
(* Liveness.                                                               *)

(* Every queued row is some day delivered or suppressed, whatever fails    *)
(* and however often the process stops.                                    *)
EveryRowIsSettled ==
    \A i \in 1..MaxId : Affected(i) ~> ~Affected(i)

(* A silence past the threshold is noticed, unless it ends first.          *)
Silent(s) == /\ status[s] = "enabled" /\ alertState[s].alertSent = Null
             /\ clock - Baseline(s) >= threshold
SilenceIsNoticed ==
    \A s \in Server : Silent(s) ~> ~Silent(s)

(* The end of an alerted outage is noticed, so that the next one can be.   *)
RecoveryIsNoticed ==
    \A s \in Server :
        alertState[s].offlineSince # Null /\ received[s] > alertState[s].offlineSince
            ~> alertState[s].offlineSince = Null
=============================================================================
