---------------------------- MODULE AlertTables ----------------------------
(***************************************************************************)
(* The tables of the central SQLite store that offline alerting lives in,  *)
(* and every store operation that changes them: servers, latest_metrics    *)
(* (its received_at_ms only), alert_states, alert_outbox,                  *)
(* user_preferences and settings.alert_threshold_seconds.                  *)
(*                                                                         *)
(* The store opens one connection (SetMaxOpenConns(1)), so each operation  *)
(* below is one atomic step.  SQL NULL in a time column is Null (0); every *)
(* stored time is positive.  Names, groups, sort order, tokens and the     *)
(* text of a payload are data the properties do not tell apart.            *)
(*                                                                         *)
(* Where an operation is followed by another of nearly its name, the first *)
(* is the operation with a slip in it, kept to see a property notice.      *)
(***************************************************************************)
EXTENDS Integers, FiniteSets, Functions

CONSTANTS
    Server,         \* the server ids AUTOINCREMENT can hand out
    Admin,          \* the Telegram users that may be administrators
    NoServer,       \* alert_outbox.server_id after ON DELETE SET NULL
    Threshold,      \* the values alert_threshold_seconds may be given
    Retention,      \* age at which a terminal outbox row is removed
    IngestLag,      \* longest wait between sampling received_at and storing it
    RollbackAllowed,\* whether the wall clock may step back
    MaxEdits,       \* bound: edits by the administrator, and clock rollbacks
    MaxTime,        \* bound: the clock, and times derived from it, stop here
    MaxId           \* bound: outbox rows ever queued

Null == 0
Time == 1..MaxTime
TimeOrNull == 0..MaxTime

(* A threshold is a positive duration and outlasts an ingestion; the first *)
(* tick fits in the bound.                                                 *)
ASSUME TablesAssumption ==
    /\ NoServer \notin Server
    /\ Threshold # {} /\ Threshold \subseteq Nat
    /\ IngestLag \in Nat /\ Retention \in Nat
    /\ \A t \in Threshold : t > IngestLag
    /\ RollbackAllowed \in BOOLEAN
    /\ MaxTime \in Nat \ {0} /\ MaxId \in Nat /\ MaxEdits \in Nat

VARIABLES
    clock,       \* the wall clock of the host, in ticks
    status,      \* [Server -> Statuses]: existence and servers.enabled
    created,     \* servers.created_at_ms
    received,    \* latest_metrics.received_at_ms, Null without a report
    alertState,  \* alert_states, NoState without a row
    outbox,      \* alert_outbox, a function from the ids of its rows
    nextId,      \* the AUTOINCREMENT sequence of alert_outbox
    alertsOn,    \* user_preferences.alerts_enabled, TRUE without a row
    threshold,   \* settings.alert_threshold_seconds
    alive,       \* auxiliary: last creation, report or re-enabling seen
    joined,      \* auxiliary: when an administrator last became a recipient
    edits        \* auxiliary: edits so far

tableVars == <<clock, status, created, received, alertState, outbox, nextId,
               alertsOn, threshold, alive, joined, edits>>

Statuses == {"absent", "enabled", "disabled", "deleted"}
Existing == {s \in Server : status[s] \in {"enabled", "disabled"}}

(* alert_states: updated = Null stands for a missing row.                  *)
StateRow == [offlineSince: TimeOrNull, alertSent: TimeOrNull,
             recovered: TimeOrNull, updated: TimeOrNull]
NoState == [offlineSince |-> Null, alertSent |-> Null,
            recovered |-> Null, updated |-> Null]

(* alert_outbox: doneAt is delivered_at_ms, since the payload's            *)
(* offline_since_ms, created both created_at_ms and the payload's event    *)
(* (and recovery) time.                                                    *)
Kinds == {"offline", "recovery"}
SuppressClasses == {"server_disabled", "recipient_disabled",
                    "recipient_removed", "invalid_payload"}
Errors == SuppressClasses \cup {"", "telegram_send_failed"}
AnyErrorClass(class) == class # ""
terminalAlertClass(class) == class \in SuppressClasses

Row(maxAttempts) ==
    [server: Server \cup {NoServer}, user: Admin, kind: Kinds, since: Time,
     created: Time, attempts: 0..maxAttempts, nextAttempt: Time,
     doneAt: TimeOrNull, lastError: Errors]
Pending(row) == row.doneAt = Null

NewRow(s, u, kind, since, now) ==
    [server |-> s, user |-> u, kind |-> kind, since |-> since, created |-> now,
     attempts |-> 0, nextAttempt |-> now, doneAt |-> Null, lastError |-> ""]

-----------------------------------------------------------------------------
(* Parts of the store's transactions.                                      *)

OfflineState(since, now) ==
    [offlineSince |-> since, alertSent |-> now, recovered |-> Null, updated |-> now]
RecoveredStateStillAlerted(now) ==
    [offlineSince |-> Null, alertSent |-> now, recovered |-> now, updated |-> now]
RecoveredState(now) ==
    [offlineSince |-> Null, alertSent |-> Null, recovered |-> now, updated |-> now]
ResetState(now) ==
    [offlineSince |-> Null, alertSent |-> Null, recovered |-> Null, updated |-> now]

(* suppressPendingServerAlerts for each server of ss.                      *)
SuppressPending(rows, ss, now) ==
    [i \in DOMAIN rows |->
        IF rows[i].server \in ss /\ Pending(rows[i])
        THEN [rows[i] EXCEPT !.doneAt = now, !.lastError = "server_disabled"]
        ELSE rows[i]]

(* ON DELETE SET NULL of alert_outbox.server_id.                           *)
Orphan(rows, s) ==
    [i \in DOMAIN rows |->
        IF rows[i].server = s THEN [rows[i] EXCEPT !.server = NoServer] ELSE rows[i]]

-----------------------------------------------------------------------------
(* EvaluateAlerts, at a time the caller sampled, for the administrators it *)
(* was configured with.                                                    *)

Open(s) == alertState[s].offlineSince # Null /\ alertState[s].alertSent # Null

enabledAlertRecipients(admins) == {u \in admins : alertsOn[u]}

BaselineWithoutReset(s) == IF received[s] # Null THEN received[s] ELSE created[s]
Baseline(s) ==
    LET heard == IF received[s] # Null THEN received[s] ELSE created[s]
        row == alertState[s]
    IN  IF row.updated # Null /\ row.recovered = Null /\ row.updated > heard
        THEN row.updated ELSE heard

(* A disabled server still carrying an episode: a state the other          *)
(* operations never leave behind, which the code clears all the same.      *)
Leftover == {s \in Existing :
    /\ status[s] = "disabled"
    /\ alertState[s].offlineSince # Null \/ alertState[s].alertSent # Null}

RecoveredAfterAlert == {s \in Existing :
    status[s] = "enabled" /\ Open(s) /\ received[s] > alertState[s].alertSent}
Recovered == {s \in Existing :
    /\ status[s] = "enabled" /\ Open(s)
    /\ received[s] # Null /\ received[s] > alertState[s].offlineSince}

OverdueEvenDisabled(now) == {s \in Existing : ~Open(s) /\ now - Baseline(s) >= threshold}
OverdueEitherWay(now) == {s \in Existing :
    /\ status[s] = "enabled" /\ ~Open(s)
    /\ now - Baseline(s) >= threshold \/ Baseline(s) - now >= threshold}
OverdueOnceHeard(now) == {s \in Existing :
    /\ status[s] = "enabled" /\ ~Open(s) /\ received[s] # Null
    /\ now - Baseline(s) >= threshold}
Overdue(now) == {s \in Existing :
    /\ status[s] = "enabled" /\ ~Open(s)
    /\ now >= Baseline(s) /\ now - Baseline(s) >= threshold}

(* The current recipients with an offline row of the episode that was not  *)
(* suppressed; a row is found by the time its episode was alerted.         *)
EligibleEvenSuppressed(s, admins) ==
    {u \in enabledAlertRecipients(admins) : \E i \in DOMAIN outbox :
        /\ outbox[i].server = s /\ outbox[i].user = u
        /\ outbox[i].kind = "offline" /\ outbox[i].created = alertState[s].alertSent}
eligibleRecoveryRecipients(s, admins) ==
    {u \in enabledAlertRecipients(admins) : \E i \in DOMAIN outbox :
        /\ outbox[i].server = s /\ outbox[i].user = u
        /\ outbox[i].kind = "offline" /\ outbox[i].created = alertState[s].alertSent
        /\ ~terminalAlertClass(outbox[i].lastError)}

(* The beginning of the outage a recovery payload reports.                 *)
OutageStartLastReport(s) == received[s]
OutageStart(s) == alertState[s].offlineSince

Queued(now, admins) ==
    {NewRow(s, u, "offline", Baseline(s), now) :
        s \in Overdue(now), u \in enabledAlertRecipients(admins)}
    \cup UNION {{NewRow(s, u, "recovery", OutageStart(s), now) :
                    u \in eligibleRecoveryRecipients(s, admins)} : s \in Recovered}

NextStateUnrecorded(s, now) ==
    CASE s \in Leftover  -> ResetState(now)
      [] s \in Recovered -> RecoveredState(now)
      [] OTHER           -> alertState[s]
NextState(s, now) ==
    CASE s \in Leftover     -> ResetState(now)
      [] s \in Recovered    -> RecoveredState(now)
      [] s \in Overdue(now) -> OfflineState(Baseline(s), now)
      [] OTHER              -> alertState[s]

(* One transaction.  Its rows take the next ids in the order of servers    *)
(* and recipients; sort_order, name and Telegram id are not modelled, so   *)
(* any numbering may be it.                                                *)
EvaluateAlerts(now, admins) ==
    LET rows == Queued(now, admins)
        kept == SuppressPending(outbox, Leftover, now)
    IN  /\ \E last \in (nextId - 1) .. MaxId :
             \E row \in Bijection(nextId .. last, rows) :
                /\ outbox' = [i \in DOMAIN outbox \cup nextId .. last |->
                                IF i \in nextId .. last THEN row[i] ELSE kept[i]]
                /\ nextId' = last + 1
        /\ alertState' = [s \in Server |-> NextState(s, now)]
        /\ UNCHANGED <<clock, status, created, received, alertsOn, threshold, alive,
                       joined, edits>>

-----------------------------------------------------------------------------
(* The dispatcher's queries and updates.                                   *)

(* ListDueAlertOutbox: due rows no pending row of the same recipient and   *)
(* server precedes, the limit lowest ids of them.                          *)
DueRows(now) == {i \in DOMAIN outbox :
    Pending(outbox[i]) /\ outbox[i].nextAttempt <= now}
DueBehindNothing(now) == {i \in DueRows(now) :
    ~\E j \in DOMAIN outbox :
        /\ outbox[j].user = outbox[i].user /\ outbox[j].server = outbox[i].server
        /\ j < i}
DueHeads(now) == {i \in DOMAIN outbox :
    /\ Pending(outbox[i]) /\ outbox[i].nextAttempt <= now
    /\ ~\E j \in DOMAIN outbox :
         /\ outbox[j].user = outbox[i].user /\ outbox[j].server = outbox[i].server
         /\ Pending(outbox[j]) /\ j < i}
ListDueAlertOutbox(now, limit) ==
    {i \in DueHeads(now) : Cardinality({j \in DueHeads(now) : j < i}) < limit}

(* UPDATE ... WHERE id = i AND delivered_at_ms IS NULL affects a row.      *)
AffectedById(i) == i \in DOMAIN outbox
Affected(i) == i \in DOMAIN outbox /\ Pending(outbox[i])

otherTables == <<clock, status, created, received, alertState, nextId, alertsOn,
                 threshold, alive, joined, edits>>

MarkAlertDelivered(i, now) ==
    /\ Affected(i)
    /\ outbox' = [outbox EXCEPT ![i].doneAt = now, ![i].lastError = ""]
    /\ UNCHANGED otherTables

MarkAlertSuppressed(i, now, class) ==
    /\ Affected(i)
    /\ outbox' = [outbox EXCEPT ![i].doneAt = now, ![i].lastError = class]
    /\ UNCHANGED otherTables

MarkAlertFailedUnsafely(i, next, maxAttempts) ==
    /\ Affected(i)
    /\ outbox' = [outbox EXCEPT ![i].attempts = IF @ < maxAttempts THEN @ + 1 ELSE @,
                                ![i].nextAttempt = next,
                                ![i].lastError = "Post sendMessage: deadline exceeded"]
    /\ UNCHANGED otherTables
MarkAlertFailed(i, next, maxAttempts) ==
    /\ Affected(i)
    /\ outbox' = [outbox EXCEPT ![i].attempts = IF @ < maxAttempts THEN @ + 1 ELSE @,
                                ![i].nextAttempt = next,
                                ![i].lastError = "telegram_send_failed"]
    /\ UNCHANGED otherTables

(* The daily cleanup's share of the outbox.                                *)
ExpiredOnTheDay(row) == ~Pending(row) /\ row.doneAt <= clock - Retention
Expired(row) == ~Pending(row) /\ row.doneAt < clock - Retention
DeleteTerminalAlertOutboxBefore ==
    /\ clock > Retention
    /\ outbox' = [i \in {j \in DOMAIN outbox : ~Expired(outbox[j])} |-> outbox[i]]
    /\ UNCHANGED otherTables

-----------------------------------------------------------------------------
(* Operations of the administrator, of agents, and the passing of time.    *)

Edit == edits < MaxEdits /\ edits' = edits + 1

CreateServer(s, enabled) ==
    /\ status[s] = "absent"
    /\ status' = [status EXCEPT ![s] = IF enabled THEN "enabled" ELSE "disabled"]
    /\ created' = [created EXCEPT ![s] = clock]
    /\ alive' = [alive EXCEPT ![s] = clock]
    /\ UNCHANGED <<clock, received, alertState, outbox, nextId, alertsOn, threshold,
                   joined, edits>>

(* An edit that leaves enabled alone touches no alert table.               *)
UpdateServer(s, enabled) ==
    /\ s \in Existing
    /\ enabled # (status[s] = "enabled") /\ Edit
    /\ status' = [status EXCEPT ![s] = IF enabled THEN "enabled" ELSE "disabled"]
    /\ alertState' = [alertState EXCEPT ![s] = ResetState(clock)]
    /\ outbox' = IF enabled THEN outbox ELSE SuppressPending(outbox, {s}, clock)
    /\ alive' = IF enabled THEN [alive EXCEPT ![s] = clock] ELSE alive
    /\ UNCHANGED <<clock, created, received, nextId, alertsOn, threshold, joined>>

(* The cascade removes latest_metrics and alert_states rows.               *)
DeleteServer(s) ==
    /\ s \in Existing /\ Edit
    /\ outbox' = Orphan(SuppressPending(outbox, {s}, clock), s)
    /\ status' = [status EXCEPT ![s] = "deleted"]
    /\ created' = [created EXCEPT ![s] = Null]
    /\ received' = [received EXCEPT ![s] = Null]
    /\ alertState' = [alertState EXCEPT ![s] = NoState]
    /\ alive' = [alive EXCEPT ![s] = Null]
    /\ UNCHANGED <<clock, nextId, alertsOn, threshold, joined>>

SetAlertPreference(u, enabled) ==
    /\ enabled # alertsOn[u] /\ Edit
    /\ alertsOn' = [alertsOn EXCEPT ![u] = enabled]
    /\ joined' = IF enabled THEN [joined EXCEPT ![u] = clock] ELSE joined
    /\ UNCHANGED <<clock, status, created, received, alertState, outbox, nextId,
                   threshold, alive>>

UpdateSettings(t) ==
    /\ t # threshold /\ Edit
    /\ threshold' = t
    /\ UNCHANGED <<clock, status, created, received, alertState, outbox, nextId,
                   alertsOn, alive, joined>>

(* A report authenticated while the server was enabled and stamped up to   *)
(* IngestLag before it is stored; two of them may be stored out of order,  *)
(* and one may land after the server was disabled.  A clock that has       *)
(* stepped back in between leaves the stamp ahead of it.                   *)
Lead == IF RollbackAllowed /\ edits > 0 THEN 1 ELSE 0
UpsertLatestMetrics(s, at) ==
    /\ s \in Existing
    /\ at \in (clock - IngestLag) .. (clock + Lead)
    /\ received' = [received EXCEPT ![s] = at]
    /\ alive' = [alive EXCEPT ![s] = IF at > @ THEN at ELSE @]
    /\ UNCHANGED <<clock, status, created, alertState, outbox, nextId, alertsOn, threshold,
                   joined, edits>>

Tick ==
    /\ clock < MaxTime
    /\ clock' = clock + 1
    /\ UNCHANGED <<status, created, received, alertState, outbox, nextId, alertsOn,
                   threshold, alive, joined, edits>>

ClockStepsBack ==
    /\ RollbackAllowed /\ clock > 1 /\ Edit
    /\ clock' = clock - 1
    /\ UNCHANGED <<status, created, received, alertState, outbox, nextId, alertsOn,
                   threshold, alive, joined>>

(* What happens to the tables from outside the alert worker.               *)
TablesStep ==
    \/ Tick
    \/ ClockStepsBack
    \/ \E s \in Server, b \in BOOLEAN : CreateServer(s, b)
    \/ \E s \in Server, b \in BOOLEAN : UpdateServer(s, b)
    \/ \E s \in Server : DeleteServer(s)
    \/ \E s \in Server, at \in Time : UpsertLatestMetrics(s, at)
    \/ \E u \in Admin, b \in BOOLEAN : SetAlertPreference(u, b)
    \/ \E t \in Threshold : UpdateSettings(t)
    \/ DeleteTerminalAlertOutboxBefore

TablesInit ==
    /\ clock = 1
    /\ status = [s \in Server |-> "absent"]
    /\ created = [s \in Server |-> Null]
    /\ received = [s \in Server |-> Null]
    /\ alertState = [s \in Server |-> NoState]
    /\ outbox = [i \in {} |-> NoState]
    /\ nextId = 1
    /\ alertsOn = [u \in Admin |-> TRUE]
    /\ threshold \in Threshold
    /\ alive = [s \in Server |-> Null]
    /\ joined = [u \in Admin |-> Null]
    /\ edits = 0
=============================================================================
