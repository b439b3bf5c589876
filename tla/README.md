# Formal models of tg-monitor

tg-monitor is a central server in Go that collects metrics from Linux agents,
keeps them in SQLite, tells administrators through Telegram when a server falls
silent and when it is back, and offers a Telegram mini app and DNS management.
This directory models the parts of it where order, failure and time decide
correctness, checks them with TLC and proves the main results with TLAPS.

Run TLC from this directory, one command per row of the tables below:

    tlc -workers 2 -config AlertTiming.cfg MCAlertWorker.tla
    tlapm AlertWorkerProofs.tla
    tlapm AlertContractProofs.tla
    tlapm AlertOrderProofs.tla
    tlapm MinuteIngestProofs.tla
    tlapm TelegramWebhookProofs.tla
    tlapm OperatorSessionsProofs.tla
    tlapm DnsZoneProofs.tla
    tlapm AgentReportingProofs.tla

## 1. Inventory

| Component (`src/internal/...`) | State it keeps | Operations | What is hard | What makes it correct |
|---|---|---|---|---|
| `alerting` + `storage/sqlite/alerts.go`, `alert_outbox.go` | `alert_states`, `alert_outbox`, the batch of the running dispatcher | evaluate, list due, recheck, send, mark delivered / suppressed / failed | rows change between list and send; answers are lost; crashes between send and mark; clock steps back; restarts with another allowlist | one message per transition and recipient, in order, after a full grace period; nothing waiting is lost; everything is settled |
| `monitoring`, `httpapi`, `auth` | one accumulator per server behind one mutex | ingest, checkpoint | a failing call in the middle, the checkpoint between two reports, deleted servers | history of a closed minute is exactly what was accepted; no path keeps the mutex |
| `domain` | none (values) | validate, accumulate, average | averages and totals of different reports in one sample | a valid minute can be stored |
| `serverapp` | life of the process, shutdown deadline | start, workers, retention, cleanup, shutdown | one deadline for draining and the last checkpoint; a failed listener leaves handlers behind | a clean stop loses nothing |
| `storage/sqlite` (rest) | servers, settings, preferences, sessions, Telegram updates | transactions, foreign-key cascades | cascades against running handlers | edits leave the tables consistent with each other |
| `adminapi` | none | authorise, then edit servers, tokens, settings, preferences; DNS pages | a row is read in one call and written in another; a token is stored in one step and shown in the next | an edit undoes nothing, a shown token is one that was stored |
| `telegrambot`, `telegramapi` | recorded update ids (in SQLite) | webhook, commands, send, set and delete the webhook | redelivery, crash between record and reply, purge by age, slow handlers overtaken | a command is executed at most once, and not lost without a fault |
| `sessionapi`, `websession`, `telegramauth` | sessions (in SQLite) | login, read, logout, expiry, cleanup | expiry and logout race requests; a logout that fails half way | an expired or closed session opens nothing, an open one lasts its term |
| `agentapp`, `agentclient`, `linuxmetrics` | the previous snapshot | capture, build, send, classify the answer | requests that arrive after they were given up, counters that start anew, retryable against permanent answers, exit codes | no byte is reported twice; a fault that passes never silences an agent for good |
| `cloudflare` | none (remote records) | list page by page, fetch, create, update, delete | the zone changes between pages, and between check and act | a record is changed only as its administrator saw it, a listing is complete |
| `scripts/manage.sh`, `deploy` | installed files and units | install, upgrade, uninstall | a step fails half way | the previous version is restored |
| `servercmd`, `agentcmd`, `cmd`, `config` | none | server add, rotate-token, set-webhook, delete-webhook; what a start reads | they act beside the running server, which goes on with what it read | as for sessions and the webhook |
| `webapp` | none | static files | - | - |

How they interact.  Agents call `POST /api/v1/metrics`; the handler authenticates
against `servers`, samples the receive time and calls `monitoring.Service`, which
holds its mutex across up to two store calls.  The checkpoint worker calls the
same service every interval and once more at shutdown.  The alert worker reads
`latest_metrics.received_at_ms`, `servers`, `settings` and `user_preferences`,
and writes `alert_states` and `alert_outbox`.  The administrator changes the
former four through `adminapi` or a bot command, at any moment.  The retention
worker removes old samples and settled outbox rows, another one expired sessions
and old update ids.  Browsers log in with Telegram's signed init data, get a
session, and every call of the admin API looks the session up before it touches
the tables; the DNS pages go through `cloudflare.Client` to a zone that belongs
to the provider.  Telegram posts updates to the webhook and repeats them until
they are answered with a success.  The shell commands open the same database
beside the running server.  All of them share one SQLite connection
(`SetMaxOpenConns(1)`, `sqlite.go`), so that one repository call is one atomic
step; everything between two calls can be interleaved.

The hazards, each at its line, are listed in `PROJECT.json`.

## 2. Modules

| Module | Models | State |
|---|---|---|
| `AlertContract` | what alerting promises: notices owed, selected, told, confirmed | `owed`, `next`, `selected`, `told`, `confirmed` |
| `AlertTables` | the alert tables and every store operation on them | `status`, `created`, `received`, `alertState`, `outbox`, `nextId`, `alertsOn`, `threshold`, `clock` |
| `AlertWorker` | the worker goroutine, Telegram and the process over `AlertTables`; implements `AlertContract` | `pc`, `now`, `batch`, `allowed`; `accepted` is what Telegram received |
| `AlertWorkerProofs` | the inductive invariant and the theorems | - |
| `AlertContractProofs` | `AlertWorker` implements `AlertContract` | - |
| `AlertOrderProofs` | theorems about the order and the dates of alerts | - |
| `MinuteIngest` | handlers, `monitoring.Service`, checkpoint, retention, process life | `request`, `lock`, `active`, `left`, `latest`, `samples`, `app`, `deadline` |
| `MinuteAverage` | the average of a minute with Go's integers, and the store's check | `active`, `samples`, `answer` |
| `TelegramWebhook` | webhook handlers, commands, recorded ids and their purge, Telegram's redelivery, the configuration on disk and the one loaded | `held`, `delivery`, `recorded`, `preference`, `registered`, `config`, `loaded`, `up` |
| `OperatorSessions` | login, sessions, logout, cleanup; the admin API's and the shell's edits of a server and its token | `login`, `sessions`, `request`, `server` |
| `MinuteIngestProofs`, `TelegramWebhookProofs`, `OperatorSessionsProofs`, `DnsZoneProofs`, `AgentReportingProofs` | the inductive invariant and the theorems of the module each is named for | - |
| `DnsZone` | the DNS pages over a zone with other clients | `zone`, `view`, `request` |
| `AgentReporting` | the agent's loop and client, a network, the answers of the metrics endpoint, the service manager | `counter`, `at`, `previous`, `request`, `stored`, `enabled`, `lead` |
| `MCAlertWorker`, `MCMinuteIngest`, `MCTelegramWebhook`, `MCOperatorSessions`, `MCDnsZone`, `MCAgentReporting` | instances for TLC | - |

`AlertWorker` extends `AlertTables`: its next-state relation is a step of the
worker, a step of the tables from outside, a crash or a restart.  The other
modules stand for themselves; where two of them meet, one takes what the other
does as an input: `AgentReporting` reduces the ingestion of `MinuteIngest` to its
answers (accepted, 401 or 403, 409, 500), `AlertTables` takes the reports and the
edits of preferences and servers as steps from outside at any moment.  Names of
actions are those of the functions (`EvaluateAlerts`, `ListDueAlertOutbox`,
`MarkAlertFailed`, `UpdateServer`, `Checkpoint...`); `map` in `PROJECT.json`
gives the lines of each.

What is abstracted.

* Times are ticks; SQL NULL is 0.  A payload is the pair (beginning of the
  outage, time of the event): the renderer tells nothing else apart once the
  name is valid.  Names and groups are left out.
* The order in which one evaluation numbers its rows depends on `sort_order`,
  name and Telegram id; the model allows every order.
* A report is its server and minute in `MinuteIngest`, where a sample is the
  number of reports it averages, an amount with its total in `MinuteAverage`,
  where arithmetic matters, and the bytes its rate stands for in
  `AgentReporting`.
* Secrets, tokens and sessions are numbered in the order they are issued: a
  random token is never guessed and never issued twice.  A request may carry
  any token ever issued.
* `AgentReporting` does not count minutes: `lead` is how far the host's clock
  has fallen behind the server's active minute, and a report is `behind` it or
  not.  A capture that fails, and a build that fails for another reason than a
  reset, change nothing and are no steps.
* In `TelegramWebhook` a command sets a preference; `none` stands for every
  text that is no command, and `/status`, which only reads, is left out.  A crash is a crash of the server
  only; Telegram is external, and so is the provider in `DnsZone`.
* `alive` (last sign of life), `joined` (when an administrator last became a
  recipient), `accepted`, `acked`, `failed`, `sent`, `edits`, `ran`, `gaveUp`,
  `dropped`, `granted`, `closed`, `shown`, `moved`, `raced`, `stable` and `left`
  (records that left the pages a listing has read) are auxiliary: no action
  reads them except as a bound.

A definition that is followed by one of nearly its name (`DueRows` and
`DueHeads`) is the operation with a plausible slip; substituting it must make
the property named in `PROJECT.json` fail.

## 3. Runs

| Run | Config | Shows |
|---|---|---|
| `alert_two_admins` | `AlertTwoAdmins` | One server, two administrators, batch of 2, two edits.  `PendingIsServed`, `DeliveredWasAccepted`, `OutboxSettlesOnce`, `InOrder`, `RecoveryFollowsOffline`, `RecoveryReachesTheSteady` |
| `alert_timing` | `AlertTiming` | Two thresholds, reports stored one tick late, retention of one tick.  `EpisodeShape`, `OneRowPerTransition`, `QueuedRowsRender`, `FullGrace`, `RecoveryReachesTheSteady` |
| `alert_rollback` | `AlertRollback` | The clock also steps back.  `EpisodeShape`; `KeepsContract`, the refinement of `AlertContract` |
| `alert_liveness` | `AlertLiveness` | `EveryRowIsSettled`, `SilenceIsNoticed`, `RecoveryIsNoticed` under `FairSpec` |
| `minute_history` | `MinuteHistory` | Two servers, two handlers, three minutes.  `ClosedMinuteIsComplete`, `LatestIsOfActiveMinute`, `CleanStopPersists` |
| `minute_answers` | `MinuteAnswers` | `EveryReportIsAnswered` under `FairSpec` |
| `telegram_webhook` | `TelegramWebhook` | Two updates of one chat, two deliveries in flight, one edit.  `CommandAtMostOnce`, `NothingLostUnnoticed`, `LastCommandStands`, and `EveryUpdateLeaves` under `FairSpec` |
| `operator_sessions` | `OperatorSessions` | One session, two requests, two agent tokens.  `AccessIsBounded`, `LoggedOutStaysOut`, `SessionLastsItsTerm`, `ShownTokenIsStored`, `EditsUndoNothing` |
| `dns_zone` | `DnsZone` | Two administrators, pages of one record, three records and a fourth that may be added, two changes by anyone.  `ListingIsComplete`, `AppliedAsSeen` |
| `agent_reporting` | `AgentReporting` | Two interfaces, two requests on their way, two faults.  `NoByteReportedTwice`, `EndsOnlyIfAsked`, and `HeardAgain` under `FairSpec` |
| `alert_cleanup` | `AlertCleanup` | fails: section 4 |
| `minute_shrinks` | `MinuteShrinks` | fails: section 4 |

The refinement.  `AlertContract` says what the administrator may rely on without
a word of SQL: a notice is owed until it is confirmed or withdrawn, a sender
works through a selection of the oldest notices of each conversation, tells what
it selected any number of times, and confirms only what was told.
`AlertWorker` implements it with the pending rows as what is owed, the batch as
the selection, the messages Telegram accepted as what was told and the delivered
rows as what is confirmed.  A crash lets the selection go, the cleanup forgets,
a disabled server withdraws.  The contract lets a notice be told that was
withdrawn after it was selected, as the code does (section 4).

Bounds and why they suffice.  `MaxTime` lets an outage be alerted, end and be
alerted again (threshold 2: offline at 3, recovered at 4 or 5), and `MaxId`
holds the rows of that history for the recipients of the run.  Two recipients
and a batch of two give every order in which heads are listed, skipped and
held back; two edits give disable/enable and disable/delete pairs around a
run.  Rows and states of one server never refer to another server, so one
server suffices for the row properties.  `MaxAttempts` and `RetryDelay` keep a
delay that grows once.  In `MinuteIngest` three reports in three minutes give a
rollover with a report before and after it; two edits give stop and crash, or
deletion and stop.  Symmetry (servers, administrators, handlers) is used in
safety runs only.

What the instances do not reach: more due heads than the batch takes.  With one
server the heads are at most one per recipient, and a liveness run with two
recipients needs four rows, whose fairness conditions TLC cannot hold in memory.

In `TelegramWebhook` two updates are a command and the one that follows it in
the chat, two deliveries the late handler and the one that overtakes it; three
days let an id be recorded, kept past Telegram's own term and purged.  Chats do
not wait for each other, and a preference is its owner's, so one account stands
for all.  In `OperatorSessions` two requests race each other and the logout
while the session expires (two ticks of four); sessions touch nothing but
their own row, so one stands for all, and the proofs of section 5 do not depend
on it.  In `DnsZone` three records fill the three pages a listing may have, so
that a listing can run its whole length while records leave its pages, come onto
them and change places, and a fourth record makes a page too many; five stamps
are two changes beside the three records that exist at first, enough for two
records to be lost.  In
`AgentReporting` two requests are one that was given up and the one after it;
two bytes on two interfaces tell a reset of one from traffic of the other; two
faults give crash and reset, rotation and clock.  Larger bounds (three bytes,
three faults) were run as well and gave the same result.

Where a bound blocks: the clock stops at `MaxTime`, an evaluation that would
need more than `MaxId` rows is not taken, attempts and retry times saturate.
The bounds of `alert_liveness` are such that the first two do not hide an
obligation: two ticks and one edit admit one offline and one recovery row.
Deadlock is checked except in `TelegramWebhook`, `OperatorSessions` and
`DnsZone`, where everything may have been asked, answered and used up.

Fairness.  `AlertWorker`: the worker goroutine runs whenever it can (weak, the
ticker and the scheduler); a process that failed is started again with the same
allowlist (`Restart=on-failure` in `deploy/systemd`, and one that was stopped by
its operator); time passes.  A repository call and
a send may fail, and the process may crash, any number of times; strong
fairness says that a call tried again and again succeeds some day, per row
where it is about a row.  Nothing forces the administrator, agents or the
cleanup to act.  `MinuteIngest`: a repository call returns, in success or
failure (a context deadline or the driver), and Go's mutex does not starve a
waiter; no more is assumed, in particular no process start.
`TelegramWebhook`: the server is started again, a handler goes on (weak);
Telegram, which repeats an update until it is answered, delivers it in the end,
and a delivery that arrives again and again is recorded and answered some day
(strong): store and network may fail any number of times, not for ever.
`AgentReporting`: systemd starts a failed agent after 30 seconds, a baseline is
captured, the client's timeout expires, minutes pass, and a request nobody waits
for arrives or is lost (weak); `/proc` is readable and the network delivers
often enough for a report to be sent and answered (strong).  Nothing forces the
operator to do anything: `HeardAgain` assumes only that he leaves the agent
wanted, enabled and in possession of the token.

## 4. Where the code and its documents part

* `alert_cleanup`: recipients of a recovery are found through the offline rows
  of the outbox; the cleanup deletes those 30 days after delivery.  An outage
  longer than that ends without a word to anyone, although the design promises
  a recovery for each current recipient.
* `minute_shrinks`: used bytes are averaged over the minute, the total is the
  last report's.  If the total shrinks within the minute the sample can be
  refused by `validateMinuteSample`, and since a later minute begins only after
  the flush, the server's reports fail with 500 until the process restarts.
  `MinuteIngest` allows any call to fail and so contains the consequence;
  `MinuteAverage` shows that it needs no fault of the store.  The sums are
  64-bit and `Wrap` keeps their width; the run does not need the wrap.

Three more, which no run of this directory shows by a violation:

* A told recipient who is passed over (`alerts.go:250`).  Telegram accepts an
  offline message and its answer is lost, or the row cannot be marked, so that it
  is tried again; meanwhile the recipient switches alerts off, so that the retry suppresses the row, and on
  again.  The recovery skips a suppressed row, and he is never told that the
  server is back, however recent the alert; a restart with another allowlist and
  back does the same.  `RecoveryReachesTheTold` fails in the bounds of
  `alert_two_admins` along this path.  What the code does keep is
  `RecoveryReachesTheSteady`, checked and proved: until the alert is as old as
  the retention, whoever was a recipient throughout is queued the recovery,
  whether his offline message got through or is still being retried, and
  whatever the others were told or switched.  It claims nothing of someone who
  was no recipient for a while.
* A stale batch.  The dispatcher rechecks the recipient but not the row
  (`dispatcher.go:97`).  A row suppressed by disabling or deleting its server
  while the dispatcher holds the batch is still sent, although the design says
  that disabling suppresses the undelivered rows; the update that follows finds
  no pending row and ends the run.  `Recheck` and `SendAccepted` in `AlertWorker` do the same,
  `OutboxSettlesOnce` shows that the suppression stands, and `AlertContract`
  says no more than the code does.
* The dating of a recovery.  It carries the evaluation's clock and is decided by
  the report's receive time (`alerts.go:88`).  After the clock steps back the
  payload ends before it begins and is suppressed as `invalid_payload`:
  `QueuedRowsRender` is an invariant where the clock only advances
  (`PayloadsRender`), and fails with `RollbackAllowed`, although the design says that a
  rollback cannot create a transition.

Observations that contradict no promise: the shutdown's ten seconds are shared
by draining and the last checkpoint; a checkpoint stores an expired minute of a
silent server again; a deleted server's accumulator makes every checkpoint
report an error; a failed listener does not wait for handlers in flight; a
command whose process dies after its update was recorded is not carried out
again; a slow webhook handler that Telegram gave up on may overwrite the
preference of the command that overtook it; a DNS record changed between the
fetch and the change of one request is overwritten; a request cut short while
its update id is being recorded is answered with 503 although the id may be
stored, and the redelivery is then taken for a duplicate.

One more needs room.  The pages of a zone are read one after
the other by number (`client.go:186-215`).  When a record of a page already read
is deleted, or moves behind it, the first record of the next page moves forward,
onto a page that is not read again, and the console does not show it.
`ListingIsComplete` bounds the loss by the number of records that left; with 0
in its place TLC finds the loss.  No document promises more, and an edit based
on such a page is still compared with the record itself (`AppliedAsSeen`).

## 5. Proofs

Every safety property that a passing run checks is a theorem as well, for every
value of the constants that satisfies the assumptions of the module
(`TablesAssumption` and `WorkerAssumption`, `IngestAssumption`,
`WebhookAssumption`, `SessionsAssumption`, `DnsAssumption`, `AgentAssumption`):
`Spec` implies

| Module | Theorem | Property |
|---|---|---|
| `AlertWorkerProofs` | `TypeCorrect` | `[]TypeOK` |
| | `PendingServed` | `[]PendingIsServed` |
| | `EpisodesShaped` | `[]EpisodeShape` |
| | `DeliveredAccepted` | `[]DeliveredWasAccepted` |
| | `SettledOnce` | `OutboxSettlesOnce` |
| `AlertContractProofs` | `ContractKept` | `KeepsContract` |
| `AlertOrderProofs` | `MessagesInOrder` | `InOrder` |
| | `PayloadsRender` | `[]QueuedRowsRender`, if `~RollbackAllowed` |
| | `OneRowEach` | `[]OneRowPerTransition`, if `~RollbackAllowed` |
| | `RecoveryFollows` | `RecoveryFollowsOffline`, if `~RollbackAllowed` |
| | `GraceIsFull` | `FullGrace`, if `~RollbackAllowed` |
| | `RecoveryReaches` | `RecoveryReachesTheSteady`, if `~RollbackAllowed` |
| `MinuteIngestProofs` | `TypeCorrect` | `[]TypeOK` |
| | `LatestFollows` | `[]LatestIsOfActiveMinute` |
| | `ClosedMinutesComplete` | `[]ClosedMinuteIsComplete` |
| | `CleanStopKeepsAll` | `[]CleanStopPersists` |
| `TelegramWebhookProofs` | `TypeCorrect` | `[]TypeOK` |
| | `AtMostOnce` | `[]CommandAtMostOnce` |
| | `NothingLost` | `[]NothingLostUnnoticed` |
| | `LastCommand` | `[]LastCommandStands` |
| `OperatorSessionsProofs` | `TypeCorrect` | `[]TypeOK` |
| | `AccessBounded` | `[]AccessIsBounded` |
| | `LogoutIsFinal` | `[]LoggedOutStaysOut` |
| | `SessionLasts` | `[]SessionLastsItsTerm` |
| | `ShownIsStored` | `[]ShownTokenIsStored` |
| | `NothingIsUndone` | `EditsUndoNothing` |
| `DnsZoneProofs` | `TypeCorrect` | `[]TypeOK` |
| | `ListingComplete` | `[]ListingIsComplete` |
| | `OnlyAsSeen` | `AppliedAsSeen` |
| `AgentReportingProofs` | `TypeCorrect` | `[]TypeOK` |
| | `NoDoubleCount` | `[]NoByteReportedTwice` |
| | `RestsOnlyIfAsked` | `[]EndsOnlyIfAsked` |

The hypotheses of `AlertOrderProofs` are those of the runs.  `RollbackAllowed`
is a constant of the model; with a clock that steps back (`alert_timing` with
`RollbackAllowed`, three edits, three rows, six ticks and a retention of nine)
`QueuedRowsRender`, `OneRowPerTransition` and `FullGrace` fail, as they would
for the code, and nothing is claimed of the recoveries.

### `AlertWorker`

The inductive invariant.  `TypeOK` is not inductive by itself, since evaluation
dates its rows with the run's time and with a server's creation: `Typed` adds
that a run has a time and that a server which exists has one of birth.
`FreshIds` (the ids of rows lie below `nextId`) is what makes an evaluation
leave older rows alone; `SettledOnce` rests on it.
`DeliveredWasAccepted` is not inductive, since a row is marked a step after the
send: `SentIsAccepted` (at `sent`, the message of the row being handled is among
the accepted) is the missing link.  `PendingIsServed` and `EpisodeShape` are
inductive over `Typed`; the evaluation queues rows for enabled servers only,
and the edits suppress and reset in the same transaction.  Each step lemma has
one case per action.

The refinement.  `ContractKept` needs `PendingIsServed`, since an evaluation that
suppressed a waiting row would withdraw and announce in one step, `FreshIds`,
since an announced notice must be a new one, and `InHand`, about the rows in the
worker's hands: there are none between two runs (a selection is made only with
empty hands), no two have one id (handling a row lets go of exactly that
notice), and at `sent` the message of the row being handled was accepted as it
was listed, in all its parts.  Then each step maps: evaluation announces,
listing selects the heads, which are the oldest owed of their conversations, an
accepted send tells, a delivery confirms, suppressing, disabling and deleting
withdraw, the cleanup forgets; a retry, a failure or a crash lets go, and the
other steps are not seen by the contract (`QuietStepKept`).

Order.  `InOrder` is about rows that were listed earlier, which the tables may
have changed since.  `Ordered` says that nothing waits in a conversation before
what was accepted of it (`Passed`) or before what is in hand (`Headed`), that
two rows in hand are of different conversations (`Apart`), and that nothing
accepted comes behind a row in hand of its conversation (`Behind`).  A row that
no longer waits never waits again and new rows take higher ids (`RowStays`,
`RowComes`, `StaysClear`), so a listing cannot pick a row that was passed.

Dates.  The other five properties compare times of an alert state, of reports
and of rows that were written in different transactions, some of them late.
`Chronology` is what holds of these times while the clock only advances.
For a server that exists, `FreshAt`: its last sign of life is no later than the
time its next outage will be counted from, but for the lag of one report; and if
its outage is open, a report that ends it was stored after the alert, but for
that lag.  `DatedAt`, of a server and a row queued for it: while no outage is
open, every row is of an outage that began before the next one could; while one
is open, no row is of its end, and its own offline rows are exactly those created
with the alert.  `Past`: a row's outage began longer ago than a report may lag,
so that a report stored late cannot take the baseline back to it; this is where
a threshold has to exceed the lag.  The dates of one server under one kind of
change are arithmetic without state (`DatesHeard`, `DatesReset`, `DatesAlerted`,
`DatesEnded`), and `ServerStep` reduces every step to one such change.  An
outage that is queued is then later than every one queued before
(`QueuedAnew`), hence `OneRowEach`; the offline row that
`eligibleRecoveryRecipients` finds by the alert's time is of this outage, hence
`RecoveryFollows`; and `FreshAt` gives the full grace.

`RecoveryReaches` needs an account of every row that an open episode was told
by.  `Announced` says that each administrator who has been a recipient since
before the alert has an offline row of the episode that is not suppressed, until
the retention is over.  The evaluation gives him that row.  It leaves only by the
cleanup, which counts from a time not before the row was created (`DoneAfter`,
from `Begun`: a run settles only rows that were there when it began, or its own).
It is not suppressed while the server stays enabled: `Held` says that a row in
hand is as it was listed and renders, and `Cutting` that the worker, once it is
about to suppress a row, does so to someone who is no recipient or became one
after the row was created, since the recheck and the suppression are two steps
and he may have switched back in between.

### The other modules

`MinuteIngest`.  `Books` is about the mutex: a handler is inside the service
exactly while it holds it (`MutexHeld`), it has compared its minute with the
accumulator's, and the accumulator counts what was accepted in its minute, with
nothing accepted for a later one (`Counted`).  `TypeOK` follows only with
`Sent`: accepted reports and reports in flight together are no more than were
sent, so that no count passes its bound.  `History` adds that a flushed
minute is stored before the accumulator turns to the next one (`Flushed`), which
`ClosedMinuteIsComplete` needs where the second of two store calls fails.
`Ending` is about the shutdown: in time nobody is left inside when the final
checkpoint runs (`Quiet`), and what it has been through is stored
(`Checkpointed`).

`TelegramWebhook`.  A command is carried out once because its id is on record
when it is carried out and stays there for as long as any handler can hold it.
`Clocked` bounds the age of what a handler works on (Telegram kept it when it was
delivered, at most a day ago); `Lasting` says that what a handler carries out
or answers was recorded no earlier than its delivery began, so that the cleanup
has not reached it; `Once` says that what was carried out is on record
or too old for any handler, which is where the retention has to exceed what
Telegram keeps.  `Dealt` gives `NothingLost`; `InTurn` (nothing later of a chat
was touched while Telegram waits for an earlier update) gives `LastCommand`.

`OperatorSessions`.  The inductive invariant has two independent parts over
`TypeOK`.  `Access` follows a token from the login to the request.  None of the
properties about access is inductive: a request that acts looked its session up
earlier, so that its right must be carried by the request itself.
`RequestIsTimely` says that a request that acts was begun before the expiry its
token was granted, is not older than a tick, and was not late when it began;
`RowIsGranted` and `ClosedHasNoRow` are what the lookup finds, `TermIsBounded`
and `LoginIsYoung` tie the expiry to the init data.  `Agents` follows the
server's token from the row to the answer: a stored answer is not newer than
the row (`AnswerIsStored`), a handler's copy of the row is one of a server that
was there (`CopyIsPresent`), and a server that does not exist yet has no token.
A request that merely goes on, or ends, is handled once (`CarriesOn`) for all of
the admin API's steps.

`DnsZone`.  A page is a range of ranks among the records there are when it is
read.  Of the managed records that stood all the while, `Ahead` counts those
that rank on a page already read without having been read (`Lost`): they are no
more than the records that left those pages.  One change of the zone moves the
rank of every other record by one place at most (`RankMonotone`,
`RankInjective`), and pulls a record across the border only when another
leaves (`Pull`, `NoPull`).  A listing that ends at the last page has passed every
rank (`WithinPages`), so that what it misses is lost.  `Compared` says that an edit
about to act was compared with the record as it is, or was overtaken since.

`AgentReporting`.  `Accounted` is a balance: the bytes accepted, those carried by
a request (also one nobody waits for any more) and those a report made now would
contain are together no more than the bytes moved.  Every reset, late
arrival and restart has to keep it.

### Only model-checked

* Liveness under fairness (`EveryRowIsSettled`, `SilenceIsNoticed`,
  `RecoveryIsNoticed`, `EveryReportIsAnswered`, `EveryUpdateLeaves`,
  `HeardAgain`), which needs ENABLED and is beyond the prover.
* The two violations of section 4: they are counterexamples.

## 6. Not modelled

See `components` in `PROJECT.json`.  Text rendering, logging, HTTP framing,
signatures and hashes, `/proc` parsing beyond the counters that can start anew,
the static front end and most of the configuration parsing keep no state and are
left out for good.  Rendering is kept as far as it accepts or rejects a payload.

* `agent once` sends one report beside the service.  It measures a window of its
  own, so that its bytes are also in the service's report: `NoByteReportedTwice`
  is about the service alone.
* The installer (`scripts/manage.sh`) replaces files, units and the proxy's
  configuration with a rollback by traps of the shell; which of its commands
  fail in which way cannot be told from the repository.
* Overview, history, `/status` and `getWebhookInfo` only read.
* The normalisation of DNS names and contents is a function without state whose
  inputs are strings; `DnsZone` begins after it.
* The console writes the preference that the bot's commands set
  (`adminapi/settings.go:42-56`) and is no step of `TelegramWebhook`:
  `LastCommandStands` is about the bot's commands among themselves, and nothing
  orders the two.  `AlertTables` has the writes of both.
* Thresholds no longer than the wait between receiving and storing a report
  (`IngestLag`), although `validSettings` accepts one second: the grace of
  `FullGrace` would be shorter than the lag it makes allowance for.
* A report stamped before the clock steps back and stored after is at most one
  tick ahead of the clock (`Lead`), however often it stepped.
* A SIGTERM sent to the agent by anyone but its service manager: it exits with 0,
  which `Restart=on-failure` leaves alone.  `Crash` in `AgentReporting` is a kill,
  a panic or the end of the host.
* Two tokens are told apart by their order only: `ShownTokenIsStored` says that a
  token that is shown was stored, not that nobody has deleted the server since.
* Browsers' cookies: a request may carry any token, which is more than a cookie
  jar would send.

## 7. Plan

1. Contracts like `AlertContract` for the other components (what the
   ingestion promises of a minute, what the webhook promises of an update),
   implemented by `MinuteIngest` and `TelegramWebhook`, with proofs.
2. The fairness of the batch (`alert_outbox.go:33`), for which TLC needs more
   rows than it can hold; a step property about the listing, that it leaves out
   a due head only behind `BatchSize` older ones, can be proved instead.
3. The arithmetic of `MinuteAverage` without its bounds: for which totals the
   average of valid reports is one the store accepts.
