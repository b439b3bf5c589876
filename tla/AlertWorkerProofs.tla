------------------------- MODULE AlertWorkerProofs -------------------------
(***************************************************************************)
(* Theorems about AlertWorker, for every set of servers and administrators,*)
(* every threshold, retention and batch size, and every bound.             *)
(*                                                                         *)
(* The inductive invariant has two layers.  Typed says that the tables are *)
(* well formed, that a run has a time and that a server which exists has a *)
(* time of birth; evaluation dates its rows by these.  On top of it come   *)
(* the safety properties, each with what it needs to be inductive.         *)
(***************************************************************************)
EXTENDS AlertWorker, TLAPS

RunHasTime == pc \notin {"down", "idle"} => now # Null
ExistingIsBorn == \A s \in Server : s \in Existing => created[s] # Null
Typed == TypeOK /\ RunHasTime /\ ExistingIsBorn

-----------------------------------------------------------------------------
(* What the parts of the transactions build.                               *)

LEMMA Times == Null \in TimeOrNull /\ Time \subseteq TimeOrNull /\ Null \notin Time
  BY TablesAssumption DEF Null, Time, TimeOrNull

(* The time an outage is counted from is a real time.                      *)
LEMMA BaselineIsTime ==
    ASSUME Typed, NEW s \in Existing
    PROVE  s \in Server /\ Baseline(s) \in Time
  BY TablesAssumption
  DEF Typed, TypeOK, ExistingIsBorn, Existing, Baseline, Time, TimeOrNull, Null, StateRow

(* A queued row is well formed, pending, and of an enabled server.         *)
Waiting == {row \in Row(MaxAttempts) :
    Pending(row) /\ row.server \in Server /\ status[row.server] = "enabled"}
LEMMA NewRowWaits ==
    ASSUME Typed, NEW s \in Server, status[s] = "enabled", NEW u \in Admin,
           NEW kind \in Kinds, NEW since \in Time, NEW at \in Time
    PROVE  NewRow(s, u, kind, since, at) \in Waiting
<1>1. "" \in Errors /\ 0 \in 0..MaxAttempts
  BY WorkerAssumption DEF Errors
<1> QED BY <1>1, Times DEF NewRow, Waiting, Row, Pending

LEMMA QueuedRowsWait ==
    ASSUME Typed, now \in Time
    PROVE  Queued(now, allowed) \subseteq Waiting
<1>1. ASSUME NEW s \in Overdue(now), NEW u \in enabledAlertRecipients(allowed)
      PROVE  NewRow(s, u, "offline", Baseline(s), now) \in Waiting
  <2>1. s \in Existing /\ status[s] = "enabled" /\ u \in Admin
    BY <1>1 DEF Overdue, enabledAlertRecipients, Typed, TypeOK
  <2> QED BY <2>1, BaselineIsTime, NewRowWaits DEF Kinds
<1>2. ASSUME NEW s \in Recovered, NEW u \in eligibleRecoveryRecipients(s, allowed)
      PROVE  NewRow(s, u, "recovery", OutageStart(s), now) \in Waiting
  <2>1. s \in Server /\ status[s] = "enabled" /\ u \in Admin
    BY <1>2 DEF Recovered, Existing, eligibleRecoveryRecipients, enabledAlertRecipients,
                Typed, TypeOK
  <2>2. OutageStart(s) \in Time
    BY <1>2, <2>1 DEF Recovered, Open, OutageStart, Typed, TypeOK, StateRow,
                      TimeOrNull, Time, Null
  <2> QED BY <2>1, <2>2, NewRowWaits DEF Kinds
<1> QED BY <1>1, <1>2 DEF Queued

(* Suppression and orphaning keep the ids and the shape of the rows.       *)
LEMMA SuppressKeepsRows ==
    ASSUME NEW rows, rows \in [DOMAIN rows -> Row(MaxAttempts)],
           NEW ss, NEW at \in TimeOrNull
    PROVE  /\ SuppressPending(rows, ss, at) \in [DOMAIN rows -> Row(MaxAttempts)]
           /\ DOMAIN SuppressPending(rows, ss, at) = DOMAIN rows
<1>1. ASSUME NEW i \in DOMAIN rows
      PROVE  [rows[i] EXCEPT !.doneAt = at, !.lastError = "server_disabled"] \in Row(MaxAttempts)
  <2>1. rows[i] \in Row(MaxAttempts)
    OBVIOUS
  <2> QED BY <2>1 DEF Row, Errors, SuppressClasses
<1> QED BY <1>1 DEF SuppressPending

LEMMA OrphanKeepsRows ==
    ASSUME NEW rows, rows \in [DOMAIN rows -> Row(MaxAttempts)], NEW s
    PROVE  /\ Orphan(rows, s) \in [DOMAIN rows -> Row(MaxAttempts)]
           /\ DOMAIN Orphan(rows, s) = DOMAIN rows
<1>1. ASSUME NEW i \in DOMAIN rows
      PROVE  [rows[i] EXCEPT !.server = NoServer] \in Row(MaxAttempts)
  <2>1. rows[i] \in Row(MaxAttempts)
    OBVIOUS
  <2> QED BY <2>1 DEF Row
<1> QED BY <1>1 DEF Orphan

LEMMA NextStateIsRow ==
    ASSUME Typed, now \in Time, NEW s \in Server
    PROVE  NextState(s, now) \in StateRow
<1>1. alertState[s] \in StateRow
  BY DEF Typed, TypeOK
<1>2. s \in Overdue(now) => Baseline(s) \in TimeOrNull
  BY BaselineIsTime DEF Overdue, Time, TimeOrNull
<1>3. now \in TimeOrNull
  BY DEF Time, TimeOrNull
<1>4. Null \in TimeOrNull
  BY TablesAssumption DEF Null, TimeOrNull
<1> QED
  BY <1>1, <1>2, <1>3, <1>4 DEF NextState, ResetState, RecoveredState, OfflineState, StateRow

(* One evaluation: the rows that were there stay under their ids, the new  *)
(* ones are queued rows under the ids that follow.                         *)
LEMMA EvaluationOutbox ==
    ASSUME Typed, now \in Time, EvaluateAlerts(now, allowed)
    PROVE  \E last \in (nextId - 1) .. MaxId :
             /\ nextId' = last + 1
             /\ DOMAIN outbox' = DOMAIN outbox \cup nextId .. last
             /\ \A i \in nextId .. last : outbox'[i] \in Waiting
             /\ \A i \in DOMAIN outbox \ (nextId .. last) :
                  outbox'[i] = SuppressPending(outbox, Leftover, now)[i]
<1>1. PICK last \in (nextId - 1) .. MaxId :
        \E row \in Bijection(nextId .. last, Queued(now, allowed)) :
          /\ outbox' = [i \in DOMAIN outbox \cup nextId .. last |->
                IF i \in nextId .. last THEN row[i]
                ELSE SuppressPending(outbox, Leftover, now)[i]]
          /\ nextId' = last + 1
  BY DEF EvaluateAlerts
<1>2. PICK row \in [nextId .. last -> Queued(now, allowed)] :
          outbox' = [i \in DOMAIN outbox \cup nextId .. last |->
                IF i \in nextId .. last THEN row[i]
                ELSE SuppressPending(outbox, Leftover, now)[i]]
  BY <1>1 DEF Bijection, Injection, Surjection
<1>3. \A i \in nextId .. last : outbox'[i] \in Waiting
  BY <1>2, QueuedRowsWait
<1> QED BY <1>1, <1>2, <1>3
-----------------------------------------------------------------------------
(* Typed is inductive.                                                     *)

LEMMA TypedInit == Init => Typed
  BY TablesAssumption, WorkerAssumption
  DEF Init, TablesInit, Typed, TypeOK, RunHasTime, ExistingIsBorn, Existing, Statuses,
      NoState, StateRow, Null, Time, TimeOrNull, PCs

LEMMA TypedEvaluate ==
    ASSUME Typed, Evaluate
    PROVE  Typed'
<1>1. now \in Time /\ EvaluateAlerts(now, allowed)
  BY DEF Evaluate, Typed, TypeOK, RunHasTime, Time, TimeOrNull, Null
<1>2. PICK last \in (nextId - 1) .. MaxId :
        /\ nextId' = last + 1
        /\ DOMAIN outbox' = DOMAIN outbox \cup nextId .. last
        /\ \A i \in nextId .. last : outbox'[i] \in Waiting
        /\ \A i \in DOMAIN outbox \ (nextId .. last) :
             outbox'[i] = SuppressPending(outbox, Leftover, now)[i]
  BY <1>1, EvaluationOutbox
<1>3. nextId' \in 1..(MaxId + 1) /\ DOMAIN outbox' \subseteq 1..MaxId
  BY <1>2, TablesAssumption DEF Typed, TypeOK
<1>4. \A i \in DOMAIN outbox' : outbox'[i] \in Row(MaxAttempts)
  <2>1. SuppressPending(outbox, Leftover, now) \in [DOMAIN outbox -> Row(MaxAttempts)]
    BY <1>1, Times, SuppressKeepsRows DEF Typed, TypeOK
  <2> QED BY <1>2, <2>1 DEF Waiting
<1>5. outbox' = [i \in DOMAIN outbox' |-> outbox'[i]]
  BY <1>1 DEF EvaluateAlerts
<1>6. alertState' \in [Server -> StateRow]
  BY <1>1, NextStateIsRow DEF EvaluateAlerts
<1> QED
  BY <1>1, <1>3, <1>4, <1>5, <1>6
  DEF Evaluate, EvaluateAlerts, Goto, Typed, TypeOK, RunHasTime, ExistingIsBorn, Existing, PCs

LEMMA TypedTablesStep ==
    ASSUME Typed, TablesStep, UNCHANGED workerVars
    PROVE  Typed'
<1> USE DEF Typed, TypeOK, RunHasTime, ExistingIsBorn, Existing, workerVars
<1>0. clock \in TimeOrNull
  BY Times
<1>1. CASE Tick
  BY <1>1, TablesAssumption DEF Tick, Time
<1>2. CASE ClockStepsBack
  BY <1>2, TablesAssumption DEF ClockStepsBack, Edit, Time
<1>3. ASSUME NEW s \in Server, NEW b \in BOOLEAN, CreateServer(s, b)
      PROVE  Typed'
  BY <1>0, <1>3, Times DEF CreateServer, Statuses
<1>4. ASSUME NEW s \in Server, NEW b \in BOOLEAN, UpdateServer(s, b)
      PROVE  Typed'
  <2>1. ResetState(clock) \in StateRow
    BY <1>0, Times DEF ResetState, StateRow
  <2>2. /\ outbox' \in [DOMAIN outbox -> Row(MaxAttempts)]
        /\ DOMAIN outbox' = DOMAIN outbox
    BY <1>0, <1>4, SuppressKeepsRows DEF UpdateServer
  <2>3. edits' \in 0..MaxEdits
    BY <1>4, TablesAssumption DEF UpdateServer, Edit
  <2> QED BY <1>0, <1>4, <2>1, <2>2, <2>3 DEF UpdateServer, Statuses
<1>5. ASSUME NEW s \in Server, DeleteServer(s)
      PROVE  Typed'
  <2>1. NoState \in StateRow
    BY Times DEF NoState, StateRow
  <2>2. /\ outbox' \in [DOMAIN outbox -> Row(MaxAttempts)]
        /\ DOMAIN outbox' = DOMAIN outbox
    BY <1>0, <1>5, SuppressKeepsRows, OrphanKeepsRows DEF DeleteServer
  <2>3. edits' \in 0..MaxEdits
    BY <1>5, TablesAssumption DEF DeleteServer, Edit
  <2> QED BY <1>0, <1>5, <2>1, <2>2, <2>3, Times DEF DeleteServer, Statuses
<1>6. ASSUME NEW s \in Server, NEW at \in Time, UpsertLatestMetrics(s, at)
      PROVE  Typed'
  BY <1>6, Times DEF UpsertLatestMetrics
<1>7. ASSUME NEW u \in Admin, NEW b \in BOOLEAN, SetAlertPreference(u, b)
      PROVE  Typed'
  <2>1. joined' \in [Admin -> TimeOrNull] /\ clock \in TimeOrNull
    BY <1>7, Times DEF SetAlertPreference
  <2>2. edits' \in 0..MaxEdits
    BY <1>7, TablesAssumption DEF SetAlertPreference, Edit
  <2>3. alertsOn' \in [Admin -> BOOLEAN]
    BY <1>7 DEF SetAlertPreference
  <2> QED BY <1>7, <2>1, <2>2, <2>3 DEF SetAlertPreference
<1>8. ASSUME NEW t \in Threshold, UpdateSettings(t)
      PROVE  Typed'
  BY <1>8, TablesAssumption DEF UpdateSettings, Edit
<1>9. CASE DeleteTerminalAlertOutboxBefore
  BY <1>9 DEF DeleteTerminalAlertOutboxBefore, otherTables
<1> QED BY <1>1, <1>2, <1>3, <1>4, <1>5, <1>6, <1>7, <1>8, <1>9 DEF TablesStep

(* A repository update of one listed row.                                  *)
LEMMA TypedMark ==
    ASSUME Typed, NEW item \in batch, pc \notin {"down", "idle"},
           \/ MarkAlertDelivered(item.id, now)
           \/ \E class \in SuppressClasses : MarkAlertSuppressed(item.id, now, class)
           \/ MarkAlertFailed(item.id, RetryAt(item), MaxAttempts),
           Handled(item)
    PROVE  Typed'
<1> USE DEF Typed, TypeOK, RunHasTime, ExistingIsBorn, Existing, otherTables
<1>1. now \in Time /\ now \in TimeOrNull
  BY DEF Time, TimeOrNull, Null
<1>2. RetryAt(item) \in Time
  <2>1. item.row.attempts \in 0..MaxAttempts
    BY DEF Item, Row
  <2> DEFINE n == IF item.row.attempts < MaxAttempts THEN item.row.attempts + 1 ELSE MaxAttempts
  <2>2. n \in 1..MaxAttempts
    BY <2>1, WorkerAssumption
  <2>3. RetryDelay[n] \in Nat \ {0}
    BY <2>2, WorkerAssumption
  <2> QED BY <1>1, <2>2, <2>3, TablesAssumption DEF RetryAt, Time
<1>3. /\ outbox' \in [DOMAIN outbox -> Row(MaxAttempts)]
      /\ DOMAIN outbox' = DOMAIN outbox
  <2>0. item.id \in DOMAIN outbox /\ outbox[item.id] \in Row(MaxAttempts)
    BY DEF MarkAlertDelivered, MarkAlertSuppressed, MarkAlertFailed, Affected
  <2>1. CASE MarkAlertDelivered(item.id, now)
    <3>1. [outbox[item.id] EXCEPT !.doneAt = now, !.lastError = ""] \in Row(MaxAttempts)
      BY <1>1, <2>0 DEF Row, Errors
    <3>2. outbox' = [outbox EXCEPT ![item.id] =
                       [outbox[item.id] EXCEPT !.doneAt = now, !.lastError = ""]]
      BY <2>0, <2>1 DEF MarkAlertDelivered
    <3> QED BY <3>1, <3>2
  <2>2. ASSUME NEW class \in SuppressClasses, MarkAlertSuppressed(item.id, now, class)
        PROVE  /\ outbox' \in [DOMAIN outbox -> Row(MaxAttempts)]
               /\ DOMAIN outbox' = DOMAIN outbox
    <3>1. [outbox[item.id] EXCEPT !.doneAt = now, !.lastError = class] \in Row(MaxAttempts)
      BY <1>1, <2>0 DEF Row, Errors
    <3>2. outbox' = [outbox EXCEPT ![item.id] =
                       [outbox[item.id] EXCEPT !.doneAt = now, !.lastError = class]]
      BY <2>0, <2>2 DEF MarkAlertSuppressed
    <3> QED BY <3>1, <3>2
  <2>3. CASE MarkAlertFailed(item.id, RetryAt(item), MaxAttempts)
    <3> DEFINE tried == [outbox[item.id] EXCEPT
                           !.attempts = IF @ < MaxAttempts THEN @ + 1 ELSE @,
                           !.nextAttempt = RetryAt(item),
                           !.lastError = "telegram_send_failed"]
    <3>0. MaxAttempts \in Nat
      BY WorkerAssumption
    <3> DEFINE old == outbox[item.id]
    <3>1. tried \in Row(MaxAttempts)
      <4>1. old.attempts \in 0..MaxAttempts
        BY <2>0 DEF Row
      <4>2. (IF old.attempts < MaxAttempts THEN old.attempts + 1 ELSE old.attempts)
              \in 0..MaxAttempts
        BY <3>0, <4>1
      <4>3. "telegram_send_failed" \in Errors
        BY DEF Errors
      <4> QED BY <1>2, <2>0, <4>2, <4>3 DEF Row
    <3>2. outbox' = [outbox EXCEPT ![item.id] = tried]
      BY <2>0, <2>3 DEF MarkAlertFailed
    <3> QED BY <3>1, <3>2
  <2> QED BY <2>1, <2>2, <2>3
<1>4. UNCHANGED otherTables
  BY DEF MarkAlertDelivered, MarkAlertSuppressed, MarkAlertFailed
<1> QED BY <1>3, <1>4, Times DEF Handled, RunEnds, PCs

LEMMA TypedWorkerStep ==
    ASSUME Typed, WorkerStep
    PROVE  Typed'
<1> USE DEF Typed, TypeOK, RunHasTime, ExistingIsBorn, Existing, tableVars
<1>1. CASE RunOnce
  BY <1>1, Times DEF RunOnce, PCs
<1>2. CASE Evaluate
  BY <1>2, TypedEvaluate
<1>3. CASE EvaluationFails
  BY <1>3 DEF EvaluationFails, Goto, PCs
<1>4. CASE List
  <2>1. batch' \subseteq Item
    <3>1. \A i \in DOMAIN outbox : [id |-> i, row |-> outbox[i]] \in Item
      BY DEF Item
    <3>2. ListDueAlertOutbox(now, BatchSize) \subseteq DOMAIN outbox
      BY DEF ListDueAlertOutbox, DueHeads
    <3> QED BY <1>4, <3>1, <3>2 DEF List, RunEnds
  <2> QED BY <1>4, <2>1, Times DEF List, RunEnds, PCs
<1>5. CASE RepositoryFails
  BY <1>5, Times DEF RepositoryFails, RunEnds, PCs
<1>6. ASSUME NEW item \in batch, Recheck(item)
      PROVE  Typed'
  BY <1>6 DEF Recheck, Goto, PCs, Suppressing
<1>7. ASSUME NEW item \in batch, Suppress(item)
      PROVE  Typed'
  <2>1. \E class \in SuppressClasses : MarkAlertSuppressed(item.id, now, class)
    BY <1>7 DEF Suppress, Suppressing, SuppressClasses
  <2>2. pc \notin {"down", "idle"}
    BY <1>7 DEF Suppress, Suppressing
  <2> QED BY <1>7, <2>1, <2>2, TypedMark DEF Suppress
<1>8. ASSUME NEW item \in batch, SendAccepted(item)
      PROVE  Typed'
  <2>1. AsMessage(item) \in Message
    BY DEF AsMessage, Message, Item, Row
  <2> QED BY <1>8, <2>1 DEF SendAccepted, PCs
<1>9. ASSUME NEW item \in batch, SendRefused(item)
      PROVE  Typed'
  BY <1>9 DEF SendRefused, Goto, PCs
<1>10. ASSUME NEW item \in batch, Deliver(item)
       PROVE  Typed'
  BY <1>10, TypedMark DEF Deliver
<1>11. ASSUME NEW item \in batch, Retry(item)
       PROVE  Typed'
  BY <1>11, TypedMark DEF Retry
<1> QED BY <1>1, <1>2, <1>3, <1>4, <1>5, <1>6, <1>7, <1>8, <1>9, <1>10, <1>11 DEF WorkerStep

LEMMA TypedNext == Typed /\ [Next]_vars => Typed'
<1> SUFFICES ASSUME Typed, [Next]_vars PROVE Typed'
  OBVIOUS
<1>1. CASE WorkerStep
  BY <1>1, TypedWorkerStep
<1>2. CASE TablesStep /\ UNCHANGED workerVars
  BY <1>2, TypedTablesStep
<1>3. CASE Crash
  BY <1>3, Times
  DEF Crash, Typed, TypeOK, RunHasTime, ExistingIsBorn, Existing, tableVars, PCs
<1>4. ASSUME NEW admins \in (SUBSET Admin) \ {{}}, Restart(admins)
      PROVE  Typed'
  <2>1. joined' \in [Admin -> TimeOrNull]
    BY <1>4, Times DEF Restart, Typed, TypeOK
  <2>2. edits' \in 0..MaxEdits
    BY <1>4, TablesAssumption DEF Restart, Edit, Typed, TypeOK
  <2> QED BY <1>4, <2>1, <2>2 DEF Restart, Typed, TypeOK, RunHasTime, ExistingIsBorn, Existing, PCs
<1>5. CASE UNCHANGED vars
  BY <1>5 DEF vars, workerVars, tableVars, Typed, TypeOK, RunHasTime, ExistingIsBorn, Existing
<1> QED BY <1>1, <1>2, <1>3, <1>4, <1>5 DEF Next

(* Every table and every variable of the worker keeps its type; a run is   *)
(* always dated, a server that exists always has a time of birth.          *)
THEOREM TypeCorrect == Spec => []TypeOK
<1>1. Spec => []Typed
  BY TypedInit, TypedNext, PTL DEF Spec
<1>2. Typed => TypeOK
  BY DEF Typed
<1> QED BY <1>1, <1>2, PTL
-----------------------------------------------------------------------------
(* What a suppression, an orphaning, and a repository update make of a row.*)
(* None of them touches the event the row was queued for.                  *)

Event(row) == <<row.user, row.kind, row.since, row.created>>

LEMMA SuppressedRow ==
    ASSUME NEW rows, rows \in [DOMAIN rows -> Row(MaxAttempts)], NEW ss,
           NEW at \in Time, NEW i \in DOMAIN rows
    PROVE  LET row == SuppressPending(rows, ss, at)[i] IN
           \/ row = rows[i] /\ ~(Pending(rows[i]) /\ rows[i].server \in ss)
           \/ /\ Pending(rows[i]) /\ rows[i].server \in ss
              /\ row.doneAt = at /\ ~Pending(row) /\ row.lastError = "server_disabled"
              /\ row.server = rows[i].server /\ Event(row) = Event(rows[i])
<1>1. rows[i] \in Row(MaxAttempts)
  OBVIOUS
<1>2. at # Null
  BY Times
<1> QED BY <1>1, <1>2 DEF SuppressPending, Row, Pending, Event

LEMMA OrphanedRow ==
    ASSUME NEW rows, rows \in [DOMAIN rows -> Row(MaxAttempts)], NEW s, NEW i \in DOMAIN rows
    PROVE  LET row == Orphan(rows, s)[i] IN
           /\ row.doneAt = rows[i].doneAt /\ row.lastError = rows[i].lastError
           /\ row.server = IF rows[i].server = s THEN NoServer ELSE rows[i].server
           /\ Event(row) = Event(rows[i])
<1>1. rows[i] \in Row(MaxAttempts)
  OBVIOUS
<1> QED BY <1>1 DEF Orphan, Row, Event

(* An update touches only its own row, which was pending.  It leaves it    *)
(* pending, with another attempt, or settles it with the given outcome.    *)
Marks(i, row) ==
    /\ i \in DOMAIN outbox /\ Pending(outbox[i])
    /\ outbox' = [outbox EXCEPT ![i] = row]
    /\ row.server = outbox[i].server /\ Event(row) = Event(outbox[i])
    /\ row.doneAt \in {Null, now}
    /\ UNCHANGED otherTables
LEMMA WorkerMarks ==
    ASSUME Typed, NEW item \in batch
    PROVE  /\ Suppress(item) => \E row : Marks(item.id, row) /\ row.lastError \in Suppressing
           /\ Deliver(item) => \E row : Marks(item.id, row) /\ row.lastError = ""
           /\ Retry(item) => \E row : /\ Marks(item.id, row) /\ Pending(row)
                                     /\ row.lastError = "telegram_send_failed"
<1> USE DEF Marks, Affected
<1> DEFINE old == outbox[item.id]
<1>0. item.id \in DOMAIN outbox => old \in Row(MaxAttempts)
  BY DEF Typed, TypeOK
<1>1. ASSUME Suppress(item)
      PROVE  \E row : Marks(item.id, row) /\ row.lastError \in Suppressing
  <2> DEFINE row == [old EXCEPT !.doneAt = now, !.lastError = pc]
  <2>1. Affected(item.id) /\ pc \in Suppressing /\ UNCHANGED otherTables
    BY <1>1 DEF Suppress, MarkAlertSuppressed
  <2>2. outbox' = [outbox EXCEPT ![item.id] = row]
    BY <1>1, <2>1 DEF Suppress, MarkAlertSuppressed
  <2>3. /\ row.lastError = pc /\ row.doneAt = now
        /\ row.server = old.server /\ Event(row) = Event(old)
    BY <1>0, <2>1 DEF Row, Event
  <2> QED BY <2>1, <2>2, <2>3
<1>2. ASSUME Deliver(item)
      PROVE  \E row : Marks(item.id, row) /\ row.lastError = ""
  <2> DEFINE row == [old EXCEPT !.doneAt = now, !.lastError = ""]
  <2>1. Affected(item.id) /\ UNCHANGED otherTables
    BY <1>2 DEF Deliver, MarkAlertDelivered
  <2>2. outbox' = [outbox EXCEPT ![item.id] = row]
    BY <1>2, <2>1 DEF Deliver, MarkAlertDelivered
  <2>3. /\ row.lastError = "" /\ row.doneAt = now
        /\ row.server = old.server /\ Event(row) = Event(old)
    BY <1>0, <2>1 DEF Row, Event
  <2> QED BY <2>1, <2>2, <2>3
<1>3. ASSUME Retry(item)
      PROVE  \E row : /\ Marks(item.id, row) /\ Pending(row)
                      /\ row.lastError = "telegram_send_failed"
  <2> DEFINE row == [old EXCEPT !.attempts = IF @ < MaxAttempts THEN @ + 1 ELSE @,
                                !.nextAttempt = RetryAt(item),
                                !.lastError = "telegram_send_failed"]
  <2>1. Affected(item.id) /\ UNCHANGED otherTables
    BY <1>3 DEF Retry, MarkAlertFailed
  <2>2. outbox' = [outbox EXCEPT ![item.id] = row]
    BY <1>3, <2>1 DEF Retry, MarkAlertFailed
  <2>3. /\ row.lastError = "telegram_send_failed" /\ row.server = old.server /\ Pending(row)
        /\ Event(row) = Event(old)
    BY <1>0, <2>1 DEF Row, Pending, Event
  <2> QED BY <2>1, <2>2, <2>3 DEF Pending
<1> QED BY <1>1, <1>2, <1>3
-----------------------------------------------------------------------------
(* Which steps touch the outbox, and what the others leave alone.          *)

OutboxStep ==
    \/ Evaluate
    \/ \E item \in batch : Suppress(item) \/ Deliver(item) \/ Retry(item)
    \/ \E s \in Server, b \in BOOLEAN : UpdateServer(s, b)
    \/ \E s \in Server : DeleteServer(s)
    \/ DeleteTerminalAlertOutboxBefore
LEMMA OtherSteps ==
    ASSUME [Next]_vars, ~OutboxStep
    PROVE  /\ UNCHANGED <<outbox, nextId, alertState>>
           /\ \/ UNCHANGED status
              \/ \E s \in Server, b \in BOOLEAN : CreateServer(s, b)
           /\ accepted \subseteq accepted'
<1>1. CASE WorkerStep
  BY <1>1 DEF WorkerStep, OutboxStep, RunOnce, EvaluationFails, List, RepositoryFails,
              RunEnds, Recheck, Goto, SendAccepted, SendRefused, tableVars
<1>2. CASE TablesStep /\ UNCHANGED workerVars
  BY <1>2 DEF TablesStep, OutboxStep, Tick, ClockStepsBack, CreateServer, UpsertLatestMetrics,
              SetAlertPreference, UpdateSettings, workerVars
<1>3. CASE Crash
  BY <1>3 DEF Crash, tableVars
<1>4. CASE \E admins \in (SUBSET Admin) \ {{}} : Restart(admins)
  BY <1>4 DEF Restart
<1>5. CASE UNCHANGED vars
  BY <1>5 DEF vars, tableVars, workerVars
<1> QED BY <1>1, <1>2, <1>3, <1>4, <1>5 DEF Next

LEMMA EvaluationFacts ==
    ASSUME Typed, Evaluate
    PROVE  now \in Time /\ EvaluateAlerts(now, allowed) /\ UNCHANGED <<status, accepted>>
<1>1. now \in Time
  BY DEF Evaluate, Typed, TypeOK, RunHasTime, Time, TimeOrNull, Null
<1>2. EvaluateAlerts(now, allowed) /\ UNCHANGED accepted
  BY DEF Evaluate, Goto
<1>3. UNCHANGED status
  BY <1>2 DEF EvaluateAlerts
<1> QED BY <1>1, <1>2, <1>3

-----------------------------------------------------------------------------
(* Waiting rows belong to enabled servers.                                 *)

LEMMA PendingIsServedStep ==
    ASSUME Typed, PendingIsServed, [Next]_vars
    PROVE  PendingIsServed'
<1>0. /\ outbox \in [DOMAIN outbox -> Row(MaxAttempts)] /\ clock \in Time
      /\ status \in [Server -> Statuses]
  BY DEF Typed, TypeOK
<1>1. CASE Evaluate
  <2>1. PICK last \in (nextId - 1) .. MaxId :
        /\ DOMAIN outbox' = DOMAIN outbox \cup nextId .. last
        /\ \A i \in nextId .. last : outbox'[i] \in Waiting
        /\ \A i \in DOMAIN outbox \ (nextId .. last) :
             outbox'[i] = SuppressPending(outbox, Leftover, now)[i]
    BY <1>1, EvaluationFacts, EvaluationOutbox
  <2>2. ASSUME NEW i \in DOMAIN outbox', Pending(outbox'[i])
        PROVE  outbox'[i].server \in Server /\ status[outbox'[i].server] = "enabled"
    <3>1. CASE i \in nextId .. last
      BY <2>1, <3>1 DEF Waiting
    <3>2. CASE i \notin nextId .. last
      BY <1>0, <1>1, <2>1, <2>2, <3>2, EvaluationFacts, SuppressedRow DEF PendingIsServed
    <3> QED BY <3>1, <3>2
  <2> QED BY <1>1, <2>2, EvaluationFacts DEF PendingIsServed, Pending
<1>2. ASSUME NEW item \in batch, Suppress(item) \/ Deliver(item) \/ Retry(item)
      PROVE  PendingIsServed'
  <2>1. PICK row : Marks(item.id, row)
    BY <1>2, WorkerMarks
  <2> QED BY <2>1 DEF Marks, otherTables, PendingIsServed, Pending
<1>3. ASSUME NEW s \in Server, NEW b \in BOOLEAN, UpdateServer(s, b)
      PROVE  PendingIsServed'
  <2>1. CASE b
    BY <1>0, <1>3, <2>1 DEF UpdateServer, PendingIsServed, Pending
  <2>2. CASE ~b
    <3>1. outbox' = SuppressPending(outbox, {s}, clock) /\ DOMAIN outbox' = DOMAIN outbox
      BY <1>0, <1>3, <2>2, SuppressKeepsRows, Times DEF UpdateServer
    <3>2. ASSUME NEW i \in DOMAIN outbox', Pending(outbox'[i])
          PROVE  outbox'[i] = outbox[i] /\ outbox[i].server # s
      BY <1>0, <3>1, <3>2, SuppressedRow
    <3> QED BY <1>0, <1>3, <3>1, <3>2 DEF UpdateServer, PendingIsServed, Pending
  <2> QED BY <2>1, <2>2
<1>4. ASSUME NEW s \in Server, DeleteServer(s)
      PROVE  PendingIsServed'
  <2> DEFINE kept == SuppressPending(outbox, {s}, clock)
  <2>1. /\ kept \in [DOMAIN kept -> Row(MaxAttempts)] /\ DOMAIN kept = DOMAIN outbox
        /\ outbox' = Orphan(kept, s) /\ DOMAIN outbox' = DOMAIN outbox
    BY <1>0, <1>4, SuppressKeepsRows, OrphanKeepsRows, Times DEF DeleteServer
  <2>2. ASSUME NEW i \in DOMAIN outbox', Pending(outbox'[i])
        PROVE  /\ outbox'[i].server = outbox[i].server /\ outbox[i].server # s
               /\ Pending(outbox[i])
    <3>1. Pending(kept[i])
      BY <2>1, <2>2, OrphanedRow DEF Pending
    <3>2. kept[i] = outbox[i] /\ outbox[i].server # s
      BY <1>0, <2>1, <3>1, SuppressedRow
    <3> HIDE DEF kept
    <3> QED BY <2>1, <3>1, <3>2, OrphanedRow
  <2> QED BY <1>0, <1>4, <2>1, <2>2 DEF DeleteServer, PendingIsServed, Pending
<1>5. CASE DeleteTerminalAlertOutboxBefore
  BY <1>5 DEF DeleteTerminalAlertOutboxBefore, otherTables, PendingIsServed, Pending
<1>6. CASE ~OutboxStep
  <2>1. CASE UNCHANGED status
    BY <1>6, <2>1, OtherSteps DEF PendingIsServed, Pending
  <2>2. ASSUME NEW s \in Server, NEW b \in BOOLEAN, CreateServer(s, b)
        PROVE  PendingIsServed'
    BY <1>0, <1>6, <2>2, OtherSteps DEF CreateServer, PendingIsServed, Pending
  <2> QED BY <1>6, <2>1, <2>2, OtherSteps
<1> QED BY <1>1, <1>2, <1>3, <1>4, <1>5, <1>6 DEF OutboxStep

(* No message ever waits for a server that is disabled or gone: there is   *)
(* nothing left to send about it, whatever order the administrator, the    *)
(* evaluation and the deliveries act in.                                   *)
THEOREM PendingServed == Spec => []PendingIsServed
<1>1. Init => Typed /\ PendingIsServed
  BY TypedInit DEF Init, TablesInit, PendingIsServed
<1>2. Typed /\ PendingIsServed /\ [Next]_vars => (Typed /\ PendingIsServed)'
  BY TypedNext, PendingIsServedStep
<1> QED BY <1>1, <1>2, PTL DEF Spec
-----------------------------------------------------------------------------
(* Alert states are closed, or open for an enabled server after a whole    *)
(* threshold.                                                              *)

Shaped(s) ==
    \/ Closed(alertState[s])
    \/ OpenedFairly(alertState[s]) /\ status[s] = "enabled"

LEMMA EpisodeShapeStep ==
    ASSUME Typed, EpisodeShape, [Next]_vars
    PROVE  EpisodeShape'
<1>0. /\ alertState \in [Server -> StateRow] /\ status \in [Server -> Statuses]
      /\ clock \in Time /\ threshold \in Threshold
  BY DEF Typed, TypeOK
<1> SUFFICES ASSUME NEW s \in Server PROVE Shaped(s)'
  BY DEF EpisodeShape, Shaped
<1>a. Shaped(s)
  BY DEF EpisodeShape, Shaped
<1>1. CASE Evaluate
  <2>1. now \in Time /\ UNCHANGED status /\ alertState'[s] = NextState(s, now)
    BY <1>1, EvaluationFacts DEF EvaluateAlerts
  <2>2. CASE s \in Overdue(now)
    <3>1. Baseline(s) \in Time /\ status[s] = "enabled" /\ now - Baseline(s) >= threshold
      BY <2>2, BaselineIsTime DEF Overdue
    <3>2. s \notin Leftover /\ s \notin Recovered
      BY <2>2 DEF Overdue, Leftover, Recovered
    <3>3. alertState'[s] = OfflineState(Baseline(s), now)
      BY <2>1, <2>2, <3>2 DEF NextState
    <3> QED BY <1>0, <2>1, <3>1, <3>3, Times DEF OfflineState, OpenedFairly, Shaped
  <2>3. CASE s \notin Overdue(now)
    BY <1>a, <2>1, <2>3 DEF NextState, ResetState, RecoveredState, Closed, OpenedFairly, Shaped
  <2> QED BY <2>2, <2>3
<1>2. CASE \E item \in batch : Suppress(item) \/ Deliver(item) \/ Retry(item)
  <2>1. UNCHANGED <<alertState, status>>
    BY <1>2, WorkerMarks DEF Marks, otherTables
  <2> QED BY <1>a, <2>1 DEF Shaped, Closed, OpenedFairly
<1>3. ASSUME NEW r \in Server, NEW b \in BOOLEAN, UpdateServer(r, b)
      PROVE  Shaped(s)'
  <2>1. CASE r = s
    <3>1. alertState'[s] = ResetState(clock)
      BY <1>0, <1>3, <2>1 DEF UpdateServer
    <3> QED BY <3>1 DEF ResetState, Shaped, Closed, OpenedFairly
  <2>2. CASE r # s
    <3>1. alertState'[s] = alertState[s] /\ status'[s] = status[s]
      BY <1>0, <1>3, <2>2 DEF UpdateServer
    <3> QED BY <1>a, <3>1 DEF Shaped, Closed, OpenedFairly
  <2> QED BY <2>1, <2>2
<1>4. ASSUME NEW r \in Server, DeleteServer(r)
      PROVE  Shaped(s)'
  <2>1. CASE r = s
    <3>1. alertState'[s] = NoState
      BY <1>0, <1>4, <2>1 DEF DeleteServer
    <3> QED BY <3>1 DEF NoState, Shaped, Closed, OpenedFairly
  <2>2. CASE r # s
    <3>1. alertState'[s] = alertState[s] /\ status'[s] = status[s]
      BY <1>0, <1>4, <2>2 DEF DeleteServer
    <3> QED BY <1>a, <3>1 DEF Shaped, Closed, OpenedFairly
  <2> QED BY <2>1, <2>2
<1>5. CASE DeleteTerminalAlertOutboxBefore
  BY <1>a, <1>5 DEF DeleteTerminalAlertOutboxBefore, otherTables, Shaped, Closed, OpenedFairly
<1>6. CASE ~OutboxStep
  <2>1. CASE UNCHANGED status
    BY <1>a, <1>6, <2>1, OtherSteps DEF Shaped, Closed, OpenedFairly
  <2>2. ASSUME NEW r \in Server, NEW b \in BOOLEAN, CreateServer(r, b)
        PROVE  Shaped(s)'
    BY <1>0, <1>a, <1>6, <2>2, OtherSteps DEF CreateServer, Shaped, Closed, OpenedFairly
  <2> QED BY <1>6, <2>1, <2>2, OtherSteps
<1> QED BY <1>1, <1>2, <1>3, <1>4, <1>5, <1>6 DEF OutboxStep

(* Whatever the clock does and whatever is switched in between, an open    *)
(* episode belongs to an enabled server and was opened no sooner than a    *)
(* threshold after its baseline.                                           *)
THEOREM EpisodesShaped == Spec => []EpisodeShape
<1>1. Init => Typed /\ EpisodeShape
  BY TypedInit DEF Init, TablesInit, EpisodeShape, Closed, NoState
<1>2. Typed /\ EpisodeShape /\ [Next]_vars => (Typed /\ EpisodeShape)'
  BY TypedNext, EpisodeShapeStep
<1> QED BY <1>1, <1>2, PTL DEF Spec
-----------------------------------------------------------------------------
(* A row recorded as delivered was accepted by Telegram.                   *)

SentIsAccepted ==
    pc = "sent" => \A item \in batch : IsNext(item) => \E m \in accepted : m.id = item.id

LEMMA SentIsAcceptedStep ==
    ASSUME Typed, SentIsAccepted, [Next]_vars
    PROVE  SentIsAccepted'
<1>1. ASSUME NEW item \in batch, SendAccepted(item)
      PROVE  SentIsAccepted'
  <2>1. AsMessage(item) \in accepted' /\ AsMessage(item).id = item.id /\ UNCHANGED batch
    BY <1>1 DEF SendAccepted, AsMessage
  <2>2. ASSUME NEW other \in batch, IsNext(other)
        PROVE  other.id = item.id
    <3>1. other.id <= item.id /\ item.id <= other.id
      BY <1>1, <2>2 DEF SendAccepted, IsNext
    <3>2. other.id \in 1..MaxId /\ item.id \in 1..MaxId
      BY DEF Typed, TypeOK, Item
    <3> QED BY <3>1, <3>2, TablesAssumption
  <2> QED BY <2>1, <2>2 DEF SentIsAccepted, IsNext
<1>2. CASE pc' # "sent"
  BY <1>2 DEF SentIsAccepted
<1>3. CASE UNCHANGED workerVars
  BY <1>3 DEF workerVars, SentIsAccepted, IsNext
<1>4. CASE WorkerStep
  <2>1. \/ pc' # "sent"
        \/ \E item \in batch : SendAccepted(item)
    BY <1>4 DEF WorkerStep, RunOnce, Evaluate, EvaluationFails, List, RepositoryFails,
                RunEnds, Recheck, Goto, Suppress, SendRefused, Deliver, Retry, Handled
  <2> QED BY <1>1, <1>2, <2>1
<1> QED BY <1>2, <1>3, <1>4 DEF Next, Crash, Restart, vars

LEMMA AcceptedGrows == [Next]_vars => accepted \subseteq accepted'
<1> SUFFICES ASSUME [Next]_vars PROVE accepted \subseteq accepted'
  OBVIOUS
<1>1. CASE WorkerStep
  BY <1>1 DEF WorkerStep, RunOnce, Evaluate, EvaluationFails, List, RepositoryFails, RunEnds,
              Recheck, Goto, Suppress, SendAccepted, SendRefused, Deliver, Retry, Handled
<1>2. CASE UNCHANGED workerVars
  BY <1>2 DEF workerVars
<1>3. CASE Crash \/ \E admins \in (SUBSET Admin) \ {{}} : Restart(admins)
  BY <1>3 DEF Crash, Restart
<1> QED BY <1>1, <1>2, <1>3 DEF Next, vars

LEMMA DeliveredWasAcceptedStep ==
    ASSUME Typed, SentIsAccepted, DeliveredWasAccepted, [Next]_vars
    PROVE  DeliveredWasAccepted'
<1>0. /\ outbox \in [DOMAIN outbox -> Row(MaxAttempts)] /\ clock \in Time
  BY DEF Typed, TypeOK
<1>a. accepted \subseteq accepted'
  BY AcceptedGrows
<1>1. CASE Evaluate
  <2>1. PICK last \in (nextId - 1) .. MaxId :
        /\ DOMAIN outbox' = DOMAIN outbox \cup nextId .. last
        /\ \A i \in nextId .. last : outbox'[i] \in Waiting
        /\ \A i \in DOMAIN outbox \ (nextId .. last) :
             outbox'[i] = SuppressPending(outbox, Leftover, now)[i]
    BY <1>1, EvaluationFacts, EvaluationOutbox
  <2>2. ASSUME NEW i \in DOMAIN outbox', ~Pending(outbox'[i]), outbox'[i].lastError = ""
        PROVE  i \in DOMAIN outbox /\ outbox'[i] = outbox[i]
    <3>1. i \notin nextId .. last
      BY <2>1, <2>2 DEF Waiting
    <3>2. i \in DOMAIN outbox /\ outbox'[i] = SuppressPending(outbox, Leftover, now)[i]
      BY <2>1, <2>2, <3>1
    <3>3. now \in Time
      BY <1>1, EvaluationFacts
    <3>4. \/ outbox'[i] = outbox[i]
          \/ outbox'[i].lastError = "server_disabled"
      BY <1>0, <3>2, <3>3, SuppressedRow
    <3> QED BY <2>2, <3>2, <3>4
  <2> QED BY <1>a, <2>2 DEF DeliveredWasAccepted, Pending
<1>2. ASSUME NEW item \in batch, Suppress(item) \/ Deliver(item) \/ Retry(item)
      PROVE  DeliveredWasAccepted'
  <2>1. PICK row : Marks(item.id, row) /\ (Deliver(item) \/ row.lastError # "")
    BY <1>2, WorkerMarks DEF Suppressing
  <2>2. Deliver(item) => \E m \in accepted : m.id = item.id
    BY DEF Deliver, SentIsAccepted
  <2> QED BY <1>a, <2>1, <2>2 DEF Marks, DeliveredWasAccepted, Pending
<1>3. ASSUME NEW s \in Server, NEW b \in BOOLEAN, UpdateServer(s, b)
      PROVE  DeliveredWasAccepted'
  <2>1. CASE b
    BY <1>a, <1>3, <2>1 DEF UpdateServer, DeliveredWasAccepted, Pending
  <2>2. CASE ~b
    <3>1. outbox' = SuppressPending(outbox, {s}, clock) /\ DOMAIN outbox' = DOMAIN outbox
      BY <1>0, <1>3, <2>2, SuppressKeepsRows, Times DEF UpdateServer
    <3>2. ASSUME NEW i \in DOMAIN outbox', ~Pending(outbox'[i]), outbox'[i].lastError = ""
          PROVE  outbox'[i] = outbox[i]
      BY <1>0, <3>1, <3>2, SuppressedRow
    <3> QED BY <1>a, <3>1, <3>2 DEF DeliveredWasAccepted, Pending
  <2> QED BY <2>1, <2>2
<1>4. ASSUME NEW s \in Server, DeleteServer(s)
      PROVE  DeliveredWasAccepted'
  <2> DEFINE kept == SuppressPending(outbox, {s}, clock)
  <2>1. /\ kept \in [DOMAIN kept -> Row(MaxAttempts)] /\ DOMAIN kept = DOMAIN outbox
        /\ outbox' = Orphan(kept, s) /\ DOMAIN outbox' = DOMAIN outbox
    BY <1>0, <1>4, SuppressKeepsRows, OrphanKeepsRows, Times DEF DeleteServer
  <2>2. ASSUME NEW i \in DOMAIN outbox', ~Pending(outbox'[i]), outbox'[i].lastError = ""
        PROVE  ~Pending(outbox[i]) /\ outbox[i].lastError = ""
    <3>1. ~Pending(kept[i]) /\ kept[i].lastError = ""
      <4> HIDE DEF kept
      <4>1. i \in DOMAIN kept /\ outbox'[i] = Orphan(kept, s)[i]
        BY <2>1, <2>2
      <4>2. /\ Orphan(kept, s)[i].doneAt = kept[i].doneAt
            /\ Orphan(kept, s)[i].lastError = kept[i].lastError
        BY <2>1, <4>1, OrphanedRow
      <4> QED BY <2>2, <4>1, <4>2 DEF Pending
    <3>2. i \in DOMAIN outbox
      BY <2>1, <2>2
    <3> QED BY <1>0, <3>1, <3>2, SuppressedRow
  <2> QED BY <1>a, <2>1, <2>2 DEF DeliveredWasAccepted, Pending
<1>5. CASE DeleteTerminalAlertOutboxBefore
  BY <1>a, <1>5 DEF DeleteTerminalAlertOutboxBefore, DeliveredWasAccepted, Pending
<1>6. CASE ~OutboxStep
  BY <1>a, <1>6, OtherSteps DEF DeliveredWasAccepted, Pending
<1> QED BY <1>1, <1>2, <1>3, <1>4, <1>5, <1>6 DEF OutboxStep

(* No row is recorded as delivered unless Telegram accepted its message:   *)
(* not after a crash between the two, a failed update, or a row that       *)
(* changed while it was being sent.                                        *)
THEOREM DeliveredAccepted == Spec => []DeliveredWasAccepted
<1> DEFINE Inv == Typed /\ SentIsAccepted /\ DeliveredWasAccepted
<1>1. Init => Inv
  BY TypedInit DEF Init, TablesInit, SentIsAccepted, DeliveredWasAccepted
<1>2. Inv /\ [Next]_vars => Inv'
  BY TypedNext, SentIsAcceptedStep, DeliveredWasAcceptedStep
<1>3. Inv => DeliveredWasAccepted
  OBVIOUS
<1> QED BY <1>1, <1>2, <1>3, PTL DEF Spec
-----------------------------------------------------------------------------
(* A settled row keeps its outcome.                                        *)

(* The next id is above every row's, so that a new row never takes the     *)
(* place of an old one.                                                    *)
FreshIds == \A i \in DOMAIN outbox : i < nextId

LEMMA FreshIdsStep ==
    ASSUME Typed, FreshIds, [Next]_vars
    PROVE  FreshIds'
<1>0. /\ outbox \in [DOMAIN outbox -> Row(MaxAttempts)] /\ clock \in Time
      /\ DOMAIN outbox \subseteq 1..MaxId /\ nextId \in 1..(MaxId + 1)
  BY DEF Typed, TypeOK
<1>1. CASE Evaluate
  <2>1. PICK last \in (nextId - 1) .. MaxId :
        /\ nextId' = last + 1
        /\ DOMAIN outbox' = DOMAIN outbox \cup nextId .. last
    BY <1>1, EvaluationFacts, EvaluationOutbox
  <2> QED BY <1>0, <2>1, TablesAssumption DEF FreshIds
<1>2. ASSUME DOMAIN outbox' \subseteq DOMAIN outbox, UNCHANGED nextId
      PROVE  FreshIds'
  BY <1>2 DEF FreshIds
<1>3. ASSUME NEW item \in batch, Suppress(item) \/ Deliver(item) \/ Retry(item)
      PROVE  FreshIds'
  <2>1. PICK row : Marks(item.id, row)
    BY <1>3, WorkerMarks
  <2> QED BY <1>2, <2>1 DEF Marks, otherTables
<1>4. ASSUME NEW s \in Server, NEW b \in BOOLEAN, UpdateServer(s, b)
      PROVE  FreshIds'
  BY <1>0, <1>2, <1>4, SuppressKeepsRows, Times DEF UpdateServer
<1>5. ASSUME NEW s \in Server, DeleteServer(s)
      PROVE  FreshIds'
  <2> DEFINE kept == SuppressPending(outbox, {s}, clock)
  <2>1. kept \in [DOMAIN kept -> Row(MaxAttempts)] /\ DOMAIN kept = DOMAIN outbox
    BY <1>0, SuppressKeepsRows, Times
  <2>2. outbox' = Orphan(kept, s) /\ UNCHANGED nextId
    BY <1>5 DEF DeleteServer
  <2> HIDE DEF kept
  <2> QED BY <1>2, <2>1, <2>2, OrphanKeepsRows
<1>6. CASE DeleteTerminalAlertOutboxBefore
  BY <1>2, <1>6 DEF DeleteTerminalAlertOutboxBefore, otherTables
<1>7. CASE ~OutboxStep
  BY <1>2, <1>7, OtherSteps
<1> QED BY <1>1, <1>3, <1>4, <1>5, <1>6, <1>7 DEF OutboxStep

(* One step, seen from one row.                                            *)
Settles(i) ==
    /\ Pending(outbox[i]) => i \in DOMAIN outbox'
    /\ ~Pending(outbox[i]) /\ i \in DOMAIN outbox' =>
          /\ outbox'[i].doneAt = outbox[i].doneAt
          /\ outbox'[i].lastError = outbox[i].lastError

LEMMA SettlesStep ==
    ASSUME Typed, FreshIds, [Next]_vars, NEW i \in DOMAIN outbox
    PROVE  Settles(i)
<1>0. /\ outbox \in [DOMAIN outbox -> Row(MaxAttempts)] /\ clock \in Time
      /\ i < nextId /\ i \in 1..MaxId /\ nextId \in 1..(MaxId + 1)
  BY DEF Typed, TypeOK, FreshIds
<1>1. CASE Evaluate
  <2>1. now \in Time
    BY <1>1, EvaluationFacts
  <2>2. i \in DOMAIN outbox' /\ outbox'[i] = SuppressPending(outbox, Leftover, now)[i]
    <3>1. PICK last \in (nextId - 1) .. MaxId :
          /\ DOMAIN outbox' = DOMAIN outbox \cup nextId .. last
          /\ \A j \in DOMAIN outbox \ (nextId .. last) :
               outbox'[j] = SuppressPending(outbox, Leftover, now)[j]
      BY <1>1, EvaluationFacts, EvaluationOutbox
    <3>2. i \notin nextId .. last
      BY <1>0
    <3> QED BY <3>1, <3>2
  <2> QED BY <1>0, <2>1, <2>2, SuppressedRow DEF Settles
<1>2. ASSUME NEW item \in batch, Suppress(item) \/ Deliver(item) \/ Retry(item)
      PROVE  Settles(i)
  <2>1. PICK row : Marks(item.id, row)
    BY <1>2, WorkerMarks
  <2> QED BY <2>1 DEF Marks, Settles
<1>3. ASSUME NEW s \in Server, NEW b \in BOOLEAN, UpdateServer(s, b)
      PROVE  Settles(i)
  <2>1. outbox' = outbox \/ outbox' = SuppressPending(outbox, {s}, clock)
    BY <1>3 DEF UpdateServer
  <2>2. DOMAIN outbox' = DOMAIN outbox
    BY <1>0, <2>1, SuppressKeepsRows, Times
  <2> QED BY <1>0, <2>1, <2>2, SuppressedRow DEF Settles
<1>4. ASSUME NEW s \in Server, DeleteServer(s)
      PROVE  Settles(i)
  <2> DEFINE kept == SuppressPending(outbox, {s}, clock)
  <2>1. kept \in [DOMAIN kept -> Row(MaxAttempts)] /\ DOMAIN kept = DOMAIN outbox
    BY <1>0, SuppressKeepsRows, Times
  <2>2. kept[i] = outbox[i] \/ Pending(outbox[i])
    BY <1>0, SuppressedRow
  <2>3. outbox' = Orphan(kept, s)
    BY <1>4 DEF DeleteServer
  <2> HIDE DEF kept
  <2>4. /\ i \in DOMAIN kept /\ DOMAIN outbox' = DOMAIN kept
        /\ outbox'[i].doneAt = kept[i].doneAt /\ outbox'[i].lastError = kept[i].lastError
    BY <2>1, <2>3, OrphanKeepsRows, OrphanedRow
  <2> QED BY <2>2, <2>4 DEF Settles
<1>5. CASE DeleteTerminalAlertOutboxBefore
  BY <1>5 DEF DeleteTerminalAlertOutboxBefore, Settles, Expired
<1>6. CASE ~OutboxStep
  BY <1>6, OtherSteps DEF Settles
<1> QED BY <1>1, <1>2, <1>3, <1>4, <1>5, <1>6 DEF OutboxStep

(* A waiting row is never lost, and one delivered or suppressed keeps that *)
(* outcome for as long as it is in the table.                              *)
THEOREM SettledOnce == Spec => OutboxSettlesOnce
<1> DEFINE Inv == Typed /\ FreshIds
<1>1. Init => Inv
  BY TypedInit DEF Init, TablesInit, FreshIds
<1>2. Inv /\ [Next]_vars => Inv'
  BY TypedNext, FreshIdsStep
<1>3. Inv /\ [Next]_vars => [\A i \in DOMAIN outbox :
        /\ Pending(outbox[i]) => i \in DOMAIN outbox'
        /\ ~Pending(outbox[i]) /\ i \in DOMAIN outbox' =>
              /\ outbox'[i].doneAt = outbox[i].doneAt
              /\ outbox'[i].lastError = outbox[i].lastError]_vars
  BY SettlesStep DEF Settles
<1> HIDE DEF Inv
<1> QED BY <1>1, <1>2, <1>3, PTL DEF Spec, OutboxSettlesOnce
=============================================================================
