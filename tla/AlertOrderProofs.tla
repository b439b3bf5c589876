-------------------------- MODULE AlertOrderProofs --------------------------
(***************************************************************************)
(* Theorems about the order and the dates of alerts, for every value of    *)
(* the constants: the messages of a conversation arrive in the order they  *)
(* were queued; and, while the wall clock only advances, an outage is told *)
(* of once, ends once, is never announced before a full threshold, and its *)
(* end is told to everyone who was a recipient throughout.                 *)
(*                                                                         *)
(* Three inductive invariants.  Ordered: what is accepted or in hand has   *)
(* nothing waiting before it in its conversation.  Chronology: how the     *)
(* times in the tables lie to the clock, to each other, and to the events  *)
(* of the rows queued so far.  Accounts: who has a row of an open episode, *)
(* and whom the worker may still take it back from.                        *)
(***************************************************************************)
EXTENDS AlertContractProofs

-----------------------------------------------------------------------------
(* One step, seen from the rows: they come from an evaluation, they stay   *)
(* for the event they were queued for, and none waits that did not wait.   *)

LEMMA EvaluationRows ==
    ASSUME Typed, now \in Time, EvaluateAlerts(now, allowed)
    PROVE  \E last \in (nextId - 1) .. MaxId :
             /\ nextId' = last + 1
             /\ DOMAIN outbox' = DOMAIN outbox \cup nextId .. last
             /\ \A i \in nextId .. last : outbox'[i] \in Queued(now, allowed)
             /\ \A row \in Queued(now, allowed) : \E i \in nextId .. last : outbox'[i] = row
             /\ \A i, j \in nextId .. last : outbox'[i] = outbox'[j] => i = j
             /\ \A i \in DOMAIN outbox \ (nextId .. last) :
                  outbox'[i] = SuppressPending(outbox, Leftover, now)[i]
<1>1. PICK last \in (nextId - 1) .. MaxId :
        \E row \in Bijection(nextId .. last, Queued(now, allowed)) :
          /\ outbox' = [i \in DOMAIN outbox \cup nextId .. last |->
                IF i \in nextId .. last THEN row[i]
                ELSE SuppressPending(outbox, Leftover, now)[i]]
          /\ nextId' = last + 1
  BY DEF EvaluateAlerts
<1>2. PICK row \in [nextId .. last -> Queued(now, allowed)] :
          /\ \A i, j \in nextId .. last : row[i] = row[j] => i = j
          /\ \A queued \in Queued(now, allowed) : \E i \in nextId .. last : row[i] = queued
          /\ outbox' = [i \in DOMAIN outbox \cup nextId .. last |->
                IF i \in nextId .. last THEN row[i]
                ELSE SuppressPending(outbox, Leftover, now)[i]]
  BY <1>1 DEF Bijection, Injection, Surjection, IsInjective
<1> QED BY <1>1, <1>2

Stays(i) ==
    /\ Event(outbox'[i]) = Event(outbox[i])
    /\ outbox'[i].server \in {outbox[i].server, NoServer}
    /\ outbox[i].server \in Existing' => outbox'[i].server = outbox[i].server
    /\ Pending(outbox'[i]) => Pending(outbox[i]) /\ outbox'[i].server = outbox[i].server
    /\ outbox'[i].doneAt \in {outbox[i].doneAt, Null, now, clock}

LEMMA RowStays ==
    ASSUME Typed, FreshIds, [Next]_vars, NEW i \in DOMAIN outbox, i \in DOMAIN outbox'
    PROVE  Stays(i)
<1>0. /\ outbox \in [DOMAIN outbox -> Row(MaxAttempts)] /\ clock \in Time
      /\ i < nextId /\ i \in 1..MaxId /\ nextId \in 1..(MaxId + 1)
  BY DEF Typed, TypeOK, FreshIds
<1>1. CASE Evaluate
  <2>1. now \in Time
    BY <1>1, EvaluationFacts
  <2>2. outbox'[i] = SuppressPending(outbox, Leftover, now)[i]
    <3>1. PICK last \in (nextId - 1) .. MaxId :
          \A j \in DOMAIN outbox \ (nextId .. last) :
               outbox'[j] = SuppressPending(outbox, Leftover, now)[j]
      BY <1>1, EvaluationFacts, EvaluationOutbox
    <3>2. i \notin nextId .. last
      BY <1>0
    <3> QED BY <3>1, <3>2
  <2> QED BY <1>0, <2>1, <2>2, SuppressedRow DEF Stays
<1>2. ASSUME NEW item \in batch, Suppress(item) \/ Deliver(item) \/ Retry(item)
      PROVE  Stays(i)
  <2>1. PICK row : Marks(item.id, row)
    BY <1>2, WorkerMarks
  <2>2. CASE i = item.id
    <3>1. outbox'[i] = row
      BY <2>1, <2>2 DEF Marks
    <3> QED BY <2>1, <2>2, <3>1 DEF Marks, Stays
  <2>3. CASE i # item.id
    <3>1. outbox'[i] = outbox[i]
      BY <2>1, <2>3 DEF Marks
    <3> QED BY <3>1 DEF Stays
  <2> QED BY <2>2, <2>3
<1>3. ASSUME NEW s \in Server, NEW b \in BOOLEAN, UpdateServer(s, b)
      PROVE  Stays(i)
  <2>1. outbox' = outbox \/ outbox' = SuppressPending(outbox, {s}, clock)
    BY <1>3 DEF UpdateServer
  <2> QED BY <1>0, <2>1, SuppressedRow DEF Stays
<1>4. ASSUME NEW s \in Server, DeleteServer(s)
      PROVE  Stays(i)
  <2> DEFINE kept == SuppressPending(outbox, {s}, clock)
  <2>1. kept \in [DOMAIN kept -> Row(MaxAttempts)] /\ DOMAIN kept = DOMAIN outbox
    BY <1>0, SuppressKeepsRows, Times
  <2>2. \/ kept[i] = outbox[i] /\ ~(Pending(outbox[i]) /\ outbox[i].server = s)
        \/ /\ ~Pending(kept[i]) /\ kept[i].doneAt = clock
           /\ kept[i].server = outbox[i].server /\ Event(kept[i]) = Event(outbox[i])
    BY <1>0, SuppressedRow
  <2>3. outbox' = Orphan(kept, s)
    BY <1>4 DEF DeleteServer
  <2> HIDE DEF kept
  <2>4. /\ outbox'[i].doneAt = kept[i].doneAt /\ Event(outbox'[i]) = Event(kept[i])
        /\ outbox'[i].server = IF kept[i].server = s THEN NoServer ELSE kept[i].server
    BY <2>1, <2>3, OrphanedRow
  <2>5. s \notin Existing'
    <3>1. status \in [Server -> Statuses]
      BY DEF Typed, TypeOK
    <3> QED BY <1>4, <3>1 DEF DeleteServer, Existing
  <2> QED BY <2>2, <2>4, <2>5 DEF Stays, Pending
<1>5. CASE DeleteTerminalAlertOutboxBefore
  <2>1. outbox'[i] = outbox[i]
    BY <1>5 DEF DeleteTerminalAlertOutboxBefore
  <2> QED BY <2>1 DEF Stays
<1>6. CASE ~OutboxStep
  BY <1>6, OtherSteps DEF Stays
<1> QED BY <1>1, <1>2, <1>3, <1>4, <1>5, <1>6 DEF OutboxStep

(* Where a row is new, it is one that the evaluation queued.               *)
LEMMA RowComes ==
    ASSUME Typed, [Next]_vars, NEW i \in DOMAIN outbox', i \notin DOMAIN outbox
    PROVE  Evaluate /\ outbox'[i] \in Queued(now, allowed) /\ i >= nextId
<1>0. outbox \in [DOMAIN outbox -> Row(MaxAttempts)] /\ clock \in Time
  BY DEF Typed, TypeOK
<1>1. CASE Evaluate
  <2>1. PICK last \in (nextId - 1) .. MaxId :
          /\ DOMAIN outbox' = DOMAIN outbox \cup nextId .. last
          /\ \A j \in nextId .. last : outbox'[j] \in Queued(now, allowed)
    BY <1>1, EvaluationFacts, EvaluationRows
  <2>2. i \in nextId .. last
    BY <2>1
  <2> QED BY <1>1, <2>1, <2>2
<1>2. CASE \E item \in batch : Suppress(item) \/ Deliver(item) \/ Retry(item)
  <2>1. DOMAIN outbox' = DOMAIN outbox
    BY <1>2, WorkerMarks DEF Marks
  <2> QED BY <2>1
<1>3. CASE \E s \in Server, b \in BOOLEAN : UpdateServer(s, b)
  BY <1>0, <1>3, SuppressKeepsRows, Times DEF UpdateServer
<1>4. ASSUME NEW s \in Server, DeleteServer(s)
      PROVE  FALSE
  <2> DEFINE kept == SuppressPending(outbox, {s}, clock)
  <2>1. kept \in [DOMAIN kept -> Row(MaxAttempts)] /\ DOMAIN kept = DOMAIN outbox
    BY <1>0, SuppressKeepsRows, Times
  <2>2. outbox' = Orphan(kept, s)
    BY <1>4 DEF DeleteServer
  <2> HIDE DEF kept
  <2> QED BY <2>1, <2>2, OrphanKeepsRows
<1>5. CASE DeleteTerminalAlertOutboxBefore
  BY <1>5 DEF DeleteTerminalAlertOutboxBefore
<1>6. CASE ~OutboxStep
  BY <1>6, OtherSteps
<1> QED BY <1>1, <1>2, <1>3, <1>4, <1>5, <1>6 DEF OutboxStep

-----------------------------------------------------------------------------
(* Messages in the order of their rows.                                    *)

Talk(row) == <<row.server, row.user>>
Clear(id, talk) == \A i \in DOMAIN outbox :
    i < id /\ Talk(outbox[i]) = talk => ~Pending(outbox[i])

Numbered == (\A m \in accepted : m.id < nextId) /\ (\A item \in batch : item.id < nextId)
Passed == \A m \in accepted : Clear(m.id, Talk(m))
Headed == \A item \in batch : Clear(item.id, Talk(item.row))
Apart == \A item, other \in batch : Talk(item.row) = Talk(other.row) => item = other
Behind == \A item \in batch, m \in accepted : Talk(item.row) = Talk(m) => m.id <= item.id
Ordered == FreshIds /\ InHand /\ Numbered /\ Passed /\ Headed /\ Apart /\ Behind

LEMMA NextIdGrows ==
    ASSUME Typed, [Next]_vars
    PROVE  nextId' \in Int /\ nextId \in Int /\ nextId <= nextId'
<1>0. nextId \in 1..(MaxId + 1) /\ nextId \in Int
  BY DEF Typed, TypeOK
<1>1. CASE Evaluate
  <2>1. PICK last \in (nextId - 1) .. MaxId : nextId' = last + 1
    BY <1>1, EvaluationFacts, EvaluationOutbox
  <2> QED BY <1>0, <2>1
<1>2. CASE ~Evaluate
  <2>1. nextId' = nextId
    <3>1. CASE \E item \in batch : Suppress(item) \/ Deliver(item) \/ Retry(item)
      BY <3>1, WorkerMarks DEF Marks, otherTables
    <3>2. CASE \/ \E s \in Server, b \in BOOLEAN : UpdateServer(s, b)
               \/ \E s \in Server : DeleteServer(s)
               \/ DeleteTerminalAlertOutboxBefore
      BY <3>2 DEF UpdateServer, DeleteServer, DeleteTerminalAlertOutboxBefore, otherTables
    <3>3. CASE ~OutboxStep
      BY <3>3, OtherSteps
    <3> QED BY <1>2, <3>1, <3>2, <3>3 DEF OutboxStep
  <2> QED BY <1>0, <2>1
<1> QED BY <1>1, <1>2

(* What nothing waits before stays so: new rows come behind it.            *)
LEMMA StaysClear ==
    ASSUME Typed, FreshIds, [Next]_vars, NEW id \in 1..MaxId, id < nextId, NEW talk, Clear(id, talk)
    PROVE  Clear(id, talk)'
<1> SUFFICES ASSUME NEW i \in DOMAIN outbox', i < id, Talk(outbox'[i]) = talk, Pending(outbox'[i])
             PROVE  FALSE
  BY DEF Clear, Pending, Talk
<1>1. i \in DOMAIN outbox
  <2>1. i \in 1..MaxId /\ nextId \in Int
    BY TypedNext, NextIdGrows DEF Typed, TypeOK
  <2> QED BY <2>1, RowComes
<1>2. Stays(i)
  BY <1>1, RowStays
<1>3. Pending(outbox[i]) /\ Talk(outbox[i]) = talk
  BY <1>2 DEF Stays, Talk, Event
<1> QED BY <1>1, <1>3 DEF Clear

(* Only a listing and an accepted send add to the batch or to accepted.    *)
LEMMA BatchSteps ==
    ASSUME [Next]_vars
    PROVE  \/ List /\ UNCHANGED accepted
           \/ \E item \in batch : SendAccepted(item)
           \/ batch' \subseteq batch /\ UNCHANGED accepted
<1>1. CASE RunOnce \/ Evaluate \/ EvaluationFails \/ RepositoryFails
  BY <1>1 DEF RunOnce, Evaluate, EvaluationFails, RepositoryFails, RunEnds, Goto
<1>2. CASE List
  BY <1>2 DEF List, RunEnds
<1>3. CASE \E item \in batch : Recheck(item) \/ SendRefused(item)
  BY <1>3 DEF Recheck, SendRefused, Goto
<1>4. CASE \E item \in batch : Suppress(item) \/ Deliver(item) \/ Retry(item)
  BY <1>4 DEF Suppress, Deliver, Retry, Handled, RunEnds
<1>5. CASE Crash \/ \E admins \in (SUBSET Admin) \ {{}} : Restart(admins)
  BY <1>5 DEF Crash, Restart
<1>6. CASE UNCHANGED workerVars
  BY <1>6 DEF workerVars
<1> QED BY <1>1, <1>2, <1>3, <1>4, <1>5, <1>6 DEF Next, WorkerStep, vars

LEMMA OrderedStep ==
    ASSUME Typed, Ordered, [Next]_vars
    PROVE  Ordered'
<1>0. /\ nextId \in Int /\ nextId' \in Int /\ nextId <= nextId'
      /\ \A m \in accepted : m.id \in 1..MaxId
      /\ \A item \in batch : item.id \in 1..MaxId
  BY NextIdGrows DEF Typed, TypeOK, Message, Item
<1>1. FreshIds' /\ InHand'
  BY FreshIdsStep, InHandStep DEF Ordered
<1>2. \A m \in accepted : m.id < nextId' /\ Clear(m.id, Talk(m))'
  <2>1. ASSUME NEW m \in accepted
        PROVE  m.id < nextId' /\ Clear(m.id, Talk(m))'
    <3>1. m.id < nextId /\ Clear(m.id, Talk(m)) /\ m.id \in Int
      BY <1>0 DEF Ordered, Numbered, Passed
    <3> QED BY <1>0, <3>1, StaysClear DEF Ordered
  <2> QED BY <2>1
<1>3. \A item \in batch : item.id < nextId' /\ Clear(item.id, Talk(item.row))'
  <2>1. ASSUME NEW item \in batch
        PROVE  item.id < nextId' /\ Clear(item.id, Talk(item.row))'
    <3>1. item.id < nextId /\ Clear(item.id, Talk(item.row)) /\ item.id \in Int
      BY <1>0 DEF Ordered, Numbered, Headed
    <3> QED BY <1>0, <3>1, StaysClear DEF Ordered
  <2> QED BY <2>1
<1>4. CASE batch' \subseteq batch /\ UNCHANGED accepted
  <2>1. Numbered' /\ Passed' /\ Headed'
    BY <1>2, <1>3, <1>4 DEF Numbered, Passed, Headed
  <2>2. Apart' /\ Behind'
    BY <1>4 DEF Ordered, Apart, Behind
  <2> QED BY <1>1, <2>1, <2>2 DEF Ordered
<1>5. ASSUME NEW item \in batch, SendAccepted(item)
      PROVE  Ordered'
  <2> DEFINE message == AsMessage(item)
  <2>1. /\ accepted' = accepted \cup {message} /\ UNCHANGED batch
        /\ message.id = item.id /\ Talk(message) = Talk(item.row)
    BY <1>5 DEF SendAccepted, AsMessage, Talk
  <2> HIDE DEF message
  <2>2. Numbered'
    BY <1>2, <1>3, <2>1 DEF Numbered
  <2>3. Passed'
    <3>1. ASSUME NEW m \in accepted'
          PROVE  Clear(m.id, Talk(m))'
      BY <1>2, <1>3, <2>1
    <3> QED BY <3>1 DEF Passed
  <2>4. Headed' /\ Apart'
    BY <1>3, <2>1 DEF Headed, Ordered, Apart
  <2>5. Behind'
    <3>1. ASSUME NEW other \in batch, NEW m \in accepted', Talk(other.row) = Talk(m)
          PROVE  m.id <= other.id
      <4>1. CASE m \in accepted
        BY <3>1, <4>1 DEF Ordered, Behind
      <4>2. CASE m = message
        BY <1>0, <2>1, <3>1, <4>2 DEF Ordered, Apart
      <4> QED BY <2>1, <4>1, <4>2
    <3> QED BY <2>1, <3>1 DEF Behind
  <2> QED BY <1>1, <2>2, <2>3, <2>4, <2>5 DEF Ordered
<1>6. CASE List /\ UNCHANGED accepted
  <2>1. UNCHANGED <<outbox, nextId>>
    BY <1>6 DEF List, tableVars
  <2>2. ASSUME NEW item \in batch'
        PROVE  /\ item.id \in DOMAIN outbox /\ item.row = outbox[item.id]
               /\ Pending(outbox[item.id]) /\ Clear(item.id, Talk(item.row))
    <3>1. batch' # {}
      BY <2>2
    <3>2. batch' = {[id |-> i, row |-> outbox[i]] : i \in ListDueAlertOutbox(now, BatchSize)}
      BY <1>6, <3>1 DEF List, RunEnds
    <3>3. PICK i \in DueHeads(now) : item = [id |-> i, row |-> outbox[i]]
      BY <2>2, <3>2 DEF ListDueAlertOutbox
    <3> QED BY <3>3 DEF DueHeads, Clear, Talk
  <2>3. \A i \in DOMAIN outbox : i \in Int /\ i < nextId
    BY DEF Ordered, FreshIds, Typed, TypeOK
  <2>4. Numbered'
    BY <1>0, <1>6, <2>1, <2>2, <2>3 DEF Ordered, Numbered
  <2>5. Passed' /\ Headed'
    <3>1. \A item \in batch' : Clear(item.id, Talk(item.row))'
      BY <2>1, <2>2 DEF Clear, Pending, Talk
    <3> QED BY <1>2, <1>6, <3>1 DEF Passed, Headed
  <2>6. Apart'
    <3>1. ASSUME NEW item \in batch', NEW other \in batch', Talk(item.row) = Talk(other.row)
          PROVE  item = other
      <4>1. ~(item.id < other.id) /\ ~(other.id < item.id)
        BY <2>2, <3>1 DEF Clear
      <4>2. item.id = other.id
        BY <2>2, <2>3, <4>1
      <4>3. item \in Item /\ other \in Item
        BY TypedNext DEF Typed, TypeOK
      <4> QED BY <2>2, <4>2, <4>3 DEF Item
    <3> QED BY <3>1 DEF Apart
  <2>7. Behind'
    <3>1. ASSUME NEW item \in batch', NEW m \in accepted, Talk(item.row) = Talk(m)
          PROVE  m.id <= item.id
      <4>1. ~(item.id < m.id)
        BY <2>2, <3>1 DEF Ordered, Passed, Clear
      <4> QED BY <1>0, <2>2, <2>3, <4>1
    <3> QED BY <1>6, <3>1 DEF Behind
  <2> QED BY <1>1, <2>4, <2>5, <2>6, <2>7 DEF Ordered
<1> QED BY <1>4, <1>5, <1>6, BatchSteps

(* What one recipient is told of one server arrives in the order in which  *)
(* it was queued: a message may be repeated, and none is overtaken, across *)
(* retries, crashes, restarts and rows that are taken back.                *)
THEOREM MessagesInOrder == Spec => InOrder
<1> DEFINE Inv == Typed /\ Ordered
           InTurn == \A item \in batch :
              IsNext(item) /\ pc = "send" /\ AsMessage(item) \in accepted' =>
                \A m \in accepted :
                  m.user = item.row.user /\ m.server = item.row.server => m.id <= item.id
<1>1. Init => Inv
  BY TypedInit
  DEF Init, TablesInit, Ordered, FreshIds, InHand, Resting, OneItemPerId, SentAsListed,
      Numbered, Passed, Headed, Apart, Behind
<1>2. Inv /\ [Next]_vars => Inv'
  BY TypedNext, OrderedStep
<1>3. Inv /\ [Next]_vars => [InTurn]_vars
  BY DEF Ordered, Behind, Talk
<1> HIDE DEF Inv
<1> QED BY <1>1, <1>2, <1>3, PTL DEF Spec, InOrder

-----------------------------------------------------------------------------
(* Dates.  Of one server: st is its alert state, rcv its last report, crt  *)
(* its birth, alv its last sign of life.                                   *)

Began(st, rcv, crt) ==
    LET heard == IF rcv # Null THEN rcv ELSE crt
    IN  IF st.updated # Null /\ st.recovered = Null /\ st.updated > heard
        THEN st.updated ELSE heard
IsOpen(st) == st.offlineSince # Null /\ st.alertSent # Null

(* No sign of life is later than what the next outage, or the end of this  *)
(* one, is counted from, but for the lag of a report.                      *)
FreshAt(st, rcv, crt, alv) ==
    IF IsOpen(st)
    THEN /\ rcv <= st.offlineSince \/ st.alertSent <= rcv + IngestLag
         /\ alv <= st.offlineSince + IngestLag \/ alv <= rcv + IngestLag
    ELSE alv <= Began(st, rcv, crt) + IngestLag

(* A row is of an outage before the next one; while an outage is open, the *)
(* offline rows of its own are the latest, and none is of its end.         *)
DatedAt(st, rcv, crt, row) ==
    IF IsOpen(st)
    THEN /\ row.since <= st.offlineSince
         /\ row.kind = "recovery" => row.since < st.offlineSince
         /\ row.kind = "offline" =>
              \/ row.since < st.offlineSince /\ row.created < st.alertSent
              \/ row.since = st.offlineSince /\ row.created = st.alertSent
    ELSE /\ row.since < Began(st, rcv, crt)
         /\ row.kind = "offline" => row.created <= Began(st, rcv, crt) + IngestLag

(* A row is of an event that is over longer than any report may lag.       *)
PastAt(row, clk) ==
    row.since + IngestLag < clk /\ row.created <= clk /\ row.since <= row.created

Dates == [kind: Kinds, since: Time, created: Time]
Dating(row) == [kind |-> row.kind, since |-> row.since, created |-> row.created]

LEMMA Ints ==
    /\ TimeOrNull \subseteq Int /\ Time \subseteq Int /\ Null \in Int /\ IngestLag \in Nat
    /\ \A n \in TimeOrNull : n >= 0
    /\ \A n \in Time : n > 0
  BY TablesAssumption DEF Time, TimeOrNull, Null

(* A report is stored, possibly late.                                      *)
LEMMA DatesHeard ==
    ASSUME NEW st \in StateRow, NEW rcv \in TimeOrNull, NEW crt \in TimeOrNull,
           NEW alv \in TimeOrNull, NEW clk \in Time, NEW at \in Time, clk <= at + IngestLag,
           alv <= clk, st.alertSent <= clk, at <= clk
    PROVE  /\ FreshAt(st, at, crt, IF at > alv THEN at ELSE alv)
           /\ \A row \in Dates : DatedAt(st, rcv, crt, row) /\ PastAt(row, clk)
                 => DatedAt(st, at, crt, row)
<1>1. /\ st.offlineSince \in Int /\ st.alertSent \in Int /\ st.updated \in Int
      /\ rcv \in Int /\ crt \in Int /\ alv \in Int /\ clk \in Int /\ at \in Int /\ at # Null
      /\ IngestLag \in Nat
  BY Ints, Times DEF StateRow
<1>2. Began(st, at, crt) \in Int /\ at <= Began(st, at, crt)
  BY <1>1 DEF Began
<1>3. FreshAt(st, at, crt, IF at > alv THEN at ELSE alv)
  BY <1>1, <1>2 DEF FreshAt
<1>4. ASSUME NEW row \in Dates, DatedAt(st, rcv, crt, row), PastAt(row, clk)
      PROVE  DatedAt(st, at, crt, row)
  <2>1. row.since \in Int /\ row.created \in Int
    BY Ints DEF Dates
  <2>2. row.since < at /\ row.created <= at + IngestLag
    BY <1>1, <1>4, <2>1 DEF PastAt
  <2>3. row.since < Began(st, at, crt) /\ row.created <= Began(st, at, crt) + IngestLag
    BY <1>1, <1>2, <2>1, <2>2
  <2> QED BY <1>4, <2>3 DEF DatedAt
<1> QED BY <1>3, <1>4

(* The administrator switches the server off or on again.                  *)
LEMMA DatesReset ==
    ASSUME NEW rcv \in TimeOrNull, NEW crt \in TimeOrNull, NEW alv \in TimeOrNull,
           NEW clk \in Time, alv <= clk
    PROVE  /\ FreshAt(ResetState(clk), rcv, crt, alv)
           /\ \A row \in Dates : PastAt(row, clk) => DatedAt(ResetState(clk), rcv, crt, row)
<1>1. /\ rcv \in Int /\ crt \in Int /\ alv \in Int /\ clk \in Int /\ clk # Null /\ IngestLag \in Nat
  BY Ints, Times
<1>2. ~IsOpen(ResetState(clk))
  BY DEF IsOpen, ResetState
<1>3. /\ Began(ResetState(clk), rcv, crt) \in Int
      /\ clk <= Began(ResetState(clk), rcv, crt)
  BY <1>1 DEF Began, ResetState
<1>4. FreshAt(ResetState(clk), rcv, crt, alv)
  BY <1>1, <1>2, <1>3 DEF FreshAt
<1>5. ASSUME NEW row \in Dates, PastAt(row, clk)
      PROVE  DatedAt(ResetState(clk), rcv, crt, row)
  <2>1. row.since \in Int /\ row.created \in Int
    BY Ints DEF Dates
  <2> QED BY <1>1, <1>2, <1>3, <1>5, <2>1 DEF DatedAt, PastAt
<1> QED BY <1>4, <1>5

(* The server is alerted, after more than a report may lag.                *)
LEMMA DatesAlerted ==
    ASSUME NEW st \in StateRow, NEW rcv \in TimeOrNull, NEW crt \in TimeOrNull,
           NEW alv \in TimeOrNull, NEW at \in Time, NEW t \in Threshold,
           NEW began \in Time, began = Began(st, rcv, crt), at - began >= t,
           ~IsOpen(st), FreshAt(st, rcv, crt, alv)
    PROVE  /\ FreshAt(OfflineState(began, at), rcv, crt, alv)
           /\ \A row \in Dates :
                /\ DatedAt(st, rcv, crt, row) => DatedAt(OfflineState(began, at), rcv, crt, row)
                /\ row = [kind |-> "offline", since |-> began, created |-> at]
                     => /\ DatedAt(OfflineState(began, at), rcv, crt, row)
                        /\ \A clk \in Time : at <= clk => PastAt(row, clk)
           /\ at - alv >= t - IngestLag
<1>1. /\ st.updated \in Int /\ rcv \in Int /\ crt \in Int /\ alv \in Int /\ at \in Int
      /\ at # Null /\ began \in Int /\ began # Null
      /\ rcv >= 0 /\ t \in Nat /\ t > IngestLag /\ IngestLag \in Nat
  BY Ints, Times, TablesAssumption DEF StateRow
<1>2. rcv <= began
  <2>1. began > 0
    BY Ints
  <2> QED BY <1>1, <2>1 DEF Began, Null
<1> DEFINE new == OfflineState(began, at)
<1>3. new.offlineSince = began /\ new.alertSent = at /\ IsOpen(new)
  BY <1>1 DEF OfflineState, IsOpen
<1>4. alv <= began + IngestLag /\ began + IngestLag < at
  BY <1>1 DEF FreshAt
<1> HIDE DEF new
<1>5. FreshAt(new, rcv, crt, alv)
  BY <1>1, <1>2, <1>3, <1>4 DEF FreshAt
<1>6. ASSUME NEW row \in Dates, DatedAt(st, rcv, crt, row)
      PROVE  DatedAt(new, rcv, crt, row)
  <2>1. row.since \in Int /\ row.created \in Int
    BY Ints DEF Dates
  <2>2. row.since < began /\ (row.kind = "offline" => row.created <= began + IngestLag)
    BY <1>6 DEF DatedAt
  <2> QED BY <1>1, <1>3, <1>4, <2>1, <2>2 DEF DatedAt
<1>7. ASSUME NEW row \in Dates, row = [kind |-> "offline", since |-> began, created |-> at]
      PROVE  DatedAt(new, rcv, crt, row) /\ \A clk \in Time : at <= clk => PastAt(row, clk)
  <2>1. row.kind = "offline" /\ row.since = began /\ row.created = at
    BY <1>7
  <2>2. \A clk \in Time : clk \in Int
    BY Ints
  <2> QED BY <1>1, <1>3, <1>4, <2>1, <2>2 DEF DatedAt, PastAt
<1>8. at - alv >= t - IngestLag
  BY <1>1, <1>4
<1> QED BY <1>5, <1>6, <1>7, <1>8 DEF new

(* The end of an alerted outage is noticed.                                *)
LEMMA DatesEnded ==
    ASSUME NEW st \in StateRow, NEW rcv \in TimeOrNull, NEW crt \in TimeOrNull,
           NEW alv \in TimeOrNull, NEW at \in Time,
           IsOpen(st), FreshAt(st, rcv, crt, alv), rcv # Null, rcv > st.offlineSince
    PROVE  /\ FreshAt(RecoveredState(at), rcv, crt, alv)
           /\ \A row \in Dates :
                /\ DatedAt(st, rcv, crt, row) => DatedAt(RecoveredState(at), rcv, crt, row)
                /\ row.kind = "recovery" /\ row.since = st.offlineSince
                     => DatedAt(RecoveredState(at), rcv, crt, row)
<1>1. /\ st.offlineSince \in Int /\ st.alertSent \in Int /\ rcv \in Int /\ alv \in Int
      /\ IngestLag \in Nat /\ at # Null
  BY Ints, Times DEF StateRow
<1> DEFINE new == RecoveredState(at)
<1>2. ~IsOpen(new) /\ Began(new, rcv, crt) = rcv
  BY <1>1 DEF RecoveredState, IsOpen, Began
<1> HIDE DEF new
<1>3. st.alertSent <= rcv + IngestLag /\ alv <= rcv + IngestLag
  BY <1>1 DEF FreshAt
<1>4. FreshAt(new, rcv, crt, alv)
  BY <1>2, <1>3 DEF FreshAt
<1>5. ASSUME NEW row \in Dates,
             \/ DatedAt(st, rcv, crt, row)
             \/ row.kind = "recovery" /\ row.since = st.offlineSince
      PROVE  DatedAt(new, rcv, crt, row)
  <2>1. row.since \in Int /\ row.created \in Int
    BY Ints DEF Dates
  <2>2. row.since <= st.offlineSince /\ (row.kind = "offline" => row.created <= st.alertSent)
    BY <1>1, <1>5, <2>1 DEF DatedAt
  <2> QED BY <1>1, <1>2, <1>3, <2>1, <2>2 DEF DatedAt
<1> QED BY <1>4, <1>5 DEF new

-----------------------------------------------------------------------------
(* One step, seen from one server.                                         *)

Timeless(s) == UNCHANGED <<received[s], created[s], alive[s], clock>>
Rests(s) == UNCHANGED <<status[s], alertState[s], received[s], created[s], alive[s]>>
Alerted(s) == /\ Evaluate /\ s \in Overdue(now) /\ s \in Existing' /\ Timeless(s)
              /\ alertState'[s] = OfflineState(Baseline(s), now)
Ended(s) == /\ Evaluate /\ s \in Recovered /\ s \in Existing' /\ Timeless(s)
            /\ alertState'[s] = RecoveredState(now)
Switched(s) == /\ s \in Existing /\ s \in Existing' /\ UNCHANGED <<received[s], created[s], clock>>
               /\ alertState'[s] = ResetState(clock) /\ alive'[s] \in {alive[s], clock}
HeardOf(s) == /\ s \in Existing /\ s \in Existing' /\ UNCHANGED <<alertState[s], created[s], clock>>
              /\ \E at \in Time : /\ at \in (clock - IngestLag) .. clock \/ RollbackAllowed
                                  /\ received'[s] = at
                                  /\ alive'[s] = IF at > alive[s] THEN at ELSE alive[s]
Born(s) == /\ status[s] = "absent" /\ s \in Existing' /\ UNCHANGED <<alertState[s], received[s], clock>>
           /\ created'[s] = clock /\ alive'[s] = clock
Gone(s) == /\ status'[s] = "deleted" /\ received'[s] = Null /\ alive'[s] = Null
           /\ alertState'[s] = NoState
           /\ \A i \in DOMAIN outbox' : outbox'[i].server # s

LEMMA ServerStep ==
    ASSUME Typed, EpisodeShape, [Next]_vars, NEW s \in Server
    PROVE  \/ Rests(s) \/ Alerted(s) \/ Ended(s) \/ Switched(s) \/ HeardOf(s)
           \/ Born(s) \/ Gone(s)
<1>0. /\ alertState \in [Server -> StateRow] /\ received \in [Server -> TimeOrNull]
      /\ created \in [Server -> TimeOrNull] /\ alive \in [Server -> TimeOrNull]
      /\ status \in [Server -> Statuses] /\ clock \in Time
      /\ outbox \in [DOMAIN outbox -> Row(MaxAttempts)]
  BY DEF Typed, TypeOK
<1>1. CASE Evaluate
  <2>1. /\ alertState'[s] = NextState(s, now)
        /\ UNCHANGED <<received, created, alive, clock, status>>
    BY <1>1 DEF Evaluate, EvaluateAlerts
  <2>2. s \notin Leftover
    BY DEF EpisodeShape, Closed, Leftover
  <2>3. CASE s \in Recovered
    <3>1. s \in Existing /\ s \notin Overdue(now)
      BY <2>3 DEF Recovered, Overdue
    <3>2. alertState'[s] = RecoveredState(now)
      BY <2>1, <2>2, <2>3, <3>1 DEF NextState
    <3> QED BY <1>1, <2>1, <2>3, <3>1, <3>2 DEF Ended, Timeless, Existing
  <2>4. CASE s \in Overdue(now) /\ s \notin Recovered
    BY <1>1, <2>1, <2>2, <2>4 DEF NextState, Alerted, Timeless, Overdue, Existing
  <2>5. CASE s \notin Overdue(now) /\ s \notin Recovered
    BY <2>1, <2>2, <2>5 DEF NextState, Rests, Existing
  <2> QED BY <2>3, <2>4, <2>5
<1>2. ASSUME UNCHANGED <<status, alertState, received, created, alive>>
      PROVE  Rests(s)
  BY <1>2 DEF Rests, Existing
<1>3. CASE \E item \in batch : Suppress(item) \/ Deliver(item) \/ Retry(item)
  BY <1>2, <1>3, WorkerMarks DEF Marks, otherTables
<1>4. ASSUME NEW r \in Server, NEW b \in BOOLEAN, UpdateServer(r, b)
      PROVE  Rests(s) \/ Switched(s)
  <2>1. CASE r = s
    BY <1>0, <1>4, <2>1 DEF UpdateServer, Switched, Existing
  <2>2. CASE r # s
    BY <1>0, <1>4, <2>2 DEF UpdateServer, Rests, Existing
  <2> QED BY <2>1, <2>2
<1>5. ASSUME NEW r \in Server, DeleteServer(r)
      PROVE  Rests(s) \/ Gone(s)
  <2>1. CASE r = s
    <3>1. /\ status'[s] = "deleted" /\ received'[s] = Null /\ alive'[s] = Null
          /\ alertState'[s] = NoState
      BY <1>0, <1>5, <2>1 DEF DeleteServer, Existing
    <3> DEFINE kept == SuppressPending(outbox, {s}, clock)
    <3>2. kept \in [DOMAIN kept -> Row(MaxAttempts)]
      BY <1>0, SuppressKeepsRows, Times
    <3>3. outbox' = Orphan(kept, s)
      BY <1>5, <2>1 DEF DeleteServer
    <3> HIDE DEF kept
    <3>4. \A i \in DOMAIN outbox' : outbox'[i].server # s
      BY <3>2, <3>3, OrphanKeepsRows, OrphanedRow, TablesAssumption
    <3> QED BY <3>1, <3>4 DEF Gone
  <2>2. CASE r # s
    BY <1>0, <1>5, <2>2 DEF DeleteServer, Rests, Existing
  <2> QED BY <2>1, <2>2
<1>6. CASE DeleteTerminalAlertOutboxBefore
  BY <1>2, <1>6 DEF DeleteTerminalAlertOutboxBefore, otherTables
<1>7. ASSUME NEW r \in Server, NEW b \in BOOLEAN, CreateServer(r, b)
      PROVE  Rests(s) \/ Born(s)
  <2>1. CASE r = s
    BY <1>0, <1>7, <2>1 DEF CreateServer, Born, Existing
  <2>2. CASE r # s
    BY <1>0, <1>7, <2>2 DEF CreateServer, Rests, Existing
  <2> QED BY <2>1, <2>2
<1>8. ASSUME NEW r \in Server, NEW at \in Time, UpsertLatestMetrics(r, at)
      PROVE  Rests(s) \/ HeardOf(s)
  <2>1. CASE r = s
    <3>1. at \in (clock - IngestLag) .. clock \/ RollbackAllowed
      BY <1>8, Ints, <1>0 DEF UpsertLatestMetrics, Lead
    <3> QED BY <1>0, <1>8, <2>1, <3>1 DEF UpsertLatestMetrics, HeardOf, Existing
  <2>2. CASE r # s
    BY <1>0, <1>8, <2>2 DEF UpsertLatestMetrics, Rests, Existing
  <2> QED BY <2>1, <2>2
<1>9. CASE \/ Tick \/ ClockStepsBack
           \/ \E u \in Admin, b \in BOOLEAN : SetAlertPreference(u, b)
           \/ \E t \in Threshold : UpdateSettings(t)
  BY <1>2, <1>9 DEF Tick, ClockStepsBack, SetAlertPreference, UpdateSettings
<1>10. CASE \/ RunOnce \/ EvaluationFails \/ List \/ RepositoryFails
            \/ \E item \in batch : Recheck(item) \/ SendAccepted(item) \/ SendRefused(item)
  BY <1>2, <1>10 DEF RunOnce, EvaluationFails, List, RepositoryFails, Recheck, SendAccepted,
                     SendRefused, tableVars
<1>11. CASE Crash \/ (\E admins \in (SUBSET Admin) \ {{}} : Restart(admins)) \/ UNCHANGED vars
  BY <1>2, <1>11 DEF Crash, Restart, tableVars, vars
<1> QED BY <1>1, <1>3, <1>4, <1>5, <1>6, <1>7, <1>8, <1>9, <1>10, <1>11
        DEF Next, WorkerStep, TablesStep

(* The clock advances, and a run is dated when it starts.                  *)
LEMMA ClockAdvances ==
    ASSUME ~RollbackAllowed, Typed, [Next]_vars
    PROVE  clock' \in Int /\ clock \in Int /\ clock <= clock'
<1>0. clock \in Int
  BY Ints DEF Typed, TypeOK
<1>1. clock' \in {clock, clock + 1}
  <2>1. CASE WorkerStep
    <3>1. CASE \E item \in batch : Suppress(item) \/ Deliver(item) \/ Retry(item)
      BY <3>1, WorkerMarks DEF Marks, otherTables
    <3>2. CASE \/ RunOnce \/ Evaluate \/ EvaluationFails \/ List \/ RepositoryFails
               \/ \E item \in batch : Recheck(item) \/ SendAccepted(item) \/ SendRefused(item)
      BY <3>2 DEF RunOnce, Evaluate, EvaluateAlerts, EvaluationFails, List, RepositoryFails,
                  Recheck, SendAccepted, SendRefused, tableVars
    <3> QED BY <2>1, <3>1, <3>2 DEF WorkerStep
  <2>2. CASE TablesStep
    BY <2>2 DEF TablesStep, Tick, ClockStepsBack, CreateServer, UpdateServer, DeleteServer,
                UpsertLatestMetrics, SetAlertPreference, UpdateSettings,
                DeleteTerminalAlertOutboxBefore, otherTables
  <2>3. CASE Crash \/ (\E admins \in (SUBSET Admin) \ {{}} : Restart(admins)) \/ UNCHANGED vars
    BY <2>3 DEF Crash, Restart, tableVars, vars
  <2> QED BY <2>1, <2>2, <2>3 DEF Next
<1> QED BY <1>0, <1>1

LEMMA RunDated ==
    ASSUME [Next]_vars
    PROVE  /\ now' \in {now, clock, Null}
           /\ pc' = "evaluate" =>
                 \/ now' = clock /\ UNCHANGED tableVars
                 \/ pc = "evaluate" /\ now' = now /\ ~Evaluate
<1>1. CASE RunOnce
  BY <1>1 DEF RunOnce
<1>2. CASE Evaluate \/ EvaluationFails \/ List \/ RepositoryFails
  BY <1>2 DEF Evaluate, EvaluationFails, List, RepositoryFails, RunEnds, Goto
<1>3. CASE \E item \in batch : \/ Recheck(item) \/ SendRefused(item) \/ SendAccepted(item)
                               \/ Suppress(item) \/ Deliver(item) \/ Retry(item)
  BY <1>3 DEF Recheck, SendRefused, SendAccepted, Suppress, Deliver, Retry, Handled, RunEnds, Goto
<1>4. CASE TablesStep /\ UNCHANGED workerVars
  <2>1. ~Evaluate \/ pc' # "evaluate"
    BY DEF Evaluate, Goto
  <2> QED BY <1>4, <2>1 DEF workerVars
<1>5. CASE Crash \/ \E admins \in (SUBSET Admin) \ {{}} : Restart(admins)
  BY <1>5 DEF Crash, Restart
<1>6. CASE UNCHANGED vars
  <2>1. ~Evaluate \/ pc' # "evaluate"
    BY DEF Evaluate, Goto
  <2> QED BY <1>6, <2>1 DEF vars, workerVars
<1> QED BY <1>1, <1>2, <1>3, <1>4, <1>5, <1>6 DEF Next, WorkerStep

-----------------------------------------------------------------------------
(* The dates hold in every state, while the clock only advances.           *)

OnTime ==
    /\ now <= clock
    /\ \A s \in Server : /\ alive[s] <= clock /\ alertState[s].alertSent <= clock
                         /\ pc = "evaluate" => alertState[s].alertSent <= now
Unborn == \A s \in Server : s \notin Existing => received[s] = Null
Fresh == \A s \in Existing : FreshAt(alertState[s], received[s], created[s], alive[s])
Past == \A i \in DOMAIN outbox : PastAt(Dating(outbox[i]), clock)
DatedRow(s, row) ==
    s \in Existing /\ DatedAt(alertState[s], received[s], created[s], Dating(row))
Dated == \A i \in DOMAIN outbox :
    outbox[i].server \in Server => DatedRow(outbox[i].server, outbox[i])
Chronology == FreshIds /\ EpisodeShape /\ OnTime /\ Unborn /\ Fresh /\ Past /\ Dated

LEMMA OfServer ==
    ASSUME Typed, NEW s \in Server
    PROVE  /\ alertState[s] \in StateRow /\ received[s] \in TimeOrNull
           /\ created[s] \in TimeOrNull /\ alive[s] \in TimeOrNull
           /\ Baseline(s) = Began(alertState[s], received[s], created[s])
           /\ Open(s) <=> IsOpen(alertState[s])
           /\ clock \in Time /\ threshold \in Threshold
  BY DEF Typed, TypeOK, Baseline, Began, Open, IsOpen

LEMMA OnTimeStep ==
    ASSUME ~RollbackAllowed, Typed, EpisodeShape, OnTime, [Next]_vars
    PROVE  OnTime'
<1>0. clock' \in Int /\ clock \in Int /\ clock <= clock' /\ now \in Int /\ clock > 0
  BY ClockAdvances, Ints DEF Typed, TypeOK
<1>1. now' \in Int /\ now' <= clock'
  BY <1>0, RunDated DEF OnTime, Null
<1>2. ASSUME NEW s \in Server
      PROVE  /\ alive'[s] <= clock' /\ alertState'[s].alertSent <= clock'
             /\ pc' = "evaluate" => alertState'[s].alertSent <= now'
  <2>0. /\ alive[s] \in Int /\ alertState[s].alertSent \in Int
        /\ alive[s] <= clock /\ alertState[s].alertSent <= clock /\ now <= clock
    BY OfServer, Ints DEF OnTime, StateRow
  <2>1. \/ alertState'[s].alertSent = alertState[s].alertSent
        \/ alertState'[s].alertSent = Null
        \/ alertState'[s].alertSent = now /\ Evaluate
    <3>1. CASE Rests(s) \/ HeardOf(s) \/ Born(s)
      BY <3>1 DEF Rests, HeardOf, Born
    <3>2. CASE Alerted(s) \/ Ended(s)
      BY <3>2 DEF Alerted, Ended, OfflineState, RecoveredState
    <3>3. CASE Switched(s) \/ Gone(s)
      BY <3>3 DEF Switched, Gone, ResetState, NoState
    <3> QED BY <3>1, <3>2, <3>3, ServerStep
  <2>2. \/ alive'[s] = alive[s] \/ alive'[s] = clock \/ alive'[s] = Null
        \/ \E at \in Time : at <= clock /\ alive'[s] = at
    <3>1. CASE Rests(s) \/ Alerted(s) \/ Ended(s)
      BY <3>1 DEF Rests, Alerted, Ended, Timeless
    <3>2. CASE HeardOf(s)
      BY <1>0, <3>2 DEF HeardOf
    <3>3. CASE Switched(s) \/ Gone(s) \/ Born(s)
      BY <3>3 DEF Switched, Gone, Born
    <3> QED BY <3>1, <3>2, <3>3, ServerStep
  <2>3. alertState'[s].alertSent \in Int /\ alertState'[s].alertSent <= clock
    BY <1>0, <2>0, <2>1 DEF Null
  <2>4. alive'[s] \in Int /\ alive'[s] <= clock
    BY <1>0, <2>0, <2>2, Ints DEF Null
  <2>5. ASSUME pc' = "evaluate"
        PROVE  alertState'[s].alertSent <= now'
    <3>1. CASE now' = clock
      BY <2>3, <3>1
    <3>2. CASE pc = "evaluate" /\ now' = now /\ ~Evaluate
      <4>1. alertState[s].alertSent <= now /\ now >= 0
        BY <3>2, Ints DEF OnTime, Typed, TypeOK
      <4> QED BY <2>1, <3>2, <4>1 DEF Null
    <3> QED BY <2>5, <3>1, <3>2, RunDated
  <2> QED BY <1>0, <2>3, <2>4, <2>5
<1> QED BY <1>1, <1>2 DEF OnTime

LEMMA UnbornStep ==
    ASSUME Typed, EpisodeShape, Unborn, [Next]_vars
    PROVE  Unborn'
<1> SUFFICES ASSUME NEW s \in Server, s \notin Existing' PROVE received'[s] = Null
  BY DEF Unborn
<1>1. CASE Rests(s)
  BY <1>1 DEF Rests, Unborn, Existing
<1>2. CASE Gone(s)
  BY <1>2 DEF Gone
<1>3. CASE Alerted(s) \/ Ended(s) \/ Switched(s) \/ HeardOf(s) \/ Born(s)
  BY <1>3 DEF Alerted, Ended, Switched, HeardOf, Born
<1> QED BY <1>1, <1>2, <1>3, ServerStep

(* What a step makes of the dates of a server that exists after it, and of *)
(* a row that was dated before.                                            *)
Carries(s) ==
    /\ FreshAt(alertState[s], received[s], created[s], alive[s])'
    /\ \A row \in Dates :
          DatedAt(alertState[s], received[s], created[s], row) /\ PastAt(row, clock)
          => DatedAt(alertState'[s], received'[s], created'[s], row)

LEMMA ServerCarries ==
    ASSUME ~RollbackAllowed, Typed, EpisodeShape, OnTime, Unborn, Fresh, [Next]_vars,
           NEW s \in Server, s \in Existing', s \in Existing
    PROVE  Carries(s)
<1>0. /\ alertState[s] \in StateRow /\ received[s] \in TimeOrNull
      /\ created[s] \in TimeOrNull /\ alive[s] \in TimeOrNull
      /\ clock \in Time /\ threshold \in Threshold
      /\ alive[s] <= clock /\ alertState[s].alertSent <= clock
      /\ FreshAt(alertState[s], received[s], created[s], alive[s])
  BY OfServer DEF OnTime, Fresh
<1>1. CASE Rests(s)
  BY <1>0, <1>1 DEF Rests, Carries
<1>2. CASE Alerted(s)
  <2> DEFINE began == Baseline(s)
  <2>1. /\ began \in Time /\ began = Began(alertState[s], received[s], created[s])
        /\ ~IsOpen(alertState[s]) /\ now - began >= threshold
    BY <1>2, OfServer, BaselineIsTime DEF Alerted, Overdue
  <2>2. now \in Time
    BY <1>2, EvaluationFacts DEF Alerted
  <2>3. /\ alertState'[s] = OfflineState(began, now)
        /\ UNCHANGED <<received[s], created[s], alive[s]>>
    BY <1>2 DEF Alerted, Timeless
  <2> HIDE DEF began
  <2>4. /\ FreshAt(OfflineState(began, now), received[s], created[s], alive[s])
        /\ \A row \in Dates :
             DatedAt(alertState[s], received[s], created[s], row)
             => DatedAt(OfflineState(began, now), received[s], created[s], row)
    BY <1>0, <2>1, <2>2, DatesAlerted
  <2> QED BY <2>3, <2>4 DEF Carries
<1>3. CASE Ended(s)
  <2>1. /\ IsOpen(alertState[s]) /\ received[s] # Null
        /\ received[s] > alertState[s].offlineSince
    BY <1>3, OfServer DEF Ended, Recovered
  <2>2. now \in Time
    BY <1>3, EvaluationFacts DEF Ended
  <2>3. /\ alertState'[s] = RecoveredState(now)
        /\ UNCHANGED <<received[s], created[s], alive[s]>>
    BY <1>3 DEF Ended, Timeless
  <2>4. /\ FreshAt(RecoveredState(now), received[s], created[s], alive[s])
        /\ \A row \in Dates :
             DatedAt(alertState[s], received[s], created[s], row)
             => DatedAt(RecoveredState(now), received[s], created[s], row)
    BY <1>0, <2>1, <2>2, DatesEnded
  <2> QED BY <2>3, <2>4 DEF Carries
<1>4. CASE Switched(s)
  <2>1. alive'[s] \in TimeOrNull /\ alive'[s] <= clock
    BY <1>0, <1>4, Times, Ints DEF Switched
  <2>2. /\ FreshAt(ResetState(clock), received[s], created[s], alive'[s])
        /\ \A row \in Dates : PastAt(row, clock)
             => DatedAt(ResetState(clock), received[s], created[s], row)
    BY <1>0, <2>1, DatesReset
  <2> QED BY <1>4, <2>2 DEF Switched, Carries
<1>5. CASE HeardOf(s)
  <2>1. PICK at \in Time : /\ at \in (clock - IngestLag) .. clock
                           /\ received'[s] = at
                           /\ alive'[s] = IF at > alive[s] THEN at ELSE alive[s]
    BY <1>5 DEF HeardOf
  <2>2. clock <= at + IngestLag /\ at <= clock
    BY <1>0, <2>1, Ints
  <2>3. /\ FreshAt(alertState[s], at, created[s], IF at > alive[s] THEN at ELSE alive[s])
        /\ \A row \in Dates :
             DatedAt(alertState[s], received[s], created[s], row) /\ PastAt(row, clock)
             => DatedAt(alertState[s], at, created[s], row)
    BY <1>0, <2>2, DatesHeard
  <2> QED BY <1>5, <2>1, <2>3 DEF HeardOf, Carries
<1> QED BY <1>1, <1>2, <1>3, <1>4, <1>5, ServerStep DEF Born, Gone, Existing

LEMMA FreshStep ==
    ASSUME ~RollbackAllowed, Typed, EpisodeShape, OnTime, Unborn, Fresh, [Next]_vars
    PROVE  Fresh'
<1> SUFFICES ASSUME NEW s \in Existing'
             PROVE  FreshAt(alertState[s], received[s], created[s], alive[s])'
  BY DEF Fresh
<1>1. s \in Server
  BY DEF Existing
<1>2. CASE s \in Existing
  BY <1>1, <1>2, ServerCarries DEF Carries
<1>3. CASE s \notin Existing
  <2>1. Born(s)
    BY <1>1, <1>3, ServerStep
    DEF Rests, Alerted, Overdue, Ended, Recovered, Switched, HeardOf, Gone, Existing
  <2>2. Closed(alertState[s]) /\ received[s] = Null
    BY <1>1, <1>3 DEF EpisodeShape, Existing, Unborn
  <2>3. FreshAt(alertState[s], Null, clock, clock)
    <3>1. clock \in Int /\ IngestLag \in Nat /\ clock # Null /\ alertState[s].updated \in Int
      BY <1>1, OfServer, Ints, Times DEF StateRow
    <3>2. clock <= Began(alertState[s], Null, clock) /\ Began(alertState[s], Null, clock) \in Int
      BY <3>1 DEF Began
    <3> QED BY <2>2, <3>1, <3>2 DEF FreshAt, IsOpen, Closed
  <2> QED BY <2>1, <2>2, <2>3 DEF Born
<1> QED BY <1>2, <1>3

(* Where a queued row comes from: an outage that is overdue, or the end of *)
(* one whose alert its recipient was queued.                               *)
OfAlert(row) == /\ row.kind = "offline" /\ row.server \in Overdue(now)
                /\ row.since = Baseline(row.server)
OfEnd(row) == /\ row.kind = "recovery" /\ row.server \in Recovered
              /\ row.since = alertState[row.server].offlineSince
              /\ row.user \in eligibleRecoveryRecipients(row.server, allowed)
LEMMA QueuedRow ==
    ASSUME Typed, now \in Time, NEW row \in Queued(now, allowed)
    PROVE  /\ row = NewRow(row.server, row.user, row.kind, row.since, now)
           /\ row \in Row(MaxAttempts) /\ row.server \in Server /\ row.created = now
           /\ OfAlert(row) \/ OfEnd(row)
<1>1. row \in Row(MaxAttempts) /\ row.server \in Server
  BY QueuedRowsWait DEF Waiting
<1>2. ASSUME NEW s \in Overdue(now), NEW u \in enabledAlertRecipients(allowed),
             row = NewRow(s, u, "offline", Baseline(s), now)
      PROVE  row.server = s /\ row.user = u /\ row.kind = "offline"
             /\ row.since = Baseline(s) /\ row.created = now
  BY <1>2 DEF NewRow
<1>3. ASSUME NEW s \in Recovered, NEW u \in eligibleRecoveryRecipients(s, allowed),
             row = NewRow(s, u, "recovery", OutageStart(s), now)
      PROVE  row.server = s /\ row.user = u /\ row.kind = "recovery"
             /\ row.since = alertState[s].offlineSince /\ row.created = now
  BY <1>3 DEF NewRow, OutageStart
<1>4. CASE \E s \in Overdue(now), u \in enabledAlertRecipients(allowed) :
              row = NewRow(s, u, "offline", Baseline(s), now)
  BY <1>1, <1>2, <1>4 DEF OfAlert
<1>5. CASE \E s \in Recovered : \E u \in eligibleRecoveryRecipients(s, allowed) :
              row = NewRow(s, u, "recovery", OutageStart(s), now)
  BY <1>1, <1>3, <1>5 DEF OfEnd, OutageStart
<1> QED BY <1>4, <1>5 DEF Queued

LEMMA QueuedDates ==
    ASSUME Typed, EpisodeShape, OnTime, Fresh, Evaluate, NEW row \in Queued(now, allowed)
    PROVE  LET s == row.server IN
           /\ s \in Existing /\ PastAt(Dating(row), clock)
           /\ DatedAt(NextState(s, now), received[s], created[s], Dating(row))
<1> DEFINE s == row.server
           dating == Dating(row)
<1>1. now \in Time /\ pc = "evaluate"
  BY EvaluationFacts DEF Evaluate
<1>2. /\ row \in Row(MaxAttempts) /\ s \in Server /\ row.created = now
      /\ OfAlert(row) \/ OfEnd(row)
  BY <1>1, QueuedRow
<1>3. /\ dating \in Dates /\ dating.kind = row.kind /\ dating.since = row.since
      /\ dating.created = now
      /\ dating = [kind |-> row.kind, since |-> row.since, created |-> now]
  BY <1>2 DEF Row, Dates, Dating
<1>4. s \in Existing
  BY <1>2 DEF OfAlert, OfEnd, Overdue, Recovered
<1>5. /\ alertState[s] \in StateRow /\ received[s] \in TimeOrNull
      /\ created[s] \in TimeOrNull /\ alive[s] \in TimeOrNull
      /\ clock \in Time /\ threshold \in Threshold
      /\ FreshAt(alertState[s], received[s], created[s], alive[s])
      /\ now <= clock /\ alertState[s].alertSent <= now
  BY <1>1, <1>2, <1>4, OfServer DEF OnTime, Fresh
<1>6. s \notin Leftover
  BY <1>2 DEF EpisodeShape, Closed, Leftover
<1> HIDE DEF s, dating
<1>7. CASE OfAlert(row)
  <2> DEFINE began == Baseline(s)
  <2>1. /\ s \in Overdue(now) /\ dating.kind = "offline" /\ dating.since = began
    BY <1>3, <1>7 DEF OfAlert, s
  <2>2. /\ began \in Time /\ began = Began(alertState[s], received[s], created[s])
        /\ ~IsOpen(alertState[s]) /\ now - began >= threshold
    BY <1>2, <2>1, OfServer, BaselineIsTime DEF Overdue, s
  <2>3. NextState(s, now) = OfflineState(began, now)
    BY <1>6, <2>1 DEF NextState, Overdue, Recovered
  <2> HIDE DEF began
  <2>4. /\ DatedAt(OfflineState(began, now), received[s], created[s], dating)
        /\ \A clk \in Time : now <= clk => PastAt(dating, clk)
    BY <1>1, <1>3, <1>5, <2>1, <2>2, DatesAlerted
  <2> QED BY <1>4, <1>5, <2>3, <2>4 DEF s, dating
<1>8. CASE OfEnd(row)
  <2>1. /\ s \in Recovered /\ dating.kind = "recovery"
        /\ dating.since = alertState[s].offlineSince
    BY <1>3, <1>8 DEF OfEnd, s
  <2>2. /\ IsOpen(alertState[s]) /\ received[s] # Null
        /\ received[s] > alertState[s].offlineSince
    BY <1>2, <2>1, OfServer DEF Recovered, s
  <2>3. NextState(s, now) = RecoveredState(now)
    BY <1>6, <2>1 DEF NextState, Overdue, Recovered
  <2>4. DatedAt(RecoveredState(now), received[s], created[s], dating)
    BY <1>1, <1>3, <1>5, <2>1, <2>2, DatesEnded
  <2>5. PICK t \in Threshold : alertState[s].alertSent - alertState[s].offlineSince >= t
    BY <1>2, <2>2 DEF EpisodeShape, Closed, OpenedFairly, IsOpen, s
  <2>6. PastAt(dating, clock)
    <3>1. /\ alertState[s].alertSent \in Int /\ alertState[s].offlineSince \in Int
          /\ now \in Int /\ clock \in Int /\ t \in Nat /\ t > IngestLag /\ IngestLag \in Nat
      BY <1>1, <1>5, Ints, TablesAssumption DEF StateRow
    <3> QED BY <1>3, <1>5, <2>1, <2>5, <3>1 DEF PastAt
  <2> QED BY <1>4, <2>3, <2>4, <2>6 DEF s, dating
<1> QED BY <1>2, <1>7, <1>8

LEMMA RowDates ==
    ASSUME Typed, NEW i \in DOMAIN outbox
    PROVE  Dating(outbox[i]) \in Dates
<1>1. outbox[i] \in Row(MaxAttempts)
  BY DEF Typed, TypeOK
<1> QED BY <1>1 DEF Row, Dates, Dating

LEMMA StaysDated ==
    ASSUME NEW i, Stays(i)
    PROVE  Dating(outbox'[i]) = Dating(outbox[i])
  BY DEF Stays, Event, Dating

LEMMA PastStep ==
    ASSUME ~RollbackAllowed, Typed, Chronology, [Next]_vars
    PROVE  Past'
<1> SUFFICES ASSUME NEW i \in DOMAIN outbox' PROVE PastAt(Dating(outbox'[i]), clock')
  BY DEF Past, Dating, PastAt
<1>1. clock' \in Int /\ clock \in Int /\ clock <= clock'
  BY ClockAdvances
<1>2. CASE i \in DOMAIN outbox
  <2>1. PastAt(Dating(outbox[i]), clock) /\ Dating(outbox[i]) \in Dates
    BY <1>2, RowDates DEF Chronology, Past
  <2>2. Dating(outbox'[i]) = Dating(outbox[i])
    BY <1>2, RowStays, StaysDated DEF Chronology
  <2>3. \A row \in Dates : row.since \in Int /\ row.created \in Int /\ IngestLag \in Nat
    BY Ints DEF Dates
  <2> QED BY <1>1, <2>1, <2>2, <2>3 DEF PastAt
<1>3. CASE i \notin DOMAIN outbox
  <2>1. Evaluate /\ outbox'[i] \in Queued(now, allowed)
    BY <1>3, RowComes
  <2>2. clock' = clock
    BY <2>1, EvaluationFacts DEF EvaluateAlerts
  <2>3. PastAt(Dating(outbox'[i]), clock)
    BY <2>1, QueuedDates DEF Chronology
  <2> QED BY <2>2, <2>3
<1> QED BY <1>2, <1>3

LEMMA DatedStep ==
    ASSUME ~RollbackAllowed, Typed, Chronology, [Next]_vars
    PROVE  Dated'
<1> SUFFICES ASSUME NEW i \in DOMAIN outbox', outbox'[i].server \in Server
             PROVE  DatedRow(outbox[i].server, outbox[i])'
  BY DEF Dated
<1>a. PICK s \in Server : s = outbox'[i].server
  OBVIOUS
<1>b. PICK dating : dating = Dating(outbox'[i])
  OBVIOUS
<1>0. s \in Server /\ s = outbox'[i].server /\ dating = Dating(outbox'[i])
  BY <1>a, <1>b
<1> SUFFICES s \in Existing' /\ DatedAt(alertState'[s], received'[s], created'[s], dating)
  BY <1>0 DEF DatedRow, Existing, DatedAt, Began, IsOpen, Dating
<1>1. CASE i \in DOMAIN outbox
  <2>1. Stays(i) /\ dating = Dating(outbox[i]) /\ dating \in Dates
    BY <1>0, <1>1, RowStays, StaysDated, RowDates DEF Chronology
  <2>2. outbox[i].server = s
    BY <1>0, <2>1, TablesAssumption DEF Stays
  <2>3. /\ s \in Existing /\ DatedAt(alertState[s], received[s], created[s], dating)
        /\ PastAt(dating, clock)
    BY <1>0, <1>1, <2>1, <2>2 DEF Chronology, Dated, DatedRow, Past
  <2>4. s \in Existing'
    <3>1. ~Gone(s)
      BY <1>0 DEF Gone
    <3> QED BY <1>0, <2>3, <3>1, ServerStep
            DEF Chronology, Rests, Alerted, Ended, Switched, HeardOf, Born, Existing
  <2>5. Carries(s)
    BY <1>0, <2>3, <2>4, ServerCarries DEF Chronology
  <2> QED BY <2>1, <2>3, <2>4, <2>5 DEF Carries
<1>2. CASE i \notin DOMAIN outbox
  <2>1. Evaluate /\ outbox'[i] \in Queued(now, allowed)
    BY <1>2, RowComes
  <2>2. s \in Existing /\ DatedAt(NextState(s, now), received[s], created[s], dating)
    BY <1>0, <2>1, QueuedDates DEF Chronology
  <2>3. /\ alertState'[s] = NextState(s, now)
        /\ UNCHANGED <<received, created, status>>
    BY <1>0, <2>1, EvaluationFacts DEF EvaluateAlerts
  <2> QED BY <2>2, <2>3 DEF Existing
<1> QED BY <1>1, <1>2

LEMMA ChronologyInit == Init => Chronology
<1> SUFFICES ASSUME Init PROVE Chronology
  OBVIOUS
<1>1. /\ clock = 1 /\ now = Null /\ pc = "down" /\ outbox = [i \in {} |-> NoState]
      /\ \A s \in Server : /\ status[s] = "absent" /\ alive[s] = Null /\ received[s] = Null
                           /\ alertState[s] = NoState
  BY DEF Init, TablesInit
<1>2. FreshIds /\ Past /\ Dated
  BY <1>1 DEF FreshIds, Past, Dated
<1>3. EpisodeShape
  BY <1>1 DEF EpisodeShape, Closed, NoState
<1>4. OnTime /\ Unborn /\ Fresh
  BY <1>1 DEF OnTime, Unborn, Fresh, Existing, NoState, Null
<1> QED BY <1>2, <1>3, <1>4 DEF Chronology

LEMMA ChronologyStep ==
    ASSUME ~RollbackAllowed, Typed, Chronology, [Next]_vars
    PROVE  Chronology'
<1>1. FreshIds' /\ EpisodeShape'
  BY FreshIdsStep, EpisodeShapeStep DEF Chronology
<1>2. OnTime' /\ Unborn' /\ Fresh'
  BY OnTimeStep, UnbornStep, FreshStep DEF Chronology
<1>3. Past' /\ Dated'
  BY PastStep, DatedStep
<1> QED BY <1>1, <1>2, <1>3 DEF Chronology

-----------------------------------------------------------------------------
(* What follows for the messages.                                          *)

(* While the clock only advances, every payload the evaluation queues is   *)
(* one Render accepts: its event is not before the outage began.           *)
THEOREM PayloadsRender == ~RollbackAllowed => (Spec => []QueuedRowsRender)
<1> SUFFICES ASSUME ~RollbackAllowed PROVE Spec => []QueuedRowsRender
  OBVIOUS
<1>1. Init => Typed /\ Chronology
  BY TypedInit, ChronologyInit
<1>2. Typed /\ Chronology /\ [Next]_vars => (Typed /\ Chronology)'
  BY TypedNext, ChronologyStep
<1>3. Typed /\ Chronology => QueuedRowsRender
  <2> SUFFICES ASSUME Typed, Chronology, NEW i \in DOMAIN outbox
               PROVE  outbox[i].created >= outbox[i].since
    BY DEF QueuedRowsRender, Renders
  <2>1. PastAt(Dating(outbox[i]), clock) /\ outbox[i] \in Row(MaxAttempts)
    BY DEF Chronology, Past, Typed, TypeOK
  <2>2. outbox[i].since \in Int /\ outbox[i].created \in Int
    BY <2>1, Ints DEF Row
  <2> QED BY <2>1, <2>2 DEF PastAt, Dating
<1> QED BY <1>1, <1>2, <1>3, PTL DEF Spec

(* An outage that is queued is later than every one queued before, and an  *)
(* end that is queued is of an outage whose end was not queued before.     *)
LEMMA QueuedAnew ==
    ASSUME Typed, Chronology, Evaluate, NEW i \in DOMAIN outbox,
           NEW row \in Queued(now, allowed),
           row.server = outbox[i].server, row.kind = outbox[i].kind
    PROVE  row.since # outbox[i].since
<1> DEFINE s == row.server
<1>1. /\ row \in Row(MaxAttempts) /\ s \in Server /\ row.since \in Int
      /\ OfAlert(row) \/ OfEnd(row)
  BY EvaluationFacts, QueuedRow, Ints DEF Row
<1>2. DatedAt(alertState[s], received[s], created[s], Dating(outbox[i]))
  BY <1>1 DEF Chronology, Dated, DatedRow
<1>3. outbox[i].since \in Int
  BY Ints DEF Typed, TypeOK, Row
<1>4. CASE OfAlert(row)
  BY <1>1, <1>2, <1>3, <1>4, OfServer DEF OfAlert, Overdue, DatedAt, Dating
<1>5. CASE OfEnd(row)
  BY <1>1, <1>2, <1>3, <1>5, OfServer DEF OfEnd, Recovered, DatedAt, Dating
<1> QED BY <1>1, <1>4, <1>5

SameTransition(row, other) ==
    /\ row.server # NoServer /\ row.server = other.server /\ row.user = other.user
    /\ row.kind = other.kind /\ row.since = other.since

LEMMA OneRowStep ==
    ASSUME Typed, Chronology, OneRowPerTransition, [Next]_vars
    PROVE  OneRowPerTransition'
<1> SUFFICES ASSUME NEW i \in DOMAIN outbox', NEW j \in DOMAIN outbox',
                    SameTransition(outbox'[i], outbox'[j])
             PROVE  i = j
  BY DEF OneRowPerTransition, SameTransition
<1>1. \A k \in DOMAIN outbox : k \in DOMAIN outbox' => Stays(k)
  BY RowStays DEF Chronology
<1>2. \A k \in DOMAIN outbox' \ DOMAIN outbox :
         Evaluate /\ outbox'[k] \in Queued(now, allowed) /\ k >= nextId
  BY RowComes
<1>3. CASE i \in DOMAIN outbox /\ j \in DOMAIN outbox
  <2>1. SameTransition(outbox[i], outbox[j])
    BY <1>1, <1>3 DEF SameTransition, Stays, Event
  <2> QED BY <1>3, <2>1 DEF OneRowPerTransition, SameTransition
<1>4. ASSUME NEW k \in DOMAIN outbox, k \in DOMAIN outbox',
             NEW n \in DOMAIN outbox' \ DOMAIN outbox,
             SameTransition(outbox'[k], outbox'[n])
      PROVE  FALSE
  <2>1. SameTransition(outbox[k], outbox'[n])
    BY <1>1, <1>4 DEF SameTransition, Stays, Event
  <2> QED BY <1>2, <2>1, QueuedAnew DEF SameTransition
<1>5. CASE i \notin DOMAIN outbox /\ j \notin DOMAIN outbox
  <2>1. Evaluate /\ now \in Time
    BY <1>2, <1>5, EvaluationFacts
  <2>2. outbox'[i] = outbox'[j]
    BY <1>2, <1>5, <2>1, QueuedRow DEF SameTransition
  <2>3. PICK last \in (nextId - 1) .. MaxId :
          /\ DOMAIN outbox' = DOMAIN outbox \cup nextId .. last
          /\ \A k, n \in nextId .. last : outbox'[k] = outbox'[n] => k = n
    BY <2>1, EvaluationFacts, EvaluationRows
  <2> QED BY <1>5, <2>2, <2>3
<1>6. SameTransition(outbox'[j], outbox'[i])
  BY DEF SameTransition
<1> QED BY <1>3, <1>4, <1>5, <1>6

(* While the clock only advances, a recipient is queued one message for    *)
(* the start of an outage and one for its end, however often evaluations   *)
(* are repeated, the process restarts, or the server is switched off and   *)
(* on.                                                                     *)
THEOREM OneRowEach == ~RollbackAllowed => (Spec => []OneRowPerTransition)
<1> SUFFICES ASSUME ~RollbackAllowed PROVE Spec => []OneRowPerTransition
  OBVIOUS
<1> DEFINE Inv == Typed /\ Chronology /\ OneRowPerTransition
<1>1. Init => Inv
  <2>1. Init => OneRowPerTransition
    BY DEF Init, TablesInit, OneRowPerTransition
  <2> QED BY <2>1, TypedInit, ChronologyInit
<1>2. Inv /\ [Next]_vars => Inv'
  BY TypedNext, ChronologyStep, OneRowStep
<1>3. Inv => OneRowPerTransition
  OBVIOUS
<1> HIDE DEF Inv
<1> QED BY <1>1, <1>2, <1>3, PTL DEF Spec

(* While the clock only advances, a recovery is queued only behind the     *)
(* offline row of the same outage and recipient, one not suppressed: the   *)
(* row found by the time of the alert is the row of this outage.           *)
THEOREM RecoveryFollows == ~RollbackAllowed => (Spec => RecoveryFollowsOffline)
<1> SUFFICES ASSUME ~RollbackAllowed PROVE Spec => RecoveryFollowsOffline
  OBVIOUS
<1> DEFINE Follows(i) == \E j \in DOMAIN outbox : LET row == outbox[j] IN
              /\ j < i /\ row.kind = "offline" /\ ~terminalAlertClass(row.lastError)
              /\ row.server = outbox'[i].server /\ row.user = outbox'[i].user
              /\ row.since = outbox'[i].since
           EachFollows == \A i \in DOMAIN outbox' :
              Queues(i) /\ outbox'[i].kind = "recovery" => Follows(i)
<1>1. Init => Typed /\ Chronology
  BY TypedInit, ChronologyInit
<1>2. Typed /\ Chronology /\ [Next]_vars => (Typed /\ Chronology)'
  BY TypedNext, ChronologyStep
<1>3. ASSUME Typed, Chronology, [Next]_vars, NEW i \in DOMAIN outbox',
             Queues(i), outbox'[i].kind = "recovery"
      PROVE  Follows(i)
  <2> DEFINE row == outbox'[i]
             s == row.server
  <2>1. /\ Evaluate /\ row \in Queued(now, allowed) /\ i >= nextId
    BY <1>3, RowComes DEF Queues
  <2>2. OfEnd(row) /\ s \in Server
    BY <1>3, <2>1, EvaluationFacts, QueuedRow DEF OfAlert
  <2>3. PICK j \in DOMAIN outbox :
          /\ outbox[j].server = s /\ outbox[j].user = row.user
          /\ outbox[j].kind = "offline" /\ outbox[j].created = alertState[s].alertSent
          /\ ~terminalAlertClass(outbox[j].lastError)
    BY <2>2 DEF OfEnd, eligibleRecoveryRecipients
  <2>4. IsOpen(alertState[s]) /\ row.since = alertState[s].offlineSince
    BY <2>2, OfServer, <1>3 DEF OfEnd, Recovered
  <2>5. outbox[j].since = row.since
    <3>1. DatedAt(alertState[s], received[s], created[s], Dating(outbox[j]))
      BY <1>3, <2>2, <2>3 DEF Chronology, Dated, DatedRow
    <3>2. outbox[j].created \in Int
      BY <1>3, Ints DEF Typed, TypeOK, Row
    <3> QED BY <2>3, <2>4, <3>1, <3>2 DEF DatedAt, Dating
  <2>6. j < i
    <3>1. j < nextId /\ j \in Int /\ nextId \in Int
      BY <1>3 DEF Chronology, FreshIds, Typed, TypeOK
    <3>2. i \in Int
      BY <1>3, TypedNext DEF Typed, TypeOK
    <3> QED BY <2>1, <3>1, <3>2
  <2> QED BY <2>3, <2>5, <2>6
<1>4. Typed /\ Chronology /\ [Next]_vars => [EachFollows]_vars
  BY <1>3
<1> QED BY <1>1, <1>2, <1>4, PTL DEF Spec, RecoveryFollowsOffline

(* While the clock only advances, a server is alerted only a whole         *)
(* threshold after its creation, its last report and its last enabling,    *)
(* but for the time a report may wait before it is stored.                 *)
THEOREM GraceIsFull == ~RollbackAllowed => (Spec => FullGrace)
<1> SUFFICES ASSUME ~RollbackAllowed PROVE Spec => FullGrace
  OBVIOUS
<1> DEFINE Grace(s) == alertState[s].alertSent = Null /\ alertState'[s].alertSent # Null =>
              alertState'[s].alertSent - alive[s] >= threshold - IngestLag
<1>1. Init => Typed /\ Chronology
  BY TypedInit, ChronologyInit
<1>2. Typed /\ Chronology /\ [Next]_vars => (Typed /\ Chronology)'
  BY TypedNext, ChronologyStep
<1>3. ASSUME Typed, Chronology, [Next]_vars, NEW s \in Server
      PROVE  Grace(s)
  <2>1. CASE Alerted(s)
    <3>1. /\ s \in Overdue(now) /\ now \in Time
          /\ alertState'[s] = OfflineState(Baseline(s), now)
      BY <1>3, <2>1, EvaluationFacts DEF Alerted
    <3>2. /\ Baseline(s) \in Time
          /\ Baseline(s) = Began(alertState[s], received[s], created[s])
          /\ ~IsOpen(alertState[s]) /\ now - Baseline(s) >= threshold
      BY <1>3, <3>1, OfServer, BaselineIsTime DEF Overdue
    <3>3. /\ alertState[s] \in StateRow /\ received[s] \in TimeOrNull
          /\ created[s] \in TimeOrNull /\ alive[s] \in TimeOrNull
          /\ threshold \in Threshold
          /\ FreshAt(alertState[s], received[s], created[s], alive[s])
      BY <1>3, <3>1, OfServer DEF Chronology, Fresh, Overdue
    <3>4. now - alive[s] >= threshold - IngestLag
      BY <3>1, <3>2, <3>3, DatesAlerted
    <3>5. alertState'[s].alertSent = now
      BY <3>1 DEF OfflineState
    <3> QED BY <3>4, <3>5
  <2>2. CASE Ended(s) \/ Switched(s) \/ Gone(s)
    BY <2>2 DEF Ended, RecoveredState, Switched, ResetState, Gone, NoState
  <2>3. CASE Rests(s) \/ HeardOf(s) \/ Born(s)
    BY <2>3 DEF Rests, HeardOf, Born
  <2> QED BY <1>3, <2>1, <2>2, <2>3, ServerStep DEF Chronology
<1>4. Typed /\ Chronology /\ [Next]_vars => [\A s \in Server : Grace(s)]_vars
  BY <1>3
<1> QED BY <1>1, <1>2, <1>4, PTL DEF Spec, FullGrace

-----------------------------------------------------------------------------
(* The recipients an open episode was announced to.                        *)

(* A row only leaves by the cleanup.                                       *)
LEMMA RowGoes ==
    ASSUME Typed, FreshIds, [Next]_vars, NEW i \in DOMAIN outbox, i \notin DOMAIN outbox'
    PROVE  Expired(outbox[i])
<1>0. outbox \in [DOMAIN outbox -> Row(MaxAttempts)] /\ clock \in Time
  BY DEF Typed, TypeOK
<1>1. CASE Evaluate
  BY <1>1, EvaluationFacts, EvaluationRows
<1>2. CASE \E item \in batch : Suppress(item) \/ Deliver(item) \/ Retry(item)
  <2>1. DOMAIN outbox' = DOMAIN outbox
    BY <1>2, WorkerMarks DEF Marks
  <2> QED BY <2>1
<1>3. CASE \E s \in Server, b \in BOOLEAN : UpdateServer(s, b)
  BY <1>0, <1>3, SuppressKeepsRows, Times DEF UpdateServer
<1>4. ASSUME NEW s \in Server, DeleteServer(s)
      PROVE  FALSE
  <2> DEFINE kept == SuppressPending(outbox, {s}, clock)
  <2>1. kept \in [DOMAIN kept -> Row(MaxAttempts)] /\ DOMAIN kept = DOMAIN outbox
    BY <1>0, SuppressKeepsRows, Times
  <2>2. outbox' = Orphan(kept, s)
    BY <1>4 DEF DeleteServer
  <2> HIDE DEF kept
  <2> QED BY <2>1, <2>2, OrphanKeepsRows
<1>5. CASE DeleteTerminalAlertOutboxBefore
  BY <1>5 DEF DeleteTerminalAlertOutboxBefore
<1>6. CASE ~OutboxStep
  BY <1>6, OtherSteps
<1> QED BY <1>1, <1>2, <1>3, <1>4, <1>5, <1>6 DEF OutboxStep

(* A run has listed and settles only rows that were there when it began,   *)
(* or that it queued itself.                                               *)
Begun == now # Null => \A i \in DOMAIN outbox : outbox[i].created <= now
DoneAfter == \A i \in DOMAIN outbox :
    ~Pending(outbox[i]) => outbox[i].created <= outbox[i].doneAt

LEMMA BegunStep ==
    ASSUME Typed, Chronology, Begun, DoneAfter, [Next]_vars
    PROVE  Begun' /\ DoneAfter'
<1>1. ASSUME NEW i \in DOMAIN outbox', i \in DOMAIN outbox
      PROVE  /\ now' # Null => outbox'[i].created <= now'
             /\ ~Pending(outbox'[i]) => outbox'[i].created <= outbox'[i].doneAt
  <2>1. Stays(i) /\ outbox'[i].created = outbox[i].created
    BY <1>1, RowStays DEF Chronology, Stays, Event
  <2>2. outbox[i].created <= clock
    BY <1>1 DEF Chronology, Past, PastAt, Dating
  <2>3. now' # Null => outbox'[i].created <= now'
    BY <1>1, <2>1, <2>2, RunDated DEF Begun
  <2>4. ASSUME ~Pending(outbox'[i]) PROVE outbox'[i].created <= outbox'[i].doneAt
    <3>1. outbox'[i].doneAt # Null
      BY <2>4 DEF Pending
    <3>2. outbox'[i].doneAt \in {outbox[i].doneAt, now, clock}
      BY <2>1, <3>1 DEF Stays
    <3> QED BY <1>1, <2>1, <2>2, <3>1, <3>2 DEF Begun, DoneAfter, Pending
  <2> QED BY <2>3, <2>4
<1>2. ASSUME NEW i \in DOMAIN outbox', i \notin DOMAIN outbox
      PROVE  Pending(outbox'[i]) /\ outbox'[i].created <= now'
  <2>1. Evaluate /\ outbox'[i] \in Queued(now, allowed) /\ now \in Time
    BY <1>2, RowComes, EvaluationFacts
  <2>2. Pending(outbox'[i]) /\ outbox'[i].created = now
    BY <2>1, QueuedRowsWait, QueuedRow DEF Waiting
  <2>3. now' = now /\ now \in Int
    BY <2>1, Ints DEF Evaluate, Goto
  <2> QED BY <2>2, <2>3
<1> QED BY <1>1, <1>2 DEF Begun, DoneAfter, Pending

(* A row in hand is a listed one: it renders, and if it is still there it  *)
(* is of the same event.                                                   *)
Held == \A item \in batch :
    /\ item.row.created <= clock /\ Renders(item.row) /\ item.id < nextId
    /\ item.id \in DOMAIN outbox => Event(outbox[item.id]) = Event(item.row)

LEMMA HeldStep ==
    ASSUME ~RollbackAllowed, Typed, Chronology, Held, [Next]_vars
    PROVE  Held'
<1>0. /\ nextId \in Int /\ nextId' \in Int /\ nextId <= nextId'
      /\ clock' \in Int /\ clock \in Int /\ clock <= clock'
      /\ \A item \in batch : item.id \in Int /\ item.row.created \in Int
  <2>1. \A item \in batch : item.id \in Int /\ item.row.created \in Int
    BY Ints DEF Typed, TypeOK, Item, Row
  <2> QED BY <2>1, NextIdGrows, ClockAdvances
<1>1. ASSUME NEW item \in batch
      PROVE  /\ item.row.created <= clock' /\ Renders(item.row) /\ item.id < nextId'
             /\ item.id \in DOMAIN outbox' => Event(outbox'[item.id]) = Event(item.row)
  <2>1. item.row.created <= clock' /\ Renders(item.row) /\ item.id < nextId'
    BY <1>0 DEF Held
  <2>2. ASSUME item.id \in DOMAIN outbox'
        PROVE  Event(outbox'[item.id]) = Event(item.row)
    <3>1. item.id \in DOMAIN outbox
      BY <1>0, <2>2, RowComes DEF Held
    <3> QED BY <2>2, <3>1, RowStays DEF Chronology, Stays, Held
  <2> QED BY <2>1, <2>2
<1>2. CASE batch' \subseteq batch
  BY <1>1, <1>2 DEF Held, Renders, Event
<1>3. CASE List
  <2>1. UNCHANGED <<outbox, nextId, clock>>
    BY <1>3 DEF List, tableVars
  <2>2. ASSUME NEW item \in batch'
        PROVE  /\ item.row.created <= clock /\ Renders(item.row) /\ item.id < nextId
               /\ item.id \in DOMAIN outbox => Event(outbox[item.id]) = Event(item.row)
    <3>1. batch' = {[id |-> i, row |-> outbox[i]] : i \in ListDueAlertOutbox(now, BatchSize)}
      BY <1>3, <2>2 DEF List, RunEnds
    <3>2. PICK i \in DOMAIN outbox : item = [id |-> i, row |-> outbox[i]]
      BY <2>2, <3>1 DEF ListDueAlertOutbox, DueHeads
    <3>3. outbox[i].created <= clock /\ outbox[i].since <= outbox[i].created
      BY DEF Chronology, Past, PastAt, Dating
    <3>4. outbox[i].since \in Int /\ outbox[i].created \in Int /\ i < nextId
      BY Ints DEF Typed, TypeOK, Row, Chronology, FreshIds
    <3> QED BY <3>2, <3>3, <3>4 DEF Renders
  <2> QED BY <2>1, <2>2 DEF Held, Renders, Event
<1>4. CASE \E item \in batch : SendAccepted(item)
  BY <1>2, <1>4 DEF SendAccepted
<1> QED BY <1>2, <1>3, <1>4, BatchSteps

(* Becoming a recipient is dated by the clock: who is steady since a time  *)
(* that is past was so before the step.                                    *)
LEMMA SteadyBefore ==
    ASSUME Typed, [Next]_vars, NEW u \in Admin, NEW at \in Int, at <= clock, Steady(u, at)'
    PROVE  Steady(u, at)
<1>0. /\ joined \in [Admin -> TimeOrNull] /\ alertsOn \in [Admin -> BOOLEAN]
      /\ clock \in Int /\ allowed \subseteq Admin
  BY Ints DEF Typed, TypeOK
<1> DEFINE Same == UNCHANGED <<allowed, alertsOn, joined>>
<1>1. CASE Same
  BY <1>1 DEF Steady, enabledAlertRecipients
<1>2. ASSUME NEW r \in Admin, NEW b \in BOOLEAN, SetAlertPreference(r, b), UNCHANGED workerVars
      PROVE  Steady(u, at)
  <2>1. UNCHANGED allowed
    BY <1>2 DEF workerVars
  <2>2. CASE r = u
    <3>1. alertsOn'[u] = b /\ (b => joined'[u] = clock)
      BY <1>0, <1>2, <2>2 DEF SetAlertPreference
    <3>2. alertsOn'[u] /\ joined'[u] < at
      BY DEF Steady, enabledAlertRecipients
    <3> QED BY <1>0, <3>1, <3>2
  <2>3. CASE r # u
    <3>1. alertsOn'[u] = alertsOn[u] /\ joined'[u] = joined[u]
      BY <1>0, <1>2, <2>3 DEF SetAlertPreference
    <3> QED BY <2>1, <3>1 DEF Steady, enabledAlertRecipients
  <2> QED BY <2>2, <2>3
<1>3. ASSUME NEW admins \in (SUBSET Admin) \ {{}}, Restart(admins)
      PROVE  Steady(u, at)
  <2>1. /\ u \in allowed' /\ alertsOn'[u] /\ joined'[u] < at /\ allowed' = admins
        /\ UNCHANGED alertsOn
        /\ joined'[u] = IF u \in admins \ allowed THEN clock ELSE joined[u]
    BY <1>3 DEF Restart, Steady, enabledAlertRecipients
  <2>2. u \in allowed
    BY <1>0, <2>1
  <2> QED BY <2>1, <2>2 DEF Steady, enabledAlertRecipients
<1>4. CASE WorkerStep
  <2>1. CASE \E item \in batch : Suppress(item) \/ Deliver(item) \/ Retry(item)
    <3>1. UNCHANGED <<alertsOn, joined>>
      BY <2>1, WorkerMarks DEF Marks, otherTables
    <3>2. UNCHANGED allowed
      BY <2>1 DEF Suppress, Deliver, Retry, Handled, RunEnds
    <3> QED BY <1>1, <3>1, <3>2
  <2>2. CASE \/ RunOnce \/ Evaluate \/ EvaluationFails \/ List \/ RepositoryFails
             \/ \E item \in batch : Recheck(item) \/ SendAccepted(item) \/ SendRefused(item)
    BY <1>1, <2>2 DEF RunOnce, Evaluate, EvaluateAlerts, EvaluationFails, List, RepositoryFails,
                      Recheck, SendAccepted, SendRefused, RunEnds, Goto, tableVars
  <2> QED BY <1>4, <2>1, <2>2 DEF WorkerStep
<1>5. CASE /\ TablesStep /\ UNCHANGED workerVars
           /\ ~\E r \in Admin, b \in BOOLEAN : SetAlertPreference(r, b)
  BY <1>1, <1>5 DEF TablesStep, Tick, ClockStepsBack, CreateServer, UpdateServer, DeleteServer,
                    UpsertLatestMetrics, UpdateSettings, DeleteTerminalAlertOutboxBefore,
                    otherTables, workerVars
<1>6. CASE Crash \/ UNCHANGED vars
  BY <1>1, <1>6 DEF Crash, vars, tableVars, workerVars
<1> QED BY <1>2, <1>3, <1>4, <1>5, <1>6 DEF Next

(* The worker is about to take a row back only from someone who is not a   *)
(* recipient, or was not when it was queued.                               *)
Cutting ==
    /\ pc # "invalid_payload"
    /\ pc \in {"recipient_removed", "recipient_disabled"} =>
          \A item \in batch : IsNext(item) => ~Steady(item.row.user, item.row.created)

LEMMA CuttingStep ==
    ASSUME Typed, Held, Cutting, InHand, [Next]_vars
    PROVE  Cutting'
<1>1. ASSUME NEW item \in batch, Recheck(item)
      PROVE  Cutting'
  <2>1. /\ IsNext(item) /\ Renders(item.row) /\ UNCHANGED <<batch, allowed, alertsOn>>
        /\ pc' = "recipient_removed" => item.row.user \notin allowed
        /\ pc' = "recipient_disabled" => ~alertsOn[item.row.user]
        /\ pc' # "invalid_payload"
    BY <1>1 DEF Recheck, Goto, Held, tableVars
  <2>2. ASSUME NEW other \in batch, IsNext(other)
        PROVE  other = item
    <3>1. other.id <= item.id /\ item.id <= other.id
      BY <2>1, <2>2 DEF IsNext
    <3>2. other.id \in Int /\ item.id \in Int
      BY DEF Typed, TypeOK, Item
    <3> QED BY <3>1, <3>2 DEF InHand, OneItemPerId
  <2>3. pc' \in {"recipient_removed", "recipient_disabled"} =>
          item.row.user \notin {u \in allowed : alertsOn[u]}
    BY <2>1
  <2> QED BY <2>1, <2>2, <2>3 DEF Cutting, IsNext, Steady, enabledAlertRecipients
<1>2. CASE UNCHANGED workerVars
  <2>1. UNCHANGED <<pc, batch>>
    BY <1>2 DEF workerVars
  <2>2. ASSUME NEW item \in batch, Steady(item.row.user, item.row.created)'
        PROVE  Steady(item.row.user, item.row.created)
    <3>1. PICK u \in Admin, at \in Int : u = item.row.user /\ at = item.row.created
      BY Ints DEF Typed, TypeOK, Item, Row
    <3>2. Steady(u, at)' /\ at <= clock
      BY <2>2, <3>1 DEF Held, Steady, enabledAlertRecipients
    <3> QED BY <3>1, <3>2, SteadyBefore
  <2> QED BY <2>1, <2>2 DEF Cutting, IsNext, Steady, enabledAlertRecipients
<1>3. CASE pc' \notin Suppressing
  BY <1>3 DEF Cutting, Suppressing
<1>4. CASE WorkerStep /\ ~\E item \in batch : Recheck(item)
  <2>1. pc' \notin Suppressing
    BY <1>4 DEF WorkerStep, RunOnce, Evaluate, EvaluationFails, List, RepositoryFails,
                RunEnds, Goto, Suppress, SendAccepted, SendRefused, Deliver, Retry, Handled,
                Suppressing
  <2> QED BY <1>3, <2>1
<1>5. CASE Crash \/ \E admins \in (SUBSET Admin) \ {{}} : Restart(admins)
  BY <1>3, <1>5 DEF Crash, Restart, Suppressing
<1> QED BY <1>1, <1>2, <1>4, <1>5 DEF Next, vars

(* The row an administrator was queued when an outage was alerted, not     *)
(* suppressed.                                                             *)
AlertRow(row, s, u, at) ==
    /\ row.server = s /\ row.user = u /\ row.kind = "offline" /\ row.created = at
    /\ ~terminalAlertClass(row.lastError)
HasRow(s, u, at) == \E i \in DOMAIN outbox : AlertRow(outbox[i], s, u, at)

(* It stays so for as long as the episode is open and its recipient        *)
(* steady.                                                                 *)
LEMMA AlertRowStays ==
    ASSUME Typed, Chronology, Held, Cutting, [Next]_vars,
           NEW s \in Server, s \in Existing', IsOpen(alertState'[s]),
           NEW u \in Admin, NEW at \in Time, Steady(u, at),
           NEW i \in DOMAIN outbox, i \in DOMAIN outbox', AlertRow(outbox[i], s, u, at)
    PROVE  AlertRow(outbox'[i], s, u, at)
<1>0. /\ outbox \in [DOMAIN outbox -> Row(MaxAttempts)] /\ clock \in Time
      /\ alertState \in [Server -> StateRow] /\ status \in [Server -> Statuses]
  BY DEF Typed, TypeOK
<1>a. /\ outbox[i].server = s /\ ~terminalAlertClass(outbox[i].lastError)
      /\ Event(outbox[i]) = <<u, "offline", outbox[i].since, at>>
  BY DEF AlertRow, Event
<1>1. ~terminalAlertClass(outbox'[i].lastError)
  <2>1. CASE Evaluate
    <3>1. outbox'[i] = SuppressPending(outbox, Leftover, now)[i] /\ now \in Time
      <4>1. PICK last \in (nextId - 1) .. MaxId :
            \A j \in DOMAIN outbox \ (nextId .. last) :
                 outbox'[j] = SuppressPending(outbox, Leftover, now)[j]
        BY <2>1, EvaluationFacts, EvaluationOutbox
      <4>2. i \notin nextId .. last
        BY DEF Chronology, FreshIds, Typed, TypeOK
      <4> QED BY <2>1, <4>1, <4>2, EvaluationFacts
    <3>2. s \notin Leftover
      BY DEF Chronology, EpisodeShape, Closed, Leftover
    <3> QED BY <1>0, <1>a, <3>1, <3>2, SuppressedRow
  <2>2. ASSUME NEW item \in batch, Suppress(item) \/ Deliver(item) \/ Retry(item)
        PROVE  ~terminalAlertClass(outbox'[i].lastError)
    <3>1. PICK row : /\ Marks(item.id, row)
                     /\ Suppress(item) \/ row.lastError \in {"", "telegram_send_failed"}
      BY <2>2, WorkerMarks
    <3>2. CASE i # item.id
      BY <1>a, <3>1, <3>2 DEF Marks
    <3>3. CASE i = item.id /\ row.lastError \in {"", "telegram_send_failed"}
      <4>1. outbox'[i] = row
        BY <3>1, <3>3 DEF Marks
      <4> QED BY <3>3, <4>1 DEF terminalAlertClass, SuppressClasses
    <3>4. CASE i = item.id /\ Suppress(item)
      <4>1. item.row.user = u /\ item.row.created = at
        BY <1>a, <3>4 DEF Held, Event
      <4>2. ~Steady(item.row.user, item.row.created)
        BY <3>4 DEF Suppress, Suppressing, Cutting
      <4> QED BY <4>1, <4>2
    <3> QED BY <3>1, <3>2, <3>3, <3>4
  <2>3. ASSUME NEW r \in Server, NEW b \in BOOLEAN, UpdateServer(r, b)
        PROVE  ~terminalAlertClass(outbox'[i].lastError)
    <3>1. CASE r = s
      <4>1. alertState'[s] = ResetState(clock)
        BY <1>0, <2>3, <3>1 DEF UpdateServer
      <4> QED BY <4>1 DEF ResetState, IsOpen
    <3>2. CASE r # s
      <4>1. outbox' = outbox \/ outbox' = SuppressPending(outbox, {r}, clock)
        BY <2>3 DEF UpdateServer
      <4> QED BY <1>0, <1>a, <3>2, <4>1, SuppressedRow
    <3> QED BY <3>1, <3>2
  <2>4. ASSUME NEW r \in Server, DeleteServer(r)
        PROVE  ~terminalAlertClass(outbox'[i].lastError)
    <3> DEFINE kept == SuppressPending(outbox, {r}, clock)
    <3>1. r # s
      BY <1>0, <2>4 DEF DeleteServer, Existing
    <3>2. kept \in [DOMAIN kept -> Row(MaxAttempts)] /\ DOMAIN kept = DOMAIN outbox
      BY <1>0, SuppressKeepsRows, Times
    <3>3. kept[i] = outbox[i]
      BY <1>0, <1>a, <3>1, SuppressedRow
    <3>4. outbox' = Orphan(kept, r)
      BY <2>4 DEF DeleteServer
    <3> HIDE DEF kept
    <3> QED BY <1>a, <3>2, <3>3, <3>4, OrphanedRow
  <2>5. CASE DeleteTerminalAlertOutboxBefore
    BY <1>a, <2>5 DEF DeleteTerminalAlertOutboxBefore
  <2>6. CASE ~OutboxStep
    BY <1>a, <2>6, OtherSteps
  <2> QED BY <2>1, <2>2, <2>3, <2>4, <2>5, <2>6 DEF OutboxStep
<1>2. Stays(i)
  BY RowStays DEF Chronology
<1> QED BY <1>1, <1>2, <1>a DEF Stays, Event, AlertRow

(* Of an open episode, every administrator who has been a recipient since  *)
(* before it was alerted has that row, until the retention is over.        *)
Announced == \A s \in Existing : IsOpen(alertState[s]) =>
    \A u \in Admin : Steady(u, alertState[s].alertSent) =>
        \/ HasRow(s, u, alertState[s].alertSent)
        \/ alertState[s].alertSent + Retention < clock

LEMMA AnnouncedStep ==
    ASSUME ~RollbackAllowed, Typed, Chronology, DoneAfter, Held, Cutting, Announced, [Next]_vars
    PROVE  Announced'
<1> SUFFICES ASSUME NEW s \in Existing', IsOpen(alertState'[s]), NEW u \in Admin,
                    Steady(u, alertState[s].alertSent)'
             PROVE  \/ HasRow(s, u, alertState[s].alertSent)'
                    \/ alertState'[s].alertSent + Retention < clock'
  BY DEF Announced, IsOpen
<1>0. s \in Server /\ alertState' \in [Server -> StateRow]
  BY TypedNext DEF Existing, Typed, TypeOK
<1>a. PICK at \in Time : at = alertState'[s].alertSent
  BY <1>0, Ints DEF IsOpen, StateRow, Time, TimeOrNull, Null
<1>b. Steady(u, at)'
  BY <1>a DEF Steady, enabledAlertRecipients
<1>c. /\ clock' \in Int /\ clock \in Int /\ clock <= clock' /\ at \in Int /\ Retention \in Nat
  BY ClockAdvances, Ints, TablesAssumption
<1> SUFFICES HasRow(s, u, at)' \/ at + Retention < clock'
  BY <1>a DEF HasRow, AlertRow
<1>1. CASE Alerted(s)
  <2>1. /\ Evaluate /\ s \in Overdue(now) /\ now \in Time /\ EvaluateAlerts(now, allowed)
        /\ UNCHANGED <<alertsOn, joined, allowed>>
    BY <1>1, EvaluationFacts DEF Alerted, Evaluate, EvaluateAlerts, Goto
  <2>2. at = now
    BY <1>1, <1>a DEF Alerted, OfflineState
  <2>3. u \in enabledAlertRecipients(allowed)
    BY <1>b, <2>1 DEF Steady, enabledAlertRecipients
  <2> DEFINE row == NewRow(s, u, "offline", Baseline(s), now)
  <2>4. row \in Queued(now, allowed)
    BY <2>1, <2>3 DEF Queued
  <2>5. PICK last \in (nextId - 1) .. MaxId :
          /\ DOMAIN outbox' = DOMAIN outbox \cup nextId .. last
          /\ \A queued \in Queued(now, allowed) : \E i \in nextId .. last : outbox'[i] = queued
    BY <2>1, EvaluationRows
  <2>6. PICK i \in nextId .. last : outbox'[i] = row
    BY <2>4, <2>5
  <2>7. AlertRow(row, s, u, at)
    BY <2>2 DEF NewRow, AlertRow, terminalAlertClass, SuppressClasses
  <2> HIDE DEF row
  <2> QED BY <2>5, <2>6, <2>7 DEF HasRow, AlertRow
<1>2. CASE Rests(s) \/ HeardOf(s)
  <2>1. s \in Existing /\ alertState'[s] = alertState[s]
    BY <1>0, <1>2 DEF Rests, HeardOf, Existing
  <2>2. at = alertState[s].alertSent /\ at <= clock /\ IsOpen(alertState[s])
    BY <1>0, <1>a, <2>1 DEF Chronology, OnTime
  <2>3. Steady(u, at)
    BY <1>b, <1>c, <2>2, SteadyBefore
  <2>4. CASE at + Retention < clock
    BY <1>c, <2>4
  <2>5. CASE HasRow(s, u, at)
    <3>1. PICK i \in DOMAIN outbox : AlertRow(outbox[i], s, u, at)
      BY <2>5 DEF HasRow
    <3>2. CASE i \in DOMAIN outbox'
      <4>1. AlertRow(outbox'[i], s, u, at)
        BY <1>0, <2>3, <3>1, <3>2, AlertRowStays
      <4> QED BY <3>2, <4>1 DEF HasRow, AlertRow
    <3>3. CASE i \notin DOMAIN outbox'
      <4>1. ~Pending(outbox[i]) /\ outbox[i].doneAt < clock - Retention
        BY <3>1, <3>3, RowGoes DEF Chronology, Expired
      <4>2. at <= outbox[i].doneAt
        BY <3>1, <4>1 DEF DoneAfter, AlertRow
      <4>3. outbox[i].doneAt \in Int
        BY <3>1, Ints DEF Typed, TypeOK, Row
      <4> QED BY <1>c, <4>1, <4>2, <4>3
    <3> QED BY <3>2, <3>3
  <2> QED BY <2>1, <2>2, <2>3, <2>4, <2>5 DEF Announced
<1>3. CASE Ended(s) \/ Switched(s) \/ Gone(s)
  BY <1>3 DEF Ended, RecoveredState, Switched, ResetState, Gone, NoState, IsOpen
<1>4. CASE Born(s)
  <2>1. s \notin Existing /\ alertState'[s] = alertState[s]
    BY <1>4 DEF Born, Existing
  <2> QED BY <1>0, <2>1 DEF Chronology, EpisodeShape, Closed, IsOpen, Existing
<1> QED BY <1>0, <1>1, <1>2, <1>3, <1>4, ServerStep DEF Chronology

Accounts == /\ Typed /\ InHand /\ Chronology /\ Begun /\ DoneAfter
            /\ Held /\ Cutting /\ Announced

LEMMA AccountsInit == Init => Accounts
<1>1. Init => InHand /\ Begun /\ DoneAfter /\ Held /\ Cutting /\ Announced
  BY DEF Init, TablesInit, InHand, Resting, OneItemPerId, SentAsListed, Begun, DoneAfter, Held,
         Cutting, Announced, Existing
<1> QED BY <1>1, TypedInit, ChronologyInit DEF Accounts

LEMMA AccountsStep ==
    ASSUME ~RollbackAllowed, Accounts, [Next]_vars
    PROVE  Accounts'
  BY TypedNext, InHandStep, ChronologyStep, BegunStep, HeldStep, CuttingStep, AnnouncedStep
  DEF Accounts

(* The end of an alerted outage: who has that row is queued the news.      *)
LEMMA SteadyIsQueued ==
    ASSUME Accounts, [Next]_vars, NEW s \in Server, Recovers(s),
           clock <= alertState[s].alertSent + Retention,
           NEW u \in Admin, Steady(u, alertState[s].alertSent)
    PROVE  IsQueued(s, u)
<1>0. Typed /\ Chronology /\ Announced
  BY DEF Accounts
<1>1. Ended(s)
  <2>1. IsOpen(alertState[s]) /\ alertState[s].recovered = Null
    BY <1>0, OfServer DEF Recovers, Chronology, EpisodeShape, Closed, OpenedFairly, IsOpen
  <2>2. alertState'[s].recovered # Null
    BY DEF Recovers
  <2>3. ~Alerted(s)
    BY <1>0, <2>1, OfServer DEF Alerted, Overdue
  <2>4. ~(Rests(s) \/ HeardOf(s) \/ Born(s))
    BY <2>1, <2>2 DEF Rests, HeardOf, Born
  <2>5. ~(Switched(s) \/ Gone(s))
    BY <2>2 DEF Switched, ResetState, Gone, NoState
  <2> QED BY <1>0, <2>3, <2>4, <2>5, ServerStep DEF Chronology
<1>2. /\ s \in Recovered /\ s \in Existing /\ now \in Time /\ EvaluateAlerts(now, allowed)
      /\ IsOpen(alertState[s])
  BY <1>0, <1>1, EvaluationFacts, OfServer DEF Ended, Recovered
<1>3. u \in eligibleRecoveryRecipients(s, allowed)
  <2>1. ~(alertState[s].alertSent + Retention < clock)
    <3>1. clock \in Int /\ alertState[s].alertSent \in Int /\ Retention \in Nat
      BY <1>0, OfServer, Ints, TablesAssumption DEF StateRow
    <3> QED BY <3>1
  <2>2. HasRow(s, u, alertState[s].alertSent)
    BY <1>0, <1>2, <2>1 DEF Announced
  <2> QED BY <2>2 DEF HasRow, AlertRow, Steady, eligibleRecoveryRecipients
<1> DEFINE row == NewRow(s, u, "recovery", OutageStart(s), now)
<1>4. row \in Queued(now, allowed)
  BY <1>2, <1>3 DEF Queued
<1>5. PICK last \in (nextId - 1) .. MaxId :
        /\ DOMAIN outbox' = DOMAIN outbox \cup nextId .. last
        /\ \A queued \in Queued(now, allowed) : \E i \in nextId .. last : outbox'[i] = queued
  BY <1>0, <1>2, EvaluationRows
<1>6. PICK i \in nextId .. last : outbox'[i] = row
  BY <1>4, <1>5
<1>7. Queues(i)
  <2>1. i >= nextId /\ \A j \in DOMAIN outbox : j < nextId
    BY <1>0 DEF Chronology, FreshIds, Typed, TypeOK
  <2>2. \A j \in DOMAIN outbox : j \in Int /\ nextId \in Int
    BY <1>0 DEF Typed, TypeOK
  <2> QED BY <1>5, <2>1, <2>2 DEF Queues
<1>8. /\ row.server = s /\ row.user = u /\ row.kind = "recovery"
      /\ row.since = alertState[s].offlineSince
  BY DEF NewRow, OutageStart
<1> HIDE DEF row
<1> QED BY <1>6, <1>7, <1>8 DEF Queues, IsQueued

(* While the clock only advances, whoever has been a recipient since       *)
(* before a server was alerted is queued the news of its recovery, unless  *)
(* the alert is older than the retention: whatever became of his message,  *)
(* and whoever else came, went or was switched off.                        *)
THEOREM RecoveryReaches == ~RollbackAllowed => (Spec => RecoveryReachesTheSteady)
<1> SUFFICES ASSUME ~RollbackAllowed PROVE Spec => RecoveryReachesTheSteady
  OBVIOUS
<1> DEFINE Reaches == \A s \in Server :
              Recovers(s) /\ clock <= alertState[s].alertSent + Retention =>
                \A u \in Admin : Steady(u, alertState[s].alertSent) => IsQueued(s, u)
<1>1. Accounts /\ [Next]_vars => Accounts'
  BY AccountsStep
<1>2. Accounts /\ [Next]_vars => [Reaches]_vars
  BY SteadyIsQueued
<1> QED BY <1>1, <1>2, AccountsInit, PTL DEF Spec, RecoveryReachesTheSteady

=============================================================================
