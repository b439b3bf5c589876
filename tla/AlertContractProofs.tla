------------------------ MODULE AlertContractProofs ------------------------
(***************************************************************************)
(* AlertWorker implements AlertContract: under the mapping of its section  *)
(* Refinement, its initial states are initial states of the contract and   *)
(* each of its steps is a step of the contract or changes nothing in it,   *)
(* for every value of the constants.                                       *)
(*                                                                         *)
(* What is needed beside the invariants of AlertWorkerProofs is about the  *)
(* rows in the worker's hands: between two runs there are none, no two of  *)
(* them have one id, and a row at "sent" was accepted as it was listed.    *)
(***************************************************************************)
EXTENDS AlertWorkerProofs

Resting == pc \in {"down", "idle", "evaluate", "list"} => batch = {}
OneItemPerId == \A item, other \in batch : item.id = other.id => item = other
SentAsListed == pc = "sent" =>
    \A item \in batch : IsNext(item) => AsMessage(item) \in accepted
InHand == Resting /\ OneItemPerId /\ SentAsListed

Kept == [Contract!Next]_(Contract!contract)

-----------------------------------------------------------------------------
(* The rows in hand.                                                       *)

LEMMA HandledHand ==
    ASSUME InHand, NEW item \in batch, Handled(item)
    PROVE  InHand' /\ batch' \subseteq batch \ {item} /\ UNCHANGED accepted
  BY DEF InHand, Resting, OneItemPerId, SentAsListed, Handled, RunEnds

LEMMA InHandStep ==
    ASSUME Typed, InHand, [Next]_vars
    PROVE  InHand'
<1> USE DEF InHand, Resting, OneItemPerId, SentAsListed
<1>1. CASE RunOnce \/ Evaluate \/ EvaluationFails
  BY <1>1 DEF RunOnce, Evaluate, EvaluationFails, Goto
<1>2. CASE List
  <2>1. CASE RunEnds
    BY <2>1 DEF RunEnds
  <2>2. CASE /\ batch' = {[id |-> i, row |-> outbox[i]] : i \in ListDueAlertOutbox(now, BatchSize)}
             /\ pc' = "recheck"
    BY <2>2
  <2> QED BY <1>2, <2>1, <2>2 DEF List
<1>3. CASE RepositoryFails
  BY <1>3 DEF RepositoryFails, RunEnds
<1>4. ASSUME NEW item \in batch, Recheck(item) \/ SendRefused(item)
      PROVE  InHand'
  BY <1>4 DEF Recheck, SendRefused, Goto, Suppressing
<1>5. ASSUME NEW item \in batch, SendAccepted(item)
      PROVE  InHand'
  <2>1. /\ AsMessage(item) \in accepted' /\ UNCHANGED batch /\ IsNext(item)
        /\ pc' \in {"sent", "refused"}
    BY <1>5 DEF SendAccepted
  <2>2. ASSUME NEW other \in batch, IsNext(other)
        PROVE  other = item
    <3>1. other.id <= item.id /\ item.id <= other.id
      BY <2>1, <2>2 DEF IsNext
    <3>2. other.id \in 1..MaxId /\ item.id \in 1..MaxId
      BY DEF Typed, TypeOK, Item
    <3> QED BY <3>1, <3>2, TablesAssumption
  <2>3. SentAsListed'
    BY <2>1, <2>2 DEF IsNext
  <2> QED BY <2>1, <2>3
<1>6. ASSUME NEW item \in batch, Suppress(item) \/ Deliver(item) \/ Retry(item)
      PROVE  InHand'
  BY <1>6, HandledHand DEF Suppress, Deliver, Retry
<1>7. CASE UNCHANGED workerVars
  BY <1>7 DEF workerVars, IsNext
<1>8. CASE Crash
  BY <1>8 DEF Crash
<1>9. ASSUME NEW admins \in (SUBSET Admin) \ {{}}, Restart(admins)
      PROVE  InHand'
  BY <1>9 DEF Restart
<1> QED BY <1>1, <1>2, <1>3, <1>4, <1>5, <1>6, <1>7, <1>8, <1>9 DEF Next, WorkerStep, vars

-----------------------------------------------------------------------------
(* What a step of the tables is to the contract.                           *)

Waits(rows) == {i \in DOMAIN rows : Pending(rows[i])}

(* Rows that stop waiting without being told, while the others stay as     *)
(* they are, are withdrawn.                                                *)
LEMMA Withdrawing ==
    ASSUME NEW ids, ids \subseteq Waits(outbox), Waits(outbox') = Waits(outbox) \ ids,
           \A i \in Waits(outbox') : Notice(outbox'[i]) = Notice(outbox[i]),
           Selected' \subseteq Selected, UNCHANGED <<nextId, accepted, Confirmed>>
    PROVE  Contract!Next
<1>1. Owed' = [i \in DOMAIN Owed \ ids |-> Owed[i]]
  BY DEF Owed, Waits
<1>2. ids \in SUBSET DOMAIN Owed
  BY DEF Owed, Waits
<1>3. UNCHANGED Told
  BY DEF Told
<1> QED BY <1>1, <1>2, <1>3 DEF Contract!Next, Contract!Withdraw, Contract!Without

(* When no row stops waiting, the selection is let go at most.             *)
LEMMA LettingGo ==
    ASSUME UNCHANGED <<Owed, nextId, Told, Confirmed>>, Selected' \subseteq Selected
    PROVE  Contract!Next
  BY DEF Contract!Next, Contract!LetGo

LEMMA SameOutbox ==
    ASSUME UNCHANGED outbox
    PROVE  UNCHANGED <<Owed, Confirmed>>
  BY DEF Owed, Confirmed, Pending

LEMMA FewerSelected ==
    ASSUME batch' \subseteq batch
    PROVE  Selected' \subseteq Selected
  BY DEF Selected

-----------------------------------------------------------------------------
(* The steps of the worker.                                                *)

(* A due row that heads its conversation is the oldest notice owed to it.  *)
LEMMA HeadsAreOldest ==
    ASSUME NEW i \in DueHeads(now)
    PROVE  i \in DOMAIN Owed /\ Contract!Oldest(i)
<1>1. i \in DOMAIN Owed
  BY DEF DueHeads, Owed
<1>2. ASSUME NEW j \in DOMAIN Owed, j < i
      PROVE  ~Contract!SameConversation(i, j)
  BY <1>1, <1>2 DEF DueHeads, Owed, Notice, Contract!SameConversation
<1> QED BY <1>1, <1>2 DEF Contract!Oldest

LEMMA ListKept ==
    ASSUME InHand, List
    PROVE  Kept
<1>0. batch = {} /\ UNCHANGED <<outbox, nextId, accepted>>
  BY DEF InHand, Resting, List, tableVars, RunEnds
<1>1. UNCHANGED <<Owed, Told, Confirmed>>
  BY <1>0, SameOutbox DEF Told
<1>2. CASE batch' = {}
  BY <1>0, <1>1, <1>2, FewerSelected, LettingGo DEF Kept
<1>3. CASE batch' = {[id |-> i, row |-> outbox[i]] : i \in ListDueAlertOutbox(now, BatchSize)}
  <2>1. ListDueAlertOutbox(now, BatchSize) \subseteq DueHeads(now)
    BY DEF ListDueAlertOutbox
  <2>2. ASSUME NEW chosen \in Selected'
        PROVE  \E i \in DOMAIN Owed :
                   Contract!Oldest(i) /\ chosen = [id |-> i, notice |-> Owed[i]]
    <3>1. PICK i \in DueHeads(now) : chosen = [id |-> i, notice |-> Notice(outbox[i])]
      BY <1>3, <2>1 DEF Selected
    <3>2. i \in DOMAIN Owed /\ Contract!Oldest(i) /\ Owed[i] = Notice(outbox[i])
      BY HeadsAreOldest DEF Owed
    <3> QED BY <3>1, <3>2
  <2>3. Selected = {}
    BY <1>0 DEF Selected
  <2>4. Contract!Select
    BY <1>0, <1>1, <2>2, <2>3 DEF Contract!Select
  <2> QED BY <2>4 DEF Kept, Contract!Next
<1> QED BY <1>2, <1>3 DEF List, RunEnds

(* A message tells the notice it was made from.                            *)
Telling(m) == [id |-> m.id, notice |-> [server |-> m.server, user |-> m.user,
                                        kind |-> m.kind, since |-> m.since]]
Chosen(item) == [id |-> item.id, notice |-> Notice(item.row)]
LEMMA MessageTells ==
    /\ Told = {Telling(m) : m \in accepted}
    /\ \A item : Telling(AsMessage(item)) = Chosen(item)
<1>1. Told = {Telling(m) : m \in accepted}
  BY DEF Told, Telling
<1>2. ASSUME NEW item
      PROVE  Telling(AsMessage(item)) = Chosen(item)
  <2>1. /\ AsMessage(item).id = item.id /\ AsMessage(item).server = item.row.server
        /\ AsMessage(item).user = item.row.user /\ AsMessage(item).kind = item.row.kind
        /\ AsMessage(item).since = item.row.since
    BY DEF AsMessage
  <2> QED BY <2>1 DEF Telling, Chosen, Notice
<1> QED BY <1>1, <1>2

LEMMA SendAcceptedKept ==
    ASSUME NEW item \in batch, SendAccepted(item)
    PROVE  Kept
<1> DEFINE chosen == Chosen(item)
<1>1. chosen \in Selected
  BY DEF Selected, Chosen
<1>2. accepted' = accepted \cup {AsMessage(item)} /\ UNCHANGED <<outbox, nextId, batch>>
  BY DEF SendAccepted, tableVars
<1>3. Told' = Told \cup {chosen}
  <2>1. Told' = {Telling(m) : m \in accepted'}
    BY DEF Told, Telling
  <2>2. Telling(AsMessage(item)) = chosen /\ Told = {Telling(m) : m \in accepted}
    BY MessageTells
  <2> HIDE DEF chosen
  <2> QED BY <1>2, <2>1, <2>2
<1>4. UNCHANGED <<Owed, nextId, Selected, Confirmed>>
  BY <1>2, SameOutbox DEF Selected
<1>5. Contract!Tell(chosen)
  BY <1>3, <1>4 DEF Contract!Tell
<1> QED BY <1>1, <1>5 DEF Kept, Contract!Next

LEMMA DeliverKept ==
    ASSUME Typed, InHand, NEW item \in batch, Deliver(item)
    PROVE  Kept
<1> DEFINE chosen == Chosen(item)
<1>0. /\ outbox \in [DOMAIN outbox -> Row(MaxAttempts)] /\ now # Null
      /\ item.id \in DOMAIN outbox /\ Pending(outbox[item.id])
      /\ UNCHANGED nextId
  BY DEF Typed, TypeOK, RunHasTime, Deliver, MarkAlertDelivered, Affected, otherTables
<1>1. /\ DOMAIN outbox' = DOMAIN outbox
      /\ outbox'[item.id].doneAt = now /\ outbox'[item.id].lastError = ""
      /\ \A i \in DOMAIN outbox \ {item.id} : outbox'[i] = outbox[i]
  <2>1. outbox' = [outbox EXCEPT ![item.id] = [outbox[item.id] EXCEPT !.doneAt = now,
                                                                      !.lastError = ""]]
    BY <1>0 DEF Deliver, MarkAlertDelivered
  <2>2. outbox[item.id] \in Row(MaxAttempts)
    BY <1>0
  <2> QED BY <1>0, <2>1, <2>2 DEF Row
<1>2. chosen \in Selected /\ chosen.id = item.id /\ item.id \in DOMAIN Owed
  BY <1>0 DEF Selected, Owed, Chosen
<1>3. chosen \in Told
  <2>1. AsMessage(item) \in accepted
    BY DEF InHand, SentAsListed, Deliver
  <2> QED BY <2>1, MessageTells
<1>4. Owed' = Contract!Without({item.id})
  <2>1. {i \in DOMAIN outbox' : Pending(outbox'[i])} =
          {i \in DOMAIN outbox : Pending(outbox[i])} \ {item.id}
    BY <1>0, <1>1 DEF Pending
  <2> QED BY <1>1, <2>1 DEF Owed, Contract!Without
<1>5. Confirmed' = Confirmed \cup {item.id}
  BY <1>0, <1>1 DEF Confirmed, Pending
<1>6. batch' \subseteq batch \ {item} /\ UNCHANGED accepted
  BY HandledHand DEF Deliver
<1>7. Selected' \subseteq Selected \ {chosen}
  BY <1>6 DEF Selected, Chosen, InHand, OneItemPerId
<1>8. Contract!Confirm(chosen)
  BY <1>0, <1>2, <1>3, <1>4, <1>5, <1>6, <1>7 DEF Contract!Confirm, Told
<1> QED BY <1>2, <1>8 DEF Kept, Contract!Next

LEMMA SuppressKept ==
    ASSUME Typed, InHand, NEW item \in batch, Suppress(item)
    PROVE  Kept
<1>0. /\ outbox \in [DOMAIN outbox -> Row(MaxAttempts)] /\ now # Null /\ pc # ""
      /\ item.id \in DOMAIN outbox /\ Pending(outbox[item.id])
      /\ UNCHANGED nextId
  BY DEF Typed, TypeOK, RunHasTime, Suppress, Suppressing, MarkAlertSuppressed, Affected,
         otherTables
<1>1. /\ DOMAIN outbox' = DOMAIN outbox
      /\ outbox'[item.id].doneAt = now /\ outbox'[item.id].lastError = pc
      /\ \A i \in DOMAIN outbox \ {item.id} : outbox'[i] = outbox[i]
  <2>1. outbox' = [outbox EXCEPT ![item.id] = [outbox[item.id] EXCEPT !.doneAt = now,
                                                                      !.lastError = pc]]
    BY <1>0 DEF Suppress, MarkAlertSuppressed
  <2>2. outbox[item.id] \in Row(MaxAttempts)
    BY <1>0
  <2> QED BY <1>0, <2>1, <2>2 DEF Row
<1>2. Waits(outbox') = Waits(outbox) \ {item.id} /\ {item.id} \subseteq Waits(outbox)
  <2>1. ~Pending(outbox'[item.id])
    BY <1>0, <1>1 DEF Pending
  <2> QED BY <1>0, <1>1, <2>1, Zenon DEF Waits
<1>3. \A i \in Waits(outbox') : Notice(outbox'[i]) = Notice(outbox[i])
  BY <1>1, <1>2 DEF Waits
<1>4. UNCHANGED Confirmed
  <2>1. ASSUME NEW i \in DOMAIN outbox
        PROVE  outbox'[i].doneAt # Null /\ outbox'[i].lastError = ""
                   <=> outbox[i].doneAt # Null /\ outbox[i].lastError = ""
    BY <1>0, <1>1 DEF Pending
  <2> QED BY <1>1, <2>1 DEF Confirmed, Pending
<1>5. batch' \subseteq batch /\ UNCHANGED accepted
  BY HandledHand DEF Suppress
<1> QED BY <1>0, <1>2, <1>3, <1>4, <1>5, FewerSelected, Withdrawing DEF Kept

LEMMA RetryKept ==
    ASSUME Typed, InHand, NEW item \in batch, Retry(item)
    PROVE  Kept
<1>0. /\ outbox \in [DOMAIN outbox -> Row(MaxAttempts)]
      /\ item.id \in DOMAIN outbox /\ Pending(outbox[item.id])
      /\ UNCHANGED nextId
  BY DEF Typed, TypeOK, Retry, MarkAlertFailed, Affected, otherTables
<1>1. /\ DOMAIN outbox' = DOMAIN outbox
      /\ Pending(outbox'[item.id]) /\ Notice(outbox'[item.id]) = Notice(outbox[item.id])
      /\ \A i \in DOMAIN outbox \ {item.id} : outbox'[i] = outbox[i]
  <2> DEFINE old == outbox[item.id]
             tried == [old EXCEPT !.attempts = IF @ < MaxAttempts THEN @ + 1 ELSE @,
                                  !.nextAttempt = RetryAt(item),
                                  !.lastError = "telegram_send_failed"]
  <2>1. outbox' = [outbox EXCEPT ![item.id] = tried]
    BY <1>0 DEF Retry, MarkAlertFailed
  <2>2. old \in Row(MaxAttempts)
    BY <1>0
  <2>3. /\ tried.doneAt = old.doneAt /\ tried.server = old.server
        /\ tried.user = old.user /\ tried.kind = old.kind /\ tried.since = old.since
    BY <2>2 DEF Row
  <2> HIDE DEF tried
  <2> QED BY <1>0, <2>1, <2>3 DEF Pending, Notice
<1>2. UNCHANGED Owed
  <2>1. Waits(outbox') = Waits(outbox)
    BY <1>0, <1>1 DEF Waits
  <2> QED BY <1>1, <2>1 DEF Owed, Waits
<1>3. UNCHANGED Confirmed
  BY <1>0, <1>1 DEF Confirmed
<1>4. batch' \subseteq batch /\ UNCHANGED accepted
  BY HandledHand DEF Retry
<1> QED BY <1>0, <1>2, <1>3, <1>4, FewerSelected, LettingGo DEF Kept, Told

(* Nothing is suppressed by an evaluation: no row waits for a server that  *)
(* is not enabled.                                                         *)
LEMMA EvaluateKept ==
    ASSUME Typed, FreshIds, PendingIsServed, Evaluate
    PROVE  Kept
<1>0. outbox \in [DOMAIN outbox -> Row(MaxAttempts)] /\ now \in Time
  BY EvaluationFacts DEF Typed, TypeOK
<1>1. PICK last \in (nextId - 1) .. MaxId :
        /\ nextId' = last + 1
        /\ DOMAIN outbox' = DOMAIN outbox \cup nextId .. last
        /\ \A i \in nextId .. last : outbox'[i] \in Waiting
        /\ \A i \in DOMAIN outbox \ (nextId .. last) :
             outbox'[i] = SuppressPending(outbox, Leftover, now)[i]
  BY EvaluationFacts, EvaluationOutbox
<1>2. DOMAIN outbox \cap nextId .. last = {}
  BY <1>1, TablesAssumption DEF FreshIds, Typed, TypeOK
<1>3. ASSUME NEW i \in DOMAIN outbox
      PROVE  outbox'[i] = outbox[i]
  <2>1. ~(Pending(outbox[i]) /\ outbox[i].server \in Leftover)
    BY DEF PendingIsServed, Leftover
  <2>2. outbox'[i] = SuppressPending(outbox, Leftover, now)[i]
    BY <1>1, <1>2
  <2> QED BY <1>0, <2>1, <2>2, SuppressedRow
<1>4. \A i \in nextId .. last : Pending(outbox'[i])
  BY <1>1 DEF Waiting
<1>5. /\ DOMAIN Owed' = DOMAIN Owed \cup nextId .. last
      /\ \A i \in DOMAIN Owed : Owed'[i] = Owed[i]
  BY <1>1, <1>2, <1>3, <1>4 DEF Owed
<1>6. UNCHANGED Confirmed
  BY <1>1, <1>2, <1>3, <1>4 DEF Confirmed
<1>7. UNCHANGED <<Selected, Told>>
  BY DEF Evaluate, Goto, Selected, Told
<1>8. nextId' \in nextId .. (MaxId + 1) /\ last = nextId' - 1
  BY <1>1, TablesAssumption DEF Typed, TypeOK
<1>9. Contract!Announce
  BY <1>5, <1>6, <1>7, <1>8 DEF Contract!Announce
<1> QED BY <1>9 DEF Kept, Contract!Next

-----------------------------------------------------------------------------
(* The steps of the tables, and the steps the contract does not see.       *)

(* What taking a server's rows back makes of one row.                      *)
TakenBack(s, i) ==
    /\ Pending(outbox'[i]) <=> Pending(outbox[i]) /\ outbox[i].server # s
    /\ Pending(outbox'[i]) => outbox'[i] = outbox[i]
    /\ outbox'[i].lastError = "" /\ ~Pending(outbox'[i])
           <=> outbox[i].lastError = "" /\ ~Pending(outbox[i])

LEMMA SuppressedOf ==
    ASSUME Typed, NEW s, NEW i \in DOMAIN outbox
    PROVE  \/ /\ SuppressPending(outbox, {s}, clock)[i] = outbox[i]
              /\ ~(Pending(outbox[i]) /\ outbox[i].server = s)
           \/ /\ Pending(outbox[i]) /\ outbox[i].server = s
              /\ ~Pending(SuppressPending(outbox, {s}, clock)[i])
              /\ SuppressPending(outbox, {s}, clock)[i].lastError # ""
<1>1. /\ outbox \in [DOMAIN outbox -> Row(MaxAttempts)] /\ outbox[i] \in Row(MaxAttempts)
      /\ clock # Null
  BY Times DEF Typed, TypeOK
<1> QED BY <1>1 DEF SuppressPending, Row, Pending

LEMMA TakenBackKept ==
    ASSUME NEW s, DOMAIN outbox' = DOMAIN outbox, \A i \in DOMAIN outbox : TakenBack(s, i),
           UNCHANGED <<nextId, batch, accepted>>
    PROVE  Kept
<1> DEFINE ids == {i \in Waits(outbox) : outbox[i].server = s}
<1>1. Waits(outbox') = Waits(outbox) \ ids
  BY DEF TakenBack, Waits
<1>2. \A i \in Waits(outbox') : Notice(outbox'[i]) = Notice(outbox[i])
  BY DEF TakenBack, Waits
<1>3. UNCHANGED Confirmed
  <2>1. Confirmed' = {i \in DOMAIN outbox' : ~Pending(outbox'[i]) /\ outbox'[i].lastError = ""}
    BY DEF Confirmed, Pending
  <2> QED BY <2>1 DEF TakenBack, Confirmed
<1> QED BY <1>1, <1>2, <1>3, FewerSelected, Withdrawing DEF Kept

LEMMA UpdateServerKept ==
    ASSUME Typed, NEW s \in Server, NEW b \in BOOLEAN, UpdateServer(s, b), UNCHANGED workerVars
    PROVE  Kept
<1>0. /\ outbox \in [DOMAIN outbox -> Row(MaxAttempts)] /\ clock \in Time
      /\ UNCHANGED <<nextId, batch, accepted>>
  BY DEF Typed, TypeOK, UpdateServer, workerVars
<1>1. CASE b
  <2>1. UNCHANGED outbox
    BY <1>1 DEF UpdateServer
  <2> QED BY <1>0, <2>1, SameOutbox, FewerSelected, LettingGo DEF Kept, Told
<1>2. CASE ~b
  <2>1. outbox' = SuppressPending(outbox, {s}, clock) /\ DOMAIN outbox' = DOMAIN outbox
    BY <1>0, <1>2, SuppressKeepsRows, Times DEF UpdateServer
  <2>2. ASSUME NEW i \in DOMAIN outbox
        PROVE  TakenBack(s, i)
    <3>1. \/ /\ outbox'[i] = outbox[i]
             /\ ~(Pending(outbox[i]) /\ outbox[i].server = s)
          \/ /\ Pending(outbox[i]) /\ outbox[i].server = s
             /\ ~Pending(outbox'[i]) /\ outbox'[i].lastError # ""
      BY <2>1, SuppressedOf DEF Pending
    <3> QED BY <3>1 DEF TakenBack, Pending
  <2> QED BY <1>0, <2>1, <2>2, TakenBackKept
<1> QED BY <1>1, <1>2

(* Rows that lose their server with its deletion no longer wait.           *)
LEMMA DeleteServerKept ==
    ASSUME Typed, NEW s \in Server, DeleteServer(s), UNCHANGED workerVars
    PROVE  Kept
<1>0. /\ outbox \in [DOMAIN outbox -> Row(MaxAttempts)] /\ clock \in Time
      /\ UNCHANGED <<nextId, batch, accepted>>
  BY DEF Typed, TypeOK, DeleteServer, workerVars
<1> DEFINE kept == SuppressPending(outbox, {s}, clock)
<1>1. /\ kept \in [DOMAIN kept -> Row(MaxAttempts)] /\ DOMAIN kept = DOMAIN outbox
      /\ outbox' = Orphan(kept, s) /\ DOMAIN outbox' = DOMAIN outbox
  BY <1>0, SuppressKeepsRows, OrphanKeepsRows, Times DEF DeleteServer
<1>2. ASSUME NEW i \in DOMAIN outbox
      PROVE  \/ kept[i] = outbox[i] /\ ~(Pending(outbox[i]) /\ outbox[i].server = s)
             \/ /\ Pending(outbox[i]) /\ outbox[i].server = s
                /\ ~Pending(kept[i]) /\ kept[i].lastError # ""
  BY SuppressedOf DEF Pending
<1> HIDE DEF kept
<1>3. ASSUME NEW i \in DOMAIN outbox
      PROVE  /\ outbox'[i].doneAt = kept[i].doneAt /\ outbox'[i].lastError = kept[i].lastError
             /\ kept[i].server # s => outbox'[i] = kept[i]
  BY <1>1, OrphanedRow DEF Orphan
<1>4. ASSUME NEW i \in DOMAIN outbox
      PROVE  TakenBack(s, i)
  BY <1>2, <1>3 DEF TakenBack, Pending
<1> QED BY <1>0, <1>1, <1>4, TakenBackKept

LEMMA CleanupKept ==
    ASSUME DeleteTerminalAlertOutboxBefore, UNCHANGED workerVars
    PROVE  Kept
<1>1. UNCHANGED <<nextId, Selected, Told>>
  BY DEF DeleteTerminalAlertOutboxBefore, otherTables, workerVars, Selected, Told
<1>2. /\ DOMAIN outbox' \subseteq DOMAIN outbox /\ Waits(outbox') = Waits(outbox)
      /\ \A i \in DOMAIN outbox' : outbox'[i] = outbox[i]
  BY DEF DeleteTerminalAlertOutboxBefore, Expired, Waits
<1>3. UNCHANGED Owed
  BY <1>2 DEF Owed, Waits
<1>4. Confirmed' \subseteq Confirmed
  BY <1>2 DEF Confirmed
<1> QED BY <1>1, <1>3, <1>4 DEF Kept, Contract!Next, Contract!Forget

(* The other steps change no row, and of the rows in hand at most let some *)
(* go.                                                                     *)
LEMMA QuietStepKept ==
    ASSUME UNCHANGED <<outbox, nextId, accepted>>, batch' \subseteq batch
    PROVE  Kept
  BY SameOutbox, FewerSelected, LettingGo DEF Kept, Told

LEMMA StepKept ==
    ASSUME Typed, FreshIds, PendingIsServed, InHand, [Next]_vars
    PROVE  Kept
<1>1. CASE Evaluate
  BY <1>1, EvaluateKept
<1>2. CASE List
  BY <1>2, ListKept
<1>3. ASSUME NEW item \in batch,
             SendAccepted(item) \/ Suppress(item) \/ Deliver(item) \/ Retry(item)
      PROVE  Kept
  BY <1>3, SendAcceptedKept, SuppressKept, DeliverKept, RetryKept
<1>4. CASE \/ RunOnce \/ EvaluationFails \/ RepositoryFails \/ Crash
           \/ \E item \in batch : Recheck(item) \/ SendRefused(item)
           \/ \E admins \in (SUBSET Admin) \ {{}} : Restart(admins)
  BY <1>4, QuietStepKept
  DEF RunOnce, EvaluationFails, RepositoryFails, RunEnds, Crash, Recheck, SendRefused, Goto,
      Restart, tableVars
<1>5. CASE TablesStep /\ UNCHANGED workerVars
  <2>1. ASSUME NEW s \in Server, NEW b \in BOOLEAN, UpdateServer(s, b)
        PROVE  Kept
    BY <1>5, <2>1, UpdateServerKept
  <2>2. ASSUME NEW s \in Server, DeleteServer(s)
        PROVE  Kept
    BY <1>5, <2>2, DeleteServerKept
  <2>3. CASE DeleteTerminalAlertOutboxBefore
    BY <1>5, <2>3, CleanupKept
  <2>4. CASE \/ Tick \/ ClockStepsBack
             \/ \E s \in Server, b \in BOOLEAN : CreateServer(s, b)
             \/ \E s \in Server, at \in Time : UpsertLatestMetrics(s, at)
             \/ \E u \in Admin, b \in BOOLEAN : SetAlertPreference(u, b)
             \/ \E t \in Threshold : UpdateSettings(t)
    BY <1>5, <2>4, QuietStepKept
    DEF Tick, ClockStepsBack, CreateServer, UpsertLatestMetrics, SetAlertPreference,
        UpdateSettings, workerVars
  <2> QED BY <1>5, <2>1, <2>2, <2>3, <2>4 DEF TablesStep
<1>6. CASE UNCHANGED vars
  BY <1>6, QuietStepKept DEF vars, tableVars, workerVars
<1> QED BY <1>1, <1>2, <1>3, <1>4, <1>5, <1>6 DEF Next, WorkerStep

-----------------------------------------------------------------------------
LEMMA InitKept == Init => Contract!Init
  BY DEF Init, TablesInit, Contract!Init, Owed, Selected, Told, Confirmed

(* The worker over its tables implements the contract: a notice once       *)
(* queued stays owed through crashes, failed calls and clock changes until *)
(* it is confirmed or taken back, only the oldest of a conversation is     *)
(* sent, and only what Telegram accepted is confirmed.                     *)
THEOREM ContractKept == Spec => KeepsContract
<1> DEFINE Inv == Typed /\ FreshIds /\ PendingIsServed /\ InHand
<1>1. Init => Inv
  BY TypedInit
  DEF Init, TablesInit, FreshIds, PendingIsServed, InHand, Resting, OneItemPerId, SentAsListed
<1>2. Inv /\ [Next]_vars => Inv'
  BY TypedNext, FreshIdsStep, PendingIsServedStep, InHandStep
<1>3. Inv /\ [Next]_vars => [Contract!Next]_(Contract!contract)
  BY StepKept DEF Kept
<1> HIDE DEF Inv
<1> QED BY <1>1, <1>2, <1>3, InitKept, PTL DEF Spec, KeepsContract, Contract!Spec
=============================================================================
