----------------------- MODULE TelegramWebhookProofs ------------------------
(***************************************************************************)
(* Theorems about TelegramWebhook, for every set of accounts and handlers, *)
(* every retention that exceeds what Telegram keeps, and every bound.      *)
(*                                                                         *)
(* The inductive invariant has five parts.  Clocked: a handler works on    *)
(* what Telegram still kept when it delivered it, no longer than a day     *)
(* ago.  Lasting: what it has recorded is no older than its delivery, so   *)
(* that the cleanup does not reach it.  Once: what a command has been      *)
(* carried out for, or is about to be, stays on record until no handler    *)
(* can work on it any more.  Dealt: what is on record, or has left         *)
(* Telegram, was dealt with or will be.  InTurn: what Telegram waits for   *)
(* comes before anything later of the same chat.                           *)
(***************************************************************************)
EXTENDS TelegramWebhook, SequenceTheorems, TLAPS

Busy(d) == delivery[d] # Idle
CommandOf(d, i) == delivery[d].at = "command" /\ delivery[d].id = i
Commanded(i) == \E d \in Delivery : CommandOf(d, i)

Timely(d) ==
    LET i == delivery[d].id IN
    /\ i \in DOMAIN update
    /\ update[i].at <= delivery[d].since /\ delivery[d].since <= update[i].at + Keep
    /\ delivery[d].since <= clock /\ clock <= delivery[d].since + 1
Clocked ==
    /\ Types
    /\ \A i \in DOMAIN update : update[i].at <= clock
    /\ \A d \in Delivery : Busy(d) => Timely(d)
    /\ \A i \in Id : recorded[i] # 0 => i \in DOMAIN update /\ update[i].at <= recorded[i]

AtWork(d) == delivery[d].at \in {"command", "send"}
Lasting == \A d \in Delivery : AtWork(d) => recorded[delivery[d].id] >= delivery[d].since

(* Too late for any handler to be at work on it.                           *)
Late(i) == clock > update[i].at + Keep + 1

Once ==
    /\ \A i \in Id : ran[i] # 0 \/ Commanded(i) =>
            i \in DOMAIN update /\ (recorded[i] # 0 \/ Late(i))
    /\ \A i \in Id : ran[i] <= 1 /\ (Commanded(i) => ran[i] = 0)
    /\ \A d, e \in Delivery : \A i \in Id : CommandOf(d, i) /\ CommandOf(e, i) => d = e

Done(i) == i \in dropped \/ ran[i] = 1 \/ Commanded(i)
Dealt ==
    /\ \A d \in Delivery : delivery[d].at = "send" => ran[delivery[d].id] = 1
    /\ \A i \in DOMAIN update : recorded[i] # 0 \/ i \notin held => Done(i)

WaitedFor(d) ==
    IF delivery[d].waited THEN delivery[d].id \in held ELSE delivery[d].id \in gaveUp
Untouched(i) == ran[i] = 0 /\ \A d \in Delivery : delivery[d].id # i
InTurn ==
    /\ \A d \in Delivery : Busy(d) => WaitedFor(d)
    /\ \A d, e \in Delivery :
         delivery[d].waited /\ delivery[e].waited /\ delivery[d].id = delivery[e].id => d = e
    /\ \A k \in held, i \in DOMAIN update :
         k < i /\ update[k].user = update[i].user => Untouched(i)

-----------------------------------------------------------------------------
(* The handlers, and what is written to the bot.                           *)

LEMMA IdleOrWorking ==
    ASSUME Types, NEW d \in Delivery
    PROVE  /\ Busy(d) <=> delivery[d].at # "idle"
           /\ Busy(d) => delivery[d] \in Working
           /\ ~Busy(d) => ~delivery[d].waited /\ delivery[d].id = 0
  BY DEF Types, Busy, Working, Idle

LEMMA GoesTo ==
    ASSUME Types, NEW d \in Delivery, Busy(d), NEW place \in {"received", "command", "send"},
           Goto(d, place)
    PROVE  /\ delivery' \in [Delivery -> Working \cup {Idle}]
           /\ delivery'[d].at = place /\ delivery'[d].id = delivery[d].id
           /\ delivery'[d].waited = delivery[d].waited /\ delivery'[d].since = delivery[d].since
           /\ \A e \in Delivery \ {d} : delivery'[e] = delivery[e]
<1>1. delivery[d] \in Working
  BY IdleOrWorking
<1>2. delivery' = [delivery EXCEPT ![d] = [delivery[d] EXCEPT !.at = place]]
  BY DEF Types, Goto
<1>3. [delivery[d] EXCEPT !.at = place] \in Working
  BY <1>1 DEF Working
<1> QED BY <1>1, <1>2, <1>3 DEF Types, Working

LEMMA Ends ==
    ASSUME Types, NEW d \in Delivery, delivery' = [delivery EXCEPT ![d] = Idle]
    PROVE  /\ delivery' \in [Delivery -> Working \cup {Idle}]
           /\ delivery'[d] = Idle
           /\ \A e \in Delivery \ {d} : delivery'[e] = delivery[e]
  BY DEF Types

LEMMA Written ==
    ASSUME Types, NEW u \in User, NEW c \in Commands, Write(u, c)
    PROVE  LET n == Len(update) + 1 IN
           /\ update' \in Seq([user: User, command: Commands, at: Time])
           /\ Len(update') = n /\ n \in Id /\ DOMAIN update' = 1..n /\ DOMAIN update = 1..(n - 1)
           /\ n \notin DOMAIN update /\ held' = held \cup {n}
           /\ update'[n] = [user |-> u, command |-> c, at |-> clock]
           /\ \A i \in DOMAIN update : i < n /\ update'[i] = update[i]
<1>1. [user |-> u, command |-> c, at |-> clock] \in [user: User, command: Commands, at: Time]
  BY DEF Types
<1>2. update \in Seq([user: User, command: Commands, at: Time]) /\ Len(update) \in Nat
  BY DEF Types
<1> QED BY <1>1, <1>2, WebhookAssumption DEF Write, Id

LEMMA Dates ==
    ASSUME Types
    PROVE  /\ clock \in Int /\ Keep \in Int /\ Retention \in Int
           /\ DOMAIN update \subseteq Id
           /\ \A i \in DOMAIN update : update[i].at \in Time /\ update[i].user \in User
           /\ \A i \in Id : recorded[i] \in Int
<1>1. Len(update) \in Nat /\ DOMAIN update = 1..Len(update) /\ Len(update) <= MaxUpdates
  BY DEF Types
<1>2. DOMAIN update \subseteq Id
  BY <1>1, WebhookAssumption DEF Id
<1>3. \A i \in DOMAIN update : update[i] \in [user: User, command: Commands, at: Time]
  BY <1>1, ElementOfSeq DEF Types
<1>4. clock \in Int /\ Keep \in Int /\ Retention \in Int /\ \A i \in Id : recorded[i] \in Int
  BY WebhookAssumption DEF Types, Time
<1> QED BY <1>2, <1>3, <1>4

-----------------------------------------------------------------------------
(* Types, and how long a handler lasts.                                    *)

LEMMA ClockedInit == Init => Clocked
<1> SUFFICES ASSUME Init PROVE Clocked
  OBVIOUS
<1>1. \A d \in Delivery : delivery[d] = Idle
  BY DEF Init
<1>2. \A i \in Id : recorded[i] = 0
  BY DEF Init
<1>3. Types
  <2>1. 1 \in Time /\ 0 \in 0..MaxTime /\ 0 \in 0..MaxEdits /\ Len(<<>>) <= MaxUpdates
    BY WebhookAssumption DEF Time
  <2>2. <<>> \in Seq([user: User, command: Commands, at: Time])
    OBVIOUS
  <2> QED BY <2>1, <2>2, WebhookAssumption DEF Init, Types
<1>4. DOMAIN update = {}
  BY DEF Init
<1> QED BY <1>1, <1>2, <1>3, <1>4 DEF Clocked, Busy

LEMMA ClockedWrite ==
    ASSUME Clocked, NEW u \in User, NEW c \in Commands, Write(u, c)
    PROVE  Clocked'
<1> DEFINE n == Len(update) + 1
<1>0. Types /\ UNCHANGED <<clock, registered, config, server, delivery, recorded, preference,
                            history, edits>>
  BY DEF Clocked, Write
<1>1. /\ update' \in Seq([user: User, command: Commands, at: Time])
      /\ Len(update') = n /\ n \in Id /\ DOMAIN update' = 1..n /\ DOMAIN update = 1..(n - 1)
      /\ held' = held \cup {n}
      /\ update'[n] = [user |-> u, command |-> c, at |-> clock]
      /\ \A i \in DOMAIN update : i < n /\ update'[i] = update[i]
  BY <1>0, Written
<1>2. n \in DOMAIN update' /\ DOMAIN update \subseteq DOMAIN update' /\ n <= MaxUpdates
  BY <1>1, WebhookAssumption DEF Id
<1> HIDE DEF n
<1>3. Types'
  <2>1. gaveUp' \subseteq DOMAIN update' /\ dropped' \subseteq DOMAIN update'
        /\ held' \subseteq DOMAIN update'
    BY <1>0, <1>1, <1>2 DEF Types, history
  <2> QED BY <1>0, <1>1, <1>2, <2>1 DEF Types, server, history
<1>4. \A d \in Delivery : Busy(d)' => Timely(d)'
  BY <1>0, <1>1, <1>2 DEF Clocked, Busy, Timely
<1>5. \A i \in Id : recorded'[i] # 0 => i \in DOMAIN update' /\ update'[i].at <= recorded'[i]
  BY <1>0, <1>1, <1>2 DEF Clocked
<1>6. update'[n].at = clock /\ clock <= clock
  BY <1>0, <1>1, Dates
<1>7. ASSUME NEW i \in DOMAIN update'
      PROVE  update'[i].at <= clock'
  <2>1. CASE i = n
    BY <1>0, <1>6, <2>1
  <2>2. CASE i # n
    <3>1. i \in DOMAIN update
      BY <1>1, <2>2 DEF n
    <3> QED BY <1>0, <1>1, <3>1 DEF Clocked
  <2> QED BY <2>1, <2>2
<1> QED BY <1>3, <1>4, <1>5, <1>7 DEF Clocked

LEMMA ClockedDeliver ==
    ASSUME Clocked, NEW d \in Delivery, NEW i \in DOMAIN update, Deliver(d, i)
    PROVE  Clocked'
<1> DEFINE h == [at |-> "received", id |-> i, waited |-> TRUE, since |-> clock]
<1>0. Types /\ clock <= update[i].at + Keep /\ delivery' = [delivery EXCEPT ![d] = h] /\ up
  BY DEF Clocked, Deliver
<1>1. UNCHANGED <<clock, telegram, config, server, recorded, preference, history, edits>>
  BY DEF Deliver
<1>2. h \in Working /\ i \in Id
  BY <1>0, Dates DEF Working, Types
<1>3. Types'
  BY <1>0, <1>1, <1>2 DEF Types, telegram, server, history
<1>4. update[i].at <= clock
  BY DEF Clocked
<1>5. ASSUME NEW e \in Delivery, Busy(e)'
      PROVE  Timely(e)'
  <2>1. CASE e = d
    <3>1. delivery'[e].id = i /\ delivery'[e].since = clock
      BY <1>0, <2>1 DEF Types
    <3> QED BY <1>0, <1>1, <1>4, <3>1, Dates DEF Timely, telegram
  <2>2. CASE e # d
    <3>1. delivery'[e] = delivery[e]
      BY <1>0, <2>2 DEF Types
    <3> QED BY <1>1, <1>5, <3>1 DEF Clocked, Busy, Timely, telegram
  <2> QED BY <2>1, <2>2
<1> QED BY <1>1, <1>3, <1>5 DEF Clocked, telegram

LEMMA ClockedGiveUp ==
    ASSUME Clocked, NEW d \in Delivery, GiveUp(d)
    PROVE  Clocked'
<1> DEFINE h == [delivery[d] EXCEPT !.waited = FALSE]
<1>0. Types /\ Busy(d)
  BY DEF Clocked, GiveUp, Busy, Idle
<1>1. UNCHANGED <<clock, telegram, config, server, recorded, preference, ran, dropped, edits>>
  BY DEF GiveUp
<1>2. /\ h \in Working /\ h.id = delivery[d].id /\ h.since = delivery[d].since
      /\ delivery' = [delivery EXCEPT ![d] = h]
  BY <1>0, IdleOrWorking DEF Working, GiveUp, Types
<1> HIDE DEF h
<1>3. delivery[d].id \in DOMAIN update /\ up
  BY <1>0 DEF Clocked, Timely, Types, Busy
<1>4. Types'
  <2>1. gaveUp' \subseteq DOMAIN update'
    BY <1>0, <1>1, <1>3 DEF GiveUp, Types, telegram
  <2> QED BY <1>0, <1>1, <1>2, <1>3, <2>1 DEF Types, telegram, server
<1>5. ASSUME NEW e \in Delivery, Busy(e)'
      PROVE  Timely(e)'
  <2>1. delivery'[e].id = delivery[e].id /\ delivery'[e].since = delivery[e].since /\ Busy(e)
    BY <1>0, <1>2, <1>5 DEF Types, Busy
  <2> QED BY <1>1, <2>1 DEF Clocked, Timely, telegram
<1> QED BY <1>1, <1>4, <1>5 DEF Clocked, telegram

(* A step of a handler, whatever it does.                                  *)
LEMMA Serves ==
    ASSUME Clocked, NEW d \in Delivery, ServeHTTP(d)
    PROVE  /\ Busy(d) /\ up /\ delivery[d].id \in DOMAIN update /\ delivery[d].id \in Id
           /\ UNCHANGED <<clock, update, registered, config, server, gaveUp, edits>>
           /\ delivery' \in [Delivery -> Working \cup {Idle}]
           /\ \/ delivery'[d] = Idle
              \/ /\ delivery'[d].id = delivery[d].id /\ delivery'[d].since = delivery[d].since
                 /\ delivery'[d].waited = delivery[d].waited
           /\ \A e \in Delivery \ {d} : delivery'[e] = delivery[e]
           /\ held' \subseteq held /\ dropped' \subseteq dropped \cup {delivery[d].id}
<1>0. Types
  BY DEF Clocked
<1>1. Busy(d)
  BY DEF ServeHTTP, TakeOn, KnownAlready, RecordFails, Reply, ReplyFails, SendMessage, Busy, Idle
<1>2. up /\ delivery[d].id \in DOMAIN update /\ delivery[d].id \in Id
  BY <1>1, Dates DEF Clocked, Timely, Types, Busy
<1>3. UNCHANGED <<clock, update, registered, config, server, gaveUp, edits>>
  BY DEF ServeHTTP, TakeOn, KnownAlready, RecordFails, Reply, ReplyFails, SendMessage,
         handled, history
<1>4. held' \subseteq held /\ dropped' \subseteq dropped \cup {delivery[d].id}
  BY DEF ServeHTTP, TakeOn, KnownAlready, RecordFails, Reply, ReplyFails, SendMessage,
         handled, history, Answered, Refused
<1>5. \/ Goto(d, "command") \/ Goto(d, "send") \/ delivery' = [delivery EXCEPT ![d] = Idle]
  BY DEF ServeHTTP, TakeOn, KnownAlready, RecordFails, Reply, ReplyFails, SendMessage,
         Answered, Refused
<1> QED BY <1>0, <1>1, <1>2, <1>3, <1>4, <1>5, GoesTo, Ends

LEMMA ClockedServe ==
    ASSUME Clocked, NEW d \in Delivery, ServeHTTP(d)
    PROVE  Clocked'
<1> DEFINE i == delivery[d].id
<1>0. Types
  BY DEF Clocked
<1>1. /\ up /\ i \in DOMAIN update /\ i \in Id
      /\ UNCHANGED <<clock, update, registered, config, server, gaveUp, edits>>
      /\ delivery' \in [Delivery -> Working \cup {Idle}]
      /\ held' \subseteq held /\ dropped' \subseteq dropped \cup {i}
  BY Serves
<1>2. recorded' \in {recorded, [recorded EXCEPT ![i] = clock]}
  BY DEF ServeHTTP, TakeOn, KnownAlready, RecordFails, Reply, ReplyFails, SendMessage,
         RecordTelegramUpdate
<1>3. ran' \in [Id -> Nat]
  <2>1. ran' = ran \/ ran' = [ran EXCEPT ![i] = ran[i] + 1]
    BY DEF ServeHTTP, TakeOn, KnownAlready, RecordFails, Reply, ReplyFails, SendMessage, history
  <2> QED BY <1>0, <1>1, <2>1 DEF Types
<1>4. preference' \in [User -> BOOLEAN]
  <2>1. preference' = preference \/ SetAlertPreference(i)
    BY DEF ServeHTTP, TakeOn, KnownAlready, RecordFails, Reply, ReplyFails, SendMessage
  <2>2. (update[i].command = "/alerts_on") \in BOOLEAN
    OBVIOUS
  <2> QED BY <1>0, <2>1, <2>2 DEF Types, SetAlertPreference
<1>5. Types'
  <2>1. recorded' \in [Id -> 0..MaxTime]
    <3>1. clock \in 0..MaxTime
      BY <1>0, WebhookAssumption DEF Types, Time
    <3>2. recorded \in [Id -> 0..MaxTime] /\ i \in Id
      BY <1>0, <1>1 DEF Types
    <3> HIDE DEF i
    <3> QED BY <1>2, <3>1, <3>2
  <2> QED BY <1>0, <1>1, <1>3, <1>4, <2>1 DEF Types, server
<1>6. ASSUME NEW e \in Delivery, Busy(e)'
      PROVE  Timely(e)'
  <2>1. delivery'[e].id = delivery[e].id /\ delivery'[e].since = delivery[e].since /\ Busy(e)
    BY <1>6, Serves DEF Busy
  <2> QED BY <1>1, <2>1 DEF Clocked, Timely
<1>7. ASSUME NEW j \in Id, recorded'[j] # 0
      PROVE  j \in DOMAIN update' /\ update'[j].at <= recorded'[j]
  <2>1. recorded'[j] = recorded[j] \/ (j = i /\ recorded'[j] = clock)
    BY <1>0, <1>2 DEF Types
  <2> QED BY <1>1, <1>7, <2>1 DEF Clocked
<1>8. \A j \in DOMAIN update' : update'[j].at <= clock'
  BY <1>1 DEF Clocked
<1> QED BY <1>5, <1>6, <1>7, <1>8 DEF Clocked

LEMMA ClockedTick ==
    ASSUME Clocked, Tick
    PROVE  Clocked'
<1>0. /\ Types /\ clock' = clock + 1 /\ clock < MaxTime
      /\ UNCHANGED <<telegram, config, server, delivery, recorded, preference, history, edits>>
      /\ \A d \in Delivery : delivery[d] # Idle => delivery[d].since = clock
  BY DEF Clocked, Tick
<1>1. Types'
  <2>1. clock' \in Time
    BY <1>0, WebhookAssumption DEF Types, Time
  <2> QED BY <1>0, <2>1 DEF Types, telegram, server, history
<1>2. ASSUME NEW d \in Delivery, Busy(d)'
      PROVE  Timely(d)'
  <2>1. Timely(d) /\ delivery[d].since = clock
    BY <1>0, <1>2 DEF Clocked, Busy
  <2> QED BY <1>0, <2>1, Dates DEF Timely, telegram
<1>3. \A i \in DOMAIN update : update'[i].at <= clock'
  BY <1>0, Dates DEF Clocked, telegram, Time
<1> QED BY <1>0, <1>1, <1>2, <1>3 DEF Clocked, telegram

LEMMA ClockedDelete ==
    ASSUME Clocked, DeleteTelegramUpdatesBefore
    PROVE  Clocked'
<1>0. Types /\ UNCHANGED <<clock, telegram, config, server, delivery, preference, history, edits>>
  BY DEF Clocked, DeleteTelegramUpdatesBefore
<1>1. \A i \in Id : recorded'[i] = IF Past(i) THEN 0 ELSE recorded[i]
  BY DEF DeleteTelegramUpdatesBefore
<1>2. recorded' \in [Id -> 0..MaxTime]
  BY <1>0, WebhookAssumption DEF DeleteTelegramUpdatesBefore, Types
<1>3. Types'
  BY <1>0, <1>2 DEF Types, telegram, server, history
<1> QED BY <1>0, <1>1, <1>3 DEF Clocked, Busy, Timely, telegram

LEMMA ClockedCrash ==
    ASSUME Clocked, Crash
    PROVE  Clocked'
<1>0. /\ Types /\ delivery' = [d \in Delivery |-> Idle]
      /\ UNCHANGED <<clock, telegram, config, loaded, recorded, preference, ran, gaveUp, edits>>
  BY DEF Clocked, Crash
<1>1. dropped' \subseteq DOMAIN update
  <2>1. ASSUME NEW d \in Delivery, delivery[d].at = "command"
        PROVE  delivery[d].id \in DOMAIN update
    BY <1>0, <2>1, IdleOrWorking DEF Clocked, Timely
  <2> QED BY <1>0, <2>1 DEF Crash, Types
<1>2. Types'
  BY <1>0, <1>1 DEF Crash, Types, telegram
<1> QED BY <1>0, <1>2 DEF Clocked, Busy, telegram

(* The steps that touch neither the updates nor the handlers.              *)
Beside == \/ Restart \/ SetWebhook \/ DeleteWebhook
          \/ \E c \in Config : Reconfigure(c)
          \/ UNCHANGED vars
LEMMA ClockedBeside ==
    ASSUME Clocked, Beside
    PROVE  Clocked' /\ UNCHANGED <<clock, update, held, delivery, recorded, preference, history>>
<1>0. Types /\ UNCHANGED <<clock, update, held, delivery, recorded, preference, history>>
  BY DEF Clocked, Beside, Restart, SetWebhook, DeleteWebhook, Reconfigure, telegram, vars
<1>1. config' \in Config /\ loaded' \in Config /\ (up => up') /\ up' \in BOOLEAN
  BY <1>0 DEF Beside, Restart, SetWebhook, DeleteWebhook, Reconfigure, Types, server, vars
<1>2. edits' \in 0..MaxEdits
  BY <1>0, WebhookAssumption
  DEF Beside, Restart, SetWebhook, DeleteWebhook, Reconfigure, Types, vars
<1>3. registered' \in Secret \cup {NoSecret}
  BY <1>0
  DEF Beside, Restart, SetWebhook, DeleteWebhook, Reconfigure, Types, vars, telegram, Config
<1>4. Types'
  BY <1>0, <1>1, <1>2, <1>3 DEF Types, history
<1> QED BY <1>0, <1>4 DEF Clocked, Busy, Timely

LEMMA ClockedExpire ==
    ASSUME Clocked, NEW i \in DOMAIN update, Expire(i)
    PROVE  Clocked'
<1>0. Types /\ held' = held \ {i} /\ dropped' = dropped \cup {i}
  BY DEF Clocked, Expire
<1>1. UNCHANGED <<clock, update, registered, config, server, delivery, recorded, preference,
                  ran, gaveUp, edits>>
  BY DEF Expire
<1>2. Types'
  BY <1>0, <1>1 DEF Types, server
<1> QED BY <1>1, <1>2 DEF Clocked, Busy, Timely

LEMMA ClockedNext == Clocked /\ [Next]_vars => Clocked'
<1> SUFFICES ASSUME Clocked, [Next]_vars PROVE Clocked'
  OBVIOUS
<1>1. CASE \E u \in User, c \in Commands : Write(u, c)
  BY <1>1, ClockedWrite
<1>2. CASE \E d \in Delivery : GiveUp(d) \/ ServeHTTP(d)
  BY <1>2, ClockedGiveUp, ClockedServe
<1>3. CASE \E d \in Delivery, i \in DOMAIN update : Deliver(d, i)
  BY <1>3, ClockedDeliver
<1>4. CASE \E i \in DOMAIN update : Expire(i)
  BY <1>4, ClockedExpire
<1>5. CASE Tick \/ DeleteTelegramUpdatesBefore \/ Crash
  BY <1>5, ClockedTick, ClockedDelete, ClockedCrash
<1>6. CASE Beside
  BY <1>6, ClockedBeside
<1> QED BY <1>1, <1>2, <1>3, <1>4, <1>5, <1>6 DEF Next, Beside

-----------------------------------------------------------------------------
(* What is at work is on record.                                           *)

LEMMA LastingStays ==
    ASSUME Lasting, UNCHANGED recorded,
           \A d \in Delivery : AtWork(d)' =>
                AtWork(d) /\ delivery'[d].id = delivery[d].id /\ delivery'[d].since = delivery[d].since
    PROVE  Lasting'
  BY DEF Lasting

LEMMA LastingServe ==
    ASSUME Clocked, Lasting, NEW d \in Delivery, ServeHTTP(d)
    PROVE  Lasting'
<1> DEFINE i == delivery[d].id
<1>1. /\ Types /\ Busy(d) /\ i \in Id /\ recorded \in [Id -> 0..MaxTime]
      /\ \/ delivery'[d] = Idle
         \/ delivery'[d].id = i /\ delivery'[d].since = delivery[d].since
      /\ \A e \in Delivery \ {d} : delivery'[e] = delivery[e]
  BY Serves DEF Clocked, Types
<1>2. delivery[d].since <= clock
  BY <1>1 DEF Clocked, Timely
<1>3. recorded' = recorded \/ (recorded' = [recorded EXCEPT ![i] = clock])
  BY DEF ServeHTTP, TakeOn, KnownAlready, RecordFails, Reply, ReplyFails, SendMessage,
         RecordTelegramUpdate
<1>4. AtWork(d)' => AtWork(d) \/ recorded' = [recorded EXCEPT ![i] = clock]
  <2>1. CASE delivery' = [delivery EXCEPT ![d] = Idle]
    BY <1>1, <2>1, Ends DEF AtWork, Idle
  <2>2. CASE TakeOn(d)
    BY <2>2 DEF TakeOn, RecordTelegramUpdate
  <2>3. CASE Reply(d)
    BY <2>3 DEF Reply, AtWork
  <2> QED BY <2>1, <2>2, <2>3
      DEF ServeHTTP, KnownAlready, RecordFails, ReplyFails, SendMessage, Answered, Refused
<1> HIDE DEF i
<1>5. ASSUME NEW e \in Delivery, AtWork(e)'
      PROVE  recorded'[delivery'[e].id] >= delivery'[e].since
  <2>1. CASE e = d
    <3>1. delivery'[d].id = i /\ delivery'[d].since = delivery[d].since
      BY <1>1, <1>5, <2>1 DEF AtWork, Idle
    <3>2. recorded'[i] = clock \/ (recorded'[i] = recorded[i] /\ AtWork(d))
      BY <1>1, <1>3, <1>4, <1>5, <2>1
    <3> QED BY <1>2, <2>1, <3>1, <3>2 DEF Lasting, i
  <2>2. CASE e # d
    <3>1. /\ delivery'[e] = delivery[e] /\ AtWork(e) /\ Busy(e)
          /\ recorded[delivery[e].id] >= delivery[e].since
      BY <1>1, <1>5, <2>2 DEF AtWork, Lasting, Busy, Idle
    <3>2. delivery[e].since <= clock /\ delivery[e].id \in Id
      BY <1>1, <3>1, Dates DEF Clocked, Timely
    <3>3. recorded'[delivery[e].id] \in {recorded[delivery[e].id], clock}
      BY <1>1, <1>3, <3>2
    <3> QED BY <3>1, <3>2, <3>3
  <2> QED BY <2>1, <2>2
<1> QED BY <1>5 DEF Lasting

LEMMA LastingNext == Clocked /\ Lasting /\ [Next]_vars => Lasting'
<1> SUFFICES ASSUME Clocked, Lasting, [Next]_vars PROVE Lasting'
  OBVIOUS
<1>0. Types
  BY DEF Clocked
<1>1. CASE \/ \E u \in User, c \in Commands : Write(u, c)
           \/ \E i \in DOMAIN update : Expire(i)
           \/ Tick \/ Beside
  <2>1. UNCHANGED <<delivery, recorded>>
    BY <1>1, ClockedBeside DEF Write, Expire, Tick
  <2> QED BY <2>1, LastingStays DEF AtWork
<1>2. ASSUME NEW d \in Delivery, GiveUp(d)
      PROVE  Lasting'
  <2>1. delivery[d] \in Working
    BY <1>0, <1>2, IdleOrWorking DEF GiveUp
  <2>2. delivery' = [delivery EXCEPT ![d] = [delivery[d] EXCEPT !.waited = FALSE]]
        /\ UNCHANGED recorded
    BY <1>0, <1>2 DEF GiveUp, Types
  <2>3. \A e \in Delivery : /\ delivery'[e].at = delivery[e].at /\ delivery'[e].id = delivery[e].id
                            /\ delivery'[e].since = delivery[e].since
    BY <1>0, <2>1, <2>2 DEF Types, Working
  <2> QED BY <2>2, <2>3, LastingStays DEF AtWork
<1>3. ASSUME NEW d \in Delivery, ServeHTTP(d)
      PROVE  Lasting'
  BY <1>3, LastingServe
<1>4. ASSUME NEW d \in Delivery, NEW i \in DOMAIN update, Deliver(d, i)
      PROVE  Lasting'
  <2>1. /\ delivery'[d].at = "received" /\ UNCHANGED recorded
        /\ \A e \in Delivery \ {d} : delivery'[e] = delivery[e]
    BY <1>0, <1>4 DEF Deliver, Types
  <2> QED BY <2>1, LastingStays DEF AtWork
<1>5. CASE Crash
  <2>1. UNCHANGED recorded /\ \A d \in Delivery : delivery'[d].at = "idle"
    BY <1>5 DEF Crash, Idle
  <2> QED BY <2>1, LastingStays DEF AtWork
<1>6. CASE DeleteTelegramUpdatesBefore
  <2>1. /\ UNCHANGED delivery
        /\ \A i \in Id : recorded'[i] = IF Past(i) THEN 0 ELSE recorded[i]
    BY <1>6 DEF DeleteTelegramUpdatesBefore
  <2>2. ASSUME NEW d \in Delivery, AtWork(d)
        PROVE  recorded'[delivery[d].id] >= delivery[d].since
    <3>1. Busy(d) /\ recorded[delivery[d].id] >= delivery[d].since
      BY <2>2 DEF AtWork, Busy, Idle, Lasting
    <3>2. /\ Timely(d) /\ delivery[d].since \in Int
          /\ delivery[d].id \in Id /\ recorded[delivery[d].id] \in Int
      BY <1>0, <3>1, IdleOrWorking, Dates DEF Clocked, Working, Time
    <3>3. ~Past(delivery[d].id)
      BY <1>0, <3>1, <3>2, Dates, WebhookAssumption DEF Past, Timely
    <3> QED BY <2>1, <3>1, <3>2, <3>3
  <2> QED BY <2>1, <2>2 DEF Lasting, AtWork
<1> QED BY <1>1, <1>2, <1>3, <1>4, <1>5, <1>6 DEF Next, Beside

(* Every variable keeps its type, no handler outlives the process, and no  *)
(* command is carried out or answered whose update is not on record.       *)
THEOREM TypeCorrect == Spec => []TypeOK
<1>1. Init => Lasting
  BY DEF Init, Lasting, AtWork, Idle
<1>2. ASSUME Clocked, Lasting, NEW d \in Delivery, AtWork(d)
      PROVE  recorded[delivery[d].id] # 0
  <2>1. Busy(d) /\ Types
    BY <1>2 DEF AtWork, Busy, Idle, Clocked
  <2>2. delivery[d].since \in Time /\ recorded[delivery[d].id] >= delivery[d].since
    BY <1>2, <2>1, IdleOrWorking DEF Lasting, Working
  <2> QED BY <2>2 DEF Time
<1>3. Clocked /\ Lasting => TypeOK
  BY <1>2 DEF Clocked, TypeOK, AtWork
<1> QED BY <1>1, <1>3, ClockedInit, ClockedNext, LastingNext, PTL DEF Spec

-----------------------------------------------------------------------------
(* At most once.                                                           *)

LEMMA OnTime ==
    ASSUME Clocked, NEW d \in Delivery, Busy(d)
    PROVE  ~Late(delivery[d].id)
<1>1. Timely(d) /\ delivery[d] \in Working /\ Types
  BY IdleOrWorking DEF Clocked
<1>2. /\ delivery[d].since \in Int /\ update[delivery[d].id].at \in Int
      /\ Keep \in Int /\ clock \in Int
  BY <1>1, Dates DEF Working, Timely, Time
<1> QED BY <1>1, <1>2 DEF Timely, Late

LEMMA OnceInit == Init => Once
<1> SUFFICES ASSUME Init PROVE Once
  OBVIOUS
<1>1. \A d \in Delivery, i \in Id : ~CommandOf(d, i)
  BY DEF Init, CommandOf, Idle
<1>2. \A i \in Id : ran[i] = 0
  BY DEF Init
<1> QED BY <1>1, <1>2 DEF Once, Commanded

(* No handler takes on or carries out a command.                           *)
LEMMA OnceStays ==
    ASSUME Once, UNCHANGED ran,
           \A d \in Delivery, i \in Id : CommandOf(d, i)' => CommandOf(d, i),
           \A i \in DOMAIN update : /\ i \in DOMAIN update'
                                    /\ recorded[i] # 0 \/ Late(i) => (recorded[i] # 0 \/ Late(i))'
    PROVE  Once'
<1>1. \A i \in Id : Commanded(i)' => Commanded(i)
  BY DEF Commanded
<1> QED BY <1>1 DEF Once

LEMMA OnceServe ==
    ASSUME Clocked, Once, NEW d \in Delivery, ServeHTTP(d)
    PROVE  Once'
<1> DEFINE i == delivery[d].id
<1>1. /\ Busy(d) /\ i \in DOMAIN update /\ i \in Id /\ UNCHANGED <<clock, update>>
      /\ \/ delivery'[d] = Idle
         \/ delivery'[d].id = i
      /\ \A e \in Delivery \ {d} : delivery'[e] = delivery[e]
  BY Serves
<1>2. Types /\ ~Late(i)
  BY <1>1, OnTime DEF Clocked
<1>3. \A j \in Id : UNCHANGED Late(j)
  BY <1>1 DEF Late
<1>4. CASE delivery'[d] = Idle
  <2>1. UNCHANGED ran
    <3>1. ~Reply(d)
      BY <1>1, <1>2, <1>4, GoesTo DEF Reply, Idle
    <3> QED BY <3>1 DEF ServeHTTP, TakeOn, KnownAlready, RecordFails, ReplyFails, SendMessage, history
  <2>2. \A e \in Delivery, j \in Id : CommandOf(e, j)' => CommandOf(e, j)
    BY <1>1, <1>4 DEF CommandOf, Idle
  <2>3. \A j \in DOMAIN update : recorded[j] # 0 => recorded'[j] # 0
    <3>1. recorded' = recorded \/ (recorded' = [recorded EXCEPT ![i] = clock] /\ clock # 0)
      BY <1>2
      DEF ServeHTTP, TakeOn, KnownAlready, RecordFails, Reply, ReplyFails, SendMessage,
          RecordTelegramUpdate, Types, Time
    <3>2. DOMAIN update \subseteq Id /\ recorded \in [Id -> 0..MaxTime]
      BY <1>2, Dates DEF Types
    <3> HIDE DEF i
    <3> QED BY <3>1, <3>2
  <2> QED BY <1>1, <1>3, <2>1, <2>2, <2>3, OnceStays, Dates DEF Clocked
<1>5. CASE TakeOn(d) /\ Goto(d, "command")
  <2>1. /\ recorded[i] = 0 /\ recorded' = [recorded EXCEPT ![i] = clock] /\ UNCHANGED ran
    BY <1>5 DEF TakeOn, RecordTelegramUpdate
  <2>2. /\ delivery'[d].at = "command" /\ delivery'[d].id = i
    BY <1>1, <1>2, <1>5, GoesTo
  <2>3. ran[i] = 0 /\ ~Commanded(i)
    BY <1>1, <1>2, <2>1 DEF Once
  <2>4. /\ recorded'[i] # 0
        /\ \A j \in Id : j # i => recorded'[j] = recorded[j]
    BY <1>1, <1>2, <2>1 DEF Types, Time
  <2> HIDE DEF i
  <2>5. \A e \in Delivery, j \in Id : CommandOf(e, j)' <=> (CommandOf(e, j) \/ (e = d /\ j = i))
    <3>1. delivery[d].at = "received" /\ delivery[d].id = i
      BY <1>5 DEF TakeOn, i
    <3> QED BY <1>1, <2>2, <3>1 DEF CommandOf
  <2>6. \A j \in Id : Commanded(j)' <=> (Commanded(j) \/ j = i)
    BY <2>5 DEF Commanded
  <2>7. \A j \in Id : ran'[j] # 0 \/ Commanded(j)' =>
            j \in DOMAIN update' /\ (recorded'[j] # 0 \/ Late(j)')
    BY <1>1, <1>3, <2>1, <2>4, <2>6 DEF Once
  <2>8. \A j \in Id : ran'[j] <= 1 /\ (Commanded(j)' => ran'[j] = 0)
    BY <2>1, <2>3, <2>6 DEF Once
  <2>9. \A e, f \in Delivery : \A j \in Id : CommandOf(e, j)' /\ CommandOf(f, j)' => e = f
    BY <2>3, <2>5 DEF Once, Commanded
  <2> QED BY <2>7, <2>8, <2>9 DEF Once
<1>6. CASE Reply(d)
  <2>1. CommandOf(d, i) /\ UNCHANGED recorded /\ ran' = [ran EXCEPT ![i] = ran[i] + 1]
    BY <1>6 DEF Reply, CommandOf, handled
  <2>2. delivery'[d].at = "send"
    BY <1>1, <1>2, <1>6, GoesTo DEF Reply
  <2>3. Commanded(i) /\ ran[i] = 0
    BY <1>1, <2>1 DEF Once, Commanded
  <2>4. ran'[i] = 1 /\ \A j \in Id : j # i => ran'[j] = ran[j]
    BY <1>1, <1>2, <2>1, <2>3 DEF Types
  <2> HIDE DEF i
  <2>5. \A e \in Delivery, j \in Id : CommandOf(e, j)' => CommandOf(e, j) /\ e # d
    BY <1>1, <2>2 DEF CommandOf
  <2>6. \A j \in Id : Commanded(j)' => Commanded(j) /\ j # i
    <3>1. ASSUME NEW j \in Id, NEW e \in Delivery, CommandOf(e, j)'
          PROVE  Commanded(j) /\ j # i
      BY <2>1, <2>5, <3>1 DEF Once, Commanded
    <3> QED BY <3>1 DEF Commanded
  <2>7. \A j \in Id : ran'[j] # 0 \/ Commanded(j)' =>
            j \in DOMAIN update' /\ (recorded'[j] # 0 \/ Late(j)')
    BY <1>1, <1>3, <2>1, <2>3, <2>4, <2>6 DEF Once
  <2>8. \A j \in Id : ran'[j] <= 1 /\ (Commanded(j)' => ran'[j] = 0)
    <3>1. ASSUME NEW j \in Id
          PROVE  ran'[j] <= 1 /\ (j # i => ran'[j] = ran[j])
      BY <2>4 DEF Once
    <3> QED BY <2>6, <3>1 DEF Once
  <2>9. \A e, f \in Delivery : \A j \in Id : CommandOf(e, j)' /\ CommandOf(f, j)' => e = f
    BY <2>5 DEF Once
  <2> QED BY <2>7, <2>8, <2>9 DEF Once
<1> QED
  <2>1. delivery'[d] = Idle \/ (TakeOn(d) /\ Goto(d, "command")) \/ Reply(d)
    BY <1>2, Ends
    DEF ServeHTTP, TakeOn, KnownAlready, RecordFails, ReplyFails, SendMessage, Answered, Refused
  <2> QED BY <1>4, <1>5, <1>6, <2>1

LEMMA OnceNext == Clocked /\ Once /\ [Next]_vars => Once'
<1> SUFFICES ASSUME Clocked, Once, [Next]_vars PROVE Once'
  OBVIOUS
<1>0. Types
  BY DEF Clocked
<1>1. ASSUME NEW u \in User, NEW c \in Commands, Write(u, c)
      PROVE  Once'
  <2>1. \A i \in DOMAIN update : i \in DOMAIN update' /\ update'[i] = update[i]
    <3> DEFINE n == Len(update) + 1
    <3>1. /\ n \in Id /\ DOMAIN update' = 1..n /\ DOMAIN update = 1..(n - 1)
          /\ \A i \in DOMAIN update : i < n /\ update'[i] = update[i]
      BY <1>0, <1>1, Written
    <3> HIDE DEF n
    <3> QED BY <3>1 DEF Id
  <2>2. UNCHANGED <<clock, delivery, recorded, ran>>
    BY <1>1 DEF Write, history
  <2> QED BY <2>1, <2>2, OnceStays DEF CommandOf, Late
<1>2. ASSUME NEW d \in Delivery, GiveUp(d)
      PROVE  Once'
  <2>1. \A e \in Delivery : delivery'[e].at = delivery[e].at /\ delivery'[e].id = delivery[e].id
    <3>1. delivery[d] \in Working
      BY <1>0, <1>2, IdleOrWorking DEF GiveUp
    <3>2. delivery' = [delivery EXCEPT ![d] = [delivery[d] EXCEPT !.waited = FALSE]]
      BY <1>0, <1>2 DEF GiveUp, Types
    <3> QED BY <1>0, <3>1, <3>2 DEF Types, Working
  <2>2. UNCHANGED <<clock, update, recorded, ran>>
    BY <1>2 DEF GiveUp, telegram
  <2> QED BY <2>1, <2>2, OnceStays DEF CommandOf, Late
<1>3. ASSUME NEW d \in Delivery, ServeHTTP(d)
      PROVE  Once'
  BY <1>3, OnceServe
<1>4. ASSUME NEW d \in Delivery, NEW i \in DOMAIN update, Deliver(d, i)
      PROVE  Once'
  <2>1. \A e \in Delivery, j \in Id : CommandOf(e, j)' => CommandOf(e, j)
    BY <1>0, <1>4 DEF Deliver, CommandOf, Types
  <2>2. UNCHANGED <<clock, update, recorded, ran>>
    BY <1>4 DEF Deliver, telegram, history
  <2> QED BY <2>1, <2>2, OnceStays DEF Late
<1>5. CASE (\E i \in DOMAIN update : Expire(i)) \/ Beside
  <2>1. UNCHANGED <<clock, update, delivery, recorded, ran>>
    BY <1>5, ClockedBeside DEF Expire, history
  <2> QED BY <2>1, OnceStays DEF CommandOf, Late
<1>6. CASE Tick
  <2>1. clock' = clock + 1 /\ UNCHANGED <<update, delivery, recorded, ran>>
    BY <1>6 DEF Tick, telegram, history
  <2>2. \A i \in DOMAIN update : Late(i) => Late(i)'
    BY <1>0, <2>1, Dates DEF Late, Time
  <2> QED BY <2>1, <2>2, OnceStays DEF CommandOf
<1>7. CASE DeleteTelegramUpdatesBefore
  <2>1. /\ UNCHANGED <<clock, update, delivery, ran>>
        /\ \A i \in Id : recorded'[i] = IF Past(i) THEN 0 ELSE recorded[i]
    BY <1>7 DEF DeleteTelegramUpdatesBefore, telegram, history
  <2>2. ASSUME NEW i \in DOMAIN update, Past(i)
        PROVE  Late(i)
    <3>1. /\ update[i].at <= recorded[i] /\ recorded[i] < clock - Retention
          /\ update[i].at \in Int /\ recorded[i] \in Int
      BY <1>0, <2>2, Dates DEF Clocked, Past, Time
    <3> QED BY <1>0, <3>1, Dates, WebhookAssumption DEF Late
  <2>3. \A i \in DOMAIN update : i \in Id
    BY <1>0, Dates
  <2> QED BY <2>1, <2>2, <2>3, OnceStays DEF CommandOf, Late
<1>8. CASE Crash
  <2>1. UNCHANGED <<clock, update, recorded, ran>> /\ \A d \in Delivery : delivery'[d].at = "idle"
    BY <1>8 DEF Crash, telegram, Idle
  <2> QED BY <2>1, OnceStays DEF CommandOf, Late
<1> QED BY <1>1, <1>2, <1>3, <1>4, <1>5, <1>6, <1>7, <1>8 DEF Next, Beside

(* However often Telegram delivers a command, the server restarts and the  *)
(* ids are cleaned up, it is carried out at most once.                     *)
THEOREM AtMostOnce == Spec => []CommandAtMostOnce
<1>1. Init => Clocked /\ Once
  BY ClockedInit, OnceInit
<1>2. Clocked /\ Once /\ [Next]_vars => (Clocked /\ Once)'
  BY ClockedNext, OnceNext
<1>3. Clocked /\ Once => CommandAtMostOnce
  BY DEF Once, CommandAtMostOnce
<1> QED BY <1>1, <1>2, <1>3, PTL DEF Spec

-----------------------------------------------------------------------------
(* Nothing is lost.                                                        *)

LEMMA DealtInit == Init => Dealt
<1> SUFFICES ASSUME Init PROVE Dealt
  OBVIOUS
<1>1. DOMAIN update = {} /\ \A d \in Delivery : delivery[d].at = "idle"
  BY DEF Init, Idle
<1> QED BY <1>1 DEF Dealt

(* No command is carried out.                                              *)
LEMMA DealtStays ==
    ASSUME Dealt, UNCHANGED ran,
           \A d \in Delivery : delivery'[d].at = "send" =>
                delivery[d].at = "send" /\ delivery'[d].id = delivery[d].id,
           \A i \in DOMAIN update' :
                /\ i \in DOMAIN update /\ Done(i) => Done(i)'
                /\ recorded'[i] # 0 \/ i \notin held' =>
                     i \in DOMAIN update /\ (recorded[i] # 0 \/ i \notin held \/ Done(i)')
    PROVE  Dealt'
<1>1. \A d \in Delivery : delivery'[d].at = "send" => ran'[delivery'[d].id] = 1
  BY DEF Dealt
<1>2. ASSUME NEW i \in DOMAIN update', recorded'[i] # 0 \/ i \notin held'
      PROVE  Done(i)'
  BY <1>2 DEF Dealt
<1> QED BY <1>1, <1>2 DEF Dealt

LEMMA DealtServe ==
    ASSUME Clocked, Once, Dealt, NEW d \in Delivery, ServeHTTP(d)
    PROVE  Dealt'
<1> DEFINE i == delivery[d].id
<1>0. Types
  BY DEF Clocked
<1>1. /\ Busy(d) /\ i \in DOMAIN update /\ i \in Id /\ UNCHANGED <<clock, update, gaveUp>>
      /\ \A e \in Delivery \ {d} : delivery'[e] = delivery[e]
  BY Serves
<1>2. DOMAIN update \subseteq Id /\ recorded \in [Id -> 0..MaxTime] /\ ran \in [Id -> Nat]
  BY <1>0, Dates DEF Types
<1>3. CASE TakeOn(d) /\ Goto(d, "command")
  <2>1. /\ recorded' = [recorded EXCEPT ![i] = clock] /\ delivery[d].at = "received"
        /\ UNCHANGED <<ran, held, dropped>>
    <3>1. delivery' # [delivery EXCEPT ![d] = Idle]
      BY <1>0, <1>1, <1>3, GoesTo, Ends DEF Idle
    <3> QED BY <1>3, <3>1 DEF TakeOn, RecordTelegramUpdate, Answered
  <2>2. delivery'[d].at = "command" /\ delivery'[d].id = i
    BY <1>0, <1>1, <1>3, GoesTo
  <2>3. \A j \in Id : Commanded(j) => Commanded(j)'
    BY <1>1, <2>1 DEF Commanded, CommandOf
  <2> HIDE DEF i
  <2>4. \A j \in DOMAIN update : Done(j) => Done(j)'
    BY <1>2, <2>1, <2>3 DEF Done
  <2>5. \A j \in DOMAIN update : j = i \/ recorded'[j] = recorded[j]
    BY <1>2, <2>1
  <2>6. \A j \in DOMAIN update : recorded'[j] # 0 \/ j \notin held' =>
            recorded[j] # 0 \/ j \notin held \/ Done(j)'
    <3>1. \A j : j = i => Done(j)'
      BY <2>2 DEF Done, Commanded, CommandOf
    <3> QED BY <2>1, <2>5, <3>1
  <2>7. \A e \in Delivery : delivery'[e].at = "send" =>
            delivery[e].at = "send" /\ delivery'[e].id = delivery[e].id
    BY <1>1, <2>2
  <2> QED BY <1>1, <2>1, <2>4, <2>6, <2>7, DealtStays
<1>4. CASE Reply(d)
  <2>1. /\ ran' = [ran EXCEPT ![i] = ran[i] + 1] /\ CommandOf(d, i)
        /\ UNCHANGED <<recorded, held, dropped>>
    BY <1>4 DEF Reply, CommandOf, handled
  <2>2. delivery'[d].at = "send" /\ delivery'[d].id = i
    BY <1>0, <1>1, <1>4, GoesTo DEF Reply
  <2>3. ran[i] = 0
    BY <1>1, <2>1 DEF Once, Commanded
  <2>4. ran'[i] = 1 /\ \A j \in Id : j # i => ran'[j] = ran[j]
    BY <1>1, <1>2, <2>1, <2>3
  <2> HIDE DEF i
  <2>5. \A j \in Id : j # i /\ Commanded(j) => Commanded(j)'
    BY <1>1, <2>1 DEF Commanded, CommandOf
  <2>6. \A j \in DOMAIN update : Done(j) => Done(j)'
    BY <1>2, <2>1, <2>4, <2>5 DEF Done
  <2>7. ASSUME NEW e \in Delivery, delivery'[e].at = "send"
        PROVE  ran'[delivery'[e].id] = 1
    <3>1. CASE e = d
      BY <2>2, <2>4, <3>1
    <3>2. CASE e # d
      <4>1. delivery'[e] = delivery[e] /\ ran[delivery[e].id] = 1 /\ delivery[e].id \in Id
        BY <1>0, <1>1, <2>7, <3>2, IdleOrWorking DEF Dealt, Working
      <4> QED BY <2>3, <2>4, <4>1
    <3> QED BY <3>1, <3>2
  <2> QED BY <1>1, <2>1, <2>6, <2>7 DEF Dealt
<1>5. CASE delivery' = [delivery EXCEPT ![d] = Idle] /\ ~Reply(d)
  <2>1. delivery'[d].at = "idle" /\ \A j \in Id : ~CommandOf(d, j) /\ Commanded(j) => Commanded(j)'
    <3>1. delivery'[d].at = "idle"
      BY <1>0, <1>5, Ends DEF Idle
    <3> QED BY <1>1, <3>1 DEF Commanded, CommandOf
  <2>2. /\ UNCHANGED ran /\ held' \in {held, held \ {i}}
        /\ dropped \subseteq dropped'
        /\ delivery[d].at = "command" => i \in dropped'
        /\ i \in held' \/ i \notin held \/ recorded[i] # 0 \/ delivery[d].at = "send" \/ i \in dropped'
        /\ \/ UNCHANGED recorded
           \/ recorded' = [recorded EXCEPT ![i] = clock] /\ i \in dropped'
    <3>1. ~Goto(d, "command") \/ delivery[d].at # "received"
      BY <1>0, <1>1, <1>5, GoesTo, Ends DEF Idle
    <3> QED BY <1>5, <3>1
        DEF ServeHTTP, TakeOn, KnownAlready, RecordFails, ReplyFails, SendMessage, Answered,
            Refused, RecordTelegramUpdate, history, handled
  <2>3. delivery[d].at = "send" => ran[i] = 1
    BY DEF Dealt
  <2> HIDE DEF i
  <2>4. \A j \in DOMAIN update : Done(j) => Done(j)'
    <3>1. \A j \in Id : CommandOf(d, j) => j \in dropped'
      BY <2>2 DEF CommandOf, i
    <3> QED BY <1>2, <2>1, <2>2, <3>1 DEF Done
  <2>5. ASSUME NEW j \in DOMAIN update, recorded'[j] # 0 \/ j \notin held'
        PROVE  recorded[j] # 0 \/ j \notin held \/ Done(j)'
    <3>1. CASE j = i
      BY <2>2, <2>3, <2>5, <3>1 DEF Done
    <3>2. CASE j # i
      BY <1>2, <2>2, <2>5, <3>2
    <3> QED BY <3>1, <3>2
  <2>6. \A e \in Delivery : delivery'[e].at = "send" =>
            delivery[e].at = "send" /\ delivery'[e].id = delivery[e].id
    BY <1>1, <2>1
  <2> QED BY <1>1, <2>2, <2>4, <2>5, <2>6, DealtStays
<1> QED
  <2>1. \/ delivery' = [delivery EXCEPT ![d] = Idle] \/ Reply(d)
        \/ (TakeOn(d) /\ Goto(d, "command"))
    BY DEF ServeHTTP, TakeOn, KnownAlready, RecordFails, ReplyFails, SendMessage, Answered, Refused
  <2> QED BY <1>3, <1>4, <1>5, <2>1

LEMMA DealtNext == Clocked /\ Once /\ Dealt /\ [Next]_vars => Dealt'
<1> SUFFICES ASSUME Clocked, Once, Dealt, [Next]_vars PROVE Dealt'
  OBVIOUS
<1>0. Types
  BY DEF Clocked
<1>1. ASSUME NEW u \in User, NEW c \in Commands, Write(u, c)
      PROVE  Dealt'
  <2> DEFINE n == Len(update) + 1
  <2>1. /\ n \in Id /\ DOMAIN update' = 1..n /\ DOMAIN update = 1..(n - 1)
        /\ n \notin DOMAIN update /\ held' = held \cup {n}
    BY <1>0, <1>1, Written
  <2>2. UNCHANGED <<delivery, recorded, ran, dropped>>
    BY <1>1 DEF Write, history
  <2> HIDE DEF n
  <2>3. recorded[n] = 0
    BY <2>1 DEF Clocked
  <2>4. \A i \in DOMAIN update' : i = n \/ i \in DOMAIN update
    BY <2>1 DEF Id
  <2>5. \A i \in DOMAIN update' : Done(i) => Done(i)'
    BY <2>2 DEF Done, Commanded, CommandOf
  <2>6. \A i \in DOMAIN update' : recorded'[i] # 0 \/ i \notin held' =>
            i \in DOMAIN update /\ (recorded[i] # 0 \/ i \notin held)
    BY <2>1, <2>2, <2>3, <2>4
  <2>7. \A d \in Delivery : delivery'[d] = delivery[d]
    BY <2>2
  <2> QED BY <2>2, <2>5, <2>6, <2>7, DealtStays
<1>2. ASSUME NEW d \in Delivery, GiveUp(d)
      PROVE  Dealt'
  <2>1. \A e \in Delivery : delivery'[e].at = delivery[e].at /\ delivery'[e].id = delivery[e].id
    <3>1. delivery[d] \in Working
      BY <1>0, <1>2, IdleOrWorking DEF GiveUp
    <3>2. delivery' = [delivery EXCEPT ![d] = [delivery[d] EXCEPT !.waited = FALSE]]
      BY <1>0, <1>2 DEF GiveUp, Types
    <3> QED BY <1>0, <3>1, <3>2 DEF Types, Working
  <2>2. UNCHANGED <<update, held, recorded, ran, dropped>>
    BY <1>2 DEF GiveUp, telegram
  <2>3. \A i \in DOMAIN update : Done(i) => Done(i)'
    BY <2>1, <2>2 DEF Done, Commanded, CommandOf
  <2> QED BY <2>1, <2>2, <2>3, DealtStays
<1>3. ASSUME NEW d \in Delivery, ServeHTTP(d)
      PROVE  Dealt'
  BY <1>3, DealtServe
<1>4. ASSUME NEW d \in Delivery, NEW i \in DOMAIN update, Deliver(d, i)
      PROVE  Dealt'
  <2>1. /\ delivery'[d].at = "received" /\ delivery[d].at = "idle"
        /\ \A e \in Delivery \ {d} : delivery'[e] = delivery[e]
    BY <1>0, <1>4 DEF Deliver, Types, Idle
  <2>2. UNCHANGED <<update, held, recorded, ran, dropped>>
    BY <1>4 DEF Deliver, telegram, history
  <2>3. \A j \in DOMAIN update : Done(j) => Done(j)'
    BY <2>1, <2>2 DEF Done, Commanded, CommandOf
  <2> QED BY <2>1, <2>2, <2>3, DealtStays
<1>5. ASSUME NEW i \in DOMAIN update, Expire(i)
      PROVE  Dealt'
  <2>1. /\ held' = held \ {i} /\ dropped' = dropped \cup {i}
        /\ UNCHANGED <<update, delivery, recorded, ran>>
    BY <1>5 DEF Expire
  <2>2. \A j \in DOMAIN update : Done(j) => Done(j)'
    BY <2>1 DEF Done, Commanded, CommandOf
  <2> QED BY <2>1, <2>2, DealtStays DEF Done
<1>6. CASE Tick \/ DeleteTelegramUpdatesBefore \/ Beside
  <2>1. UNCHANGED <<update, held, delivery, ran, dropped>>
    BY <1>6, ClockedBeside DEF Tick, DeleteTelegramUpdatesBefore, telegram, history
  <2>2. \A i \in Id : recorded'[i] # 0 => recorded[i] # 0
    BY <1>6, ClockedBeside DEF Tick, DeleteTelegramUpdatesBefore
  <2>3. DOMAIN update \subseteq Id
    BY <1>0, Dates
  <2>4. \A j \in DOMAIN update : Done(j) => Done(j)'
    BY <2>1 DEF Done, Commanded, CommandOf
  <2> QED BY <2>1, <2>2, <2>3, <2>4, DealtStays
<1>7. CASE Crash
  <2>1. /\ UNCHANGED <<update, held, recorded, ran>> /\ \A d \in Delivery : delivery'[d].at = "idle"
        /\ dropped \subseteq dropped'
    BY <1>7 DEF Crash, telegram, Idle
  <2>2. ASSUME NEW j, Commanded(j)
        PROVE  j \in dropped'
    BY <1>7, <2>2 DEF Crash, Commanded, CommandOf
  <2>3. \A j \in DOMAIN update : Done(j) => Done(j)'
    BY <2>1, <2>2 DEF Done
  <2> QED BY <2>1, <2>3, DealtStays
<1> QED BY <1>1, <1>2, <1>3, <1>4, <1>5, <1>6, <1>7 DEF Next, Beside

(* An update that has left Telegram was carried out, is being carried out, *)
(* or was dropped for a reason.                                            *)
THEOREM NothingLost == Spec => []NothingLostUnnoticed
<1>1. Init => Clocked /\ Once /\ Dealt
  BY ClockedInit, OnceInit, DealtInit
<1>2. Clocked /\ Once /\ Dealt /\ [Next]_vars => (Clocked /\ Once /\ Dealt)'
  BY ClockedNext, OnceNext, DealtNext
<1>3. Clocked /\ Once /\ Dealt => NothingLostUnnoticed
  BY DEF Dealt, Done, Commanded, CommandOf, NothingLostUnnoticed
<1> QED BY <1>1, <1>2, <1>3, PTL DEF Spec

-----------------------------------------------------------------------------
(* The updates of a chat, one after the other.                             *)

LEMMA InTurnInit == Init => InTurn
<1> SUFFICES ASSUME Init PROVE InTurn
  OBVIOUS
<1>1. held = {} /\ \A d \in Delivery : ~Busy(d) /\ ~delivery[d].waited
  BY DEF Init, Busy, Idle
<1> QED BY <1>1 DEF InTurn

(* No handler begins, and nobody changes what it waits for.                *)
LEMMA InTurnStays ==
    ASSUME Clocked, InTurn, UNCHANGED update, held' \subseteq held, gaveUp \subseteq gaveUp',
           \A d \in Delivery :
             \/ delivery'[d] = Idle
             \/ /\ Busy(d) /\ delivery'[d].id = delivery[d].id
                /\ delivery'[d].waited = delivery[d].waited,
           \A d \in Delivery : Busy(d)' /\ delivery'[d].waited => delivery'[d].id \in held',
           \A i \in DOMAIN update : ran'[i] = ran[i] \/ ~Untouched(i)
    PROVE  InTurn'
<1>1. ASSUME NEW d \in Delivery, Busy(d)'
      PROVE  /\ Busy(d) /\ delivery'[d].id = delivery[d].id
             /\ delivery'[d].waited = delivery[d].waited
  BY <1>1 DEF Busy
<1>2. \A d \in Delivery : Busy(d)' => WaitedFor(d)'
  BY <1>1 DEF InTurn, WaitedFor
<1>3. \A d, e \in Delivery :
        delivery'[d].waited /\ delivery'[e].waited /\ delivery'[d].id = delivery'[e].id => d = e
  BY <1>1 DEF InTurn, Busy, Idle
<1>4. ASSUME NEW k \in held', NEW i \in DOMAIN update, k < i, update[k].user = update[i].user
      PROVE  Untouched(i)'
  <2>1. Untouched(i)
    BY <1>4 DEF InTurn
  <2>2. i # 0
    BY Dates DEF Clocked, Id
  <2> QED BY <2>1, <2>2 DEF Untouched, Idle
<1> QED BY <1>2, <1>3, <1>4 DEF InTurn

LEMMA InTurnServe ==
    ASSUME Clocked, InTurn, NEW d \in Delivery, ServeHTTP(d)
    PROVE  InTurn'
<1> DEFINE i == delivery[d].id
<1>1. /\ Busy(d) /\ i \in DOMAIN update /\ i \in Id /\ UNCHANGED <<update, gaveUp>>
      /\ \/ delivery'[d] = Idle
         \/ delivery'[d].id = i /\ delivery'[d].waited = delivery[d].waited
      /\ \A e \in Delivery \ {d} : delivery'[e] = delivery[e]
      /\ held' \subseteq held
  BY Serves
<1>2. \/ delivery'[d] = Idle /\ held' = (IF delivery[d].waited THEN held \ {i} ELSE held)
      \/ UNCHANGED held
  BY Ends
  DEF Clocked, ServeHTTP, TakeOn, KnownAlready, RecordFails, Reply, ReplyFails, SendMessage,
      Answered, Refused, handled
<1>3. ran' = ran \/ ran' = [ran EXCEPT ![i] = ran[i] + 1]
  BY DEF ServeHTTP, TakeOn, KnownAlready, RecordFails, Reply, ReplyFails, SendMessage, history
<1> HIDE DEF i
<1>4. ASSUME NEW e \in Delivery, Busy(e)', delivery'[e].waited
      PROVE  delivery'[e].id \in held'
  <2>1. delivery'[e].id = delivery[e].id /\ delivery[e].waited /\ Busy(e)
    BY <1>1, <1>4 DEF Busy, i
  <2>2. delivery[e].id \in held
    BY <2>1 DEF InTurn, WaitedFor
  <2>3. CASE UNCHANGED held
    BY <2>1, <2>2, <2>3
  <2>4. CASE delivery'[d] = Idle /\ held' = (IF delivery[d].waited THEN held \ {i} ELSE held)
    <3>1. e # d
      BY <1>4, <2>4 DEF Busy
    <3>2. delivery[d].waited => delivery[e].id # i
      BY <2>1, <3>1 DEF InTurn, i
    <3> QED BY <2>1, <2>2, <2>4, <3>2
  <2> QED BY <1>2, <2>3, <2>4
<1>5. \A j \in DOMAIN update : ran'[j] = ran[j] \/ ~Untouched(j)
  <2>1. DOMAIN update \subseteq Id /\ ran \in [Id -> Nat]
    BY Dates DEF Clocked, Types
  <2>2. ~Untouched(i)
    BY DEF Untouched, i
  <2> QED BY <1>3, <2>1, <2>2
<1>6. \A e \in Delivery :
        \/ delivery'[e] = Idle
        \/ /\ Busy(e) /\ delivery'[e].id = delivery[e].id
           /\ delivery'[e].waited = delivery[e].waited
  BY <1>1 DEF i, Busy
<1> QED BY <1>1, <1>4, <1>5, <1>6, InTurnStays

LEMMA InTurnNext == Clocked /\ Once /\ InTurn /\ [Next]_vars => InTurn'
<1> SUFFICES ASSUME Clocked, Once, InTurn, [Next]_vars PROVE InTurn'
  OBVIOUS
<1>0. Types
  BY DEF Clocked
<1>1. ASSUME NEW u \in User, NEW c \in Commands, Write(u, c)
      PROVE  InTurn'
  <2> DEFINE n == Len(update) + 1
  <2>1. /\ n \in Id /\ DOMAIN update' = 1..n /\ DOMAIN update = 1..(n - 1)
        /\ n \notin DOMAIN update /\ held' = held \cup {n}
        /\ \A i \in DOMAIN update : i < n /\ update'[i] = update[i]
    BY <1>0, <1>1, Written
  <2>2. UNCHANGED <<delivery, ran, gaveUp>>
    BY <1>1 DEF Write, history
  <2> HIDE DEF n
  <2>3. Untouched(n)
    BY <2>1, IdleOrWorking DEF Clocked, Once, Timely, Untouched, Id
  <2>4. ASSUME NEW k \in held', NEW i \in DOMAIN update', k < i, update'[k].user = update'[i].user
        PROVE  Untouched(i)
    <3>1. CASE i = n
      BY <2>3, <3>1
    <3>2. CASE i # n
      <4>1. i \in DOMAIN update /\ k # n /\ k \in held
        BY <2>1, <2>4, <3>2 DEF Id
      <4>2. update[k].user = update[i].user
        BY <1>0, <2>1, <2>4, <4>1 DEF Types
      <4> QED BY <2>4, <4>1, <4>2 DEF InTurn
    <3> QED BY <3>1, <3>2
  <2>5. \A k \in held', i \in DOMAIN update' :
            k < i /\ update'[k].user = update'[i].user => Untouched(i)'
    BY <2>2, <2>4 DEF Untouched
  <2>6. \A d \in Delivery : Busy(d)' => WaitedFor(d)'
    BY <2>1, <2>2 DEF InTurn, Busy, WaitedFor
  <2> QED BY <2>2, <2>5, <2>6 DEF InTurn
<1>2. ASSUME NEW d \in Delivery, GiveUp(d)
      PROVE  InTurn'
  <2> DEFINE h == [delivery[d] EXCEPT !.waited = FALSE]
  <2>1. /\ h.id = delivery[d].id /\ ~h.waited /\ h # Idle
        /\ delivery' = [delivery EXCEPT ![d] = h]
    <3>1. delivery[d] \in Working
      BY <1>0, <1>2, IdleOrWorking DEF GiveUp
    <3> QED BY <1>0, <1>2, <3>1 DEF GiveUp, Types, Working, Idle
  <2> HIDE DEF h
  <2>2. /\ delivery'[d] = h /\ \A e \in Delivery \ {d} : delivery'[e] = delivery[e]
    BY <1>0, <2>1 DEF Types
  <2>3. gaveUp' = gaveUp \cup {delivery[d].id} /\ UNCHANGED <<update, held, ran>>
    BY <1>2 DEF GiveUp, telegram
  <2>4. \A e \in Delivery : Busy(e)' => WaitedFor(e)'
    BY <2>1, <2>2, <2>3 DEF InTurn, Busy, WaitedFor
  <2>5. \A e, f \in Delivery :
          delivery'[e].waited /\ delivery'[f].waited /\ delivery'[e].id = delivery'[f].id => e = f
    BY <2>1, <2>2 DEF InTurn
  <2>6. \A i \in DOMAIN update : Untouched(i) => Untouched(i)'
    BY <2>1, <2>2, <2>3 DEF Untouched
  <2> QED BY <2>3, <2>4, <2>5, <2>6 DEF InTurn
<1>3. ASSUME NEW d \in Delivery, ServeHTTP(d)
      PROVE  InTurn'
  BY <1>3, InTurnServe
<1>4. ASSUME NEW d \in Delivery, NEW i \in DOMAIN update, Deliver(d, i)
      PROVE  InTurn'
  <2>1. /\ delivery'[d].id = i /\ delivery'[d].waited
        /\ \A e \in Delivery \ {d} : delivery'[e] = delivery[e]
    BY <1>0, <1>4 DEF Deliver, Types
  <2>2. /\ i \in held /\ FirstOfChat(i) /\ ~Waited(i)
        /\ UNCHANGED <<update, held, ran, gaveUp>>
    BY <1>4 DEF Deliver, telegram, history
  <2>3. \A e \in Delivery : Busy(e)' => WaitedFor(e)'
    BY <2>1, <2>2 DEF InTurn, Busy, WaitedFor
  <2>4. \A e, f \in Delivery :
          delivery'[e].waited /\ delivery'[f].waited /\ delivery'[e].id = delivery'[f].id => e = f
    BY <2>1, <2>2 DEF InTurn, Waited
  <2>5. ASSUME NEW k \in held, NEW j \in DOMAIN update, k < j, update[k].user = update[j].user
        PROVE  Untouched(j)'
    <3>1. Untouched(j) /\ j # i
      BY <2>2, <2>5 DEF InTurn, FirstOfChat
    <3> QED BY <2>1, <2>2, <3>1 DEF Untouched
  <2> QED BY <2>2, <2>3, <2>4, <2>5 DEF InTurn
<1>5. ASSUME NEW i \in DOMAIN update, Expire(i)
      PROVE  InTurn'
  <2>1. /\ held' = held \ {i} /\ ~Waited(i) /\ UNCHANGED <<update, delivery, ran, gaveUp>>
    BY <1>5 DEF Expire
  <2>2. \A d \in Delivery : Busy(d)' => WaitedFor(d)'
    BY <2>1 DEF InTurn, Busy, WaitedFor, Waited
  <2> QED BY <2>1, <2>2 DEF InTurn, Untouched
<1>6. CASE Tick \/ DeleteTelegramUpdatesBefore \/ Beside
  <2>1. UNCHANGED <<update, held, delivery, ran, gaveUp>>
    BY <1>6, ClockedBeside DEF Tick, DeleteTelegramUpdatesBefore, telegram, history
  <2> QED BY <2>1 DEF InTurn, Busy, WaitedFor, Untouched
<1>7. CASE Crash
  <2>1. UNCHANGED <<update, held, ran, gaveUp>> /\ \A d \in Delivery : delivery'[d] = Idle
    BY <1>7 DEF Crash, telegram
  <2> QED BY <2>1, InTurnStays DEF Busy
<1> QED BY <1>1, <1>2, <1>3, <1>4, <1>5, <1>6, <1>7 DEF Next, Beside

-----------------------------------------------------------------------------
(* The last command.                                                       *)

LEMMA LastInit == Init => LastCommandStands
<1> SUFFICES ASSUME Init PROVE LastCommandStands
  OBVIOUS
<1>1. \A u \in User : Carried(u) = {}
  BY DEF Init, Carried
<1> QED BY <1>1 DEF LastCommandStands

(* No command is carried out.                                              *)
LEMMA LastStays ==
    ASSUME LastCommandStands, UNCHANGED preference, gaveUp \subseteq gaveUp',
           \A u \in User : Carried(u)' = Carried(u),
           \A i \in DOMAIN update : update'[i] = update[i]
    PROVE  LastCommandStands'
<1> SUFFICES ASSUME NEW u \in User, NEW i \in Carried(u)',
                    \A j \in Carried(u)' : j <= i /\ j \notin gaveUp'
             PROVE  preference'[u] = (update'[i].command = "/alerts_on")
  BY DEF LastCommandStands
<1>1. i \in Carried(u) /\ \A j \in Carried(u) : j <= i /\ j \notin gaveUp
  OBVIOUS
<1>2. i \in DOMAIN update
  BY <1>1 DEF Carried
<1> QED BY <1>1, <1>2 DEF LastCommandStands

(* The command of an update that Telegram waits for is later than any that *)
(* was carried out for its chat.                                           *)
LEMMA LastReply ==
    ASSUME Clocked, Once, InTurn, LastCommandStands, NEW d \in Delivery, Reply(d)
    PROVE  LastCommandStands'
<1>0. Types /\ ServeHTTP(d)
  BY DEF Clocked, ServeHTTP
<1>1. PICK k \in Id : k = delivery[d].id
  BY <1>0, Serves
<1>2. /\ k \in DOMAIN update /\ Busy(d) /\ UNCHANGED <<update, gaveUp>>
      /\ SetAlertPreference(k) /\ CommandOf(d, k)
      /\ ran' = [ran EXCEPT ![k] = ran[k] + 1]
  BY <1>0, <1>1, Serves DEF Reply, CommandOf
<1>3. ran[k] = 0
  BY <1>2 DEF Once, Commanded
<1>4. DOMAIN update \subseteq Id /\ ran \in [Id -> Nat] /\ preference \in [User -> BOOLEAN]
  BY <1>0, Dates DEF Types
<1>5. ran'[k] = 1 /\ \A i \in Id : i # k => ran'[i] = ran[i]
  BY <1>1, <1>3, <1>4, <1>2
<1>6. k \notin gaveUp => k \in held
  BY <1>1, <1>2 DEF InTurn, WaitedFor
<1>7. ASSUME NEW u \in User, NEW i \in Carried(u)',
             \A j \in Carried(u)' : j <= i /\ j \notin gaveUp'
      PROVE  preference'[u] = (update'[i].command = "/alerts_on")
  <2>1. /\ i \in DOMAIN update /\ update[i].user = u
        /\ update[i].command \in {"/alerts_on", "/alerts_off"}
    BY <1>2, <1>7 DEF Carried
  <2>2. CASE i = k
    BY <1>2, <1>4, <2>1, <2>2 DEF SetAlertPreference
  <2>3. CASE i # k
    <3>1. ran[i] > 0 /\ i \in Carried(u)
      BY <1>2, <1>4, <1>5, <1>7, <2>1, <2>3 DEF Carried
    <3>2. k \notin Carried(u)'
      <4>1. SUFFICES ASSUME k \in Carried(u)' PROVE FALSE
        OBVIOUS
      <4>2. k < i /\ k \in held
        BY <1>2, <1>4, <1>6, <1>7, <2>1, <2>3, <4>1 DEF Id
      <4>3. update[k].user = u
        BY <1>2, <4>1 DEF Carried
      <4> QED BY <2>1, <3>1, <4>2, <4>3 DEF InTurn, Untouched
    <3>3. preference'[u] = preference[u]
      <4>1. CASE update[k].user = u
        BY <1>2, <1>5, <3>2, <4>1 DEF Carried, SetAlertPreference
      <4>2. CASE update[k].user # u
        BY <1>2, <1>4, <4>2 DEF SetAlertPreference
      <4> QED BY <4>1, <4>2
    <3>4. \A j \in Carried(u) : j <= i /\ j \notin gaveUp
      <4>1. ASSUME NEW j \in Carried(u)
            PROVE  j \in Carried(u)'
        BY <1>2, <1>3, <1>4, <1>5 DEF Carried
      <4> QED BY <1>2, <1>7, <4>1
    <3> QED BY <1>2, <3>1, <3>3, <3>4 DEF LastCommandStands
  <2> QED BY <2>2, <2>3
<1> QED BY <1>7 DEF LastCommandStands

LEMMA LastNext ==
    Clocked /\ Once /\ InTurn /\ LastCommandStands /\ [Next]_vars => LastCommandStands'
<1> SUFFICES ASSUME Clocked, Once, InTurn, LastCommandStands, [Next]_vars
             PROVE  LastCommandStands'
  OBVIOUS
<1>0. Types /\ DOMAIN update \subseteq Id
  BY Dates DEF Clocked
<1>1. ASSUME NEW u \in User, NEW c \in Commands, Write(u, c)
      PROVE  LastCommandStands'
  <2> DEFINE n == Len(update) + 1
  <2>1. /\ n \in Id /\ DOMAIN update' = 1..n /\ DOMAIN update = 1..(n - 1)
        /\ n \notin DOMAIN update
        /\ \A i \in DOMAIN update : i < n /\ update'[i] = update[i]
    BY <1>0, <1>1, Written
  <2>2. UNCHANGED <<preference, ran, gaveUp>>
    BY <1>1 DEF Write, history
  <2> HIDE DEF n
  <2>3. ran[n] = 0
    BY <2>1 DEF Once
  <2>4. \A i \in DOMAIN update' : i = n \/ i \in DOMAIN update
    BY <2>1 DEF Id
  <2>5. \A i \in DOMAIN update : i \in DOMAIN update'
    BY <2>1 DEF Id
  <2>6. \A v \in User : Carried(v)' = Carried(v)
    BY <2>1, <2>2, <2>3, <2>4, <2>5 DEF Carried
  <2> QED BY <2>1, <2>2, <2>6, LastStays
<1>2. ASSUME NEW d \in Delivery, ServeHTTP(d), ~Reply(d)
      PROVE  LastCommandStands'
  <2>1. UNCHANGED <<update, preference, ran, gaveUp>>
    BY <1>2 DEF ServeHTTP, TakeOn, KnownAlready, RecordFails, ReplyFails, SendMessage, history,
                handled
  <2> QED BY <2>1, LastStays DEF Carried
<1>3. ASSUME NEW d \in Delivery, Reply(d)
      PROVE  LastCommandStands'
  BY <1>3, LastReply
<1>4. ASSUME NEW d \in Delivery, GiveUp(d) \/ \E i \in DOMAIN update : Deliver(d, i)
      PROVE  LastCommandStands'
  <2>1. UNCHANGED <<update, preference, ran>> /\ gaveUp \subseteq gaveUp'
    BY <1>4 DEF GiveUp, Deliver, telegram, history
  <2> QED BY <2>1, LastStays DEF Carried
<1>5. CASE \/ \E i \in DOMAIN update : Expire(i)
           \/ Tick \/ DeleteTelegramUpdatesBefore \/ Crash \/ Beside
  <2>1. UNCHANGED <<update, preference, ran, gaveUp>>
    BY <1>5, ClockedBeside
    DEF Expire, Tick, DeleteTelegramUpdatesBefore, Crash, telegram, history
  <2> QED BY <2>1, LastStays DEF Carried
<1> QED BY <1>1, <1>2, <1>3, <1>4, <1>5 DEF Next, Beside

(* The preference of an account is the one it last asked for, as long as   *)
(* Telegram waited for the answers.                                        *)
THEOREM LastCommand == Spec => []LastCommandStands
<1>1. Init => Clocked /\ Once /\ InTurn /\ LastCommandStands
  BY ClockedInit, OnceInit, InTurnInit, LastInit
<1>2. Clocked /\ Once /\ InTurn /\ LastCommandStands /\ [Next]_vars =>
        (Clocked /\ Once /\ InTurn /\ LastCommandStands)'
  BY ClockedNext, OnceNext, InTurnNext, LastNext
<1> QED BY <1>1, <1>2, PTL DEF Spec

=============================================================================
