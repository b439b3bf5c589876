------------------------- MODULE MinuteIngestProofs -------------------------
(***************************************************************************)
(* Theorems about MinuteIngest, for every set of servers and handlers,     *)
(* every skew and retention, and every bound.                              *)
(*                                                                         *)
(* The inductive invariant has three parts, each about what the mutex of   *)
(* the service protects.  Books: an accumulator counts what was accepted   *)
(* in its minute, and whoever is inside has compared with it.  History:    *)
(* what was left behind is stored.  Ending: what the final checkpoint has  *)
(* been through is stored.                                                 *)
(***************************************************************************)
EXTENDS MinuteIngest, FiniteSetTheorems, TLAPS

Inside(r) == request[r].at \in {"flush", "latest"}
InFlight == {r \in Request : request[r] # NoReport}

(* A handler is inside the service exactly while it holds the mutex.       *)
MutexHeld == \A r \in Request : Inside(r) <=> lock = r

(* The report of a handler inside is not older than the accumulator; one   *)
(* that flushes is newer.                                                  *)
Compared == \A r \in Request :
    LET s == request[r].server IN
    /\ Inside(r) => active[s].minute <= request[r].minute
    /\ request[r].at = "flush" => Active(s) /\ active[s].minute < request[r].minute

(* Each accepted report was one in flight before, and was sent.            *)
Sent == /\ IsFiniteSet(InFlight)
        /\ \A s \in Server, m \in Minute : acked[s][m] + Cardinality(InFlight) <= sent

Counts(s) ==
    /\ Active(s) => /\ active[s].minute \in Minute
                    /\ active[s].count = acked[s][active[s].minute] /\ active[s].count > 0
    /\ \A m \in Minute : m > active[s].minute => acked[s][m] = 0
Counted == \A s \in Server : Counts(s)

LeftAreActive == \A s \in left : Active(s)

Books == TypeOK /\ MutexHeld /\ Compared /\ Sent /\ Counted /\ LeftAreActive

(* The sample is the accepted reports, or the retention has removed it.    *)
Stored(s, m) == samples[s][m] = acked[s][m] \/ (samples[s][m] = 0 /\ Expired(m))

Flushed == \A r \in Request :
    LET s == request[r].server IN
    request[r].at = "latest" /\ Exists(s) /\ Rollover(s, request[r].minute)
        => Stored(s, active[s].minute)

History == LatestIsOfActiveMinute /\ ClosedMinuteIsComplete /\ Flushed

(* A shutdown in time has nobody left inside when it checkpoints.          *)
InTime == app \in {"final", "closing"} /\ graceful /\ ~deadline
Quiet == InTime => InFlight = {}
Checkpointed ==
    InTime /\ ~failed => \A s \in Server :
        /\ Exists(s) /\ Active(s)
        /\ app = "closing" \/ (lock = Checkpoint /\ s \notin left)
        => samples[s][active[s].minute] = acked[s][active[s].minute]
ClosingIsAfter == app = "closing" => lock # Checkpoint

Ending == Quiet /\ Checkpointed /\ ClosingIsAfter

-----------------------------------------------------------------------------
(* The handlers in flight.                                                 *)

LEMMA Idle ==
    ASSUME TypeOK, NEW r \in Request
    PROVE  /\ request[r] = NoReport <=> request[r].at = "idle"
           /\ request[r] # NoReport =>
                 request[r] \in [at: Places \ {"idle"}, server: Server, minute: Minute]
  BY DEF TypeOK, Handler, NoReport

LEMMA Arrives ==
    ASSUME TypeOK, Sent, NEW r \in Request, request[r] = NoReport,
           NEW h, h # NoReport, request' = [request EXCEPT ![r] = h]
    PROVE  /\ IsFiniteSet(InFlight') /\ Cardinality(InFlight) \in Nat
           /\ Cardinality(InFlight') = Cardinality(InFlight) + 1
<1>1. InFlight' = InFlight \cup {r} /\ r \notin InFlight
  BY DEF TypeOK, InFlight
<1> QED BY <1>1, FS_AddElement, FS_CardinalityType DEF Sent

LEMMA Leaves ==
    ASSUME TypeOK, Sent, NEW r \in Request, request[r] # NoReport, Answer(r)
    PROVE  /\ IsFiniteSet(InFlight') /\ Cardinality(InFlight') \in Nat
           /\ Cardinality(InFlight') = Cardinality(InFlight) - 1
<1>1. InFlight' = InFlight \ {r} /\ r \in InFlight
  BY DEF TypeOK, InFlight, Answer
<1> QED BY <1>1, FS_RemoveElement, FS_CardinalityType DEF Sent

LEMMA Moves ==
    ASSUME TypeOK, NEW r \in Request, request[r] # NoReport,
           NEW place \in Places \ {"idle"}, Goto(r, place)
    PROVE  /\ InFlight' = InFlight
           /\ request' \in [Request -> Handler]
           /\ request'[r].at = place /\ request'[r].server = request[r].server
           /\ request'[r].minute = request[r].minute
           /\ \A q \in Request \ {r} : request'[q] = request[q]
<1>1. request[r] \in [at: Places \ {"idle"}, server: Server, minute: Minute]
  BY Idle
<1>2. request' = [request EXCEPT ![r] = [request[r] EXCEPT !.at = place]]
  BY DEF TypeOK, Goto
<1>3. [request[r] EXCEPT !.at = place]
         \in [at: Places \ {"idle"}, server: Server, minute: Minute]
  BY <1>1
<1>4. [request[r] EXCEPT !.at = place] # NoReport
  BY <1>3 DEF NoReport
<1> QED BY <1>1, <1>2, <1>3, <1>4 DEF TypeOK, InFlight, Handler

-----------------------------------------------------------------------------
(* The books.                                                              *)

LEMMA BooksInit == Init => Books
<1> SUFFICES ASSUME Init PROVE Books
  OBVIOUS
<1>1. InFlight = {} /\ Cardinality(InFlight) = 0 /\ IsFiniteSet(InFlight)
  BY FS_EmptySet DEF Init, InFlight
<1>2. TypeOK
  <2>1. /\ Nowhere \in [Server -> [Minute -> 0..MaxReports]]
        /\ NoMinute \in Accumulator /\ NoReport \in Handler
    BY IngestAssumption DEF Nowhere, NoMinute, Accumulator, Handler
  <2>2. 1 \in Minute /\ 0 \in 0..MaxMinute /\ 0 \in 0..MaxReports /\ 0 \in 0..MaxEdits
    BY IngestAssumption DEF Minute
  <2> QED BY <2>1, <2>2 DEF Init, TypeOK, Stages
<1>3. MutexHeld /\ Compared
  BY IngestAssumption DEF Init, MutexHeld, Compared, Inside, NoReport
<1>4. Counted /\ LeftAreActive
  <2>1. ASSUME NEW s \in Server
        PROVE  ~Active(s) /\ \A m \in Minute : acked[s][m] = 0
    BY DEF Init, Active, Nowhere
  <2> QED BY <2>1 DEF Init, Counted, Counts, LeftAreActive
<1>5. Sent
  BY <1>1 DEF Init, Sent, Nowhere
<1> QED BY <1>2, <1>3, <1>4, <1>5 DEF Books

(* A report is taken in.                                                   *)
LEMMA BooksReceive ==
    ASSUME Books, NEW r \in Request, NEW s \in Server, NEW m \in Minute, Receive(r, s, m)
    PROVE  Books'
<1> DEFINE h == [at |-> "waiting", server |-> s, minute |-> m]
<1>0. TypeOK /\ Sent /\ sent \in 0..MaxReports
  BY DEF Books, TypeOK
<1>1. request' = [request EXCEPT ![r] = h] /\ request[r] = NoReport /\ sent' = sent + 1
  BY DEF Receive
<1>2. h \in Handler /\ h # NoReport /\ h.at = "waiting"
  BY DEF Handler, Places, NoReport
<1>3. Sent'
  <2>1. /\ IsFiniteSet(InFlight') /\ Cardinality(InFlight) \in Nat
        /\ Cardinality(InFlight') = Cardinality(InFlight) + 1
    BY <1>0, <1>1, <1>2, Arrives
  <2>2. UNCHANGED acked
    BY DEF Receive, service
  <2>3. ASSUME NEW t \in Server, NEW n \in Minute
        PROVE  acked[t][n] + Cardinality(InFlight') <= sent'
    BY <1>0, <1>1, <2>1 DEF Sent, TypeOK
  <2> QED BY <2>1, <2>2, <2>3 DEF Sent
<1>4. TypeOK'
  BY <1>0, <1>1, <1>2, IngestAssumption
  DEF TypeOK, Receive, tables, service, process
<1>5. MutexHeld' /\ Compared'
  <2>1. UNCHANGED <<active, lock>>
    BY DEF Receive, service
  <2>2. ASSUME NEW q \in Request
        PROVE  request'[q] = request[q] \/ (q = r /\ request'[q].at = "waiting")
    BY <1>0, <1>1, <1>2 DEF TypeOK
  <2>3. lock # r
    BY <1>1 DEF Books, MutexHeld, Inside, NoReport
  <2> QED BY <2>1, <2>2, <2>3 DEF Books, MutexHeld, Compared, Inside, Active
<1>6. Counted' /\ LeftAreActive'
  BY DEF Receive, service, Books, Counted, Counts, LeftAreActive, Active
<1> QED BY <1>3, <1>4, <1>5, <1>6 DEF Books

(* What holds of a row the accumulator of s is written to.                 *)
LEMMA Upserted ==
    ASSUME Books, NEW s \in Server, Active(s), UpsertMinuteSample(s)
    PROVE  /\ active[s].minute \in Minute
           /\ samples' \in [Server -> [Minute -> 0..MaxReports]]
           /\ samples'[s][active[s].minute] = acked[s][active[s].minute]
           /\ \A t \in Server, m \in Minute :
                 t # s \/ m # active[s].minute => samples'[t][m] = samples[t][m]
<1> DEFINE n == active[s].minute
<1>1. /\ samples \in [Server -> [Minute -> 0..MaxReports]]
      /\ acked \in [Server -> [Minute -> 0..MaxReports]]
  BY DEF Books, TypeOK
<1>2. n \in Minute /\ active[s].count = acked[s][n] /\ acked[s][n] \in 0..MaxReports
  BY <1>1 DEF Books, Counted, Counts
<1>3. samples' = [samples EXCEPT ![s] = [samples[s] EXCEPT ![n] = acked[s][n]]]
  BY <1>1, <1>2 DEF UpsertMinuteSample
<1>4. [samples[s] EXCEPT ![n] = acked[s][n]] \in [Minute -> 0..MaxReports]
  BY <1>1, <1>2
<1> QED BY <1>1, <1>2, <1>3, <1>4

(* A handler goes on to another place of the service, or out of it.        *)
LEMMA BooksBegin ==
    ASSUME Books, NEW r \in Request, BeginIngest(r)
    PROVE  Books'
<1> DEFINE place == IF Rollover(request[r].server, request[r].minute) THEN "flush" ELSE "latest"
           s == request[r].server
           m == request[r].minute
<1>0. TypeOK /\ request[r] # NoReport /\ place \in Places \ {"idle"} /\ lock = Free
  BY DEF Books, BeginIngest, NoReport, Places
<1>1. /\ s \in Server /\ m \in Minute
      /\ active[s] \in Accumulator
  BY <1>0, Idle DEF TypeOK
<1>2. /\ InFlight' = InFlight
      /\ request' \in [Request -> Handler]
      /\ request'[r].at = place /\ request'[r].server = s /\ request'[r].minute = m
      /\ \A q \in Request \ {r} : request'[q] = request[q]
  BY <1>0, Moves DEF BeginIngest
<1>3. lock' = r /\ UNCHANGED <<active, acked, left, tables, others>>
  BY DEF BeginIngest
<1> HIDE DEF place, s, m
<1>4. TypeOK'
  BY <1>0, <1>2, <1>3 DEF TypeOK, tables, others, process
<1>5. MutexHeld'
  BY <1>0, <1>2, <1>3, IngestAssumption DEF Books, MutexHeld, Inside, place
<1>6. Compared'
  <2>1. active[s].minute <= m
    BY <1>1 DEF BeginIngest, s, m, Accumulator, Minute, Active, NoMinute
  <2>2. place = "flush" => Active(s) /\ active[s].minute < m
    BY <1>1 DEF place, s, m, Rollover, Accumulator, Minute
  <2> QED BY <1>0, <1>2, <1>3, <2>1, <2>2 DEF Books, Compared, Inside, Active
<1>7. Sent'
  BY <1>2, <1>3 DEF Books, Sent, others
<1>8. Counted' /\ LeftAreActive'
  BY <1>3 DEF Books, Counted, Counts, LeftAreActive, Active
<1> QED BY <1>4, <1>5, <1>6, <1>7, <1>8 DEF Books

LEMMA BooksFlush ==
    ASSUME Books, NEW r \in Request, Flush(r)
    PROVE  Books'
<1> DEFINE s == request[r].server
<1>0. TypeOK /\ request[r] # NoReport /\ "latest" \in Places \ {"idle"} /\ Inside(r)
  BY DEF Books, Flush, NoReport, Places, Inside
<1>1. /\ InFlight' = InFlight
      /\ request' \in [Request -> Handler]
      /\ request'[r].at = "latest" /\ request'[r].server = s
      /\ request'[r].minute = request[r].minute
      /\ \A q \in Request \ {r} : request'[q] = request[q]
  BY <1>0, Moves DEF Flush
<1>2. s \in Server /\ Active(s)
  BY <1>0, Idle DEF Books, Compared, Flush
<1>3. samples' \in [Server -> [Minute -> 0..MaxReports]]
  BY <1>2, Upserted DEF Flush
<1>4. UNCHANGED <<status, latest, service, others>>
  BY DEF Flush
<1>5. TypeOK'
  BY <1>0, <1>1, <1>3, <1>4 DEF TypeOK, service, others, process
<1>6. MutexHeld' /\ Compared'
  BY <1>0, <1>1, <1>4 DEF Books, MutexHeld, Compared, Inside, service, Active
<1>7. Sent' /\ Counted' /\ LeftAreActive'
  BY <1>1, <1>4 DEF Books, Sent, Counted, Counts, LeftAreActive, Active, service, others
<1> QED BY <1>5, <1>6, <1>7 DEF Books

(* A report is answered without having been accepted.                      *)
LEMMA BooksAnswered ==
    ASSUME Books, NEW r \in Request, TooOld(r) \/ IngestFails(r)
    PROVE  Books'
<1>0. TypeOK /\ Sent /\ request[r] # NoReport
  BY DEF Books, TooOld, IngestFails, NoReport
<1>1. Answer(r) /\ UNCHANGED <<tables, active, left, acked, others>>
  BY DEF TooOld, IngestFails, service
<1>2. /\ request' \in [Request -> Handler] /\ request'[r] = NoReport
      /\ \A q \in Request \ {r} : request'[q] = request[q]
  BY <1>0, <1>1 DEF Answer, TypeOK, Handler
<1>3. /\ lock' \in {lock, Free} /\ (lock' = lock => ~Inside(r))
      /\ (lock' # lock => lock = r)
  BY IngestAssumption DEF TooOld, IngestFails, Inside, Books, MutexHeld, service
<1>4. TypeOK'
  BY <1>0, <1>1, <1>2, <1>3 DEF TypeOK, tables, others, process
<1>5. MutexHeld' /\ Compared'
  BY <1>1, <1>2, <1>3, IngestAssumption
  DEF Books, MutexHeld, Compared, Inside, NoReport, Active
<1>6. Sent'
  <2>1. /\ IsFiniteSet(InFlight') /\ Cardinality(InFlight') \in Nat
        /\ Cardinality(InFlight') = Cardinality(InFlight) - 1
    BY <1>0, <1>1, Leaves
  <2>2. ASSUME NEW t \in Server, NEW n \in Minute
        PROVE  acked'[t][n] + Cardinality(InFlight') <= sent'
    <3>1. acked[t][n] \in Nat /\ sent \in Nat /\ acked[t][n] + Cardinality(InFlight) <= sent
      BY <1>0 DEF TypeOK, Sent
    <3>2. UNCHANGED <<acked, sent>>
      BY <1>1 DEF others
    <3>3. Cardinality(InFlight) \in Nat
      BY <1>0, FS_CardinalityType DEF Sent
    <3> QED BY <2>1, <3>1, <3>2, <3>3
  <2> QED BY <2>1, <2>2 DEF Sent
<1>7. Counted' /\ LeftAreActive'
  BY <1>1 DEF Books, Counted, Counts, LeftAreActive, Active
<1> QED BY <1>4, <1>5, <1>6, <1>7 DEF Books

(* What the acceptance of a report makes of the accumulators.              *)
LEMMA Accepted ==
    ASSUME Books, NEW r \in Request, StoreLatest(r)
    PROVE  LET s == request[r].server
               m == request[r].minute
           IN  /\ s \in Server /\ m \in Minute /\ active[s].minute <= m
               /\ acked[s][m] + 1 \in 1..MaxReports
               /\ acked' = [acked EXCEPT ![s] = [acked[s] EXCEPT ![m] = acked[s][m] + 1]]
               /\ active' = [active EXCEPT ![s] = [minute |-> m, count |-> acked[s][m] + 1]]
               /\ \A q \in Request \ {r} : ~Inside(q)
<1> DEFINE s == request[r].server
           m == request[r].minute
<1>0. /\ TypeOK /\ Sent /\ request[r] # NoReport /\ request[r].at = "latest"
      /\ Inside(r) /\ lock = r
  BY DEF Books, StoreLatest, NoReport, Inside, MutexHeld
<1>1. s \in Server /\ m \in Minute /\ active[s] \in Accumulator /\ acked[s][m] \in Nat
  BY <1>0, Idle DEF TypeOK
<1>2. active[s].minute <= m
  BY <1>0 DEF Books, Compared
<1>3. acked[s][m] + 1 \in 1..MaxReports
  <2>1. InFlight # {} /\ Cardinality(InFlight) \in Nat
    BY <1>0, FS_CardinalityType DEF InFlight, Sent
  <2>2. Cardinality(InFlight) # 0
    BY <1>0, <2>1, FS_EmptySet DEF Sent
  <2>3. acked[s][m] + Cardinality(InFlight) <= sent /\ sent \in Nat /\ sent <= MaxReports
    BY <1>0, <1>1, IngestAssumption DEF Sent, TypeOK
  <2> QED BY <1>1, <2>1, <2>2, <2>3, IngestAssumption
<1>4. acked' = [acked EXCEPT ![s] = [acked[s] EXCEPT ![m] = acked[s][m] + 1]]
  BY <1>0, <1>1 DEF TypeOK, StoreLatest
<1>5. active' = [active EXCEPT ![s] = [minute |-> m, count |-> acked[s][m] + 1]]
  <2>1. CASE Active(s) /\ ~Rollover(s, m)
    <3>1. active[s].minute = m /\ active[s].count = acked[s][m]
      BY <1>1, <1>2, <2>1 DEF Rollover, Accumulator, Minute, Books, Counted, Counts
    <3> QED BY <1>0, <1>1, <2>1, <3>1 DEF StoreLatest, TypeOK
  <2>2. CASE ~(Active(s) /\ ~Rollover(s, m))
    <3>1. m > active[s].minute
      <4>1. CASE Active(s)
        BY <2>2, <4>1 DEF Rollover
      <4>2. CASE ~Active(s)
        BY <1>1, <4>2 DEF Active, NoMinute, Minute
      <4> QED BY <4>1, <4>2
    <3>2. acked[s][m] = 0
      BY <1>1, <3>1 DEF Books, Counted, Counts
    <3>3. active' = [active EXCEPT ![s] = [minute |-> m, count |-> 1]]
      BY <2>2 DEF StoreLatest
    <3> QED BY <3>2, <3>3
  <2> QED BY <2>1, <2>2
<1>6. \A q \in Request \ {r} : ~Inside(q)
  BY <1>0 DEF Books, MutexHeld
<1> QED BY <1>1, <1>2, <1>3, <1>4, <1>5, <1>6

LEMMA BooksStoreLatest ==
    ASSUME Books, NEW r \in Request, StoreLatest(r)
    PROVE  Books'
<1> DEFINE s == request[r].server
           m == request[r].minute
           n == acked[s][m] + 1
<1>0. TypeOK /\ Sent /\ request[r] # NoReport /\ Answer(r) /\ lock' = Free
  BY DEF Books, StoreLatest, NoReport
<1>1. /\ s \in Server /\ m \in Minute /\ active[s].minute <= m
      /\ n \in 1..MaxReports
      /\ acked' = [acked EXCEPT ![s] = [acked[s] EXCEPT ![m] = n]]
      /\ active' = [active EXCEPT ![s] = [minute |-> m, count |-> n]]
      /\ \A q \in Request \ {r} : ~Inside(q)
  BY Accepted
<1>2. /\ request' \in [Request -> Handler] /\ request'[r] = NoReport
      /\ \A q \in Request \ {r} : request'[q] = request[q]
  BY <1>0 DEF Answer, TypeOK, Handler
<1>3. latest' \in [Server -> 0..MaxMinute] /\ UNCHANGED <<status, samples, left, others>>
  BY <1>0, <1>1, IngestAssumption DEF StoreLatest, TypeOK, Minute
<1> HIDE DEF s, m, n
<1>4. acked' \in [Server -> [Minute -> 0..MaxReports]] /\ active' \in [Server -> Accumulator]
  <2>1. [acked[s] EXCEPT ![m] = n] \in [Minute -> 0..MaxReports]
    BY <1>0, <1>1, IngestAssumption DEF TypeOK
  <2>2. [minute |-> m, count |-> n] \in Accumulator
    BY <1>1, IngestAssumption DEF Accumulator, Minute
  <2> QED BY <1>0, <1>1, <2>1, <2>2 DEF TypeOK
<1>5. TypeOK'
  BY <1>0, <1>2, <1>3, <1>4 DEF TypeOK, others, process
<1>6. MutexHeld' /\ Compared'
  BY <1>0, <1>1, <1>2, IngestAssumption DEF MutexHeld, Compared, Inside, NoReport
<1>7. Sent'
  <2>1. /\ IsFiniteSet(InFlight') /\ Cardinality(InFlight') \in Nat
        /\ Cardinality(InFlight') = Cardinality(InFlight) - 1
    BY <1>0, Leaves
  <2>2. ASSUME NEW t \in Server, NEW k \in Minute
        PROVE  acked'[t][k] + Cardinality(InFlight') <= sent'
    <3>1. acked[t][k] \in Nat /\ sent \in Nat /\ acked[t][k] + Cardinality(InFlight) <= sent
      BY <1>0 DEF TypeOK, Sent
    <3>2. acked'[t][k] = acked[t][k] \/ acked'[t][k] = acked[t][k] + 1
      BY <1>0, <1>1, <3>1 DEF TypeOK, n
    <3>3. UNCHANGED sent
      BY <1>3 DEF others
    <3>4. Cardinality(InFlight) \in Nat
      BY <1>0, FS_CardinalityType DEF Sent
    <3> QED BY <2>1, <3>1, <3>2, <3>3, <3>4
  <2> QED BY <2>1, <2>2 DEF Sent
<1>8. Counted'
  <2>1. ASSUME NEW t \in Server
        PROVE  Counts(t)'
    <3>1. CASE t = s
      <4>1. active'[s].minute = m /\ active'[s].count = n /\ acked'[s][m] = n
        BY <1>0, <1>1 DEF TypeOK
      <4>2. ASSUME NEW k \in Minute, k > m
            PROVE  acked'[s][k] = 0
        <5>1. k > active[s].minute /\ k # m
          BY <1>0, <1>1, <4>2 DEF TypeOK, Accumulator, Minute
        <5>2. acked[s][k] = 0
          BY <1>1, <5>1 DEF Books, Counted, Counts
        <5> QED BY <1>0, <1>1, <5>1, <5>2 DEF TypeOK
      <4> QED BY <1>1, <3>1, <4>1, <4>2 DEF Counts
    <3>2. CASE t # s
      <4>1. active'[t] = active[t] /\ acked'[t] = acked[t]
        BY <1>0, <1>1, <3>2 DEF TypeOK
      <4> QED BY <4>1 DEF Books, Counted, Counts, Active
    <3> QED BY <3>1, <3>2
  <2> QED BY <2>1 DEF Counted
<1>9. LeftAreActive'
  BY <1>0, <1>1, <1>3 DEF Books, LeftAreActive, Active, NoMinute, Minute, TypeOK
<1> QED BY <1>5, <1>6, <1>7, <1>8, <1>9 DEF Books

LEMMA BooksCheckpoint ==
    ASSUME Books, BeginCheckpoint \/ CheckpointStep
    PROVE  Books'
<1>1. CASE BeginCheckpoint
  BY <1>1, IngestAssumption
  DEF BeginCheckpoint, Books, TypeOK, MutexHeld, Compared, Inside, Sent, InFlight, Counted,
      Counts, LeftAreActive, Active, tables, others, process
<1>2. CASE EndCheckpoint
  BY <1>2, IngestAssumption
  DEF EndCheckpoint, Books, TypeOK, MutexHeld, Compared, Inside, Sent, InFlight, Counted,
      Counts, LeftAreActive, Active, tables, Stages
<1>3. ASSUME NEW s \in Server, CheckpointServer(s) \/ CheckpointFails(s)
      PROVE  Books'
  <2>1. samples' \in [Server -> [Minute -> 0..MaxReports]]
    BY <1>3, Upserted DEF CheckpointServer, CheckpointFails, Books, LeftAreActive, TypeOK, tables
  <2>2. /\ UNCHANGED <<minute, status, latest, active, lock, acked, request, app, graceful,
                       deadline, sent, edits>>
        /\ left' \subseteq left /\ failed' \in BOOLEAN
    BY <1>3 DEF CheckpointServer, CheckpointFails, process, tables, Books, TypeOK
  <2> QED BY <2>1, <2>2
      DEF Books, TypeOK, MutexHeld, Compared, Inside, Sent, InFlight, Counted, Counts,
          LeftAreActive, Active
<1> QED BY <1>1, <1>2, <1>3 DEF CheckpointStep

(* The process, the administrator, the retention and the clock touch no    *)
(* book, or close them all.                                                *)
Outside ==
    \/ Retain \/ Start \/ Stop \/ DeadlinePasses \/ Drained \/ Tick
    \/ \E s \in Server, b \in BOOLEAN : SetEnabled(s, b)
    \/ \E s \in Server : DeleteServer(s)
LEMMA OutsideTypes ==
    ASSUME TypeOK, Outside
    PROVE  TypeOK' /\ UNCHANGED <<service, request, sent>>
<1>0. /\ TypeOK /\ 0 \in 0..MaxMinute /\ 0 \in 0..MaxReports
      /\ [m \in Minute |-> 0] \in [Minute -> 0..MaxReports]
  BY IngestAssumption
<1>1. CASE Retain \/ Start
  <2>1. DeleteMetricSamplesBefore => samples' \in [Server -> [Minute -> 0..MaxReports]]
    BY <1>0 DEF DeleteMetricSamplesBefore, TypeOK
  <2> QED BY <1>0, <1>1, <2>1 DEF Retain, Start, TypeOK, service, process, Stages
<1>2. CASE DeadlinePasses \/ Drained \/ Tick
  <2>1. minute' \in Minute
    BY <1>2, IngestAssumption DEF DeadlinePasses, Drained, Tick, TypeOK, Minute
  <2>2. CASE DeadlinePasses
    BY <1>0, <2>1, <2>2 DEF DeadlinePasses, TypeOK, tables, service
  <2>3. CASE Drained
    BY <1>0, <2>1, <2>3 DEF Drained, TypeOK, tables, service, Stages
  <2>4. CASE Tick
    BY <1>0, <2>1, <2>4 DEF Tick, TypeOK, tables, service, process
  <2> QED BY <1>2, <2>2, <2>3, <2>4
<1>3. Edit => edits' \in 0..MaxEdits
  BY IngestAssumption DEF Edit, TypeOK
<1>4. CASE Stop
  BY <1>0, <1>3, <1>4 DEF Stop, TypeOK, tables, service, Stages
<1>5. ASSUME NEW s \in Server, NEW b \in BOOLEAN, SetEnabled(s, b)
      PROVE  TypeOK' /\ UNCHANGED <<service, request, sent>>
  BY <1>0, <1>3, <1>5 DEF SetEnabled, TypeOK, service, process
<1>6. ASSUME NEW s \in Server, DeleteServer(s)
      PROVE  TypeOK' /\ UNCHANGED <<service, request, sent>>
  BY <1>0, <1>3, <1>6 DEF DeleteServer, TypeOK, service, process
<1> QED BY <1>1, <1>2, <1>4, <1>5, <1>6 DEF Outside

LEMMA SameBooks ==
    ASSUME Books, TypeOK', UNCHANGED <<service, request, sent>>
    PROVE  Books'
  BY DEF Books, MutexHeld, Compared, Inside, Sent, InFlight, Counted, Counts, LeftAreActive,
         Active, service

LEMMA BooksGone ==
    ASSUME Books, Gone, edits' \in 0..MaxEdits
    PROVE  Books'
<1>1. TypeOK'
  <2>1. /\ Nowhere \in [Server -> [Minute -> 0..MaxReports]]
        /\ NoMinute \in Accumulator /\ NoReport \in Handler
    BY IngestAssumption DEF Nowhere, NoMinute, Accumulator, Handler
  <2> QED BY <2>1 DEF Books, Gone, TypeOK, tables, Stages
<1>2. MutexHeld' /\ Compared'
  BY IngestAssumption DEF Gone, MutexHeld, Compared, Inside, NoReport
<1>3. Sent'
  <2>1. InFlight' = {} /\ Cardinality({}) = 0 /\ IsFiniteSet({})
    BY FS_EmptySet DEF Gone, InFlight
  <2>2. \A s \in Server, m \in Minute : acked'[s][m] = 0
    BY DEF Gone, Nowhere
  <2>3. sent' = sent /\ sent >= 0
    BY IngestAssumption DEF Gone, Books, TypeOK
  <2> QED BY <2>1, <2>2, <2>3 DEF Sent
<1>4. Counted' /\ LeftAreActive'
  <2>1. ASSUME NEW s \in Server
        PROVE  ~Active(s)' /\ \A m \in Minute : acked'[s][m] = 0
    BY DEF Gone, Active, Nowhere
  <2> QED BY <2>1 DEF Gone, Counted, Counts, LeftAreActive
<1> QED BY <1>1, <1>2, <1>3, <1>4 DEF Books

LEMMA BooksNext == Books /\ [Next]_vars => Books'
<1> SUFFICES ASSUME Books, [Next]_vars PROVE Books'
  OBVIOUS
<1>1. ASSUME NEW r \in Request, NEW s \in Server, NEW m \in Minute, Receive(r, s, m)
      PROVE  Books'
  BY <1>1, BooksReceive
<1>2. ASSUME NEW r \in Request, Handle(r)
      PROVE  Books'
  BY <1>2, BooksBegin, BooksFlush, BooksAnswered, BooksStoreLatest DEF Handle
<1>3. CASE BeginCheckpoint \/ CheckpointStep
  BY <1>3, BooksCheckpoint
<1>4. CASE Outside
  BY <1>4, OutsideTypes, SameBooks DEF Books
<1>5. CASE Exit \/ Crash
  <2>1. edits' \in 0..MaxEdits
    BY <1>5, IngestAssumption DEF Exit, Crash, Edit, Books, TypeOK
  <2> QED BY <1>5, <2>1, BooksGone DEF Exit, Crash
<1>6. CASE UNCHANGED vars
  <2>1. TypeOK' /\ UNCHANGED <<service, request, sent>>
    BY <1>6 DEF vars, tables, service, process, Books, TypeOK
  <2> QED BY <2>1, SameBooks
<1> QED BY <1>1, <1>2, <1>3, <1>4, <1>5, <1>6 DEF Next, Outside

(* Every variable keeps its type: no accumulator and no sample counts more *)
(* reports than were ever sent.                                            *)
THEOREM TypeCorrect == Spec => []TypeOK
<1>1. Spec => []Books
  BY BooksInit, BooksNext, PTL DEF Spec
<1>2. Books => TypeOK
  BY DEF Books
<1> QED BY <1>1, <1>2, PTL

-----------------------------------------------------------------------------
(* The history.                                                            *)

FlushedBy(r) ==
    LET s == request[r].server IN
    request[r].at = "latest" /\ Exists(s) /\ Rollover(s, request[r].minute)
        => Stored(s, active[s].minute)

(* As long as no report is accepted, what was stored stays so.             *)
Holds(s) ==
    Exists(s)' => /\ Exists(s) /\ latest'[s] = latest[s]
                  /\ \A m \in Minute : Stored(s, m) => Stored(s, m)'
LEMMA HistoryHolds ==
    ASSUME History, UNCHANGED <<active, acked>>, \A s \in Server : Holds(s),
           \A r \in Request : FlushedBy(r)'
    PROVE  History'
<1>1. LatestIsOfActiveMinute'
  BY DEF History, LatestIsOfActiveMinute, Holds, Exists, Active
<1>2. ClosedMinuteIsComplete'
  <2>1. ASSUME NEW s \in Server, NEW m \in Minute, Exists(s)', acked'[s][m] > 0,
               m < active'[s].minute
        PROVE  Stored(s, m)'
    <3>1. Exists(s) /\ (Stored(s, m) => Stored(s, m)')
      BY <2>1 DEF Holds
    <3>2. acked[s][m] > 0 /\ m < active[s].minute
      BY <2>1
    <3> QED BY <3>1, <3>2 DEF History, ClosedMinuteIsComplete, Stored
  <2> QED BY <2>1 DEF ClosedMinuteIsComplete, Stored, Exists, Expired
<1>3. Flushed'
  BY DEF Flushed, FlushedBy, Exists, Rollover, Active, Stored, Expired
<1> QED BY <1>1, <1>2, <1>3 DEF History

LEMMA HistoryInit == Init => History
<1> SUFFICES ASSUME Init PROVE History
  OBVIOUS
<1>1. \A s \in Server : ~Active(s)
  BY DEF Init, Active
<1>2. \A s \in Server, m \in Minute : acked[s][m] = 0
  BY DEF Init, Nowhere
<1>3. \A r \in Request : request[r].at = "idle"
  BY DEF Init, NoReport
<1> QED BY <1>1, <1>2, <1>3
    DEF History, LatestIsOfActiveMinute, ClosedMinuteIsComplete, Flushed

(* A step of the tables and the clock, or of a handler that is not done.   *)
LEMMA SameTables ==
    ASSUME UNCHANGED <<minute, tables, acked>>, NEW s \in Server
    PROVE  Holds(s)
  BY DEF Holds, tables, Exists, Stored, Expired

LEMMA SameReport ==
    ASSUME History, NEW r \in Request, UNCHANGED <<active, acked>>, \A s \in Server : Holds(s),
           Books, request'[r].at = "latest" => request'[r] = request[r]
    PROVE  FlushedBy(r)'
<1> SUFFICES ASSUME request'[r].at = "latest", Exists(request[r].server)',
                    Rollover(request[r].server, request[r].minute)'
             PROVE  Stored(request[r].server, active[request[r].server].minute)'
  BY DEF FlushedBy
<1>1. request'[r] = request[r] /\ request[r].at = "latest"
  OBVIOUS
<1>2. PICK s \in Server : s = request[r].server
  BY <1>1, Idle DEF Books, NoReport
<1>3. Exists(s) /\ \A m \in Minute : Stored(s, m) => Stored(s, m)'
  BY <1>1, <1>2 DEF Holds, Exists
<1>4. Active(s) /\ Rollover(s, request[r].minute)
  BY <1>1, <1>2 DEF Rollover, Active
<1>5. active[s].minute \in Minute
  BY <1>4 DEF Books, Counted, Counts
<1>6. Stored(s, active[s].minute)
  BY <1>1, <1>2, <1>3, <1>4 DEF History, Flushed
<1>7. Stored(s, active[s].minute)'
  <2>1. PICK k \in Minute : k = active[s].minute
    BY <1>5
  <2>2. Stored(s, k)'
    BY <1>3, <1>6, <2>1
  <2> QED BY <2>1, <2>2 DEF Stored, Expired
<1> QED BY <1>1, <1>2, <1>7 DEF Stored, Expired

LEMMA HistoryFlush ==
    ASSUME Books, History, NEW r \in Request, Flush(r)
    PROVE  History'
<1> DEFINE s == request[r].server
<1>0. TypeOK /\ request[r] # NoReport /\ "latest" \in Places \ {"idle"}
  BY DEF Books, Flush, NoReport, Places
<1>1. s \in Server /\ Active(s)
  BY <1>0, Idle DEF Books, Compared, Flush
<1>2. /\ request'[r].server = s
      /\ \A q \in Request \ {r} : request'[q] = request[q]
  BY <1>0, Moves DEF Flush
<1>3. UNCHANGED <<minute, status, latest, active, acked>>
  BY DEF Flush, service, others
<1>4. /\ active[s].minute \in Minute
      /\ samples'[s][active[s].minute] = acked[s][active[s].minute]
      /\ \A t \in Server, m \in Minute :
            t # s \/ m # active[s].minute => samples'[t][m] = samples[t][m]
  BY <1>1, Upserted DEF Flush
<1> HIDE DEF s
<1>5. \A t \in Server : Holds(t)
  BY <1>3, <1>4 DEF Holds, Exists, Stored, Expired
<1>6. FlushedBy(r)'
  BY <1>2, <1>3, <1>4 DEF FlushedBy, Stored
<1>7. \A q \in Request : FlushedBy(q)'
  BY <1>2, <1>3, <1>5, <1>6, SameReport
<1> QED BY <1>3, <1>5, <1>7, HistoryHolds

LEMMA HistoryStoreLatest ==
    ASSUME Books, History, NEW r \in Request, StoreLatest(r)
    PROVE  History'
<1> DEFINE s == request[r].server
           m == request[r].minute
           n == acked[s][m] + 1
<1>0. /\ TypeOK /\ Answer(r) /\ UNCHANGED <<status, samples, minute>>
      /\ latest' = [latest EXCEPT ![s] = m] /\ request[r].at = "latest" /\ Exists(s)
  BY DEF Books, StoreLatest, others
<1>1. /\ s \in Server /\ m \in Minute /\ active[s].minute <= m
      /\ acked' = [acked EXCEPT ![s] = [acked[s] EXCEPT ![m] = n]]
      /\ active' = [active EXCEPT ![s] = [minute |-> m, count |-> n]]
      /\ \A q \in Request \ {r} : ~Inside(q)
  BY Accepted
<1>2. Rollover(s, m) => Stored(s, active[s].minute)
  BY <1>0 DEF History, Flushed
<1> HIDE DEF s, m, n
<1>3. /\ active'[s].minute = m /\ latest'[s] = m
      /\ \A t \in Server \ {s} : /\ active'[t] = active[t] /\ latest'[t] = latest[t]
                                 /\ acked'[t] = acked[t]
      /\ \A k \in Minute \ {m} : acked'[s][k] = acked[s][k]
  BY <1>0, <1>1 DEF TypeOK
<1>4. LatestIsOfActiveMinute'
  BY <1>0, <1>3 DEF History, LatestIsOfActiveMinute, Exists, Active
<1>5. ClosedMinuteIsComplete'
  <2>1. ASSUME NEW k \in Minute, acked'[s][k] > 0, k < m
        PROVE  samples'[s][k] = acked'[s][k] \/ (samples'[s][k] = 0 /\ Expired(k)')
    <3>0. active[s].minute \in 0..MaxMinute /\ k \in 1..MaxMinute /\ m \in 1..MaxMinute
      BY <1>0, <1>1 DEF TypeOK, Accumulator, Minute
    <3>1. k # m /\ acked'[s][k] = acked[s][k] /\ acked[s][k] > 0
      BY <1>3, <2>1, <3>0
    <3>2. Stored(s, k)
      <4>1. CASE k < active[s].minute
        BY <1>0, <1>1, <3>1, <4>1 DEF History, ClosedMinuteIsComplete, Stored, s
      <4>2. CASE k = active[s].minute
        <5>1. Active(s)
          BY <3>0, <4>2 DEF Active, NoMinute
        <5> QED BY <1>2, <2>1, <4>2, <5>1 DEF Rollover
      <4>3. CASE k > active[s].minute
        <5>1. acked[s][k] = 0
          BY <1>1, <4>3 DEF Books, Counted, Counts
        <5> QED BY <3>1, <5>1
      <4> QED BY <3>0, <4>1, <4>2, <4>3, IngestAssumption
    <3> QED BY <1>0, <3>1, <3>2 DEF Stored, Expired
  <2>2. ASSUME NEW t \in Server, t # s, NEW k \in Minute, Exists(t), acked'[t][k] > 0,
               k < active'[t].minute
        PROVE  samples'[t][k] = acked'[t][k] \/ (samples'[t][k] = 0 /\ Expired(k)')
    <3>1. acked'[t] = acked[t] /\ active'[t] = active[t]
      BY <1>3, <2>2
    <3>2. samples[t][k] = acked[t][k] \/ (samples[t][k] = 0 /\ Expired(k))
      BY <2>2, <3>1 DEF History, ClosedMinuteIsComplete
    <3> QED BY <1>0, <3>1, <3>2 DEF Expired
  <2>3. \A t \in Server : Exists(t)' => Exists(t)
    BY <1>0 DEF Exists
  <2> QED BY <1>3, <2>1, <2>2, <2>3 DEF ClosedMinuteIsComplete
<1>6. Flushed'
  <2>1. \A q \in Request : request'[q].at # "latest"
    BY <1>0, <1>1 DEF Answer, TypeOK, Inside, NoReport
  <2> QED BY <2>1 DEF Flushed
<1> QED BY <1>4, <1>5, <1>6 DEF History

LEMMA HistoryHandle ==
    ASSUME Books, History, NEW r \in Request, BeginIngest(r) \/ TooOld(r) \/ IngestFails(r)
    PROVE  History'
<1>1. UNCHANGED <<minute, tables, active, acked>>
  BY DEF BeginIngest, TooOld, IngestFails, service, others
<1>2. \A s \in Server : Holds(s)
  BY <1>1, SameTables
<1>3. FlushedBy(r)'
  <2>1. CASE BeginIngest(r)
    <3> DEFINE place == IF Rollover(request[r].server, request[r].minute) THEN "flush" ELSE "latest"
    <3>1. request[r] # NoReport /\ place \in Places \ {"idle"} /\ Goto(r, place)
      BY <2>1 DEF BeginIngest, NoReport, Places
    <3>2. /\ request'[r].at = place /\ request'[r].server = request[r].server
          /\ request'[r].minute = request[r].minute
      BY <3>1, Moves DEF Books
    <3> QED BY <1>1, <3>2 DEF FlushedBy, Rollover, Active
  <2>2. CASE TooOld(r) \/ IngestFails(r)
    BY <2>2 DEF TooOld, IngestFails, Answer, FlushedBy, NoReport, Books, TypeOK
  <2> QED BY <2>1, <2>2
<1>4. ASSUME NEW q \in Request \ {r}
      PROVE  FlushedBy(q)'
  <2>1. request'[q] = request[q]
    BY DEF BeginIngest, TooOld, IngestFails, Goto, Answer, Books, TypeOK
  <2> QED BY <1>1, <1>2, <2>1, SameReport
<1> QED BY <1>1, <1>2, <1>3, <1>4, HistoryHolds

LEMMA HistoryReceive ==
    ASSUME Books, History, NEW r \in Request, NEW s \in Server, NEW m \in Minute,
           Receive(r, s, m)
    PROVE  History'
<1>1. UNCHANGED <<minute, tables, active, acked>>
  BY DEF Receive, service
<1>2. \A t \in Server : Holds(t)
  BY <1>1, SameTables
<1>3. ASSUME NEW q \in Request
      PROVE  request'[q].at = "latest" => request'[q] = request[q]
  BY DEF Receive, Books, TypeOK
<1>4. \A q \in Request : FlushedBy(q)'
  BY <1>1, <1>2, <1>3, SameReport
<1> QED BY <1>1, <1>2, <1>4, HistoryHolds

(* No handler moves and no accumulator changes.                            *)
LEMMA HistoryStays ==
    ASSUME Books, History, UNCHANGED <<active, acked, request>>, \A s \in Server : Holds(s)
    PROVE  History'
<1>1. \A q \in Request : FlushedBy(q)'
  BY SameReport
<1> QED BY <1>1, HistoryHolds

LEMMA HistoryCheckpoint ==
    ASSUME Books, History, BeginCheckpoint \/ CheckpointStep
    PROVE  History'
<1>1. ASSUME NEW s \in Server, CheckpointServer(s)
      PROVE  History'
  <2>1. UNCHANGED <<minute, status, latest, active, acked, request>>
    BY <1>1 DEF CheckpointServer
  <2>2. PICK k : k = active[s].minute
    OBVIOUS
  <2>3. /\ samples'[s][k] = acked[s][k]
        /\ \A t \in Server, m \in Minute : t # s \/ m # k => samples'[t][m] = samples[t][m]
    BY <1>1, <2>2, Upserted DEF CheckpointServer, Books, LeftAreActive
  <2>4. \A t \in Server : Holds(t)
    BY <2>1, <2>3 DEF Holds, Exists, Stored, Expired
  <2> QED BY <2>1, <2>4, HistoryStays
<1>2. CASE BeginCheckpoint \/ EndCheckpoint \/ \E s \in Server : CheckpointFails(s)
  <2>1. UNCHANGED <<minute, tables, active, acked, request>>
    BY <1>2 DEF BeginCheckpoint, EndCheckpoint, CheckpointFails, others
  <2> QED BY <2>1, SameTables, HistoryStays
<1> QED BY <1>1, <1>2 DEF CheckpointStep

(* Only the retention and a deletion take rows away, each for good.        *)
LEMMA HistoryOutside ==
    ASSUME Books, History, Outside
    PROVE  History'
<1>1. UNCHANGED <<active, acked, request>>
  BY OutsideTypes DEF Books, service
<1>2. CASE Retain \/ Start
  <2>1. UNCHANGED <<minute, status, latest>>
    BY <1>2 DEF Retain, Start
  <2>2. ASSUME NEW s \in Server, NEW m \in Minute
        PROVE  samples'[s][m] = samples[s][m] \/ (samples'[s][m] = 0 /\ Expired(m))
    BY <1>2 DEF Retain, Start, DeleteMetricSamplesBefore, Books, TypeOK
  <2>3. \A s \in Server : Holds(s)
    BY <1>1, <2>1, <2>2 DEF Holds, Exists, Stored, Expired
  <2> QED BY <1>1, <2>3, HistoryStays
<1>3. CASE Tick
  <2>1. UNCHANGED tables /\ minute' = minute + 1
    BY <1>3 DEF Tick
  <2>2. \A m \in Minute : Expired(m) => Expired(m)'
    BY <2>1, IngestAssumption DEF Expired, Books, TypeOK, Minute
  <2>3. ASSUME NEW s \in Server PROVE Holds(s)
    BY <1>1, <2>1, <2>2 DEF Holds, Exists, Stored, tables
  <2> QED BY <1>1, <2>3, HistoryStays
<1>4. CASE Stop \/ DeadlinePasses \/ Drained
  <2>1. UNCHANGED <<minute, tables>>
    BY <1>4 DEF Stop, DeadlinePasses, Drained
  <2> QED BY <1>1, <2>1, SameTables, HistoryStays
<1>5. ASSUME NEW s \in Server, NEW b \in BOOLEAN, SetEnabled(s, b)
      PROVE  History'
  <2>1. UNCHANGED <<minute, latest, samples>>
    BY <1>5 DEF SetEnabled
  <2>2. \A t \in Server : Exists(t)' => Exists(t)
    BY <1>5 DEF SetEnabled, Exists, Books, TypeOK
  <2>3. ASSUME NEW t \in Server PROVE Holds(t)
    BY <1>1, <2>1, <2>2 DEF Holds, Stored, Expired
  <2> QED BY <1>1, <2>3, HistoryStays
<1>6. ASSUME NEW s \in Server, DeleteServer(s)
      PROVE  History'
  <2>1. UNCHANGED minute /\ ~Exists(s)'
    BY <1>6 DEF DeleteServer, Exists, Books, TypeOK
  <2>2. ASSUME NEW t \in Server, t # s
        PROVE  /\ status'[t] = status[t] /\ latest'[t] = latest[t]
               /\ samples'[t] = samples[t]
    BY <1>6, <2>2 DEF DeleteServer, Books, TypeOK
  <2>3. ASSUME NEW t \in Server PROVE Holds(t)
    BY <1>1, <2>1, <2>2 DEF Holds, Exists, Stored, Expired
  <2> QED BY <1>1, <2>3, HistoryStays
<1> QED BY <1>2, <1>3, <1>4, <1>5, <1>6 DEF Outside

LEMMA HistoryGone ==
    ASSUME Gone
    PROVE  History'
<1>1. \A s \in Server : ~Active(s)'
  BY DEF Gone, Active
<1>2. \A s \in Server, m \in Minute : acked'[s][m] = 0
  BY DEF Gone, Nowhere
<1>3. \A r \in Request : request'[r].at = "idle"
  BY DEF Gone, NoReport
<1> QED BY <1>1, <1>2, <1>3
    DEF History, LatestIsOfActiveMinute, ClosedMinuteIsComplete, Flushed

LEMMA HistoryNext == Books /\ History /\ [Next]_vars => History'
<1> SUFFICES ASSUME Books, History, [Next]_vars PROVE History'
  OBVIOUS
<1>1. ASSUME NEW r \in Request, NEW s \in Server, NEW m \in Minute, Receive(r, s, m)
      PROVE  History'
  BY <1>1, HistoryReceive
<1>2. ASSUME NEW r \in Request, Handle(r)
      PROVE  History'
  BY <1>2, HistoryHandle, HistoryFlush, HistoryStoreLatest DEF Handle
<1>3. CASE BeginCheckpoint \/ CheckpointStep
  BY <1>3, HistoryCheckpoint
<1>4. CASE Outside
  BY <1>4, HistoryOutside
<1>5. CASE Exit \/ Crash
  BY <1>5, HistoryGone DEF Exit, Crash
<1>6. CASE UNCHANGED vars
  <2>1. UNCHANGED <<minute, tables, active, acked, request>>
    BY <1>6 DEF vars, service
  <2> QED BY <2>1, SameTables, HistoryStays
<1> QED BY <1>1, <1>2, <1>3, <1>4, <1>5, <1>6 DEF Next, Outside

(* What the dashboard shows of a server is of the minute that is being     *)
(* averaged.                                                               *)
THEOREM LatestFollows == Spec => []LatestIsOfActiveMinute
<1>1. Init => Books /\ History
  BY BooksInit, HistoryInit
<1>2. Books /\ History /\ [Next]_vars => (Books /\ History)'
  BY BooksNext, HistoryNext
<1>3. Books /\ History => LatestIsOfActiveMinute
  BY DEF History
<1> QED BY <1>1, <1>2, <1>3, PTL DEF Spec

(* The sample of a minute left behind averages every report accepted in it *)
(* until the retention removes it.                                         *)
THEOREM ClosedMinutesComplete == Spec => []ClosedMinuteIsComplete
<1>1. Init => Books /\ History
  BY BooksInit, HistoryInit
<1>2. Books /\ History /\ [Next]_vars => (Books /\ History)'
  BY BooksNext, HistoryNext
<1>3. Books /\ History => ClosedMinuteIsComplete
  BY DEF History
<1> QED BY <1>1, <1>2, <1>3, PTL DEF Spec

-----------------------------------------------------------------------------
(* The end of the process.                                                 *)

LEMMA EndingInit == Init => Ending
  BY DEF Init, Ending, Quiet, Checkpointed, ClosingIsAfter, InTime

(* A step that is not of the final checkpoint in time, and the clock, the  *)
(* switch of a server.                                                     *)
LEMMA EndingOff ==
    ASSUME ~InTime', app' = "closing" => lock' # Checkpoint
    PROVE  Ending'
  BY DEF Ending, Quiet, Checkpointed, ClosingIsAfter, InTime

LEMMA EndingStays ==
    ASSUME Ending, UNCHANGED <<app, graceful, deadline, failed, request, lock, left, active, acked>>,
           \A s \in Server : Exists(s)' => Exists(s) /\ samples'[s] = samples[s]
    PROVE  Ending'
<1>1. Quiet' /\ ClosingIsAfter'
  BY DEF Ending, Quiet, ClosingIsAfter, InTime, InFlight
<1>2. Checkpointed'
  BY DEF Ending, Checkpointed, InTime, Active
<1> QED BY <1>1, <1>2 DEF Ending

LEMMA EndingReceive ==
    ASSUME Books, Ending, NEW r \in Request, NEW s \in Server, NEW m \in Minute,
           Receive(r, s, m)
    PROVE  Ending'
<1>1. ~InTime' /\ UNCHANGED <<app, lock>>
  BY DEF Receive, InTime, StoreOpen, process, service
<1> QED BY <1>1, EndingOff DEF Ending, ClosingIsAfter

LEMMA EndingHandle ==
    ASSUME Books, Ending, NEW r \in Request, Handle(r)
    PROVE  Ending'
<1>1. request[r] # NoReport
  BY DEF Handle, BeginIngest, TooOld, Flush, StoreLatest, IngestFails, NoReport
<1>2. UNCHANGED process /\ lock' \in {lock, r, Free}
  BY DEF Handle, BeginIngest, TooOld, Flush, StoreLatest, IngestFails, others, service
<1>3. ~InTime
  BY <1>1 DEF Ending, Quiet, InFlight
<1> QED BY <1>2, <1>3, EndingOff, IngestAssumption DEF Ending, ClosingIsAfter, InTime, process

LEMMA EndingCheckpoint ==
    ASSUME Books, Ending, BeginCheckpoint \/ CheckpointStep
    PROVE  Ending'
<1>1. CASE BeginCheckpoint
  <2>1. /\ UNCHANGED <<process, request>> /\ app # "closing"
        /\ UNCHANGED active /\ \A s \in Server : Active(s) => s \in left'
    BY <1>1 DEF BeginCheckpoint, others, process
  <2>2. Checkpointed'
    BY <2>1 DEF Checkpointed, Active, process
  <2> QED BY <2>1, <2>2 DEF Ending, Quiet, ClosingIsAfter, InTime, InFlight, process
<1>2. CASE EndCheckpoint
  <2>1. /\ UNCHANGED <<tables, active, left, acked, request, graceful, deadline, failed>>
        /\ lock = Checkpoint /\ left = {} /\ lock' = Free
        /\ app' = IF app = "final" THEN "closing" ELSE app
    BY <1>2 DEF EndCheckpoint
  <2>2. app # "closing"
    BY <2>1 DEF Ending, ClosingIsAfter
  <2>3. InTime' => InTime
    BY <2>1, <2>2 DEF InTime
  <2>4. Checkpointed'
    BY <2>1, <2>3 DEF Ending, Checkpointed, Active, Exists, tables
  <2>5. Quiet' /\ ClosingIsAfter'
    BY <2>1, <2>3, IngestAssumption DEF Ending, Quiet, ClosingIsAfter, InFlight
  <2> QED BY <2>4, <2>5 DEF Ending
<1>3. ASSUME NEW s \in Server, CheckpointServer(s)
      PROVE  Ending'
  <2>1. /\ UNCHANGED <<status, active, lock, acked, request, process>>
        /\ lock = Checkpoint /\ left' = left \ {s} /\ s \in left
    BY <1>3 DEF CheckpointServer
  <2>2. PICK k : k = active[s].minute
    OBVIOUS
  <2>3. /\ samples'[s][k] = acked[s][k]
        /\ \A t \in Server, m \in Minute : t # s \/ m # k => samples'[t][m] = samples[t][m]
    BY <1>3, <2>2, Upserted DEF CheckpointServer, Books, LeftAreActive
  <2>4. \A t \in Server : Active(t) => active[t].minute \in Minute
    BY DEF Books, Counted, Counts
  <2>5. app # "closing"
    BY <2>1 DEF Ending, ClosingIsAfter
  <2>6. ASSUME InTime', ~failed', NEW t \in Server, Exists(t)', Active(t)', t \notin left'
        PROVE  samples'[t][active'[t].minute] = acked'[t][active'[t].minute]
    <3>1. CASE t = s
      BY <2>1, <2>2, <2>3, <3>1
    <3>2. CASE t # s
      <4>1. InTime /\ ~failed /\ Exists(t) /\ Active(t) /\ t \notin left
        BY <2>1, <2>6, <3>2 DEF InTime, Exists, Active, process
      <4>2. samples[t][active[t].minute] = acked[t][active[t].minute]
        BY <2>1, <4>1 DEF Ending, Checkpointed
      <4> QED BY <2>1, <2>3, <2>4, <3>2, <4>1, <4>2
    <3> QED BY <3>1, <3>2
  <2>7. Checkpointed'
    BY <2>1, <2>5, <2>6 DEF Checkpointed, process
  <2>8. Quiet' /\ ClosingIsAfter'
    BY <2>1 DEF Ending, Quiet, ClosingIsAfter, InFlight, InTime, process
  <2> QED BY <2>7, <2>8 DEF Ending
<1>4. ASSUME NEW s \in Server, CheckpointFails(s)
      PROVE  Ending'
  <2>1. /\ UNCHANGED <<tables, active, lock, acked, request, app, graceful, deadline>>
        /\ lock = Checkpoint /\ left' = left \ {s} /\ s \in left
        /\ failed' = (failed \/ (app = "final" /\ Exists(s) /\ ~deadline))
    BY <1>4 DEF CheckpointFails
  <2>2. app # "closing"
    BY <2>1 DEF Ending, ClosingIsAfter
  <2>3. InTime' /\ ~failed' => InTime /\ ~failed /\ ~Exists(s)
    BY <2>1, <2>2 DEF InTime
  <2>4. Checkpointed'
    BY <2>1, <2>2, <2>3 DEF Ending, Checkpointed, Exists, Active, tables
  <2>5. Quiet' /\ ClosingIsAfter'
    BY <2>1 DEF Ending, Quiet, ClosingIsAfter, InFlight, InTime
  <2> QED BY <2>4, <2>5 DEF Ending
<1> QED BY <1>1, <1>2, <1>3, <1>4 DEF CheckpointStep

LEMMA EndingOutside ==
    ASSUME Books, Ending, Outside
    PROVE  Ending'
<1>1. UNCHANGED <<active, acked, request, lock, left>>
  BY OutsideTypes DEF Books, service
<1>2. CASE Retain \/ Start \/ Stop \/ DeadlinePasses
  <2>1. ~InTime' /\ (app' = "closing" => app = "closing")
    BY <1>2 DEF Retain, Start, Stop, DeadlinePasses, InTime, process
  <2> QED BY <1>1, <2>1, EndingOff DEF Ending, ClosingIsAfter
<1>3. CASE Drained
  <2>1. /\ app' = "final" /\ lock # Checkpoint /\ UNCHANGED <<graceful, deadline>>
        /\ graceful => deadline \/ \A r \in Request : request[r] = NoReport
    BY <1>3 DEF Drained
  <2>2. Quiet'
    BY <1>1, <2>1 DEF Quiet, InTime, InFlight
  <2> QED BY <1>1, <2>1, <2>2 DEF Ending, Checkpointed, ClosingIsAfter
<1>4. CASE Tick
  BY <1>4, <1>1, EndingStays DEF Tick, tables, process, Exists
<1>5. ASSUME NEW s \in Server, NEW b \in BOOLEAN, SetEnabled(s, b)
      PROVE  Ending'
  <2>1. UNCHANGED <<samples, process>>
    BY <1>5 DEF SetEnabled
  <2>2. \A t \in Server : Exists(t)' => Exists(t)
    BY <1>5 DEF SetEnabled, Exists, Books, TypeOK
  <2> QED BY <1>1, <2>1, <2>2, EndingStays DEF process
<1>6. ASSUME NEW s \in Server, DeleteServer(s)
      PROVE  Ending'
  <2>1. UNCHANGED process /\ ~Exists(s)'
    BY <1>6 DEF DeleteServer, Exists, Books, TypeOK
  <2>2. ASSUME NEW t \in Server, t # s
        PROVE  status'[t] = status[t] /\ samples'[t] = samples[t]
    BY <1>6, <2>2 DEF DeleteServer, Books, TypeOK
  <2>3. \A t \in Server : Exists(t)' => Exists(t) /\ samples'[t] = samples[t]
    BY <2>1, <2>2 DEF Exists
  <2> QED BY <1>1, <2>1, <2>3, EndingStays DEF process
<1> QED BY <1>2, <1>3, <1>4, <1>5, <1>6 DEF Outside

LEMMA EndingNext == Books /\ Ending /\ [Next]_vars => Ending'
<1> SUFFICES ASSUME Books, Ending, [Next]_vars PROVE Ending'
  OBVIOUS
<1>1. ASSUME NEW r \in Request, NEW s \in Server, NEW m \in Minute, Receive(r, s, m)
      PROVE  Ending'
  BY <1>1, EndingReceive
<1>2. ASSUME NEW r \in Request, Handle(r)
      PROVE  Ending'
  BY <1>2, EndingHandle
<1>3. CASE BeginCheckpoint \/ CheckpointStep
  BY <1>3, EndingCheckpoint
<1>4. CASE Outside
  BY <1>4, EndingOutside
<1>5. CASE Exit \/ Crash
  BY <1>5, EndingOff DEF Exit, Crash, Gone, InTime
<1>6. CASE UNCHANGED vars
  BY <1>6, EndingStays DEF vars, tables, service, process, Exists
<1> QED BY <1>1, <1>2, <1>3, <1>4, <1>5, <1>6 DEF Next, Outside

(* A graceful end in time whose writes the store took leaves every         *)
(* accepted report in the history.                                         *)
THEOREM CleanStopKeepsAll == Spec => []CleanStopPersists
<1>1. Init => Books /\ Ending
  BY BooksInit, EndingInit
<1>2. Books /\ Ending /\ [Next]_vars => (Books /\ Ending)'
  BY BooksNext, EndingNext
<1>3. Books /\ Ending => CleanStopPersists
  BY DEF Ending, Checkpointed, InTime, CleanStopPersists
<1> QED BY <1>1, <1>2, <1>3, PTL DEF Spec

=============================================================================
