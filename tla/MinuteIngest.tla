---------------------------- MODULE MinuteIngest ----------------------------
(***************************************************************************)
(* Metric ingestion of the central server: the handlers of                 *)
(* POST /api/v1/metrics, monitoring.Service with its mutex and one         *)
(* accumulator per server, the checkpoint and retention workers, and the   *)
(* life of the process around them (serverapp.App.Serve): start, graceful  *)
(* stop under one deadline, a listener that fails, and a crash.            *)
(*                                                                         *)
(* A report is known by its server and the UTC minute it was captured in;  *)
(* an accumulator and a minute sample by the number of reports they        *)
(* average.  The store runs one statement at a time, so each repository    *)
(* call is a step, and the administrator may act between two of them, also *)
(* while the mutex is held.                                                *)
(*                                                                         *)
(* Where an operation is followed by another of nearly its name, the first *)
(* is the operation with a slip in it, kept to see a property notice.      *)
(***************************************************************************)
EXTENDS Integers, FiniteSets

CONSTANTS
    Server,     \* registered servers
    Request,    \* handler goroutines that may be in flight at once
    Free,       \* no goroutine holds the mutex
    Checkpoint, \* the goroutine that checkpoints holds the mutex
    Skew,       \* how many minutes an agent's clock is off at most
    Retention,  \* history_retention_days, in minutes
    MaxMinute,  \* bound: the clock stops here
    MaxReports, \* bound: reports ever sent
    MaxEdits    \* bound: edits by the administrator, and ends of the process

Minute == 1..MaxMinute

ASSUME IngestAssumption ==
    /\ Free \notin Request /\ Checkpoint \notin Request /\ Free # Checkpoint
    /\ Skew \in Nat /\ Retention \in Nat
    /\ MaxMinute \in Nat \ {0} /\ MaxReports \in Nat /\ MaxEdits \in Nat

VARIABLES
    minute,   \* the wall clock
    status,   \* servers: "enabled", "disabled" or "deleted"
    latest,   \* latest_metrics: the minute of captured_at_ms, 0 without a row
    samples,  \* metric_samples: reports averaged, 0 without a row
    active,   \* the accumulators: minute and count, NoMinute without one
    lock,     \* who holds the service's mutex
    left,     \* the accumulators the running checkpoint has yet to store
    request,  \* the handlers: their report and where they are
    app,      \* stage of Serve, "down" while the process is not running
    graceful, \* Serve is ending because it was asked to
    deadline, \* the deadline of the shutdown has passed
    acked,    \* auxiliary: reports this process has accepted
    failed,   \* auxiliary: the store refused a sample of the final checkpoint
    sent,     \* auxiliary: reports sent so far
    edits     \* auxiliary: edits so far

tables == <<status, latest, samples>>
service == <<active, lock, left, acked>>
process == <<app, graceful, deadline, failed>>
vars == <<minute, tables, service, request, process, sent, edits>>

NoMinute == [minute |-> 0, count |-> 0]
Accumulator == [minute: 0..MaxMinute, count: 0..MaxReports]
Places == {"idle", "waiting", "flush", "latest"}
NoReport == [at |-> "idle", server |-> "none", minute |-> 0]
Handler == {NoReport}
           \cup [at: Places \ {"idle"}, server: Server, minute: Minute]
Stages == {"down", "serving", "draining", "final", "closing"}

TypeOK ==
    /\ minute \in Minute
    /\ status \in [Server -> {"enabled", "disabled", "deleted"}]
    /\ latest \in [Server -> 0..MaxMinute]
    /\ samples \in [Server -> [Minute -> 0..MaxReports]]
    /\ active \in [Server -> Accumulator]
    /\ lock \in Request \cup {Free, Checkpoint}
    /\ left \subseteq Server
    /\ request \in [Request -> Handler]
    /\ app \in Stages
    /\ graceful \in BOOLEAN /\ deadline \in BOOLEAN /\ failed \in BOOLEAN
    /\ acked \in [Server -> [Minute -> 0..MaxReports]]
    /\ sent \in 0..MaxReports
    /\ edits \in 0..MaxEdits

Nowhere == [s \in Server |-> [m \in Minute |-> 0]]

Init ==
    /\ minute = 1
    /\ status = [s \in Server |-> "enabled"]
    /\ latest = [s \in Server |-> 0]
    /\ samples = Nowhere
    /\ active = [s \in Server |-> NoMinute] /\ acked = Nowhere
    /\ lock = Free /\ left = {}
    /\ request = [r \in Request |-> NoReport]
    /\ app = "down" /\ graceful = FALSE /\ deadline = FALSE /\ failed = FALSE
    /\ sent = 0 /\ edits = 0

Exists(s) == status[s] # "deleted"
Active(s) == active[s] # NoMinute
StoreOpen == app \in {"serving", "draining", "final"}

-----------------------------------------------------------------------------
(* The handler of a report.                                                *)

(* serveMetrics up to Ingest: an enabled server's report, well formed, is  *)
(* taken in.  Whatever is refused before has changed nothing.  A listener  *)
(* that fails leaves the open connections to their agents.                 *)
Receive(r, s, m) ==
    /\ app = "serving" \/ (StoreOpen /\ ~graceful)
    /\ request[r] = NoReport
    /\ status[s] = "enabled"
    /\ m \in (minute - Skew) .. (minute + Skew)
    /\ sent < MaxReports /\ sent' = sent + 1
    /\ request' = [request EXCEPT ![r] = [at |-> "waiting", server |-> s, minute |-> m]]
    /\ UNCHANGED <<minute, tables, service, process, edits>>

Goto(r, place) == request' = [request EXCEPT ![r].at = place]
Answer(r) == request' = [request EXCEPT ![r] = NoReport]
others == <<minute, process, sent, edits>>

(* The mutex, and the comparison with the active minute.                   *)
TooOldKeepsLock(r) ==
    /\ request[r].at = "waiting" /\ lock = Free
    /\ Active(request[r].server) /\ request[r].minute < active[request[r].server].minute
    /\ Answer(r) /\ lock' = r
    /\ UNCHANGED <<tables, active, left, acked, others>>
TooOld(r) ==
    /\ request[r].at = "waiting" /\ lock = Free
    /\ Active(request[r].server) /\ request[r].minute < active[request[r].server].minute
    /\ Answer(r)
    /\ UNCHANGED <<tables, service, others>>

Rollover(s, m) == Active(s) /\ m > active[s].minute

BeginIngestUnflushed(r) ==
    /\ request[r].at = "waiting" /\ lock = Free
    /\ ~(Active(request[r].server) /\ request[r].minute < active[request[r].server].minute)
    /\ lock' = r /\ Goto(r, "latest")
    /\ UNCHANGED <<tables, active, left, acked, others>>
BeginIngest(r) ==
    /\ request[r].at = "waiting" /\ lock = Free
    /\ ~(Active(request[r].server) /\ request[r].minute < active[request[r].server].minute)
    /\ lock' = r
    /\ Goto(r, IF Rollover(request[r].server, request[r].minute) THEN "flush" ELSE "latest")
    /\ UNCHANGED <<tables, active, left, acked, others>>

(* UpsertMinuteSample of the accumulator of s; the foreign key refuses the *)
(* row of a deleted server.                                                *)
UpsertMinuteSample(s) ==
    /\ StoreOpen /\ Exists(s)
    /\ samples' = [samples EXCEPT ![s][active[s].minute] = active[s].count]

Flush(r) ==
    /\ request[r].at = "flush"
    /\ UpsertMinuteSample(request[r].server)
    /\ Goto(r, "latest")
    /\ UNCHANGED <<status, latest, service, others>>

(* UpsertLatestMetrics, and the report enters the accumulator.             *)
StoreLatestTwice(r) ==
    LET s == request[r].server
        m == request[r].minute
    IN  /\ request[r].at = "latest" /\ StoreOpen /\ Exists(s)
        /\ latest' = [latest EXCEPT ![s] = m]
        /\ active' = [active EXCEPT ![s] =
             [minute |-> m, count |-> IF Active(s) /\ ~Rollover(s, m) THEN @.count + 2 ELSE 1]]
        /\ acked' = [acked EXCEPT ![s][m] = @ + 1]
        /\ lock' = Free /\ Answer(r)
        /\ UNCHANGED <<status, samples, left, others>>
StoreLatest(r) ==
    LET s == request[r].server
        m == request[r].minute
    IN  /\ request[r].at = "latest" /\ StoreOpen /\ Exists(s)
        /\ latest' = [latest EXCEPT ![s] = m]
        /\ active' = [active EXCEPT ![s] =
             [minute |-> m, count |-> IF Active(s) /\ ~Rollover(s, m) THEN @.count + 1 ELSE 1]]
        /\ acked' = [acked EXCEPT ![s][m] = @ + 1]
        /\ lock' = Free /\ Answer(r)
        /\ UNCHANGED <<status, samples, left, others>>

(* Either repository call fails: the report is counted nowhere.            *)
IngestFailsAhead(r) ==
    /\ request[r].at \in {"flush", "latest"}
    /\ active' = [active EXCEPT ![request[r].server] =
         IF request[r].at = "latest" THEN [minute |-> request[r].minute, count |-> 1] ELSE @]
    /\ lock' = Free /\ Answer(r)
    /\ UNCHANGED <<tables, left, acked, others>>
IngestFails(r) ==
    /\ request[r].at \in {"flush", "latest"}
    /\ lock' = Free /\ Answer(r)
    /\ UNCHANGED <<tables, active, left, acked, others>>

-----------------------------------------------------------------------------
(* Checkpoint, by the worker's ticker and at the end of Serve.             *)

BeginCheckpoint ==
    /\ app \in {"serving", "final"} /\ lock = Free
    /\ lock' = Checkpoint
    /\ left' = {s \in Server : Active(s)}
    /\ UNCHANGED <<tables, active, acked, request, others>>

(* The context of the call: the workers' ends with Serve's, the final      *)
(* checkpoint's with the deadline of the shutdown.                         *)
Cancelled == app = "draining" \/ deadline

CheckpointServer(s) ==
    /\ lock = Checkpoint /\ s \in left /\ ~Cancelled
    /\ UpsertMinuteSample(s)
    /\ left' = left \ {s}
    /\ UNCHANGED <<minute, status, latest, active, lock, acked, request, process, sent, edits>>

(* An error is kept and the other servers are still attempted.             *)
CheckpointGivesUp(s) ==
    /\ lock = Checkpoint /\ s \in left
    /\ left' = {}
    /\ failed' = (failed \/ (app = "final" /\ Exists(s) /\ ~deadline))
    /\ UNCHANGED <<minute, tables, active, lock, acked, request, app, graceful, deadline,
                   sent, edits>>
CheckpointFails(s) ==
    /\ lock = Checkpoint /\ s \in left
    /\ left' = left \ {s}
    /\ failed' = (failed \/ (app = "final" /\ Exists(s) /\ ~deadline))
    /\ UNCHANGED <<minute, tables, active, lock, acked, request, app, graceful, deadline,
                   sent, edits>>

EndCheckpoint ==
    /\ lock = Checkpoint /\ left = {}
    /\ lock' = Free
    /\ app' = IF app = "final" THEN "closing" ELSE app
    /\ UNCHANGED <<minute, tables, active, left, acked, request, graceful, deadline, failed,
                   sent, edits>>

(* RunRetentionOnce.                                                       *)
Expired(m) == m < minute - Retention
DeleteMetricSamplesBefore ==
    samples' = [s \in Server |-> [m \in Minute |-> IF Expired(m) THEN 0 ELSE samples[s][m]]]
Retain ==
    /\ app = "serving"
    /\ DeleteMetricSamplesBefore
    /\ UNCHANGED <<minute, status, latest, service, request, process, sent, edits>>

-----------------------------------------------------------------------------
(* The life of the process.                                                *)

Edit == edits < MaxEdits /\ edits' = edits + 1

(* A retention that fails at the start is logged.                          *)
Start ==
    /\ app = "down" /\ app' = "serving"
    /\ DeleteMetricSamplesBefore \/ UNCHANGED samples
    /\ UNCHANGED <<minute, status, latest, service, request, graceful, deadline, failed,
                   sent, edits>>

(* SIGTERM: the workers' context ends at once and Shutdown takes no more   *)
(* requests.  Or the listener fails, and no handler is waited for.         *)
Stop ==
    /\ app = "serving" /\ Edit
    /\ app' = "draining"
    /\ graceful' \in BOOLEAN
    /\ UNCHANGED <<minute, tables, service, request, deadline, failed, sent>>

(* The ten seconds of the shutdown: Shutdown spends them only on requests  *)
(* in flight, the final checkpoint has what remains of them.               *)
DeadlinePasses ==
    /\ \/ app = "draining" /\ graceful /\ \E r \in Request : request[r] # NoReport
       \/ app = "final"
    /\ ~deadline
    /\ deadline' = TRUE
    /\ UNCHANGED <<minute, tables, service, request, app, graceful, failed, sent, edits>>

(* Shutdown has returned and the workers are done.                         *)
Drained ==
    /\ app = "draining" /\ lock # Checkpoint
    /\ graceful => deadline \/ \A r \in Request : request[r] = NoReport
    /\ app' = "final"
    /\ UNCHANGED <<minute, tables, service, request, graceful, deadline, failed, sent, edits>>

Gone ==
    /\ app' = "down" /\ graceful' = FALSE /\ deadline' = FALSE /\ failed' = FALSE
    /\ active' = [s \in Server |-> NoMinute] /\ acked' = Nowhere
    /\ lock' = Free /\ left' = {}
    /\ request' = [r \in Request |-> NoReport]
    /\ UNCHANGED <<minute, tables, sent>>
Exit == app = "closing" /\ Gone /\ UNCHANGED edits
Crash == app # "down" /\ Edit /\ Gone

(* The administrator; deleting cascades to the metrics.                    *)
SetEnabled(s, enabled) ==
    /\ Exists(s) /\ enabled # (status[s] = "enabled") /\ Edit
    /\ status' = [status EXCEPT ![s] = IF enabled THEN "enabled" ELSE "disabled"]
    /\ UNCHANGED <<minute, latest, samples, service, request, process, sent>>
DeleteServer(s) ==
    /\ Exists(s) /\ Edit
    /\ status' = [status EXCEPT ![s] = "deleted"]
    /\ latest' = [latest EXCEPT ![s] = 0]
    /\ samples' = [samples EXCEPT ![s] = [m \in Minute |-> 0]]
    /\ UNCHANGED <<minute, service, request, process, sent>>

Tick ==
    /\ minute < MaxMinute /\ minute' = minute + 1
    /\ UNCHANGED <<tables, service, request, process, sent, edits>>

Handle(r) == BeginIngest(r) \/ TooOld(r) \/ Flush(r) \/ StoreLatest(r) \/ IngestFails(r)
CheckpointStep ==
    \/ EndCheckpoint
    \/ \E s \in Server : CheckpointServer(s) \/ CheckpointFails(s)

Next ==
    \/ \E r \in Request, s \in Server, m \in Minute : Receive(r, s, m)
    \/ \E r \in Request : Handle(r)
    \/ BeginCheckpoint \/ CheckpointStep \/ Retain
    \/ Start \/ Stop \/ DeadlinePasses \/ Drained \/ Exit \/ Crash
    \/ \E s \in Server, b \in BOOLEAN : SetEnabled(s, b)
    \/ \E s \in Server : DeleteServer(s)
    \/ Tick

Spec == Init /\ [][Next]_vars

(* A repository call ends, one way or the other, and the mutex of Go is    *)
(* starvation-free; nothing else is promised.                              *)
Fairness ==
    /\ \A r \in Request : WF_vars(Handle(r)) /\ SF_vars(BeginIngest(r) \/ TooOld(r))
    /\ WF_vars(CheckpointStep)
FairSpec == Spec /\ Fairness

-----------------------------------------------------------------------------
(* Safety.                                                                 *)

(* Once a server's reports have moved on to a later minute, the sample of  *)
(* the minute left behind averages exactly the reports accepted in it, for *)
(* good: no checkpoint writes an older count over it, no failed call drops *)
(* or repeats a report, and only the retention removes it.                 *)
ClosedMinuteIsComplete ==
    \A s \in Server, m \in Minute :
        Exists(s) /\ acked[s][m] > 0 /\ m < active[s].minute =>
            \/ samples[s][m] = acked[s][m]
            \/ samples[s][m] = 0 /\ Expired(m)

(* The dashboard and the history do not drift apart: the latest report of  *)
(* a server is one of the minute that is being averaged, whichever of the  *)
(* two repository calls failed before.                                     *)
LatestIsOfActiveMinute ==
    \A s \in Server : Exists(s) /\ Active(s) => latest[s] = active[s].minute

(* A graceful end within its deadline, whose writes the store took, leaves *)
(* every accepted report in the history; a server that was deleted         *)
(* meanwhile does not cost the others theirs.                              *)
CleanStopPersists ==
    app = "closing" /\ graceful /\ ~deadline /\ ~failed =>
        \A s \in Server : Exists(s) /\ Active(s) =>
            samples[s][active[s].minute] = acked[s][active[s].minute]

(* Liveness.                                                               *)

(* Every request is answered: no path through the service keeps the mutex. *)
EveryReportIsAnswered ==
    \A r \in Request : request[r] # NoReport ~> request[r] = NoReport
=============================================================================
