--------------------------- MODULE AgentReporting ---------------------------
(***************************************************************************)
(* One monitored host and the server it reports to: the agent's loop, its  *)
(* client, the service manager that starts it again after a failure, and   *)
(* what the metrics endpoint does with its reports.  Between them is a     *)
(* network that may lose a request, or its answer, or deliver a request    *)
(* the agent has stopped waiting for.                                      *)
(*                                                                         *)
(* Of a snapshot there is the sum of the interfaces' byte counters, and of *)
(* a report the bytes its rate stands for: rate times elapsed time.  A     *)
(* capture that fails, or a build that fails other than for a reset,       *)
(* leaves everything as it was and is no step.                             *)
(*                                                                         *)
(* Where an operation is followed by another of nearly its name, the first *)
(* is the operation with a slip in it, kept to see a property notice.      *)
(***************************************************************************)
EXTENDS Integers, FiniteSets

CONSTANTS
    Interface, \* network interfaces of the host, loopback aside
    Request,   \* requests that may be on their way at once
    MaxBytes,  \* bound: bytes the interfaces ever move
    MaxLead,   \* bound: minutes the host's clock is ever set back
    MaxFaults  \* bound: crashes, replaced interfaces, clock and token changes

ASSUME AgentAssumption ==
    /\ IsFiniteSet(Interface)
    /\ MaxBytes \in Nat /\ MaxLead \in Nat /\ MaxFaults \in Nat

Token == 1..(MaxFaults + 1)  \* in the order they are issued
None == -1                   \* no snapshot; no active minute
Sum == 0..MaxBytes

VARIABLES
    counter,  \* byte counter of each interface
    moved,    \* auxiliary: bytes the interfaces have moved
    asked,    \* the operator wants the agent to run
    env,      \* the token in agent.env
    at,       \* where the agent is: the loop, or why it is not running
    loaded,   \* the token the agent was started with
    previous, \* the previous snapshot
    request,  \* reports on their way; waited: the agent waits for the answer
    stored,   \* the server's token in the database
    enabled,  \* the server is enabled
    lead,     \* minutes the host's clock is behind the server's active minute
    accepted, \* auxiliary: bytes of the reports that were accepted
    faults    \* auxiliary: faults and edits so far

host == <<counter, moved>>
agent == <<at, loaded, previous>>
service == <<stored, enabled, lead, accepted>>
vars == <<host, asked, env, agent, request, service, faults>>

Running == {"baseline", "waiting", "sending"}
Idle == [waited |-> FALSE, token |-> 0, bytes |-> 0, behind |-> FALSE]
Requests == [waited: BOOLEAN, token: Token, bytes: Sum, behind: BOOLEAN]

TypeOK ==
    /\ counter \in [Interface -> Sum] /\ moved \in Sum
    /\ asked \in BOOLEAN /\ env \in Token
    /\ at \in Running \cup {"failed", "exited"} /\ loaded \in Token
    /\ previous \in Sum \cup {None}
    /\ at \in {"waiting", "sending"} <=> previous # None
    /\ request \in [Request -> Requests \cup {Idle}]
    /\ Cardinality({r \in Request : request[r].waited}) = IF at = "sending" THEN 1 ELSE 0
    /\ stored \in Token /\ enabled \in BOOLEAN
    /\ lead \in (0..MaxLead) \cup {None}
    /\ accepted \in Nat /\ faults \in 0..MaxFaults

Init ==
    /\ counter = [i \in Interface |-> 0] /\ moved = 0
    /\ asked = FALSE /\ env = 1
    /\ at = "exited" /\ loaded = 1 /\ previous = None
    /\ request = [r \in Request |-> Idle]
    /\ stored = 1 /\ enabled = TRUE /\ lead = None
    /\ accepted = 0 /\ faults = 0

Fault == faults < MaxFaults /\ faults' = faults + 1

-----------------------------------------------------------------------------
(* The host.                                                               *)

Move(i) ==
    /\ moved < MaxBytes /\ moved' = moved + 1
    /\ counter' = [counter EXCEPT ![i] = @ + 1]
    /\ UNCHANGED <<asked, env, agent, request, service, faults>>

(* An interface goes and comes back, counting from nothing.                *)
Replace(i) ==
    /\ Fault
    /\ counter[i] > 0 /\ counter' = [counter EXCEPT ![i] = 0]
    /\ UNCHANGED <<moved, asked, env, agent, request, service>>

(* The sum of the counters, as the number of the bytes counted.            *)
ParseNetwork == Cardinality({b \in Interface \X (1..MaxBytes) : b[2] <= counter[b[1]]})
Capture == ParseNetwork  \* of a snapshot, what the reports' bytes depend on

-----------------------------------------------------------------------------
(* The agent's loop.                                                       *)

CaptureBaseline ==
    /\ at = "baseline"
    /\ previous' = Capture /\ at' = "waiting"
    /\ UNCHANGED <<host, asked, env, loaded, request, service, faults>>

CounterRateUnchecked(old, new) == new - old
CounterRate(old, new) == IF new < old THEN 0 ELSE new - old

BuildReport == [waited |-> TRUE, token |-> loaded, behind |-> lead > 0,
                bytes |-> CounterRate(previous, Capture)]
Send(r, report) ==
    /\ request[r] = Idle
    /\ request' = [request EXCEPT ![r] = report]
    /\ at' = "sending"

(* Wait, capture, build and send: the new snapshot is the next baseline    *)
(* before anything is known of the delivery.                               *)
ReportKeepsBaseline(r) ==
    /\ at = "waiting" /\ Send(r, BuildReport)
    /\ UNCHANGED <<host, asked, env, loaded, previous, service, faults>>
Report(r) ==
    /\ at = "waiting" /\ Send(r, BuildReport)
    /\ previous' = Capture
    /\ UNCHANGED <<host, asked, env, loaded, service, faults>>

(* The processor's counters were reset, or no time has passed: there is no *)
(* report, only a new baseline.                                            *)
Rebase ==
    /\ at = "waiting"
    /\ previous' = Capture
    /\ UNCHANGED <<host, asked, env, at, loaded, request, service, faults>>

(* The process is gone, and its snapshot with it; a request it waited for  *)
(* may still arrive.                                                       *)
Gone(place) == at' = place /\ previous' = None
Unwaited(r) == [request[r] EXCEPT !.waited = FALSE]
Abandoned == request' = [r \in Request |-> Unwaited(r)]

(* The exchange fails, or takes longer than the client's timeout.          *)
GiveUp ==
    /\ at = "sending" /\ at' = "waiting" /\ Abandoned
    /\ UNCHANGED <<host, asked, env, loaded, previous, service, faults>>

-----------------------------------------------------------------------------
(* The metrics endpoint.                                                   *)

(* Success, and every failure that may pass, lead back to the loop.        *)
ToLoop(r) ==
    /\ request' = [request EXCEPT ![r] = Idle]
    /\ at' = IF request[r].waited THEN "waiting" ELSE at
    /\ UNCHANGED previous

(* A permanent failure ends the process, with an error for an exit code.   *)
ToExitAsAsked(r) ==
    /\ request' = [request EXCEPT ![r] = Idle]
    /\ IF request[r].waited THEN Gone("exited") ELSE UNCHANGED <<at, previous>>
ToExit(r) ==
    /\ request' = [request EXCEPT ![r] = Idle]
    /\ IF request[r].waited THEN Gone("failed") ELSE UNCHANGED <<at, previous>>

Authenticated(r) == request[r].token = stored /\ enabled
elsewhere == <<host, asked, env, loaded, stored, enabled, faults>>

(* A report of the active minute or a later one.  One that was captured    *)
(* behind it is in time again if the server has started anew since; one    *)
(* nobody waits for may have been overtaken.                               *)
Ingest(r) ==
    /\ request[r] # Idle /\ Authenticated(r)
    /\ request[r].behind /\ request[r].waited => lead <= 0
    /\ accepted' = accepted + request[r].bytes
    /\ lead' = IF lead = None THEN 0 ELSE lead
    /\ ToLoop(r)
    /\ UNCHANGED elsewhere

(* 401 and 403.                                                            *)
Unauthorized(r) ==
    /\ request[r] # Idle /\ ~Authenticated(r)
    /\ ToExit(r)
    /\ UNCHANGED <<elsewhere, lead, accepted>>

(* The report is of a minute before the active one: 409.                   *)
OutOfOrderEnds(r) ==
    /\ request[r] # Idle /\ Authenticated(r)
    /\ request[r].behind \/ ~request[r].waited
    /\ ToExitAsAsked(r)
    /\ UNCHANGED <<elsewhere, lead, accepted>>
OutOfOrder(r) ==
    /\ request[r] # Idle /\ Authenticated(r)
    /\ request[r].behind \/ ~request[r].waited
    /\ ToLoop(r)
    /\ UNCHANGED <<elsewhere, lead, accepted>>

(* The store fails before anything is written, or the request is lost.     *)
InternalError(r) ==
    /\ request[r] # Idle
    /\ ToLoop(r)
    /\ UNCHANGED <<elsewhere, lead, accepted>>

ServeMetrics(r) == Ingest(r) \/ Unauthorized(r) \/ OutOfOrder(r) \/ InternalError(r)

-----------------------------------------------------------------------------
(* The clock, the service manager and the operator.                        *)

(* The host's clock is set back: what it sent before is ahead of it now.   *)
ClockSetBack(n) ==
    /\ Fault /\ lead # None /\ n > lead /\ lead' = n
    /\ UNCHANGED <<host, asked, env, agent, request, stored, enabled, accepted>>

MinutePasses ==
    /\ lead > 0 /\ lead' = lead - 1
    /\ UNCHANGED <<host, asked, env, agent, request, stored, enabled, accepted, faults>>

(* A new process of the server has no active minute.                       *)
ServerRestarts ==
    /\ Fault /\ lead' = None
    /\ UNCHANGED <<host, asked, env, agent, request, stored, enabled, accepted>>

(* The process is killed or panics, or the host goes down: then every      *)
(* counter starts anew.  A SIGTERM or SIGINT is caught, and ends the agent *)
(* as Stop does; nobody but the operator is taken to send one.             *)
Crash ==
    /\ Fault
    /\ at \in Running /\ Gone("failed") /\ Abandoned
    /\ counter' \in {counter, [i \in Interface |-> 0]}
    /\ UNCHANGED <<moved, asked, env, loaded, service>>

(* A new process reads the environment file.                               *)
Run == at' = "baseline" /\ loaded' = env

(* Restart=on-failure.                                                     *)
Restart ==
    /\ at = "failed" /\ Run
    /\ UNCHANGED <<host, asked, env, previous, request, service, faults>>

Start ==
    /\ ~asked /\ asked' = TRUE /\ Run
    /\ UNCHANGED <<host, env, previous, request, service, faults>>

(* The signal cancels the loop's context, wherever it waits.               *)
Stop ==
    /\ asked /\ asked' = FALSE
    /\ Gone("exited") /\ Abandoned
    /\ UNCHANGED <<host, env, loaded, service, faults>>

RotateToken ==
    /\ Fault /\ stored' = stored + 1
    /\ UNCHANGED <<host, asked, env, agent, request, enabled, lead, accepted>>

SetEnabled ==
    /\ Fault /\ enabled' = ~enabled
    /\ UNCHANGED <<host, asked, env, agent, request, stored, lead, accepted>>

(* The new token is written to the host, whose agent is left alone.        *)
Reconfigure ==
    /\ env # stored /\ env' = stored
    /\ UNCHANGED <<host, asked, agent, request, service, faults>>

Next ==
    \/ \E i \in Interface : Move(i) \/ Replace(i)
    \/ CaptureBaseline \/ Rebase \/ GiveUp
    \/ \E r \in Request : Report(r) \/ ServeMetrics(r)
    \/ \E n \in 1..MaxLead : ClockSetBack(n)
    \/ MinutePasses \/ ServerRestarts
    \/ Crash \/ Restart \/ Start \/ Stop
    \/ RotateToken \/ SetEnabled \/ Reconfigure

Spec == Init /\ [][Next]_vars

-----------------------------------------------------------------------------
(* Safety.                                                                 *)

(* Whatever is lost, late or refused, and however often the agent starts   *)
(* again, the accepted reports stand for no more bytes than were moved: no *)
(* byte is in two reports, and a counter that starts anew is no traffic.   *)
NoByteReportedTwice == accepted <= moved

(* The agent ends for good only when it was asked to: every other end is   *)
(* one the service manager takes for a failure.                            *)
EndsOnlyIfAsked == at = "exited" => ~asked

-----------------------------------------------------------------------------
(* Liveness.  The service manager starts the agent again, /proc can be     *)
(* read and the network delivers often enough, and time passes.            *)

Answered == \E r \in Request :
    request[r].waited /\ (Ingest(r) \/ Unauthorized(r))

Fairness ==
    /\ WF_vars(Restart) /\ WF_vars(CaptureBaseline)
    /\ WF_vars(GiveUp) /\ WF_vars(MinutePasses)
    /\ \A r \in Request : WF_vars(~request[r].waited /\ ServeMetrics(r))
    /\ SF_vars(\E r \in Request : Report(r))
    /\ SF_vars(Answered)

FairSpec == Spec /\ Fairness

Trusted == asked /\ enabled /\ env = stored

(* While the agent is wanted, its server enabled and its file holds the    *)
(* server's token, its reports are accepted again and again: after a       *)
(* rotation it was not told of, after a clock that ran ahead, after any    *)
(* outage, without anyone starting it.                                     *)
HeardAgain == <>[]Trusted => []<><<\E r \in Request : Ingest(r)>>_vars
=============================================================================
