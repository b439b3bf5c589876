------------------------ MODULE AgentReportingProofs ------------------------
(***************************************************************************)
(* Theorems about AgentReporting, for every finite set of interfaces, any  *)
(* number of requests on their way, and every bound.                       *)
(*                                                                         *)
(* The inductive invariant has two parts.  Kept: types, who is waited for, *)
(* and that the agent rests exactly while nobody asks for it.  Accounted:  *)
(* every byte moved is accepted, carried by one request, or not reported   *)
(* yet, and never two of these.                                            *)
(***************************************************************************)
EXTENDS AgentReporting, FiniteSetTheorems, TLAPS

Counted == {b \in Interface \X (1..MaxBytes) : b[2] <= counter[b[1]]}
Carried == {b \in Request \X (1..MaxBytes) : b[2] <= request[b[1]].bytes}
Unreported == IF previous = None THEN 0 ELSE CounterRate(previous, Capture)

Waiting == {r \in Request : request[r].waited}
Waits == IF at = "sending" THEN \E r : Waiting = {r} ELSE Waiting = {}

Kept ==
    /\ TypeOK /\ Waits
    /\ \A i \in Interface : counter[i] <= moved
    /\ Capture <= moved
    /\ stored <= faults + 1
    /\ at = "exited" <=> ~asked

Accounted == IsFiniteSet(Carried) /\ accepted + Cardinality(Carried) + Unreported <= moved

-----------------------------------------------------------------------------
(* The counters, and the requests.                                         *)

LEMMA WaitingCount ==
    ASSUME NEW W, NEW place, IF place = "sending" THEN \E r : W = {r} ELSE W = {}
    PROVE  Cardinality(W) = IF place = "sending" THEN 1 ELSE 0
  BY FS_EmptySet, FS_Singleton

LEMMA CountedFinite == IsFiniteSet(Counted) /\ Capture = Cardinality(Counted) /\ Capture \in Nat
<1>1. IsFiniteSet(1..MaxBytes) /\ IsFiniteSet(Interface)
  BY FS_Interval, AgentAssumption
<1>2. IsFiniteSet(Interface \X (1..MaxBytes))
  BY <1>1, FS_Product
<1>3. IsFiniteSet(Counted)
  BY <1>2, FS_Subset DEF Counted
<1> QED BY <1>3, FS_CardinalityType DEF Counted, Capture, ParseNetwork

LEMMA Counts ==
    ASSUME TypeOK, NEW i \in Interface, Move(i), counter[i] <= moved
    PROVE  Capture' = Capture + 1 /\ counter' \in [Interface -> Sum] /\ moved' \in Sum
<1>1. /\ moved' = moved + 1 /\ moved < MaxBytes /\ moved \in Nat
      /\ counter' = [counter EXCEPT ![i] = counter[i] + 1] /\ counter[i] \in Nat
  BY AgentAssumption DEF Move, TypeOK, Sum
<1>2. counter[i] + 1 \in 1..MaxBytes
  BY <1>1, AgentAssumption
<1> DEFINE byte == <<i, counter[i] + 1>>
<1>3. byte \in Interface \X (1..MaxBytes) /\ byte \notin Counted
  BY <1>1, <1>2 DEF Counted
<1>4. Counted' = Counted \cup {byte}
  <2>1. ASSUME NEW b \in Interface \X (1..MaxBytes)
        PROVE  b[2] <= counter'[b[1]] <=> (b[2] <= counter[b[1]] \/ b = byte)
    <3>1. b[1] \in Interface /\ b[2] \in Int /\ b = <<b[1], b[2]>> /\ counter[b[1]] \in Int
      BY AgentAssumption DEF TypeOK, Sum
    <3>2. CASE b[1] = i
      <4>1. counter'[b[1]] = counter[i] + 1
        BY <1>1, <3>2 DEF TypeOK
      <4> QED BY <1>1, <3>1, <3>2, <4>1
    <3>3. CASE b[1] # i
      <4>1. counter'[b[1]] = counter[b[1]]
        BY <1>1, <3>1, <3>3 DEF TypeOK
      <4> QED BY <3>1, <3>3, <4>1
    <3> QED BY <3>2, <3>3
  <2> QED BY <1>3, <2>1 DEF Counted
<1>5. Capture' = Cardinality(Counted')
  BY DEF Capture, ParseNetwork, Counted
<1>6. Capture' = Capture + 1
  BY <1>3, <1>4, <1>5, CountedFinite, FS_AddElement
<1>7. moved' \in Sum /\ counter' \in [Interface -> Sum]
  BY <1>1, <1>2, AgentAssumption DEF TypeOK, Sum
<1> QED BY <1>6, <1>7

LEMMA StartsAnew ==
    ASSUME TypeOK, counter' \in [Interface -> Sum],
           \A i \in Interface : counter'[i] <= counter[i]
    PROVE  Capture' \in Nat /\ Capture' <= Capture
<1>1. ASSUME NEW b \in Interface \X (1..MaxBytes), b[2] <= counter'[b[1]]
      PROVE  b[2] <= counter[b[1]]
  <2>1. /\ b[1] \in Interface /\ b[2] \in Int /\ counter[b[1]] \in Int /\ counter'[b[1]] \in Int
        /\ counter'[b[1]] <= counter[b[1]]
    BY AgentAssumption DEF TypeOK, Sum
  <2> QED BY <1>1, <2>1
<1>2. Counted' \subseteq Counted
  BY <1>1 DEF Counted
<1>3. Capture' = Cardinality(Counted')
  BY DEF Capture, ParseNetwork, Counted
<1> QED BY <1>2, <1>3, CountedFinite, FS_Subset, FS_CardinalityType

(* What one request carries.                                               *)
LEMMA Bundle ==
    ASSUME NEW r, NEW n \in Nat
    PROVE  IsFiniteSet({r} \X (1..n)) /\ Cardinality({r} \X (1..n)) = n
<1>1. IsFiniteSet(1..n) /\ Cardinality(1..n) = n
  BY FS_Interval
<1>2. IsFiniteSet({r}) /\ Cardinality({r}) = 1
  BY FS_Singleton
<1>3. /\ IsFiniteSet({r} \X (1..n))
      /\ Cardinality({r} \X (1..n)) = Cardinality({r}) * Cardinality(1..n)
  BY <1>1, <1>2, FS_Product
<1> QED BY <1>1, <1>2, <1>3

LEMMA Loaded ==
    ASSUME TypeOK, IsFiniteSet(Carried), NEW r \in Request, request[r].bytes = 0,
           NEW h, h.bytes \in Sum, request' = [request EXCEPT ![r] = h]
    PROVE  IsFiniteSet(Carried') /\ Cardinality(Carried') = Cardinality(Carried) + h.bytes
<1> DEFINE new == {r} \X (1..h.bytes)
<1>1. h.bytes \in Nat /\ h.bytes <= MaxBytes
  BY AgentAssumption DEF Sum
<1>2. ASSUME NEW b \in Request \X (1..MaxBytes)
      PROVE  b[2] <= request'[b[1]].bytes <=> (b[2] <= request[b[1]].bytes \/ b \in new)
  <2>1. b[1] \in Request /\ b[2] \in 1..MaxBytes /\ b = <<b[1], b[2]>>
    OBVIOUS
  <2>2. CASE b[1] = r
    <3>1. request'[b[1]] = h /\ request[b[1]].bytes = 0
      BY <2>2 DEF TypeOK
    <3>2. b \in new <=> b[2] \in 1..h.bytes
      BY <2>1, <2>2
    <3> QED BY <1>1, <2>1, <3>1, <3>2, AgentAssumption
  <2>3. CASE b[1] # r
    <3>1. request'[b[1]] = request[b[1]] /\ b \notin new
      BY <2>1, <2>3 DEF TypeOK
    <3> QED BY <3>1
  <2> QED BY <2>2, <2>3
<1>3. new \subseteq Request \X (1..MaxBytes)
  BY <1>1, AgentAssumption
<1>4. Carried' = Carried \cup new
  BY <1>2, <1>3 DEF Carried
<1>5. Carried \cap new = {}
  <2>1. ASSUME NEW b \in new, b \in Carried
        PROVE  FALSE
    BY <1>1, <2>1 DEF Carried
  <2> QED BY <2>1
<1>6. IsFiniteSet(new) /\ Cardinality(new) = h.bytes
  BY <1>1, Bundle
<1> HIDE DEF new
<1>7. /\ IsFiniteSet(Carried \cup new)
      /\ Cardinality(Carried \cup new) = Cardinality(Carried) + Cardinality(new) - Cardinality({})
  BY <1>5, <1>6, FS_Union
<1> QED BY <1>1, <1>4, <1>6, <1>7, FS_EmptySet, FS_CardinalityType

LEMMA Unloaded ==
    ASSUME TypeOK, IsFiniteSet(Carried), NEW r \in Request, request[r].bytes \in Sum,
           NEW h, h.bytes = 0, request' = [request EXCEPT ![r] = h]
    PROVE  /\ IsFiniteSet(Carried')
           /\ Cardinality(Carried') = Cardinality(Carried) - request[r].bytes
<1> DEFINE old == {r} \X (1..request[r].bytes)
<1>1. request[r].bytes \in Nat /\ request[r].bytes <= MaxBytes
  BY AgentAssumption DEF Sum
<1>2. ASSUME NEW b \in Request \X (1..MaxBytes)
      PROVE  b[2] <= request'[b[1]].bytes <=> (b[2] <= request[b[1]].bytes /\ b \notin old)
  <2>1. b[1] \in Request /\ b[2] \in 1..MaxBytes /\ b = <<b[1], b[2]>>
    OBVIOUS
  <2>2. CASE b[1] = r
    <3>1. request'[b[1]].bytes = 0
      BY <2>2 DEF TypeOK
    <3>2. b \in old <=> b[2] \in 1..request[r].bytes
      BY <2>1, <2>2
    <3> QED BY <1>1, <2>1, <2>2, <3>1, <3>2, AgentAssumption
  <2>3. CASE b[1] # r
    <3>1. request'[b[1]] = request[b[1]] /\ b \notin old
      BY <2>1, <2>3 DEF TypeOK
    <3> QED BY <3>1
  <2> QED BY <2>2, <2>3
<1>3. Carried' = Carried \ old
  BY <1>2 DEF Carried
<1>4. Carried \cap old = old
  <2>1. old \subseteq Carried
    BY <1>1, AgentAssumption DEF Carried
  <2> QED BY <2>1
<1>5. IsFiniteSet(old) /\ Cardinality(old) = request[r].bytes
  BY <1>1, Bundle
<1> HIDE DEF old
<1>6. /\ IsFiniteSet(Carried \ old)
      /\ Cardinality(Carried \ old) = Cardinality(Carried) - Cardinality(Carried \cap old)
  BY FS_Difference
<1> QED BY <1>3, <1>4, <1>5, <1>6

LEMMA Abandons ==
    ASSUME TypeOK, Abandoned
    PROVE  /\ request' \in [Request -> Requests \cup {Idle}]
           /\ Waiting' = {} /\ Carried' = Carried
<1>1. ASSUME NEW r \in Request
      PROVE  /\ request'[r] \in Requests \cup {Idle}
             /\ ~request'[r].waited /\ request'[r].bytes = request[r].bytes
  <2>1. request'[r] = [request[r] EXCEPT !.waited = FALSE]
    BY DEF Abandoned, Unwaited
  <2>2. CASE request[r] \in Requests
    BY <2>1, <2>2 DEF Requests
  <2>3. CASE request[r] = Idle
    <3>1. request'[r] = [Idle EXCEPT !.waited = FALSE]
      BY <2>1, <2>3
    <3>2. Idle \in [waited: BOOLEAN, token: Nat, bytes: Nat, behind: BOOLEAN] /\ ~Idle.waited
      BY DEF Idle
    <3>3. [Idle EXCEPT !.waited = FALSE] = Idle
      BY <3>2
    <3> QED BY <2>3, <3>1, <3>2, <3>3
  <2> QED BY <2>2, <2>3 DEF TypeOK
<1>2. request' = [r \in Request |-> request'[r]]
  BY DEF Abandoned
<1>3. \A b \in Request \X (1..MaxBytes) : request'[b[1]].bytes = request[b[1]].bytes
  BY <1>1
<1> QED BY <1>1, <1>2, <1>3 DEF Waiting, Carried

LEMMA Rates ==
    /\ \A m, n \in Nat : CounterRate(m, n) \in Nat /\ CounterRate(m, n) <= n
    /\ \A n \in Nat : CounterRate(n, n) = 0
    /\ \A l, m, n \in Nat : m <= n => CounterRate(l, m) <= CounterRate(l, n)
    /\ \A m, n \in Nat : CounterRate(m, n + 1) <= CounterRate(m, n) + 1
  BY DEF CounterRate

LEMMA AtMostNext == \A l, m, n \in Int : l <= m + 1 /\ m <= n => l <= n + 1
  OBVIOUS

LEMMA Unreporteds ==
    ASSUME TypeOK
    PROVE  Unreported \in Nat /\ (previous # None => previous \in Nat /\ Unreported <= Capture)
<1>1. Capture \in Nat
  BY CountedFinite
<1>2. previous # None => previous \in Nat
  BY AgentAssumption DEF TypeOK, Sum
<1> QED BY <1>1, <1>2, Rates DEF Unreported

-----------------------------------------------------------------------------
(* Step by step.                                                           *)

LEMMA AccountInit == Init => Kept /\ Accounted
<1> SUFFICES ASSUME Init PROVE Kept /\ Accounted
  OBVIOUS
<1>1. Counted = {} /\ Capture = 0
  <2>1. Counted = {}
    BY DEF Init, Counted
  <2> QED BY <2>1, FS_EmptySet DEF Counted, Capture, ParseNetwork
<1>2. Carried = {} /\ Waiting = {}
  BY DEF Init, Carried, Waiting, Idle
<1>3. TypeOK
  <2>1. Cardinality({r \in Request : request[r].waited}) = 0
    BY <1>2, FS_EmptySet DEF Waiting
  <2>2. 0 \in Sum /\ 1 \in Token /\ 0 \in 0..MaxFaults /\ 0 \in Nat
    BY AgentAssumption DEF Sum, Token
  <2>3. /\ counter \in [Interface -> Sum]
        /\ request \in [Request -> Requests \cup {Idle}]
    BY <2>2 DEF Init
  <2>4. at = "exited" /\ previous = None
    BY DEF Init
  <2> QED BY <2>1, <2>2, <2>3, <2>4 DEF Init, TypeOK, None
<1>4. Kept
  BY <1>1, <1>2, <1>3 DEF Init, Kept, Waits
<1>5. Accounted
  BY <1>2, FS_EmptySet DEF Init, Accounted, Unreported
<1> QED BY <1>4, <1>5

LEMMA Waited ==
    ASSUME Waits'
    PROVE  Cardinality({r \in Request : request'[r].waited}) = IF at' = "sending" THEN 1 ELSE 0
<1>1. Cardinality(Waiting') = IF at' = "sending" THEN 1 ELSE 0
  BY WaitingCount DEF Waits
<1> QED BY <1>1 DEF Waiting

(* Where the interfaces rest, it is enough to follow the process and the   *)
(* requests: nothing becomes unreported that was not.                      *)
LEMMA Settles ==
    ASSUME Kept, Accounted, UNCHANGED host, TypeOK', Waits',
           stored' <= faults' + 1, at' = "exited" <=> ~asked',
           Unreported' \in {0, Unreported}, IsFiniteSet(Carried'),
           accepted' + Cardinality(Carried') + Unreported'
              <= accepted + Cardinality(Carried) + Unreported
    PROVE  Kept' /\ Accounted'
<1>1. UNCHANGED <<counter, moved, Capture>>
  BY DEF host, Capture, ParseNetwork
<1>2. Kept'
  BY <1>1 DEF Kept
<1>3. /\ moved \in Int /\ accepted \in Int /\ accepted' \in Int
      /\ Unreported \in Int /\ Unreported' \in Int
      /\ Cardinality(Carried) \in Int /\ Cardinality(Carried') \in Int
  <2>1. moved \in Int /\ accepted \in Int /\ accepted' \in Int
    BY AgentAssumption DEF Kept, TypeOK, Sum
  <2>2. Unreported \in Int /\ Unreported' \in Int
    BY Unreporteds DEF Kept
  <2>3. Cardinality(Carried) \in Int /\ Cardinality(Carried') \in Int
    BY FS_CardinalityType DEF Accounted
  <2> QED BY <2>1, <2>2, <2>3
<1>4. accepted' + Cardinality(Carried') + Unreported' <= moved
  BY <1>3 DEF Accounted
<1> QED BY <1>1, <1>2, <1>4 DEF Accounted

(* The interfaces.                                                         *)
LEMMA AccountHost ==
    ASSUME Kept, Accounted, NEW i \in Interface, Move(i) \/ Replace(i)
    PROVE  Kept' /\ Accounted'
<1>0. TypeOK /\ UNCHANGED <<asked, env, agent, request, service>>
  BY DEF Kept, Move, Replace
<1>1. Capture \in Nat /\ moved \in Nat /\ counter[i] <= moved
  BY CountedFinite, AgentAssumption DEF Kept, TypeOK, Sum
<1>2. CASE Move(i)
  <2>1. Capture' = Capture + 1 /\ counter' \in [Interface -> Sum] /\ moved' \in Sum
    BY <1>0, <1>1, <1>2, Counts
  <2>2. moved' = moved + 1 /\ UNCHANGED faults
    BY <1>2 DEF Move
  <2>3. \A j \in Interface : counter'[j] <= moved'
    <3>1. ASSUME NEW j \in Interface
          PROVE  counter'[j] <= counter[j] + 1 /\ counter[j] <= moved /\ counter[j] \in Nat
      BY <1>0, <1>2, AgentAssumption DEF Move, Kept, TypeOK, Sum
    <3>2. \A j \in Interface : counter'[j] \in Int
      BY <2>1, AgentAssumption DEF Sum
    <3> QED BY <1>1, <2>2, <3>1, <3>2
  <2>4. TypeOK'
    BY <1>0, <2>1, <2>2 DEF TypeOK, agent, service
  <2>5. Kept'
    BY <1>0, <1>1, <2>1, <2>2, <2>3, <2>4 DEF Kept, Waits, Waiting, agent, service
  <2>6. Unreported' <= Unreported + 1
    BY <1>0, <1>1, <2>1, Unreporteds, Rates DEF Unreported, agent
  <2>7. Unreported \in Nat /\ Unreported' \in Nat
    BY <1>0, <1>1, <2>1, Unreporteds, Rates DEF Unreported, agent
  <2>8. UNCHANGED <<Carried, accepted>> /\ accepted \in Nat
    BY <1>0 DEF Carried, service, TypeOK
  <2> QED BY <1>1, <2>2, <2>5, <2>6, <2>7, <2>8, FS_CardinalityType DEF Accounted
<1>3. CASE Replace(i)
  <2>1. UNCHANGED moved /\ counter' = [counter EXCEPT ![i] = 0]
    BY <1>3 DEF Replace
  <2>2. /\ counter' \in [Interface -> Sum]
        /\ \A j \in Interface : counter'[j] <= counter[j]
    BY <1>0, <2>1, AgentAssumption DEF TypeOK, Sum
  <2>3. Capture' \in Nat /\ Capture' <= Capture
    BY <1>0, <2>2, StartsAnew
  <2>4. faults' \in 0..MaxFaults /\ faults <= faults' /\ faults \in Nat
    BY <1>0, <1>3, AgentAssumption DEF Replace, Fault, TypeOK
  <2>5. TypeOK'
    BY <1>0, <2>1, <2>2, <2>4 DEF TypeOK, agent, service
  <2>6. \A j \in Interface : counter'[j] <= moved'
    BY <1>0, <1>1, <2>1, AgentAssumption DEF Kept, TypeOK, Sum
  <2>7. Kept'
    <3>1. stored' <= faults' + 1
      <4>1. stored' = stored /\ stored \in Int /\ stored <= faults + 1
        BY <1>0 DEF Kept, service, TypeOK, Token
      <4>2. faults' \in Int /\ faults \in Int /\ faults <= faults'
        BY <2>4
      <4>3. stored <= faults' + 1
        BY <4>1, <4>2, AtMostNext
      <4> QED BY <4>1, <4>3
    <3>2. Capture' <= moved'
      BY <1>1, <2>1, <2>3 DEF Kept
    <3> QED BY <1>0, <2>5, <2>6, <3>1, <3>2 DEF Kept, Waits, Waiting, agent
  <2>8. Unreported' <= Unreported /\ Unreported \in Nat /\ Unreported' \in Nat
    BY <1>0, <1>1, <2>3, Unreporteds, Rates DEF Unreported, agent
  <2>9. UNCHANGED <<Carried, accepted>> /\ accepted \in Nat
    BY <1>0 DEF Carried, service, TypeOK
  <2> QED BY <1>1, <2>1, <2>7, <2>8, <2>9, FS_CardinalityType DEF Accounted
<1> QED BY <1>2, <1>3

LEMMA TypeSettles ==
    ASSUME TypeOK, UNCHANGED <<host, asked, env, loaded, service, faults>>,
           at' \in {"waiting", "sending"}, previous' \in Sum, previous' # None,
           request' \in [Request -> Requests \cup {Idle}],
           Cardinality({r \in Request : request'[r].waited})
              = IF at' = "sending" THEN 1 ELSE 0
    PROVE  TypeOK'
<1>1. /\ counter' \in [Interface -> Sum] /\ moved' \in Sum
      /\ asked' \in BOOLEAN /\ env' \in Token /\ loaded' \in Token
  BY DEF TypeOK, host
<1>2. /\ stored' \in Token /\ enabled' \in BOOLEAN
      /\ lead' \in (0..MaxLead) \cup {None}
      /\ accepted' \in Nat /\ faults' \in 0..MaxFaults
  BY DEF TypeOK, service
<1>3. at' \in Running \cup {"failed", "exited"}
  BY DEF Running
<1> QED BY <1>1, <1>2, <1>3 DEF TypeOK

(* The steps that only look at the request and the process.                *)
LEMMA AccountBaseline ==
    ASSUME Kept, Accounted, CaptureBaseline \/ Rebase \/ GiveUp
    PROVE  Kept' /\ Accounted'
<1>0. /\ TypeOK /\ Waits /\ UNCHANGED <<host, asked, env, loaded, service, faults>>
      /\ at \in {"baseline", "waiting", "sending"} /\ at' = "waiting" /\ asked
  BY DEF Kept, CaptureBaseline, Rebase, GiveUp, agent
<1>1. Capture \in Nat /\ Capture' = Capture /\ Capture \in Sum
  BY <1>0, CountedFinite, AgentAssumption
  DEF host, Capture, ParseNetwork, Kept, TypeOK, Sum
<1>2. stored' <= faults' + 1 /\ UNCHANGED accepted
  BY <1>0 DEF Kept, service
<1>3. CASE CaptureBaseline \/ Rebase
  <2>1. UNCHANGED request /\ previous' = Capture /\ at # "sending"
    BY <1>3 DEF CaptureBaseline, Rebase
  <2>2. UNCHANGED <<Waiting, Carried>>
    BY <2>1 DEF Waiting, Carried
  <2>3. Waits'
    BY <1>0, <2>1, <2>2 DEF Waits
  <2>4. Cardinality({r \in Request : request'[r].waited}) = 0
    BY <2>1, <2>2, <1>0, FS_EmptySet DEF Waits, Waiting
  <2>5. previous' \in Sum /\ previous' # None
    BY <1>1, <2>1 DEF None
  <2>6. TypeOK'
    BY <1>0, <2>1, <2>4, <2>5, TypeSettles DEF TypeOK
  <2>7. Unreported' = 0
    BY <1>1, <2>1, <2>5, Rates DEF Unreported
  <2>8. Unreported \in Nat
    BY <1>0, Unreporteds
  <2> QED BY <1>0, <1>2, <2>2, <2>3, <2>6, <2>7, <2>8, Settles,
             FS_CardinalityType DEF Accounted, TypeOK
<1>4. CASE GiveUp
  <2>1. Abandoned /\ UNCHANGED previous /\ at = "sending"
    BY <1>4 DEF GiveUp
  <2>2. /\ request' \in [Request -> Requests \cup {Idle}]
        /\ Waiting' = {} /\ Carried' = Carried
    BY <1>0, <2>1, Abandons
  <2>3. Waits'
    BY <1>0, <2>2 DEF Waits
  <2>4. Cardinality({r \in Request : request'[r].waited}) = 0
    BY <2>2, FS_EmptySet DEF Waiting
  <2>5. TypeOK'
    <3>1. previous' \in Sum /\ previous' # None
      BY <1>0, <2>1 DEF TypeOK, None
    <3> QED BY <1>0, <2>2, <2>4, <3>1, TypeSettles
  <2>6. Unreported' = Unreported /\ Unreported \in Nat
    BY <1>0, <1>1, <2>1, Unreporteds DEF Unreported
  <2> QED BY <1>0, <1>2, <2>2, <2>3, <2>5, <2>6, Settles,
             FS_CardinalityType DEF Accounted, TypeOK
<1> QED BY <1>3, <1>4

(* A report takes on what was unreported, and leaves nothing so.           *)
LEMMA AccountReport ==
    ASSUME Kept, Accounted, NEW r \in Request, Report(r)
    PROVE  Kept' /\ Accounted'
<1>0. /\ TypeOK /\ Waits /\ UNCHANGED <<host, asked, env, loaded, service, faults>>
      /\ at = "waiting" /\ at' = "sending" /\ previous' = Capture /\ request[r] = Idle
      /\ request' = [request EXCEPT ![r] = BuildReport]
  BY DEF Kept, Report, Send
<1>1. Capture \in Nat /\ Capture' = Capture /\ Capture \in Sum
  BY <1>0, CountedFinite, AgentAssumption
  DEF host, Capture, ParseNetwork, Kept, TypeOK, Sum
<1>2. stored' <= faults' + 1 /\ UNCHANGED accepted /\ accepted \in Nat
  BY <1>0 DEF Kept, service, TypeOK
<1>3. previous # None /\ previous \in Nat
  BY <1>0, Unreporteds DEF TypeOK
<1>4. /\ BuildReport.bytes = Unreported /\ Unreported \in Nat
      /\ BuildReport.bytes \in Sum /\ BuildReport \in Requests /\ BuildReport.waited
  <2>1. CounterRate(previous, Capture) \in Sum
    <3>1. /\ CounterRate(previous, Capture) \in Nat
          /\ CounterRate(previous, Capture) <= Capture
      BY <1>1, <1>3, Rates
    <3>2. Capture <= MaxBytes
      BY <1>1, AgentAssumption DEF Sum
    <3> QED BY <1>1, <3>1, <3>2, AgentAssumption DEF Sum
  <2>2. (lead > 0) \in BOOLEAN /\ loaded \in Token
    BY <1>0 DEF TypeOK
  <2> QED BY <1>0, <1>3, <2>1, <2>2, Unreporteds DEF BuildReport, Unreported, Requests
<1>5. /\ IsFiniteSet(Carried')
      /\ Cardinality(Carried') = Cardinality(Carried) + Unreported
  <2>1. request[r].bytes = 0
    BY <1>0 DEF Idle
  <2> QED BY <1>0, <1>4, <2>1, Loaded DEF Accounted
<1>6. Waiting' = {r}
  <2>1. Waiting = {}
    BY <1>0 DEF Waits
  <2>2. request'[r].waited /\ \A s \in Request : s # r => request'[s] = request[s]
    BY <1>0, <1>4 DEF TypeOK
  <2> QED BY <2>1, <2>2 DEF Waiting
<1>7. Waits'
  BY <1>0, <1>6 DEF Waits
<1>8. TypeOK'
  <2>1. Cardinality({s \in Request : request'[s].waited}) = 1
    BY <1>6, FS_Singleton DEF Waiting
  <2>2. request' \in [Request -> Requests \cup {Idle}]
    BY <1>0, <1>4 DEF TypeOK
  <2>3. previous' \in Sum /\ previous' # None
    BY <1>0, <1>1 DEF None
  <2> QED BY <1>0, <2>1, <2>2, <2>3, TypeSettles
<1>9. Unreported' = 0
  BY <1>0, <1>1, Rates DEF Unreported, None
<1>10. Cardinality(Carried) \in Nat
  BY FS_CardinalityType DEF Accounted
<1>11. at' = "exited" <=> ~asked'
  BY <1>0 DEF Kept
<1> QED BY <1>0, <1>2, <1>4, <1>5, <1>7, <1>8, <1>9, <1>10, <1>11, Settles

(* What every answer does: the request is over; if the agent waited for    *)
(* it, the agent goes on or fails.                                         *)
LEMMA Answers ==
    ASSUME NEW r, ServeMetrics(r)
    PROVE  /\ request[r] # Idle /\ request' = [request EXCEPT ![r] = Idle]
           /\ UNCHANGED elsewhere
           /\ \/ accepted' = accepted + request[r].bytes /\ lead' \in {0, lead}
              \/ UNCHANGED <<accepted, lead>>
           /\ IF request[r].waited
              THEN (at' = "waiting" /\ previous' = previous) \/ (at' = "failed" /\ previous' = None)
              ELSE at' = at /\ previous' = previous
<1>1. CASE Ingest(r)
  BY <1>1 DEF Ingest, ToLoop
<1>2. CASE Unauthorized(r)
  BY <1>2 DEF Unauthorized, ToExit, Gone
<1>3. CASE OutOfOrder(r)
  BY <1>3 DEF OutOfOrder, ToLoop
<1>4. CASE InternalError(r)
  BY <1>4 DEF InternalError, ToLoop
<1> QED BY <1>1, <1>2, <1>3, <1>4 DEF ServeMetrics

LEMMA AccountServe ==
    ASSUME Kept, Accounted, NEW r \in Request, ServeMetrics(r)
    PROVE  Kept' /\ Accounted'
<1>0. TypeOK /\ Waits /\ request[r] \in Requests /\ UNCHANGED elsewhere
  BY Answers DEF Kept, TypeOK
<1>1. /\ request[r].bytes \in Sum /\ request[r].bytes \in Nat
      /\ request' = [request EXCEPT ![r] = Idle]
  BY <1>0, Answers, AgentAssumption DEF Requests, Sum
<1>2. /\ IsFiniteSet(Carried')
      /\ Cardinality(Carried') = Cardinality(Carried) - request[r].bytes
  BY <1>0, <1>1, Unloaded DEF Accounted, Idle
<1>3. accepted \in Nat /\ accepted' \in {accepted, accepted + request[r].bytes}
  BY <1>0, Answers DEF TypeOK
<1>4. Cardinality(Carried) \in Nat /\ Unreported \in Nat
  BY <1>0, Unreporteds, FS_CardinalityType DEF Accounted
<1>5. Waiting' = Waiting \ {r}
  <2>1. ~request'[r].waited /\ \A s \in Request : s # r => request'[s] = request[s]
    BY <1>1 DEF TypeOK, Idle, Kept
  <2> QED BY <2>1 DEF Waiting
<1>6. /\ Waits' /\ at' \in Running \cup {"failed", "exited"}
      /\ at' \in {"waiting", "sending"} <=> previous' # None
      /\ at' = "exited" <=> ~asked'
      /\ previous' \in {previous, None}
  <2>1. CASE request[r].waited
    <3>1. Waiting = {r} /\ at = "sending"
      BY <1>0, <2>1 DEF Waits, Waiting
    <3>2. \/ at' = "waiting" /\ previous' = previous
          \/ at' = "failed" /\ previous' = None
      BY <2>1, Answers
    <3>3. asked' /\ previous # None
      BY <1>0, <3>1 DEF Kept, TypeOK, elsewhere
    <3>4. Waiting' = {}
      BY <1>5, <3>1
    <3> QED BY <3>2, <3>3, <3>4 DEF Waits, Running
  <2>2. CASE ~request[r].waited
    <3>1. Waiting' = Waiting
      BY <1>5, <2>2 DEF Waiting
    <3>2. UNCHANGED <<at, previous, asked>>
      BY <1>0, <2>2, Answers DEF elsewhere
    <3> QED BY <1>0, <3>1, <3>2 DEF Waits, Kept, TypeOK
  <2> QED BY <2>1, <2>2
<1>7. request' \in [Request -> Requests \cup {Idle}]
  BY <1>0, <1>1 DEF TypeOK
<1>8. accepted' \in Nat /\ lead' \in (0..MaxLead) \cup {None}
  <2>1. accepted' \in Nat
    BY <1>1, <1>3
  <2>2. lead' \in {0, lead} /\ 0 \in 0..MaxLead
    BY Answers, AgentAssumption
  <2> QED BY <1>0, <2>1, <2>2 DEF TypeOK
<1>9. TypeOK'
  <2>1. /\ counter' \in [Interface -> Sum] /\ moved' \in Sum
        /\ asked' \in BOOLEAN /\ env' \in Token /\ loaded' \in Token
        /\ stored' \in Token /\ enabled' \in BOOLEAN /\ faults' \in 0..MaxFaults
    BY <1>0 DEF TypeOK, elsewhere, host
  <2>2. previous' \in Sum \cup {None}
    BY <1>0, <1>6 DEF TypeOK
  <2> QED BY <1>6, <1>7, <1>8, <2>1, <2>2, Waited DEF TypeOK
<1>10. Unreported' \in {0, Unreported}
  <2>1. Capture' = Capture
    BY <1>0 DEF elsewhere, host, Capture, ParseNetwork
  <2> QED BY <1>6, <2>1 DEF Unreported
<1>11. UNCHANGED host /\ stored' <= faults' + 1
  BY <1>0 DEF elsewhere, Kept
<1>12. accepted' + Cardinality(Carried') + Unreported'
          <= accepted + Cardinality(Carried) + Unreported
  BY <1>1, <1>2, <1>3, <1>4, <1>10
<1> QED BY <1>2, <1>6, <1>9, <1>10, <1>11, <1>12, Settles

(* The clock, the server and the operator's hand: they touch neither the   *)
(* counters nor a request.                                                 *)
LEMMA AccountElsewhere ==
    ASSUME Kept, Accounted,
           \/ \E n \in 1..MaxLead : ClockSetBack(n)
           \/ MinutePasses \/ ServerRestarts \/ RotateToken \/ SetEnabled \/ Reconfigure
    PROVE  Kept' /\ Accounted'
<1>0. TypeOK /\ Waits /\ UNCHANGED <<host, asked, agent, request, accepted>>
  BY DEF Kept, ClockSetBack, MinutePasses, ServerRestarts, RotateToken, SetEnabled, Reconfigure,
         service
<1>1. /\ stored \in Int /\ faults \in Nat /\ stored <= faults + 1
      /\ lead \in (0..MaxLead) \cup {None} /\ faults \in 0..MaxFaults
  BY <1>0, AgentAssumption DEF Kept, TypeOK, Token
<1>2. lead' \in (0..MaxLead) \cup {None}
  <2>1. ASSUME NEW n \in 1..MaxLead, ClockSetBack(n)
        PROVE  lead' \in (0..MaxLead) \cup {None}
    BY <2>1, AgentAssumption DEF ClockSetBack
  <2>2. CASE MinutePasses
    BY <1>1, <2>2, AgentAssumption DEF MinutePasses, None
  <2>3. CASE ServerRestarts \/ RotateToken \/ SetEnabled \/ Reconfigure
    BY <1>1, <2>3 DEF ServerRestarts, RotateToken, SetEnabled, Reconfigure, service
  <2> QED BY <2>1, <2>2, <2>3
<1>3. \/ UNCHANGED <<stored, faults>>
      \/ Fault /\ stored' \in {stored, stored + 1}
  BY DEF ClockSetBack, MinutePasses, ServerRestarts, RotateToken, SetEnabled, Reconfigure, service
<1>4. stored' \in Token /\ stored' <= faults' + 1 /\ faults' \in 0..MaxFaults
  <2>1. stored' \in Int /\ stored' >= 1 /\ stored' <= faults' + 1 /\ faults' \in 0..MaxFaults
    BY <1>0, <1>1, <1>3, AgentAssumption DEF Fault, TypeOK, Token
  <2>2. stored' <= MaxFaults + 1
    BY <1>0, <1>1, <1>3, AgentAssumption DEF Fault, TypeOK, Token
  <2>3. stored' \in Token
    BY <2>1, <2>2, AgentAssumption DEF Token
  <2> QED BY <2>1, <2>3
<1>5. enabled' \in BOOLEAN /\ env' \in Token
  BY <1>0 DEF ClockSetBack, MinutePasses, ServerRestarts, RotateToken, SetEnabled, Reconfigure,
              service, TypeOK
<1>6. TypeOK'
  BY <1>0, <1>2, <1>4, <1>5 DEF TypeOK, host, agent
<1>7. UNCHANGED <<Waiting, Carried, Unreported>> /\ Waits'
  BY <1>0 DEF Waiting, Waits, Carried, Unreported, Capture, ParseNetwork, host, agent
<1>8. Unreported \in Nat /\ Cardinality(Carried) \in Nat /\ accepted \in Nat
  BY <1>0, Unreporteds, FS_CardinalityType DEF Accounted, TypeOK
<1>9. at' = "exited" <=> ~asked'
  BY <1>0 DEF Kept, agent
<1>10. accepted' + Cardinality(Carried') + Unreported'
          <= accepted + Cardinality(Carried) + Unreported
  BY <1>0, <1>7, <1>8
<1> QED BY <1>0, <1>4, <1>6, <1>7, <1>9, <1>10, Settles DEF Accounted

(* The process: it starts without a snapshot, and ends without one.        *)
LEMMA AccountProcess ==
    ASSUME Kept, Accounted, Crash \/ Restart \/ Start \/ Stop
    PROVE  Kept' /\ Accounted'
<1>0. TypeOK /\ Waits /\ UNCHANGED <<moved, service>>
  BY DEF Kept, Crash, Restart, Start, Stop, host
<1>1. /\ at' \in {"failed", "baseline", "exited"} /\ previous' = None
      /\ Waiting' = {} /\ Carried' = Carried
      /\ request' \in [Request -> Requests \cup {Idle}]
  <2>1. CASE Crash \/ Stop
    BY <1>0, <2>1, Abandons DEF Crash, Stop, Gone
  <2>2. CASE Restart \/ Start
    <3>1. at \in {"failed", "exited"} /\ UNCHANGED <<previous, request>> /\ at' = "baseline"
      BY <2>2 DEF Restart, Start, Run, Kept
    <3> QED BY <1>0, <3>1 DEF Waits, Waiting, Carried, TypeOK
  <2> QED BY <2>1, <2>2
<1>2. /\ counter' \in {counter, [i \in Interface |-> 0]}
      /\ asked' \in BOOLEAN /\ env' = env /\ loaded' \in {loaded, env}
      /\ at' = "exited" <=> ~asked'
  <2>1. CASE Crash
    <3>1. asked /\ UNCHANGED <<asked, env, loaded>> /\ at' = "failed"
      BY <1>0, <2>1 DEF Crash, Gone, Kept, Running
    <3> QED BY <1>0, <2>1, <3>1 DEF Crash, TypeOK
  <2>2. CASE Restart \/ Start \/ Stop
    BY <1>0, <2>2 DEF Restart, Start, Stop, Run, Gone, host, Kept, TypeOK
  <2> QED BY <2>1, <2>2
<1>3. faults' \in 0..MaxFaults /\ faults <= faults' /\ faults \in Int
  BY <1>0, AgentAssumption DEF Crash, Restart, Start, Stop, Fault, TypeOK
<1>4. /\ counter' \in [Interface -> Sum]
      /\ \A i \in Interface : counter'[i] <= counter[i]
  BY <1>0, <1>2, AgentAssumption DEF TypeOK, Sum
<1>5. Capture' \in Nat /\ Capture' <= Capture /\ Capture \in Nat
  BY <1>0, <1>4, StartsAnew, CountedFinite
<1>6. Waits'
  BY <1>1 DEF Waits
<1>7. TypeOK'
  <2>1. /\ stored' \in Token /\ enabled' \in BOOLEAN
        /\ lead' \in (0..MaxLead) \cup {None} /\ accepted' \in Nat
    BY <1>0 DEF TypeOK, service
  <2>2. moved' \in Sum /\ env' \in Token /\ loaded' \in Token
    BY <1>0, <1>2 DEF TypeOK
  <2>3. /\ at' \in Running \cup {"failed", "exited"} /\ previous' \in Sum \cup {None}
        /\ at' \in {"waiting", "sending"} <=> previous' # None
    BY <1>1 DEF Running
  <2> QED BY <1>1, <1>2, <1>3, <1>4, <1>6, <2>1, <2>2, <2>3, Waited DEF TypeOK
<1>8. Kept'
  <2>1. stored' <= faults' + 1
    <3>1. stored' = stored /\ stored \in Int /\ stored <= faults + 1
      BY <1>0 DEF Kept, service, TypeOK, Token
    <3>2. faults' \in Int /\ faults \in Int /\ faults <= faults'
      BY <1>3
    <3>3. stored <= faults' + 1
      BY <3>1, <3>2, AtMostNext
    <3> QED BY <3>1, <3>3
  <2>2. \A i \in Interface : counter'[i] <= moved'
    BY <1>0, <1>4, AgentAssumption DEF Kept, TypeOK, Sum
  <2>3. Capture' <= moved'
    BY <1>0, <1>5, AgentAssumption DEF Kept, TypeOK, Sum
  <2> QED BY <1>2, <1>6, <1>7, <2>1, <2>2, <2>3 DEF Kept
<1>9. Accounted'
  <2>1. Unreported \in Nat /\ Unreported' = 0
    BY <1>0, <1>1, Unreporteds DEF Unreported
  <2>2. Cardinality(Carried) \in Int /\ accepted \in Int /\ moved \in Int
    BY <1>0, FS_CardinalityType, AgentAssumption DEF Accounted, TypeOK, Sum
  <2>3. accepted + Cardinality(Carried) <= moved
    BY <2>1, <2>2 DEF Accounted
  <2>4. UNCHANGED accepted
    BY <1>0 DEF service
  <2> QED BY <1>0, <1>1, <2>1, <2>2, <2>3, <2>4 DEF Accounted
<1> QED BY <1>8, <1>9

LEMMA AccountNext == Kept /\ Accounted /\ [Next]_vars => (Kept /\ Accounted)'
<1> SUFFICES ASSUME Kept, Accounted, [Next]_vars PROVE Kept' /\ Accounted'
  OBVIOUS
<1>1. CASE \E i \in Interface : Move(i) \/ Replace(i)
  BY <1>1, AccountHost
<1>2. CASE CaptureBaseline \/ Rebase \/ GiveUp
  BY <1>2, AccountBaseline
<1>3. CASE \E r \in Request : Report(r) \/ ServeMetrics(r)
  BY <1>3, AccountReport, AccountServe
<1>4. CASE \/ \E n \in 1..MaxLead : ClockSetBack(n)
           \/ MinutePasses \/ ServerRestarts \/ RotateToken \/ SetEnabled \/ Reconfigure
  BY <1>4, AccountElsewhere
<1>5. CASE Crash \/ Restart \/ Start \/ Stop
  BY <1>5, AccountProcess
<1>6. CASE UNCHANGED vars
  BY <1>6 DEF vars, host, agent, service, Kept, TypeOK, Waits, Waiting, Accounted, Carried,
              Unreported, Capture, ParseNetwork
<1> QED BY <1>1, <1>2, <1>3, <1>4, <1>5, <1>6 DEF Next

-----------------------------------------------------------------------------
(* The theorems.                                                           *)

LEMMA Account == Spec => [](Kept /\ Accounted)
<1> QED BY AccountInit, AccountNext, PTL DEF Spec

(* The variables keep their types, and one request at most is waited for:  *)
(* exactly while the agent sends.                                          *)
THEOREM TypeCorrect == Spec => []TypeOK
<1>1. Kept => TypeOK
  BY DEF Kept
<1> QED BY <1>1, Account, PTL

(* However many requests are lost, late or refused, and whenever counters, *)
(* the agent or the server start anew, the accepted reports together stand *)
(* for no more bytes than the interfaces have moved.                       *)
THEOREM NoDoubleCount == Spec => []NoByteReportedTwice
<1>1. Kept /\ Accounted => NoByteReportedTwice
  <2> SUFFICES ASSUME Kept, Accounted PROVE accepted <= moved
    BY DEF NoByteReportedTwice
  <2>1. accepted \in Nat /\ moved \in Nat
    BY AgentAssumption DEF Kept, TypeOK, Sum
  <2>2. Unreported \in Nat /\ Cardinality(Carried) \in Nat
    BY Unreporteds, FS_CardinalityType DEF Kept, Accounted
  <2> QED BY <2>1, <2>2 DEF Accounted
<1> QED BY <1>1, Account, PTL

(* The agent is at rest for good only when it was asked to stop: whatever  *)
(* the server answers leads back to the loop or to a failure, from which   *)
(* the service manager starts it again.                                    *)
THEOREM RestsOnlyIfAsked == Spec => []EndsOnlyIfAsked
<1>1. Kept => EndsOnlyIfAsked
  BY DEF Kept, EndsOnlyIfAsked
<1> QED BY <1>1, Account, PTL

=============================================================================
