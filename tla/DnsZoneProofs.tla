---------------------------- MODULE DnsZoneProofs ---------------------------
(***************************************************************************)
(* Theorems about DnsZone, for every set of administrators, size of a      *)
(* page, limit on the pages of a listing, and zone.                        *)
(*                                                                         *)
(* The inductive invariant has three parts.  Kept: types, and which ids    *)
(* are in use.  Ahead: of the records a listing must show, those that rank *)
(* on a page it has read and that it has not got are no more than the      *)
(* records that left those pages.  Compared: an edit that is about to act  *)
(* was compared with the record as it is, or was overtaken since.          *)
(***************************************************************************)
EXTENDS DnsZone, FiniteSetTheorems, TLAPS

Kept == TypeOK /\ \A i \in Id : i > created => zone[i] = NoRecord

Lost(q) == {j \in Missing(q) : Rank(zone, j) < Passed(q.page)}
Ahead == \A a \in Admin : request[a].at = "listing" =>
    /\ request[a].stable \subseteq Managed
    /\ Cardinality(Lost(request[a])) <= request[a].left

Compared == \A a \in Admin : request[a].at = "act" =>
    zone[ItemId(a)].stamp = request[a].item.stamp \/ request[a].raced

-----------------------------------------------------------------------------
(* The order of a zone.                                                    *)

Zones == [Id -> Records \cup {NoRecord}]

LEMMA IdsFinite == IsFiniteSet(Id)
  BY FS_Interval, DnsAssumption DEF Id

LEMMA Ranks ==
    ASSUME NEW z, NEW i
    PROVE  /\ IsFiniteSet(Holding(z)) /\ Cardinality(Holding(z)) \in Nat
           /\ IsFiniteSet({j \in Holding(z) : Before(z, j, i)})
           /\ Rank(z, i) \in Nat /\ Rank(z, i) <= Cardinality(Holding(z))
<1>1. IsFiniteSet(Holding(z))
  BY IdsFinite, FS_Subset DEF Holding
<1>2. {j \in Holding(z) : Before(z, j, i)} \subseteq Holding(z)
  OBVIOUS
<1> QED BY <1>1, <1>2, FS_Subset, FS_CardinalityType DEF Rank

(* The records of a zone are strictly and totally ordered.                 *)
LEMMA Order ==
    ASSUME NEW z \in Zones, NEW i \in Id, NEW j \in Id
    PROVE  /\ ~Before(z, i, i)
           /\ i # j => Before(z, i, j) \/ Before(z, j, i)
           /\ \A k \in Id : Before(z, k, i) /\ Before(z, i, j) => Before(z, k, j)
<1>1. ASSUME NEW k \in Id
      PROVE  z[k].name \in Int /\ k \in Int
  BY DnsAssumption DEF Zones, Records, NoRecord, Name, Id
<1> QED BY <1>1 DEF Before

LEMMA RankMonotone ==
    ASSUME NEW z, NEW w, NEW i, NEW j,
           \A k \in Holding(z) : Before(z, k, i) => k \in Holding(w) /\ Before(w, k, j)
    PROVE  Rank(z, i) <= Rank(w, j)
<1>1. {k \in Holding(z) : Before(z, k, i)} \subseteq {k \in Holding(w) : Before(w, k, j)}
  OBVIOUS
<1> QED BY <1>1, Ranks, FS_Subset DEF Rank

(* A record ranks behind those before it, so no two records rank the same. *)
LEMMA RankStrict ==
    ASSUME NEW z \in Zones, NEW i \in Holding(z), NEW j \in Holding(z), Before(z, i, j)
    PROVE  Rank(z, i) < Rank(z, j)
<1> DEFINE A == {k \in Holding(z) : Before(z, k, i)}
           B == {k \in Holding(z) : Before(z, k, j)}
<1>1. Holding(z) \subseteq Id
  BY DEF Holding
<1>2. A \subseteq B /\ i \in B /\ i \notin A
  BY <1>1, Order
<1>3. IsFiniteSet(A) /\ IsFiniteSet(B)
  BY Ranks
<1>4. Cardinality(A) <= Cardinality(B) /\ Cardinality(A) # Cardinality(B)
  BY <1>2, <1>3, FS_Subset
<1>5. Cardinality(A) \in Nat /\ Cardinality(B) \in Nat
  BY <1>3, FS_CardinalityType
<1> QED BY <1>4, <1>5 DEF Rank

LEMMA RankInjective ==
    ASSUME NEW z \in Zones, NEW i \in Holding(z), NEW j \in Holding(z), Rank(z, i) = Rank(z, j)
    PROVE  i = j
<1>1. i \in Id /\ j \in Id /\ Rank(z, i) \in Nat /\ Rank(z, j) \in Nat
  BY Ranks DEF Holding
<1> QED BY <1>1, Order, RankStrict

(* A change of record i brings another to a place before the cut at most   *)
(* from the very cut, and not even from there unless i left for behind it. *)
LEMMA Pull ==
    ASSUME NEW z \in Zones, NEW w \in Zones, NEW i \in Id, \A k \in Id \ {i} : w[k] = z[k],
           NEW cut \in Int, NEW j \in Holding(z), j # i, Rank(w, j) < cut
    PROVE  /\ Rank(z, j) <= cut
           /\ (z[i] # NoRecord /\ Rank(z, i) < cut => w[i] # NoRecord /\ Rank(w, i) < cut)
                => Rank(z, j) < cut
<1> DEFINE A == {k \in Holding(z) : Before(z, k, j)}
           B == {k \in Holding(w) : Before(w, k, j)}
<1>1. j \in Id /\ j \in Holding(w) /\ Holding(z) \subseteq Id /\ Holding(w) \subseteq Id
  BY DEF Holding
<1>2. \A k \in Holding(z) \ {i} : k \in Holding(w) /\ (Before(z, k, j) <=> Before(w, k, j))
  BY <1>1 DEF Holding, Before
<1>3. /\ IsFiniteSet(A) /\ IsFiniteSet(B)
      /\ Rank(z, j) \in Nat /\ Rank(w, j) \in Nat /\ Rank(z, i) \in Nat /\ Rank(w, i) \in Nat
  BY Ranks
<1>4. Rank(z, j) <= Rank(w, j) + 1
  <2>1. A \subseteq B \cup {i}
    BY <1>2
  <2>2. /\ IsFiniteSet(B \cup {i})
        /\ Cardinality(B \cup {i}) = IF i \in B THEN Cardinality(B) ELSE Cardinality(B) + 1
    BY <1>3, FS_AddElement
  <2>3. Cardinality(A) <= Cardinality(B \cup {i})
    BY <2>1, <2>2, FS_Subset
  <2> QED BY <1>3, <2>2, <2>3 DEF Rank
<1>5. Rank(z, j) <= cut
  BY <1>3, <1>4
<1>6. CASE i \in Holding(z) => ~Before(z, i, j)
  <2>1. \A k \in Holding(z) : Before(z, k, j) => k \in Holding(w) /\ Before(w, k, j)
    BY <1>2, <1>6
  <2>2. Rank(z, j) <= Rank(w, j)
    BY <2>1, RankMonotone
  <2> QED BY <1>3, <1>5, <2>2
<1>7. CASE i \in Holding(z) /\ Before(z, i, j)
  <2>1. Rank(z, i) < Rank(z, j) /\ Rank(z, i) < cut
    BY <1>3, <1>5, <1>7, RankStrict
  <2>2. SUFFICES ASSUME w[i] # NoRecord, Rank(w, i) < cut
                 PROVE  Rank(z, j) < cut
    BY <1>3, <1>5, <1>7, <2>1 DEF Holding
  <2>3. CASE Before(w, i, j)
    <3>1. \A k \in Holding(z) : Before(z, k, j) => k \in Holding(w) /\ Before(w, k, j)
      BY <1>2, <2>2, <2>3 DEF Holding
    <3>2. Rank(z, j) <= Rank(w, j)
      BY <3>1, RankMonotone
    <3> QED BY <1>3, <3>2
  <2>4. CASE ~Before(w, i, j)
    <3> DEFINE C == (A \ {i}) \cup {j}
               D == {k \in Holding(w) : Before(w, k, i)}
    <3>1. Before(w, j, i)
      BY <1>1, <2>4, Order
    <3>2. ASSUME NEW k \in A \ {i}
          PROVE  k \in D
      <4>1. k \in Holding(w) /\ Before(w, k, j) /\ k \in Id
        BY <1>1, <1>2
      <4> QED BY <1>1, <3>1, <4>1, Order
    <3>3. C \subseteq D
      BY <1>1, <3>1, <3>2
    <3>4. i \in A /\ j \notin A
      BY <1>1, <1>7, Order
    <3>5. /\ IsFiniteSet(A \ {i}) /\ Cardinality(A \ {i}) = Cardinality(A) - 1
      BY <1>3, <3>4, FS_RemoveElement
    <3>6. IsFiniteSet(C) /\ Cardinality(C) = Cardinality(A \ {i}) + 1
      BY <3>4, <3>5, FS_AddElement
    <3>7. Cardinality(C) <= Cardinality(D)
      BY <3>3, Ranks, FS_Subset
    <3>8. Rank(z, j) <= Rank(w, i)
      BY <1>3, <3>5, <3>6, <3>7 DEF Rank
    <3> QED BY <1>3, <2>2, <3>8
  <2> QED BY <2>3, <2>4
<1> QED BY <1>5, <1>6, <1>7

(* A record that keeps its name is pulled by none but another.             *)
LEMMA NoPull ==
    ASSUME NEW z \in Zones, NEW w, NEW i \in Id, \A k \in Id \ {i} : w[k] = z[k],
           i \in Holding(z), w[i].name = z[i].name
    PROVE  Rank(z, i) <= Rank(w, i)
<1>1. ~Before(z, i, i)
  BY Order
<1>2. \A k \in Holding(z) : Before(z, k, i) => k \in Holding(w) /\ Before(w, k, i)
  BY <1>1 DEF Holding, Before
<1> QED BY <1>2, RankMonotone

(* The last page ends behind every record.                                 *)
LEMMA Ceiling ==
    ASSUME NEW m \in Nat, NEW d \in Nat \ {0}, NEW p \in Nat, p >= (m + d - 1) \div d
    PROVE  m <= p * d
<1> DEFINE t == (m + d - 1) \div d
<1>1. t \in Nat /\ m + d - 1 < (t + 1) * d
  OBVIOUS
<1>2. (t + 1) * d = t * d + d /\ t * d \in Nat /\ p * d \in Nat
  BY <1>1
<1>3. t * d <= p * d
  BY <1>1
<1> HIDE DEF t
<1> QED BY <1>1, <1>2, <1>3

LEMMA PassedTypes ==
    ASSUME NEW p \in Nat
    PROVE  Passed(p) \in Int /\ Passed(p + 1) = p * PageSize /\ Passed(1) = 0
  BY DnsAssumption DEF Passed

LEMMA WithinPages ==
    ASSUME TypeOK, NEW i \in InZone, NEW p \in Nat, p >= TotalPages
    PROVE  Rank(zone, i) < Passed(p + 1)
<1>1. /\ Rank(zone, i) \in Nat /\ Cardinality(InZone) \in Nat
      /\ Rank(zone, i) <= Cardinality(InZone)
  BY Ranks DEF InZone
<1>2. Rank(zone, i) # Cardinality(InZone)
  <2>1. zone \in Zones /\ i \in Id
    BY DEF TypeOK, Zones, InZone, Holding
  <2>2. {j \in InZone : Before(zone, j, i)} # InZone
    BY <2>1, Order
  <2> QED BY <2>2, Ranks, FS_Subset DEF Rank, InZone
<1>3. Cardinality(InZone) <= p * PageSize
  BY <1>1, Ceiling, DnsAssumption DEF TotalPages
<1>4. p * PageSize \in Nat
  BY DnsAssumption
<1> QED BY <1>1, <1>2, <1>3, <1>4, PassedTypes

-----------------------------------------------------------------------------
(* Types.                                                                  *)

(* What a change notes in a request, by where the request is.              *)
LEMMA NotedElse ==
    ASSUME NEW q, NEW i, NEW z, q.at # "listing", q.at # "act"
    PROVE  Noted(q, i, z) = q
  BY DEF Noted

LEMMA NotedListing ==
    ASSUME NEW q \in Listings, NEW i \in Id, NEW z, q.at = "listing"
    PROVE  /\ Noted(q, i, z) \in Listings
           /\ Noted(q, i, z).at = "listing"
           /\ Noted(q, i, z).got = q.got /\ Noted(q, i, z).page = q.page
           /\ Noted(q, i, z).stable = (IF Moves(i, z) THEN q.stable \ {i} ELSE q.stable)
           /\ Noted(q, i, z).left =
                (IF Leaves(i, z, Passed(q.page)) THEN q.left + 1 ELSE q.left)
<1> DEFINE st == IF Moves(i, z) THEN q.stable \ {i} ELSE q.stable
           lf == IF Leaves(i, z, Passed(q.page)) THEN q.left + 1 ELSE q.left
           n == [q EXCEPT !.stable = st, !.left = lf]
<1>1. st \in SUBSET Id /\ lf \in Nat
  BY DEF Listings
<1>2. Noted(q, i, z) = n
  BY DEF Noted
<1> HIDE DEF st, lf
<1>3. n \in Listings /\ n.at = q.at /\ n.got = q.got /\ n.page = q.page
      /\ n.stable = st /\ n.left = lf
  BY <1>1 DEF Listings
<1> QED BY <1>2, <1>3 DEF st, lf

LEMMA NotedEdit ==
    ASSUME NEW q \in Edits, NEW i, NEW z
    PROVE  /\ Noted(q, i, z) \in Edits
           /\ Noted(q, i, z).at = q.at /\ Noted(q, i, z).item = q.item
           /\ q.at = "act" => (Noted(q, i, z).raced <=> q.raced \/ q.item.id = i)
<1>1. [q EXCEPT !.raced = TRUE] \in Edits
  BY DEF Edits
<1> QED BY <1>1 DEF Noted, Edits

LEMMA NotedTypes ==
    ASSUME NEW q \in Listings \cup Edits \cup {Idle}, NEW i \in Id, NEW z
    PROVE  Noted(q, i, z) \in Listings \cup Edits \cup {Idle} /\ Noted(q, i, z).at = q.at
<1>1. CASE q \in Listings /\ q.at = "listing"
  BY <1>1, NotedListing
<1>2. CASE q \in Edits
  BY <1>2, NotedEdit
<1>3. CASE (q \in Listings /\ q.at # "listing") \/ q = Idle
  <2>1. q.at # "listing" /\ q.at # "act"
    BY <1>3 DEF Listings, Idle
  <2> QED BY <2>1, NotedElse
<1> QED BY <1>1, <1>2, <1>3

LEMMA Changes ==
    ASSUME TypeOK, NEW i \in Id, NEW r \in Records \cup {NoRecord}, r.stamp <= stamp + 1,
           NEW done, Change(i, r, done)
    PROVE  /\ zone' \in [Id -> Records \cup {NoRecord}] /\ stamp' \in 0..MaxStamp
           /\ zone'[i] = r /\ \A j \in Id \ {i} : zone'[j] = zone[j]
           /\ \A j \in Id : zone'[j].stamp <= stamp'
           /\ request' \in [Admin -> Listings \cup Edits \cup {Idle}]
<1>1. stamp' = stamp + 1 /\ stamp' \in 0..MaxStamp /\ zone' = [zone EXCEPT ![i] = r]
  BY DnsAssumption DEF Change, TypeOK
<1>2. zone' \in [Id -> Records \cup {NoRecord}] /\ zone'[i] = r
      /\ \A j \in Id \ {i} : zone'[j] = zone[j]
  BY <1>1 DEF TypeOK
<1>3. ASSUME NEW j \in Id
      PROVE  zone'[j].stamp <= stamp'
  <2>1. zone[j].stamp <= stamp /\ zone[j].stamp \in Int /\ stamp \in Int
    BY DnsAssumption DEF TypeOK, Records, NoRecord
  <2> QED BY <1>1, <1>2, <2>1
<1>4. ASSUME NEW a \in Admin
      PROVE  request'[a] \in Listings \cup Edits \cup {Idle}
  <2>1. PICK z \in Zones : z = zone'
    BY <1>2 DEF Zones
  <2>2. request[a] \in Listings \cup Edits \cup {Idle}
    BY DEF TypeOK
  <2>3. request'[a] = IF a \in done THEN Idle ELSE Noted(request[a], i, z)
    BY <1>1, <2>1 DEF Change
  <2>4. Noted(request[a], i, z) \in Listings \cup Edits \cup {Idle}
    BY <2>2, NotedTypes
  <2> QED BY <2>3, <2>4
<1>5. request' = [a \in Admin |-> request'[a]]
  BY DEF Change
<1> QED BY <1>1, <1>2, <1>3, <1>4, <1>5

LEMMA KeptInit == Init => Kept
<1> SUFFICES ASSUME Init PROVE Kept
  OBVIOUS
<1>1. ASSUME NEW i \in Id
      PROVE  /\ zone[i] \in Records \cup {NoRecord} /\ zone[i].stamp <= stamp
             /\ i > created => zone[i] = NoRecord
  BY DnsAssumption DEF Init, Id, Records, NoRecord, Name, Types
<1>2. zone = [i \in Id |-> zone[i]]
  BY DEF Init
<1>3. zone \in [Id -> Records \cup {NoRecord}]
  BY <1>1, <1>2
<1>4. created \in 0..MaxRecords /\ stamp \in 0..MaxStamp
  BY DnsAssumption DEF Init
<1> QED BY <1>1, <1>3, <1>4 DEF Init, Kept, TypeOK

(* The zone changes by one record, which is new or in use.                 *)
ZoneStep(i, r, done) ==
    /\ Change(i, r, done) /\ UNCHANGED view
    /\ i \in Id /\ r \in Records \cup {NoRecord} /\ r.stamp <= stamp + 1
    /\ \/ i = created + 1 /\ created' = created + 1
       \/ i \in InZone /\ UNCHANGED created
RequestStep(a) ==
    \/ StartListing(a) \/ ListPage(a) \/ Show(a) \/ Answer(a)
    \/ \E item \in view[a], op \in {"update", "delete"} : StartEdit(a, op, item)
    \/ Fetch(a)

LEMMA Steps ==
    ASSUME TypeOK, Next
    PROVE  \/ \E i, r, done : ZoneStep(i, r, done)
           \/ \E a \in Admin : RequestStep(a)
<1>1. ASSUME NEW n \in Name, NEW t \in Types, stamp < MaxStamp
      PROVE  Stamped(n, t) \in Records /\ Stamped(n, t).stamp = stamp + 1
  BY <1>1, DnsAssumption DEF TypeOK, Stamped, Records
<1>2. NoRecord.stamp <= stamp + 1 /\ InZone \subseteq Id /\ "managed" \in Types
  BY DnsAssumption DEF NoRecord, TypeOK, InZone, Holding, Types
<1>3. stamp + 1 <= stamp + 1
  BY DnsAssumption DEF TypeOK
<1>4. ASSUME NEW n \in Name, NEW t \in Types, NEW done, AddRecord(n, t, done)
      PROVE  ZoneStep(created + 1, Stamped(n, t), done)
  <2>1. created + 1 \in Id
    BY <1>4, DnsAssumption DEF AddRecord, TypeOK, Id
  <2> QED BY <1>1, <1>3, <1>4, <2>1 DEF AddRecord, ZoneStep, Change
<1>5. ASSUME NEW i \in InZone, NEW n \in Name, NEW t \in Types, NEW done,
             Change(i, Stamped(n, t), done), UNCHANGED <<created, view>>
      PROVE  ZoneStep(i, Stamped(n, t), done)
  BY <1>1, <1>2, <1>3, <1>5 DEF ZoneStep, Change
<1>6. ASSUME NEW i \in InZone, NEW done, Change(i, NoRecord, done), UNCHANGED <<created, view>>
      PROVE  ZoneStep(i, NoRecord, done)
  BY <1>2, <1>6 DEF ZoneStep
<1>7. CASE Elsewhere
  BY <1>4, <1>5, <1>6, <1>7 DEF Elsewhere
<1>8. ASSUME NEW a \in Admin, NEW n \in Name, CreateRecord(a, n) \/ UpdateRecord(a, n)
      PROVE  (\E i, r, done : ZoneStep(i, r, done)) \/ Answer(a)
  BY <1>2, <1>4, <1>5, <1>8 DEF CreateRecord, UpdateRecord
<1>9. ASSUME NEW a \in Admin, DeleteRecord(a)
      PROVE  (\E i, r, done : ZoneStep(i, r, done)) \/ Answer(a)
  BY <1>6, <1>9 DEF DeleteRecord
<1>10. ASSUME NEW a \in Admin, TooManyPages(a) \/ RequestFails(a)
       PROVE  Answer(a)
  BY <1>10 DEF TooManyPages, RequestFails
<1> QED BY <1>7, <1>8, <1>9, <1>10 DEF Next, RequestStep

LEMMA KeptZone ==
    ASSUME Kept, NEW i, NEW r, NEW done, ZoneStep(i, r, done)
    PROVE  Kept'
<1>0. TypeOK /\ i \in Id /\ Change(i, r, done)
  BY DEF Kept, ZoneStep
<1>1. /\ zone' \in [Id -> Records \cup {NoRecord}] /\ stamp' \in 0..MaxStamp
      /\ zone'[i] = r /\ \A j \in Id \ {i} : zone'[j] = zone[j]
      /\ \A j \in Id : zone'[j].stamp <= stamp'
      /\ request' \in [Admin -> Listings \cup Edits \cup {Idle}]
  BY <1>0, Changes DEF ZoneStep
<1>2. created' \in 0..MaxRecords /\ created <= created' /\ i <= created'
  <2>1. CASE i = created + 1 /\ created' = created + 1
    BY <1>0, <2>1, DnsAssumption DEF TypeOK, Id
  <2>2. CASE i \in InZone /\ UNCHANGED created
    BY <1>0, <2>2, DnsAssumption DEF Kept, TypeOK, Id, InZone, Holding
  <2> QED BY <2>1, <2>2 DEF ZoneStep
<1>3. TypeOK'
  BY <1>0, <1>1, <1>2 DEF TypeOK, ZoneStep
<1>4. ASSUME NEW j \in Id, j > created'
      PROVE  zone'[j] = NoRecord
  <2>1. j # i /\ j > created
    BY <1>0, <1>2, <1>4, DnsAssumption DEF TypeOK, Id
  <2> QED BY <1>1, <2>1 DEF Kept
<1> QED BY <1>3, <1>4 DEF Kept

(* What a step of a request makes of it.                                   *)
LEMMA ListPageTypes ==
    ASSUME TypeOK, NEW a \in Admin, ListPage(a)
    PROVE  LET q == request[a] IN
           /\ q \in Listings
           /\ request'[a] \in Listings
           /\ request'[a].got = q.got \cup Taken(Page(q.page) \cap Managed)
           /\ request'[a].page = q.page + 1
           /\ request'[a].stable = q.stable /\ request'[a].left = q.left
           /\ request'[a].at = IF q.page < TotalPages THEN "listing" ELSE "listed"
           /\ \A b \in Admin \ {a} : request'[b] = request[b]
<1> DEFINE q == request[a]
           got == q.got \cup Taken(Page(q.page) \cap Managed)
           place == IF q.page < TotalPages THEN "listing" ELSE "listed"
           n == [q EXCEPT !.got = got, !.page = q.page + 1, !.at = place]
<1>1. q \in Listings
  BY DEF TypeOK, ListPage, Listings, Edits, Idle
<1>2. request' = [request EXCEPT ![a] = n]
  BY DEF ListPage
<1>3. Taken(Page(q.page) \cap Managed) \subseteq Seen
  <2>1. ASSUME NEW i \in Managed
        PROVE  [id |-> i, stamp |-> zone[i].stamp] \in Seen
    BY DEF Managed, InZone, Holding, TypeOK, Records, Seen
  <2> QED BY <2>1 DEF Taken
<1>4. q.page + 1 \in 1..(MaxPages + 1)
  BY <1>1, DnsAssumption DEF ListPage, Listings
<1>5. got \in SUBSET Seen /\ place \in {"listing", "listed"}
  BY <1>1, <1>3 DEF Listings
<1> HIDE DEF got, place
<1>6. /\ n \in Listings /\ n.got = got /\ n.page = q.page + 1 /\ n.at = place
      /\ n.stable = q.stable /\ n.left = q.left
  BY <1>1, <1>4, <1>5 DEF Listings
<1> HIDE DEF n
<1>7. request'[a] = n /\ \A b \in Admin \ {a} : request'[b] = request[b]
  BY <1>2 DEF TypeOK
<1> QED BY <1>1, <1>6, <1>7 DEF got, place

LEMMA KeptRequest ==
    ASSUME Kept, NEW a \in Admin, RequestStep(a)
    PROVE  Kept' /\ UNCHANGED <<zone, created, stamp>>
<1>0. TypeOK /\ UNCHANGED <<zone, created, stamp>>
  BY DEF Kept, RequestStep, StartListing, ListPage, Show, Answer, StartEdit, Fetch
<1>1. view' \in [Admin -> SUBSET Seen]
  <2>1. CASE Show(a)
    <3>1. request[a] \in Listings
      BY <1>0, <2>1 DEF Show, TypeOK, Listings, Edits, Idle
    <3>2. request[a].got \in SUBSET Seen
      BY <3>1 DEF Listings
    <3> QED BY <1>0, <2>1, <3>2 DEF Show, TypeOK
  <2>2. CASE UNCHANGED view
    BY <1>0, <2>2 DEF TypeOK
  <2> QED BY <2>1, <2>2 DEF RequestStep, StartListing, ListPage, Answer, StartEdit, Fetch
<1>2. request' \in [Admin -> Listings \cup Edits \cup {Idle}]
  <2>1. CASE StartListing(a)
    <3>1. [at |-> "listing", page |-> 1, got |-> {}, stable |-> Managed, left |-> 0]
             \in Listings
      BY DnsAssumption DEF Listings, Managed, InZone, Holding
    <3> QED BY <1>0, <2>1, <3>1 DEF StartListing, TypeOK
  <2>2. CASE ListPage(a)
    <3>1. request'[a] \in Listings /\ \A b \in Admin \ {a} : request'[b] = request[b]
      BY <1>0, <2>2, ListPageTypes
    <3>2. request' = [b \in Admin |-> request'[b]]
      BY <1>0, <2>2 DEF ListPage, TypeOK
    <3>3. \A b \in Admin : request'[b] \in Listings \cup Edits \cup {Idle}
      BY <1>0, <3>1 DEF TypeOK
    <3> QED BY <3>2, <3>3
  <2>3. CASE Show(a) \/ Answer(a)
    BY <1>0, <2>3 DEF Show, Answer, TypeOK
  <2>4. ASSUME NEW item \in view[a], NEW op \in {"update", "delete"}, StartEdit(a, op, item)
        PROVE  request' \in [Admin -> Listings \cup Edits \cup {Idle}]
    <3>1. [at |-> "fetch", op |-> op, item |-> item, raced |-> FALSE] \in Edits
      BY <1>0 DEF TypeOK, Edits
    <3> QED BY <1>0, <2>4, <3>1 DEF StartEdit, TypeOK
  <2>5. CASE Fetch(a)
    <3>1. request[a] \in Edits
      BY <1>0, <2>5 DEF Fetch, TypeOK, Listings, Edits, Idle
    <3>2. [request[a] EXCEPT !.at = "act"] \in Edits
      BY <3>1 DEF Edits
    <3> QED BY <1>0, <2>5, <3>2 DEF Fetch, Answer, TypeOK
  <2> QED BY <2>1, <2>2, <2>3, <2>4, <2>5 DEF RequestStep
<1> QED BY <1>0, <1>1, <1>2 DEF Kept, TypeOK

LEMMA KeptNext == Kept /\ [Next]_vars => Kept'
<1> SUFFICES ASSUME Kept, [Next]_vars PROVE Kept'
  OBVIOUS
<1>1. CASE Next
  BY <1>1, Steps, KeptZone, KeptRequest DEF Kept
<1>2. CASE UNCHANGED vars
  BY <1>2 DEF vars, Kept, TypeOK
<1> QED BY <1>1, <1>2

(* Every variable keeps its type, and no record has a stamp from ahead.    *)
THEOREM TypeCorrect == Spec => []TypeOK
<1>1. Kept => TypeOK
  BY DEF Kept
<1> QED BY <1>1, KeptInit, KeptNext, PTL DEF Spec

-----------------------------------------------------------------------------
(* Listings.                                                               *)

(* What a change of the zone leaves of the requests.                       *)
LEMMA Others ==
    ASSUME Kept, NEW i, NEW r, NEW done, ZoneStep(i, r, done), NEW a \in Admin,
           request'[a] # Idle
    PROVE  /\ request[a] \in Listings \cup Edits \cup {Idle} /\ i \in Id
           /\ request'[a] = Noted(request[a], i, zone')
           /\ request'[a].at = request[a].at
<1>1. /\ request[a] \in Listings \cup Edits \cup {Idle} /\ i \in Id
      /\ request'[a] = Noted(request[a], i, zone')
  BY DEF ZoneStep, Change, Kept, TypeOK
<1> QED BY <1>1, NotedTypes

LEMMA OtherListing ==
    ASSUME Kept, NEW i, NEW r, NEW done, ZoneStep(i, r, done), NEW a \in Admin,
           request'[a].at = "listing"
    PROVE  LET q == request[a] IN
           /\ q.at = "listing" /\ q \in Listings
           /\ request'[a].got = q.got /\ request'[a].page = q.page
           /\ request'[a].stable = (IF Moves(i, zone') THEN q.stable \ {i} ELSE q.stable)
           /\ request'[a].left =
                (IF Leaves(i, zone', Passed(q.page)) THEN q.left + 1 ELSE q.left)
<1>1. request'[a] # Idle
  BY DEF Idle
<1>2. /\ request[a] \in Listings /\ i \in Id /\ request[a].at = "listing"
      /\ request'[a] = Noted(request[a], i, zone')
  BY <1>1, Others DEF Edits, Idle
<1>3. PICK z : z = zone'
  OBVIOUS
<1>4. PICK q \in Listings : q = request[a] /\ q.at = "listing"
  BY <1>2
<1>5. request'[a] = Noted(q, i, z)
  BY <1>2, <1>3, <1>4
<1>6. i \in Id /\ q.at = "listing"
  BY <1>2, <1>4
<1>7. Noted(q, i, z).got = q.got /\ Noted(q, i, z).page = q.page
  BY <1>6, NotedListing
<1>8. Noted(q, i, z).stable = (IF Moves(i, z) THEN q.stable \ {i} ELSE q.stable)
  BY <1>6, NotedListing
<1>9. Noted(q, i, z).left = (IF Leaves(i, z, Passed(q.page)) THEN q.left + 1 ELSE q.left)
  BY <1>6, NotedListing
<1> QED BY <1>3, <1>4, <1>5, <1>7, <1>8, <1>9

LEMMA OtherEdit ==
    ASSUME Kept, NEW i, NEW r, NEW done, ZoneStep(i, r, done), NEW a \in Admin,
           request'[a].at = "act"
    PROVE  /\ request[a].at = "act" /\ request[a] \in Edits
           /\ request'[a].item = request[a].item
           /\ request'[a].raced <=> request[a].raced \/ ItemId(a) = i
<1>1. request'[a] # Idle
  BY DEF Idle
<1>2. /\ request[a] \in Edits /\ request[a].at = "act"
      /\ request'[a] = Noted(request[a], i, zone')
  BY <1>1, Others DEF Listings, Idle
<1> QED BY <1>2, NotedEdit DEF ItemId

LEMMA LostFinite ==
    ASSUME TypeOK, NEW a \in Admin, request[a].at \in {"listing", "listed"}
    PROVE  /\ request[a] \in Listings
           /\ IsFiniteSet(Missing(request[a])) /\ IsFiniteSet(Lost(request[a]))
           /\ Cardinality(Missing(request[a])) \in Nat /\ Cardinality(Lost(request[a])) \in Nat
<1>1. request[a] \in Listings
  BY DEF TypeOK, Listings, Edits, Idle
<1>2. Missing(request[a]) \subseteq Id /\ Lost(request[a]) \subseteq Missing(request[a])
  BY <1>1 DEF Missing, Lost, Listings
<1> QED BY <1>1, <1>2, IdsFinite, FS_Subset, FS_CardinalityType

(* A change of the zone makes a listing lose at most one record more, and  *)
(* none unless the record that changes leaves the pages it has read.       *)
LEMMA LostGrows ==
    ASSUME Kept, Ahead, NEW i, NEW r, NEW done, ZoneStep(i, r, done), NEW a \in Admin,
           request'[a].at = "listing"
    PROVE  /\ request'[a].stable \subseteq Managed'
           /\ Cardinality(Lost(request[a])') <= request'[a].left
<1> DEFINE q == request[a]
           cut == Passed(q.page)
<1>1. /\ TypeOK /\ i \in Id /\ zone \in Zones /\ zone' \in Zones
      /\ \A k \in Id \ {i} : zone'[k] = zone[k]
  BY Changes DEF Kept, ZoneStep, TypeOK, Zones
<1>2. /\ q.at = "listing" /\ q \in Listings
      /\ request'[a].got = q.got /\ request'[a].page = q.page
      /\ request'[a].stable = (IF Moves(i, zone') THEN q.stable \ {i} ELSE q.stable)
      /\ request'[a].left = (IF Leaves(i, zone', cut) THEN q.left + 1 ELSE q.left)
  BY OtherListing DEF cut
<1>3. /\ q.stable \subseteq Managed /\ Cardinality(Lost(q)) <= q.left /\ q.left \in Nat
      /\ cut \in Int /\ IsFiniteSet(Lost(q)) /\ Cardinality(Lost(q)) \in Nat
  BY <1>1, <1>2, LostFinite, PassedTypes DEF Ahead, Listings
<1> HIDE DEF cut
<1>4. ASSUME NEW j \in request'[a].stable
      PROVE  /\ j \in q.stable /\ j \in Managed /\ j \in Holding(zone) /\ j \in Id
             /\ zone'[j].name = zone[j].name /\ zone'[j].type = zone[j].type
  <2>1. j \in q.stable /\ j \in Holding(zone) /\ j \in Id /\ (j = i => ~Moves(i, zone'))
    BY <1>2, <1>3, <1>4 DEF Managed, InZone, Holding
  <2> QED BY <1>1, <1>3, <2>1 DEF Moves, Holding
<1>5. ASSUME NEW j \in request'[a].stable
      PROVE  j \in Managed'
  <2>1. zone'[j] # NoRecord
    BY <1>1, <1>4, <1>5 DEF Holding, Zones, Records, NoRecord, Types
  <2> QED BY <1>4, <1>5, <2>1 DEF Managed, InZone, Holding
<1>6. ASSUME NEW j \in Lost(q)'
      PROVE  /\ j \in Missing(q) /\ j \in Holding(zone) /\ Rank(zone, j) <= cut
             /\ ~Leaves(i, zone', cut) => Rank(zone, j) < cut
  <2>1. /\ j \in request'[a].stable /\ j \in Missing(q)
        /\ Rank(zone', j) < cut /\ Rank(zone', j) \in Nat /\ Rank(zone, j) \in Nat
        /\ Rank(zone, i) \in Nat /\ Rank(zone', i) \in Nat
    BY <1>2, <1>4, <1>6, Ranks DEF Lost, Missing, cut
  <2>2. CASE j = i
    <3>1. Rank(zone, i) <= Rank(zone', i)
      BY <1>1, <1>4, <2>1, <2>2, NoPull
    <3> QED BY <1>3, <1>4, <2>1, <2>2, <3>1
  <2>3. CASE j # i
    <3>1. j \in Holding(zone)
      BY <1>4, <2>1
    <3>2. /\ Rank(zone, j) <= cut
          /\ (zone[i] # NoRecord /\ Rank(zone, i) < cut
                => zone'[i] # NoRecord /\ Rank(zone', i) < cut) => Rank(zone, j) < cut
      BY <1>1, <1>3, <2>1, <2>3, <3>1, Pull
    <3> QED BY <1>3, <2>1, <3>1, <3>2 DEF Leaves
  <2> QED BY <2>2, <2>3
<1>7. ASSUME NEW j \in Lost(q)', j \notin Lost(q)
      PROVE  Rank(zone, j) = cut
  <2>1. j \in Missing(q) /\ Rank(zone, j) <= cut /\ Rank(zone, j) \in Nat
    BY <1>6, <1>7, Ranks
  <2>2. ~(Rank(zone, j) < cut)
    BY <1>7, <2>1 DEF Lost, cut
  <2> QED BY <1>3, <2>1, <2>2
<1>8. CASE ~Leaves(i, zone', cut)
  <2>1. Lost(q)' \subseteq Lost(q)
    BY <1>6, <1>8 DEF Lost, cut
  <2>2. Cardinality(Lost(q)') <= Cardinality(Lost(q)) /\ Cardinality(Lost(q)') \in Nat
    BY <1>3, <2>1, FS_Subset, FS_CardinalityType
  <2> QED BY <1>2, <1>3, <1>5, <1>8, <2>2
<1>9. CASE Leaves(i, zone', cut) /\ Lost(q)' \subseteq Lost(q)
  <2>1. Cardinality(Lost(q)') <= Cardinality(Lost(q)) /\ Cardinality(Lost(q)') \in Nat
    BY <1>3, <1>9, FS_Subset, FS_CardinalityType
  <2> QED BY <1>2, <1>3, <1>5, <1>9, <2>1
<1>10. CASE Leaves(i, zone', cut) /\ ~(Lost(q)' \subseteq Lost(q))
  <2>1. PICK k \in Lost(q)' : k \notin Lost(q)
    BY <1>10
  <2>2. k \in Holding(zone) /\ Rank(zone, k) = cut
    BY <1>7, <1>6, <2>1
  <2>3. \A j \in Lost(q)' \ Lost(q) : j = k
    BY <1>1, <1>6, <1>7, <2>2, RankInjective
  <2>4. Lost(q)' \subseteq Lost(q) \cup {k}
    BY <2>3
  <2>5. /\ IsFiniteSet(Lost(q) \cup {k})
        /\ Cardinality(Lost(q) \cup {k}) = Cardinality(Lost(q)) + 1
    BY <1>3, <2>1, FS_AddElement
  <2>6. Cardinality(Lost(q)') <= Cardinality(Lost(q)) + 1 /\ Cardinality(Lost(q)') \in Nat
    BY <2>4, <2>5, FS_Subset, FS_CardinalityType
  <2> QED BY <1>2, <1>3, <1>5, <1>10, <2>6
<1> QED BY <1>8, <1>9, <1>10

LEMMA AheadZone ==
    ASSUME Kept, Ahead, ListingIsComplete, NEW i, NEW r, NEW done, ZoneStep(i, r, done)
    PROVE  Ahead' /\ ListingIsComplete'
<1>1. Ahead'
  BY LostGrows DEF Ahead
<1>2. ASSUME NEW a \in Admin, request'[a].at = "listed"
      PROVE  request'[a] = request[a]
  <2>1. request'[a] # Idle
    BY <1>2 DEF Idle
  <2>2. request'[a] = Noted(request[a], i, zone') /\ request[a].at = "listed"
    BY <1>2, <2>1, Others
  <2> QED BY <2>2, NotedElse
<1>3. ListingIsComplete'
  BY <1>2 DEF ListingIsComplete, Missing
<1> QED BY <1>1, <1>3

(* A page loses nothing of what ranks on it, and none ranks behind the     *)
(* last one.                                                               *)
LEMMA AheadListPage ==
    ASSUME Kept, Ahead, NEW a \in Admin, ListPage(a)
    PROVE  /\ request'[a].at = "listing" =>
                /\ request'[a].stable \subseteq Managed
                /\ Cardinality(Lost(request[a])') <= request'[a].left
           /\ request'[a].at = "listed" =>
                Cardinality(Missing(request[a])') <= request'[a].left
<1> DEFINE q == request[a]
<1>1. /\ q \in Listings /\ q.at = "listing" /\ UNCHANGED zone /\ TypeOK
      /\ request'[a].got = q.got \cup Taken(Page(q.page) \cap Managed)
      /\ request'[a].page = q.page + 1
      /\ request'[a].stable = q.stable /\ request'[a].left = q.left
      /\ request'[a].at = IF q.page < TotalPages THEN "listing" ELSE "listed"
  BY ListPageTypes DEF Kept, ListPage
<1>2. /\ q.stable \subseteq Managed /\ Cardinality(Lost(q)) <= q.left /\ q.left \in Nat
      /\ IsFiniteSet(Lost(q)) /\ Cardinality(Lost(q)) \in Nat /\ q.page \in Nat
  BY <1>1, LostFinite DEF Ahead, Listings
<1>3. ASSUME NEW j \in Missing(q)'
      PROVE  j \in Missing(q) /\ j \in Managed /\ j \in InZone /\ j \notin Page(q.page)
  <2>1. j \in q.stable /\ \A item \in request'[a].got : item.id # j
    BY <1>1, <1>3 DEF Missing
  <2>2. j \in Missing(q)
    BY <1>1, <2>1 DEF Missing
  <2>3. j \in Managed /\ j \in InZone
    BY <1>2, <2>1 DEF Managed
  <2>4. j \in Page(q.page) => [id |-> j, stamp |-> zone[j].stamp] \in request'[a].got
    BY <1>1, <2>3 DEF Taken
  <2> QED BY <2>1, <2>2, <2>3, <2>4
<1>4. ASSUME NEW j \in Missing(q)', Rank(zone, j) < Passed(q.page + 1)
      PROVE  j \in Lost(q)
  <2>1. Rank(zone, j) \in Nat
    BY Ranks
  <2>2. Passed(q.page) \in Int
    BY <1>2, PassedTypes
  <2> QED BY <1>3, <1>4, <2>1, <2>2 DEF Lost, Page
<1>5. CASE request'[a].at = "listing"
  <2>1. Lost(q)' \subseteq Lost(q)
    BY <1>1, <1>4 DEF Lost
  <2>2. Cardinality(Lost(q)') <= Cardinality(Lost(q)) /\ Cardinality(Lost(q)') \in Nat
    BY <1>2, <2>1, FS_Subset, FS_CardinalityType
  <2> QED BY <1>1, <1>2, <1>5, <2>2
<1>6. CASE request'[a].at = "listed"
  <2>1. TotalPages \in Int /\ q.page >= TotalPages
    <3>1. TotalPages \in Int
      <4>1. Cardinality(InZone) \in Nat
        BY Ranks DEF InZone
      <4> QED BY <4>1, DnsAssumption DEF TotalPages
    <3> QED BY <1>1, <1>2, <1>6, <3>1
  <2>2. Missing(q)' \subseteq Lost(q)
    BY <1>1, <1>2, <1>3, <1>4, <2>1, WithinPages
  <2>3. Cardinality(Missing(q)') <= Cardinality(Lost(q)) /\ Cardinality(Missing(q)') \in Nat
    BY <1>2, <2>2, FS_Subset, FS_CardinalityType
  <2> QED BY <1>1, <1>2, <1>6, <2>3
<1> QED BY <1>1, <1>5, <1>6

LEMMA AheadRequest ==
    ASSUME Kept, Ahead, ListingIsComplete, NEW a \in Admin, RequestStep(a)
    PROVE  Ahead' /\ ListingIsComplete'
<1>0. TypeOK /\ UNCHANGED zone
  BY KeptRequest DEF Kept
<1>1. Managed' = Managed
  BY <1>0 DEF Managed, InZone
<1>2. ASSUME NEW b \in Admin, b # a
      PROVE  request'[b] = request[b]
  BY <1>0, <1>2 DEF RequestStep, StartListing, ListPage, Show, Answer, StartEdit, Fetch, TypeOK
<1>3. \/ /\ request'[a].at = "listing" /\ request'[a].page = 1
         /\ request'[a].stable = Managed /\ request'[a].left = 0
      \/ ListPage(a)
      \/ request'[a].at \in {"idle", "fetch", "act"}
  <2>1. Fetch(a) => request'[a].at \in {"idle", "act"}
    <3>1. request[a].at = "fetch" => request[a] \in Edits
      BY <1>0 DEF TypeOK, Listings, Edits, Idle
    <3> QED BY <1>0, <3>1 DEF Fetch, Answer, Idle, TypeOK, Edits
  <2>2. StartListing(a) => /\ request'[a].at = "listing" /\ request'[a].page = 1
                           /\ request'[a].stable = Managed /\ request'[a].left = 0
    BY <1>0 DEF StartListing, TypeOK
  <2>3. ASSUME NEW item \in view[a], NEW op \in {"update", "delete"}, StartEdit(a, op, item)
        PROVE  request'[a].at = "fetch"
    BY <1>0, <2>3 DEF StartEdit, TypeOK
  <2>4. Show(a) \/ Answer(a) => request'[a].at = "idle"
    BY <1>0 DEF Show, Answer, Idle, TypeOK
  <2> QED BY <2>1, <2>2, <2>3, <2>4 DEF RequestStep
<1>4. ASSUME NEW b \in Admin, request'[b].at = "listing"
      PROVE  /\ request'[b].stable \subseteq Managed'
             /\ Cardinality(Lost(request[b])') <= request'[b].left
  <2>1. CASE b # a
    BY <1>0, <1>1, <1>2, <1>4, <2>1 DEF Ahead, Lost, Missing
  <2>2. CASE b = a /\ ListPage(a)
    BY <1>1, <1>4, <2>2, AheadListPage
  <2>3. CASE b = a /\ /\ request'[a].page = 1
                     /\ request'[a].stable = Managed /\ request'[a].left = 0
    <3>1. ASSUME NEW j
          PROVE  ~(Rank(zone', j) < Passed(1))
      <4>1. Rank(zone', j) \in Nat
        BY Ranks
      <4>2. Passed(1) = 0
        BY PassedTypes
      <4> QED BY <4>1, <4>2
    <3>2. Lost(request[a])' = {}
      BY <2>3, <3>1 DEF Lost
    <3> QED BY <1>1, <2>3, <3>2, FS_EmptySet
  <2> QED BY <1>3, <1>4, <2>1, <2>2, <2>3
<1>5. ASSUME NEW b \in Admin, request'[b].at = "listed"
      PROVE  Cardinality(Missing(request[b])') <= request'[b].left
  <2>1. CASE b # a
    BY <1>2, <1>5, <2>1 DEF ListingIsComplete, Missing
  <2>2. CASE b = a /\ ListPage(a)
    BY <1>5, <2>2, AheadListPage
  <2> QED BY <1>3, <1>5, <2>1, <2>2
<1> QED BY <1>4, <1>5 DEF Ahead, ListingIsComplete

LEMMA AheadNext == Kept /\ Ahead /\ ListingIsComplete /\ [Next]_vars => (Ahead /\ ListingIsComplete)'
<1> SUFFICES ASSUME Kept, Ahead, ListingIsComplete, [Next]_vars
             PROVE  Ahead' /\ ListingIsComplete'
  OBVIOUS
<1>1. CASE Next
  BY <1>1, Steps, AheadZone, AheadRequest DEF Kept
<1>2. CASE UNCHANGED vars
  BY <1>2 DEF vars, Ahead, ListingIsComplete, Lost, Missing, Managed, InZone
<1> QED BY <1>1, <1>2

(* A listing misses no more of the records that stood in their places all  *)
(* the while than there were records that left the pages it had read, for  *)
(* every size of a page and any changes of the zone meanwhile.             *)
THEOREM ListingComplete == Spec => []ListingIsComplete
<1>1. Init => Kept /\ Ahead /\ ListingIsComplete
  <2>1. Init => \A a \in Admin : request[a].at = "idle"
    BY DEF Init, Idle
  <2> QED BY <2>1, KeptInit DEF Ahead, ListingIsComplete
<1>2. Kept /\ Ahead /\ ListingIsComplete /\ [Next]_vars => (Kept /\ Ahead /\ ListingIsComplete)'
  BY KeptNext, AheadNext
<1> QED BY <1>1, <1>2, PTL DEF Spec

-----------------------------------------------------------------------------
(* Edits.                                                                  *)

LEMMA ComparedNext == Kept /\ Compared /\ [Next]_vars => Compared'
<1> SUFFICES ASSUME Kept, Compared, [Next]_vars, NEW a \in Admin, request'[a].at = "act"
             PROVE  zone'[ItemId(a)'].stamp = request'[a].item.stamp \/ request'[a].raced
  BY DEF Compared
<1>0. TypeOK
  BY DEF Kept
<1>1. ASSUME NEW i, NEW r, NEW done, ZoneStep(i, r, done)
      PROVE  zone'[ItemId(a)'].stamp = request'[a].item.stamp \/ request'[a].raced
  <2>1. /\ request[a].at = "act" /\ request'[a].item = request[a].item
        /\ request'[a].raced <=> request[a].raced \/ ItemId(a) = i
    BY <1>1, OtherEdit
  <2>2. request[a] \in Edits
    BY <1>0, <2>1 DEF TypeOK, Listings, Edits, Idle
  <2>3. ItemId(a) \in Id /\ ItemId(a)' = ItemId(a)
    BY <2>1, <2>2 DEF ItemId, Edits, Seen
  <2>4. ItemId(a) # i => zone'[ItemId(a)] = zone[ItemId(a)]
    BY <1>0, <1>1, <2>3 DEF ZoneStep, Change, TypeOK
  <2> QED BY <2>1, <2>3, <2>4 DEF Compared
<1>2. ASSUME NEW b \in Admin, RequestStep(b)
      PROVE  zone'[ItemId(a)'].stamp = request'[a].item.stamp \/ request'[a].raced
  <2>1. UNCHANGED zone
    BY <1>2, KeptRequest
  <2>2. CASE request'[a] = request[a]
    BY <2>1, <2>2 DEF Compared, ItemId
  <2>3. CASE request'[a] # request[a]
    <3>1. b = a
      BY <1>0, <1>2, <2>3
      DEF RequestStep, StartListing, ListPage, Show, Answer, StartEdit, Fetch, TypeOK
    <3>2. Fetch(a)
      <4>1. ListPage(a) => request'[a].at \in {"listing", "listed"}
        BY <1>0, ListPageTypes
      <4> QED BY <1>0, <1>2, <3>1, <4>1
          DEF RequestStep, StartListing, Show, Answer, StartEdit, Idle, TypeOK
    <3>3. request[a] \in Edits
      BY <1>0, <3>2 DEF Fetch, TypeOK, Listings, Edits, Idle
    <3>4. Unchanged(request[a].item) /\ request'[a].item = request[a].item
      BY <1>0, <3>2, <3>3 DEF Fetch, Answer, Idle, TypeOK, Edits
    <3> QED BY <2>1, <3>4 DEF Unchanged, ItemId
  <2> QED BY <2>2, <2>3
<1>3. CASE UNCHANGED vars
  BY <1>3 DEF vars, Compared, ItemId
<1> QED BY <1>0, <1>1, <1>2, <1>3, Steps

(* The console changes a record only as its administrator saw it, or as it *)
(* became between the fetch of this very request and its change.           *)
THEOREM OnlyAsSeen == Spec => AppliedAsSeen
<1>1. Init => Kept /\ Compared
  BY KeptInit DEF Init, Idle, Compared
<1>2. Kept /\ Compared /\ [Next]_vars => (Kept /\ Compared)'
  BY KeptNext, ComparedNext
<1>3. Compared => [ \A a \in Admin :
          request[a].at = "act" /\ zone'[ItemId(a)] # zone[ItemId(a)] /\ request'[a] = Idle
            => zone[ItemId(a)].stamp = request[a].item.stamp \/ request[a].raced ]_vars
  BY DEF Compared
<1> QED BY <1>1, <1>2, <1>3, PTL DEF Spec, AppliedAsSeen

=============================================================================
