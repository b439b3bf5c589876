------------------------------- MODULE DnsZone ------------------------------
(***************************************************************************)
(* The console's DNS pages: cloudflare.Client and the handlers of the      *)
(* admin API over it.  The zone belongs to the provider, which is external *)
(* and has other clients: it keeps records, gives each change a stamp      *)
(* (modified_on) and lists them in pages ordered by name.  The server      *)
(* keeps nothing: a listing is read page by page, and an edit is a fetch,  *)
(* a comparison with the stamp the administrator saw, and a change, with   *)
(* the zone free to change between any two of these calls.                 *)
(*                                                                         *)
(* A record is known by its id; of its data there is what listing and      *)
(* editing tell apart, the name's place in the order and whether the type  *)
(* is one the console manages.  Inputs that do not normalise are refused   *)
(* without a change and are no steps.                                      *)
(*                                                                         *)
(* Where an operation is followed by another of nearly its name, the first *)
(* is the operation with a slip in it, kept to see a property notice.      *)
(***************************************************************************)
EXTENDS Integers, FiniteSets

CONSTANTS
    Admin,      \* administrators at the console, one request each
    PageSize,   \* records in a page of the provider
    MaxPages,   \* a listing longer than this is refused
    Existing,   \* records in the zone at first
    MaxRecords, \* bound: records ever in the zone
    MaxName,    \* bound: names, by their place in the order
    MaxStamp    \* bound: the zone stops changing here

ASSUME DnsAssumption ==
    /\ PageSize \in Nat \ {0} /\ MaxPages \in Nat \ {0}
    /\ MaxRecords \in Nat /\ MaxName \in Nat \ {0} /\ MaxStamp \in Nat
    /\ Existing \in 0..MaxRecords /\ Existing <= MaxName /\ Existing <= MaxStamp

Id == 1..MaxRecords
Name == 1..MaxName
Types == {"managed", "other"}

VARIABLES
    zone,    \* the provider's records, NoRecord for an id not in use
    created, \* records created so far
    stamp,   \* the stamp of the last change
    view,    \* what each administrator's page shows: ids with their stamps
    request  \* the administrators' requests
vars == <<zone, created, stamp, view, request>>

NoRecord == [name |-> 0, type |-> "none", stamp |-> 0]
Records == [name: Name, type: Types, stamp: 1..MaxStamp]
Seen == [id: Id, stamp: 1..MaxStamp]

Idle == [at |-> "idle"]
Listings == [at: {"listing", "listed"}, page: 1..(MaxPages + 1), got: SUBSET Seen,
             stable: SUBSET Id, left: Nat]
Edits == [at: {"fetch", "act"}, op: {"update", "delete"}, item: Seen, raced: BOOLEAN]

TypeOK ==
    /\ zone \in [Id -> Records \cup {NoRecord}]
    /\ created \in 0..MaxRecords /\ stamp \in 0..MaxStamp
    /\ view \in [Admin -> SUBSET Seen]
    /\ request \in [Admin -> Listings \cup Edits \cup {Idle}]
    /\ \A i \in Id : zone[i].stamp <= stamp

Init ==
    /\ zone = [i \in Id |-> IF i <= Existing THEN [name |-> i, type |-> "managed", stamp |-> i] ELSE NoRecord]
    /\ created = Existing /\ stamp = Existing
    /\ view = [a \in Admin |-> {}]
    /\ request = [a \in Admin |-> Idle]

-----------------------------------------------------------------------------
(* The order of a zone z, and its pages.                                   *)

Holding(z) == {i \in Id : z[i] # NoRecord}
Before(z, j, i) == z[j].name < z[i].name \/ (z[j].name = z[i].name /\ j < i)
Rank(z, i) == Cardinality({j \in Holding(z) : Before(z, j, i)})

InZone == Holding(zone)
Passed(page) == (page - 1) * PageSize
Page(p) == {i \in InZone : Passed(p) <= Rank(zone, i) /\ Rank(zone, i) < Passed(p + 1)}
TotalPages == (Cardinality(InZone) + PageSize - 1) \div PageSize

-----------------------------------------------------------------------------
(* The provider's changes, by whoever asks for them.                       *)

(* Auxiliary: what a change of record i, after which the zone is z, means  *)
(* for the requests that are under way.  A record that moves is no longer  *)
(* one a listing must show, and when it leaves the pages already read it   *)
(* pulls the records behind it forward; an edit that has compared the      *)
(* stamp is overtaken by a change of its record.                           *)
Moves(i, z) == zone[i] # NoRecord /\ (zone[i].name # z[i].name \/ zone[i].type # z[i].type)
Leaves(i, z, cut) ==
    /\ zone[i] # NoRecord /\ Rank(zone, i) < cut
    /\ z[i] = NoRecord \/ Rank(z, i) >= cut
Noted(q, i, z) ==
    IF q.at = "listing"
    THEN [q EXCEPT !.stable = IF Moves(i, z) THEN @ \ {i} ELSE @,
                   !.left = IF Leaves(i, z, Passed(q.page)) THEN @ + 1 ELSE @]
    ELSE IF q.at = "act" /\ q.item.id = i THEN [q EXCEPT !.raced = TRUE]
    ELSE q

(* Record i becomes r; the request of the administrators in done is over.  *)
Change(i, r, done) ==
    /\ stamp < MaxStamp /\ stamp' = stamp + 1
    /\ LET z == [zone EXCEPT ![i] = r] IN
       /\ zone' = z
       /\ request' = [a \in Admin |-> IF a \in done THEN Idle ELSE Noted(request[a], i, z)]

Stamped(n, t) == [name |-> n, type |-> t, stamp |-> stamp + 1]

AddRecord(n, t, done) ==
    /\ created < MaxRecords /\ created' = created + 1
    /\ Change(created + 1, Stamped(n, t), done)
    /\ UNCHANGED view

(* Another client of the provider.                                         *)
Elsewhere ==
    \/ \E n \in Name, t \in Types : AddRecord(n, t, {})
    \/ /\ \E i \in InZone :
            \/ \E n \in Name, t \in Types : Change(i, Stamped(n, t), {})
            \/ Change(i, NoRecord, {})
       /\ UNCHANGED <<created, view>>

-----------------------------------------------------------------------------
(* Listing.                                                                *)

Managed == {i \in InZone : zone[i].type = "managed"}
Taken(ids) == {[id |-> i, stamp |-> zone[i].stamp] : i \in ids}

StartListing(a) ==
    /\ request[a] = Idle
    /\ request' = [request EXCEPT ![a] =
         [at |-> "listing", page |-> 1, got |-> {}, stable |-> Managed, left |-> 0]]
    /\ UNCHANGED <<zone, created, stamp, view>>

(* One page: types the console does not manage are passed over, and the    *)
(* number of pages is taken from this page's answer.                       *)
ListPageStopsShort(a) ==
    /\ request[a].at = "listing" /\ request[a].page <= MaxPages
    /\ LET q == request[a] IN
       request' = [request EXCEPT ![a] =
         [q EXCEPT !.got = @ \cup Taken(Page(q.page) \cap Managed),
                   !.page = @ + 1,
                   !.at = IF q.page < TotalPages - 1 THEN "listing" ELSE "listed"]]
    /\ UNCHANGED <<zone, created, stamp, view>>
ListPageWithoutEnd(a) ==
    /\ request[a].at = "listing"
    /\ LET q == request[a] IN
       request' = [request EXCEPT ![a] =
         [q EXCEPT !.got = @ \cup Taken(Page(q.page) \cap Managed),
                   !.page = @ + 1,
                   !.at = IF q.page < TotalPages THEN "listing" ELSE "listed"]]
    /\ UNCHANGED <<zone, created, stamp, view>>
ListPage(a) ==
    /\ request[a].at = "listing" /\ request[a].page <= MaxPages
    /\ LET q == request[a] IN
       request' = [request EXCEPT ![a] =
         [q EXCEPT !.got = @ \cup Taken(Page(q.page) \cap Managed),
                   !.page = @ + 1,
                   !.at = IF q.page < TotalPages THEN "listing" ELSE "listed"]]
    /\ UNCHANGED <<zone, created, stamp, view>>

Answer(a) ==
    /\ request' = [request EXCEPT ![a] = Idle]
    /\ UNCHANGED <<zone, created, stamp, view>>

TooManyPages(a) ==
    /\ request[a].at = "listing" /\ request[a].page > MaxPages
    /\ Answer(a)

(* The console shows the result; an error leaves it what it showed.        *)
Show(a) ==
    /\ request[a].at = "listed"
    /\ view' = [view EXCEPT ![a] = request[a].got]
    /\ request' = [request EXCEPT ![a] = Idle]
    /\ UNCHANGED <<zone, created, stamp>>

-----------------------------------------------------------------------------
(* Edits.                                                                  *)

(* The provider is asked once; it may have done what it is asked although  *)
(* the answer is an error, so both are an answered request.                *)
CreateRecord(a, n) ==
    /\ request[a] = Idle
    /\ AddRecord(n, "managed", {a})

StartEdit(a, op, item) ==
    /\ request[a] = Idle /\ item \in view[a]
    /\ request' = [request EXCEPT ![a] = [at |-> "fetch", op |-> op, item |-> item, raced |-> FALSE]]
    /\ UNCHANGED <<zone, created, stamp, view>>

(* GetRecord, and the comparison with what the administrator saw.          *)
Comparable(i) == i \in Managed
UnchangedNever(item) == Comparable(item.id)
Unchanged(item) == Comparable(item.id) /\ zone[item.id].stamp = item.stamp

Fetch(a) ==
    /\ request[a].at = "fetch"
    /\ \/ /\ Unchanged(request[a].item)
          /\ request' = [request EXCEPT ![a].at = "act"]
          /\ UNCHANGED <<zone, created, stamp, view>>
       \/ ~Unchanged(request[a].item) /\ Answer(a)

Act(a, op) == request[a].at = "act" /\ request[a].op = op
ItemId(a) == request[a].item.id

(* The payload carries the type that was fetched.                          *)
UpdateRecord(a, n) ==
    /\ Act(a, "update")
    /\ \/ /\ ItemId(a) \in InZone
          /\ Change(ItemId(a), Stamped(n, "managed"), {a}) /\ UNCHANGED <<created, view>>
       \/ ItemId(a) \notin InZone /\ Answer(a)

DeleteRecord(a) ==
    /\ Act(a, "delete")
    /\ \/ /\ ItemId(a) \in InZone
          /\ Change(ItemId(a), NoRecord, {a}) /\ UNCHANGED <<created, view>>
       \/ ItemId(a) \notin InZone /\ Answer(a)

(* A call that fails, or times out, before the provider acts on it.        *)
RequestFails(a) ==
    /\ request[a].at \in {"listing", "fetch", "act"}
    /\ Answer(a)

Next ==
    \/ Elsewhere
    \/ \E a \in Admin :
          \/ StartListing(a) \/ ListPage(a) \/ TooManyPages(a) \/ Show(a)
          \/ \E item \in view[a], op \in {"update", "delete"} : StartEdit(a, op, item)
          \/ Fetch(a) \/ DeleteRecord(a) \/ RequestFails(a)
          \/ \E n \in Name : CreateRecord(a, n) \/ UpdateRecord(a, n)

Spec == Init /\ [][Next]_vars

-----------------------------------------------------------------------------
(* Properties.                                                             *)

(* A listing read page by page misses no more of the managed records that  *)
(* stood in their places all the while than there were records that left   *)
(* the pages it had already read, whatever else is created, renamed or     *)
(* deleted meanwhile: each of those pulls one record forward, onto a page  *)
(* that is not read again, and the number of pages is read with every one. *)
Missing(q) == q.stable \ {item.id : item \in q.got}
ListingIsComplete ==
    \A a \in Admin : request[a].at = "listed" => Cardinality(Missing(request[a])) <= request[a].left

(* A record is changed or deleted from the console only as its             *)
(* administrator saw it, or as it became between this very request's fetch *)
(* and its change: never on the strength of an older page, a retry after   *)
(* an answer that was lost, or for a record of another type.               *)
AppliedAsSeen ==
    [][ \A a \in Admin : request[a].at = "act" /\ zone'[ItemId(a)] # zone[ItemId(a)] /\ request'[a] = Idle
            => zone[ItemId(a)].stamp = request[a].item.stamp \/ request[a].raced ]_vars
=============================================================================
