--------------------------- MODULE AlertContract ---------------------------
(***************************************************************************)
(* What alerting promises, whatever keeps the notices and however the      *)
(* process that sends them fails.  A notice is owed from the moment it is  *)
(* announced until it is confirmed or withdrawn, and stays owed across     *)
(* failures.  The sender works through a selection: of every conversation  *)
(* (a server and a recipient) at most the oldest notice owed.  It may tell *)
(* a notice it selected more than once, but confirms only what was told.   *)
(***************************************************************************)
EXTENDS Integers

CONSTANT MaxId  \* bound: notices ever announced

VARIABLES
    owed,      \* a function from ids to the notices owed
    next,      \* the id of the next notice
    selected,  \* the notices in the sender's hands, as they were selected
    told,      \* the messages that arrived, each with the id of its notice
    confirmed  \* the ids of the notices on record as told

contract == <<owed, next, selected, told, confirmed>>

Init ==
    /\ owed = [i \in {} |-> 0] /\ next = 1
    /\ selected = {} /\ told = {} /\ confirmed = {}

Without(ids) == [i \in DOMAIN owed \ ids |-> owed[i]]

(* New notices get new ids; what was owed stays as it was.                 *)
Announce ==
    /\ next' \in next .. (MaxId + 1)
    /\ DOMAIN owed' = DOMAIN owed \cup next .. (next' - 1)
    /\ \A i \in DOMAIN owed : owed'[i] = owed[i]
    /\ UNCHANGED <<selected, told, confirmed>>

SameConversation(i, j) ==
    owed[i].server = owed[j].server /\ owed[i].user = owed[j].user
Oldest(i) == \A j \in DOMAIN owed : j < i => ~SameConversation(i, j)

Select ==
    /\ selected = {}
    /\ selected' \subseteq {[id |-> i, notice |-> owed[i]] : i \in {j \in DOMAIN owed : Oldest(j)}}
    /\ UNCHANGED <<owed, next, told, confirmed>>

LetGo ==
    /\ selected' \subseteq selected
    /\ UNCHANGED <<owed, next, told, confirmed>>

Tell(item) ==
    /\ told' = told \cup {item}
    /\ UNCHANGED <<owed, next, selected, confirmed>>

(* A told notice is no longer owed.                                        *)
Confirm(item) ==
    /\ item.id \in DOMAIN owed /\ item \in told
    /\ owed' = Without({item.id}) /\ confirmed' = confirmed \cup {item.id}
    /\ selected' \subseteq selected \ {item}
    /\ UNCHANGED <<next, told>>

(* The administrator or the sender takes notices back.                     *)
Withdraw(ids) ==
    /\ owed' = Without(ids)
    /\ selected' \subseteq selected
    /\ UNCHANGED <<next, told, confirmed>>

(* The record of what is over need not be kept.                            *)
Forget ==
    /\ confirmed' \subseteq confirmed
    /\ UNCHANGED <<owed, next, selected, told>>

Next ==
    \/ Announce \/ Select \/ LetGo \/ Forget
    \/ \E item \in selected : Tell(item) \/ Confirm(item)
    \/ \E ids \in SUBSET DOMAIN owed : Withdraw(ids)

Spec == Init /\ [][Next]_contract
=============================================================================
