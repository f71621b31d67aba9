-------------------------- MODULE IndexAllocation --------------------------
(***************************************************************************)
(* What the allocator promises to its callers, whatever the number of      *)
(* hosts, conflicts, failures and restarts behind it: a request is         *)
(* answered at most once, and a request that gets a binding gets a bit of  *)
(* some status list that no other request ever got.                        *)
(***************************************************************************)
EXTENDS Integers

CONSTANTS Requests, StatusLists, CapacityBits, NoBinding

VARIABLES
  granted,   \* the binding each request was answered with, or NoBinding
  refused    \* the requests answered with an error

Binding == [statusListId: StatusLists, index: 0..(CapacityBits - 1)]

Unanswered(r) == granted[r] = NoBinding /\ r \notin refused

IsFresh(b) == \A r \in Requests : granted[r] # b

Init ==
  /\ granted = [r \in Requests |-> NoBinding]
  /\ refused = {}

Grant(r) ==
  /\ Unanswered(r)
  /\ \E b \in Binding :
       /\ IsFresh(b)
       /\ granted' = [granted EXCEPT ![r] = b]
  /\ UNCHANGED refused

(* A restart refuses at once every request its host was serving.           *)
Refuse(R) ==
  /\ \A r \in R : Unanswered(r)
  /\ refused' = refused \cup R
  /\ UNCHANGED granted

Next ==
  \/ \E r \in Requests : Grant(r)
  \/ \E R \in SUBSET Requests : Refuse(R)

vars == <<granted, refused>>

Spec == Init /\ [][Next]_vars
=============================================================================
