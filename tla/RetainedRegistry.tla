-------------------------- MODULE RetainedRegistry --------------------------
(***************************************************************************)
(* What a bounded registry of retained host resources promises.  Process   *)
(* jobs, pseudo-terminals and sockets all keep this contract: an id is     *)
(* reserved before the resource is opened, the reservation ends in exactly *)
(* one way (retained or given up), ids are never handed out twice, and     *)
(* reservations and retained resources together stay within the limit.     *)
(***************************************************************************)
EXTENDS Integers, FiniteSets

CONSTANTS MaxRetained, MaxStarts

VARIABLES nextId, reserved, retained

vars == <<nextId, reserved, retained>>

Ids == 0 .. MaxStarts - 1

Init == nextId = 0 /\ reserved = {} /\ retained = {}

Reserve ==
    /\ nextId \in Ids
    /\ Cardinality(reserved) + Cardinality(retained) < MaxRetained
    /\ reserved' = reserved \cup {nextId}
    /\ nextId' = nextId + 1
    /\ UNCHANGED retained

GiveUp(id) ==
    /\ id \in reserved
    /\ reserved' = reserved \ {id}
    /\ UNCHANGED <<nextId, retained>>

Retain(id) ==
    /\ id \in reserved
    /\ reserved' = reserved \ {id}
    /\ retained' = retained \cup {id}
    /\ UNCHANGED nextId

Release(id) ==
    /\ id \in retained
    /\ retained' = retained \ {id}
    /\ UNCHANGED <<nextId, reserved>>

Next == Reserve \/ \E id \in Ids : GiveUp(id) \/ Retain(id) \/ Release(id)

Spec == Init /\ [][Next]_vars

=============================================================================
