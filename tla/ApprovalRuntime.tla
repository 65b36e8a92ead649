--------------------------- MODULE ApprovalRuntime ---------------------------
(***************************************************************************)
(* Approval records (crates/ricochet_vm/src/approval_runtime.rs, with the  *)
(* approval words of crates/ricochet_vm/src/builtins.rs).                  *)
(*                                                                         *)
(* A record asks for a decision on an operation: it is claimed with its    *)
(* token and then completed, or it is rejected, or it expires.  Every      *)
(* operation reads the clock before it takes the registry's mutex, so it   *)
(* decides with a time that may have passed.  Expiry is lazy: it happens   *)
(* when an operation looks at the record, and creation evicts the records  *)
(* that are over when the registry is full.                                *)
(***************************************************************************)
EXTENDS Integers, Sequences, FiniteSets, Functions

CONSTANTS
    ApprovalClients,      \* VM threads that call the approval words
    ApprovalIds,          \* ids a creator gives explicitly
    Tokens,               \* tokens a creator gives or draws
    MaxRetainedApprovals, \* max_retained of the registry
    Lifetimes,            \* ttl_ms a creator gives; NoLifetime for none
    MaxClock,             \* bound: milliseconds that pass
    MaxSerial,            \* bound: records that are ever created
    NoLifetime

ASSUME ApprovalAssumption ==
    /\ IsFiniteSet(ApprovalClients)
    /\ {MaxRetainedApprovals, MaxClock, MaxSerial} \subseteq Nat
    /\ NoLifetime \notin Int /\ Lifetimes \subseteq Nat \cup {NoLifetime}

VARIABLES
    approvals,    \* the registry's map, from ids to records
    approvalNext, \* its next_id
    now,          \* the clock
    approvalCall, \* each client: the time it read for the call it is in
    serial,       \* history: records created so far
    claims        \* history: the tokens each record was claimed with

approvalVars == <<approvals, approvalNext, now, approvalCall, serial, claims>>

Open == {"pending", "claimed"}
Final == {"completed", "rejected", "expired"}
Generated == 1 .. MaxSerial
Idle == -1

ApprovalInit ==
    /\ approvals = [id \in {} |-> NoLifetime]
    /\ approvalNext = 0
    /\ now = 0
    /\ approvalCall = [c \in ApprovalClients |-> Idle]
    /\ serial = 0
    /\ claims = [n \in Generated |-> << >>]

Tick ==
    /\ now < MaxClock
    /\ now' = now + 1
    /\ UNCHANGED <<approvals, approvalNext, approvalCall, serial, claims>>

(* now_ms, before the mutex is taken                                       *)
StampCall(c) ==
    /\ approvalCall[c] = Idle
    /\ approvalCall' = [approvalCall EXCEPT ![c] = now]
    /\ UNCHANGED <<approvals, approvalNext, now, serial, claims>>

InCall(c) == approvalCall[c] # Idle
OpReturns(c) == approvalCall' = [approvalCall EXCEPT ![c] = Idle]

-----------------------------------------------------------------------------
(* ApprovalRecord *)

(* Mutant: a claimed record expires too.                                   *)
ExpireClaimedToo(r, stamp) ==
    IF r.status \in Open /\ r.expires # NoLifetime /\ stamp > r.expires
    THEN [r EXCEPT !.status = "expired", !.at = r.expires]
    ELSE r

(* expire_if_needed; at is what finalized_at_ms answers                    *)
ExpireIfNeeded(r, stamp) ==
    IF r.status = "pending" /\ r.expires # NoLifetime /\ stamp > r.expires
    THEN [r EXCEPT !.status = "expired", !.at = r.expires]
    ELSE r

IsReleasable(r) == r.status \in Final

-----------------------------------------------------------------------------
(* create *)

(* prune_releasable: every record is expired if its time has come, and if  *)
(* the registry is full the record that was final first is evicted (by id  *)
(* among those with the same time, here any); one eviction makes room, as  *)
(* the registry never holds more than its limit.                           *)
Victims(recs) ==
    {id \in DOMAIN recs : /\ IsReleasable(recs[id])
                          /\ \A o \in DOMAIN recs : IsReleasable(recs[o]) => recs[id].at <= recs[o].at}

Pruned(recs, stamp) ==
    LET expired == [id \in DOMAIN recs |-> ExpireIfNeeded(recs[id], stamp)]
    IN IF Cardinality(DOMAIN recs) < MaxRetainedApprovals \/ Victims(expired) = {}
       THEN {expired}
       ELSE {Restrict(expired, DOMAIN recs \ {v}) : v \in Victims(expired)}

(* With an id of its own or a generated one, which is new; an id that is   *)
(* taken and a registry that stays full are errors, but the pruning stays. *)
CreateApproval(c) ==
    \E id \in ApprovalIds \cup {approvalNext + 1}, token \in Tokens, ttl \in Lifetimes,
       recs \in Pruned(approvals, approvalCall[c]) :
        LET stamp == approvalCall[c]
            full == Cardinality(DOMAIN recs) >= MaxRetainedApprovals
            record == [serial |-> serial + 1, token |-> token, status |-> "pending", at |-> 0,
                       expires |-> IF ttl = NoLifetime THEN ttl ELSE stamp + ttl]
        IN /\ InCall(c)
           /\ serial < MaxSerial
           /\ approvalNext' = IF full \/ id \in ApprovalIds THEN approvalNext ELSE approvalNext + 1
           /\ IF full \/ id \in DOMAIN recs
              THEN approvals' = recs /\ UNCHANGED serial
              ELSE /\ approvals' = [i \in DOMAIN recs \cup {id} |->
                                       IF i = id THEN record ELSE recs[i]]
                   /\ serial' = serial + 1
           /\ OpReturns(c)
           /\ UNCHANGED <<now, claims>>

-----------------------------------------------------------------------------
(* the operations on one record *)

(* An unknown id is an error that changes nothing.  Otherwise the record   *)
(* expires if its time has come, and then the operation applies to it, or  *)
(* is refused because of its status.                                       *)
Looked(c, id) == ExpireIfNeeded(approvals[id], approvalCall[c])
Updated(id, r) == approvals' = [approvals EXCEPT ![id] = r]

(* Mutant: the record may be claimed again by whoever has its token.       *)
ClaimAgain(r, token) == r.status \in Open /\ r.token = token

Claimable(r, token) == r.status = "pending" /\ r.token = token

ClaimApproval(c) ==
    /\ InCall(c)
    /\ \E id \in DOMAIN approvals, token \in Tokens :
          LET r == Looked(c, id)
          IN IF Claimable(r, token)
             THEN /\ Updated(id, [r EXCEPT !.status = "claimed"])
                  /\ claims' = [claims EXCEPT ![r.serial] = Append(@, token)]
             ELSE Updated(id, r) /\ UNCHANGED claims
    /\ OpReturns(c)
    /\ UNCHANGED <<approvalNext, now, serial>>

CompleteApproval(c) ==
    /\ InCall(c)
    /\ \E id \in DOMAIN approvals :
          LET r == Looked(c, id)
          IN Updated(id, IF r.status = "claimed"
                         THEN [r EXCEPT !.status = "completed", !.at = approvalCall[c]]
                         ELSE r)
    /\ OpReturns(c)
    /\ UNCHANGED <<approvalNext, now, serial, claims>>

RejectApproval(c) ==
    /\ InCall(c)
    /\ \E id \in DOMAIN approvals :
          LET r == Looked(c, id)
          IN Updated(id, IF r.status \in Open
                         THEN [r EXCEPT !.status = "rejected", !.at = approvalCall[c]]
                         ELSE r)
    /\ OpReturns(c)
    /\ UNCHANGED <<approvalNext, now, serial, claims>>

DetailApproval(c) ==
    /\ InCall(c)
    /\ \E id \in DOMAIN approvals : Updated(id, Looked(c, id))
    /\ OpReturns(c)
    /\ UNCHANGED <<approvalNext, now, serial, claims>>

ReleaseApproval(c) ==
    /\ InCall(c)
    /\ \E id \in DOMAIN approvals : approvals' = Restrict(approvals, DOMAIN approvals \ {id})
    /\ OpReturns(c)
    /\ UNCHANGED <<approvalNext, now, serial, claims>>

ApprovalNotFound(c) ==
    /\ InCall(c)
    /\ OpReturns(c)
    /\ UNCHANGED <<approvals, approvalNext, now, serial, claims>>

-----------------------------------------------------------------------------
ApprovalNextStep ==
    \/ Tick
    \/ \E c \in ApprovalClients :
          \/ StampCall(c)
          \/ CreateApproval(c) \/ ClaimApproval(c) \/ CompleteApproval(c) \/ RejectApproval(c)
          \/ DetailApproval(c) \/ ReleaseApproval(c) \/ ApprovalNotFound(c)

ApprovalSpec == ApprovalInit /\ [][ApprovalNextStep]_approvalVars

-----------------------------------------------------------------------------
(* Every variable has its type.                                            *)
ApprovalTypeOK ==
    /\ DOMAIN approvals \subseteq ApprovalIds \cup Generated
    /\ \A id \in DOMAIN approvals :
          approvals[id] \in [serial : Generated, token : Tokens, status : Open \cup Final,
                             at : Nat, expires : Nat \cup {NoLifetime}]
    /\ approvalNext \in 0 .. MaxSerial /\ now \in 0 .. MaxClock /\ serial \in 0 .. MaxSerial
    /\ approvalCall \in [ApprovalClients -> Idle .. MaxClock]
    /\ claims \in [Generated -> Seq(Tokens)]

(* "approval_claim consumes that token exactly once": of all the claims    *)
(* that race for a record, also over an id that is released and created    *)
(* again, at most one succeeds, with that record's own token; a completed  *)
(* record is one that was claimed.                                         *)
ClaimedOnce ==
    /\ \A n \in Generated : Len(claims[n]) <= 1
    /\ \A id \in DOMAIN approvals :
          LET r == approvals[id]
          IN /\ \A k \in DOMAIN claims[r.serial] : claims[r.serial][k] = r.token
             /\ r.status \in {"claimed", "completed"} => claims[r.serial] # << >>
             /\ r.status = "pending" => claims[r.serial] = << >>

Same(r, id) == id \in DOMAIN approvals' /\ approvals'[id].serial = r.serial

(* Nobody loses work that is open: neither expiry nor the pruning of a     *)
(* full registry takes a claimed record, or a pending one whose time has   *)
(* not come, whatever stale time the caller works with; only release does. *)
(* And a decision is final: a record that is over keeps its status until   *)
(* it is evicted or released.                                              *)
OpenWorkKept ==
    [][\A id \in DOMAIN approvals :
          LET r == approvals[id]
              released == \E c \in ApprovalClients : ReleaseApproval(c)
          IN /\ r.status = "claimed" =>
                   released \/ (Same(r, id) /\ approvals'[id].status \in {"claimed", "completed", "rejected"})
             /\ r.status = "pending" /\ (r.expires = NoLifetime \/ now <= r.expires) =>
                   released \/ (Same(r, id) /\ approvals'[id].status # "expired")
             /\ r.status \in Final =>
                   ~Same(r, id) \/ approvals'[id].status = r.status]_approvalVars

=============================================================================
