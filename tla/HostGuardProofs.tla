-------------------------- MODULE HostGuardProofs ---------------------------
(***************************************************************************)
(* Theorems about ApprovalRuntime, GuiSecretHost, WorkspaceWrites and      *)
(* SandboxSession: what a host lets a program do once, only to what it has *)
(* seen, and only while it may.                                            *)
(***************************************************************************)
EXTENDS ApprovalRuntime, GuiSecretHost, WorkspaceWrites, SandboxSession,
        FiniteSetTheorems, WellFoundedInduction, TLAPS

-----------------------------------------------------------------------------
(***************************************************************************)
(* Approvals, for any number of callers, records, tokens and lifetimes.    *)
(***************************************************************************)

(* What a record is.                                                       *)
ApprovalRecords ==
    [serial : Generated, token : Tokens, status : Open \cup Final, at : Nat,
     expires : Nat \cup {NoLifetime}]

(* The types, and that no caller works with a time that has not come.      *)
ApprovalTypes ==
    /\ \A id \in DOMAIN approvals : approvals[id] \in ApprovalRecords
    /\ now \in Nat /\ serial \in 0 .. MaxSerial
    /\ approvalCall \in [ApprovalClients -> Nat \cup {Idle}]
    /\ \A c \in ApprovalClients : approvalCall[c] <= now
    /\ claims \in [Generated -> Seq(Tokens)]

(* A record is known by its serial: no two have the same, and one that was *)
(* not given yet belongs to no record and to no claim.                     *)
SerialsFresh ==
    /\ \A i, j \in DOMAIN approvals : approvals[i].serial = approvals[j].serial => i = j
    /\ \A id \in DOMAIN approvals : approvals[id].serial <= serial
    /\ \A n \in Generated : n > serial => claims[n] = << >>

(* The inductive invariant.                                                *)
ApprovalInv == ApprovalTypes /\ SerialsFresh /\ ClaimedOnce

(* What an operation that holds the time stamp may make of the records it  *)
(* finds: it drops some, and lets others expire.                           *)
Settled(recs, stamp) ==
    /\ DOMAIN recs \subseteq DOMAIN approvals
    /\ \A id \in DOMAIN recs : recs[id] = ExpireIfNeeded(approvals[id], stamp)

-----------------------------------------------------------------------------
(* Expiry changes the status of a pending record and nothing that names it.*)
LEMMA ExpiryOf ==
    ASSUME NEW r \in ApprovalRecords, NEW stamp \in Nat
    PROVE  /\ ExpireIfNeeded(r, stamp) \in ApprovalRecords
           /\ ExpireIfNeeded(r, stamp).serial = r.serial
           /\ ExpireIfNeeded(r, stamp).token = r.token
           /\ ExpireIfNeeded(r, stamp).expires = r.expires
           /\ r.status # "pending" => ExpireIfNeeded(r, stamp) = r
           /\ ExpireIfNeeded(r, stamp).status # r.status =>
                 /\ ExpireIfNeeded(r, stamp).status = "expired" /\ r.status = "pending"
                 /\ r.expires # NoLifetime /\ stamp > r.expires
  BY ApprovalAssumption DEF ExpireIfNeeded, ApprovalRecords, Open, Final

(* Nothing exists before the first record.                                 *)
LEMMA InitApproval == ApprovalInit => ApprovalInv
  BY ApprovalAssumption DEF ApprovalInit, ApprovalInv, ApprovalTypes, SerialsFresh, ClaimedOnce, Generated, Idle

(* A claim keeps to a record, which expiry leaves in place.                *)
LEMMA SettledKeeps ==
    ASSUME ApprovalInv, NEW recs, NEW stamp \in Nat, Settled(recs, stamp), approvals' = recs,
           now' = now, UNCHANGED <<serial, claims>>,
           approvalCall' \in [ApprovalClients -> Nat \cup {Idle}],
           \A c \in ApprovalClients : approvalCall'[c] <= now'
    PROVE  ApprovalInv'
  <1>a. ApprovalTypes /\ SerialsFresh /\ ClaimedOnce
    BY DEF ApprovalInv
  <1>b. \A id \in DOMAIN approvals' :
          /\ id \in DOMAIN approvals
          /\ approvals'[id] \in ApprovalRecords
          /\ approvals'[id].serial = approvals[id].serial
          /\ approvals'[id].token = approvals[id].token
          /\ approvals'[id].status = approvals[id].status \/ approvals'[id].status = "expired"
    BY <1>a, ExpiryOf DEF Settled, ApprovalTypes
  <1>1. ApprovalTypes'
    BY <1>a, <1>b DEF ApprovalTypes
  <1>2. SerialsFresh'
    BY <1>a, <1>b DEF SerialsFresh
  <1>3. ClaimedOnce'
    BY <1>a, <1>b DEF ClaimedOnce
  <1> QED BY <1>1, <1>2, <1>3 DEF ApprovalInv

(* The caller's time has passed, and it leaves the call.                   *)
LEMMA ReturnsFrom ==
    ASSUME ApprovalInv, NEW c \in ApprovalClients, InCall(c), OpReturns(c), now' = now
    PROVE  /\ approvalCall[c] \in Nat /\ approvalCall[c] <= now
           /\ approvalCall' \in [ApprovalClients -> Nat \cup {Idle}]
           /\ \A d \in ApprovalClients : approvalCall'[d] <= now'
  BY DEF ApprovalInv, ApprovalTypes, InCall, OpReturns, Idle

(* Pruning drops records that are over and lets others expire.             *)
LEMMA PrunedSettles ==
    ASSUME ApprovalInv, NEW stamp \in Nat, NEW recs \in Pruned(approvals, stamp)
    PROVE  /\ Settled(recs, stamp)
           /\ \A id \in DOMAIN approvals \ DOMAIN recs : ExpireIfNeeded(approvals[id], stamp).status \in Final
  <1> DEFINE expired == [id \in DOMAIN approvals |-> ExpireIfNeeded(approvals[id], stamp)]
  <1>1. CASE recs = expired
    BY <1>1 DEF Settled
  <1>2. ASSUME NEW v \in Victims(expired), recs = Restrict(expired, DOMAIN approvals \ {v})
        PROVE  /\ Settled(recs, stamp)
               /\ \A id \in DOMAIN approvals \ DOMAIN recs :
                     ExpireIfNeeded(approvals[id], stamp).status \in Final
    <2>1. DOMAIN recs = DOMAIN approvals \ {v} /\ \A id \in DOMAIN recs : recs[id] = expired[id]
      BY <1>2 DEF Restrict
    <2>2. v \in DOMAIN approvals /\ expired[v].status \in Final
      BY <1>2 DEF Victims, IsReleasable
    <2> QED BY <2>1, <2>2 DEF Settled
  <1> QED BY <1>1, <1>2 DEF Pruned

(* A record that is created has a serial nobody saw.                       *)
LEMMA CreateKeeps ==
    ASSUME ApprovalInv, NEW c \in ApprovalClients, CreateApproval(c)
    PROVE  ApprovalInv'
  <1>a. PICK id \in ApprovalIds \cup {approvalNext + 1}, token \in Tokens, ttl \in Lifetimes,
             recs \in Pruned(approvals, approvalCall[c]) :
          LET stamp == approvalCall[c]
              full == Cardinality(DOMAIN recs) >= MaxRetainedApprovals
              record == [serial |-> serial + 1, token |-> token, status |-> "pending", at |-> 0,
                         expires |-> IF ttl = NoLifetime THEN ttl ELSE stamp + ttl]
          IN /\ InCall(c)
             /\ serial < MaxSerial
             /\ IF full \/ id \in DOMAIN recs
                THEN approvals' = recs /\ UNCHANGED serial
                ELSE /\ approvals' = [i \in DOMAIN recs \cup {id} |->
                                         IF i = id THEN record ELSE recs[i]]
                     /\ serial' = serial + 1
             /\ OpReturns(c)
             /\ UNCHANGED <<now, claims>>
    BY DEF CreateApproval
  <1> DEFINE stamp == approvalCall[c]
  <1>b. /\ stamp \in Nat /\ stamp <= now
        /\ approvalCall' \in [ApprovalClients -> Nat \cup {Idle}]
        /\ \A d \in ApprovalClients : approvalCall'[d] <= now'
    BY <1>a, ReturnsFrom
  <1>c. Settled(recs, stamp)
    BY <1>b, PrunedSettles
  <1>1. CASE approvals' = recs /\ UNCHANGED serial
    BY <1>1, <1>a, <1>b, <1>c, SettledKeeps
  <1>2. ASSUME NEW record,
               record = [serial |-> serial + 1, token |-> token, status |-> "pending", at |-> 0,
                         expires |-> IF ttl = NoLifetime THEN ttl ELSE stamp + ttl],
               approvals' = [i \in DOMAIN recs \cup {id} |-> IF i = id THEN record ELSE recs[i]],
               id \notin DOMAIN recs, serial' = serial + 1
        PROVE  ApprovalInv'
    <2>a. ApprovalTypes /\ SerialsFresh /\ ClaimedOnce
      BY DEF ApprovalInv
    <2>b. serial < MaxSerial /\ serial + 1 \in Generated /\ serial + 1 \in 0 .. MaxSerial /\ MaxSerial \in Nat
          /\ serial \in Nat
      BY <1>a, <2>a, ApprovalAssumption DEF ApprovalTypes, Generated
    <2>c. record \in ApprovalRecords /\ record.serial = serial + 1 /\ record.status = "pending"
      BY <1>2, <1>b, <2>b, ApprovalAssumption DEF ApprovalRecords, Open
    <2>d. claims[serial + 1] = << >>
      BY <2>a, <2>b DEF SerialsFresh
    <2>e. \A i \in DOMAIN recs :
            /\ i \in DOMAIN approvals
            /\ recs[i] \in ApprovalRecords
            /\ recs[i].serial = approvals[i].serial
            /\ recs[i].token = approvals[i].token
            /\ recs[i].status = approvals[i].status \/ recs[i].status = "expired"
      <3> SUFFICES ASSUME NEW i \in DOMAIN recs
                   PROVE  /\ i \in DOMAIN approvals
                          /\ recs[i] \in ApprovalRecords
                          /\ recs[i].serial = approvals[i].serial
                          /\ recs[i].token = approvals[i].token
                          /\ recs[i].status = approvals[i].status \/ recs[i].status = "expired"
        OBVIOUS
      <3>1. i \in DOMAIN approvals /\ recs[i] = ExpireIfNeeded(approvals[i], stamp)
        BY <1>c DEF Settled
      <3>2. approvals[i] \in ApprovalRecords /\ stamp \in Nat
        BY <3>1, <1>b, <2>a DEF ApprovalTypes
      <3> HIDE DEF stamp
      <3> QED BY <3>1, <3>2, ExpiryOf
    <2>f. /\ DOMAIN approvals' = DOMAIN recs \cup {id}
          /\ approvals'[id] = record
          /\ \A i \in DOMAIN recs : approvals'[i] = recs[i]
      BY <1>2
    <2>g. \A i \in DOMAIN recs : recs[i].serial \in Nat /\ recs[i].serial <= serial
      BY <2>a, <2>e DEF SerialsFresh, ApprovalTypes, ApprovalRecords, Generated
    <2>1. ApprovalTypes'
      BY <1>a, <1>b, <2>a, <2>b, <2>c, <2>e, <2>f, <1>2 DEF ApprovalTypes
    <2>2. SerialsFresh'
      <3>1. \A i, j \in DOMAIN recs : recs[i].serial = recs[j].serial => i = j
        BY <2>a, <2>e DEF SerialsFresh
      <3>2. (\A i, j \in DOMAIN approvals : approvals[i].serial = approvals[j].serial => i = j)'
        BY <3>1, <2>b, <2>c, <2>f, <2>g
      <3>3. \A n \in Generated : n > serial + 1 => claims'[n] = << >>
        BY <1>a, <2>a, <2>b DEF SerialsFresh, Generated
      <3>4. \A i \in DOMAIN approvals' : approvals'[i].serial <= serial + 1
        BY <2>b, <2>c, <2>f, <2>g
      <3> QED BY <3>2, <3>3, <3>4, <1>2 DEF SerialsFresh
    <2>3. ClaimedOnce'
      <3>1. ASSUME NEW i \in DOMAIN approvals'
            PROVE  LET r == approvals'[i]
                   IN /\ \A k \in DOMAIN claims[r.serial] : claims[r.serial][k] = r.token
                      /\ r.status \in {"claimed", "completed"} => claims[r.serial] # << >>
                      /\ r.status = "pending" => claims[r.serial] = << >>
        <4>1. CASE i \in DOMAIN recs
          BY <4>1, <2>a, <2>e, <2>f DEF ClaimedOnce
        <4>2. CASE i = id
          BY <4>2, <2>c, <2>d, <2>f
        <4> QED BY <4>1, <4>2, <2>f
      <3> QED BY <3>1, <1>a, <2>a DEF ClaimedOnce
    <2> QED BY <2>1, <2>2, <2>3 DEF ApprovalInv
  <1> QED BY <1>1, <1>2, <1>a

(* An operation on one record that claims nothing.                         *)
LEMMA UpdateKeeps ==
    ASSUME ApprovalInv, NEW id \in DOMAIN approvals, NEW r \in ApprovalRecords, Updated(id, r),
           r.serial = approvals[id].serial, r.token = approvals[id].token,
           r.status = "pending" => approvals[id].status = "pending",
           r.status \in {"claimed", "completed"} => approvals[id].status \in {"claimed", "completed"},
           now' = now, UNCHANGED <<serial, claims>>,
           approvalCall' \in [ApprovalClients -> Nat \cup {Idle}],
           \A c \in ApprovalClients : approvalCall'[c] <= now'
    PROVE  ApprovalInv'
  <1>a. ApprovalTypes /\ SerialsFresh /\ ClaimedOnce
    BY DEF ApprovalInv
  <1>b. /\ DOMAIN approvals' = DOMAIN approvals /\ approvals'[id] = r
        /\ \A i \in DOMAIN approvals : i # id => approvals'[i] = approvals[i]
    BY DEF Updated
  <1>1. ApprovalTypes'
    BY <1>a, <1>b DEF ApprovalTypes
  <1>2. SerialsFresh'
    BY <1>a, <1>b DEF SerialsFresh
  <1>3. ClaimedOnce'
    BY <1>a, <1>b DEF ClaimedOnce
  <1> QED BY <1>1, <1>2, <1>3 DEF ApprovalInv

(* The one claim of a record.                                              *)
LEMMA ClaimKeeps ==
    ASSUME ApprovalInv, NEW c \in ApprovalClients, ClaimApproval(c)
    PROVE  ApprovalInv'
  <1>a. ApprovalTypes /\ SerialsFresh /\ ClaimedOnce
    BY DEF ApprovalInv
  <1>b. /\ approvalCall[c] \in Nat /\ approvalCall' \in [ApprovalClients -> Nat \cup {Idle}]
        /\ \A d \in ApprovalClients : approvalCall'[d] <= now'
    BY ReturnsFrom DEF ClaimApproval
  <1>c. PICK id \in DOMAIN approvals, token \in Tokens :
          LET r == Looked(c, id)
          IN IF Claimable(r, token)
             THEN /\ Updated(id, [r EXCEPT !.status = "claimed"])
                  /\ claims' = [claims EXCEPT ![r.serial] = Append(@, token)]
             ELSE Updated(id, r) /\ UNCHANGED claims
    BY DEF ClaimApproval
  <1>d. PICK r \in ApprovalRecords :
          /\ r = Looked(c, id) /\ r.serial = approvals[id].serial /\ r.token = approvals[id].token
          /\ r.status # approvals[id].status => r.status = "expired"
    BY <1>a, <1>b, ExpiryOf DEF Looked, ApprovalTypes
  <1>1. CASE ~Claimable(r, token)
    BY <1>1, <1>b, <1>c, <1>d, UpdateKeeps DEF ClaimApproval
  <1>2. CASE Claimable(r, token)
    <2> DEFINE s == [r EXCEPT !.status = "claimed"]
    <2>a. PICK n \in Generated : n = r.serial
      BY DEF ApprovalRecords
    <2>b. s \in ApprovalRecords /\ s.serial = n /\ s.token = r.token /\ s.status = "claimed"
      BY <2>a DEF ApprovalRecords, Open
    <2>c. r.status = "pending" /\ r.token = token /\ approvals[id].status = "pending"
      BY <1>2, <1>d DEF Claimable
    <2>d. /\ DOMAIN approvals' = DOMAIN approvals /\ approvals'[id] = s
          /\ \A i \in DOMAIN approvals : i # id => approvals'[i] = approvals[i]
      BY <1>2, <1>c, <1>d DEF Updated
    <2>e. claims[n] = << >> /\ claims \in [Generated -> Seq(Tokens)]
      BY <1>a, <1>d, <2>a, <2>c DEF ClaimedOnce, ApprovalTypes
    <2>f. claims' = [claims EXCEPT ![n] = Append(<< >>, token)]
      BY <1>2, <1>c, <1>d, <2>a, <2>e
    <2>g. /\ claims'[n] = <<token>> /\ \A m \in Generated : m # n => claims'[m] = claims[m]
          /\ claims' \in [Generated -> Seq(Tokens)]
      BY <2>e, <2>f
    <2>h. \A i \in DOMAIN approvals : i # id => approvals[i].serial # n
      BY <1>a, <1>d, <2>a DEF SerialsFresh
    <2>i. n <= serial
      BY <1>a, <1>d, <2>a DEF SerialsFresh
    <2>j. UNCHANGED <<approvalNext, now, serial>>
      BY DEF ClaimApproval
    <2> HIDE DEF s
    <2>1. ApprovalTypes'
      BY <1>a, <1>b, <2>b, <2>d, <2>g, <2>j DEF ApprovalTypes
    <2>2. SerialsFresh'
      <3>1. \A m \in Generated : m > serial => m # n
        BY <1>a, <2>i DEF ApprovalTypes, Generated
      <3> QED BY <3>1, <1>a, <1>d, <2>a, <2>b, <2>d, <2>g, <2>i, <2>j DEF SerialsFresh
    <2>3. ClaimedOnce'
      <3>1. \A m \in Generated : Len(claims'[m]) <= 1
        <4>1. Len(claims'[n]) <= 1
          BY <2>g
        <4>2. \A m \in Generated : m # n => Len(claims'[m]) <= 1
          BY <1>a, <2>g DEF ClaimedOnce
        <4> QED BY <4>1, <4>2, Zenon
      <3>2. \A i \in DOMAIN approvals : i # id => approvals[i].serial \in Generated
        BY <1>a DEF ApprovalTypes, ApprovalRecords
      <3>3. claims'[n] # << >> /\ \A k \in DOMAIN claims'[n] : claims'[n][k] = token
        BY <2>g
      <3>4. ASSUME NEW i \in DOMAIN approvals'
            PROVE  LET q == approvals'[i]
                   IN /\ \A k \in DOMAIN claims'[q.serial] : claims'[q.serial][k] = q.token
                      /\ q.status \in {"claimed", "completed"} => claims'[q.serial] # << >>
                      /\ q.status = "pending" => claims'[q.serial] = << >>
        <4>1. CASE i = id
          BY <4>1, <3>3, <2>b, <2>c, <2>d
        <4>2. CASE i # id
          <5>1. approvals'[i] = approvals[i] /\ claims'[approvals[i].serial] = claims[approvals[i].serial]
            BY <4>2, <3>2, <2>d, <2>g, <2>h
          <5> QED BY <5>1, <2>d, <1>a DEF ClaimedOnce
        <4> QED BY <4>1, <4>2
      <3> QED BY <3>1, <3>4 DEF ClaimedOnce
    <2> QED BY <2>1, <2>2, <2>3 DEF ApprovalInv
  <1> QED BY <1>1, <1>2

(* Completing, rejecting and looking at a record.                          *)
LEMMA DecideKeeps ==
    ASSUME ApprovalInv, NEW c \in ApprovalClients,
           CompleteApproval(c) \/ RejectApproval(c) \/ DetailApproval(c)
    PROVE  ApprovalInv'
  <1>a. ApprovalTypes
    BY DEF ApprovalInv
  <1>b. /\ approvalCall[c] \in Nat /\ approvalCall' \in [ApprovalClients -> Nat \cup {Idle}]
        /\ \A d \in ApprovalClients : approvalCall'[d] <= now'
        /\ UNCHANGED <<now, serial, claims>>
    BY ReturnsFrom DEF CompleteApproval, RejectApproval, DetailApproval
  <1>c. PICK id \in DOMAIN approvals, status \in Open \cup Final, at \in Nat :
          LET r == Looked(c, id)
          IN  /\ Updated(id, [r EXCEPT !.status = status, !.at = at])
              /\ \/ status = r.status
                 \/ status = "completed" /\ r.status = "claimed"
                 \/ status = "rejected"
    <2>1. ASSUME NEW id \in DOMAIN approvals
          PROVE  LET r == Looked(c, id) IN r = [r EXCEPT !.status = r.status, !.at = r.at]
                 /\ r.status \in Open \cup Final /\ r.at \in Nat
      <3>1. Looked(c, id) \in ApprovalRecords
        BY <1>a, <1>b, ExpiryOf DEF Looked, ApprovalTypes
      <3> QED BY <3>1 DEF ApprovalRecords
    <2>2. CASE CompleteApproval(c)
      BY <2>1, <2>2, <1>b DEF CompleteApproval, Final
    <2>3. CASE RejectApproval(c)
      BY <2>1, <2>3, <1>b DEF RejectApproval, Final
    <2>4. CASE DetailApproval(c)
      BY <2>1, <2>4 DEF DetailApproval
    <2> QED BY <2>2, <2>3, <2>4
  <1>d. PICK r \in ApprovalRecords :
          /\ r = Looked(c, id) /\ r.serial = approvals[id].serial /\ r.token = approvals[id].token
          /\ r.status # approvals[id].status => r.status = "expired"
    BY <1>a, <1>b, ExpiryOf DEF Looked, ApprovalTypes
  <1> DEFINE s == [r EXCEPT !.status = status, !.at = at]
  <1>e. s \in ApprovalRecords /\ s.serial = r.serial /\ s.token = r.token /\ s.status = status
    BY DEF ApprovalRecords
  <1>f. Updated(id, s)
    BY <1>c, <1>d, <1>e
  <1> HIDE DEF s
  <1> QED BY <1>b, <1>c, <1>d, <1>e, <1>f, UpdateKeeps

(* Time passes, a call begins, a record is released or not found.          *)
LEMMA OtherApprovalSteps ==
    ASSUME ApprovalInv,
           Tick \/ \E c \in ApprovalClients : StampCall(c) \/ ReleaseApproval(c) \/ ApprovalNotFound(c)
    PROVE  ApprovalInv'
  <1>a. ApprovalTypes /\ SerialsFresh /\ ClaimedOnce
    BY DEF ApprovalInv
  <1>1. CASE Tick
    <2>1. ApprovalTypes'
      BY <1>1, <1>a DEF Tick, ApprovalTypes, Idle
    <2> QED BY <2>1, <1>1, <1>a DEF Tick, SerialsFresh, ClaimedOnce, ApprovalInv
  <1>2. ASSUME NEW c \in ApprovalClients, StampCall(c) PROVE ApprovalInv'
    <2>1. ApprovalTypes'
      BY <1>2, <1>a DEF StampCall, ApprovalTypes, Idle
    <2> QED BY <2>1, <1>2, <1>a DEF StampCall, SerialsFresh, ClaimedOnce, ApprovalInv
  <1>3. ASSUME NEW c \in ApprovalClients, ReleaseApproval(c) PROVE ApprovalInv'
    <2>1. /\ approvalCall' \in [ApprovalClients -> Nat \cup {Idle}]
          /\ \A d \in ApprovalClients : approvalCall'[d] <= now'
      BY <1>3, ReturnsFrom DEF ReleaseApproval
    <2>2. DOMAIN approvals' \subseteq DOMAIN approvals /\ \A i \in DOMAIN approvals' : approvals'[i] = approvals[i]
      BY <1>3 DEF ReleaseApproval, Restrict
    <2>3. ApprovalTypes'
      BY <2>1, <2>2, <1>3, <1>a DEF ReleaseApproval, ApprovalTypes
    <2>4. SerialsFresh'
      BY <2>2, <1>3, <1>a DEF ReleaseApproval, SerialsFresh
    <2>5. ClaimedOnce'
      BY <2>2, <1>3, <1>a DEF ReleaseApproval, ClaimedOnce
    <2> QED BY <2>3, <2>4, <2>5 DEF ApprovalInv
  <1>4. ASSUME NEW c \in ApprovalClients, ApprovalNotFound(c) PROVE ApprovalInv'
    <2>1. /\ approvalCall' \in [ApprovalClients -> Nat \cup {Idle}]
          /\ \A d \in ApprovalClients : approvalCall'[d] <= now'
      BY <1>4, ReturnsFrom DEF ApprovalNotFound
    <2> QED BY <2>1, <1>4, <1>a DEF ApprovalNotFound, ApprovalTypes, SerialsFresh, ClaimedOnce, ApprovalInv
  <1> QED BY <1>1, <1>2, <1>3, <1>4

(* Every step keeps the invariant.                                         *)
LEMMA ApprovalStep == ApprovalInv /\ [ApprovalNextStep]_approvalVars => ApprovalInv'
  <1> SUFFICES ASSUME ApprovalInv, [ApprovalNextStep]_approvalVars PROVE ApprovalInv'
    OBVIOUS
  <1>1. CASE UNCHANGED approvalVars
    BY <1>1 DEF approvalVars, ApprovalInv, ApprovalTypes, SerialsFresh, ClaimedOnce
  <1> QED BY <1>1, CreateKeeps, ClaimKeeps, DecideKeeps, OtherApprovalSteps DEF ApprovalNextStep

(* For any number of callers, ids, tokens and records: a token is consumed *)
(* once, by the record it belongs to (claim, complete).                    *)
THEOREM TokensClaimedOnce == ApprovalSpec => []ClaimedOnce
  <1>1. ApprovalInv => ClaimedOnce
    BY DEF ApprovalInv
  <1> QED BY <1>1, InitApproval, ApprovalStep, PTL DEF ApprovalSpec

-----------------------------------------------------------------------------
(* What OpenWorkKept says of one record.                                   *)
RecordKept(id) ==
    LET r == approvals[id]
        released == \E c \in ApprovalClients : ReleaseApproval(c)
    IN /\ r.status = "claimed" =>
             released \/ (Same(r, id) /\ approvals'[id].status \in {"claimed", "completed", "rejected"})
       /\ r.status = "pending" /\ (r.expires = NoLifetime \/ now <= r.expires) =>
             released \/ (Same(r, id) /\ approvals'[id].status # "expired")
       /\ r.status \in Final =>
             ~Same(r, id) \/ approvals'[id].status = r.status

(* Creation evicts what is over, and takes no time from the others.        *)
LEMMA CreateKeepsWork ==
    ASSUME ApprovalInv, NEW c \in ApprovalClients, CreateApproval(c), NEW id \in DOMAIN approvals
    PROVE  RecordKept(id)
  <1>a. PICK new \in ApprovalIds \cup {approvalNext + 1}, token \in Tokens, ttl \in Lifetimes,
             recs \in Pruned(approvals, approvalCall[c]) :
          LET stamp == approvalCall[c]
              full == Cardinality(DOMAIN recs) >= MaxRetainedApprovals
              record == [serial |-> serial + 1, token |-> token, status |-> "pending", at |-> 0,
                         expires |-> IF ttl = NoLifetime THEN ttl ELSE stamp + ttl]
          IN /\ InCall(c)
             /\ IF full \/ new \in DOMAIN recs
                THEN approvals' = recs /\ UNCHANGED serial
                ELSE /\ approvals' = [i \in DOMAIN recs \cup {new} |->
                                         IF i = new THEN record ELSE recs[i]]
                     /\ serial' = serial + 1
             /\ OpReturns(c)
             /\ UNCHANGED <<now, claims>>
    BY DEF CreateApproval
  <1> DEFINE stamp == approvalCall[c]
             r == approvals[id]
  <1>b. stamp \in Nat /\ stamp <= now /\ now \in Nat
    BY <1>a, ReturnsFrom DEF ApprovalInv, ApprovalTypes
  <1>c. /\ Settled(recs, stamp)
        /\ id \notin DOMAIN recs => ExpireIfNeeded(r, stamp).status \in Final
    BY <1>b, PrunedSettles
  <1>d. r \in ApprovalRecords /\ r.serial <= serial /\ serial \in Nat /\ r.serial \in Nat
    BY ApprovalAssumption DEF ApprovalInv, ApprovalTypes, SerialsFresh, ApprovalRecords, Generated
  <1>e. /\ ExpireIfNeeded(r, stamp).serial = r.serial
        /\ r.status # "pending" => ExpireIfNeeded(r, stamp) = r
        /\ ExpireIfNeeded(r, stamp).status # r.status =>
              r.status = "pending" /\ r.expires # NoLifetime /\ stamp > r.expires
    BY <1>b, <1>d, ExpiryOf
  <1>f. r.status = "pending" /\ (r.expires = NoLifetime \/ now <= r.expires) =>
            ExpireIfNeeded(r, stamp).status = "pending"
    BY <1>b, <1>d, <1>e, ApprovalAssumption DEF ApprovalRecords
  <1>g. r.status = "claimed" \/ (r.status = "pending" /\ (r.expires = NoLifetime \/ now <= r.expires)) =>
            id \in DOMAIN recs
    BY <1>c, <1>e, <1>f DEF Final
  <1>h. id \in DOMAIN recs =>
          /\ id \in DOMAIN approvals' /\ approvals'[id] = ExpireIfNeeded(r, stamp)
    <2>1. id \in DOMAIN recs => recs[id] = ExpireIfNeeded(r, stamp)
      BY <1>c DEF Settled
    <2> QED BY <1>a, <2>1
  <1>i. id \notin DOMAIN recs /\ id \in DOMAIN approvals' => approvals'[id].serial = serial + 1
    BY <1>a
  <1> QED BY <1>d, <1>e, <1>f, <1>g, <1>h, <1>i DEF RecordKept, Same, Final

(* The operations on one record, another one's or this one's.              *)
LEMMA UpdateKeepsWork ==
    ASSUME ApprovalInv, NEW c \in ApprovalClients, NEW id \in DOMAIN approvals,
           ClaimApproval(c) \/ CompleteApproval(c) \/ RejectApproval(c) \/ DetailApproval(c)
    PROVE  RecordKept(id)
  <1> DEFINE stamp == approvalCall[c]
             r == approvals[id]
             looked == ExpireIfNeeded(r, stamp)
  <1>a. stamp \in Nat /\ stamp <= now /\ now \in Nat
    BY ReturnsFrom DEF ApprovalInv, ApprovalTypes, ClaimApproval, CompleteApproval, RejectApproval, DetailApproval
  <1>b. r \in ApprovalRecords
    BY DEF ApprovalInv, ApprovalTypes
  <1>c. /\ looked \in ApprovalRecords /\ looked.serial = r.serial
        /\ r.status # "pending" => looked = r
        /\ looked.status # r.status =>
              r.status = "pending" /\ r.expires # NoLifetime /\ stamp > r.expires
    BY <1>a, <1>b, ExpiryOf
  <1>d. r.status = "pending" /\ (r.expires = NoLifetime \/ now <= r.expires) => looked.status = "pending"
    BY <1>a, <1>b, <1>c, ApprovalAssumption DEF ApprovalRecords
  <1>e. /\ id \in DOMAIN approvals'
        /\ \/ approvals'[id] = r
           \/ approvals'[id] = looked
           \/ approvals'[id] = [looked EXCEPT !.status = "claimed"] /\ looked.status = "pending"
           \/ approvals'[id] = [looked EXCEPT !.status = "completed", !.at = stamp] /\ looked.status = "claimed"
           \/ approvals'[id] = [looked EXCEPT !.status = "rejected", !.at = stamp] /\ looked.status \in Open
    <2>1. CASE ClaimApproval(c)
      BY <2>1 DEF ClaimApproval, Updated, Looked, Claimable
    <2>2. CASE CompleteApproval(c)
      BY <2>2 DEF CompleteApproval, Updated, Looked
    <2>3. CASE RejectApproval(c)
      BY <2>3 DEF RejectApproval, Updated, Looked
    <2>4. CASE DetailApproval(c)
      BY <2>4 DEF DetailApproval, Updated, Looked
    <2> QED BY <2>1, <2>2, <2>3, <2>4
  <1> HIDE DEF looked
  <1>f. Same(r, id) /\
          \/ approvals'[id].status = r.status
          \/ approvals'[id].status = looked.status
          \/ approvals'[id].status = "claimed" /\ looked.status = "pending"
          \/ approvals'[id].status = "completed" /\ looked.status = "claimed"
          \/ approvals'[id].status = "rejected" /\ looked.status \in Open
    BY <1>b, <1>c, <1>e DEF Same, ApprovalRecords
  <1> QED BY <1>c, <1>d, <1>f DEF RecordKept, Open, Final

(* For any number of callers, records and lifetimes: neither expiry nor    *)
(* pruning takes open work, and decisions are final (expire_if_needed,     *)
(* prune_releasable).                                                      *)
THEOREM OpenWorkIsKept == ApprovalSpec => OpenWorkKept
  <1>1. ApprovalInv /\ [ApprovalNextStep]_approvalVars =>
            [\A id \in DOMAIN approvals : RecordKept(id)]_approvalVars
    <2> SUFFICES ASSUME ApprovalInv, ApprovalNextStep, NEW id \in DOMAIN approvals
                 PROVE  RecordKept(id)
      OBVIOUS
    <2>1. ASSUME NEW c \in ApprovalClients, ReleaseApproval(c) PROVE RecordKept(id)
      BY <2>1 DEF RecordKept, Same, ReleaseApproval, Restrict
    <2>2. CASE approvals' = approvals
      BY <2>2 DEF RecordKept, Same, Final
    <2> QED BY <2>1, <2>2, CreateKeepsWork, UpdateKeepsWork
            DEF ApprovalNextStep, Tick, StampCall, ApprovalNotFound
  <1>2. (\A id \in DOMAIN approvals : RecordKept(id)) =>
        \A id \in DOMAIN approvals :
          LET r == approvals[id]
              released == \E c \in ApprovalClients : ReleaseApproval(c)
          IN /\ r.status = "claimed" =>
                   released \/ (Same(r, id) /\ approvals'[id].status \in {"claimed", "completed", "rejected"})
             /\ r.status = "pending" /\ (r.expires = NoLifetime \/ now <= r.expires) =>
                   released \/ (Same(r, id) /\ approvals'[id].status # "expired")
             /\ r.status \in Final =>
                   ~Same(r, id) \/ approvals'[id].status = r.status
    BY DEF RecordKept
  <1> QED BY <1>1, <1>2, InitApproval, ApprovalStep, PTL DEF ApprovalSpec, OpenWorkKept

(* Ids of the registry's own are those drawn so far, one for a record at   *)
(* most, and the clock stops at its bound.                                 *)
ApprovalBounds ==
    /\ approvalNext \in 0 .. serial /\ now <= MaxClock
    /\ DOMAIN approvals \subseteq ApprovalIds \cup (1 .. approvalNext)

(* A step keeps the bounds: an id that is drawn names no record.           *)
LEMMA BoundsKept ==
    ASSUME ApprovalInv, ApprovalBounds, [ApprovalNextStep]_approvalVars
    PROVE  ApprovalBounds'
  <1>1. serial \in 0 .. MaxSerial /\ now \in Nat /\ MaxSerial \in Nat /\ MaxClock \in Nat /\ approvalNext \in Nat
    BY ApprovalAssumption DEF ApprovalInv, ApprovalTypes, ApprovalBounds
  <1>2. CASE UNCHANGED <<approvalNext, serial>> /\ now' <= MaxClock /\ DOMAIN approvals' \subseteq DOMAIN approvals
    BY <1>2 DEF ApprovalBounds
  <1>3. CASE Tick \/ \E c \in ApprovalClients : StampCall(c) \/ ApprovalNotFound(c)
    BY <1>1, <1>2, <1>3 DEF Tick, StampCall, ApprovalNotFound, ApprovalBounds
  <1>4. ASSUME NEW c \in ApprovalClients, ClaimApproval(c) \/ CompleteApproval(c) \/ RejectApproval(c) \/ DetailApproval(c)
        PROVE  ApprovalBounds'
    <2>1. DOMAIN approvals' = DOMAIN approvals
      BY <1>4 DEF ClaimApproval, CompleteApproval, RejectApproval, DetailApproval, Updated
    <2> QED BY <2>1, <1>2, <1>4
            DEF ClaimApproval, CompleteApproval, RejectApproval, DetailApproval, ApprovalBounds
  <1>5. ASSUME NEW c \in ApprovalClients, ReleaseApproval(c) PROVE ApprovalBounds'
    <2>1. DOMAIN approvals' \subseteq DOMAIN approvals
      BY <1>5 DEF ReleaseApproval, Restrict
    <2> QED BY <2>1, <1>2, <1>5 DEF ReleaseApproval, ApprovalBounds
  <1>6. ASSUME NEW c \in ApprovalClients, CreateApproval(c) PROVE ApprovalBounds'
    <2>1. PICK id \in ApprovalIds \cup {approvalNext + 1}, recs \in Pruned(approvals, approvalCall[c]) :
            /\ InCall(c) /\ OpReturns(c) /\ now' = now
            /\ \/ /\ approvalNext' = approvalNext /\ serial' = serial /\ DOMAIN approvals' = DOMAIN recs
               \/ /\ approvalNext' = IF id \in ApprovalIds THEN approvalNext ELSE approvalNext + 1
                  /\ IF id \in DOMAIN recs THEN approvals' = recs /\ serial' = serial
                     ELSE serial' = serial + 1 /\ DOMAIN approvals' = DOMAIN recs \cup {id}
      BY <1>6 DEF CreateApproval
    <2>2. approvalCall[c] \in Nat
      BY <2>1, ReturnsFrom
    <2>3. DOMAIN recs \subseteq DOMAIN approvals
      BY <2>2, PrunedSettles DEF Settled
    <2>4. id \notin ApprovalIds => id \notin DOMAIN recs
      BY <1>1, <2>1, <2>3 DEF ApprovalBounds
    <2> QED BY <1>1, <2>1, <2>3, <2>4 DEF ApprovalBounds
  <1>7. CASE UNCHANGED approvalVars
    BY <1>2, <1>7 DEF approvalVars, ApprovalBounds
  <1> QED BY <1>3, <1>4, <1>5, <1>6, <1>7 DEF ApprovalNextStep

(* The two give the type.                                                  *)
LEMMA ApprovalTyped == ApprovalInv /\ ApprovalBounds => ApprovalTypeOK
  <1> SUFFICES ASSUME ApprovalInv, ApprovalBounds PROVE ApprovalTypeOK
    OBVIOUS
  <1>1. MaxSerial \in Nat /\ MaxClock \in Nat
    BY ApprovalAssumption
  <1>2. \A c \in ApprovalClients : approvalCall[c] \in Idle .. MaxClock
    BY <1>1 DEF ApprovalInv, ApprovalTypes, ApprovalBounds, Idle
  <1> QED BY <1>1, <1>2 DEF ApprovalInv, ApprovalTypes, ApprovalBounds, ApprovalTypeOK, ApprovalRecords, Generated

(* ApprovalTypeOK is invariant: an id the registry draws is new, and it    *)
(* draws none that no record gets.                                         *)
THEOREM ApprovalTypesKept == ApprovalSpec => []ApprovalTypeOK
  <1>1. ApprovalInit => ApprovalBounds
    BY ApprovalAssumption DEF ApprovalInit, ApprovalBounds
  <1> QED BY <1>1, InitApproval, ApprovalStep, BoundsKept, ApprovalTyped, PTL DEF ApprovalSpec

-----------------------------------------------------------------------------
(***************************************************************************)
(* Trusted prompts of the GUI host, for any number of actions and pages.   *)
(***************************************************************************)

(* An action waiting for its use.                                          *)
GuiEntries == [id : ActionIds, gen : Nat, old : BOOLEAN]

(* The types of the variables.                                             *)
GuiTypes ==
    /\ documentGeneration \in Nat /\ bridgeClosed \in BOOLEAN
    /\ actions \subseteq GuiEntries
    /\ actionsIssued \in 0 .. MaxActions
    /\ issuing \in [Issuers -> [step : {"idle", "open", "issue"}, gen : Nat]]
    /\ gui \in [step : GuiSteps, action : 0 .. MaxActions, previous : Nat]
    /\ tickets \in [session : Nat, next : Nat, active : BOOLEAN]
    /\ slotOpen \in BOOLEAN
    /\ takes \in [ActionIds -> Seq(Nat \X Nat)]
    /\ binds \subseteq ActionIds

(* Ids are drawn in order, an id names one entry, and one that was not     *)
(* drawn was not taken.                                                    *)
IdsDrawn ==
    /\ \A e, f \in actions : e.id = f.id => e = f
    /\ \A e \in actions : e.id <= actionsIssued
    /\ \A id \in ActionIds : id > actionsIssued => takes[id] = << >>

(* The steps of the GUI thread between taking an action and the binding.   *)
PromptSteps == {"prompt", "prompting", "bind"}

(* While a prompt is on its way its action was taken, and nothing closes.  *)
PromptInv ==
    /\ gui.step \in PromptSteps =>
          /\ ~bridgeClosed
          /\ gui.action \in ActionIds /\ takes[gui.action] # << >>
          /\ takes[gui.action][1][2] = documentGeneration
    /\ gui.step \in {"close_actions", "close_session"} => bridgeClosed
    /\ ~slotOpen => bridgeClosed

(* The coordinator is in the turn of the GUI thread's ticket, or idle and  *)
(* ready for the next.                                                     *)
TicketInv ==
    /\ tickets.active <=> gui.step = "prompting"
    /\ tickets.session = IF gui.step \in {"prompt", "prompting"} THEN tickets.next + 1 ELSE tickets.next

(* What was taken, was once and on its page.                               *)
TakesInv ==
    /\ \A id \in ActionIds : Len(takes[id]) <= 1
    /\ \A id \in ActionIds : \A k \in DOMAIN takes[id] : takes[id][k][1] = takes[id][k][2]
    /\ \A e \in actions : takes[e.id] = << >>
    /\ \A id \in binds : takes[id] # << >>

(* The inductive invariant.                                                *)
GuiInv == GuiTypes /\ IdsDrawn /\ PromptInv /\ TicketInv /\ TakesInv

-----------------------------------------------------------------------------
(* The invariant gives both parts of the property.                         *)
LEMMA GuiInvProperty == GuiInv => ActionsPromptOnce
  <1> SUFFICES ASSUME GuiInv PROVE ActionsUsedOnce /\ PromptReady
    BY DEF ActionsPromptOnce
  <1>1. PromptReady
    BY DEF GuiInv, GuiTypes, TicketInv, PromptReady, GuiAt
  <1>2. ActionsUsedOnce
    BY DEF GuiInv, GuiTypes, TakesInv, PromptInv, PromptSteps, ActionsUsedOnce
  <1> QED BY <1>1, <1>2

(* At first there are no actions, no page is replaced and no prompt open.  *)
LEMMA InitGui == GuiInit => GuiInv
  <1> SUFFICES ASSUME GuiInit PROVE GuiInv
    OBVIOUS
  <1>1. GuiTypes
    <2>1. takes \in [ActionIds -> Seq(Nat \X Nat)]
      BY DEF GuiInit
    <2>2. issuing \in [Issuers -> [step : {"idle", "open", "issue"}, gen : Nat]]
      BY DEF GuiInit, NoIssue
    <2>3. gui \in [step : GuiSteps, action : 0 .. MaxActions, previous : Nat]
      BY GuiAssumption DEF GuiInit, IdleGui, GuiSteps
    <2>4. tickets \in [session : Nat, next : Nat, active : BOOLEAN]
      BY DEF GuiInit
    <2>5. documentGeneration \in Nat /\ actionsIssued \in 0 .. MaxActions /\ actions \subseteq GuiEntries
          /\ binds \subseteq ActionIds
      BY GuiAssumption DEF GuiInit
    <2>6. bridgeClosed \in BOOLEAN /\ slotOpen \in BOOLEAN
      BY DEF GuiInit
    <2> QED BY <2>1, <2>2, <2>3, <2>4, <2>5, <2>6 DEF GuiTypes
  <1>2. IdsDrawn /\ TakesInv
    BY DEF GuiInit, IdsDrawn, TakesInv
  <1>3. PromptInv /\ TicketInv
    BY DEF GuiInit, PromptInv, PromptSteps, TicketInv, IdleGui
  <1> QED BY <1>1, <1>2, <1>3 DEF GuiInv

(* The steps of issue_action, on any thread: a new id.                     *)
LEMMA IssueKeeps ==
    ASSUME GuiInv, NEW i \in Issuers, CheckOpen(i) \/ ReadGeneration(i) \/ IssueAction(i)
    PROVE  GuiInv'
  <1>a. GuiTypes /\ IdsDrawn /\ PromptInv /\ TicketInv /\ TakesInv
    BY DEF GuiInv
  <1>1. CASE CheckOpen(i) \/ ReadGeneration(i)
    <2>1. GuiTypes'
      <3>1. issuing' \in [Issuers -> [step : {"idle", "open", "issue"}, gen : Nat]]
        <4>1. issuing[i] \in [step : {"idle", "open", "issue"}, gen : Nat] /\ documentGeneration \in Nat
          BY <1>a DEF GuiTypes
        <4>2. [issuing[i] EXCEPT !.step = "open"] \in [step : {"idle", "open", "issue"}, gen : Nat]
          BY <4>1
        <4>3. issuing' = [issuing EXCEPT ![i] = [issuing[i] EXCEPT !.step = "open"]]
              \/ issuing' = [issuing EXCEPT ![i] = [step |-> "issue", gen |-> documentGeneration]]
          BY <1>1 DEF CheckOpen, ReadGeneration
        <4>4. PICK x \in [step : {"idle", "open", "issue"}, gen : Nat] : issuing' = [issuing EXCEPT ![i] = x]
          BY <4>1, <4>2, <4>3
        <4> QED BY <4>4, <1>a DEF GuiTypes
      <3> QED BY <3>1, <1>1, <1>a DEF CheckOpen, ReadGeneration, GuiTypes, bridgeState, registryState, guiHistory
    <2> QED BY <2>1, <1>1, <1>a DEF CheckOpen, ReadGeneration, GuiInv, IdsDrawn, PromptInv, TicketInv, TakesInv,
               bridgeState, registryState, guiHistory
  <1>2. CASE IssueAction(i)
    <2>a. UNCHANGED <<documentGeneration, bridgeClosed, gui, tickets, slotOpen, takes, binds>>
      BY <1>2 DEF IssueAction, bridgeState, guiHistory
    <2>b. issuing' \in [Issuers -> [step : {"idle", "open", "issue"}, gen : Nat]] /\ issuing[i].gen \in Nat
      BY <1>2, <1>a DEF IssueAction, GuiTypes, NoIssue
    <2>c. PromptInv' /\ TicketInv'
      BY <1>a, <2>a DEF PromptInv, TicketInv
    <2>1. CASE actions' \subseteq actions /\ UNCHANGED actionsIssued
      <3>1. GuiTypes'
        BY <2>1, <2>a, <2>b, <1>a DEF GuiTypes
      <3> QED BY <3>1, <2>1, <2>a, <2>c, <1>a DEF GuiInv, IdsDrawn, TakesInv
    <2>2. ASSUME NEW e, e = Entry(actionsIssued + 1, issuing[i].gen, FALSE),
                 actionsIssued + 1 \in ActionIds, actionsIssued' = actionsIssued + 1,
                 actions' \subseteq actions \cup {e}
          PROVE  GuiInv'
      <3>1. e \in GuiEntries /\ e.id = actionsIssued + 1 /\ actionsIssued \in Nat
        BY <2>2, <2>b, <1>a DEF Entry, GuiEntries, GuiTypes
      <3>2. GuiTypes'
        <4>1. actionsIssued' \in 0 .. MaxActions
          BY <3>1, <2>2 DEF ActionIds
        <4>2. actions' \subseteq GuiEntries
          BY <3>1, <2>2, <1>a DEF GuiTypes
        <4> QED BY <4>1, <4>2, <2>a, <2>b, <1>a DEF GuiTypes
      <3>3. \A f \in actions : f.id \in Nat /\ f.id <= actionsIssued /\ f.id # e.id
        BY <3>1, <1>a DEF GuiTypes, GuiEntries, IdsDrawn, ActionIds
      <3>4. takes[e.id] = << >>
        BY <3>1, <2>2, <1>a DEF IdsDrawn, ActionIds
      <3>5. IdsDrawn'
        <4>1. \A f \in actions' : f.id <= actionsIssued + 1
          <5>1. \A f \in actions \cup {e} : f.id <= actionsIssued + 1
            BY <3>1, <3>3
          <5> QED BY <5>1, <2>2
        <4>2. \A f, g \in actions' : f.id = g.id => f = g
          BY <3>3, <2>2, <1>a DEF IdsDrawn
        <4>3. \A id \in ActionIds : id > actionsIssued + 1 => takes[id] = << >>
          BY <3>1, <1>a DEF IdsDrawn, ActionIds
        <4> QED BY <4>1, <4>2, <4>3, <2>2, <2>a DEF IdsDrawn
      <3>6. TakesInv'
        BY <3>4, <2>2, <2>a, <1>a DEF TakesInv
      <3> QED BY <3>2, <3>5, <3>6, <2>c DEF GuiInv
    <2> QED BY <1>2, <2>1, <2>2 DEF IssueAction
  <1> QED BY <1>1, <1>2

(* Entries grow old, and expired ones are removed.                         *)
LEMMA AgeKeeps ==
    ASSUME GuiInv, NEW e \in actions, ActionAges(e) \/ TakeExpired(e)
    PROVE  GuiInv'
  <1>a. GuiTypes /\ IdsDrawn /\ PromptInv /\ TicketInv /\ TakesInv
    BY DEF GuiInv
  <1>b. UNCHANGED <<documentGeneration, bridgeClosed, actionsIssued, issuing, gui, tickets, slotOpen, takes, binds>>
    BY DEF ActionAges, TakeExpired, bridgeState, guiHistory
  <1>c. PICK g \in GuiEntries : g.id = e.id /\ actions' \subseteq (actions \ {e}) \cup {g}
    <2>1. e \in GuiEntries
      BY <1>a DEF GuiTypes
    <2>2. [e EXCEPT !.old = TRUE] \in GuiEntries /\ [e EXCEPT !.old = TRUE].id = e.id
      BY <2>1 DEF GuiEntries
    <2> QED BY <2>2 DEF ActionAges, TakeExpired
  <1>1. GuiTypes'
    BY <1>a, <1>b, <1>c DEF GuiTypes
  <1>2. IdsDrawn'
    <2>1. \A f \in actions \ {e} : f.id # g.id
      BY <1>a, <1>c DEF IdsDrawn
    <2> QED BY <2>1, <1>a, <1>b, <1>c DEF IdsDrawn
  <1>3. PromptInv' /\ TicketInv'
    BY <1>a, <1>b DEF PromptInv, TicketInv
  <1>4. TakesInv'
    BY <1>a, <1>b, <1>c DEF TakesInv
  <1> QED BY <1>1, <1>2, <1>3, <1>4 DEF GuiInv

(* Taking an action removes the only entry that has its id.                *)
LEMMA TakeKeeps ==
    ASSUME GuiInv, NEW e \in actions, TakeAction(e)
    PROVE  GuiInv'
  <1>a. GuiTypes /\ IdsDrawn /\ PromptInv /\ TicketInv /\ TakesInv
    BY DEF GuiInv
  <1>b. UNCHANGED <<documentGeneration, bridgeClosed, actionsIssued, issuing, slotOpen, binds>>
        /\ ~bridgeClosed /\ e.gen = documentGeneration /\ gui.step = "idle"
        /\ actions' = actions \ {e}
    BY DEF TakeAction, bridgeState, Takeable, GuiAt
  <1>c. PICK id \in ActionIds : id = e.id
    BY <1>a DEF GuiTypes, GuiEntries
  <1>d. takes[id] = << >> /\ takes \in [ActionIds -> Seq(Nat \X Nat)] /\ documentGeneration \in Nat
    BY <1>a, <1>c DEF TakesInv, GuiTypes
  <1> DEFINE d == documentGeneration
             take == <<d, d>>
  <1>e. takes' = [takes EXCEPT ![id] = Append(<< >>, take)]
    BY <1>b, <1>c, <1>d DEF TakeAction
  <1>f. /\ takes'[id] = <<take>> /\ \A n \in ActionIds : n # id => takes'[n] = takes[n]
        /\ takes' \in [ActionIds -> Seq(Nat \X Nat)]
    BY <1>d, <1>e
  <1>g. /\ Len(takes'[id]) <= 1 /\ takes'[id] # << >> /\ takes'[id][1][2] = documentGeneration
        /\ \A k \in DOMAIN takes'[id] : takes'[id][k][1] = takes'[id][k][2]
    BY <1>f
  <1>h. gui' = [gui EXCEPT !.step = "prompt", !.action = id]
        /\ tickets' = [tickets EXCEPT !.session = @ + 1]
    BY <1>c DEF TakeAction
  <1>i. /\ gui'.step = "prompt" /\ gui'.action = id
        /\ gui' \in [step : GuiSteps, action : 0 .. MaxActions, previous : Nat]
        /\ tickets' \in [session : Nat, next : Nat, active : BOOLEAN]
        /\ tickets'.session = tickets.session + 1 /\ tickets'.next = tickets.next
        /\ tickets'.active = tickets.active
    <2>1. gui \in [step : GuiSteps, action : 0 .. MaxActions, previous : Nat] /\ id \in 0 .. MaxActions
          /\ "prompt" \in GuiSteps
      BY <1>a DEF GuiTypes, ActionIds, GuiSteps
    <2>2. /\ gui'.step = "prompt" /\ gui'.action = id
          /\ gui' \in [step : GuiSteps, action : 0 .. MaxActions, previous : Nat]
      BY <2>1, <1>h
    <2>3. tickets \in [session : Nat, next : Nat, active : BOOLEAN]
      BY <1>a DEF GuiTypes
    <2>4. tickets' = [tickets EXCEPT !.session = tickets.session + 1] /\ tickets.session + 1 \in Nat
      BY <2>3, <1>h
    <2>5. /\ tickets' \in [session : Nat, next : Nat, active : BOOLEAN]
          /\ tickets'.session = tickets.session + 1 /\ tickets'.next = tickets.next
      BY <2>3, <2>4
    <2>6. tickets'.active = tickets.active
      BY <2>3, <2>4, Zenon
    <2> QED BY <2>2, <2>5, <2>6
  <1>j. \A f \in actions' : f.id # id
    BY <1>a, <1>b, <1>c DEF IdsDrawn
  <1>1. GuiTypes'
    BY <1>a, <1>b, <1>f, <1>i DEF GuiTypes
  <1>2. IdsDrawn'
    <2>1. id <= actionsIssued
      BY <1>a, <1>c DEF IdsDrawn
    <2>2. \A n \in ActionIds : n > actionsIssued => n # id
      BY <2>1, <1>a DEF GuiTypes, ActionIds
    <2> QED BY <2>2, <1>a, <1>b, <1>f DEF IdsDrawn
  <1>3. PromptInv'
    BY <1>a, <1>b, <1>g, <1>i DEF PromptInv, PromptSteps
  <1>4. TicketInv'
    BY <1>a, <1>b, <1>i DEF TicketInv, GuiTypes
  <1>5. TakesInv'
    <2>1. \A n \in ActionIds : Len(takes'[n]) <= 1
      <3>1. \A n \in ActionIds : n # id => Len(takes'[n]) <= 1
        BY <1>a, <1>f DEF TakesInv
      <3> QED BY <3>1, <1>g, Zenon
    <2>2. \A n \in ActionIds : \A k \in DOMAIN takes'[n] : takes'[n][k][1] = takes'[n][k][2]
      <3>1. ASSUME NEW n \in ActionIds, n # id
            PROVE  \A k \in DOMAIN takes'[n] : takes'[n][k][1] = takes'[n][k][2]
        <4>1. takes'[n] = takes[n]
          BY <3>1, <1>f
        <4> QED BY <4>1, <1>a, Zenon DEF TakesInv
      <3> QED BY <3>1, <1>g, Zenon
    <2>3. \A f \in actions' : takes'[f.id] = << >>
      BY <1>a, <1>b, <1>f, <1>j DEF TakesInv, GuiTypes, GuiEntries
    <2>4. \A n \in binds' : takes'[n] # << >>
      BY <1>a, <1>b, <1>f, <1>g DEF TakesInv, GuiTypes
    <2> QED BY <2>1, <2>2, <2>3, <2>4 DEF TakesInv
  <1> QED BY <1>1, <1>2, <1>3, <1>4, <1>5 DEF GuiInv

(* The steps of a prompt.                                                  *)
LEMMA PromptKeeps ==
    ASSUME GuiInv,
           \/ BeginPrompt \/ CompletePrompt
           \/ \E stored \in BOOLEAN : EndPrompt(stored)
    PROVE  GuiInv'
  <1>a. GuiTypes /\ IdsDrawn /\ PromptInv /\ TicketInv /\ TakesInv
    BY DEF GuiInv
  <1>b. UNCHANGED <<documentGeneration, bridgeClosed, actions, actionsIssued, issuing, slotOpen, takes>>
    BY DEF BeginPrompt, CompletePrompt, EndPrompt, bridgeState, registryState, guiHistory
  <1>1. GuiTypes' /\ gui'.action = gui.action /\ gui.step \in PromptSteps
    <2>1. gui.step \in PromptSteps /\ \E step \in GuiSteps : gui' = [gui EXCEPT !.step = step]
      BY DEF GuiSteps, BeginPrompt, CompletePrompt, EndPrompt, GuiAt, GuiGoTo, PromptSteps
    <2>2. gui' \in [step : GuiSteps, action : 0 .. MaxActions, previous : Nat] /\ gui'.action = gui.action
      BY <2>1, <1>a DEF GuiTypes
    <2>3. tickets' \in [session : Nat, next : Nat, active : BOOLEAN]
      <3>1. tickets \in [session : Nat, next : Nat, active : BOOLEAN]
        BY <1>a DEF GuiTypes
      <3>2. tickets' = tickets \/ tickets' = [tickets EXCEPT !.active = TRUE]
            \/ tickets' = [tickets EXCEPT !.active = FALSE, !.next = tickets.next + 1]
        BY <3>1 DEF BeginPrompt, CompletePrompt, EndPrompt, TurnOver
      <3>3. tickets.next + 1 \in Nat
        BY <3>1
      <3> QED BY <3>1, <3>2, <3>3, Zenon
    <2>4. binds' \subseteq ActionIds
      BY <2>1, <1>a DEF GuiTypes, BeginPrompt, CompletePrompt, EndPrompt, guiHistory, PromptInv
    <2> QED BY <2>1, <2>2, <2>3, <2>4, <1>a, <1>b DEF GuiTypes
  <1>2. IdsDrawn'
    BY <1>a, <1>b DEF IdsDrawn
  <1>3. PromptInv'
    BY <1>a, <1>b, <1>1 DEF GuiTypes, PromptInv, PromptSteps, BeginPrompt, CompletePrompt, EndPrompt, GuiAt, GuiGoTo
  <1>4. TicketInv'
    BY <1>a, <1>b DEF TicketInv, GuiTypes, BeginPrompt, CompletePrompt, EndPrompt, GuiAt, GuiGoTo, TurnOver
  <1>5. TakesInv'
    BY <1>a, <1>b, <1>1 DEF TakesInv, PromptInv, CompletePrompt, BeginPrompt, EndPrompt, guiHistory
  <1> QED BY <1>1, <1>2, <1>3, <1>4, <1>5 DEF GuiInv

(* Pages are replaced, and the window is closed, between prompts.          *)
LEMMA PageKeeps ==
    ASSUME GuiInv,
           \/ OrdinaryEvent \/ InvalidateGeneration \/ StoreGeneration \/ DispatchCallback
           \/ CloseBridge \/ InvalidateAll \/ CloseSession
    PROVE  GuiInv'
  <1>a. GuiTypes /\ IdsDrawn /\ PromptInv /\ TicketInv /\ TakesInv
    BY DEF GuiInv
  <1>b. /\ actions' \subseteq actions
        /\ UNCHANGED <<actionsIssued, issuing, tickets, takes, binds>>
        /\ gui.step \notin PromptSteps
    BY DEF OrdinaryEvent, InvalidateGeneration, StoreGeneration, DispatchCallback, CloseBridge, InvalidateAll,
       CloseSession, GuiAt, bridgeState, registryState, guiHistory, PromptSteps
  <1>c. /\ \/ gui' = IdleGui
           \/ \E step \in GuiSteps \ PromptSteps, n \in Nat : gui' = [gui EXCEPT !.step = step, !.previous = n]
        /\ gui'.step \notin PromptSteps
        /\ gui' \in [step : GuiSteps, action : 0 .. MaxActions, previous : Nat]
    <2>1. ASSUME NEW step \in GuiSteps \ PromptSteps, NEW n \in Nat,
                 gui' = [gui EXCEPT !.step = step, !.previous = n]
          PROVE  gui'.step \notin PromptSteps
                 /\ gui' \in [step : GuiSteps, action : 0 .. MaxActions, previous : Nat]
      BY <2>1, <1>a DEF GuiTypes
    <2>2. ASSUME gui' = IdleGui
          PROVE  gui'.step \notin PromptSteps
                 /\ gui' \in [step : GuiSteps, action : 0 .. MaxActions, previous : Nat]
      BY <2>2, GuiAssumption DEF IdleGui, GuiSteps, PromptSteps
    <2>3. \A step : [gui EXCEPT !.step = step] = [gui EXCEPT !.step = step, !.previous = gui.previous]
      BY <1>a DEF GuiTypes
    <2>4. gui.previous \in Nat /\ documentGeneration \in Nat
          /\ {"advance", "store", "callback", "close_actions", "close_session"} \subseteq GuiSteps \ PromptSteps
      BY <1>a DEF GuiTypes, GuiSteps, PromptSteps
    <2>5. \/ gui' = IdleGui
          \/ \E step \in GuiSteps \ PromptSteps, n \in Nat : gui' = [gui EXCEPT !.step = step, !.previous = n]
      <3>1. CASE OrdinaryEvent \/ StoreGeneration \/ CloseBridge \/ InvalidateAll
        BY <3>1, <2>3, <2>4 DEF OrdinaryEvent, StoreGeneration, CloseBridge, InvalidateAll, GuiGoTo
      <3>2. CASE InvalidateGeneration \/ DispatchCallback \/ CloseSession
        BY <3>2, <2>4 DEF InvalidateGeneration, DispatchCallback, CloseSession
      <3> QED BY <3>1, <3>2
    <2> QED BY <2>1, <2>2, <2>5
  <1>1. GuiTypes'
    <2>1. documentGeneration' \in Nat
      BY <1>a DEF GuiTypes, OrdinaryEvent, InvalidateGeneration, StoreGeneration, DispatchCallback,
         CloseBridge, InvalidateAll, CloseSession, bridgeState
    <2>2. bridgeClosed' \in BOOLEAN /\ slotOpen' \in BOOLEAN
      BY <1>a DEF GuiTypes, OrdinaryEvent, InvalidateGeneration, StoreGeneration, DispatchCallback,
         CloseBridge, InvalidateAll, CloseSession, bridgeState
    <2> QED BY <2>1, <2>2, <1>a, <1>b, <1>c DEF GuiTypes
  <1>2. IdsDrawn'
    BY <1>a, <1>b DEF IdsDrawn
  <1>3. PromptInv'
    <2>1. CASE CloseBridge
      BY <2>1, <1>c DEF PromptInv, CloseBridge
    <2>2. CASE InvalidateAll \/ CloseSession
      BY <2>2, <1>a, <1>c DEF PromptInv, InvalidateAll, CloseSession, GuiAt, bridgeState, IdleGui
    <2>3. CASE OrdinaryEvent \/ InvalidateGeneration \/ StoreGeneration \/ DispatchCallback
      <3>1. UNCHANGED <<bridgeClosed, slotOpen>> /\ gui'.step \notin {"close_actions", "close_session"}
        <4>1. UNCHANGED <<bridgeClosed, slotOpen>>
          BY <2>3 DEF OrdinaryEvent, InvalidateGeneration, StoreGeneration, DispatchCallback, bridgeState
        <4>2. gui' = IdleGui \/ gui' = [gui EXCEPT !.step = "advance"] \/ gui' = [gui EXCEPT !.step = "callback"]
              \/ gui' = [gui EXCEPT !.step = "store", !.previous = documentGeneration]
          BY <2>3 DEF OrdinaryEvent, InvalidateGeneration, StoreGeneration, DispatchCallback, GuiGoTo
        <4>3. gui'.step \in {"idle", "advance", "callback", "store"}
          <5>1. gui \in [step : GuiSteps, action : 0 .. MaxActions, previous : Nat]
            BY <1>a DEF GuiTypes
          <5>2. gui' = IdleGui => gui'.step = "idle"
            BY DEF IdleGui
          <5>3. gui' = [gui EXCEPT !.step = "advance"] => gui'.step = "advance"
            BY <5>1
          <5>4. gui' = [gui EXCEPT !.step = "callback"] => gui'.step = "callback"
            BY <5>1
          <5>5. gui' = [gui EXCEPT !.step = "store", !.previous = documentGeneration] => gui'.step = "store"
            BY <5>1
          <5> QED BY <4>2, <5>2, <5>3, <5>4, <5>5
        <4> QED BY <4>1, <4>3
      <3> QED BY <3>1, <1>a, <1>c DEF PromptInv
    <2> QED BY <2>1, <2>2, <2>3
  <1>4. TicketInv'
    BY <1>a, <1>b, <1>c DEF TicketInv, PromptSteps
  <1>5. TakesInv'
    BY <1>a, <1>b DEF TakesInv
  <1> QED BY <1>1, <1>2, <1>3, <1>4, <1>5 DEF GuiInv

(* Every step of the GUI thread and of the issuers keeps the invariant.    *)
LEMMA GuiStep == GuiInv /\ [GuiNext]_guiVars => GuiInv'
  <1> SUFFICES ASSUME GuiInv, [GuiNext]_guiVars PROVE GuiInv'
    OBVIOUS
  <1>1. CASE UNCHANGED guiVars
    BY <1>1 DEF guiVars, GuiInv, GuiTypes, IdsDrawn, PromptInv, TicketInv, TakesInv
  <1> QED BY <1>1, IssueKeeps, AgeKeeps, TakeKeeps, PromptKeeps, PageKeeps DEF GuiNext

(* For any number of issuers, pages and actions: an action opens at most   *)
(* one prompt, on the page that offered it and never after the host        *)
(* closed, and the prompt's turn comes (take, advance_generation, close,   *)
(* HostPromptCoordinator::prompt).                                         *)
THEOREM ActionsPromptAtMostOnce == GuiSpec => []ActionsPromptOnce
  <1> QED BY GuiInvProperty, InitGui, GuiStep, PTL DEF GuiSpec

(* The generations that occur are of pages that were shown, and an issuer  *)
(* that is about to issue has read one.                                    *)
GuiBounds ==
    /\ documentGeneration \in 1 .. MaxDocuments
    /\ \A e \in actions : e.gen \in 1 .. MaxDocuments
    /\ \A i \in Issuers : issuing[i].gen \in 0 .. MaxDocuments /\ (issuing[i].step = "issue" => issuing[i].gen # 0)
    /\ gui.previous \in 0 .. MaxDocuments

(* Every step keeps the generations within their bound.                    *)
LEMMA GenerationsKept ==
    ASSUME GuiInv, GuiBounds, [GuiNext]_guiVars
    PROVE  GuiBounds'
  <1>1. MaxDocuments \in Nat /\ GuiTypes
    BY GuiAssumption DEF GuiInv
  <1>2. ASSUME NEW i \in Issuers, CheckOpen(i) \/ ReadGeneration(i) PROVE GuiBounds'
    <2>1. UNCHANGED <<documentGeneration, actions, gui>>
      BY <1>2 DEF CheckOpen, ReadGeneration, bridgeState, registryState
    <2>2. \A j \in Issuers :
              \/ issuing'[j] = issuing[j]
              \/ issuing'[j].step # "issue" /\ issuing'[j].gen = issuing[j].gen
              \/ issuing'[j].gen = documentGeneration
      BY <1>1, <1>2 DEF CheckOpen, ReadGeneration, GuiTypes
    <2> QED BY <1>1, <2>1, <2>2 DEF GuiBounds
  <1>3. ASSUME NEW i \in Issuers, IssueAction(i) PROVE GuiBounds'
    <2>1. UNCHANGED <<documentGeneration, gui>>
      BY <1>3 DEF IssueAction, bridgeState
    <2>2. issuing[i].step = "issue" /\ issuing' = [issuing EXCEPT ![i] = NoIssue]
      BY <1>3 DEF IssueAction
    <2>3. \A e \in actions' : e \in actions \/ e.gen = issuing[i].gen
      BY <1>3 DEF IssueAction, Entry
    <2>4. issuing[i].gen \in 1 .. MaxDocuments
      BY <1>1, <2>2 DEF GuiBounds
    <2>5. \A j \in Issuers : issuing'[j] = NoIssue \/ issuing'[j] = issuing[j]
      BY <1>1, <2>2 DEF GuiTypes
    <2> QED BY <1>1, <2>1, <2>3, <2>4, <2>5 DEF GuiBounds, NoIssue
  <1>4. ASSUME NEW e \in actions, ActionAges(e) \/ TakeExpired(e) \/ TakeAction(e) PROVE GuiBounds'
    <2>1. UNCHANGED <<documentGeneration, issuing>> /\ gui'.previous = gui.previous
      BY <1>1, <1>4 DEF ActionAges, TakeExpired, TakeAction, bridgeState, GuiTypes
    <2>2. \A f \in actions' : f \in actions \/ f.gen = e.gen
      BY <1>1, <1>4 DEF ActionAges, TakeExpired, TakeAction, GuiTypes, GuiEntries
    <2> QED BY <2>1, <2>2 DEF GuiBounds
  <1>5. CASE UNCHANGED <<documentGeneration, issuing, actions>> /\ gui'.previous \in {0, gui.previous}
    BY <1>1, <1>5 DEF GuiBounds
  <1>6. CASE \E stored \in BOOLEAN : EndPrompt(stored)
    BY <1>1, <1>5, <1>6 DEF EndPrompt, GuiGoTo, bridgeState, registryState, GuiTypes
  <1>7. CASE OrdinaryEvent \/ BeginPrompt \/ DispatchCallback \/ CompletePrompt \/ CloseBridge \/ CloseSession
    <2>1. gui'.previous \in {0, gui.previous}
      BY <1>1, <1>7 DEF OrdinaryEvent, BeginPrompt, DispatchCallback, CompletePrompt, CloseBridge, CloseSession,
                        GuiGoTo, IdleGui, GuiTypes
    <2> QED BY <1>5, <1>7, <2>1 DEF OrdinaryEvent, BeginPrompt, DispatchCallback, CompletePrompt, CloseBridge,
                                    CloseSession, bridgeState, registryState
  <1>8. CASE InvalidateGeneration \/ StoreGeneration \/ InvalidateAll
    <2>1. issuing' = issuing /\ actions' \subseteq actions
      BY <1>8 DEF InvalidateGeneration, StoreGeneration, InvalidateAll, registryState
    <2>2. documentGeneration' \in 1 .. MaxDocuments /\ gui'.previous \in 0 .. MaxDocuments
      <3>1. CASE InvalidateGeneration
        <4>1. documentGeneration' = documentGeneration
          BY <3>1 DEF InvalidateGeneration, bridgeState
        <4>2. gui' = IdleGui \/ gui' = [gui EXCEPT !.step = "store", !.previous = documentGeneration]
          BY <3>1 DEF InvalidateGeneration
        <4>3. gui \in [step : GuiSteps, action : 0 .. MaxActions, previous : Nat]
          BY <1>1 DEF GuiTypes
        <4>4. gui' = IdleGui => gui'.previous = 0
          BY DEF IdleGui
        <4>5. gui'.previous \in {0, documentGeneration}
          BY <4>2, <4>3, <4>4
        <4> QED BY <1>1, <4>1, <4>5 DEF GuiBounds
      <3>2. CASE StoreGeneration
        BY <1>1, <3>2 DEF StoreGeneration, GuiGoTo, GuiTypes, GuiBounds
      <3>3. CASE InvalidateAll
        BY <1>1, <3>3 DEF InvalidateAll, GuiGoTo, GuiTypes, GuiBounds, bridgeState
      <3> QED BY <1>8, <3>1, <3>2, <3>3
    <2> QED BY <2>1, <2>2 DEF GuiBounds
  <1>9. CASE UNCHANGED guiVars
    BY <1>5, <1>9 DEF guiVars
  <1> QED BY <1>2, <1>3, <1>4, <1>6, <1>7, <1>8, <1>9 DEF GuiNext

(* The two give the type.                                                  *)
LEMMA GuiTyped == GuiInv /\ GuiBounds => GuiTypeOK
  <1> SUFFICES ASSUME GuiInv, GuiBounds PROVE GuiTypeOK
    OBVIOUS
  <1>1. GuiTypes
    BY DEF GuiInv
  <1>2. actions \subseteq [id : ActionIds, gen : 1 .. MaxDocuments, old : BOOLEAN]
    BY <1>1 DEF GuiTypes, GuiEntries, GuiBounds
  <1>3. issuing \in [Issuers -> [step : {"idle", "open", "issue"}, gen : 0 .. MaxDocuments]]
    BY <1>1 DEF GuiTypes, GuiBounds
  <1>4. gui \in [step : GuiSteps, action : 0 .. MaxActions, previous : 0 .. MaxDocuments]
    BY <1>1 DEF GuiTypes, GuiBounds
  <1> QED BY <1>1, <1>2, <1>3, <1>4 DEF GuiTypes, GuiBounds, GuiTypeOK

(* GuiTypeOK is invariant: only generations of pages that were shown are   *)
(* in the bridge, the actions and the issues in progress.                  *)
THEOREM GuiTypesKept == GuiSpec => []GuiTypeOK
  <1>1. GuiInit => GuiBounds
    BY GuiAssumption DEF GuiInit, GuiBounds, NoIssue, IdleGui
  <1> QED BY <1>1, InitGui, GuiStep, GenerationsKept, GuiTyped, PTL DEF GuiSpec

-----------------------------------------------------------------------------
(***************************************************************************)
(* Coordinated writes, for any number of clients, texts and files.         *)
(***************************************************************************)

(* The call of a client that writes.                                       *)
WsCalls == [step : WsSteps, writes : Texts \cup {Absent}, expects : Texts \cup {Absent},
            before : Texts \cup {Absent, Torn}, file : 0 .. MaxFiles]

(* The steps under the mutex of the write registry, and those of them in   *)
(* which a staging file exists.                                            *)
LockedSteps == {"create", "filling", "inspect", "stage", "staging", "check", "persist"}
StagedSteps == {"staging", "check", "persist"}
LookedSteps == {"stage", "staging", "check", "persist"}
FillSteps == {"filling", "copying"}

(* Whoever is in one of these steps holds the mutex.                       *)
MutexInv == \A c \in WriteClients : wsCall[c].step \in LockedSteps => wsLock = c

(* The path names a file that was made, and so does a call in progress.    *)
FilesInv ==
    /\ path \in (1 .. made) \cup {Absent}
    /\ \A c \in WriteClients :
          wsCall[c].step \in FillSteps \cup StagedSteps => wsCall[c].file \in 1 .. made

(* A staging file is neither at the path nor filled by another call, and   *)
(* is complete once it was filled.                                         *)
StagedInv ==
    \A c \in WriteClients : wsCall[c].step \in StagedSteps =>
        /\ wsCall[c].file # path
        /\ \A d \in WriteClients : wsCall[d].step \in FillSteps => wsCall[d].file # wsCall[c].file
        /\ wsCall[c].step # "staging" => text[wsCall[c].file] = wsCall[c].writes

(* What a write saw at the path is still there unless a word outside the   *)
(* registry touched it.                                                    *)
ViewInv ==
    \A c \in WriteClients \ stale :
        /\ wsCall[c].step \in LookedSteps /\ wsCall[c].expects = Absent => TextAtPath = wsCall[c].before
        /\ wsCall[c].step = "persist" /\ wsCall[c].expects # Absent => TextAtPath = wsCall[c].expects

(* The inductive invariant.                                                *)
WorkspaceInv == WorkspaceTypeOK /\ MutexInv /\ FilesInv /\ StagedInv /\ ViewInv

-----------------------------------------------------------------------------
(* What a step of c does to the calls: c's own changes, the others not.    *)
CallOf(c, k) == /\ wsCall'[c] = k /\ k \in WsCalls
                /\ wsCall' \in [WriteClients -> WsCalls]
                /\ \A d \in WriteClients : d # c => wsCall'[d] = wsCall[d]

(* Writing the call of one client changes no other.                        *)
LEMMA WsCallOf ==
    ASSUME WorkspaceTypeOK, NEW c \in WriteClients, NEW k \in WsCalls, wsCall' = [wsCall EXCEPT ![c] = k]
    PROVE  CallOf(c, k)
  BY DEF WorkspaceTypeOK, WsCalls, CallOf

(* The call of a client that waits for nothing is a call.                  *)
LEMMA NoWsCallType == NoWsCall \in WsCalls
  BY WorkspaceAssumption DEF NoWsCall, WsCalls, WsSteps

(* Nothing was called at first, and the path names no file.                *)
LEMMA InitWorkspace == WorkspaceInit => WorkspaceInv
  <1> SUFFICES ASSUME WorkspaceInit PROVE WorkspaceInv
    OBVIOUS
  <1>1. \A c \in WriteClients : wsCall[c].step = "idle"
    BY DEF WorkspaceInit, NoWsCall
  <1>2. WorkspaceTypeOK
    <2>1. wsCall \in [WriteClients -> WsCalls]
      BY NoWsCallType DEF WorkspaceInit
    <2> QED BY <2>1, WorkspaceAssumption DEF WorkspaceInit, WorkspaceTypeOK, WsCalls
  <1>3. MutexInv /\ StagedInv /\ ViewInv
    BY <1>1 DEF MutexInv, StagedInv, ViewInv, LockedSteps, StagedSteps, LookedSteps
  <1>4. FilesInv
    BY <1>1 DEF WorkspaceInit, FilesInv, StagedSteps, FillSteps
  <1> QED BY <1>2, <1>3, <1>4 DEF WorkspaceInv

(* A step that moves no file, after which the client is in none of the     *)
(* steps in which it relies on one.                                        *)
LEMMA QuietKeeps ==
    ASSUME WorkspaceInv, NEW c \in WriteClients, NEW k \in WsCalls, wsCall' = [wsCall EXCEPT ![c] = k],
           k.step \in {"idle", "write", "create", "inspect", "copy", "move"},
           UNCHANGED <<path, text, made>>, retained' \subseteq Files,
           stale \ {c} \subseteq stale', stale' \subseteq stale,
           \/ wsLock' = wsLock /\ k.step \notin LockedSteps
           \/ wsLock = Absent /\ wsLock' = c
           \/ wsLock = c /\ wsLock' = Absent /\ k.step \notin LockedSteps
    PROVE  WorkspaceInv'
  <1>a. WorkspaceTypeOK /\ MutexInv /\ FilesInv /\ StagedInv /\ ViewInv
    BY DEF WorkspaceInv
  <1>b. wsCall'[c] = k /\ wsCall' \in [WriteClients -> WsCalls]
        /\ \A d \in WriteClients : d # c => wsCall'[d] = wsCall[d]
    BY <1>a, WsCallOf DEF CallOf
  <1>c. k.step \notin FillSteps /\ k.step \notin StagedSteps /\ k.step \notin LookedSteps
    BY DEF FillSteps, StagedSteps, LookedSteps
  <1>1. WorkspaceTypeOK'
    BY <1>a, <1>b DEF WorkspaceTypeOK, WsCalls
  <1>2. MutexInv'
    BY <1>a, <1>b, WorkspaceAssumption DEF MutexInv
  <1>3. FilesInv'
    BY <1>a, <1>b, <1>c DEF FilesInv
  <1>4. StagedInv'
    BY <1>a, <1>b, <1>c DEF StagedInv
  <1>5. ViewInv'
    <2>1. TextAtPath' = TextAtPath
      BY DEF TextAtPath
    <2>2. k.step # "persist"
      BY <1>c DEF LookedSteps
    <2> QED BY <2>1, <2>2, <1>a, <1>b, <1>c DEF ViewInv
  <1> QED BY <1>1, <1>2, <1>3, <1>4, <1>5 DEF WorkspaceInv

(* The steps that look, refuse, give up or wait.                           *)
LEMMA QuietSteps ==
    ASSUME WorkspaceInv, NEW c \in WriteClients,
           \/ CallWriteText(c) \/ EnterWrite(c) \/ CreateRefused(c) \/ InspectRefuses(c)
           \/ StagingRefused(c) \/ RetainStaging(c) \/ CopyOrMoveChecks(c) \/ CopyOrMoveFails(c)
    PROVE  WorkspaceInv'
  <1>a. WorkspaceTypeOK /\ MutexInv /\ wsCall[c] \in WsCalls /\ retained \subseteq Files
    BY DEF WorkspaceInv, WorkspaceTypeOK, WsCalls
  <1>b. NoWsCall.step = "idle" /\ NoWsCall \in WsCalls /\ "idle" \notin LockedSteps
    BY NoWsCallType DEF NoWsCall, LockedSteps
  <1>1. CASE CallWriteText(c)
    <2>1. PICK t \in Texts, e \in Texts \cup {Absent} :
            wsCall' = [wsCall EXCEPT ![c] = [NoWsCall EXCEPT !.step = "write", !.writes = t, !.expects = e]]
      BY <1>1 DEF CallWriteText
    <2> DEFINE k == [NoWsCall EXCEPT !.step = "write", !.writes = t, !.expects = e]
    <2>2. k \in WsCalls /\ k.step = "write"
      BY <1>b DEF WsCalls, WsSteps
    <2>3. "write" \notin LockedSteps
      BY DEF LockedSteps
    <2> HIDE DEF k
    <2>4. wsCall' = [wsCall EXCEPT ![c] = k] /\ UNCHANGED <<wsLock, path, text, made, stale, retained>>
      BY <2>1, <1>1 DEF k, CallWriteText
    <2> QED BY <2>2, <2>3, <2>4, <1>a, QuietKeeps
  <1>2. CASE EnterWrite(c)
    <2>1. PICK step \in {"inspect", "create"} : wsCall' = [wsCall EXCEPT ![c] = [wsCall[c] EXCEPT !.step = step]]
      BY <1>2 DEF EnterWrite, WsGoTo
    <2> DEFINE k == [wsCall[c] EXCEPT !.step = step]
    <2>2. k \in WsCalls /\ k.step = step
      BY <1>a DEF WsCalls, WsSteps
    <2> HIDE DEF k
    <2>3. /\ wsCall' = [wsCall EXCEPT ![c] = k] /\ UNCHANGED <<path, text, made, retained>>
          /\ wsLock = Absent /\ wsLock' = c /\ stale' = stale \ {c}
      BY <2>1, <1>2 DEF k, EnterWrite, WriteMutexFree
    <2> QED BY <2>2, <2>3, <1>a, QuietKeeps
  <1>3. CASE CreateRefused(c) \/ InspectRefuses(c) \/ StagingRefused(c) \/ RetainStaging(c)
    <2>1. /\ wsCall[c].step \in LockedSteps /\ UNCHANGED <<path, text, made, stale>>
          /\ wsLock' = Absent /\ wsCall' = [wsCall EXCEPT ![c] = NoWsCall]
      BY <1>3 DEF CreateRefused, InspectRefuses, StagingRefused, RetainStaging, LeaveWrite, WsReturns,
                  AtWsStep, LockedSteps
    <2>2. wsLock = c
      BY <2>1, <1>a DEF MutexInv
    <2>3. retained' \subseteq Files
      <3>1. CASE RetainStaging(c)
        <4>1. wsCall[c].file \in 1 .. made /\ made \in 0 .. MaxFiles
          BY <3>1 DEF RetainStaging, WorkspaceInv, WorkspaceTypeOK, FilesInv, StagedSteps
        <4>2. wsCall[c].file \in Files
          BY <4>1, WorkspaceAssumption DEF Files
        <4> QED BY <3>1, <4>2, <1>a DEF RetainStaging
      <3> QED BY <3>1, <1>3, <1>a DEF CreateRefused, InspectRefuses, StagingRefused
    <2> QED BY <2>1, <2>2, <2>3, <1>b, QuietKeeps
  <1>4. CASE CopyOrMoveChecks(c)
    <2>1. PICK t \in Texts, op \in {"copy", "move"} :
            wsCall' = [wsCall EXCEPT ![c] = [NoWsCall EXCEPT !.step = op, !.writes = t]]
      BY <1>4 DEF CopyOrMoveChecks
    <2> DEFINE k == [NoWsCall EXCEPT !.step = op, !.writes = t]
    <2>2. k \in WsCalls /\ k.step = op
      BY <1>b DEF WsCalls, WsSteps
    <2>3. op \notin LockedSteps
      BY DEF LockedSteps
    <2> HIDE DEF k
    <2>4. wsCall' = [wsCall EXCEPT ![c] = k] /\ UNCHANGED <<wsLock, path, text, made, stale, retained>>
      BY <2>1, <1>4 DEF k, CopyOrMoveChecks
    <2> QED BY <2>2, <2>3, <2>4, <1>a, QuietKeeps
  <1>5. CASE CopyOrMoveFails(c)
    <2>1. wsCall' = [wsCall EXCEPT ![c] = NoWsCall] /\ UNCHANGED <<wsLock, path, text, made, stale, retained>>
      BY <1>5 DEF CopyOrMoveFails, WsReturns
    <2> QED BY <2>1, <1>a, <1>b, QuietKeeps
  <1> QED BY <1>1, <1>2, <1>3, <1>4, <1>5

-----------------------------------------------------------------------------
(* Under the mutex nobody else is.                                         *)
LEMMA SoleWriter ==
    ASSUME WorkspaceInv, NEW c \in WriteClients, wsCall[c].step \in LockedSteps
    PROVE  /\ wsLock = c
           /\ \A d \in WriteClients : d # c => wsCall[d].step \notin LockedSteps
  BY DEF WorkspaceInv, MutexInv

(* What a step under the mutex must see to: its own file and its own view. *)
OwnFiles(c, k) ==
    /\ k.step \in FillSteps \cup StagedSteps => k.file \in 1 .. made'
    /\ k.step \in StagedSteps =>
          /\ k.file # path'
          /\ \A d \in WriteClients : d # c /\ wsCall[d].step \in FillSteps => wsCall[d].file # k.file
          /\ k.step # "staging" => text'[k.file] = k.writes
(* If nobody disturbed the caller, what it saw is still at the path.       *)
OwnView(c, k) ==
    c \notin stale' =>
        /\ k.step \in LookedSteps /\ k.expects = Absent => TextAtPath' = k.before
        /\ k.step = "persist" /\ k.expects # Absent => TextAtPath' = k.expects
(* The types of the files and of the path.                                 *)
Tree == /\ made \in 0 .. MaxFiles /\ path \in (1 .. made) \cup {Absent}
        /\ text \in [Files -> Texts \cup {Absent, Torn}]

(* A step of the holder of the mutex that sees to its own file and view    *)
(* keeps the invariant.                                                    *)
LEMMA OwnerKeeps ==
    ASSUME WorkspaceInv, NEW c \in WriteClients, NEW k \in WsCalls, wsCall' = [wsCall EXCEPT ![c] = k],
           wsCall[c].step \in LockedSteps, stale' \subseteq WriteClients, retained' = retained,
           wsLock' = wsLock \/ (wsLock' = Absent /\ k.step \notin LockedSteps),
           Tree', made <= made', OwnFiles(c, k), OwnView(c, k)
    PROVE  WorkspaceInv'
  <1>a. WorkspaceTypeOK /\ MutexInv /\ FilesInv
    BY DEF WorkspaceInv
  <1>b. wsCall'[c] = k /\ wsCall' \in [WriteClients -> WsCalls]
        /\ \A d \in WriteClients : d # c => wsCall'[d] = wsCall[d]
    BY <1>a, WsCallOf DEF CallOf
  <1>c. wsLock = c /\ \A d \in WriteClients : d # c => wsCall'[d].step \notin LockedSteps
    BY <1>b, SoleWriter
  <1>d. \A d \in WriteClients : d # c => wsCall'[d].step \notin StagedSteps /\ wsCall'[d].step \notin LookedSteps
    BY <1>c DEF LockedSteps, StagedSteps, LookedSteps
  <1>e. made \in Nat /\ made' \in Nat /\ MaxFiles \in Nat /\ made' <= MaxFiles
    BY <1>a, WorkspaceAssumption DEF WorkspaceTypeOK, Tree
  <1>1. WorkspaceTypeOK'
    <2>1. path' \in Files \cup {Absent}
      BY <1>e DEF Tree, Files
    <2>2. wsLock' \in WriteClients \cup {Absent}
      BY <1>c
    <2> QED BY <2>1, <2>2, <1>a, <1>b DEF WorkspaceTypeOK, WsCalls, Tree
  <1>2. MutexInv'
    BY <1>b, <1>c DEF MutexInv
  <1>3. FilesInv'
    <2>1. ASSUME NEW d \in WriteClients, wsCall'[d].step \in FillSteps \cup StagedSteps
          PROVE  wsCall'[d].file \in 1 .. made'
      <3>1. CASE d = c
        BY <3>1, <2>1, <1>b DEF OwnFiles
      <3>2. CASE d # c
        BY <3>2, <2>1, <1>a, <1>b, <1>e DEF FilesInv
      <3> QED BY <3>1, <3>2
    <2> QED BY <2>1 DEF FilesInv, Tree
  <1>4. StagedInv'
    <2>1. k.step \in StagedSteps => k.step \notin FillSteps
      BY DEF StagedSteps, FillSteps
    <2> QED BY <2>1, <1>b, <1>d DEF StagedInv, OwnFiles
  <1>5. ViewInv'
    <2>1. "persist" \in LookedSteps
      BY DEF LookedSteps
    <2> QED BY <2>1, <1>b, <1>d DEF ViewInv, OwnView
  <1> QED BY <1>1, <1>2, <1>3, <1>4, <1>5 DEF WorkspaceInv

(* workspace_write_text without overwrite                                  *)
LEMMA WsCreateKeeps ==
    ASSUME WorkspaceInv, NEW c \in WriteClients, CreateNew(c) \/ FillCreated(c)
    PROVE  WorkspaceInv'
  <1>a. WorkspaceTypeOK /\ FilesInv /\ wsCall[c] \in WsCalls /\ Tree /\ made \in Nat /\ MaxFiles \in Nat
    BY WorkspaceAssumption DEF WorkspaceInv, WorkspaceTypeOK, WsCalls, FilesInv, Tree
  <1>1. CASE CreateNew(c)
    <2> DEFINE k == [wsCall[c] EXCEPT !.step = "filling", !.file = made + 1]
    <2>1. made + 1 \in Files /\ made' = made + 1 /\ path' = made + 1 /\ wsCall[c].step = "create"
          /\ text' = [text EXCEPT ![made + 1] = Torn] /\ UNCHANGED <<wsLock, stale, retained>>
          /\ wsCall' = [wsCall EXCEPT ![c] = k]
      BY <1>1 DEF CreateNew, AtWsStep
    <2>2. k \in WsCalls /\ k.step = "filling" /\ k.file = made + 1
      <3>1. made + 1 \in 0 .. MaxFiles
        BY <2>1 DEF Files
      <3> QED BY <3>1, <1>a DEF WsCalls, WsSteps
    <2> HIDE DEF k
    <2>3. Tree' /\ made <= made'
      BY <2>1, <1>a DEF Tree, Files
    <2>4. OwnFiles(c, k) /\ OwnView(c, k)
      BY <2>1, <2>2, <1>a DEF OwnFiles, OwnView, StagedSteps, LookedSteps
    <2>5. wsCall[c].step \in LockedSteps /\ stale' \subseteq WriteClients
      BY <2>1, <1>a DEF LockedSteps, WorkspaceTypeOK
    <2> QED BY <2>1, <2>2, <2>3, <2>4, <2>5, OwnerKeeps
  <1>2. CASE FillCreated(c)
    <2>1. PICK t \in {Torn, wsCall[c].writes} : text' = [text EXCEPT ![wsCall[c].file] = t]
      BY <1>2 DEF FillCreated
    <2>2. /\ wsCall[c].step = "filling" /\ wsLock' = Absent /\ wsCall' = [wsCall EXCEPT ![c] = NoWsCall]
          /\ UNCHANGED <<path, made, stale, retained>>
      BY <1>2 DEF FillCreated, AtWsStep, LeaveWrite, WsReturns
    <2>3. t \in Texts \cup {Absent, Torn}
      BY <1>a DEF WsCalls
    <2>4. Tree' /\ made <= made'
      <3>1. text \in [Files -> Texts \cup {Absent, Torn}]
        BY <1>a DEF Tree
      <3>2. text' \in [Files -> Texts \cup {Absent, Torn}]
        BY <3>1, <2>1, <2>3
      <3> QED BY <3>2, <2>2, <1>a DEF Tree
    <2>5. NoWsCall \in WsCalls /\ NoWsCall.step = "idle"
      BY NoWsCallType DEF NoWsCall
    <2>6. OwnFiles(c, NoWsCall) /\ OwnView(c, NoWsCall)
      BY <2>5 DEF OwnFiles, OwnView, FillSteps, StagedSteps, LookedSteps
    <2>7. wsCall[c].step \in LockedSteps /\ "idle" \notin LockedSteps /\ stale' \subseteq WriteClients
      BY <2>2, <1>a DEF LockedSteps, WorkspaceTypeOK
    <2> QED BY <2>2, <2>4, <2>5, <2>6, <2>7, OwnerKeeps
  <1> QED BY <1>1, <1>2

(* workspace_write_text with overwrite                                     *)
LEMMA OverwriteKeeps ==
    ASSUME WorkspaceInv, NEW c \in WriteClients,
           InspectDestination(c) \/ CreateStaging(c) \/ FillStaging(c) \/ FinalCheck(c) \/ Persist(c)
    PROVE  WorkspaceInv'
  <1>a. /\ WorkspaceTypeOK /\ FilesInv /\ StagedInv /\ ViewInv /\ wsCall[c] \in WsCalls /\ Tree
        /\ made \in Nat /\ MaxFiles \in Nat
    BY WorkspaceAssumption DEF WorkspaceInv, WorkspaceTypeOK, WsCalls, FilesInv, Tree
  <1>b. stale \subseteq WriteClients /\ text \in [Files -> Texts \cup {Absent, Torn}]
    BY <1>a DEF WorkspaceTypeOK
  <1>1. CASE InspectDestination(c)
    <2> DEFINE k == [wsCall[c] EXCEPT !.step = "stage", !.before = TextAtPath]
    <2>1. /\ wsCall[c].step = "inspect" /\ wsCall' = [wsCall EXCEPT ![c] = k]
          /\ stale' = stale \ {c} /\ UNCHANGED <<wsLock, path, text, made, retained>>
      BY <1>1 DEF InspectDestination, AtWsStep
    <2>2. TextAtPath \in Texts \cup {Absent, Torn}
      BY <1>a DEF TextAtPath, WorkspaceTypeOK
    <2>3. k \in WsCalls /\ k.step = "stage" /\ k.before = TextAtPath
      BY <2>2, <1>a DEF WsCalls, WsSteps
    <2> HIDE DEF k
    <2>4. Tree' /\ made <= made' /\ TextAtPath' = TextAtPath
      BY <2>1, <1>a DEF Tree, TextAtPath
    <2>5. OwnFiles(c, k) /\ OwnView(c, k)
      BY <2>3, <2>4 DEF OwnFiles, OwnView, FillSteps, StagedSteps
    <2>6. wsCall[c].step \in LockedSteps /\ stale' \subseteq WriteClients
      BY <2>1, <1>b DEF LockedSteps
    <2> QED BY <2>1, <2>3, <2>4, <2>5, <2>6, OwnerKeeps
  <1>2. CASE CreateStaging(c)
    <2> DEFINE k == [wsCall[c] EXCEPT !.step = "staging", !.file = made + 1]
    <2>1. /\ wsCall[c].step = "stage" /\ wsCall' = [wsCall EXCEPT ![c] = k]
          /\ made + 1 \in Files /\ made' = made + 1 /\ text' = [text EXCEPT ![made + 1] = Torn]
          /\ UNCHANGED <<wsLock, path, stale, retained>>
      BY <1>2 DEF CreateStaging, AtWsStep
    <2>2. /\ k \in WsCalls /\ k.step = "staging" /\ k.file = made + 1
          /\ k.before = wsCall[c].before /\ k.expects = wsCall[c].expects
      <3>1. made + 1 \in 0 .. MaxFiles
        BY <2>1 DEF Files
      <3> QED BY <3>1, <1>a DEF WsCalls, WsSteps
    <2> HIDE DEF k
    <2>3. path # made + 1
      BY <1>a, WorkspaceAssumption DEF Tree
    <2>4. TextAtPath' = TextAtPath
      BY <2>1, <2>3, <1>b DEF TextAtPath, WorkspaceTypeOK
    <2>5. Tree' /\ made <= made'
      BY <2>1, <1>a DEF Tree, Files
    <2>6. OwnFiles(c, k)
      <3>1. \A d \in WriteClients : wsCall[d].step \in FillSteps => wsCall[d].file # made + 1
        BY <1>a DEF FilesInv
      <3> QED BY <2>1, <2>2, <2>3, <3>1, <1>a DEF OwnFiles
    <2>7. OwnView(c, k)
      BY <2>1, <2>2, <2>4, <1>a DEF OwnView, ViewInv, LookedSteps
    <2>8. wsCall[c].step \in LockedSteps /\ stale' \subseteq WriteClients
      BY <2>1, <1>b DEF LockedSteps
    <2> QED BY <2>1, <2>2, <2>5, <2>6, <2>7, <2>8, OwnerKeeps
  <1>3. CASE FillStaging(c)
    <2> DEFINE k == [wsCall[c] EXCEPT !.step = "check"]
               f == wsCall[c].file
    <2>1. /\ wsCall[c].step = "staging" /\ wsCall' = [wsCall EXCEPT ![c] = k]
          /\ text' = [text EXCEPT ![f] = wsCall[c].writes]
          /\ UNCHANGED <<wsLock, path, made, stale, retained>>
      BY <1>3 DEF FillStaging, AtWsStep, WsGoTo
    <2>2. /\ k \in WsCalls /\ k.step = "check" /\ k.file = f /\ k.writes = wsCall[c].writes
          /\ k.before = wsCall[c].before /\ k.expects = wsCall[c].expects
      BY <1>a DEF WsCalls, WsSteps
    <2>3. /\ f \in 1 .. made /\ f # path
          /\ \A d \in WriteClients : wsCall[d].step \in FillSteps => wsCall[d].file # f
      BY <2>1, <1>a DEF FilesInv, StagedInv, StagedSteps
    <2>4. f \in Files
      BY <2>3, <1>a DEF Tree, Files
    <2>5. wsCall[c].writes \in Texts \cup {Absent}
      BY <1>a DEF WsCalls
    <2> HIDE DEF k, f
    <2>6. TextAtPath' = TextAtPath
      BY <2>1, <2>3, <1>a, <1>b DEF TextAtPath, WorkspaceTypeOK
    <2>7. Tree' /\ made <= made'
      <3>1. text' \in [Files -> Texts \cup {Absent, Torn}]
        BY <2>1, <2>5, <1>b
      <3> QED BY <3>1, <2>1, <1>a DEF Tree
    <2>8. OwnFiles(c, k)
      <3>1. text'[f] = wsCall[c].writes
        BY <2>1, <2>4, <1>b
      <3> QED BY <2>1, <2>2, <2>3, <3>1 DEF OwnFiles
    <2>9. OwnView(c, k)
      BY <2>1, <2>2, <2>6, <1>a DEF OwnView, ViewInv, LookedSteps
    <2>10. wsCall[c].step \in LockedSteps /\ stale' \subseteq WriteClients
      BY <2>1, <1>b DEF LockedSteps
    <2> QED BY <2>1, <2>2, <2>7, <2>8, <2>9, <2>10, OwnerKeeps
  <1>4. CASE FinalCheck(c)
    <2> DEFINE k == [wsCall[c] EXCEPT !.step = "persist"]
    <2>1. /\ wsCall[c].step = "check" /\ wsCall' = [wsCall EXCEPT ![c] = k]
          /\ wsCall[c].expects \in {Absent, TextAtPath}
          /\ stale' = IF wsCall[c].expects = Absent THEN stale ELSE stale \ {c}
          /\ UNCHANGED <<wsLock, path, text, made, retained>>
      BY <1>4 DEF FinalCheck, AtWsStep, WsGoTo, StillExpected
    <2>2. /\ k \in WsCalls /\ k.step = "persist" /\ k.file = wsCall[c].file /\ k.writes = wsCall[c].writes
          /\ k.before = wsCall[c].before /\ k.expects = wsCall[c].expects
      BY <1>a DEF WsCalls, WsSteps
    <2> HIDE DEF k
    <2>3. Tree' /\ made <= made' /\ TextAtPath' = TextAtPath
      BY <2>1, <1>a DEF Tree, TextAtPath
    <2>4. OwnFiles(c, k)
      BY <2>1, <2>2, <1>a DEF OwnFiles, FilesInv, StagedInv, StagedSteps
    <2>5. OwnView(c, k)
      BY <2>1, <2>2, <2>3, <1>a DEF OwnView, ViewInv, LookedSteps
    <2>6. wsCall[c].step \in LockedSteps /\ stale' \subseteq WriteClients
      BY <2>1, <1>b DEF LockedSteps
    <2> QED BY <2>1, <2>2, <2>3, <2>4, <2>5, <2>6, OwnerKeeps
  <1>5. CASE Persist(c)
    <2>1. /\ wsCall[c].step = "persist" /\ wsCall' = [wsCall EXCEPT ![c] = NoWsCall]
          /\ path' = wsCall[c].file /\ wsLock' = Absent /\ UNCHANGED <<text, made, stale, retained>>
      BY <1>5 DEF Persist, AtWsStep, LeaveWrite, WsReturns
    <2>2. Tree' /\ made <= made'
      BY <2>1, <1>a DEF Tree, FilesInv, StagedSteps
    <2>3. NoWsCall \in WsCalls /\ NoWsCall.step = "idle"
      BY NoWsCallType DEF NoWsCall
    <2>4. OwnFiles(c, NoWsCall) /\ OwnView(c, NoWsCall)
      BY <2>3 DEF OwnFiles, OwnView, FillSteps, StagedSteps, LookedSteps
    <2>5. wsCall[c].step \in LockedSteps /\ "idle" \notin LockedSteps /\ stale' \subseteq WriteClients
      BY <2>1, <1>b DEF LockedSteps
    <2> QED BY <2>1, <2>2, <2>3, <2>4, <2>5, OwnerKeeps
  <1> QED BY <1>1, <1>2, <1>3, <1>4, <1>5

-----------------------------------------------------------------------------
(* A word outside the registry leaves staging files alone, and whatever it *)
(* does to the path makes the view of every write stale.                   *)
LEMMA OutsideKeeps ==
    ASSUME WorkspaceInv, NEW c \in WriteClients, NEW k \in WsCalls, wsCall' = [wsCall EXCEPT ![c] = k],
           k.step \in {"idle", "copying"}, UNCHANGED <<wsLock, retained>>, Tree', made <= made',
           k.step = "copying" => k.file \in 1 .. made',
           \A d \in WriteClients : d # c /\ wsCall[d].step \in StagedSteps =>
               /\ path' # wsCall[d].file /\ text'[wsCall[d].file] = text[wsCall[d].file]
               /\ k.step = "copying" => k.file # wsCall[d].file,
           stale' = WriteClients \ {c} \/ (stale' = stale /\ TextAtPath' = TextAtPath)
    PROVE  WorkspaceInv'
  <1>a. WorkspaceTypeOK /\ MutexInv /\ FilesInv /\ StagedInv /\ ViewInv
    BY DEF WorkspaceInv
  <1>b. wsCall'[c] = k /\ wsCall' \in [WriteClients -> WsCalls]
        /\ \A d \in WriteClients : d # c => wsCall'[d] = wsCall[d]
    BY <1>a, WsCallOf DEF CallOf
  <1>c. k.step \notin LockedSteps /\ k.step \notin StagedSteps /\ k.step \notin LookedSteps
        /\ k.step # "persist" /\ (k.step \in FillSteps => k.step = "copying")
    BY DEF LockedSteps, StagedSteps, LookedSteps, FillSteps
  <1>d. made \in Nat /\ made' \in Nat /\ MaxFiles \in Nat /\ made' <= MaxFiles
    BY <1>a, WorkspaceAssumption DEF WorkspaceTypeOK, Tree
  <1>1. WorkspaceTypeOK'
    <2>1. path' \in Files \cup {Absent}
      BY <1>d DEF Tree, Files
    <2>2. stale' \subseteq WriteClients
      BY <1>a DEF WorkspaceTypeOK
    <2> QED BY <2>1, <2>2, <1>a, <1>b DEF WorkspaceTypeOK, WsCalls, Tree
  <1>2. MutexInv'
    BY <1>a, <1>b, <1>c DEF MutexInv
  <1>3. FilesInv'
    <2>1. ASSUME NEW d \in WriteClients, wsCall'[d].step \in FillSteps \cup StagedSteps
          PROVE  wsCall'[d].file \in 1 .. made'
      <3>1. CASE d = c
        BY <3>1, <2>1, <1>b, <1>c
      <3>2. CASE d # c
        BY <3>2, <2>1, <1>a, <1>b, <1>d DEF FilesInv
      <3> QED BY <3>1, <3>2
    <2> QED BY <2>1 DEF FilesInv, Tree
  <1>4. StagedInv'
    <2> SUFFICES ASSUME NEW d \in WriteClients, wsCall'[d].step \in StagedSteps
                 PROVE  /\ wsCall'[d].file # path'
                        /\ \A e \in WriteClients : wsCall'[e].step \in FillSteps => wsCall'[e].file # wsCall'[d].file
                        /\ wsCall'[d].step # "staging" => text'[wsCall'[d].file] = wsCall'[d].writes
      BY DEF StagedInv
    <2>1. d # c /\ wsCall'[d] = wsCall[d]
      BY <1>b, <1>c
    <2>2. /\ \A e \in WriteClients : wsCall[e].step \in FillSteps => wsCall[e].file # wsCall[d].file
          /\ wsCall[d].step # "staging" => text[wsCall[d].file] = wsCall[d].writes
      BY <2>1, <1>a DEF StagedInv
    <2> QED BY <2>1, <2>2, <1>b, <1>c
  <1>5. ViewInv'
    BY <1>a, <1>b, <1>c DEF ViewInv
  <1> QED BY <1>1, <1>2, <1>3, <1>4, <1>5 DEF WorkspaceInv

(* workspace_delete, workspace_copy and workspace_move                     *)
LEMMA OutsideSteps ==
    ASSUME WorkspaceInv, NEW c \in WriteClients,
           DeletePath(c) \/ OpenCopyTarget(c) \/ FillCopy(c) \/ RenameSource(c)
    PROVE  WorkspaceInv'
  <1>a. /\ WorkspaceTypeOK /\ FilesInv /\ StagedInv /\ wsCall[c] \in WsCalls /\ Tree
        /\ made \in Nat /\ MaxFiles \in Nat /\ wsCall[c].writes \in Texts \cup {Absent}
    BY WorkspaceAssumption DEF WorkspaceInv, WorkspaceTypeOK, WsCalls, FilesInv, Tree
  <1>b. text \in [Files -> Texts \cup {Absent, Torn}] /\ path \in (1 .. made) \cup {Absent}
    BY <1>a DEF Tree
  <1>c. NoWsCall \in WsCalls /\ NoWsCall.step = "idle"
    BY NoWsCallType DEF NoWsCall
  <1>d. \A d \in WriteClients : wsCall[d].step \in StagedSteps =>
          /\ wsCall[d].file \in 1 .. made /\ wsCall[d].file \in Files
          /\ wsCall[d].file # path /\ wsCall[d].file # Absent /\ wsCall[d].file # made + 1
    <2>1. \A d \in WriteClients : wsCall[d].step \in StagedSteps =>
            wsCall[d].file \in 1 .. made /\ wsCall[d].file # path
      BY <1>a DEF FilesInv, StagedInv
    <2>2. \A f \in 1 .. made : f \in Files /\ f # Absent /\ f # made + 1
      BY <1>a, WorkspaceAssumption DEF Tree, Files
    <2> QED BY <2>1, <2>2
  <1>1. CASE DeletePath(c)
    <2>1. /\ wsCall[c].step = "idle" /\ path' = Absent /\ stale' = WriteClients \ {c}
          /\ UNCHANGED <<wsLock, text, made, wsCall, retained>>
      BY <1>1 DEF DeletePath, AtWsStep, Disturbs
    <2>2. wsCall' = [wsCall EXCEPT ![c] = wsCall[c]]
      BY <2>1, <1>a DEF WorkspaceTypeOK
    <2>3. Tree' /\ made <= made'
      BY <2>1, <1>a DEF Tree
    <2> QED BY <2>1, <2>2, <2>3, <1>a, <1>d, OutsideKeeps
  <1>2. CASE OpenCopyTarget(c)
    <2>1. PICK f \in Files : f = IF path = Absent THEN made + 1 ELSE path
      BY <1>2 DEF OpenCopyTarget
    <2> DEFINE k == [wsCall[c] EXCEPT !.step = "copying", !.file = f]
    <2>2. /\ wsCall' = [wsCall EXCEPT ![c] = k]
          /\ made' = IF path = Absent THEN made + 1 ELSE made
          /\ path' = f /\ text' = [text EXCEPT ![f] = Torn] /\ stale' = WriteClients \ {c}
          /\ UNCHANGED <<wsLock, retained>>
      BY <2>1, <1>2 DEF OpenCopyTarget, Disturbs
    <2>3. k \in WsCalls /\ k.step = "copying" /\ k.file = f
      <3>1. f \in 0 .. MaxFiles
        BY DEF Files
      <3> QED BY <3>1, <1>a DEF WsCalls, WsSteps
    <2> HIDE DEF k
    <2>4. f \in 1 .. made' /\ made <= made' /\ made' \in 0 .. MaxFiles
      BY <2>1, <2>2, <1>a, <1>b DEF Files, Tree
    <2>5. Tree'
      BY <2>2, <2>4, <1>a DEF Tree
    <2>6. \A d \in WriteClients : wsCall[d].step \in StagedSteps =>
            f # wsCall[d].file /\ text'[wsCall[d].file] = text[wsCall[d].file]
      <3>1. \A d \in WriteClients : wsCall[d].step \in StagedSteps => f # wsCall[d].file
        BY <2>1, <1>d
      <3> QED BY <3>1, <2>2, <1>b, <1>d
    <2> QED BY <2>2, <2>3, <2>4, <2>5, <2>6, OutsideKeeps
  <1>3. CASE FillCopy(c)
    <2>1. PICK t \in {Torn, wsCall[c].writes} : text' = [text EXCEPT ![wsCall[c].file] = t]
      BY <1>3 DEF FillCopy
    <2>2. /\ wsCall[c].step = "copying" /\ wsCall' = [wsCall EXCEPT ![c] = NoWsCall]
          /\ UNCHANGED <<wsLock, path, made, retained>>
          /\ \/ path = wsCall[c].file /\ stale' = WriteClients \ {c}
             \/ path # wsCall[c].file /\ stale' = stale
      <3>1. IF path = wsCall[c].file THEN stale' = WriteClients \ {c} ELSE UNCHANGED stale
        BY <1>3 DEF FillCopy, Disturbs
      <3> QED BY <3>1, <1>3 DEF FillCopy, AtWsStep, WsReturns
    <2>3. t \in Texts \cup {Absent, Torn}
      BY <1>a
    <2>4. Tree' /\ made <= made'
      <3>1. text \in [Files -> Texts \cup {Absent, Torn}]
        BY <1>a DEF Tree
      <3>2. text' \in [Files -> Texts \cup {Absent, Torn}]
        BY <3>1, <2>1, <2>3
      <3> QED BY <3>2, <2>2, <1>a DEF Tree
    <2>5. \A d \in WriteClients : wsCall[d].step \in StagedSteps =>
            path' # wsCall[d].file /\ text'[wsCall[d].file] = text[wsCall[d].file]
      <3>1. \A d \in WriteClients : wsCall[d].step \in StagedSteps => wsCall[c].file # wsCall[d].file
        BY <2>2, <1>a DEF StagedInv, FillSteps
      <3> QED BY <3>1, <2>1, <2>2, <1>b, <1>d
    <2>6. path # wsCall[c].file => TextAtPath' = TextAtPath
      BY <2>1, <2>2, <1>a, <1>b DEF TextAtPath, WorkspaceTypeOK
    <2> QED BY <2>2, <2>4, <2>5, <2>6, <1>c, OutsideKeeps
  <1>4. CASE RenameSource(c)
    <2>1. /\ wsCall' = [wsCall EXCEPT ![c] = NoWsCall] /\ made + 1 \in Files /\ made' = made + 1
          /\ path' = made + 1 /\ text' = [text EXCEPT ![made + 1] = wsCall[c].writes]
          /\ stale' = WriteClients \ {c} /\ UNCHANGED <<wsLock, retained>>
      BY <1>4 DEF RenameSource, AtWsStep, WsReturns, Disturbs
    <2>2. Tree' /\ made <= made'
      BY <2>1, <1>a DEF Tree, Files
    <2>3. \A d \in WriteClients : wsCall[d].step \in StagedSteps =>
            path' # wsCall[d].file /\ text'[wsCall[d].file] = text[wsCall[d].file]
      BY <2>1, <1>b, <1>d
    <2> QED BY <2>1, <2>2, <2>3, <1>c, OutsideKeeps
  <1> QED BY <1>1, <1>2, <1>3, <1>4

(* Every step of the workspace words keeps the invariant.                  *)
LEMMA WorkspaceStep == WorkspaceInv /\ [WorkspaceNext]_workspaceVars => WorkspaceInv'
  <1> SUFFICES ASSUME WorkspaceInv, [WorkspaceNext]_workspaceVars PROVE WorkspaceInv'
    OBVIOUS
  <1>1. CASE WorkspaceNext
    BY <1>1, QuietSteps, WsCreateKeeps, OverwriteKeeps, OutsideSteps DEF WorkspaceNext
  <1>2. CASE UNCHANGED workspaceVars
    <2>1. TextAtPath' = TextAtPath
      BY <1>2 DEF TextAtPath, workspaceVars
    <2>2. WorkspaceTypeOK' /\ MutexInv'
      BY <1>2 DEF WorkspaceInv, WorkspaceTypeOK, MutexInv, workspaceVars
    <2>3. FilesInv' /\ StagedInv'
      BY <1>2 DEF WorkspaceInv, FilesInv, StagedInv, workspaceVars
    <2>4. ViewInv'
      BY <2>1, <1>2 DEF WorkspaceInv, ViewInv, workspaceVars
    <2> QED BY <2>2, <2>3, <2>4 DEF WorkspaceInv
  <1> QED BY <1>1, <1>2

(* The invariant holds in every state of the specification.                *)
LEMMA WorkspaceInvariant == WorkspaceSpec => []WorkspaceInv
  BY InitWorkspace, WorkspaceStep, PTL DEF WorkspaceSpec

(* For any number of clients, texts and files: an overwrite replaces the   *)
(* text it expected, or the one it reports, unless a word outside the      *)
(* registry touched the path, and puts a complete text there.              *)
THEOREM WritesAreCoordinated == WorkspaceSpec => WritesCoordinated
  <1>1. ASSUME WorkspaceInv, NEW c \in WriteClients, Persist(c)
        PROVE  /\ c \notin stale => TextAtPath \in IF wsCall[c].expects = Absent
                                                  THEN {wsCall[c].before}
                                                  ELSE {wsCall[c].expects}
               /\ text[path'] = wsCall[c].writes
    <2>1. wsCall[c].step = "persist" /\ path' = wsCall[c].file
      BY <1>1 DEF Persist, AtWsStep
    <2>2. text[wsCall[c].file] = wsCall[c].writes
      BY <2>1, <1>1 DEF WorkspaceInv, StagedInv, StagedSteps
    <2>3. c \notin stale => TextAtPath \in IF wsCall[c].expects = Absent
                                           THEN {wsCall[c].before}
                                           ELSE {wsCall[c].expects}
      BY <2>1, <1>1 DEF WorkspaceInv, ViewInv, LookedSteps
    <2> QED BY <2>1, <2>2, <2>3
  <1>2. WorkspaceInv /\ [WorkspaceNext]_workspaceVars =>
          [\A c \in WriteClients :
              Persist(c) =>
                  /\ c \notin stale => TextAtPath \in IF wsCall[c].expects = Absent
                                                     THEN {wsCall[c].before}
                                                     ELSE {wsCall[c].expects}
                  /\ text[path'] = wsCall[c].writes]_workspaceVars
    BY <1>1
  <1> QED BY <1>2, WorkspaceInvariant, PTL DEF WorkspaceSpec, WritesCoordinated

-----------------------------------------------------------------------------
(***************************************************************************)
(* Sandboxed tools, for any catalog, any plan of failures and any limits.  *)
(***************************************************************************)

(* Numbers, if there are any, have a least one.                            *)
LEMMA LeastNumber ==
    ASSUME NEW S, S \subseteq Nat, S # {}
    PROVE  \E x \in S : \A y \in S : x <= y
  <1>1. PICK x \in S : \A y \in S : ~(<<y, x>> \in OpToRel(<, Nat))
    BY NatLessThanWellFounded, WFMin, Zenon
  <1>2. \A y \in S : ~(y < x)
    BY <1>1 DEF OpToRel
  <1> QED BY <1>2

(* A path of helpers stays in every set of tools that is closed under      *)
(* helpers: the first tool on it that is outside would have to be a helper *)
(* of one inside.                                                          *)
LEMMA PathsInClosure ==
    ASSUME NEW root \in SandboxTools, NEW t \in SandboxTools, Reaches(root, t)
    PROVE  ToolClosureContains(root, t)
  <1>1. PICK p \in HelperPaths : /\ p[1] = root /\ p[Len(p)] = t
                                 /\ \A i \in 1..Len(p) - 1 : p[i + 1] \in ToolHelpers[p[i]]
    BY DEF Reaches
  <1>2. PICK n \in 1..Cardinality(SandboxTools) : p \in [1..n -> SandboxTools]
    BY <1>1 DEF HelperPaths
  <1>3. n \in Nat /\ n >= 1 /\ Len(p) = n
    BY <1>2
  <1> SUFFICES ASSUME NEW S \in SUBSET SandboxTools, root \in S,
                      \A u \in S : ToolHelpers[u] \subseteq S, t \notin S
               PROVE  FALSE
    BY DEF ToolClosureContains
  <1> DEFINE Out == {i \in 1..n : p[i] \notin S}
  <1>4. Out \subseteq Nat /\ Out # {}
    BY <1>1, <1>3
  <1>5. PICK k \in Out : \A j \in Out : k <= j
    BY <1>4, LeastNumber
  <1>6. k # 1 /\ k - 1 \in 1..n /\ k - 1 \in 1..Len(p) - 1 /\ (k - 1) + 1 = k
    BY <1>1, <1>3, <1>5
  <1>7. p[k - 1] \in S
    <2>1. k - 1 \notin Out
      BY <1>5, <1>6
    <2> QED BY <2>1, <1>6
  <1>8. p[k] \in ToolHelpers[p[k - 1]]
    BY <1>1, <1>6
  <1>9. p[k] \in S
    BY <1>7, <1>8
  <1> QED BY <1>9, <1>5

(* A sequence of the executions by tree number.                            *)
Ordered(s, execs) ==
    /\ s \in [1 .. Cardinality(execs) -> execs]
    /\ \A i, j \in DOMAIN s : i < j => s[i].tree < s[j].tree

(* There is one, put together from the smallest tree number on.            *)
LEMMA OrderExists ==
    ASSUME NEW E, IsFiniteSet(E), \A x \in E : x.tree \in Nat,
           \A x, y \in E : x.tree = y.tree => x = y
    PROVE  \E s : Ordered(s, E)
  <1> DEFINE Stuck(S) == S \in SUBSET E /\ ~(\E s : Ordered(s, S))
             Bad == {n \in Nat : \E S \in SUBSET E : Cardinality(S) = n /\ Stuck(S)}
  <1>1. SUFFICES ASSUME Bad # {} PROVE FALSE
    <2>1. Cardinality(E) \in Nat
      BY FS_CardinalityType
    <2> QED BY <1>1, <2>1
  <1>2. PICK n \in Bad : \A m \in Bad : n <= m
    <2>1. Bad \subseteq Nat
      OBVIOUS
    <2> HIDE DEF Bad
    <2> QED BY <1>1, <2>1, LeastNumber
  <1>3. PICK S \in SUBSET E : Cardinality(S) = n /\ Stuck(S)
    BY <1>2
  <1>4. IsFiniteSet(S) /\ n \in Nat
    BY <1>2, FS_Subset
  <1>5. CASE S = {}
    <2>1. n = 0
      BY <1>5, <1>3, FS_EmptySet
    <2>2. Ordered([i \in 1..0 |-> i], S)
      BY <2>1, <1>3 DEF Ordered
    <2> QED BY <2>2, <1>3
  <1>6. CASE S # {}
    <2> DEFINE Trees == {x.tree : x \in S}
    <2>1. Trees \subseteq Nat /\ Trees # {}
      BY <1>6
    <2>2. PICK a \in Trees : \A b \in Trees : a <= b
      <3> HIDE DEF Trees
      <3> QED BY <2>1, LeastNumber
    <2>3. PICK m \in S : \A y \in S : m.tree <= y.tree
      BY <2>2
    <2> DEFINE R == S \ {m}
    <2>4. IsFiniteSet(R) /\ Cardinality(R) = n - 1 /\ n - 1 \in Nat
      <3>1. IsFiniteSet(R) /\ Cardinality(R) = n - 1
        BY <1>3, <1>4, <2>3, FS_RemoveElement
      <3>2. Cardinality(R) \in Nat
        BY <3>1, FS_CardinalityType
      <3> QED BY <3>1, <3>2
    <2>5. PICK s : Ordered(s, R)
      <3>1. n - 1 \notin Bad
        BY <1>2, <2>4
      <3>2. R \in SUBSET E
        BY <1>3
      <3> HIDE DEF R
      <3> QED BY <3>1, <3>2, <2>4
    <2> DEFINE r == [i \in 1..n |-> IF i = 1 THEN m ELSE s[i - 1]]
    <2>6. s \in [1 .. n - 1 -> R] /\ \A i, j \in 1 .. n - 1 : i < j => s[i].tree < s[j].tree
      BY <2>4, <2>5 DEF Ordered
    <2>7. r \in [1 .. n -> S]
      BY <2>6, <1>4
    <2>8. ASSUME NEW i \in 1..n, NEW j \in 1..n, i < j PROVE r[i].tree < r[j].tree
      <3>1. j - 1 \in 1 .. n - 1 /\ r[j] = s[j - 1] /\ s[j - 1] \in R
        BY <2>6, <2>8, <1>4
      <3>2. CASE i = 1
        <4>1. r[j] \in S /\ r[j] # m /\ r[i] = m
          BY <3>1, <3>2
        <4>2. m.tree \in Nat /\ r[j].tree \in Nat /\ m.tree # r[j].tree
          BY <4>1, <2>3, <1>3
        <4> QED BY <4>1, <4>2, <2>3
      <3>3. CASE i # 1
        <4>1. i - 1 \in 1 .. n - 1 /\ r[i] = s[i - 1] /\ i - 1 < j - 1
          BY <3>3, <2>8, <1>4
        <4> QED BY <4>1, <3>1, <2>6
      <3> QED BY <3>2, <3>3
    <2>9. Ordered(r, S)
      BY <2>7, <2>8, <1>3 DEF Ordered
    <2> QED BY <2>9, <1>3
  <1> QED BY <1>5, <1>6

(* active_executions lists every execution once, by tree number.           *)
LEMMA OrderIsListing ==
    ASSUME NEW E, IsFiniteSet(E), \A x \in E : x.tree \in Nat,
           \A x, y \in E : x.tree = y.tree => x = y
    PROVE  /\ Cardinality(E) \in Nat
           /\ InTreeOrder(E) \in [1 .. Cardinality(E) -> E]
           /\ \A i, j \in 1 .. Cardinality(E) : InTreeOrder(E)[i] = InTreeOrder(E)[j] => i = j
           /\ \A x \in E : \E i \in 1 .. Cardinality(E) : InTreeOrder(E)[i] = x
  <1> DEFINE s == InTreeOrder(E)
             n == Cardinality(E)
  <1>1. n \in Nat
    BY FS_CardinalityType
  <1>2. s \in [1 .. n -> E] /\ \A i, j \in 1 .. n : i < j => s[i].tree < s[j].tree
    <2>1. \E q \in [1 .. n -> E] : \A i, j \in DOMAIN q : i < j => q[i].tree < q[j].tree
      BY OrderExists DEF Ordered
    <2> QED BY <2>1 DEF InTreeOrder
  <1> HIDE DEF s, n
  <1>3. ASSUME NEW i \in 1 .. n, NEW j \in 1 .. n, s[i] = s[j] PROVE i = j
    <2>1. s[i] \in E /\ s[i].tree \in Nat
      BY <1>2
    <2>2. ~(i < j) /\ ~(j < i)
      BY <1>2, <1>3, <2>1
    <2> QED BY <2>2, <1>1
  <1>4. s \in Injection(1 .. n, E)
    BY <1>2, <1>3 DEF Injection, IsInjective
  <1>5. IsFiniteSet(1 .. n) /\ Cardinality(1 .. n) = n
    BY <1>1, FS_Interval
  <1>6. s \in Surjection(1 .. n, E)
    BY <1>4, <1>5, FS_Injection DEF n
  <1> QED BY <1>1, <1>2, <1>3, <1>6 DEF Surjection, s, n

-----------------------------------------------------------------------------
(* What an event of the trail is.                                          *)
SandboxEvents ==
    [event : {"audit", "terminated", "state"}, at : Int,
     kind : SessionStates \cup EndKinds \cup {"launch", "started", "revoked", "notice"},
     trees : SUBSET Int]

(* The i-th event of tr records the start or the end of a tree.            *)
Starts(tr, i, tree) == tr[i].kind = "started" /\ tr[i].trees = {tree}
(* ... and the end of one.                                                 *)
Ends(tr, i, tree) == tr[i].kind \in EndKinds /\ tr[i].trees = {tree}

(* TreesEndOnce of the trail tr, without counting, and with what it leaves *)
(* unsaid: a tree that has no number yet has no record.                    *)
TrailInv(tr, stamp, numbered, alive) ==
    /\ \A i, j \in DOMAIN tr : i < j /\ tr[i].event = "audit" /\ tr[j].event = "audit" => tr[i].at < tr[j].at
    /\ \A i \in DOMAIN tr : tr[i].event = "audit" => tr[i].at < stamp
    /\ \A tree \in 0 .. numbered - 1 :
          /\ \E i \in DOMAIN tr : Starts(tr, i, tree)
          /\ tree \notin alive => \E i \in DOMAIN tr : Ends(tr, i, tree)
    /\ \A tree \in Nat, i, j \in DOMAIN tr :
          /\ Starts(tr, i, tree) /\ Starts(tr, j, tree) => i = j
          /\ Ends(tr, i, tree) /\ Ends(tr, j, tree) => i = j
          /\ Starts(tr, i, tree) /\ Ends(tr, j, tree) => i < j
          /\ Starts(tr, i, tree) => tree < numbered
          /\ Ends(tr, i, tree) => tree < numbered /\ tree \notin alive
    /\ \A n \in DOMAIN tr : tr[n].event = "terminated" =>
          \A tree \in tr[n].trees : \E i \in DOMAIN tr : Ends(tr, i, tree) /\ i < n

(* What es may add to a trail when the trees from numbered to next are     *)
(* started and those of gone end: one record of each, later timestamps,    *)
(* and notices of trees that are over.                                     *)
Addition(es, from, to, numbered, next, alive, gone) ==
    /\ \A i, j \in DOMAIN es : i < j /\ es[i].event = "audit" /\ es[j].event = "audit" => es[i].at < es[j].at
    /\ \A i \in DOMAIN es : es[i].event = "audit" => from <= es[i].at /\ es[i].at < to
    /\ \A tree \in numbered .. next - 1 : \E i \in DOMAIN es : Starts(es, i, tree)
    /\ \A tree \in gone : \E i \in DOMAIN es : Ends(es, i, tree)
    /\ \A tree \in Nat, i, j \in DOMAIN es :
          /\ Starts(es, i, tree) => tree \in numbered .. next - 1
          /\ Starts(es, i, tree) /\ Starts(es, j, tree) => i = j
          /\ Ends(es, i, tree) => tree \in gone
          /\ Ends(es, i, tree) /\ Ends(es, j, tree) => i = j
    /\ \A n \in DOMAIN es : es[n].event = "terminated" =>
          \A tree \in es[n].trees : \/ tree \in 0 .. numbered - 1 /\ tree \notin alive
                                    \/ \E i \in DOMAIN es : Ends(es, i, tree) /\ i < n

(* The events of a trail that grew.                                        *)
LEMMA TrailGrows ==
    ASSUME NEW tr \in Seq(SandboxEvents), NEW es \in Seq(SandboxEvents)
    PROVE  /\ tr \o es \in Seq(SandboxEvents)
           /\ Len(tr) \in Nat /\ DOMAIN tr = 1 .. Len(tr) /\ DOMAIN es = 1 .. Len(es)
           /\ DOMAIN tr \subseteq DOMAIN (tr \o es)
           /\ \A i \in DOMAIN tr : (tr \o es)[i] = tr[i]
           /\ \A i \in DOMAIN es : Len(tr) + i \in DOMAIN (tr \o es) /\ (tr \o es)[Len(tr) + i] = es[i]
           /\ \A i \in DOMAIN (tr \o es) : i \in DOMAIN tr \/ \E k \in DOMAIN es : i = Len(tr) + k
  <1>1. \A i \in DOMAIN (tr \o es) : i \in DOMAIN tr \/ \E k \in DOMAIN es : i = Len(tr) + k
    <2> SUFFICES ASSUME NEW i \in DOMAIN (tr \o es), i \notin DOMAIN tr
                 PROVE  \E k \in DOMAIN es : i = Len(tr) + k
      OBVIOUS
    <2>1. i - Len(tr) \in DOMAIN es /\ i = Len(tr) + (i - Len(tr))
      OBVIOUS
    <2> QED BY <2>1
  <1> QED BY <1>1

(* Such events keep the trail sound.                                       *)
LEMMA AdditionKeepsTrail ==
    ASSUME NEW tr \in Seq(SandboxEvents), NEW es \in Seq(SandboxEvents),
           NEW from \in Nat, NEW to \in Nat, from <= to,
           NEW numbered \in Nat, NEW next \in Nat, numbered <= next,
           NEW alive \in SUBSET (0 .. numbered - 1), NEW gone \in SUBSET alive,
           TrailInv(tr, from, numbered, alive), Addition(es, from, to, numbered, next, alive, gone)
    PROVE  TrailInv(tr \o es, to, next, (alive \ gone) \cup (numbered .. next - 1))
  <1> DEFINE all == tr \o es
             len == Len(tr)
             left == (alive \ gone) \cup (numbered .. next - 1)
  <1>1. /\ len \in Nat /\ DOMAIN tr = 1 .. len /\ DOMAIN es = 1 .. Len(es)
        /\ DOMAIN tr \subseteq DOMAIN all
        /\ \A i \in DOMAIN tr : all[i] = tr[i]
        /\ \A i \in DOMAIN es : len + i \in DOMAIN all /\ all[len + i] = es[i]
        /\ \A i \in DOMAIN all : i \in DOMAIN tr \/ \E k \in DOMAIN es : i = len + k
    BY TrailGrows
  <1>2. \A i \in DOMAIN tr : tr[i] \in SandboxEvents /\ tr[i].at \in Int /\ tr[i].trees \subseteq Int
    <2>1. \A i \in DOMAIN tr : tr[i] \in SandboxEvents
      OBVIOUS
    <2> QED BY <2>1 DEF SandboxEvents
  <1>3. \A i \in DOMAIN es : es[i] \in SandboxEvents /\ es[i].at \in Int /\ es[i].trees \subseteq Int
    <2>1. \A i \in DOMAIN es : es[i] \in SandboxEvents
      OBVIOUS
    <2> QED BY <2>1 DEF SandboxEvents
  <1>4. /\ \A i \in DOMAIN tr : \A tree : Starts(all, i, tree) => Starts(tr, i, tree)
        /\ \A i \in DOMAIN tr : \A tree : Starts(tr, i, tree) => Starts(all, i, tree)
        /\ \A i \in DOMAIN tr : \A tree : Ends(all, i, tree) => Ends(tr, i, tree)
        /\ \A i \in DOMAIN tr : \A tree : Ends(tr, i, tree) => Ends(all, i, tree)
        /\ \A k \in DOMAIN es : \A tree : Starts(all, len + k, tree) => Starts(es, k, tree)
        /\ \A k \in DOMAIN es : \A tree : Starts(es, k, tree) => Starts(all, len + k, tree)
        /\ \A k \in DOMAIN es : \A tree : Ends(all, len + k, tree) => Ends(es, k, tree)
        /\ \A k \in DOMAIN es : \A tree : Ends(es, k, tree) => Ends(all, len + k, tree)
    BY <1>1 DEF Starts, Ends
  <1> HIDE DEF all, len
  <1> DEFINE Sound(tree, i, j) ==
                /\ Starts(all, i, tree) /\ Starts(all, j, tree) => i = j
                /\ Ends(all, i, tree) /\ Ends(all, j, tree) => i = j
                /\ Starts(all, i, tree) /\ Ends(all, j, tree) => i < j
                /\ Starts(all, i, tree) => tree < next
                /\ Ends(all, i, tree) => tree < next /\ tree \notin left
  <1>5. \A i \in DOMAIN tr, k \in DOMAIN es : i < len + k
    BY <1>1
  <1>6. \A k, l \in DOMAIN es : len + k < len + l <=> k < l
    BY <1>1
  <1>7. \A i \in DOMAIN tr, k \in DOMAIN es : ~(len + k < i) /\ len + k # i
    BY <1>1
  <1>8. ASSUME NEW i \in DOMAIN all, NEW j \in DOMAIN all, i < j,
                all[i].event = "audit", all[j].event = "audit"
         PROVE  all[i].at < all[j].at
    <2>1. CASE i \in DOMAIN tr /\ j \in DOMAIN tr
      BY <2>1, <1>1, <1>8 DEF TrailInv
    <2>2. ASSUME NEW k \in DOMAIN es, i \in DOMAIN tr, j = len + k PROVE all[i].at < all[j].at
      <3>1. tr[i].at < from /\ from <= es[k].at
        BY <2>2, <1>1, <1>8 DEF TrailInv, Addition
      <3> QED BY <3>1, <2>2, <1>1, <1>2, <1>3
    <2>3. ASSUME NEW k \in DOMAIN es, NEW l \in DOMAIN es, i = len + k, j = len + l
          PROVE  all[i].at < all[j].at
      BY <2>3, <1>1, <1>6, <1>8 DEF Addition
    <2> QED BY <2>1, <2>2, <2>3, <1>1, <1>7, <1>8
  <1>9. ASSUME NEW i \in DOMAIN all, all[i].event = "audit" PROVE all[i].at < to
    <2>1. CASE i \in DOMAIN tr
      <3>1. tr[i].at < from
        BY <2>1, <1>1, <1>9 DEF TrailInv
      <3> QED BY <3>1, <2>1, <1>1, <1>2
    <2>2. ASSUME NEW k \in DOMAIN es, i = len + k PROVE all[i].at < to
      BY <2>2, <1>1, <1>9 DEF Addition
    <2> QED BY <2>1, <2>2, <1>1
  <1>10. ASSUME NEW tree \in 0 .. next - 1
         PROVE  /\ \E i \in DOMAIN all : Starts(all, i, tree)
                /\ tree \notin left => \E i \in DOMAIN all : Ends(all, i, tree)
    <2>1. ASSUME tree < numbered PROVE \E i \in DOMAIN all : Starts(all, i, tree)
      <3>1. PICK i \in DOMAIN tr : Starts(tr, i, tree)
        BY <2>1 DEF TrailInv
      <3> QED BY <3>1, <1>1, <1>4
    <2>2. ASSUME tree >= numbered PROVE \E i \in DOMAIN all : Starts(all, i, tree)
      <3>1. PICK k \in DOMAIN es : Starts(es, k, tree)
        BY <2>2 DEF Addition
      <3> QED BY <3>1, <1>1, <1>4
    <2>3. ASSUME tree \notin alive, tree < numbered PROVE \E i \in DOMAIN all : Ends(all, i, tree)
      <3>1. PICK i \in DOMAIN tr : Ends(tr, i, tree)
        BY <2>3 DEF TrailInv
      <3> QED BY <3>1, <1>1, <1>4
    <2>4. ASSUME tree \in gone PROVE \E i \in DOMAIN all : Ends(all, i, tree)
      <3>1. PICK k \in DOMAIN es : Ends(es, k, tree)
        BY <2>4 DEF Addition
      <3> QED BY <3>1, <1>1, <1>4
    <2> QED BY <2>1, <2>2, <2>3, <2>4
  <1>11. ASSUME NEW tree \in Nat, NEW i \in DOMAIN all, NEW j \in DOMAIN all
         PROVE  Sound(tree, i, j)
    <2>1. \A k \in DOMAIN tr : /\ Starts(tr, k, tree) => tree < numbered /\ tree < next
                               /\ Ends(tr, k, tree) => tree < numbered /\ tree < next /\ tree \notin left
      BY DEF TrailInv
    <2>2. \A k \in DOMAIN es : /\ Starts(es, k, tree) => ~(tree < numbered) /\ tree < next
                               /\ Ends(es, k, tree) => /\ tree \in gone /\ tree \in alive
                                                       /\ tree < numbered /\ tree < next /\ tree \notin left
      BY DEF Addition
    <2>3. \A k \in DOMAIN tr : Ends(tr, k, tree) => tree \notin alive
      BY DEF TrailInv
    <2>4. CASE i \in DOMAIN tr /\ j \in DOMAIN tr
      <3>1. /\ Starts(tr, i, tree) /\ Starts(tr, j, tree) => i = j
            /\ Ends(tr, i, tree) /\ Ends(tr, j, tree) => i = j
            /\ Starts(tr, i, tree) /\ Ends(tr, j, tree) => i < j
        BY <2>4 DEF TrailInv
      <3> QED BY <3>1, <2>1, <2>3, <2>4, <1>4
    <2>5. ASSUME NEW k \in DOMAIN es, i \in DOMAIN tr, j = len + k
          PROVE  Sound(tree, i, j)
      BY <2>1, <2>2, <2>3, <2>5, <1>4, <1>5
    <2>6. ASSUME NEW k \in DOMAIN es, j \in DOMAIN tr, i = len + k
          PROVE  Sound(tree, i, j)
      BY <2>1, <2>2, <2>3, <2>6, <1>4
    <2>7. ASSUME NEW k \in DOMAIN es, NEW l \in DOMAIN es, i = len + k, j = len + l
          PROVE  Sound(tree, i, j)
      <3>1. /\ Ends(es, k, tree) /\ Ends(es, l, tree) => k = l
            /\ Starts(es, k, tree) /\ Starts(es, l, tree) => k = l
        BY DEF Addition
      <3> QED BY <3>1, <2>2, <2>3, <2>7, <1>4
    <2> QED BY <2>4, <2>5, <2>6, <2>7, <1>1
  <1>12. ASSUME NEW n \in DOMAIN all, all[n].event = "terminated", NEW tree \in all[n].trees
         PROVE  \E i \in DOMAIN all : Ends(all, i, tree) /\ i < n
    <2>1. CASE n \in DOMAIN tr
      <3>1. tr[n].event = "terminated" /\ tree \in tr[n].trees /\ tree \in Int
        BY <2>1, <1>1, <1>2, <1>12
      <3>2. PICK i \in DOMAIN tr : Ends(tr, i, tree) /\ i < n
        BY <2>1, <3>1 DEF TrailInv
      <3> QED BY <3>1, <3>2, <1>1, <1>4
    <2>2. ASSUME NEW k \in DOMAIN es, n = len + k PROVE \E i \in DOMAIN all : Ends(all, i, tree) /\ i < n
      <3>1. es[k].event = "terminated" /\ tree \in es[k].trees /\ tree \in Int
        BY <2>2, <1>1, <1>3, <1>12
      <3>2. ASSUME tree \in 0 .. numbered - 1, tree \notin alive
            PROVE  \E i \in DOMAIN all : Ends(all, i, tree) /\ i < n
        <4>1. PICK i \in DOMAIN tr : Ends(tr, i, tree)
          BY <3>2 DEF TrailInv
        <4> QED BY <2>2, <4>1, <1>1, <1>4, <1>5
      <3>3. ASSUME NEW i \in DOMAIN es, Ends(es, i, tree), i < k
            PROVE  \E j \in DOMAIN all : Ends(all, j, tree) /\ j < n
        BY <2>2, <3>1, <3>3, <1>1, <1>4, <1>6
      <3> QED BY <3>1, <3>2, <3>3 DEF Addition
    <2> QED BY <2>1, <2>2, <1>1
  <1> QED BY <1>8, <1>9, <1>10, <1>11, <1>12 DEF TrailInv, all

-----------------------------------------------------------------------------
(* The trees of the executions that run.                                   *)
Alive == TreesOf(ActiveExecutions)

(* The inductive invariant.                                                *)
SandboxInv ==
    /\ SandboxTypeOK
    /\ IsFiniteSet(executions)
    /\ \A x \in executions : x.tree < next_id.tree
    /\ \A x, y \in executions : x.tree = y.tree => x = y
    /\ auditTrail \in Seq(SandboxEvents)
    /\ TrailInv(auditTrail, next_timestamp, next_id.tree, Alive)
    /\ lifecycle = "closed" => Alive = {}
    /\ RevokedToolsIdle

(* The types of an execution and of the counters.                          *)
LEMMA SandboxTypes ==
    ASSUME SandboxTypeOK
    PROVE  /\ next_timestamp \in Nat /\ next_id.tree \in Nat /\ next_id.process \in Nat /\ next_id.pty \in Nat
           /\ \A x \in executions : x.tree \in Nat
  <1>1. next_timestamp \in Nat /\ next_id.tree \in Nat /\ next_id.process \in Nat /\ next_id.pty \in Nat
    BY SandboxAssumption DEF SandboxTypeOK
  <1>2. \A x \in executions : x.tree \in Nat
    BY DEF SandboxTypeOK
  <1> QED BY <1>1, <1>2

(* The invariant implies what the trail promises.                          *)
LEMMA TrailPromises ==
    ASSUME SandboxInv
    PROVE  TreesEndOnce
  <1>1. /\ auditTrail \in Seq(SandboxEvents) /\ next_id.tree \in Nat
        /\ TrailInv(auditTrail, next_timestamp, next_id.tree, Alive)
    BY SandboxTypes DEF SandboxInv
  <1>2. DOMAIN auditTrail = 1 .. Len(auditTrail) /\ Len(auditTrail) \in Nat
    BY <1>1
  <1>3. IsFiniteSet(DOMAIN auditTrail)
    BY <1>2, FS_Interval
  <1>4. ASSUME NEW tree \in 0 .. next_id.tree - 1
        PROVE  /\ Cardinality(RecordsOf({"started"}, tree)) = 1
               /\ Cardinality(RecordsOf(EndKinds, tree)) = IF tree \in Alive THEN 0 ELSE 1
               /\ \A i \in RecordsOf({"started"}, tree), j \in RecordsOf(EndKinds, tree) : i < j
    <2>1. tree \in Nat
      BY <1>1
    <2>2. /\ RecordsOf({"started"}, tree) = {i \in DOMAIN auditTrail : Starts(auditTrail, i, tree)}
          /\ RecordsOf(EndKinds, tree) = {i \in DOMAIN auditTrail : Ends(auditTrail, i, tree)}
      BY DEF RecordsOf, Starts, Ends
    <2>3. PICK i \in DOMAIN auditTrail : Starts(auditTrail, i, tree)
      BY <1>1 DEF TrailInv
    <2>4. \A j \in DOMAIN auditTrail : Starts(auditTrail, j, tree) => j = i
      BY <1>1, <2>1, <2>3 DEF TrailInv
    <2>5. RecordsOf({"started"}, tree) = {i}
      BY <2>2, <2>3, <2>4
    <2>6. Cardinality(RecordsOf({"started"}, tree)) = 1
      BY <2>5, FS_Singleton
    <2>7. ASSUME tree \in Alive PROVE Cardinality(RecordsOf(EndKinds, tree)) = 0
      <3>1. RecordsOf(EndKinds, tree) = {}
        BY <1>1, <2>1, <2>2, <2>7 DEF TrailInv
      <3> QED BY <3>1, FS_EmptySet
    <2>8. ASSUME tree \notin Alive PROVE Cardinality(RecordsOf(EndKinds, tree)) = 1
      <3>1. PICK k \in DOMAIN auditTrail : Ends(auditTrail, k, tree)
        BY <1>1, <2>8 DEF TrailInv
      <3>2. \A j \in DOMAIN auditTrail : Ends(auditTrail, j, tree) => j = k
        BY <1>1, <2>1, <3>1 DEF TrailInv
      <3>3. RecordsOf(EndKinds, tree) = {k}
        BY <2>2, <3>1, <3>2
      <3> QED BY <3>3, FS_Singleton
    <2>9. \A k, j \in DOMAIN auditTrail : Starts(auditTrail, k, tree) /\ Ends(auditTrail, j, tree) => k < j
      BY <1>1, <2>1 DEF TrailInv
    <2> QED BY <2>2, <2>6, <2>7, <2>8, <2>9
  <1>5. ASSUME NEW n \in DOMAIN auditTrail, auditTrail[n].event = "terminated",
               NEW tree \in auditTrail[n].trees
        PROVE  \E i \in RecordsOf(EndKinds, tree) : i < n
    <2>1. PICK i \in DOMAIN auditTrail : Ends(auditTrail, i, tree) /\ i < n
      BY <1>1, <1>5 DEF TrailInv
    <2> QED BY <2>1 DEF RecordsOf, Ends
  <1>6. lifecycle = "closed" => Alive = {}
    BY DEF SandboxInv
  <1>7. /\ \A i, j \in DOMAIN auditTrail :
              i < j /\ auditTrail[i].event = "audit" /\ auditTrail[j].event = "audit" =>
              auditTrail[i].at < auditTrail[j].at
        /\ \A i \in DOMAIN auditTrail : auditTrail[i].event = "audit" => auditTrail[i].at < next_timestamp
    BY <1>1 DEF TrailInv
  <1> QED BY <1>4, <1>5, <1>6, <1>7 DEF TreesEndOnce, Alive

(* apply_execution_termination stops the executions of E, and only those.  *)
LEMMA TerminationStops ==
    ASSUME SandboxInv, NEW E \in SUBSET ActiveExecutions, executions' = ApplyTermination(E),
           next_id' = next_id
    PROVE  /\ IsFiniteSet(executions')
           /\ \A x \in executions' :
                 x \in [surface : Surfaces, id : Nat, tree : Nat, tool : Executables,
                        running : BOOLEAN, stdin_open : BOOLEAN]
           /\ \A x \in executions' : x.tree < next_id.tree
           /\ \A x, y \in executions' : x.tree = y.tree => x = y
           /\ \A x \in executions' : x.running => x \in executions /\ x \notin E
           /\ Alive' = Alive \ TreesOf(E)
  <1> DEFINE Rec == [surface : Surfaces, id : Nat, tree : Nat, tool : Executables,
                     running : BOOLEAN, stdin_open : BOOLEAN]
             f == [x \in executions |-> IF x \in E THEN [x EXCEPT !.running = FALSE, !.stdin_open = FALSE] ELSE x]
  <1>1. \A x \in executions : x \in Rec
    BY DEF SandboxInv, SandboxTypeOK
  <1>2. E \subseteq executions
    BY DEF ActiveExecutions
  <1>3. executions' = {f[x] : x \in executions}
    BY DEF ApplyTermination
  <1>4. \A x \in executions : /\ f[x] \in Rec /\ f[x].tree = x.tree
                              /\ x \in E => f[x].running = FALSE
                              /\ x \notin E => f[x] = x
    BY <1>1
  <1>5. /\ \A y \in executions' : \E x \in executions : y = f[x]
        /\ \A x \in executions : f[x] \in executions'
    BY <1>3
  <1> HIDE DEF f, Rec
  <1>6. IsFiniteSet(executions')
    <2>1. f \in Surjection(executions, executions')
      BY <1>5 DEF Surjection, f
    <2> QED BY <2>1, FS_Surjection DEF SandboxInv
  <1>7. ASSUME NEW x \in executions'
        PROVE  x \in Rec /\ x.tree < next_id.tree /\ (x.running => x \in executions /\ x \notin E)
    <2>1. PICK u \in executions : x = f[u]
      BY <1>5
    <2>2. u.tree < next_id.tree
      BY DEF SandboxInv
    <2> QED BY <2>1, <2>2, <1>4
  <1>8. ASSUME NEW x \in executions', NEW y \in executions', x.tree = y.tree PROVE x = y
    <2>1. PICK u \in executions : x = f[u]
      BY <1>5
    <2>2. PICK v \in executions : y = f[v]
      BY <1>5
    <2>3. u.tree = v.tree
      BY <2>1, <2>2, <1>4, <1>8
    <2> QED BY <2>1, <2>2, <2>3 DEF SandboxInv
  <1>9. \A x \in executions : x.running /\ x \notin E => x \in executions'
    BY <1>4, <1>5
  <1>10. \A x, y \in executions : x.tree = y.tree => x = y
    BY DEF SandboxInv
  <1>11. Alive' = Alive \ TreesOf(E)
    BY <1>2, <1>7, <1>9, <1>10 DEF Alive, TreesOf, ActiveExecutions
  <1> QED BY <1>6, <1>7, <1>8, <1>11 DEF Rec

(* If the trail accounts for it, such a step keeps the invariant.          *)
LEMMA TerminationKeeps ==
    ASSUME SandboxInv, NEW E \in SUBSET ActiveExecutions, executions' = ApplyTermination(E),
           next_id' = next_id, injected' = injected, lifecycle' \in SessionStates,
           lifecycle' = "closed" => lifecycle = "closed" \/ E = ActiveExecutions,
           next_timestamp' \in 0 .. MaxTimestamp,
           revoked_tools' \subseteq SandboxTools,
           \A x \in ActiveExecutions \ E : x.tool # HostCommand =>
              \A t \in revoked_tools' : ~Reaches(x.tool, t),
           auditTrail' \in Seq(SandboxEvents),
           TrailInv(auditTrail', next_timestamp', next_id.tree, Alive \ TreesOf(E))
    PROVE  SandboxInv'
  <1>1. /\ IsFiniteSet(executions')
        /\ \A x \in executions' :
              x \in [surface : Surfaces, id : Nat, tree : Nat, tool : Executables,
                     running : BOOLEAN, stdin_open : BOOLEAN]
        /\ \A x \in executions' : x.tree < next_id.tree
        /\ \A x, y \in executions' : x.tree = y.tree => x = y
        /\ \A x \in executions' : x.running => x \in executions /\ x \notin E
        /\ Alive' = Alive \ TreesOf(E)
    BY TerminationStops
  <1>2. SandboxTypeOK'
    BY <1>1 DEF SandboxInv, SandboxTypeOK
  <1>3. lifecycle' = "closed" => Alive' = {}
    BY <1>1 DEF SandboxInv, Alive
  <1>4. RevokedToolsIdle'
    BY <1>1 DEF RevokedToolsIdle, ActiveExecutions, Reaches, HelperPaths
  <1> QED BY <1>1, <1>2, <1>3, <1>4 DEF SandboxInv

(* A tool revoked earlier is as idle as before.                            *)
LEMMA StillIdle ==
    ASSUME SandboxInv, NEW E
    PROVE  \A x \in ActiveExecutions \ E : x.tool # HostCommand =>
              \A t \in revoked_tools : ~Reaches(x.tool, t)
  BY DEF SandboxInv, RevokedToolsIdle, ActiveExecutions

(* The trees of running executions have a number.                          *)
LEMMA AliveNumbered ==
    ASSUME SandboxInv
    PROVE  /\ next_timestamp \in Nat /\ next_id.tree \in Nat
           /\ Alive \in SUBSET (0 .. next_id.tree - 1)
           /\ \A E \in SUBSET ActiveExecutions : TreesOf(E) \in SUBSET Alive
           /\ auditTrail \in Seq(SandboxEvents)
           /\ TrailInv(auditTrail, next_timestamp, next_id.tree, Alive)
  <1>1. /\ next_timestamp \in Nat /\ next_id.tree \in Nat
        /\ \A x \in executions : x.tree \in Nat /\ x.tree < next_id.tree
    BY SandboxTypes DEF SandboxInv
  <1>2. Alive \in SUBSET (0 .. next_id.tree - 1)
    BY <1>1 DEF Alive, TreesOf, ActiveExecutions
  <1>3. \A E \in SUBSET ActiveExecutions : TreesOf(E) \in SUBSET Alive
    BY DEF Alive, TreesOf
  <1> QED BY <1>1, <1>2, <1>3 DEF SandboxInv

(* One audit record per execution of E, with the next timestamps.          *)
LEMMA TerminationAdds ==
    ASSUME SandboxInv, NEW E \in SUBSET ActiveExecutions, NEW first \in Nat, NEW kind \in EndKinds
    PROVE  /\ Cardinality(E) \in Nat
           /\ TerminationAudits(E, first, kind) \in Seq(SandboxEvents)
           /\ Addition(TerminationAudits(E, first, kind), first, first + Cardinality(E),
                       next_id.tree, next_id.tree, Alive, TreesOf(E))
  <1> DEFINE s == InTreeOrder(E)
             n == Cardinality(E)
             es == TerminationAudits(E, first, kind)
  <1>1. E \subseteq executions /\ \A x \in E : x.tree \in Nat
    BY SandboxTypes DEF ActiveExecutions, SandboxInv
  <1>2. IsFiniteSet(E) /\ \A x, y \in E : x.tree = y.tree => x = y
    BY <1>1, FS_Subset DEF SandboxInv
  <1>3. /\ n \in Nat /\ s \in [1 .. n -> E]
        /\ \A i, j \in 1 .. n : s[i] = s[j] => i = j
        /\ \A x \in E : \E i \in 1 .. n : s[i] = x
    BY <1>1, <1>2, OrderIsListing
  <1> HIDE DEF s, n
  <1>4. Len(s) = n
    BY <1>3
  <1>5. es = [i \in 1 .. n |-> Audit(first + i - 1, kind, s[i].tree)]
    BY <1>4 DEF TerminationAudits, s
  <1>6. /\ DOMAIN es = 1 .. n
        /\ \A i \in 1 .. n : /\ es[i] \in SandboxEvents
                             /\ es[i].event = "audit" /\ es[i].at = first + i - 1
                             /\ es[i].kind = kind /\ es[i].trees = {s[i].tree}
                             /\ s[i] \in E /\ s[i].tree \in Nat
    <2>1. \A i \in 1 .. n : first + i - 1 \in Int /\ s[i] \in E /\ s[i].tree \in Nat
      BY <1>1, <1>3
    <2> QED BY <1>5, <2>1 DEF Audit, SandboxEvents
  <1>7. es \in Seq(SandboxEvents)
    BY <1>3, <1>5, <1>6
  <1> HIDE DEF es
  <1>8. /\ \A i \in 1 .. n : \A tree : ~Starts(es, i, tree)
        /\ \A i \in 1 .. n : Ends(es, i, s[i].tree)
        /\ \A i \in 1 .. n : \A tree : Ends(es, i, tree) => tree = s[i].tree
    BY <1>6 DEF Starts, Ends, EndKinds
  <1>9. ASSUME NEW i \in 1 .. n, NEW j \in 1 .. n, NEW tree, Ends(es, i, tree), Ends(es, j, tree)
        PROVE  i = j
    <2>1. s[i].tree = s[j].tree /\ s[i] \in E /\ s[j] \in E
      BY <1>6, <1>8, <1>9
    <2> QED BY <2>1, <1>2, <1>3
  <1>10. \A tree \in TreesOf(E) : \E i \in 1 .. n : Ends(es, i, tree)
    BY <1>3, <1>8 DEF TreesOf
  <1>11. \A i \in 1 .. n : \A tree : Ends(es, i, tree) => tree \in TreesOf(E)
    BY <1>6, <1>8 DEF TreesOf
  <1>12. /\ \A i, j \in 1 .. n : i < j => es[i].at < es[j].at
         /\ \A i \in 1 .. n : first <= es[i].at /\ es[i].at < first + n
         /\ \A i \in 1 .. n : es[i].event # "terminated"
    BY <1>3, <1>6
  <1>13. next_id.tree .. next_id.tree - 1 = {}
    BY AliveNumbered
  <1>14. Addition(es, first, first + n, next_id.tree, next_id.tree, Alive, TreesOf(E))
    BY <1>6, <1>8, <1>9, <1>10, <1>11, <1>12, <1>13 DEF Addition
  <1> QED BY <1>3, <1>7, <1>14 DEF es, n

(* Events that start and end nothing.                                      *)
Remarks(es, from, to, over) ==
    /\ \A i, j \in DOMAIN es : i < j /\ es[i].event = "audit" /\ es[j].event = "audit" => es[i].at < es[j].at
    /\ \A i \in DOMAIN es : es[i].event = "audit" => from <= es[i].at /\ es[i].at < to
    /\ \A i \in DOMAIN es : es[i].kind \notin EndKinds \cup {"started"}
    /\ \A n \in DOMAIN es : es[n].event = "terminated" => es[n].trees \subseteq over

(* They keep the trail sound if the trees they name are over.              *)
LEMMA RemarksKeepTrail ==
    ASSUME NEW tr \in Seq(SandboxEvents), NEW es \in Seq(SandboxEvents),
           NEW from \in Nat, NEW to \in Nat, from <= to, NEW numbered \in Nat,
           NEW alive \in SUBSET (0 .. numbered - 1), NEW over \in SUBSET ((0 .. numbered - 1) \ alive),
           TrailInv(tr, from, numbered, alive), Remarks(es, from, to, over)
    PROVE  tr \o es \in Seq(SandboxEvents) /\ TrailInv(tr \o es, to, numbered, alive)
  <1>1. numbered .. numbered - 1 = {}
    OBVIOUS
  <1>2. \A i \in DOMAIN es : \A tree : ~Starts(es, i, tree) /\ ~Ends(es, i, tree)
    BY DEF Remarks, Starts, Ends
  <1>3. Addition(es, from, to, numbered, numbered, alive, {})
    BY <1>1, <1>2 DEF Addition, Remarks
  <1>4. TrailInv(tr \o es, to, numbered, (alive \ {}) \cup (numbered .. numbered - 1))
    BY <1>3, AdditionKeepsTrail
  <1>5. (alive \ {}) \cup (numbered .. numbered - 1) = alive
    BY <1>1
  <1> QED BY <1>4, <1>5, TrailGrows

-----------------------------------------------------------------------------
(* The first record of a session.                                          *)
LEMMA SandboxStarts == SandboxInit => SandboxInv
  <1> SUFFICES ASSUME SandboxInit PROVE SandboxInv
    OBVIOUS
  <1> USE DEF SandboxInit
  <1>1. SandboxTypeOK
    BY SandboxAssumption DEF SandboxTypeOK, SessionStates
  <1>2. Alive = {} /\ next_id.tree = 0
    BY DEF Alive, TreesOf, ActiveExecutions
  <1>3. auditTrail \in Seq(SandboxEvents)
    BY DEF TransitionAudit, StateEvent, Audit, NoTree, SandboxEvents, SessionStates
  <1>4. /\ DOMAIN auditTrail = 1 .. 2 /\ auditTrail[1].at = 0 /\ auditTrail[2].event = "state"
        /\ auditTrail[1].kind = "ready" /\ auditTrail[2].kind = "ready" /\ auditTrail[1].event = "audit"
    BY DEF TransitionAudit, StateEvent, Audit
  <1>5. \A i \in DOMAIN auditTrail : \A tree : ~Starts(auditTrail, i, tree) /\ ~Ends(auditTrail, i, tree)
    BY <1>4 DEF Starts, Ends, EndKinds
  <1>6. TrailInv(auditTrail, next_timestamp, next_id.tree, Alive)
    BY <1>2, <1>4, <1>5 DEF TrailInv
  <1>7. IsFiniteSet(executions) /\ RevokedToolsIdle
    BY FS_EmptySet DEF RevokedToolsIdle
  <1> QED BY <1>1, <1>2, <1>3, <1>6, <1>7 DEF SandboxInv

(* terminate_session ends every tree.                                      *)
LEMMA TerminateKeeps ==
    ASSUME SandboxInv, NEW reason \in TerminationReasons, TerminateSession(reason)
    PROVE  SandboxInv'
  <1> DEFINE kind == TerminationAuditKind(reason)
             E == ActiveExecutions
             c == Cardinality(ActiveExecutions)
             stamp == next_timestamp
             nt == next_id.tree
             pre == <<TransitionAudit(stamp, "stopping"), StateEvent("stopping")>>
             mid == TerminationAudits(E, stamp + 1, kind)
             post == <<Terminated(TreesOf(E)), TransitionAudit(stamp + c + 1, "closed"), StateEvent("closed")>>
  <1>1. /\ stamp \in Nat /\ nt \in Nat /\ Alive \in SUBSET (0 .. nt - 1) /\ TreesOf(E) = Alive
        /\ auditTrail \in Seq(SandboxEvents) /\ TrailInv(auditTrail, stamp, nt, Alive)
        /\ Alive \subseteq Int
    BY AliveNumbered DEF Alive
  <1>2. /\ c \in Nat /\ mid \in Seq(SandboxEvents)
        /\ Addition(mid, stamp + 1, stamp + 1 + c, nt, nt, Alive, TreesOf(E))
    <2>1. E \in SUBSET ActiveExecutions /\ stamp + 1 \in Nat /\ kind \in EndKinds
      BY <1>1 DEF EndKinds, TerminationAuditKind
    <2> HIDE DEF E, stamp, kind
    <2> QED BY <2>1, TerminationAdds DEF E
  <1>3. pre \in Seq(SandboxEvents) /\ Remarks(pre, stamp, stamp + 1, {})
    <2>1. pre \in Seq(SandboxEvents)
      BY <1>1 DEF TransitionAudit, StateEvent, Audit, NoTree, SandboxEvents, SessionStates
    <2>2. /\ DOMAIN pre = 1 .. 2 /\ pre[1].at = stamp /\ pre[1].event = "audit" /\ pre[2].event = "state"
          /\ pre[1].kind = "stopping" /\ pre[2].kind = "stopping"
      BY DEF TransitionAudit, StateEvent, Audit
    <2> QED BY <1>1, <2>1, <2>2 DEF Remarks, EndKinds
  <1>4. post \in Seq(SandboxEvents) /\ Remarks(post, stamp + 1 + c, stamp + c + 2, Alive)
    <2>1. post \in Seq(SandboxEvents)
      BY <1>1, <1>2 DEF TransitionAudit, StateEvent, Audit, Terminated, NoTree, SandboxEvents, SessionStates
    <2>2. /\ DOMAIN post = 1 .. 3 /\ post[2].at = stamp + c + 1
          /\ post[1].event = "terminated" /\ post[2].event = "audit" /\ post[3].event = "state"
          /\ post[1].kind = "notice" /\ post[2].kind = "closed" /\ post[3].kind = "closed"
          /\ post[1].trees = TreesOf(E)
      BY DEF TransitionAudit, StateEvent, Audit, Terminated
    <2>3. TreesOf(E) \subseteq Alive /\ stamp + 1 + c = stamp + c + 1 /\ stamp + c + 1 < stamp + c + 2
      BY <1>1, <1>2
    <2> HIDE DEF E, c, stamp, post
    <2> QED BY <1>1, <1>2, <2>1, <2>2, <2>3 DEF Remarks, EndKinds
  <1> HIDE DEF E, c, stamp, nt, pre, mid, post, kind
  <1>5. auditTrail \o pre \in Seq(SandboxEvents) /\ TrailInv(auditTrail \o pre, stamp + 1, nt, Alive)
    BY <1>1, <1>3, RemarksKeepTrail
  <1>6. /\ (auditTrail \o pre) \o mid \in Seq(SandboxEvents)
        /\ TrailInv((auditTrail \o pre) \o mid, stamp + 1 + c, nt, {})
    <2>1. TrailInv((auditTrail \o pre) \o mid, stamp + 1 + c, nt, (Alive \ TreesOf(E)) \cup (nt .. nt - 1))
      <3>1. /\ stamp + 1 \in Nat /\ stamp + 1 + c \in Nat /\ stamp + 1 <= stamp + 1 + c /\ nt <= nt
            /\ TreesOf(E) \in SUBSET Alive
        BY <1>1, <1>2
      <3> QED BY <3>1, <1>1, <1>2, <1>5, AdditionKeepsTrail
    <2>2. (Alive \ TreesOf(E)) \cup (nt .. nt - 1) = {}
      BY <1>1
    <2> QED BY <1>2, <1>5, <2>1, <2>2, TrailGrows
  <1>7. /\ ((auditTrail \o pre) \o mid) \o post \in Seq(SandboxEvents)
        /\ TrailInv(((auditTrail \o pre) \o mid) \o post, stamp + c + 2, nt, {})
    <2>1. /\ stamp + c + 2 \in Nat /\ stamp + 1 + c \in Nat /\ stamp + 1 + c <= stamp + c + 2
          /\ {} \in SUBSET (0 .. nt - 1) /\ Alive \in SUBSET ((0 .. nt - 1) \ {})
      BY <1>1, <1>2
    <2> QED BY <2>1, <1>1, <1>4, <1>6, RemarksKeepTrail
  <1>8. auditTrail' = ((auditTrail \o pre) \o mid) \o post
    BY DEF TerminateSession, E, c, stamp, pre, mid, post, kind
  <1>9. /\ lifecycle' = "closed" /\ next_timestamp' = stamp + c + 2 /\ stamp + c + 2 <= MaxTimestamp
        /\ executions' = ApplyTermination(E)
        /\ injected' = injected /\ next_id' = next_id /\ revoked_tools' = revoked_tools
    BY <1>1, <1>2 DEF TerminateSession, TimestampsLeft, E, c, stamp
  <1>10. next_timestamp' \in 0 .. MaxTimestamp /\ Alive \ TreesOf(E) = {} /\ E \in SUBSET ActiveExecutions
         /\ E = ActiveExecutions /\ revoked_tools' \subseteq SandboxTools /\ lifecycle' \in SessionStates
    BY <1>1, <1>2, <1>9, SandboxAssumption DEF SandboxInv, SandboxTypeOK, E, SessionStates
  <1>11. \A x \in ActiveExecutions \ E : x.tool # HostCommand =>
              \A t \in revoked_tools' : ~Reaches(x.tool, t)
    BY <1>9, StillIdle
  <1> QED BY <1>7, <1>8, <1>9, <1>10, <1>11, TerminationKeeps DEF nt

(* revoke_tool ends the trees that depend on the tool, and they are all.   *)
LEMMA RevokeKeeps ==
    ASSUME SandboxInv, NEW tool \in SandboxTools, RevokeTool(tool)
    PROVE  SandboxInv'
  <1> DEFINE E == {x \in ActiveExecutions : DependsOn(x.tool, tool)}
             c == Cardinality(E)
             stamp == next_timestamp
             nt == next_id.tree
             left == Alive \ TreesOf(E)
             pre == <<Audit(stamp, "revoked", NoTree)>>
             mid == TerminationAudits(E, stamp + 1, "cancelled")
             post == IF E = {} THEN <<>> ELSE <<Terminated(TreesOf(E))>>
  <1>1. /\ stamp \in Nat /\ nt \in Nat /\ Alive \in SUBSET (0 .. nt - 1) /\ TreesOf(E) \in SUBSET Alive
        /\ auditTrail \in Seq(SandboxEvents) /\ TrailInv(auditTrail, stamp, nt, Alive)
        /\ TreesOf(E) \subseteq Int
    BY AliveNumbered
  <1>2. /\ c \in Nat /\ mid \in Seq(SandboxEvents)
        /\ Addition(mid, stamp + 1, stamp + 1 + c, nt, nt, Alive, TreesOf(E))
    <2>1. E \in SUBSET ActiveExecutions /\ stamp + 1 \in Nat /\ "cancelled" \in EndKinds
      BY <1>1 DEF EndKinds
    <2> HIDE DEF E, stamp
    <2> QED BY <2>1, TerminationAdds
  <1>3. pre \in Seq(SandboxEvents) /\ Remarks(pre, stamp, stamp + 1, {})
    <2>1. pre \in Seq(SandboxEvents)
      BY <1>1 DEF Audit, NoTree, SandboxEvents
    <2>2. DOMAIN pre = 1 .. 1 /\ pre[1].at = stamp /\ pre[1].event = "audit" /\ pre[1].kind = "revoked"
      BY DEF Audit
    <2> QED BY <1>1, <2>1, <2>2 DEF Remarks, EndKinds
  <1>4. post \in Seq(SandboxEvents) /\ Remarks(post, stamp + 1 + c, stamp + 1 + c, TreesOf(E))
    <2>1. CASE E = {}
      BY <2>1 DEF Remarks
    <2>2. CASE E # {}
      <3>1. post = <<Terminated(TreesOf(E))>>
        BY <2>2
      <3> HIDE DEF E, post
      <3>2. post \in Seq(SandboxEvents)
        BY <1>1, <3>1 DEF Terminated, NoTree, SandboxEvents
      <3>3. /\ DOMAIN post = 1 .. 1 /\ post[1].event = "terminated" /\ post[1].kind = "notice"
            /\ post[1].trees = TreesOf(E)
        BY <3>1 DEF Terminated
      <3> QED BY <3>2, <3>3 DEF Remarks, EndKinds
    <2> QED BY <2>1, <2>2
  <1>5. /\ lifecycle' = lifecycle /\ next_timestamp' = stamp + c + 1 /\ stamp + (c + 1) <= MaxTimestamp
        /\ executions' = ApplyTermination(E)
        /\ injected' = injected /\ next_id' = next_id /\ revoked_tools' = revoked_tools \cup {tool}
        /\ auditTrail' = ((auditTrail \o pre) \o mid) \o post
    <2>1. TerminationAuditKind("ToolRevoked") = "cancelled"
      BY DEF TerminationAuditKind
    <2> QED BY <2>1 DEF RevokeTool, TimestampsLeft
  <1>6. \A x \in ActiveExecutions \ E : x.tool # HostCommand =>
              \A t \in revoked_tools' : ~Reaches(x.tool, t)
    <2> SUFFICES ASSUME NEW x \in ActiveExecutions \ E, x.tool # HostCommand, Reaches(x.tool, tool)
                 PROVE  FALSE
      BY <1>5, StillIdle
    <2>1. x \in executions /\ x.tool \in Executables /\ x.tool \in SandboxTools
      BY DEF ActiveExecutions, SandboxInv, SandboxTypeOK, Executables
    <2>2. ToolClosureContains(x.tool, tool)
      BY <2>1, PathsInClosure
    <2> QED BY <2>2 DEF DependsOn
  <1>7. E \in SUBSET ActiveExecutions /\ left \in SUBSET (0 .. nt - 1) /\ lifecycle \in SessionStates
        /\ TreesOf(E) \in SUBSET ((0 .. nt - 1) \ left) /\ left = (Alive \ TreesOf(E)) \cup (nt .. nt - 1)
        /\ revoked_tools' \subseteq SandboxTools /\ next_timestamp' \in 0 .. MaxTimestamp
    <2>1. lifecycle \in SessionStates /\ revoked_tools' \subseteq SandboxTools
      BY <1>5 DEF SandboxInv, SandboxTypeOK
    <2>2. next_timestamp' \in 0 .. MaxTimestamp
      BY <1>1, <1>2, <1>5, SandboxAssumption
    <2>3. left \in SUBSET (0 .. nt - 1) /\ TreesOf(E) \in SUBSET ((0 .. nt - 1) \ left)
          /\ nt .. nt - 1 = {}
      <3> HIDE DEF E, nt
      <3>1. nt .. nt - 1 = {}
        BY <1>1
      <3>2. TreesOf(E) \subseteq Alive /\ Alive \subseteq 0 .. nt - 1
        BY <1>1
      <3> QED BY <3>1, <3>2
    <2> QED BY <2>1, <2>2, <2>3
  <1> HIDE DEF E, c, stamp, nt, pre, mid, post, left
  <1>8. stamp + 1 \in Nat /\ stamp + 1 + c \in Nat /\ stamp + c + 1 = stamp + 1 + c
        /\ stamp + 1 <= stamp + 1 + c /\ stamp + 1 + c <= stamp + 1 + c /\ nt <= nt
    BY <1>1, <1>2
  <1>9. auditTrail \o pre \in Seq(SandboxEvents) /\ TrailInv(auditTrail \o pre, stamp + 1, nt, Alive)
    BY <1>1, <1>3, RemarksKeepTrail
  <1>10. /\ (auditTrail \o pre) \o mid \in Seq(SandboxEvents)
         /\ TrailInv((auditTrail \o pre) \o mid, stamp + 1 + c, nt, left)
    <2>1. TrailInv((auditTrail \o pre) \o mid, stamp + 1 + c, nt, (Alive \ TreesOf(E)) \cup (nt .. nt - 1))
      BY <1>1, <1>2, <1>8, <1>9, AdditionKeepsTrail
    <2> QED BY <1>2, <1>7, <1>9, <2>1, TrailGrows
  <1>11. /\ ((auditTrail \o pre) \o mid) \o post \in Seq(SandboxEvents)
         /\ TrailInv(((auditTrail \o pre) \o mid) \o post, stamp + 1 + c, nt, left)
    <2> DEFINE tr == (auditTrail \o pre) \o mid
               at == stamp + 1 + c
    <2>1. /\ tr \in Seq(SandboxEvents) /\ TrailInv(tr, at, nt, left) /\ at \in Nat /\ at <= at
          /\ Remarks(post, at, at, TreesOf(E))
      BY <1>4, <1>8, <1>10
    <2> HIDE DEF tr, at
    <2>2. tr \o post \in Seq(SandboxEvents) /\ TrailInv(tr \o post, at, nt, left)
      BY <1>1, <1>4, <1>7, <2>1, RemarksKeepTrail
    <2> QED BY <2>2 DEF tr, at
  <1>12. /\ auditTrail' \in Seq(SandboxEvents)
         /\ TrailInv(auditTrail', next_timestamp', next_id.tree, Alive \ TreesOf(E))
         /\ lifecycle' \in SessionStates
    BY <1>5, <1>7, <1>8, <1>11 DEF nt, left
  <1> QED BY <1>5, <1>6, <1>7, <1>12, TerminationKeeps

(* process_write, process_cancel and pty_stop end one tree.                *)
LEMMA OneEnds ==
    ASSUME SandboxInv, NEW x \in ActiveExecutions, NEW kind \in EndKinds, NEW post \in Seq(SandboxEvents),
           Remarks(post, next_timestamp + 1, next_timestamp + 1, {x.tree}),
           executions' = ApplyTermination({x}), next_timestamp' = next_timestamp + 1,
           TimestampsLeft(1),
           auditTrail' = (auditTrail \o <<Audit(next_timestamp, kind, x.tree)>>) \o post,
           UNCHANGED <<injected, lifecycle, next_id, revoked_tools>>
    PROVE  SandboxInv'
  <1> DEFINE stamp == next_timestamp
             nt == next_id.tree
             left == Alive \ TreesOf({x})
             es == <<Audit(stamp, kind, x.tree)>>
  <1>1. /\ stamp \in Nat /\ nt \in Nat /\ Alive \in SUBSET (0 .. nt - 1) /\ {x} \in SUBSET ActiveExecutions
        /\ TreesOf({x}) \in SUBSET Alive /\ TreesOf({x}) = {x.tree}
        /\ auditTrail \in Seq(SandboxEvents) /\ TrailInv(auditTrail, stamp, nt, Alive)
    <2>1. {x} \in SUBSET ActiveExecutions /\ TreesOf({x}) = {x.tree}
      BY DEF TreesOf
    <2> QED BY <2>1, AliveNumbered
  <1>2. x.tree \in Nat /\ x.tree \in Alive /\ x.tree \in 0 .. nt - 1
    <2>1. x.tree \in Alive
      BY DEF Alive, TreesOf
    <2> HIDE DEF nt
    <2>2. Alive \subseteq 0 .. nt - 1
      BY <1>1
    <2>3. x.tree \in 0 .. nt - 1
      BY <2>1, <2>2
    <2> QED BY <1>1, <2>1, <2>3
  <1>3. es \in Seq(SandboxEvents)
    BY <1>1, <1>2 DEF Audit, SandboxEvents
  <1>4. /\ DOMAIN es = 1 .. 1 /\ es[1].at = stamp /\ es[1].event = "audit" /\ es[1].kind = kind
        /\ es[1].trees = {x.tree}
    BY DEF Audit
  <1>5. nt .. nt - 1 = {}
    BY <1>1
  <1>6. Addition(es, stamp, stamp + 1, nt, nt, Alive, {x.tree})
    <2>1. \A i \in DOMAIN es : i = 1
      BY <1>4
    <2>2. \A tree : ~Starts(es, 1, tree) /\ (Ends(es, 1, tree) => tree = x.tree)
      BY <1>4 DEF Starts, Ends, EndKinds
    <2>3. Ends(es, 1, x.tree)
      BY <1>4 DEF Ends
    <2> HIDE DEF es
    <2> QED BY <1>1, <1>4, <1>5, <2>1, <2>2, <2>3 DEF Addition
  <1> HIDE DEF es, nt, left
  <1>7. TrailInv(auditTrail \o es, stamp + 1, nt, (Alive \ {x.tree}) \cup (nt .. nt - 1))
    <2>1. stamp + 1 \in Nat /\ stamp <= stamp + 1 /\ nt <= nt /\ {x.tree} \in SUBSET Alive
      BY <1>1, <1>2
    <2> QED BY <1>1, <1>3, <1>6, <2>1, AdditionKeepsTrail
  <1>8. /\ auditTrail \o es \in Seq(SandboxEvents) /\ TrailInv(auditTrail \o es, stamp + 1, nt, left)
        /\ left \in SUBSET (0 .. nt - 1) /\ {x.tree} \in SUBSET ((0 .. nt - 1) \ left)
    <2>1. left = (Alive \ {x.tree}) \cup (nt .. nt - 1) /\ left = Alive \ {x.tree}
      BY <1>1, <1>5 DEF left
    <2>2. left \in SUBSET (0 .. nt - 1) /\ {x.tree} \in SUBSET ((0 .. nt - 1) \ left)
      BY <1>1, <1>2, <2>1
    <2> QED BY <1>1, <1>3, <1>7, <2>1, <2>2, TrailGrows
  <1>9. /\ (auditTrail \o es) \o post \in Seq(SandboxEvents)
        /\ TrailInv((auditTrail \o es) \o post, stamp + 1, nt, left)
    <2>1. stamp + 1 \in Nat /\ stamp + 1 <= stamp + 1
      BY <1>1
    <2> QED BY <1>1, <1>8, <2>1, RemarksKeepTrail
  <1>10. /\ auditTrail' \in Seq(SandboxEvents)
         /\ TrailInv(auditTrail', next_timestamp', next_id.tree, Alive \ TreesOf({x}))
    BY <1>9 DEF es, nt, left
  <1>11. /\ next_timestamp' \in 0 .. MaxTimestamp /\ revoked_tools' \subseteq SandboxTools
         /\ lifecycle' \in SessionStates
    BY <1>1, SandboxAssumption DEF TimestampsLeft, SandboxInv, SandboxTypeOK
  <1>12. \A y \in ActiveExecutions \ {x} : y.tool # HostCommand =>
              \A t \in revoked_tools' : ~Reaches(y.tool, t)
    BY StillIdle
  <1> QED BY <1>1, <1>10, <1>11, <1>12, TerminationKeeps

(* A launch starts one tree, with the next number.                         *)
LEMMA LaunchKeeps ==
    ASSUME SandboxInv, NEW surface \in Surfaces, NEW e \in Executables, NEW stdin \in BOOLEAN,
           LaunchExecution(surface, e, stdin)
    PROVE  SandboxInv'
  <1> DEFINE stamp == next_timestamp
             nt == next_id.tree
             count == IF lifecycle = "ready" THEN 4 ELSE 3
             new == Execution(surface, next_id[surface], nt, e, stdin)
             es == <<Audit(stamp, "launch", NoTree), Audit(stamp + 2, "started", nt)>>
             post == IF lifecycle = "ready" THEN <<TransitionAudit(stamp + 3, "running")>> ELSE <<>>
  <1>1. /\ stamp \in Nat /\ nt \in Nat /\ Alive \in SUBSET (0 .. nt - 1)
        /\ auditTrail \in Seq(SandboxEvents) /\ TrailInv(auditTrail, stamp, nt, Alive)
    BY AliveNumbered
  <1>2. /\ lifecycle' = "running" /\ next_timestamp' = stamp + count /\ stamp + count <= MaxTimestamp
        /\ next_id' = [next_id EXCEPT ![surface] = @ + 1, !.tree = @ + 1]
        /\ next_id[surface] < MaxNumericId /\ nt < MaxNumericId
        /\ executions' = executions \cup {new}
        /\ auditTrail' = (auditTrail \o es) \o post
        /\ injected' = injected /\ revoked_tools' = revoked_tools /\ NotRevoked(e)
    BY DEF LaunchExecution, TimestampsLeft, IdsLeft
  <1>3. next_id' \in [{"process", "pty", "tree"} -> 0 .. MaxNumericId] /\ next_id'.tree = nt + 1
        /\ next_id[surface] \in Nat
    <2>1. /\ next_id \in [{"process", "pty", "tree"} -> 0 .. MaxNumericId] /\ MaxNumericId \in Nat
          /\ surface \in {"process", "pty"}
      BY SandboxAssumption DEF SandboxInv, SandboxTypeOK, Surfaces
    <2>2. /\ next_id[surface] + 1 \in 0 .. MaxNumericId /\ next_id["tree"] + 1 \in 0 .. MaxNumericId
          /\ next_id[surface] \in Nat
      <3>1. next_id[surface] < MaxNumericId /\ next_id["tree"] < MaxNumericId
        BY <1>2
      <3>2. next_id[surface] \in Nat /\ next_id["tree"] \in Nat
        BY <2>1
      <3> QED BY <2>1, <3>1, <3>2
    <2>3. next_id' = [[next_id EXCEPT ![surface] = next_id[surface] + 1] EXCEPT !["tree"] = next_id["tree"] + 1]
      BY <1>2, <2>1
    <2> QED BY <2>1, <2>2, <2>3
  <1>4. /\ new \in [surface : Surfaces, id : Nat, tree : Nat, tool : Executables,
                    running : BOOLEAN, stdin_open : BOOLEAN]
        /\ new.tree = nt /\ new.running = TRUE /\ new.tool = e
    BY <1>1, <1>3 DEF Execution
  <1> HIDE DEF new
  <1>5. next_timestamp' \in 0 .. MaxTimestamp
    <2>1. count \in {3, 4} /\ MaxTimestamp \in Nat
      BY SandboxAssumption
    <2> HIDE DEF count, stamp
    <2>2. stamp + count \in Nat /\ stamp + count <= MaxTimestamp /\ next_timestamp' = stamp + count
      <3>1. stamp + count <= MaxTimestamp /\ next_timestamp' = stamp + count
        BY <1>2
      <3> QED BY <1>1, <2>1, <3>1
    <2> QED BY <2>1, <2>2
  <1>6. SandboxTypeOK'
    <2>1. \A x \in executions' : x \in [surface : Surfaces, id : Nat, tree : Nat, tool : Executables,
                                        running : BOOLEAN, stdin_open : BOOLEAN]
      BY <1>2, <1>4 DEF SandboxInv, SandboxTypeOK
    <2> QED BY <1>2, <1>3, <1>5, <2>1 DEF SandboxInv, SandboxTypeOK, SessionStates
  <1>7. \A x \in executions : x.tree \in Nat /\ x.tree < nt
    BY SandboxTypes DEF SandboxInv
  <1>8. /\ IsFiniteSet(executions')
        /\ \A x \in executions' : x.tree < next_id'.tree
        /\ \A x, y \in executions' : x.tree = y.tree => x = y
    <2>1. IsFiniteSet(executions')
      BY <1>2, FS_AddElement DEF SandboxInv
    <2> HIDE DEF nt, stamp
    <2>2. ASSUME NEW x \in executions' PROVE x.tree < next_id'.tree
      <3>1. CASE x = new
        BY <3>1, <1>1, <1>3, <1>4
      <3>2. CASE x \in executions
        BY <3>2, <1>1, <1>3, <1>7
      <3> QED BY <3>1, <3>2, <1>2
    <2>3. ASSUME NEW x \in executions', NEW y \in executions', x.tree = y.tree PROVE x = y
      <3>1. \A u \in executions : u.tree # nt
        BY <1>1, <1>7
      <3>2. \A u, v \in executions : u.tree = v.tree => u = v
        BY DEF SandboxInv
      <3> QED BY <2>3, <3>1, <3>2, <1>2, <1>4
    <2> QED BY <2>1, <2>2, <2>3
  <1>9. Alive' = Alive \cup {nt}
    BY <1>2, <1>4 DEF Alive, TreesOf, ActiveExecutions
  <1>10. RevokedToolsIdle'
    <2>1. ASSUME e # HostCommand, NEW t \in revoked_tools, Reaches(e, t) PROVE FALSE
      <3>1. e \in SandboxTools /\ t \in SandboxTools
        BY <2>1 DEF Executables, SandboxInv, SandboxTypeOK
      <3>2. ToolClosureContains(e, t)
        BY <3>1, <2>1, PathsInClosure
      <3> QED BY <3>2, <2>1, <1>2 DEF NotRevoked, DependsOn
    <2>2. RevokedToolsIdle
      BY DEF SandboxInv
    <2> QED BY <2>1, <2>2, <1>2, <1>4 DEF RevokedToolsIdle, Reaches, HelperPaths
  <1>11. es \in Seq(SandboxEvents)
    BY <1>1 DEF Audit, NoTree, SandboxEvents
  <1>12. /\ DOMAIN es = 1 .. 2 /\ es[1].at = stamp /\ es[2].at = stamp + 2
         /\ es[1].event = "audit" /\ es[2].event = "audit" /\ es[1].kind = "launch" /\ es[2].kind = "started"
         /\ es[2].trees = {nt}
    BY DEF Audit
  <1>13. post \in Seq(SandboxEvents) /\ Remarks(post, stamp + 3, stamp + count, {})
    <2>1. CASE lifecycle = "ready"
      <3>1. post = <<TransitionAudit(stamp + 3, "running")>> /\ count = 4
        BY <2>1
      <3> HIDE DEF post, count
      <3>2. post \in Seq(SandboxEvents)
        BY <1>1, <3>1 DEF TransitionAudit, Audit, NoTree, SandboxEvents, SessionStates
      <3>3. DOMAIN post = 1 .. 1 /\ post[1].at = stamp + 3 /\ post[1].event = "audit" /\ post[1].kind = "running"
        BY <3>1 DEF TransitionAudit, Audit
      <3> QED BY <1>1, <3>1, <3>2, <3>3 DEF Remarks, EndKinds
    <2>2. CASE lifecycle # "ready"
      BY <2>2 DEF Remarks
    <2> QED BY <2>1, <2>2
  <1>14. count \in Nat /\ stamp + 3 <= stamp + count /\ stamp + count \in Nat /\ stamp + 3 \in Nat /\ nt <= nt + 1
         /\ stamp <= stamp + 3 /\ nt + 1 \in Nat
    BY <1>1
  <1> HIDE DEF es, post, count
  <1>15. Addition(es, stamp, stamp + 3, nt, nt + 1, Alive, {})
    <2>1. \A i \in DOMAIN es : i = 1 \/ i = 2
      BY <1>12
    <2>2. \A tree : ~Starts(es, 1, tree) /\ ~Ends(es, 1, tree) /\ ~Ends(es, 2, tree)
                    /\ (Starts(es, 2, tree) => tree = nt)
      BY <1>12 DEF Starts, Ends, EndKinds
    <2>3. Starts(es, 2, nt)
      BY <1>12 DEF Starts
    <2>4. \A tree : tree \in nt .. (nt + 1) - 1 <=> tree = nt
      BY <1>1
    <2>5. /\ \A i, j \in DOMAIN es : i < j => es[i].at < es[j].at
          /\ \A i \in DOMAIN es : stamp <= es[i].at /\ es[i].at < stamp + 3
          /\ \A i \in DOMAIN es : es[i].event = "audit"
      BY <1>1, <1>12, <2>1
    <2>6. 2 \in DOMAIN es
      BY <1>12
    <2> HIDE DEF stamp, nt
    <2> QED BY <2>1, <2>2, <2>3, <2>4, <2>5, <2>6 DEF Addition
  <1> HIDE DEF stamp, nt
  <1>16. TrailInv(auditTrail \o es, stamp + 3, nt + 1, (Alive \ {}) \cup (nt .. (nt + 1) - 1))
    <2>1. {} \in SUBSET Alive
      OBVIOUS
    <2> QED BY <2>1, <1>1, <1>11, <1>14, <1>15, AdditionKeepsTrail
  <1>17. /\ auditTrail \o es \in Seq(SandboxEvents) /\ TrailInv(auditTrail \o es, stamp + 3, nt + 1, Alive \cup {nt})
         /\ Alive \cup {nt} \in SUBSET (0 .. (nt + 1) - 1)
    <2>1. (Alive \ {}) \cup (nt .. (nt + 1) - 1) = Alive \cup {nt}
      <3>1. nt .. (nt + 1) - 1 = {nt}
        BY <1>1
      <3> QED BY <3>1
    <2>2. Alive \cup {nt} \in SUBSET (0 .. (nt + 1) - 1)
      <3>1. Alive \subseteq 0 .. nt - 1
        BY <1>1
      <3>2. \A a \in 0 .. nt - 1 : a \in 0 .. (nt + 1) - 1
        BY <1>1
      <3>3. nt \in 0 .. (nt + 1) - 1
        BY <1>1
      <3> QED BY <3>1, <3>2, <3>3
    <2> QED BY <1>1, <1>11, <1>16, <2>1, <2>2, TrailGrows
  <1>18. /\ (auditTrail \o es) \o post \in Seq(SandboxEvents)
         /\ TrailInv((auditTrail \o es) \o post, stamp + count, nt + 1, Alive \cup {nt})
    <2> DEFINE tr == auditTrail \o es
    <2>1. tr \in Seq(SandboxEvents) /\ TrailInv(tr, stamp + 3, nt + 1, Alive \cup {nt})
      BY <1>17
    <2>2. {} \in SUBSET ((0 .. (nt + 1) - 1) \ (Alive \cup {nt}))
      OBVIOUS
    <2> HIDE DEF tr
    <2>3. tr \o post \in Seq(SandboxEvents) /\ TrailInv(tr \o post, stamp + count, nt + 1, Alive \cup {nt})
      BY <1>13, <1>14, <1>17, <2>1, <2>2, RemarksKeepTrail
    <2> QED BY <2>3 DEF tr
  <1> QED BY <1>2, <1>3, <1>6, <1>8, <1>9, <1>10, <1>18 DEF SandboxInv

(* A released execution had ended: nothing else changes.                   *)
LEMMA ReleaseKeeps ==
    ASSUME SandboxInv, NEW x \in executions, ReleaseExecution(x)
    PROVE  SandboxInv'
  <1>1. /\ executions' = executions \ {x} /\ ~x.running
        /\ UNCHANGED <<injected, lifecycle, next_timestamp, next_id, revoked_tools, auditTrail>>
    BY DEF ReleaseExecution
  <1>2. Alive' = Alive
    BY <1>1 DEF Alive, TreesOf, ActiveExecutions
  <1>3. IsFiniteSet(executions')
    BY <1>1, FS_RemoveElement DEF SandboxInv
  <1>4. SandboxTypeOK'
    BY <1>1 DEF SandboxInv, SandboxTypeOK
  <1>5. RevokedToolsIdle'
    BY <1>1 DEF SandboxInv, RevokedToolsIdle, Reaches, HelperPaths
  <1> QED BY <1>1, <1>2, <1>3, <1>4, <1>5 DEF SandboxInv

(* Every step keeps the invariant.                                         *)
LEMMA SandboxStep == SandboxInv /\ [SandboxNext]_sandboxVars => SandboxInv'
  <1> SUFFICES ASSUME SandboxInv, [SandboxNext]_sandboxVars PROVE SandboxInv'
    OBVIOUS
  <1>1. ASSUME NEW surface \in Surfaces, NEW e \in Executables, NEW stdin \in BOOLEAN,
               LaunchExecution(surface, e, stdin)
        PROVE  SandboxInv'
    BY <1>1, LaunchKeeps
  <1>2. ASSUME NEW x \in executions, ProcessWriteClose(x) PROVE SandboxInv'
    <2>1. x \in ActiveExecutions /\ "exited" \in EndKinds
      BY <1>2 DEF ActiveExecutions, ProcessWriteClose, ProcessExits, EndKinds
    <2>2. <<>> \in Seq(SandboxEvents) /\ Remarks(<<>>, next_timestamp + 1, next_timestamp + 1, {x.tree})
      BY DEF Remarks
    <2>3. Audit(next_timestamp, "exited", x.tree) \in SandboxEvents
      BY SandboxTypes DEF SandboxInv, Audit, SandboxEvents, EndKinds
    <2>4. Append(auditTrail, Audit(next_timestamp, "exited", x.tree)) =
            (auditTrail \o <<Audit(next_timestamp, "exited", x.tree)>>) \o <<>>
      BY <2>3 DEF SandboxInv
    <2> QED BY <1>2, <2>1, <2>2, <2>4, OneEnds DEF ProcessWriteClose
  <1>3. ASSUME NEW x \in executions, CancelExecution(x) PROVE SandboxInv'
    <2> DEFINE post == <<Terminated({x.tree})>>
               end == Audit(next_timestamp, "cancelled", x.tree)
    <2>1. x \in ActiveExecutions /\ "cancelled" \in EndKinds
      BY <1>3 DEF ActiveExecutions, CancelExecution, EndKinds
    <2>2. x.tree \in Nat
      BY SandboxTypes DEF SandboxInv
    <2>3. post \in Seq(SandboxEvents) /\ Terminated({x.tree}) \in SandboxEvents
      BY <2>2 DEF Terminated, NoTree, SandboxEvents
    <2>4. Remarks(post, next_timestamp + 1, next_timestamp + 1, {x.tree})
      BY DEF Remarks, Terminated, EndKinds
    <2>5. end \in SandboxEvents
      BY SandboxTypes DEF SandboxInv, Audit, SandboxEvents, EndKinds
    <2>6. auditTrail \o <<end, Terminated({x.tree})>> = (auditTrail \o <<end>>) \o post
      <3> HIDE DEF end
      <3> QED BY <2>3, <2>5 DEF SandboxInv
    <2>7. auditTrail' = (auditTrail \o <<end>>) \o post
      BY <1>3, <2>6 DEF CancelExecution
    <2> QED BY <1>3, <2>1, <2>3, <2>4, <2>7, OneEnds DEF CancelExecution
  <1>4. ASSUME NEW x \in executions, ReleaseExecution(x) PROVE SandboxInv'
    BY <1>4, ReleaseKeeps
  <1>5. CASE CloseSandbox \/ CancelSession \/ \E reason \in TerminationReasons : Terminate(reason)
    BY <1>5, TerminateKeeps DEF CloseSandbox, CancelSession, Terminate, TerminationReasons
  <1>6. ASSUME NEW t \in SandboxTools, RevokeTool(t) PROVE SandboxInv'
    BY <1>6, RevokeKeeps
  <1>7. CASE UNCHANGED sandboxVars
    <2>1. UNCHANGED <<injected, lifecycle, next_timestamp, next_id, executions, revoked_tools, auditTrail>>
      BY <1>7 DEF sandboxVars
    <2>2. Alive' = Alive /\ SandboxTypeOK' /\ RevokedToolsIdle'
      BY <2>1 DEF Alive, TreesOf, ActiveExecutions, SandboxInv, SandboxTypeOK, RevokedToolsIdle, Reaches, HelperPaths
    <2> QED BY <2>1, <2>2 DEF SandboxInv
  <1> QED BY <1>1, <1>2, <1>3, <1>4, <1>5, <1>6, <1>7 DEF SandboxNext

(* ExecutionsControlled (of crates/ricochet_sandbox/src/mock.rs) is        *)
(* invariant for every catalog of tools, every injected failure and every  *)
(* limit of the counters: revoked tools are idle along every chain of      *)
(* helpers, and the audit trail has one start and one end of every tree.   *)
THEOREM SandboxIsControlled == SandboxSpec => []ExecutionsControlled
  <1>1. SandboxInit => SandboxInv
    BY SandboxStarts
  <1>2. SandboxInv /\ [SandboxNext]_sandboxVars => SandboxInv'
    BY SandboxStep
  <1>3. SandboxInv => ExecutionsControlled
    BY TrailPromises DEF SandboxInv, ExecutionsControlled
  <1> QED BY <1>1, <1>2, <1>3, PTL DEF SandboxSpec

=============================================================================
