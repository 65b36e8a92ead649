------------------------- MODULE SecretSessionProofs -------------------------
(***************************************************************************)
(* Theorems about SecretSession for any number of sessions, slots, names,  *)
(* values and threads.                                                     *)
(***************************************************************************)
EXTENDS SecretSession, FiniteSetTheorems, TLAPS

(* A thread inside an operation holds the mutex of its session.            *)
LockInv ==
    /\ \A t \in Threads : secretPc[t] # "idle" => call[t] \in Calls
    /\ \A t \in Threads : secretPc[t] = "inside" => lock[call[t].session] = t

(* Once close returned the flag is up, nobody is inside, no slot is left.  *)
ClosedInv ==
    \A s \in Sessions : cleared[s] =>
        /\ closed[s]
        /\ lock[s] = Unset
        /\ slots[s] = [n \in Names |-> Unset]

(* In a session that was not cleared the slot of a reference is still      *)
(* there, has not an earlier generation, and has the reference's value if  *)
(* it has its generation.                                                  *)
RefInv ==
    \A r \in refs : ~cleared[r.session] =>
        LET slot == slots[r.session][r.name]
        IN  /\ slot # Unset
            /\ r.generation <= slot.generation
            /\ r.generation = slot.generation => r.value = slot.value

(* Requests carry references that were handed out, and a thread only gets  *)
(* past the first check with a reference of its session and domain.        *)
UseInv ==
    /\ \A t \in Threads : prepared[t] # Unset => prepared[t].ref \in refs
    /\ \A t \in Threads :
          secretPc[t] # "idle" /\ call[t].op \in {"validate", "resolve"} =>
              call[t].ref \in refs /\ Authorized(call[t])

CapacityInv ==
    \A s \in Sessions : IsFiniteSet(Occupied(s)) /\ Cardinality(Occupied(s)) <= MaxSlots

Inv == SecretTypeOK /\ LockInv /\ ClosedInv /\ RefInv /\ UseInv

-----------------------------------------------------------------------------
(* A slot is not Unset, nor is a request or a credential.                   *)
LEMMA SlotNotUnset == \A x \in Slots : x # Unset
  BY SessionAssumption DEF Slots

(* The fields of the three kinds of calls.                                 *)
LEMMA CallFields ==
    ASSUME NEW c \in Calls
    PROVE  /\ c.session \in Sessions
           /\ c.op \in {"bind", "reference", "validate", "resolve"}
           /\ c.op \in {"bind", "reference"} => c.name \in Names
           /\ c.op = "bind" => c.value \in Values
           /\ c.op \in {"validate", "resolve"} => c.domain \in Domains /\ c.ref \in Refs
  BY DEF Calls

(* The initial state satisfies the invariant.                              *)
LEMMA InitInv == SecretInit => Inv
  BY SessionAssumption DEF SecretInit, Inv, SecretTypeOK, LockInv, ClosedInv, RefInv, UseInv

(* Starting an operation: only the thread itself changes.                  *)
LEMMA BeginInv ==
    ASSUME Inv, NEW t \in Threads, NEW c \in Calls, Begin(t, c),
           prepared' = prepared \/ prepared' = [prepared EXCEPT ![t] = Unset],
           c.op \in {"validate", "resolve"} => c.ref \in refs /\ Authorized(c)
    PROVE  Inv'
  <1>1. SecretTypeOK'
    BY DEF Inv, SecretTypeOK, Begin
  <1>2. LockInv'
    BY DEF Inv, SecretTypeOK, LockInv, Begin
  <1>3. ClosedInv' /\ RefInv'
    BY DEF Inv, ClosedInv, RefInv, Begin
  <1>4. UseInv'
    BY DEF Inv, SecretTypeOK, UseInv, Begin, Authorized
  <1> QED BY <1>1, <1>2, <1>3, <1>4 DEF Inv

(* Taking the mutex, or finding the session closed.                        *)
LEMMA EnterInv ==
    ASSUME Inv, NEW t \in Threads, Enter(t)
    PROVE  Inv'
  <1>0. call[t] \in Calls /\ call[t].session \in Sessions
    BY CallFields DEF Inv, LockInv, Enter
  <1>1. SecretTypeOK' /\ LockInv'
    <2>1. CASE OpenInside(call[t].session)
      <3>1. /\ secretPc[t] = "enter" /\ lock[call[t].session] = Unset
            /\ lock' = [lock EXCEPT ![call[t].session] = t]
            /\ secretPc' = [secretPc EXCEPT ![t] = "inside"]
            /\ UNCHANGED <<closed, cleared, slots, call, refs, prepared, resolved>>
        BY <2>1 DEF Enter
      <3>2. SecretTypeOK'
        BY <1>0, <3>1 DEF Inv, SecretTypeOK
      <3>3. LockInv'
        BY <1>0, <3>1, SessionAssumption DEF Inv, SecretTypeOK, LockInv
      <3> QED BY <3>2, <3>3
    <2>2. CASE ~OpenInside(call[t].session)
      <3>1. /\ secretPc' = [secretPc EXCEPT ![t] = "idle"]
            /\ call' = [call EXCEPT ![t] = Unset]
            /\ UNCHANGED <<closed, cleared, slots, lock, refs, prepared, resolved>>
        BY <2>2 DEF Enter
      <3> QED BY <3>1 DEF Inv, SecretTypeOK, LockInv
    <2> QED BY <2>1, <2>2
  <1>3. ClosedInv'
    BY <1>0 DEF Inv, SecretTypeOK, ClosedInv, Enter, OpenInside
  <1>4. RefInv'
    BY DEF Inv, RefInv, Enter
  <1>5. UseInv'
    BY DEF Inv, SecretTypeOK, UseInv, Enter, Authorized
  <1> QED BY <1>1, <1>3, <1>4, <1>5 DEF Inv

(* A thread inside its operation: its call is well formed and its session  *)
(* was not cleared.                                                        *)
LEMMA InsideFacts ==
    ASSUME Inv, NEW t \in Threads, secretPc[t] = "inside"
    PROVE  /\ call[t] \in Calls
           /\ call[t].session \in Sessions
           /\ lock[call[t].session] = t
           /\ ~cleared[call[t].session]
  <1>1. call[t] \in Calls /\ call[t].session \in Sessions
    BY CallFields DEF Inv, LockInv
  <1>2. lock[call[t].session] = t
    BY DEF Inv, LockInv
  <1>3. t # Unset
    BY SessionAssumption
  <1> QED BY <1>1, <1>2, <1>3 DEF Inv, ClosedInv

(* Leaving keeps the mutexes and calls of the other threads.               *)
LEMMA LeaveInv ==
    ASSUME Inv, NEW t \in Threads, secretPc[t] = "inside", Leave(t)
    PROVE  /\ LockInv'
           /\ secretPc' \in [Threads -> {"idle", "enter", "inside"}]
           /\ lock' \in [Sessions -> Threads \cup {Unset}]
           /\ call' \in [Threads -> Calls \cup {Unset}]
           /\ closed' = closed
           /\ cleared' = cleared
           /\ \A s \in Sessions : cleared[s] => lock'[s] = Unset
           /\ \A u \in Threads : secretPc'[u] # "idle" => secretPc'[u] = secretPc[u] /\ call'[u] = call[u]
  BY InsideFacts, SessionAssumption DEF Inv, SecretTypeOK, LockInv, ClosedInv, Leave

(* Storing a secret keeps the invariant: a new slot has generation 1 and   *)
(* no reference, a bound one a generation no reference has.                *)
LEMMA StoreInv ==
    ASSUME Inv, NEW t \in Threads, secretPc[t] = "inside", Leave(t),
           NEW s \in Sessions, s = call[t].session,
           NEW n \in Names, NEW slot \in Slots,
           Store(s, n, slot),
           slots[s][n] # Unset => slot.generation > slots[s][n].generation,
           UNCHANGED <<prepared, resolved>>
    PROVE  Inv'
  <1>1. ~cleared[s]
    BY InsideFacts
  <1>2. slot.generation \in 1 .. MaxGeneration /\ slot.value \in Values /\ slot # Unset
    BY SlotNotUnset DEF Slots
  <1>3. RefTo(s, n, slot) \in Refs
    BY <1>2 DEF RefTo, Refs
  <1>4. SecretTypeOK'
    BY <1>3, LeaveInv DEF Inv, SecretTypeOK, Store
  <1>5. ClosedInv'
    BY <1>1, LeaveInv DEF Inv, SecretTypeOK, ClosedInv, Store
  <1>6. RefInv'
    <2> SUFFICES ASSUME NEW r \in refs', ~cleared[r.session]
                 PROVE  /\ slots'[r.session][r.name] # Unset
                        /\ r.generation <= slots'[r.session][r.name].generation
                        /\ r.generation = slots'[r.session][r.name].generation
                              => r.value = slots'[r.session][r.name].value
      BY LeaveInv DEF RefInv
    <2>1. slots'[s][n] = slot
      BY DEF Inv, SecretTypeOK, Store
    <2>2. CASE r = RefTo(s, n, slot)
      BY <1>2, <2>1, <2>2 DEF RefTo
    <2>3. CASE r # RefTo(s, n, slot)
      <3>1. r \in refs /\ r \in Refs
        BY <2>3 DEF Store, Inv, SecretTypeOK
      <3>2. /\ slots[r.session][r.name] # Unset
            /\ r.generation <= slots[r.session][r.name].generation
            /\ r.generation = slots[r.session][r.name].generation
                  => r.value = slots[r.session][r.name].value
        BY <3>1 DEF Inv, RefInv
      <3>3. CASE r.session = s /\ r.name = n
        <4>1. slots[s][n] \in Slots
          BY <3>2, <3>3 DEF Inv, SecretTypeOK
        <4> QED BY <1>2, <2>1, <3>1, <3>2, <3>3, <4>1 DEF Slots, Refs
      <3>4. CASE ~(r.session = s /\ r.name = n)
        <4>1. slots'[r.session][r.name] = slots[r.session][r.name]
          BY <3>1, <3>4 DEF Inv, SecretTypeOK, Store, Refs
        <4> QED BY <3>2, <4>1
      <3> QED BY <3>3, <3>4
    <2> QED BY <2>2, <2>3
  <1>7. UseInv'
    BY LeaveInv DEF Inv, SecretTypeOK, UseInv, Store, Authorized
  <1> QED BY <1>4, <1>5, <1>6, <1>7, LeaveInv DEF Inv

(* An operation that only reads the slots, and may add to the references,  *)
(* the prepared requests or the answers.                                   *)
LEMMA ReadInv ==
    ASSUME Inv, NEW t \in Threads, secretPc[t] = "inside", Leave(t),
           UNCHANGED slots,
           refs \subseteq refs', refs' \subseteq Refs,
           RefInv', prepared' \in [Threads -> Uses \cup {Unset}],
           \A u \in Threads : prepared'[u] # Unset => prepared'[u].ref \in refs',
           resolved' \in [Threads -> Credentials \cup {Unset}]
    PROVE  Inv'
  <1>1. SecretTypeOK'
    BY LeaveInv DEF Inv, SecretTypeOK
  <1>2. ClosedInv'
    BY LeaveInv DEF Inv, ClosedInv
  <1>3. UseInv'
    BY LeaveInv DEF Inv, UseInv, Authorized
  <1> QED BY <1>1, <1>2, <1>3, LeaveInv DEF Inv

(* bind takes the slot's next generation and keeps the invariant.          *)
LEMMA BindInv ==
    ASSUME Inv, NEW t \in Threads, Bind(t)
    PROVE  Inv'
  <1> DEFINE s == call[t].session
             n == call[t].name
             first == [generation |-> 1, value |-> call[t].value]
             again == [generation |-> NextGeneration(slots[s][n]), value |-> call[t].value]
  <1>1. /\ secretPc[t] = "inside" /\ Leave(t) /\ UNCHANGED <<prepared, resolved>>
        /\ s \in Sessions /\ n \in Names /\ call[t].value \in Values
    BY InsideFacts, CallFields DEF Bind, Inside
  <1>2. CASE slots[s][n] = Unset /\ Store(s, n, first)
    <2>1. first \in Slots
      BY <1>1, SessionAssumption DEF Slots
    <2> QED BY <1>1, <1>2, <2>1, StoreInv
  <1>3. CASE slots[s][n] # Unset /\ GenerationLeft(slots[s][n]) /\ Store(s, n, again)
    <2>1. slots[s][n] \in Slots
      BY <1>1, <1>3 DEF Inv, SecretTypeOK
    <2>2. again \in Slots /\ again.generation > slots[s][n].generation
      BY <1>1, <1>3, <2>1, SessionAssumption DEF Slots, GenerationLeft, NextGeneration
    <2> QED BY <1>1, <1>3, <2>2, StoreInv
  <1> QED BY <1>2, <1>3 DEF Bind

(* bind that finds no slot or generation left changes no slot.             *)
LEMMA BindRefusedInv ==
    ASSUME Inv, NEW t \in Threads, BindRefused(t)
    PROVE  Inv'
  <1>1. secretPc[t] = "inside" /\ Leave(t) /\ UNCHANGED <<slots, refs, prepared, resolved>>
    BY DEF BindRefused, Inside
  <1>2. RefInv'
    BY <1>1, LeaveInv DEF Inv, RefInv
  <1> QED BY <1>1, <1>2, ReadInv DEF Inv, SecretTypeOK, UseInv

(* reference adds what the slot holds now to the references.               *)
LEMMA ReferenceInv ==
    ASSUME Inv, NEW t \in Threads, Reference(t)
    PROVE  Inv'
  <1> DEFINE s == call[t].session
             n == call[t].name
  <1>1. /\ secretPc[t] = "inside" /\ Leave(t) /\ UNCHANGED <<slots, prepared, resolved>>
        /\ s \in Sessions /\ n \in Names
    BY InsideFacts, CallFields DEF Reference, Inside
  <1>2. CASE refs' = refs
    <2>1. RefInv'
      BY <1>1, <1>2, LeaveInv DEF Inv, RefInv
    <2> QED BY <1>1, <1>2, <2>1, ReadInv DEF Inv, SecretTypeOK, UseInv
  <1>3. CASE slots[s][n] # Unset /\ refs' = refs \cup {RefTo(s, n, slots[s][n])}
    <2>1. slots[s][n] \in Slots
      BY <1>1, <1>3 DEF Inv, SecretTypeOK
    <2>2. RefTo(s, n, slots[s][n]) \in Refs
      BY <1>1, <2>1 DEF RefTo, Refs, Slots
    <2>3. slots[s][n].generation \in Int
      BY <2>1, SessionAssumption DEF Slots
    <2>4. RefInv'
      BY <1>1, <1>3, <2>3, LeaveInv DEF Inv, RefInv, RefTo
    <2>5. refs' \subseteq Refs
      BY <1>3, <2>2 DEF Inv, SecretTypeOK
    <2> QED BY <1>1, <1>3, <2>4, <2>5, ReadInv DEF Inv, SecretTypeOK, UseInv
  <1> QED BY <1>2, <1>3 DEF Reference

(* validate_reference prepares a request with an existing reference.       *)
LEMMA ValidateInv ==
    ASSUME Inv, NEW t \in Threads, Validate(t)
    PROVE  Inv'
  <1>1. /\ secretPc[t] = "inside" /\ call[t].op = "validate"
        /\ Leave(t) /\ UNCHANGED <<slots, refs, resolved>>
    BY DEF Validate, Inside
  <1>2. RefInv'
    BY <1>1, LeaveInv DEF Inv, RefInv
  <1>3. /\ call[t].session \in Sessions /\ call[t].domain \in Domains
        /\ call[t].ref \in Refs /\ call[t].ref \in refs
    BY <1>1, InsideFacts, CallFields DEF Inv, UseInv
  <1>4. /\ prepared' \in [Threads -> Uses \cup {Unset}]
        /\ \A u \in Threads : prepared'[u] # Unset => prepared'[u].ref \in refs
    BY <1>3 DEF Validate, Inv, SecretTypeOK, UseInv, Uses
  <1> QED BY <1>1, <1>2, <1>4, ReadInv DEF Inv, SecretTypeOK

(* resolve_reference answers with the value in the slot, or not at all.    *)
LEMMA ResolveInv ==
    ASSUME Inv, NEW t \in Threads, Resolve(t)
    PROVE  Inv'
  <1>1. /\ secretPc[t] = "inside" /\ call[t].op = "resolve"
        /\ Leave(t) /\ UNCHANGED <<slots, refs, prepared>>
    BY DEF Resolve, Inside
  <1>2. RefInv'
    BY <1>1, LeaveInv DEF Inv, RefInv
  <1>3. /\ call[t].session \in Sessions /\ call[t].domain \in Domains
        /\ call[t].ref \in Refs
    BY <1>1, InsideFacts, CallFields
  <1>4. Current(call[t]) => SlotOf(call[t]).value \in Values
    BY <1>3 DEF Current, SlotOf, Inv, SecretTypeOK, Slots, Refs
  <1>5. resolved' \in [Threads -> Credentials \cup {Unset}]
    BY <1>3, <1>4 DEF Resolve, Inv, SecretTypeOK, Credentials
  <1> QED BY <1>1, <1>2, <1>5, ReadInv DEF Inv, SecretTypeOK, UseInv

(* close clears the slots of its session.                                  *)
LEMMA CloseInv ==
    ASSUME Inv, NEW s \in Sessions, Close(s) \/ Clear(s)
    PROVE  Inv'
  <1>1. CASE Close(s)
    BY <1>1 DEF Inv, SecretTypeOK, LockInv, ClosedInv, RefInv, UseInv, Authorized, Close
  <1>2. CASE Clear(s)
    <2>1. SecretTypeOK' /\ LockInv' /\ ClosedInv'
      BY <1>2 DEF Inv, SecretTypeOK, LockInv, ClosedInv, Clear
    <2>2. RefInv'
      BY <1>2 DEF Inv, SecretTypeOK, RefInv, Clear, Refs
    <2>3. UseInv'
      BY <1>2 DEF Inv, UseInv, Authorized, Clear
    <2> QED BY <2>1, <2>2, <2>3 DEF Inv
  <1> QED BY <1>1, <1>2

(* Every step preserves the invariant.                                     *)
LEMMA NextInv == Inv /\ [SecretNext]_secretVars => Inv'
  <1> SUFFICES ASSUME Inv, [SecretNext]_secretVars PROVE Inv'
    OBVIOUS
  <1>1. CASE UNCHANGED secretVars
    BY <1>1 DEF secretVars, Inv, SecretTypeOK, LockInv, ClosedInv, RefInv, UseInv, Authorized
  <1>2. ASSUME NEW t \in Threads, ThreadStep(t) PROVE Inv'
    <2>1. ASSUME NEW s \in Sessions, NEW n \in Names, BeginReference(t, s, n) PROVE Inv'
      BY <2>1, BeginInv DEF BeginReference, Calls
    <2>2. ASSUME NEW s \in Sessions, NEW n \in Names, NEW x \in Values, BeginBind(t, s, n, x)
          PROVE Inv'
      BY <2>2, BeginInv DEF BeginBind, Calls
    <2>3. ASSUME NEW s \in Sessions, NEW d \in Domains, NEW r \in refs,
                 BeginValidate(t, [session |-> s, domain |-> d, ref |-> r])
          PROVE Inv'
      <3> DEFINE c == [op |-> "validate", session |-> s, domain |-> d, ref |-> r]
      <3>1. r \in Refs
        BY DEF Inv, SecretTypeOK
      <3>2. c \in Calls /\ Authorized(c) /\ c.ref \in refs
        BY <2>3, <3>1 DEF BeginValidate, Calls, Authorized
      <3>3. Begin(t, c) /\ prepared' = prepared
        BY <2>3 DEF BeginValidate
      <3> QED BY <3>2, <3>3, BeginInv
    <2>4. CASE BeginResolve(t)
      <3> DEFINE c == [op |-> "resolve", session |-> prepared[t].session,
                       domain |-> prepared[t].domain, ref |-> prepared[t].ref]
      <3>1. prepared[t] \in Uses /\ prepared[t].ref \in refs
        BY <2>4 DEF BeginResolve, Inv, SecretTypeOK, UseInv
      <3>2. c \in Calls /\ Authorized(c) /\ c.ref \in refs
        BY <2>4, <3>1 DEF BeginResolve, Calls, Authorized, Uses
      <3>3. Begin(t, c) /\ prepared' = [prepared EXCEPT ![t] = Unset]
        BY <2>4 DEF BeginResolve
      <3> QED BY <3>2, <3>3, BeginInv
    <2> QED BY <1>2, <2>1, <2>2, <2>3, <2>4, EnterInv, BindInv, BindRefusedInv,
               ReferenceInv, ValidateInv, ResolveInv DEF ThreadStep
  <1>3. ASSUME NEW s \in Sessions, Close(s) \/ Clear(s) PROVE Inv'
    BY <1>3, CloseInv
  <1> QED BY <1>1, <1>2, <1>3 DEF SecretNext

(* The invariant holds in every reachable state.                           *)
THEOREM Invariance == SecretSpec => []Inv
  BY InitInv, NextInv, PTL DEF SecretSpec

(* Every variable of SecretSession keeps its type.                         *)
THEOREM TypeCorrect == SecretSpec => []SecretTypeOK
  BY Invariance, PTL DEF Inv

(* SecretSessionGuard::close leaves no secret behind, and a bind that was  *)
(* under way puts none back.                                               *)
THEOREM CloseClears == SecretSpec => []ClosedIsEmpty
  <1>1. Inv => ClosedIsEmpty
    BY DEF Inv, ClosedInv, ClosedIsEmpty, Occupied
  <1> QED BY <1>1, Invariance, PTL

-----------------------------------------------------------------------------
(* Only Resolve gives a thread a credential.                               *)
LEMMA OnlyResolve ==
    ASSUME Inv, SecretNext, NEW t \in Threads, resolved'[t] # resolved[t], resolved'[t] # Unset
    PROVE  Resolve(t) /\ Current(call[t])
  <1>1. ASSUME NEW u \in Threads, NEW c, Begin(u, c) PROVE FALSE
    BY <1>1 DEF Begin, Inv, SecretTypeOK
  <1>2. ~UNCHANGED resolved
    OBVIOUS
  <1>3. PICK u \in Threads : ThreadStep(u)
    BY <1>2 DEF SecretNext, Close, Clear
  <1>4. Resolve(u)
    BY <1>1, <1>2, <1>3 DEF ThreadStep, BeginReference, BeginBind, BeginValidate,
       BeginResolve, Enter, Bind, BindRefused, Reference, Validate
  <1> QED BY <1>4 DEF Resolve, Inv, SecretTypeOK

(* What Resolve answers: the value of the slot, in the caller's session,   *)
(* for a reference of that session.                                        *)
LEMMA ResolveAnswer ==
    ASSUME Inv, NEW t \in Threads, Resolve(t), Current(call[t])
    PROVE  /\ ~cleared[resolved'[t].session]
           /\ resolved'[t].value = resolved'[t].ref.value
           /\ resolved'[t].session = resolved'[t].ref.session
           /\ resolved'[t].domain = DomainOf[resolved'[t].ref.session]
  <1>1. secretPc[t] = "inside" /\ call[t].op = "resolve"
    BY DEF Resolve, Inside
  <1>2. resolved'[t] = [session |-> call[t].session, domain |-> call[t].domain,
                        ref |-> call[t].ref, value |-> SlotOf(call[t]).value]
    BY DEF Resolve, Inv, SecretTypeOK
  <1>3. ~cleared[call[t].session]
    BY <1>1, InsideFacts
  <1>4. call[t].ref \in refs /\ Authorized(call[t])
    BY <1>1 DEF Inv, UseInv
  <1>5. call[t].ref.value = SlotOf(call[t]).value
    BY <1>3, <1>4 DEF Inv, RefInv, Authorized, Current, SlotOf
  <1> QED BY <1>2, <1>3, <1>4, <1>5 DEF Authorized

(* resolve_reference never answers for another secret than the one that    *)
(* was bound when the reference was made, whatever was bound since.        *)
THEOREM ReferencesFaithful == SecretSpec => []ReferenceFaithful
  <1>1. SecretInit => ReferenceFaithful
    BY DEF SecretInit, ReferenceFaithful
  <1>2. Inv /\ ReferenceFaithful /\ [SecretNext]_secretVars => ReferenceFaithful'
    <2> SUFFICES ASSUME Inv, ReferenceFaithful, [SecretNext]_secretVars,
                        NEW t \in Threads, resolved'[t] # Unset
                 PROVE  /\ resolved'[t].value = resolved'[t].ref.value
                        /\ resolved'[t].session = resolved'[t].ref.session
                        /\ resolved'[t].domain = DomainOf[resolved'[t].ref.session]
      BY DEF ReferenceFaithful
    <2>1. CASE resolved'[t] = resolved[t]
      BY <2>1 DEF ReferenceFaithful
    <2>2. CASE resolved'[t] # resolved[t]
      <3>1. SecretNext
        BY <2>2 DEF secretVars
      <3> QED BY <2>2, <3>1, OnlyResolve, ResolveAnswer
    <2> QED BY <2>1, <2>2
  <1> QED BY <1>1, <1>2, Invariance, PTL DEF SecretSpec

(* Once close returned, send_once of a request that prepare accepted       *)
(* before gets no credential any more.                                     *)
THEOREM NoLateCredential == SecretSpec => NoCredentialAfterClose
  <1>1. Inv /\ [SecretNext]_secretVars =>
            [\A t \in Threads : resolved'[t] # resolved[t] /\ resolved'[t] # Unset
                                   => ~cleared[resolved'[t].session]]_secretVars
    <2> SUFFICES ASSUME Inv, SecretNext, NEW t \in Threads,
                        resolved'[t] # resolved[t], resolved'[t] # Unset
                 PROVE  ~cleared[resolved'[t].session]
      OBVIOUS
    <2> QED BY OnlyResolve, ResolveAnswer
  <1> QED BY <1>1, Invariance, PTL DEF SecretSpec, NoCredentialAfterClose

-----------------------------------------------------------------------------
(* Binding a secret adds its name to the occupied ones.                    *)
LEMMA BindOccupied ==
    ASSUME Inv, NEW t \in Threads, Bind(t), NEW s \in Sessions
    PROVE  \/ Occupied(s)' = Occupied(s)
           \/ /\ SlotFree(s)
              /\ \E n \in Names : n \notin Occupied(s) /\ Occupied(s)' = Occupied(s) \cup {n}
  <1> DEFINE u == call[t].session
             n == call[t].name
  <1>1. secretPc[t] = "inside" /\ call[t].op = "bind"
    BY DEF Bind, Inside
  <1>2. u \in Sessions /\ n \in Names /\ call[t].value \in Values
    BY <1>1, InsideFacts, CallFields
  <1>3. PICK slot \in Slots : slots' = [slots EXCEPT ![u][n] = slot] /\ (slots[u][n] = Unset => SlotFree(u))
    <2>1. CASE slots[u][n] = Unset
      <3>1. [generation |-> 1, value |-> call[t].value] \in Slots
        BY <1>2, SessionAssumption DEF Slots
      <3>2. /\ slots' = [slots EXCEPT ![u][n] = [generation |-> 1, value |-> call[t].value]]
            /\ SlotFree(u)
        BY <2>1 DEF Bind, Store
      <3> QED BY <3>1, <3>2
    <2>2. CASE slots[u][n] # Unset
      <3>1. slots[u][n] \in Slots /\ GenerationLeft(slots[u][n])
        BY <1>2, <2>2 DEF Bind, Inv, SecretTypeOK
      <3>2. [generation |-> NextGeneration(slots[u][n]), value |-> call[t].value] \in Slots
        BY <1>2, <3>1, SessionAssumption DEF GenerationLeft, NextGeneration, Slots
      <3>3. slots' = [slots EXCEPT ![u][n] = [generation |-> NextGeneration(slots[u][n]),
                                              value |-> call[t].value]]
        BY <2>2 DEF Bind, Store
      <3> QED BY <2>2, <3>2, <3>3
    <2> QED BY <2>1, <2>2
  <1>4. slot # Unset
    BY SlotNotUnset
  <1>5. CASE s # u
    BY <1>2, <1>3, <1>5 DEF Occupied, Inv, SecretTypeOK
  <1>6. CASE s = u /\ slots[u][n] # Unset
    BY <1>2, <1>3, <1>4, <1>6 DEF Occupied, Inv, SecretTypeOK
  <1>7. CASE s = u /\ slots[u][n] = Unset
    BY <1>2, <1>3, <1>4, <1>7 DEF Occupied, Inv, SecretTypeOK
  <1> QED BY <1>5, <1>6, <1>7

(* MAX_SESSION_SLOTS is never exceeded.                                    *)
THEOREM CapacityRespected == SecretSpec => []WithinCapacity
  <1>1. SecretInit => CapacityInv
    <2> SUFFICES ASSUME SecretInit, NEW s \in Sessions
                 PROVE  IsFiniteSet(Occupied(s)) /\ Cardinality(Occupied(s)) <= MaxSlots
      BY DEF CapacityInv
    <2>1. Occupied(s) = {}
      BY DEF SecretInit, Occupied
    <2> QED BY <2>1, FS_EmptySet, SessionAssumption
  <1>2. Inv /\ CapacityInv /\ [SecretNext]_secretVars => CapacityInv'
    <2> SUFFICES ASSUME Inv, CapacityInv, [SecretNext]_secretVars, NEW s \in Sessions
                 PROVE  IsFiniteSet(Occupied(s)') /\ Cardinality(Occupied(s)') <= MaxSlots
      BY DEF CapacityInv
    <2>0. IsFiniteSet(Occupied(s)) /\ Cardinality(Occupied(s)) <= MaxSlots
      BY DEF CapacityInv
    <2>1. CASE Occupied(s)' = Occupied(s)
      BY <2>0, <2>1
    <2>2. CASE UNCHANGED slots
      <3>1. Occupied(s)' = Occupied(s)
        BY <2>2 DEF Occupied
      <3> QED BY <3>1, <2>1
    <2>3. ASSUME NEW t \in Threads, Bind(t) PROVE IsFiniteSet(Occupied(s)') /\ Cardinality(Occupied(s)') <= MaxSlots
      <3>1. CASE SlotFree(s) /\ \E n \in Names : n \notin Occupied(s) /\ Occupied(s)' = Occupied(s) \cup {n}
        <4>1. PICK n \in Names : n \notin Occupied(s) /\ Occupied(s)' = Occupied(s) \cup {n}
          BY <3>1
        <4>2. /\ IsFiniteSet(Occupied(s) \cup {n})
              /\ Cardinality(Occupied(s) \cup {n}) = Cardinality(Occupied(s)) + 1
          BY <2>0, <4>1, FS_AddElement
        <4>3. Cardinality(Occupied(s)) \in Nat /\ Cardinality(Occupied(s)) < MaxSlots
          BY <2>0, <3>1, FS_CardinalityType DEF SlotFree
        <4> QED BY <4>1, <4>2, <4>3, SessionAssumption
      <3> QED BY <2>1, <2>3, <3>1, BindOccupied
    <2>4. ASSUME NEW u \in Sessions, Clear(u) PROVE IsFiniteSet(Occupied(s)') /\ Cardinality(Occupied(s)') <= MaxSlots
      <3>1. CASE s = u
        <4>1. Occupied(s)' = {}
          BY <2>4, <3>1 DEF Clear, Occupied, Inv, SecretTypeOK
        <4> QED BY <4>1, FS_EmptySet, SessionAssumption
      <3>2. CASE s # u
        <4>1. Occupied(s)' = Occupied(s)
          BY <2>4, <3>2 DEF Clear, Occupied, Inv, SecretTypeOK
        <4> QED BY <4>1, <2>1
      <3> QED BY <3>1, <3>2
    <2>5. CASE SecretNext
      <3>1. \/ UNCHANGED slots
            \/ \E t \in Threads : Bind(t)
            \/ \E u \in Sessions : Clear(u)
        <4>1. ASSUME NEW t \in Threads, ThreadStep(t) PROVE UNCHANGED slots \/ Bind(t)
          BY <4>1 DEF ThreadStep, BeginReference, BeginBind, BeginValidate, BeginResolve,
             Begin, Enter, BindRefused, Reference, Validate, Resolve
        <4>2. ASSUME NEW u \in Sessions, Close(u) PROVE UNCHANGED slots
          BY <4>2 DEF Close
        <4> QED BY <2>5, <4>1, <4>2 DEF SecretNext
      <3> QED BY <3>1, <2>2, <2>3, <2>4
    <2> QED BY <2>2, <2>5 DEF secretVars
  <1>3. CapacityInv => WithinCapacity
    BY DEF CapacityInv, WithinCapacity
  <1> QED BY <1>1, <1>2, <1>3, Invariance, PTL DEF SecretSpec

=============================================================================
