---------------------------- MODULE SecretSession ----------------------------
(***************************************************************************)
(* Session secrets (crates/ricochet_secrets/src/session.rs) and their use  *)
(* by deferred HTTP credentials (http_executor.rs: prepare, send_once).    *)
(*                                                                         *)
(* A session keeps secret values in named slots.  Programs never see a     *)
(* value: they hold references, a name and the generation of the slot when *)
(* the reference was made, and every VM thread that shares the session may *)
(* use them at any time.  Each operation looks at the closed flag, takes   *)
(* the slots' mutex and looks at the flag again; the host's close sets the *)
(* flag without the mutex and then clears the slots under it.              *)
(***************************************************************************)
EXTENDS Integers, FiniteSets

CONSTANTS
    Sessions,      \* secret sessions of the host
    Domains,       \* security domains
    DomainOf,      \* security_domain_id of each session
    Names,         \* slot names
    Values,        \* secret values of 1 to MAX_SECRET_BYTES bytes
    Threads,       \* threads that use the sessions
    MaxSlots,      \* MAX_SESSION_SLOTS
    MaxGeneration, \* the largest generation, where checked_add gives up
    Unset          \* no slot, no thread, no reference

ASSUME SessionAssumption ==
    /\ DomainOf \in [Sessions -> Domains]
    /\ MaxSlots \in Nat
    /\ MaxGeneration \in Nat \ {0}
    /\ Unset \notin Threads
    /\ Unset \notin [generation : 1 .. MaxGeneration, value : Values]

VARIABLES
    closed,    \* each session's closed flag
    cleared,   \* close has returned
    slots,     \* each session's slots
    lock,      \* the thread that holds each session's mutex
    secretPc, call, \* each thread's step and operation
    refs,      \* the references that exist, with (history) the value bound
    prepared,  \* each thread: the request that prepare accepted
    resolved   \* each thread: what resolve_reference answered last

secretVars == <<closed, cleared, slots, lock, secretPc, call, refs, prepared, resolved>>

Slots == [generation : 1 .. MaxGeneration, value : Values]
Refs == [session : Sessions, name : Names, generation : 1 .. MaxGeneration, value : Values]
Uses == [session : Sessions, domain : Domains, ref : Refs]
Credentials == [session : Sessions, domain : Domains, ref : Refs, value : Values]
Calls == [op : {"bind"}, session : Sessions, name : Names, value : Values]
            \cup [op : {"reference"}, session : Sessions, name : Names]
            \cup [op : {"validate", "resolve"}, session : Sessions, domain : Domains, ref : Refs]

SecretInit ==
    /\ closed = [s \in Sessions |-> FALSE]
    /\ cleared = [s \in Sessions |-> FALSE]
    /\ slots = [s \in Sessions |-> [n \in Names |-> Unset]]
    /\ lock = [s \in Sessions |-> Unset]
    /\ secretPc = [t \in Threads |-> "idle"]
    /\ call = [t \in Threads |-> Unset]
    /\ refs = {}
    /\ prepared = [t \in Threads |-> Unset]
    /\ resolved = [t \in Threads |-> Unset]

-----------------------------------------------------------------------------
(* The first ensure_open; an operation on a closed session fails.          *)
Begin(t, c) ==
    /\ secretPc[t] = "idle"
    /\ ~closed[c.session]
    /\ secretPc' = [secretPc EXCEPT ![t] = "enter"]
    /\ call' = [call EXCEPT ![t] = c]
    /\ resolved' = [resolved EXCEPT ![t] = Unset]
    /\ UNCHANGED <<closed, cleared, slots, lock, refs>>

(* prompt(name).bind(value); a value of the wrong size is refused before.  *)
BeginBind(t, s, n, x) ==
    /\ Begin(t, [op |-> "bind", session |-> s, name |-> n, value |-> x])
    /\ UNCHANGED prepared

(* reference(name), and present(name), which answers less                  *)
BeginReference(t, s, n) ==
    /\ Begin(t, [op |-> "reference", session |-> s, name |-> n])
    /\ UNCHANGED prepared

(* ensure_reference_authority: the reference was made by this session and  *)
(* both belong to the security domain of the caller.                       *)
Authorized(u) ==
    /\ u.ref.session = u.session
    /\ DomainOf[u.session] = u.domain
    /\ DomainOf[u.ref.session] = u.domain

(* prepare: preflight_secret_session validates the reference ...           *)
BeginValidate(t, u) ==
    /\ Authorized(u)
    /\ Begin(t, [op |-> "validate", session |-> u.session, domain |-> u.domain, ref |-> u.ref])
    /\ UNCHANGED prepared

(* ... and send_once, which may run much later, resolves it.               *)
BeginResolve(t) ==
    /\ prepared[t] # Unset
    /\ Authorized(prepared[t])
    /\ Begin(t, [op |-> "resolve", session |-> prepared[t].session,
                 domain |-> prepared[t].domain, ref |-> prepared[t].ref])
    /\ prepared' = [prepared EXCEPT ![t] = Unset]

-----------------------------------------------------------------------------
(* Mutant: the flag is not looked at again under the mutex.                *)
UncheckedEntry(s) == TRUE

(* the second ensure_open                                                  *)
OpenInside(s) == ~closed[s]

(* The mutex is taken; the session may have been closed meanwhile.         *)
Enter(t) ==
    LET s == call[t].session IN
    /\ secretPc[t] = "enter"
    /\ lock[s] = Unset
    /\ \/ /\ OpenInside(s)
          /\ lock' = [lock EXCEPT ![s] = t]
          /\ secretPc' = [secretPc EXCEPT ![t] = "inside"]
          /\ UNCHANGED call
       \/ /\ ~OpenInside(s)
          /\ secretPc' = [secretPc EXCEPT ![t] = "idle"]
          /\ call' = [call EXCEPT ![t] = Unset]
          /\ UNCHANGED lock
    /\ UNCHANGED <<closed, cleared, slots, refs, prepared, resolved>>

(* The operation ends and the mutex is released.                           *)
Leave(t) ==
    /\ secretPc' = [secretPc EXCEPT ![t] = "idle"]
    /\ lock' = [lock EXCEPT ![call[t].session] = Unset]
    /\ call' = [call EXCEPT ![t] = Unset]
    /\ UNCHANGED <<closed, cleared>>

Inside(t, op) == secretPc[t] = "inside" /\ call[t].op = op

(* Mutant: binding a slot again keeps its generation.                      *)
SameGeneration(slot) == slot.generation

NextGeneration(slot) == slot.generation + 1

(* Mutant: the generation is increased without the check.                  *)
UncheckedAdd(slot) == TRUE

(* checked_add succeeds.                                                   *)
GenerationLeft(slot) == slot.generation < MaxGeneration

RefTo(s, n, slot) ==
    [session |-> s, name |-> n, generation |-> slot.generation, value |-> slot.value]

Occupied(s) == {n \in Names : slots[s][n] # Unset}

Store(s, n, slot) ==
    /\ slots' = [slots EXCEPT ![s][n] = slot]
    /\ refs' = refs \cup {RefTo(s, n, slot)}

(* Mutant: off by one at the capacity.                                     *)
OneMoreSlot(s) == Cardinality(Occupied(s)) <= MaxSlots

SlotFree(s) == Cardinality(Occupied(s)) < MaxSlots

(* bind: a new slot starts at generation 1, an existing one goes up by one *)
Bind(t) ==
    LET s == call[t].session
        n == call[t].name
        old == slots[s][n]
    IN  /\ Inside(t, "bind")
        /\ \/ old = Unset /\ SlotFree(s)
              /\ Store(s, n, [generation |-> 1, value |-> call[t].value])
           \/ old # Unset /\ GenerationLeft(old)
              /\ Store(s, n, [generation |-> NextGeneration(old), value |-> call[t].value])
        /\ Leave(t)
        /\ UNCHANGED <<prepared, resolved>>

(* ... unless the session is full or the generations are exhausted.        *)
BindRefused(t) ==
    LET s == call[t].session
        old == slots[s][call[t].name]
    IN  /\ Inside(t, "bind")
        /\ \/ old = Unset /\ ~SlotFree(s)
           \/ old # Unset /\ ~GenerationLeft(old)
        /\ Leave(t)
        /\ UNCHANGED <<slots, refs, prepared, resolved>>

Reference(t) ==
    LET s == call[t].session
        n == call[t].name
    IN  /\ Inside(t, "reference")
        /\ refs' = IF slots[s][n] = Unset THEN refs ELSE refs \cup {RefTo(s, n, slots[s][n])}
        /\ Leave(t)
        /\ UNCHANGED <<slots, prepared, resolved>>

SlotOf(u) == slots[u.session][u.ref.name]

(* The slot exists and is of the generation of the reference.              *)
Current(u) == SlotOf(u) # Unset /\ SlotOf(u).generation = u.ref.generation

Validate(t) ==
    /\ Inside(t, "validate")
    /\ prepared' = IF Current(call[t])
                   THEN [prepared EXCEPT ![t] = [session |-> call[t].session,
                            domain |-> call[t].domain, ref |-> call[t].ref]]
                   ELSE prepared
    /\ Leave(t)
    /\ UNCHANGED <<slots, refs, resolved>>

Resolve(t) ==
    LET u == call[t] IN
    /\ Inside(t, "resolve")
    /\ resolved' = IF Current(u)
                   THEN [resolved EXCEPT ![t] = [session |-> u.session, domain |-> u.domain,
                                                 ref |-> u.ref, value |-> SlotOf(u).value]]
                   ELSE resolved
    /\ Leave(t)
    /\ UNCHANGED <<slots, refs, prepared>>

-----------------------------------------------------------------------------
(* SecretSessionGuard::close, also by drop: the flag first ...             *)
Close(s) ==
    /\ ~closed[s]
    /\ closed' = [closed EXCEPT ![s] = TRUE]
    /\ UNCHANGED <<cleared, slots, lock, secretPc, call, refs, prepared, resolved>>

(* Mutant: the slots are cleared without the mutex.                        *)
ClearUnlocked(s) ==
    /\ closed[s]
    /\ ~cleared[s]
    /\ slots' = [slots EXCEPT ![s] = [n \in Names |-> Unset]]
    /\ cleared' = [cleared EXCEPT ![s] = TRUE]
    /\ UNCHANGED <<closed, lock, secretPc, call, refs, prepared, resolved>>

(* ... then the slots, under the mutex.                                    *)
Clear(s) ==
    /\ closed[s]
    /\ ~cleared[s]
    /\ lock[s] = Unset
    /\ slots' = [slots EXCEPT ![s] = [n \in Names |-> Unset]]
    /\ cleared' = [cleared EXCEPT ![s] = TRUE]
    /\ UNCHANGED <<closed, lock, secretPc, call, refs, prepared, resolved>>

ThreadStep(t) ==
    \/ \E s \in Sessions, n \in Names :
          BeginReference(t, s, n) \/ \E x \in Values : BeginBind(t, s, n, x)
    \/ \E s \in Sessions, d \in Domains, r \in refs :
          BeginValidate(t, [session |-> s, domain |-> d, ref |-> r])
    \/ BeginResolve(t)
    \/ Enter(t) \/ Bind(t) \/ BindRefused(t) \/ Reference(t) \/ Validate(t) \/ Resolve(t)

SecretNext ==
    \/ \E t \in Threads : ThreadStep(t)
    \/ \E s \in Sessions : Close(s) \/ Clear(s)

SecretSpec == SecretInit /\ [][SecretNext]_secretVars

-----------------------------------------------------------------------------
(* Every variable has its type; no generation exceeds the largest one.     *)
SecretTypeOK ==
    /\ closed \in [Sessions -> BOOLEAN]
    /\ cleared \in [Sessions -> BOOLEAN]
    /\ slots \in [Sessions -> [Names -> Slots \cup {Unset}]]
    /\ lock \in [Sessions -> Threads \cup {Unset}]
    /\ secretPc \in [Threads -> {"idle", "enter", "inside"}]
    /\ call \in [Threads -> Calls \cup {Unset}]
    /\ refs \subseteq Refs
    /\ prepared \in [Threads -> Uses \cup {Unset}]
    /\ resolved \in [Threads -> Credentials \cup {Unset}]

(* No session ever holds more secrets than MAX_SESSION_SLOTS, however many *)
(* prompts are completed at the same time.                                 *)
WithinCapacity == \A s \in Sessions : Cardinality(Occupied(s)) <= MaxSlots

(* Once close returned, no secret is left in the session, nor will a bind  *)
(* that was under way put one back.                                        *)
ClosedIsEmpty == \A s \in Sessions : cleared[s] => Occupied(s) = {}

(* A reference only ever yields the value that was bound when it was made, *)
(* in the session that made it and in its security domain: a rebound slot  *)
(* makes older references stale, it does not redirect them.                *)
ReferenceFaithful ==
    \A t \in Threads : resolved[t] # Unset =>
        /\ resolved[t].value = resolved[t].ref.value
        /\ resolved[t].session = resolved[t].ref.session
        /\ resolved[t].domain = DomainOf[resolved[t].ref.session]

(* After close returned, no request that was prepared before can still     *)
(* fetch a credential.                                                     *)
NoCredentialAfterClose ==
    [][\A t \in Threads :
         resolved'[t] # resolved[t] /\ resolved'[t] # Unset => ~cleared[resolved'[t].session]]_secretVars

=============================================================================
