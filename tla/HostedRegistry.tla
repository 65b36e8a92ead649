--------------------------- MODULE HostedRegistry ---------------------------
(***************************************************************************)
(* The hosted package registry server                                      *)
(* (crates/ricochet_cli/src/hosted_registry_server.rs).                    *)
(*                                                                         *)
(* Handlers run concurrently.  A publish or yank first looks its           *)
(* Idempotency-Key up, under a mutex it gives back, and then takes the     *)
(* registry mutex for the rest of the request: artifact files, registry    *)
(* document, idempotency record.  The document and the artifacts are       *)
(* files, the idempotency records live in memory only, and the server can  *)
(* crash between any two steps.                                            *)
(*                                                                         *)
(* A version stands for a package/version pair and a body for the bytes of *)
(* an upload.  Requests that fail validation or authentication change      *)
(* nothing and are left out.                                               *)
(***************************************************************************)
EXTENDS Integers, FiniteSets

CONSTANTS
    Handlers,    \* request handlers that may run at the same time
    Versions,    \* package/version pairs
    Bodies,      \* upload contents (digests)
    Keys,        \* idempotency keys the clients use
    MaxRecords,  \* MAX_IDEMPOTENCY_RECORDS
    MaxRequests, \* bound: requests ever submitted
    MaxCrashes,  \* bound: server crashes
    None,        \* no record, no file
    Torn         \* a file that was created or truncated and not completed

VARIABLES
    up,         \* the server runs
    registry,   \* RegistryDocument in memory
    regLock,    \* handler that holds the registry mutex, or None
    idem,       \* idempotency records
    pc, req,    \* each handler's step and request
    document,   \* registry.json
    saved,      \* history: the last registry.json that was complete
    artifacts,  \* files below artifacts/
    submitted, crashes, \* counters behind the bounds
    answers     \* history: the answers that were sent, with the server run

vars == <<up, registry, regLock, idem, pc, req, document, saved, artifacts,
          submitted, crashes, answers>>

NoBody == "empty"
Publish(v, b, k) == [op |-> "publish", version |-> v, body |-> b, key |-> k]
Yank(v, k) == [op |-> "yank", version |-> v, body |-> NoBody, key |-> k]
Requests ==
    {Publish(v, b, k) : v \in Versions, b \in Bodies, k \in Keys}
        \cup {Yank(v, k) : v \in Versions, k \in Keys}

(* what an idempotency record binds its key to: method, path, body digest  *)
Fingerprint(q) == [op |-> q.op, version |-> q.version, body |-> q.body]

StoredVersion == [body : Bodies, yanked : BOOLEAN]
Documents == [Versions -> StoredVersion \cup {None}]
Empty == [v \in Versions |-> None]
Codes == {"ok", "version_exists", "not_found", "idempotency_conflict", "error"}
Records == [print : {Fingerprint(q) : q \in Requests}, code : {"ok", "version_exists"}]
Answers == [req : Requests, code : Codes, run : 0 .. MaxCrashes]
HoldingSteps == {"archive", "archiving", "commit", "save", "saving", "store"}

ASSUME RegistryAssumption ==
    /\ MaxRecords \in Nat \ {0}
    /\ MaxRequests \in Nat
    /\ MaxCrashes \in Nat
    /\ None \notin Bodies
    /\ Torn \notin Bodies
    /\ None # Torn
    /\ None \notin Handlers
    /\ None \notin Records
    /\ None \notin StoredVersion
    /\ Torn \notin Documents

Init ==
    /\ up = TRUE
    /\ registry = Empty
    /\ regLock = None
    /\ idem = [k \in Keys |-> None]
    /\ pc = [h \in Handlers |-> "idle"]
    /\ req = [h \in Handlers |-> None]
    /\ document = Empty
    /\ saved = Empty
    /\ artifacts = Empty
    /\ submitted = 0
    /\ crashes = 0
    /\ answers = {}

-----------------------------------------------------------------------------
GoTo(h, step) == pc' = [pc EXCEPT ![h] = step]

(* The handler answers its client and is done.                             *)
Answer(h, code) ==
    /\ answers' = answers \cup {[req |-> req[h], code |-> code, run |-> crashes]}
    /\ GoTo(h, "idle")

(* An error path drops the registry guard and answers 500.                 *)
Fail(h) ==
    /\ Answer(h, "error")
    /\ regLock' = None
    /\ UNCHANGED <<up, registry, idem, req, submitted, crashes>>

Receive(h, q) ==
    /\ up
    /\ pc[h] = "idle"
    /\ submitted < MaxRequests
    /\ submitted' = submitted + 1
    /\ req' = [req EXCEPT ![h] = q]
    /\ GoTo(h, "replay")
    /\ UNCHANGED <<up, registry, regLock, idem, document, saved, artifacts, crashes, answers>>

(* idempotency_replay: the answer of the record that the key has, or a     *)
(* conflict if the record is bound to another request.                     *)
Replay(h) ==
    LET record == idem[req[h].key] IN
    /\ pc[h] = "replay"
    /\ record # None
    /\ Answer(h, IF record.print = Fingerprint(req[h]) THEN record.code
                                                       ELSE "idempotency_conflict")
    /\ UNCHANGED <<up, registry, regLock, idem, req, document, saved, artifacts, submitted, crashes>>

NoReplay(h) ==
    /\ pc[h] = "replay"
    /\ idem[req[h].key] = None
    /\ GoTo(h, "lock")
    /\ UNCHANGED <<up, registry, regLock, idem, req, document, saved, artifacts, submitted, crashes, answers>>

(* the keys that have a record                                             *)
Used(records) == {k \in Keys : records[k] # None}

(* Mutant: the records are never pruned.                                   *)
NeverPruned(records) == FALSE

OverCapacity(records) == Cardinality(Used(records)) > MaxRecords

(* store_idempotency: insert, then prune the oldest record while there are *)
(* too many.  Stamps are wall clock milliseconds, so any record, the new   *)
(* one included, may be the one that goes.                                 *)
StoreIdempotency(h, code) ==
    LET record == [print |-> Fingerprint(req[h]), code |-> code]
        inserted == [idem EXCEPT ![req[h].key] = record]
    IN  \/ ~OverCapacity(inserted) /\ idem' = inserted
        \/ /\ OverCapacity(inserted)
           /\ \E oldest \in Used(inserted) : idem' = [inserted EXCEPT ![oldest] = None]

-----------------------------------------------------------------------------
(* publish_version_inner, once the registry mutex is free                  *)

Locking(h, op) == pc[h] = "lock" /\ regLock = None /\ req[h].op = op

PublishExisting(h) ==
    /\ Locking(h, "publish")
    /\ registry[req[h].version] # None
    /\ StoreIdempotency(h, "version_exists")
    /\ Answer(h, "version_exists")
    /\ UNCHANGED <<up, registry, regLock, req, document, saved, artifacts, submitted, crashes>>

BeginPublish(h) ==
    /\ Locking(h, "publish")
    /\ registry[req[h].version] = None
    /\ regLock' = h
    /\ GoTo(h, "archive")
    /\ UNCHANGED <<up, registry, idem, req, document, saved, artifacts, submitted, crashes, answers>>

(* Mutant: write_new_file truncates an archive that is there.              *)
CreateOrTruncate(v) == TRUE

(* create_new refuses a file that exists.                                  *)
CreateNew(v) == artifacts[v] = None

(* write_new_file creates the archive ...                                  *)
CreateArchive(h) ==
    /\ pc[h] = "archive"
    /\ CreateNew(req[h].version)
    /\ artifacts' = [artifacts EXCEPT ![req[h].version] = Torn]
    /\ GoTo(h, "archiving")
    /\ UNCHANGED <<up, registry, regLock, idem, req, document, saved, submitted, crashes, answers>>

(* ... or fails: it exists, or the directory or file cannot be made.       *)
CreateArchiveFails(h) ==
    /\ pc[h] = "archive"
    /\ Fail(h)
    /\ UNCHANGED <<document, saved, artifacts>>

(* Mutant: write instead of write_all, which may stop half way.            *)
ShortWrite(h) == Torn

Written(h) == req[h].body

WriteArchive(h) ==
    /\ pc[h] = "archiving"
    /\ artifacts' = [artifacts EXCEPT ![req[h].version] = Written(h)]
    /\ GoTo(h, "commit")
    /\ UNCHANGED <<up, registry, regLock, idem, req, document, saved, submitted, crashes, answers>>

WriteArchiveFails(h) ==
    /\ pc[h] = "archiving"
    /\ Fail(h)
    /\ UNCHANGED <<document, saved, artifacts>>

(* The optional provenance and signature files are written and the version *)
(* is pushed to the document in memory ...                                 *)
Commit(h) ==
    /\ pc[h] = "commit"
    /\ registry' = [registry EXCEPT ![req[h].version] = [body |-> req[h].body, yanked |-> FALSE]]
    /\ GoTo(h, "save")
    /\ UNCHANGED <<up, regLock, idem, req, document, saved, artifacts, submitted, crashes, answers>>

(* ... or one of those files cannot be written, after the archive was.     *)
OptionalArtifactFails(h) ==
    /\ pc[h] = "commit"
    /\ Fail(h)
    /\ UNCHANGED <<document, saved, artifacts>>

-----------------------------------------------------------------------------
(* yank_version_inner *)

YankUnknown(h) ==
    /\ Locking(h, "yank")
    /\ registry[req[h].version] = None
    /\ Answer(h, "not_found")
    /\ UNCHANGED <<up, registry, regLock, idem, req, document, saved, artifacts, submitted, crashes>>

(* Nothing changed, so nothing is saved.                                   *)
YankAgain(h) ==
    /\ Locking(h, "yank")
    /\ registry[req[h].version] # None
    /\ registry[req[h].version].yanked
    /\ StoreIdempotency(h, "ok")
    /\ Answer(h, "ok")
    /\ UNCHANGED <<up, registry, regLock, req, document, saved, artifacts, submitted, crashes>>

BeginYank(h) ==
    /\ Locking(h, "yank")
    /\ registry[req[h].version] # None
    /\ ~registry[req[h].version].yanked
    /\ registry' = [registry EXCEPT ![req[h].version].yanked = TRUE]
    /\ regLock' = h
    /\ GoTo(h, "save")
    /\ UNCHANGED <<up, idem, req, document, saved, artifacts, submitted, crashes, answers>>

-----------------------------------------------------------------------------
(* save_registry is fs::write: open with truncation, then write.           *)

OpenDocument(h) ==
    /\ pc[h] = "save"
    /\ document' = Torn
    /\ GoTo(h, "saving")
    /\ UNCHANGED <<saved, up, registry, regLock, idem, req, artifacts, submitted, crashes, answers>>

(* Mutant: a save that fails is not reported.                              *)
SaveErrorIgnored(h) ==
    /\ pc[h] = "save"
    /\ GoTo(h, "store")
    /\ UNCHANGED <<up, registry, regLock, idem, req, document, saved, artifacts, submitted, crashes, answers>>

OpenDocumentFails(h) ==
    /\ pc[h] = "save"
    /\ Fail(h)
    /\ UNCHANGED <<document, saved, artifacts>>

WriteDocument(h) ==
    /\ pc[h] = "saving"
    /\ document' = registry
    /\ saved' = registry
    /\ GoTo(h, "store")
    /\ UNCHANGED <<up, registry, regLock, idem, req, artifacts, submitted, crashes, answers>>

WriteDocumentFails(h) ==
    /\ pc[h] = "saving"
    /\ Fail(h)
    /\ UNCHANGED <<document, saved, artifacts>>

StoreAndAnswer(h) ==
    /\ pc[h] = "store"
    /\ StoreIdempotency(h, "ok")
    /\ Answer(h, "ok")
    /\ regLock' = None
    /\ UNCHANGED <<up, registry, req, document, saved, artifacts, submitted, crashes>>

-----------------------------------------------------------------------------
(* The process dies: memory and requests in flight are gone.               *)
Crash ==
    /\ up
    /\ crashes < MaxCrashes
    /\ up' = FALSE
    /\ crashes' = crashes + 1
    /\ pc' = [h \in Handlers |-> "idle"]
    /\ regLock' = None
    /\ UNCHANGED <<registry, idem, req, document, saved, artifacts, submitted, answers>>

(* Mutant: the records outlive the server although yanks may not.          *)
RecordsKept == idem

(* A server starts without idempotency records.                            *)
NewRecords == [k \in Keys |-> None]

(* serve: load_registry refuses a document that does not parse.            *)
Restart ==
    /\ ~up
    /\ document # Torn
    /\ up' = TRUE
    /\ registry' = document
    /\ idem' = NewRecords
    /\ UNCHANGED <<regLock, pc, req, document, saved, artifacts, submitted, crashes, answers>>

HandlerStep(h) ==
    \/ Replay(h) \/ NoReplay(h)
    \/ PublishExisting(h) \/ BeginPublish(h)
    \/ CreateArchive(h) \/ CreateArchiveFails(h) \/ WriteArchive(h) \/ WriteArchiveFails(h)
    \/ Commit(h) \/ OptionalArtifactFails(h)
    \/ YankUnknown(h) \/ YankAgain(h) \/ BeginYank(h)
    \/ OpenDocument(h) \/ OpenDocumentFails(h) \/ WriteDocument(h) \/ WriteDocumentFails(h)
    \/ StoreAndAnswer(h)

Next ==
    \/ \E h \in Handlers : HandlerStep(h) \/ \E q \in Requests : Receive(h, q)
    \/ Crash \/ Restart

Spec == Init /\ [][Next]_vars

-----------------------------------------------------------------------------
(* Every variable has its type and there are at most MAX_IDEMPOTENCY_RECORDS *)
(* idempotency records.                                                    *)
TypeOK ==
    /\ up \in BOOLEAN
    /\ registry \in Documents
    /\ regLock \in Handlers \cup {None}
    /\ idem \in [Keys -> Records \cup {None}]
    /\ pc \in [Handlers -> HoldingSteps \cup {"idle", "replay", "lock"}]
    /\ req \in [Handlers -> Requests \cup {None}]
    /\ Cardinality(Used(idem)) <= MaxRecords
    /\ document \in Documents \cup {Torn}
    /\ saved \in Documents
    /\ artifacts \in [Versions -> Bodies \cup {None, Torn}]
    /\ submitted \in 0 .. MaxRequests
    /\ crashes \in 0 .. MaxCrashes
    /\ answers \subseteq Answers

(* Every version record, in memory and in registry.json, has its archive   *)
(* on disk with the bytes it was published with, whatever request or       *)
(* server died in between.                                                 *)
RecordsMatchArtifacts ==
    /\ \A v \in Versions : registry[v] # None => artifacts[v] = registry[v].body
    /\ document # Torn =>
          \A v \in Versions : document[v] # None => artifacts[v] = document[v].body

(* A publish that was acknowledged is in registry.json with the bytes it   *)
(* was acknowledged for, and stays there over crashes, unless the file was *)
(* torn by a save that did not complete.                                   *)
AckedPublishDurable ==
    \A a \in answers :
        a.req.op = "publish" /\ a.code = "ok" /\ document # Torn
            => document[a.req.version] # None /\ document[a.req.version].body = a.req.body

(* What a replay would answer is true: the record of a publish belongs to  *)
(* a version that is there with those bytes, the record of a yank to a     *)
(* yanked version, the record of a refusal to a version that exists.       *)
ReplaysTruthful ==
    up => \A k \in Keys : idem[k] # None =>
        LET print == idem[k].print
            stored == registry[print.version]
        IN  /\ stored # None
            /\ idem[k].code = "ok" /\ print.op = "publish" => stored.body = print.body
            /\ idem[k].code = "ok" /\ print.op = "yank" => stored.yanked

(* Every version of d is in e with the same archive, and still yanked.     *)
Extended(d, e) ==
    \A v \in Versions : d[v] # None =>
        /\ e[v] # None
        /\ e[v].body = d[v].body
        /\ d[v].yanked => e[v].yanked

(* The store is append only: between one complete registry.json and the    *)
(* next, whatever failed or crashed in between, no version record is lost  *)
(* or changed and no yank is lifted, and no step touches an archive that   *)
(* is complete.                                                            *)
AppendOnly ==
    [][/\ Extended(saved, saved')
       /\ \A v \in Versions : artifacts[v] \in Bodies => artifacts'[v] = artifacts[v]]_vars

(* "Replaying the same key with the same body returns the original         *)
(* result": two answers of one server run to the same keyed request agree, *)
(* internal errors and unknown versions (never recorded) aside.            *)
ReplayReturnsOriginal ==
    \A a, b \in answers :
        a.req = b.req /\ a.run = b.run /\ {a.code, b.code} \subseteq {"ok", "version_exists"}
            => a.code = b.code

(* "Yank state is an append-only availability overlay": a yank that was    *)
(* acknowledged is in registry.json unless that file was torn.             *)
AckedYankDurable ==
    \A a \in answers :
        a.req.op = "yank" /\ a.code = "ok" /\ document # Torn
            => document[a.req.version] # None /\ document[a.req.version].yanked

=============================================================================
