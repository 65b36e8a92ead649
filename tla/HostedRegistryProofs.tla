------------------------ MODULE HostedRegistryProofs ------------------------
(***************************************************************************)
(* Theorems about HostedRegistry for any number of handlers, versions,     *)
(* bodies, keys, requests and crashes.                                     *)
(***************************************************************************)
EXTENDS HostedRegistry, FiniteSetTheorems, TLAPS

(* Only a running server has requests, and the handler between lock and    *)
(* answer is the one that holds the registry mutex.                        *)
HoldInv ==
    \A h \in Handlers :
        /\ pc[h] # "idle" => up /\ req[h] \in Requests
        /\ pc[h] \in HoldingSteps => regLock = h

(* What the handler that holds the mutex has done so far.                  *)
StepInv ==
    \A h \in Handlers :
        LET v == req[h].version IN
        /\ pc[h] \in {"archive", "archiving", "commit"} =>
              req[h].op = "publish" /\ registry[v] = None
        /\ pc[h] = "archiving" => artifacts[v] = Torn
        /\ pc[h] = "commit" => artifacts[v] = req[h].body
        /\ pc[h] \in {"save", "saving", "store"} =>
              /\ registry[v] # None
              /\ req[h].op = "publish" => registry[v].body = req[h].body
              /\ req[h].op = "yank" => registry[v].yanked
        /\ pc[h] = "store" => document = registry

(* registry.json is torn or the last complete one; the running server's    *)
(* document extends that one; both agree with the archives.                *)
DocInv ==
    /\ document = Torn \/ document = saved
    /\ up => Extended(saved, registry)
    /\ \A v \in Versions : registry[v] # None => artifacts[v] = registry[v].body
    /\ \A v \in Versions : saved[v] # None => artifacts[v] = saved[v].body

(* Acknowledged and recorded publishes are saved, and what the records of  *)
(* a running server say is true of its document.                           *)
SavedPublish(v, b) == saved[v] # None /\ saved[v].body = b

AckInv ==
    \A a \in answers :
        a.req.op = "publish" /\ a.code = "ok" => SavedPublish(a.req.version, a.req.body)

RecordTrue(record) ==
    LET print == record.print IN
    /\ record.code = "ok" /\ print.op = "publish" => SavedPublish(print.version, print.body)
    /\ up => registry[print.version] # None
    /\ up /\ record.code = "ok" /\ print.op = "yank" => registry[print.version].yanked

IdemInv == \A k \in Keys : idem[k] # None => RecordTrue(idem[k])

FiniteInv == IsFiniteSet(Used(idem))

Inv == TypeOK /\ FiniteInv /\ HoldInv /\ StepInv /\ DocInv /\ AckInv /\ IdemInv

-----------------------------------------------------------------------------
(* The fields of the two kinds of requests.                                *)
LEMMA RequestFields ==
    ASSUME NEW q \in Requests
    PROVE  /\ q.version \in Versions
           /\ q.key \in Keys
           /\ q.op \in {"publish", "yank"}
           /\ q.op = "publish" => q.body \in Bodies
  BY DEF Requests, Publish, Yank

(* A record names a version.                                               *)
LEMMA RecordFields ==
    ASSUME NEW record \in Records
    PROVE  record.print.version \in Versions /\ record.code \in {"ok", "version_exists"}
  <1>1. PICK q \in Requests : record.print = Fingerprint(q)
    BY DEF Records
  <1> QED BY <1>1, RequestFields DEF Fingerprint, Records

(* A server on an empty data directory satisfies the invariant.            *)
LEMMA InitInv == Init => Inv
  <1> SUFFICES ASSUME Init PROVE Inv
    OBVIOUS
  <1>1. Used(idem) = {}
    BY DEF Init, Used
  <1>2. TypeOK /\ FiniteInv
    BY <1>1, FS_EmptySet, RegistryAssumption
       DEF Init, TypeOK, FiniteInv, Documents, Empty, HoldingSteps
  <1>3. HoldInv /\ StepInv /\ DocInv /\ AckInv /\ IdemInv
    BY RegistryAssumption
       DEF Init, HoldInv, StepInv, DocInv, AckInv, IdemInv, Empty, HoldingSteps, Extended
  <1> QED BY <1>2, <1>3 DEF Inv

(* store_idempotency keeps the records within their bound, and every       *)
(* record afterwards is an old one or the new one.                         *)
LEMMA StoreFacts ==
    ASSUME TypeOK, FiniteInv, NEW h \in Handlers, req[h] \in Requests,
           NEW code \in {"ok", "version_exists"}, StoreIdempotency(h, code)
    PROVE  /\ idem' \in [Keys -> Records \cup {None}]
           /\ IsFiniteSet(Used(idem'))
           /\ Cardinality(Used(idem')) <= MaxRecords
           /\ \A k \in Keys : idem'[k] # None =>
                 idem'[k] = idem[k] \/ idem'[k] = [print |-> Fingerprint(req[h]), code |-> code]
  <1> DEFINE record == [print |-> Fingerprint(req[h]), code |-> code]
             key == req[h].key
             inserted == [idem EXCEPT ![key] = record]
  <1>1. key \in Keys
    BY RequestFields
  <1>2. record \in Records /\ record # None
    BY RegistryAssumption DEF Records
  <1>3. inserted \in [Keys -> Records \cup {None}]
    BY <1>1, <1>2 DEF TypeOK
  <1>4. Used(inserted) = Used(idem) \cup {key}
    BY <1>1, <1>2 DEF Used, TypeOK
  <1>5. /\ IsFiniteSet(Used(inserted))
        /\ Cardinality(Used(inserted)) \in Nat
        /\ Cardinality(Used(inserted)) <= Cardinality(Used(idem)) + 1
        /\ Cardinality(Used(idem)) \in Nat
    <2>1. IsFiniteSet(Used(idem))
      BY DEF FiniteInv
    <2>2. /\ IsFiniteSet(Used(idem) \cup {key})
          /\ Cardinality(Used(idem) \cup {key}) =
                IF key \in Used(idem) THEN Cardinality(Used(idem)) ELSE Cardinality(Used(idem)) + 1
      BY <2>1, FS_AddElement, Zenon
    <2>3. Cardinality(Used(idem)) \in Nat
      BY <2>1, FS_CardinalityType
    <2> HIDE DEF key, inserted
    <2> QED BY <1>4, <2>2, <2>3
  <1>6. MaxRecords \in Nat /\ Cardinality(Used(idem)) <= MaxRecords
    BY RegistryAssumption DEF TypeOK
  <1>7. CASE ~OverCapacity(inserted) /\ idem' = inserted
    <2>1. Cardinality(Used(idem')) <= MaxRecords
      BY <1>5, <1>6, <1>7 DEF OverCapacity
    <2> QED BY <1>1, <1>3, <1>5, <1>7, <2>1 DEF TypeOK
  <1>8. CASE \E oldest \in Used(inserted) : idem' = [inserted EXCEPT ![oldest] = None]
    <2>1. PICK oldest \in Used(inserted) : idem' = [inserted EXCEPT ![oldest] = None]
      BY <1>8
    <2>2. oldest \in Keys
      BY DEF Used
    <2>3. Used(idem') = Used(inserted) \ {oldest}
      BY <1>3, <2>1, <2>2 DEF Used
    <2>4. /\ IsFiniteSet(Used(idem'))
          /\ Cardinality(Used(idem')) = Cardinality(Used(inserted)) - 1
      <3> HIDE DEF inserted
      <3>1. /\ IsFiniteSet(Used(inserted) \ {oldest})
            /\ Cardinality(Used(inserted) \ {oldest}) =
                  IF oldest \in Used(inserted) THEN Cardinality(Used(inserted)) - 1
                                               ELSE Cardinality(Used(inserted))
        BY <1>5, FS_RemoveElement, Zenon
      <3> QED BY <2>1, <2>3, <3>1
    <2>5. Cardinality(Used(idem')) <= MaxRecords
      BY <1>5, <1>6, <2>4
    <2> QED BY <1>1, <1>3, <2>1, <2>2, <2>4, <2>5 DEF TypeOK
  <1> QED BY <1>7, <1>8 DEF StoreIdempotency

-----------------------------------------------------------------------------
(* A handler at work: its request is one, the server runs.                 *)
LEMMA BusyFacts ==
    ASSUME Inv, NEW h \in Handlers, pc[h] # "idle"
    PROVE  up /\ req[h] \in Requests /\ req[h].version \in Versions /\ req[h].key \in Keys
  BY RequestFields DEF Inv, HoldInv

(* Two handlers that hold the registry mutex are one.                      *)
LEMMA OneHolder ==
    ASSUME Inv, NEW h \in Handlers, NEW g \in Handlers,
           pc[h] \in HoldingSteps, pc[g] \in HoldingSteps
    PROVE  g = h
  BY DEF Inv, HoldInv

(* While the mutex is free nobody is between lock and answer.              *)
LEMMA NoHolder ==
    ASSUME Inv, regLock = None, NEW g \in Handlers
    PROVE  pc[g] \notin HoldingSteps
  BY RegistryAssumption DEF Inv, HoldInv

(* An answer that is not the acknowledgement of a publish, or one whose    *)
(* publish is saved.                                                       *)
LEMMA AnswerInv ==
    ASSUME Inv, NEW h \in Handlers, pc[h] # "idle", NEW code \in Codes, Answer(h, code),
           UNCHANGED saved,
           req[h].op = "publish" /\ code = "ok" => SavedPublish(req[h].version, req[h].body)
    PROVE  /\ AckInv'
           /\ answers' \subseteq Answers
           /\ pc' \in [Handlers -> HoldingSteps \cup {"idle", "replay", "lock"}]
           /\ pc'[h] = "idle"
           /\ \A g \in Handlers : g # h => pc'[g] = pc[g]
  <1>1. pc' = [pc EXCEPT ![h] = "idle"]
    BY DEF Answer, GoTo
  <1>2. answers' = answers \cup {[req |-> req[h], code |-> code, run |-> crashes]}
    BY DEF Answer
  <1>3. req[h] \in Requests
    BY BusyFacts
  <1>4. answers' \subseteq Answers
    BY <1>2, <1>3 DEF Inv, TypeOK, Answers
  <1>5. AckInv'
    BY <1>2 DEF Inv, AckInv, SavedPublish
  <1> QED BY <1>1, <1>4, <1>5 DEF Inv, TypeOK

(* An error answer of the holder, with all data as it is.                  *)
LEMMA FailInv ==
    ASSUME Inv, NEW h \in Handlers, pc[h] \in HoldingSteps, Fail(h),
           UNCHANGED <<document, saved, artifacts>>
    PROVE  Inv'
  <1>1. pc[h] # "idle"
    BY DEF HoldingSteps
  <1>2. /\ Answer(h, "error") /\ "error" \in Codes
        /\ regLock' = None
        /\ UNCHANGED <<up, registry, idem, req, submitted, crashes, document, saved, artifacts>>
    BY DEF Fail, Codes
  <1>3. /\ AckInv'
        /\ answers' \subseteq Answers
        /\ pc' \in [Handlers -> HoldingSteps \cup {"idle", "replay", "lock"}]
        /\ pc'[h] = "idle"
        /\ \A g \in Handlers : g # h => pc'[g] = pc[g]
    BY <1>1, <1>2, AnswerInv
  <1>4. \A g \in Handlers : pc'[g] \notin HoldingSteps
    BY <1>3, OneHolder DEF HoldingSteps
  <1>5. TypeOK' /\ FiniteInv'
    BY <1>2, <1>3 DEF Inv, TypeOK, FiniteInv
  <1>6. HoldInv' /\ StepInv'
    BY <1>2, <1>3, <1>4 DEF Inv, HoldInv, StepInv, HoldingSteps
  <1>7. DocInv' /\ IdemInv'
    BY <1>2 DEF Inv, DocInv, IdemInv, RecordTrue, SavedPublish
  <1> QED BY <1>3, <1>5, <1>6, <1>7 DEF Inv

(* Every error path of a request.                                          *)
LEMMA FailuresInv ==
    ASSUME Inv, NEW h \in Handlers,
           \/ CreateArchiveFails(h) \/ WriteArchiveFails(h) \/ OptionalArtifactFails(h)
           \/ OpenDocumentFails(h) \/ WriteDocumentFails(h)
    PROVE  Inv'
  BY FailInv DEF CreateArchiveFails, WriteArchiveFails, OptionalArtifactFails,
     OpenDocumentFails, WriteDocumentFails, HoldingSteps

(* An answer without the mutex, with all data but the records as it is.    *)
LEMMA AnsweredInv ==
    ASSUME Inv, NEW h \in Handlers, pc[h] \in {"replay", "lock"},
           NEW code \in Codes, Answer(h, code),
           UNCHANGED <<up, registry, regLock, req, document, saved, artifacts, submitted, crashes>>,
           req[h].op = "publish" /\ code = "ok" => SavedPublish(req[h].version, req[h].body),
           idem' \in [Keys -> Records \cup {None}],
           IsFiniteSet(Used(idem')), Cardinality(Used(idem')) <= MaxRecords, IdemInv'
    PROVE  Inv'
  <1>3. /\ AckInv'
        /\ answers' \subseteq Answers
        /\ pc' \in [Handlers -> HoldingSteps \cup {"idle", "replay", "lock"}]
        /\ pc'[h] = "idle"
        /\ \A g \in Handlers : g # h => pc'[g] = pc[g]
    BY AnswerInv
  <1>5. TypeOK' /\ FiniteInv'
    BY <1>3 DEF Inv, TypeOK, FiniteInv
  <1>6. HoldInv' /\ StepInv'
    BY <1>3 DEF Inv, HoldInv, StepInv, HoldingSteps
  <1>7. DocInv'
    BY DEF Inv, DocInv
  <1> QED BY <1>3, <1>5, <1>6, <1>7 DEF Inv

(* idempotency_replay answers from a record, and the record is true.       *)
LEMMA ReplayInv ==
    ASSUME Inv, NEW h \in Handlers, Replay(h)
    PROVE  Inv'
  <1> DEFINE record == idem[req[h].key]
             code == IF record.print = Fingerprint(req[h]) THEN record.code
                                                           ELSE "idempotency_conflict"
  <1>1. pc[h] = "replay" /\ Answer(h, code) /\ record # None
    BY DEF Replay
  <1>2. req[h] \in Requests /\ req[h].key \in Keys
    BY <1>1, BusyFacts
  <1>3. record \in Records /\ RecordTrue(record)
    BY <1>1, <1>2 DEF Inv, TypeOK, IdemInv
  <1>4. code \in Codes
    BY <1>3, RecordFields DEF Codes
  <1>5. req[h].op = "publish" /\ code = "ok" => SavedPublish(req[h].version, req[h].body)
    BY <1>3 DEF RecordTrue, Fingerprint
  <1>6. idem' \in [Keys -> Records \cup {None}] /\ IsFiniteSet(Used(idem'))
            /\ Cardinality(Used(idem')) <= MaxRecords /\ IdemInv'
    BY DEF Replay, Inv, TypeOK, FiniteInv, IdemInv, RecordTrue, SavedPublish
  <1>7. UNCHANGED <<up, registry, regLock, req, document, saved, artifacts, submitted, crashes>>
    BY DEF Replay
  <1> HIDE DEF code
  <1> QED BY <1>1, <1>4, <1>5, <1>6, <1>7, AnsweredInv

(* Answers that leave a record of a version that is there.                 *)
LEMMA RecordedInv ==
    ASSUME Inv, NEW h \in Handlers,
           PublishExisting(h) \/ YankAgain(h)
    PROVE  Inv'
  <1>1. PICK code \in {"ok", "version_exists"} :
           /\ StoreIdempotency(h, code) /\ Answer(h, code)
           /\ req[h].op = "publish" => code # "ok"
           /\ req[h].op = "yank" => registry[req[h].version].yanked
    BY DEF PublishExisting, YankAgain, Locking
  <1>2. /\ pc[h] = "lock" /\ registry[req[h].version] # None
        /\ UNCHANGED <<up, registry, regLock, req, document, saved, artifacts, submitted, crashes>>
    BY DEF PublishExisting, YankAgain, Locking
  <1>3. req[h] \in Requests
    BY <1>2, BusyFacts
  <1> DEFINE record == [print |-> Fingerprint(req[h]), code |-> code]
  <1>4. /\ idem' \in [Keys -> Records \cup {None}]
        /\ IsFiniteSet(Used(idem'))
        /\ Cardinality(Used(idem')) <= MaxRecords
        /\ \A k \in Keys : idem'[k] # None => idem'[k] = idem[k] \/ idem'[k] = record
    BY <1>1, <1>3, StoreFacts DEF Inv
  <1>5. RecordTrue(record)
    BY <1>1, <1>2, <1>3, RequestFields DEF RecordTrue, Fingerprint
  <1>6. IdemInv'
    BY <1>2, <1>4, <1>5 DEF Inv, IdemInv, RecordTrue, SavedPublish
  <1>7. code \in Codes
    BY DEF Codes
  <1> QED BY <1>1, <1>2, <1>4, <1>6, <1>7, AnsweredInv

(* A yank of an unknown version changes nothing.                           *)
LEMMA YankUnknownInv ==
    ASSUME Inv, NEW h \in Handlers, YankUnknown(h)
    PROVE  Inv'
  <1>1. /\ pc[h] = "lock" /\ Answer(h, "not_found") /\ "not_found" \in Codes
        /\ UNCHANGED <<up, registry, regLock, idem, req, document, saved, artifacts,
                       submitted, crashes>>
    BY DEF YankUnknown, Locking, Codes
  <1>2. idem' \in [Keys -> Records \cup {None}] /\ IsFiniteSet(Used(idem'))
            /\ Cardinality(Used(idem')) <= MaxRecords /\ IdemInv'
    BY <1>1 DEF Inv, TypeOK, FiniteInv, IdemInv, RecordTrue, SavedPublish
  <1> QED BY <1>1, <1>2, AnsweredInv

-----------------------------------------------------------------------------
(* Steps of a handler that answer nothing.                                 *)

(* A request arrives at an idle handler.                                   *)
LEMMA ReceiveInv ==
    ASSUME Inv, NEW h \in Handlers, NEW q \in Requests, Receive(h, q)
    PROVE  Inv'
  <1>1. /\ up /\ req' = [req EXCEPT ![h] = q]
        /\ pc' = [pc EXCEPT ![h] = "replay"]
        /\ submitted' \in 0 .. MaxRequests
        /\ UNCHANGED <<up, registry, regLock, idem, document, saved, artifacts, crashes, answers>>
    BY RegistryAssumption DEF Receive, GoTo, Inv, TypeOK
  <1>2. TypeOK' /\ FiniteInv'
    BY <1>1 DEF Inv, TypeOK, FiniteInv
  <1>3. HoldInv' /\ StepInv'
    BY <1>1 DEF Inv, TypeOK, HoldInv, StepInv, HoldingSteps
  <1>4. DocInv' /\ AckInv' /\ IdemInv'
    BY <1>1 DEF Inv, DocInv, AckInv, IdemInv, RecordTrue, SavedPublish
  <1> QED BY <1>2, <1>3, <1>4 DEF Inv

(* The key has no record: the handler goes on to the registry mutex.       *)
LEMMA NoReplayInv ==
    ASSUME Inv, NEW h \in Handlers, NoReplay(h)
    PROVE  Inv'
  <1>1. /\ pc[h] = "replay" /\ pc' = [pc EXCEPT ![h] = "lock"]
        /\ UNCHANGED <<up, registry, regLock, idem, req, document, saved, artifacts,
                       submitted, crashes, answers>>
    BY DEF NoReplay, GoTo
  <1>2. TypeOK' /\ FiniteInv'
    BY <1>1 DEF Inv, TypeOK, FiniteInv
  <1>3. HoldInv' /\ StepInv'
    BY <1>1 DEF Inv, TypeOK, HoldInv, StepInv, HoldingSteps
  <1>4. DocInv' /\ AckInv' /\ IdemInv'
    BY <1>1 DEF Inv, DocInv, AckInv, IdemInv, RecordTrue, SavedPublish
  <1> QED BY <1>2, <1>3, <1>4 DEF Inv

(* The mutex is free and taken for a version that is not there.            *)
LEMMA BeginPublishInv ==
    ASSUME Inv, NEW h \in Handlers, BeginPublish(h)
    PROVE  Inv'
  <1>1. /\ pc[h] = "lock" /\ regLock = None /\ req[h].op = "publish"
        /\ registry[req[h].version] = None
        /\ regLock' = h /\ pc' = [pc EXCEPT ![h] = "archive"]
        /\ UNCHANGED <<up, registry, idem, req, document, saved, artifacts,
                       submitted, crashes, answers>>
    BY DEF BeginPublish, Locking, GoTo
  <1>2. \A g \in Handlers : pc[g] \notin HoldingSteps
    BY <1>1, NoHolder
  <1>3. TypeOK' /\ FiniteInv'
    BY <1>1 DEF Inv, TypeOK, FiniteInv, HoldingSteps
  <1>4. HoldInv' /\ StepInv'
    BY <1>1, <1>2 DEF Inv, TypeOK, HoldInv, StepInv, HoldingSteps
  <1>5. DocInv' /\ AckInv' /\ IdemInv'
    BY <1>1 DEF Inv, DocInv, AckInv, IdemInv, RecordTrue, SavedPublish
  <1> QED BY <1>3, <1>4, <1>5 DEF Inv

(* The archive of a version that is nowhere recorded is created, then      *)
(* written.                                                                *)
LEMMA ArchiveInv ==
    ASSUME Inv, NEW h \in Handlers, CreateArchive(h) \/ WriteArchive(h)
    PROVE  Inv'
  <1> DEFINE v == req[h].version
  <1>1. /\ pc[h] \in {"archive", "archiving"}
        /\ UNCHANGED <<up, registry, regLock, idem, req, document, saved,
                       submitted, crashes, answers>>
    BY DEF CreateArchive, WriteArchive
  <1>2. PICK x \in Bodies \cup {Torn}, step \in {"archiving", "commit"} :
           /\ artifacts' = [artifacts EXCEPT ![v] = x]
           /\ pc' = [pc EXCEPT ![h] = step]
           /\ step = "archiving" => x = Torn
           /\ step = "commit" => x = req[h].body
    <2>1. CASE CreateArchive(h)
      BY <2>1 DEF CreateArchive, GoTo
    <2>2. CASE WriteArchive(h)
      <3>1. req[h] \in Requests /\ req[h].op = "publish"
        BY <1>1, BusyFacts DEF Inv, StepInv
      <3>2. req[h].body \in Bodies
        BY <3>1, RequestFields
      <3> QED BY <2>2, <3>2 DEF WriteArchive, Written, GoTo
    <2> QED BY <2>1, <2>2
  <1>3. up /\ v \in Versions /\ registry[v] = None /\ req[h].op = "publish"
    BY <1>1, BusyFacts DEF Inv, StepInv
  <1>4. saved[v] = None
    BY <1>3 DEF Inv, DocInv, Extended
  <1>5. \A g \in Handlers : g # h => pc[g] \notin HoldingSteps
    BY <1>1, OneHolder DEF HoldingSteps
  <1> HIDE DEF v
  <1>6. TypeOK' /\ FiniteInv'
    BY <1>1, <1>2 DEF Inv, TypeOK, FiniteInv, HoldingSteps
  <1>7. HoldInv'
    BY <1>1, <1>2, <1>5 DEF Inv, TypeOK, HoldInv, HoldingSteps
  <1>8. StepInv'
    <2>1. pc'[h] \in {"archiving", "commit"} /\ pc'[h] = step /\ artifacts'[v] = x
      BY <1>2, <1>3 DEF Inv, TypeOK
    <2>2. \A g \in Handlers : g # h => pc'[g] \notin HoldingSteps
      BY <1>2, <1>5 DEF Inv, TypeOK
    <2> QED BY <1>1, <1>2, <1>3, <2>1, <2>2 DEF StepInv, HoldingSteps, v
  <1>9. DocInv'
    BY <1>1, <1>2, <1>3, <1>4 DEF Inv, TypeOK, DocInv
  <1>10. AckInv' /\ IdemInv'
    BY <1>1 DEF Inv, AckInv, IdemInv, RecordTrue, SavedPublish
  <1> QED BY <1>6, <1>7, <1>8, <1>9, <1>10 DEF Inv

(* The document in memory changes: a version is pushed.  It still extends  *)
(* the saved one.                                                          *)
LEMMA CommitInv ==
    ASSUME Inv, NEW h \in Handlers, Commit(h)
    PROVE  Inv'
  <1> DEFINE v == req[h].version
             stored == [body |-> req[h].body, yanked |-> FALSE]
  <1>1. /\ pc[h] = "commit" /\ pc' = [pc EXCEPT ![h] = "save"]
        /\ registry' = [registry EXCEPT ![v] = stored]
        /\ UNCHANGED <<up, regLock, idem, req, document, saved, artifacts,
                       submitted, crashes, answers>>
    BY DEF Commit, GoTo
  <1>2. up /\ v \in Versions /\ req[h] \in Requests
    BY <1>1, BusyFacts
  <1>3. registry[v] = None /\ req[h].op = "publish" /\ artifacts[v] = req[h].body
    BY <1>1 DEF Inv, StepInv
  <1>4. stored \in StoredVersion /\ stored # None
    <2>1. req[h].body \in Bodies
      BY <1>2, <1>3, RequestFields
    <2>2. stored \in StoredVersion
      BY <2>1 DEF StoredVersion
    <2> QED BY <2>2, RegistryAssumption
  <1>5. saved[v] = None
    BY <1>2, <1>3 DEF Inv, DocInv, Extended
  <1>6. \A g \in Handlers : g # h => pc[g] \notin HoldingSteps
    BY <1>1, OneHolder DEF HoldingSteps
  <1>7. /\ registry' \in Documents /\ registry'[v] = stored
        /\ \A w \in Versions : w # v => registry'[w] = registry[w]
    BY <1>1, <1>2, <1>4 DEF Inv, TypeOK, Documents
  <1>8. TypeOK' /\ FiniteInv'
    BY <1>1, <1>7 DEF Inv, TypeOK, FiniteInv, HoldingSteps
  <1>9. /\ pc'[h] = "save"
        /\ \A g \in Handlers : g # h => pc'[g] = pc[g] /\ pc'[g] \notin HoldingSteps
    BY <1>1, <1>6 DEF Inv, TypeOK
  <1>10. HoldInv'
    BY <1>1, <1>9 DEF Inv, HoldInv, HoldingSteps
  <1>11. StepInv'
    BY <1>1, <1>3, <1>4, <1>7, <1>9 DEF StepInv, HoldingSteps
  <1>12. Extended(saved, registry)'
    BY <1>1, <1>2, <1>5, <1>7 DEF Inv, DocInv, Extended
  <1>13. DocInv'
    BY <1>1, <1>3, <1>7, <1>12 DEF Inv, DocInv
  <1>14. AckInv' /\ IdemInv'
    <2>1. AckInv'
      BY <1>1 DEF Inv, AckInv, SavedPublish
    <2>2. ASSUME NEW k \in Keys, idem'[k] # None PROVE RecordTrue(idem[k])'
      <3>1. idem[k] \in Records /\ RecordTrue(idem[k])
        BY <1>1, <2>2 DEF Inv, TypeOK, IdemInv
      <3>2. idem[k].print.version \in Versions
        BY <3>1, RecordFields
      <3>3. registry'[idem[k].print.version] = registry[idem[k].print.version]
        BY <1>2, <1>3, <1>7, <3>1, <3>2 DEF RecordTrue
      <3> QED BY <1>1, <3>1, <3>3 DEF RecordTrue, SavedPublish
    <2> QED BY <2>1, <2>2 DEF IdemInv
  <1> QED BY <1>8, <1>10, <1>11, <1>13, <1>14 DEF Inv

(* The document in memory changes: a version is yanked.                    *)
LEMMA BeginYankInv ==
    ASSUME Inv, NEW h \in Handlers, BeginYank(h)
    PROVE  Inv'
  <1> DEFINE v == req[h].version
  <1>1. /\ pc[h] = "lock" /\ regLock = None /\ req[h].op = "yank"
        /\ registry[v] # None /\ regLock' = h
        /\ pc' = [pc EXCEPT ![h] = "save"]
        /\ registry' = [registry EXCEPT ![v].yanked = TRUE]
        /\ UNCHANGED <<up, idem, req, document, saved, artifacts, submitted, crashes, answers>>
    BY DEF BeginYank, Locking, GoTo
  <1>2. up /\ v \in Versions
    BY <1>1, BusyFacts
  <1>3. registry[v] \in StoredVersion
    BY <1>1, <1>2 DEF Inv, TypeOK, Documents
  <1>4. registry'[v] = [registry[v] EXCEPT !.yanked = TRUE]
    BY <1>1, <1>2 DEF Inv, TypeOK, Documents
  <1>5. /\ registry'[v] \in StoredVersion
        /\ registry'[v].body = registry[v].body /\ registry'[v].yanked
    BY <1>3, <1>4 DEF StoredVersion
  <1>6. registry'[v] # None
    BY <1>5, RegistryAssumption
  <1>7. /\ registry' \in Documents
        /\ \A w \in Versions : w # v => registry'[w] = registry[w]
    BY <1>1, <1>2, <1>4, <1>5 DEF Inv, TypeOK, Documents
  <1>8. TypeOK' /\ FiniteInv'
    BY <1>1, <1>7 DEF Inv, TypeOK, FiniteInv, HoldingSteps
  <1>9. /\ pc'[h] = "save"
        /\ \A g \in Handlers : g # h => pc'[g] = pc[g] /\ pc'[g] \notin HoldingSteps
    BY <1>1, NoHolder DEF Inv, TypeOK
  <1>10. HoldInv'
    BY <1>1, <1>2, <1>9 DEF Inv, HoldInv, HoldingSteps
  <1>11. StepInv'
    BY <1>1, <1>5, <1>6, <1>9 DEF StepInv, HoldingSteps
  <1>12. Extended(saved, registry)'
    BY <1>1, <1>2, <1>5, <1>6, <1>7 DEF Inv, DocInv, Extended
  <1>13. DocInv'
    BY <1>1, <1>5, <1>7, <1>12 DEF Inv, DocInv
  <1>14. AckInv' /\ IdemInv'
    <2>1. AckInv'
      BY <1>1 DEF Inv, AckInv, SavedPublish
    <2>2. ASSUME NEW k \in Keys, idem'[k] # None PROVE RecordTrue(idem[k])'
      <3>1. idem[k] \in Records /\ RecordTrue(idem[k])
        BY <1>1, <2>2 DEF Inv, TypeOK, IdemInv
      <3>2. idem[k].print.version \in Versions
        BY <3>1, RecordFields
      <3>3. CASE idem[k].print.version = v
        BY <1>1, <1>5, <1>6, <3>1, <3>3 DEF RecordTrue, SavedPublish
      <3>4. CASE idem[k].print.version # v
        BY <1>1, <1>7, <3>1, <3>2, <3>4 DEF RecordTrue, SavedPublish
      <3> QED BY <3>3, <3>4
    <2> QED BY <2>1, <2>2 DEF IdemInv
  <1> QED BY <1>8, <1>10, <1>11, <1>13, <1>14 DEF Inv

(* registry.json is truncated: the saved document stays what it was.       *)
LEMMA OpenDocumentInv ==
    ASSUME Inv, NEW h \in Handlers, OpenDocument(h)
    PROVE  Inv'
  <1>1. /\ pc[h] = "save" /\ document' = Torn /\ pc' = [pc EXCEPT ![h] = "saving"]
        /\ UNCHANGED <<saved, up, registry, regLock, idem, req, artifacts,
                       submitted, crashes, answers>>
    BY DEF OpenDocument, GoTo
  <1>2. \A g \in Handlers : g # h => pc'[g] = pc[g] /\ pc'[g] \notin HoldingSteps
    BY <1>1, OneHolder DEF Inv, TypeOK, HoldingSteps
  <1>3. TypeOK' /\ FiniteInv'
    BY <1>1 DEF Inv, TypeOK, FiniteInv, HoldingSteps
  <1>4. HoldInv' /\ StepInv'
    BY <1>1, <1>2 DEF Inv, TypeOK, HoldInv, StepInv, HoldingSteps
  <1>5. DocInv' /\ AckInv' /\ IdemInv'
    BY <1>1 DEF Inv, DocInv, AckInv, IdemInv, RecordTrue, SavedPublish
  <1> QED BY <1>3, <1>4, <1>5 DEF Inv

(* registry.json is complete again and extends the one before.             *)
LEMMA WriteDocumentInv ==
    ASSUME Inv, NEW h \in Handlers, WriteDocument(h)
    PROVE  Inv' /\ Extended(saved, saved')
  <1>1. /\ pc[h] = "saving" /\ document' = registry /\ saved' = registry
        /\ pc' = [pc EXCEPT ![h] = "store"]
        /\ UNCHANGED <<up, registry, regLock, idem, req, artifacts, submitted, crashes, answers>>
    BY DEF WriteDocument, GoTo
  <1>2. up /\ Extended(saved, registry)
    BY <1>1, BusyFacts DEF Inv, DocInv
  <1>3. \A v \in Versions : \A b : SavedPublish(v, b) => SavedPublish(v, b)'
    BY <1>1, <1>2 DEF SavedPublish, Extended
  <1>4. \A g \in Handlers : g # h => pc'[g] = pc[g] /\ pc'[g] \notin HoldingSteps
    BY <1>1, OneHolder DEF Inv, TypeOK, HoldingSteps
  <1>5. TypeOK' /\ FiniteInv'
    BY <1>1 DEF Inv, TypeOK, FiniteInv, HoldingSteps
  <1>6. HoldInv' /\ StepInv'
    BY <1>1, <1>4 DEF Inv, TypeOK, HoldInv, StepInv, HoldingSteps
  <1>7. DocInv'
    BY <1>1 DEF Inv, DocInv, Extended
  <1>8. AckInv'
    BY <1>1, <1>3, RequestFields DEF Inv, TypeOK, AckInv, Answers
  <1>9. IdemInv'
    <2>1. ASSUME NEW k \in Keys, idem'[k] # None PROVE RecordTrue(idem[k])'
      <3>1. idem[k] \in Records /\ RecordTrue(idem[k])
        BY <1>1, <2>1 DEF Inv, TypeOK, IdemInv
      <3>2. idem[k].print.version \in Versions
        BY <3>1, RecordFields
      <3> QED BY <1>1, <1>3, <3>1, <3>2 DEF RecordTrue
    <2> QED BY <2>1 DEF IdemInv
  <1> QED BY <1>1, <1>2, <1>5, <1>6, <1>7, <1>8, <1>9 DEF Inv

(* The holder records its success and acknowledges it: what it says is in  *)
(* the saved document.                                                     *)
LEMMA StoreAndAnswerInv ==
    ASSUME Inv, NEW h \in Handlers, StoreAndAnswer(h)
    PROVE  Inv'
  <1> DEFINE record == [print |-> Fingerprint(req[h]), code |-> "ok"]
  <1>1. /\ pc[h] = "store" /\ StoreIdempotency(h, "ok") /\ Answer(h, "ok") /\ regLock' = None
        /\ UNCHANGED <<up, registry, req, document, saved, artifacts, submitted, crashes>>
    BY DEF StoreAndAnswer
  <1>2. up /\ req[h] \in Requests /\ req[h].version \in Versions
    BY <1>1, BusyFacts
  <1>3. saved = registry
    BY <1>1, RegistryAssumption DEF Inv, TypeOK, StepInv, DocInv
  <1>4. /\ registry[req[h].version] # None
        /\ req[h].op = "publish" => registry[req[h].version].body = req[h].body
        /\ req[h].op = "yank" => registry[req[h].version].yanked
    BY <1>1 DEF Inv, StepInv
  <1>5. /\ idem' \in [Keys -> Records \cup {None}]
        /\ IsFiniteSet(Used(idem'))
        /\ Cardinality(Used(idem')) <= MaxRecords
        /\ \A k \in Keys : idem'[k] # None => idem'[k] = idem[k] \/ idem'[k] = record
    BY <1>1, <1>2, StoreFacts DEF Inv
  <1>6. RecordTrue(record)
    BY <1>3, <1>4 DEF RecordTrue, SavedPublish, Fingerprint
  <1>7. IdemInv'
    BY <1>1, <1>5, <1>6 DEF Inv, IdemInv, RecordTrue, SavedPublish
  <1>8. /\ AckInv'
        /\ answers' \subseteq Answers
        /\ pc' \in [Handlers -> HoldingSteps \cup {"idle", "replay", "lock"}]
        /\ pc'[h] = "idle"
        /\ \A g \in Handlers : g # h => pc'[g] = pc[g]
    <2>1. "ok" \in Codes /\ pc[h] # "idle"
      BY <1>1 DEF Codes
    <2>2. req[h].op = "publish" /\ "ok" = "ok" => SavedPublish(req[h].version, req[h].body)
      BY <1>3, <1>4 DEF SavedPublish
    <2> QED BY <1>1, <2>1, <2>2, AnswerInv
  <1>9. \A g \in Handlers : pc'[g] \notin HoldingSteps
    BY <1>1, <1>8, OneHolder DEF HoldingSteps
  <1>10. TypeOK' /\ FiniteInv'
    BY <1>1, <1>5, <1>8 DEF Inv, TypeOK, FiniteInv
  <1>11. HoldInv' /\ StepInv'
    BY <1>1, <1>8, <1>9 DEF Inv, HoldInv, StepInv, HoldingSteps
  <1>12. DocInv'
    BY <1>1 DEF Inv, DocInv
  <1> QED BY <1>7, <1>8, <1>10, <1>11, <1>12 DEF Inv

(* A crash leaves the files; a restart reads the saved document, or none.  *)
LEMMA CrashInv ==
    ASSUME Inv, Crash \/ Restart
    PROVE  Inv'
  <1>1. CASE Crash
    <2>1. /\ up' = FALSE /\ pc' = [h \in Handlers |-> "idle"] /\ regLock' = None
          /\ crashes' \in 0 .. MaxCrashes
          /\ UNCHANGED <<registry, idem, req, document, saved, artifacts, submitted, answers>>
      BY <1>1, RegistryAssumption DEF Crash, Inv, TypeOK
    <2>2. TypeOK' /\ FiniteInv'
      <3>1. answers' \subseteq Answers
        BY <2>1 DEF Inv, TypeOK
      <3> QED BY <2>1, <3>1 DEF Inv, TypeOK, FiniteInv
    <2>3. HoldInv' /\ StepInv'
      BY <2>1 DEF HoldInv, StepInv, HoldingSteps
    <2>4. DocInv' /\ AckInv' /\ IdemInv'
      BY <2>1 DEF Inv, DocInv, AckInv, IdemInv, RecordTrue, SavedPublish
    <2> QED BY <2>2, <2>3, <2>4 DEF Inv
  <1>2. CASE Restart
    <2>1. /\ ~up /\ registry' = saved /\ idem' = [k \in Keys |-> None]
          /\ up' = TRUE
          /\ UNCHANGED <<regLock, pc, req, document, saved, artifacts, submitted, crashes, answers>>
      BY <1>2 DEF Restart, NewRecords, Inv, DocInv
    <2>2. Used(idem') = {}
      BY <2>1 DEF Used
    <2>3. TypeOK' /\ FiniteInv'
      BY <2>1, <2>2, FS_EmptySet, RegistryAssumption DEF Inv, TypeOK, FiniteInv
    <2>4. \A h \in Handlers : pc[h] = "idle"
      BY <2>1 DEF Inv, HoldInv
    <2>5. HoldInv' /\ StepInv'
      BY <2>1, <2>4 DEF HoldInv, StepInv, HoldingSteps
    <2>6. DocInv' /\ AckInv' /\ IdemInv'
      BY <2>1 DEF Inv, DocInv, AckInv, IdemInv, SavedPublish, Extended
    <2> QED BY <2>3, <2>5, <2>6 DEF Inv
  <1> QED BY <1>1, <1>2

(* Every step preserves the invariant.                                     *)
LEMMA NextInv ==
    ASSUME Inv, [Next]_vars
    PROVE  Inv'
  <1>1. CASE UNCHANGED vars
    BY <1>1 DEF vars, Inv, TypeOK, FiniteInv, HoldInv, StepInv, DocInv, AckInv, IdemInv,
       RecordTrue, SavedPublish
  <1>2. ASSUME NEW h \in Handlers, HandlerStep(h) PROVE Inv'
    BY <1>2, ReplayInv, NoReplayInv, RecordedInv, BeginPublishInv, ArchiveInv, FailuresInv,
       CommitInv, YankUnknownInv, BeginYankInv, OpenDocumentInv, WriteDocumentInv,
       StoreAndAnswerInv DEF HandlerStep
  <1>3. ASSUME NEW h \in Handlers, NEW q \in Requests, Receive(h, q) PROVE Inv'
    BY <1>3, ReceiveInv
  <1>4. CASE Crash \/ Restart
    BY <1>4, CrashInv
  <1> QED BY <1>1, <1>2, <1>3, <1>4 DEF Next

(* The inductive invariant holds in every reachable state.                 *)
THEOREM Invariance == Spec => []Inv
  <1>1. Init => Inv
    BY InitInv
  <1>2. Inv /\ [Next]_vars => Inv'
    BY NextInv
  <1> QED BY <1>1, <1>2, PTL DEF Spec

(* TypeOK: every variable of the server has its type and the idempotency   *)
(* records never exceed MAX_IDEMPOTENCY_RECORDS.                           *)
THEOREM TypeCorrect == Spec => []TypeOK
  <1>1. Inv => TypeOK
    BY DEF Inv
  <1> QED BY <1>1, Invariance, PTL

(* RecordsMatchArtifacts: the version records of the server and of         *)
(* registry.json agree with the archives written by publish_version_inner. *)
THEOREM RecordsHaveArtifacts == Spec => []RecordsMatchArtifacts
  <1>1. Inv => RecordsMatchArtifacts
    BY DEF Inv, DocInv, RecordsMatchArtifacts
  <1> QED BY <1>1, Invariance, PTL

(* AckedPublishDurable: what publish_version acknowledged is in            *)
(* registry.json whenever that file is complete, over any crashes.         *)
THEOREM PublishDurable == Spec => []AckedPublishDurable
  <1>1. Inv => AckedPublishDurable
    BY DEF Inv, DocInv, AckInv, SavedPublish, AckedPublishDurable
  <1> QED BY <1>1, Invariance, PTL

(* ReplaysTruthful: the answer idempotency_replay would give is true of    *)
(* the server's document.                                                  *)
THEOREM ReplaysAreTrue == Spec => []ReplaysTruthful
  <1>1. Inv => ReplaysTruthful
    <2> SUFFICES ASSUME Inv, up, NEW k \in Keys, idem[k] # None
                 PROVE  LET print == idem[k].print
                            stored == registry[print.version]
                        IN  /\ stored # None
                            /\ idem[k].code = "ok" /\ print.op = "publish" => stored.body = print.body
                            /\ idem[k].code = "ok" /\ print.op = "yank" => stored.yanked
      BY DEF ReplaysTruthful
    <2>1. RecordTrue(idem[k]) /\ idem[k] \in Records
      BY DEF Inv, TypeOK, IdemInv
    <2>2. idem[k].print.version \in Versions
      BY <2>1, RecordFields
    <2> QED BY <2>1, <2>2 DEF RecordTrue, SavedPublish, Inv, DocInv, Extended
  <1> QED BY <1>1, Invariance, PTL

(* AppendOnly: no complete registry.json loses or changes a version or     *)
(* lifts a yank of the one before, and write_new_file leaves every         *)
(* complete archive alone.                                                 *)
THEOREM StoreAppendOnly == Spec => AppendOnly
  <1> DEFINE Kept == /\ Extended(saved, saved')
                     /\ \A v \in Versions : artifacts[v] \in Bodies => artifacts'[v] = artifacts[v]
  <1>1. ASSUME Inv, [Next]_vars PROVE [Kept]_vars
    <2>1. Extended(saved, saved)
      BY DEF Extended
    <2>2. ASSUME NEW h \in Handlers, WriteDocument(h) PROVE Kept
      BY <1>1, <2>2, WriteDocumentInv DEF WriteDocument
    <2>3. ASSUME NEW h \in Handlers, CreateArchive(h) \/ WriteArchive(h) PROVE Kept
      <3>1. saved' = saved /\ pc[h] # "idle"
        BY <2>3 DEF CreateArchive, WriteArchive
      <3>2. artifacts[req[h].version] \in {None, Torn}
        BY <1>1, <2>3 DEF CreateArchive, CreateNew, WriteArchive, Inv, StepInv
      <3>3. artifacts[req[h].version] \notin Bodies
        BY <3>2, RegistryAssumption
      <3>4. \A v \in Versions : v # req[h].version => artifacts'[v] = artifacts[v]
        BY <1>1, <2>3 DEF CreateArchive, WriteArchive, Inv, TypeOK
      <3> QED BY <2>1, <3>1, <3>3, <3>4
    <2>4. CASE UNCHANGED <<saved, artifacts>>
      BY <2>1, <2>4
    <2>5. ASSUME NEW h \in Handlers, HandlerStep(h), ~WriteDocument(h),
                 ~CreateArchive(h), ~WriteArchive(h)
          PROVE  UNCHANGED <<saved, artifacts>>
      BY <2>5 DEF HandlerStep, Replay, NoReplay, PublishExisting, BeginPublish,
         CreateArchiveFails, WriteArchiveFails, Commit, OptionalArtifactFails, YankUnknown,
         YankAgain, BeginYank, OpenDocument, OpenDocumentFails, WriteDocumentFails,
         StoreAndAnswer
    <2>6. ASSUME Crash \/ Restart \/ \E h \in Handlers, q \in Requests : Receive(h, q)
          PROVE  UNCHANGED <<saved, artifacts>>
      BY <2>6 DEF Crash, Restart, Receive
    <2> QED BY <1>1, <2>2, <2>3, <2>4, <2>5, <2>6 DEF Next
  <1> QED BY <1>1, Invariance, PTL DEF Spec, AppendOnly

=============================================================================
