--------------------------- MODULE DatabaseSession ---------------------------
(***************************************************************************)
(* Application transactions (crates/ricochet_web/src/active_record.rs and  *)
(* database_capability.rs).                                                *)
(*                                                                         *)
(* Each request's VM has a session on one backend that all requests share. *)
(* A session's mutex serializes its calls.  SQLite has one connection in a *)
(* slot: a transaction takes it out, everybody else sleeps on a condition  *)
(* variable until it is put back.  PostgreSQL and MySQL open a connection  *)
(* per transaction.  The engines are external; what they do with begin,    *)
(* commit and savepoints when a transaction is over already differs.       *)
(***************************************************************************)
EXTENDS Integers, Sequences, FiniteSets, SequencesExt, FiniteSetsExt

CONSTANTS
    DbSessions,    \* database sessions, one per request
    DbAdapters,    \* backends to check
    AbortModes,    \* may a failing statement end the engine's transaction?
    MaxWrites,     \* bound: writes that succeed
    MaxBegins,     \* bound: transactions ever begun
    MaxSavepoints, \* bound: savepoints of one session
    SharedConn     \* SQLite's only connection

ASSUME DatabaseAssumption ==
    /\ IsFiniteSet(DbSessions) /\ SharedConn \notin DbSessions
    /\ DbAdapters \subseteq {"sqlite", "postgres", "mysql"} /\ AbortModes \subseteq BOOLEAN
    /\ {MaxWrites, MaxBegins, MaxSavepoints} \subseteq Nat

VARIABLES
    adapter,      \* the backend
    engineAborts, \* may a failing statement end the engine's transaction?
    inSlot,       \* SQLite: the slot holds the connection
    dbWaiting,    \* sessions asleep on the slot's condition variable
    dbPc,         \* the step of the call that holds each session's mutex
    dbTx,         \* is each session's TransactionState.backend set?
    savepoints,   \* TransactionState.savepoints
    nextSavepoint,\* TransactionState.next_savepoint
    frames,       \* engine: open transaction and savepoints of a connection
    aborted,      \* engine: PostgreSQL refuses everything until a rollback
    stored,       \* engine: writes that are committed
    begins,       \* how many transactions were begun
    writes,       \* how many writes succeeded
    mine,         \* history: what each session wrote, by savepoint
    acked, undone \* history: writes answered as committed, as rolled back

engineVars == <<frames, aborted, stored>>
dbHistory == <<mine, acked, undone>>
dbVars == <<adapter, engineAborts, inSlot, dbWaiting, dbPc, dbTx, savepoints, nextSavepoint,
            engineVars, begins, writes, dbHistory>>

Conns == DbSessions \cup {SharedConn}
ConnOf(s) == IF adapter = "sqlite" THEN SharedConn ELSE s
Begun == 0   \* the name of the frame that begin opens

DatabaseInit ==
    /\ adapter \in DbAdapters /\ engineAborts \in AbortModes
    /\ inSlot = TRUE
    /\ dbWaiting = {}
    /\ dbPc = [s \in DbSessions |-> "idle"]
    /\ dbTx = [s \in DbSessions |-> FALSE]
    /\ savepoints = [s \in DbSessions |-> << >>]
    /\ nextSavepoint = [s \in DbSessions |-> 0]
    /\ frames = [c \in Conns |-> << >>]
    /\ aborted = [c \in Conns |-> FALSE]
    /\ stored = {} /\ begins = 0 /\ writes = 0
    /\ mine = [s \in DbSessions |-> << >>]
    /\ acked = {} /\ undone = {}

-----------------------------------------------------------------------------
(* The engine *)

Work(fs) == UNION {fs[i].work : i \in DOMAIN fs}
Named(fs, n) == \E i \in DOMAIN fs : fs[i].name = n
Position(fs, n) == CHOOSE i \in DOMAIN fs : fs[i].name = n
AddTo(stack, w) == [stack EXCEPT ![Len(stack)] = @ \cup {w}]

EngineWrite(c, w) ==
    IF frames[c] # << >>
    THEN /\ frames' = [frames EXCEPT ![c][Len(frames[c])].work = @ \cup {w}]
         /\ UNCHANGED stored
    ELSE stored' = stored \cup {w} /\ UNCHANGED frames

(* What a statement that fails leaves of the transaction it is in.         *)
EngineStatementFails(c) ==
    IF engineAborts /\ frames[c] # << >>
    THEN IF adapter = "postgres"
         THEN aborted' = [aborted EXCEPT ![c] = TRUE] /\ UNCHANGED frames
         ELSE frames' = [frames EXCEPT ![c] = << >>] /\ UNCHANGED aborted
    ELSE UNCHANGED <<frames, aborted>>

(* SQLite has no commit or rollback outside a transaction; the others      *)
(* answer it with a warning at most.                                       *)
EngineCanEnd(c) == adapter = "sqlite" => frames[c] # << >>

EngineCommit(c) ==
    /\ stored' = IF aborted[c] THEN stored ELSE stored \cup Work(frames[c])
    /\ frames' = [frames EXCEPT ![c] = << >>]
    /\ aborted' = [aborted EXCEPT ![c] = FALSE]

EngineRollback(c) ==
    /\ frames' = [frames EXCEPT ![c] = << >>]
    /\ aborted' = [aborted EXCEPT ![c] = FALSE]
    /\ UNCHANGED stored

(* Outside a transaction savepoint begins one (SQLite), is an error        *)
(* (PostgreSQL) or has no effect (MySQL).                                  *)
EngineCanSave(c) == ~aborted[c] /\ (adapter = "postgres" => frames[c] # << >>)
EngineSavepoint(c, n) ==
    /\ frames' = IF frames[c] = << >> /\ adapter = "mysql" THEN frames
                 ELSE [frames EXCEPT ![c] = Append(@, [name |-> n, work |-> {}])]
    /\ UNCHANGED <<aborted, stored>>

(* release n gives the work since n to the frame below, and commits it     *)
(* when there is none.                                                     *)
EngineRelease(c, n) ==
    LET i == Position(frames[c], n)
        since == Work(SubSeq(frames[c], i, Len(frames[c])))
    IN /\ frames' = [frames EXCEPT ![c] =
                        IF i = 1 THEN << >>
                        ELSE [SubSeq(frames[c], 1, i - 1) EXCEPT ![i - 1].work = @ \cup since]]
       /\ stored' = IF i = 1 THEN stored \cup since ELSE stored
       /\ UNCHANGED aborted

(* Mutant: the savepoint is released without going back to it.             *)
OnlyRelease(c, n) == EngineRelease(c, n)

(* rollback_to_savepoint: "rollback to savepoint n; release savepoint n"   *)
RollbackToAndRelease(c, n) ==
    LET i == Position(frames[c], n)
    IN /\ frames' = [frames EXCEPT ![c] = SubSeq(@, 1, i - 1)]
       /\ aborted' = [aborted EXCEPT ![c] = FALSE]
       /\ UNCHANGED stored

-----------------------------------------------------------------------------
(* SqliteConnectionSlot *)

(* put: the connection is back and one sleeper is notified.                *)
Put ==
    /\ inSlot' = TRUE
    /\ IF dbWaiting = {} THEN UNCHANGED dbWaiting
       ELSE \E w \in dbWaiting : dbWaiting' = dbWaiting \ {w}

(* The transaction's connection goes back to the slot, or is closed.       *)
GiveBack == IF adapter = "sqlite" THEN Put ELSE UNCHANGED <<inSlot, dbWaiting>>

(* The loop of with_connection and take: no connection, so sleep.          *)
Sleep(s) ==
    /\ dbPc[s] \in {"statement", "begin"} /\ s \notin dbWaiting
    /\ adapter = "sqlite" /\ ~inSlot
    /\ dbWaiting' = dbWaiting \cup {s}
    /\ UNCHANGED <<adapter, engineAborts, inSlot, dbPc, dbTx, savepoints, nextSavepoint, engineVars,
                   begins, writes, dbHistory>>

(* A condition variable may wake a sleeper for no reason.                  *)
WakeSpuriously(s) ==
    /\ s \in dbWaiting
    /\ dbWaiting' = dbWaiting \ {s}
    /\ UNCHANGED <<adapter, engineAborts, inSlot, dbPc, dbTx, savepoints, nextSavepoint, engineVars,
                   begins, writes, dbHistory>>

(* Awake, with the slot's mutex and a connection                           *)
Connected(s) == s \notin dbWaiting /\ (adapter = "sqlite" => inSlot)

-----------------------------------------------------------------------------
(* Statements: with_backend and the backends' with_connection *)

CallStatement(s) ==
    /\ dbPc[s] = "idle" /\ ~dbTx[s]
    /\ dbPc' = [dbPc EXCEPT ![s] = "statement"]
    /\ UNCHANGED <<adapter, engineAborts, inSlot, dbWaiting, dbTx, savepoints, nextSavepoint, engineVars,
                   begins, writes, dbHistory>>

(* Outside a transaction the statement runs with the slot's mutex held.    *)
RunOnSlot(s) ==
    /\ dbPc[s] = "statement" /\ Connected(s)
    /\ dbPc' = [dbPc EXCEPT ![s] = "idle"]
    /\ \/ /\ writes < MaxWrites
          /\ writes' = writes + 1
          /\ stored' = stored \cup {writes'} /\ acked' = acked \cup {writes'}
       \/ UNCHANGED <<writes, stored, acked>>   \* a read, or a failure
    /\ UNCHANGED <<adapter, engineAborts, inSlot, dbWaiting, dbTx, savepoints, nextSavepoint,
                   frames, aborted, begins, mine, undone>>

RunInTransaction(s) ==
    /\ dbPc[s] = "idle" /\ dbTx[s]
    /\ \/ /\ writes < MaxWrites /\ ~aborted[ConnOf(s)]
          /\ writes' = writes + 1
          /\ EngineWrite(ConnOf(s), writes')
          /\ mine' = [mine EXCEPT ![s] = AddTo(@, writes')]
          /\ UNCHANGED aborted
       \/ EngineStatementFails(ConnOf(s)) /\ UNCHANGED <<writes, stored, mine>>
    /\ UNCHANGED <<adapter, engineAborts, inSlot, dbWaiting, dbPc, dbTx, savepoints, nextSavepoint,
                   begins, acked, undone>>

-----------------------------------------------------------------------------
(* SessionDatabase::begin *)

CallBegin(s) ==
    /\ dbPc[s] = "idle" /\ ~dbTx[s] /\ begins < MaxBegins
    /\ begins' = begins + 1
    /\ dbPc' = [dbPc EXCEPT ![s] = "begin"]
    /\ UNCHANGED <<adapter, engineAborts, inSlot, dbWaiting, dbTx, savepoints, nextSavepoint, engineVars,
                   writes, dbHistory>>

(* take, or a connection of its own                                        *)
TakeConnection(s) ==
    /\ dbPc[s] = "begin" /\ Connected(s)
    /\ inSlot' = (adapter # "sqlite")
    /\ dbPc' = [dbPc EXCEPT ![s] = "beginning"]
    /\ UNCHANGED <<adapter, engineAborts, dbWaiting, dbTx, savepoints, nextSavepoint, engineVars, begins,
                   writes, dbHistory>>

BeginSucceeds(s) ==
    /\ dbPc[s] = "beginning" /\ frames[ConnOf(s)] = << >>
    /\ dbPc' = [dbPc EXCEPT ![s] = "idle"]
    /\ dbTx' = [dbTx EXCEPT ![s] = TRUE]
    /\ savepoints' = [savepoints EXCEPT ![s] = << >>]
    /\ frames' = [frames EXCEPT ![ConnOf(s)] = << [name |-> Begun, work |-> {}] >>]
    /\ mine' = [mine EXCEPT ![s] = << {} >>]
    /\ UNCHANGED <<adapter, engineAborts, inSlot, dbWaiting, nextSavepoint, aborted, stored, begins,
                   writes, acked, undone>>

BeginFails(s) ==
    /\ dbPc[s] = "beginning"
    /\ dbPc' = [dbPc EXCEPT ![s] = "idle"]
    /\ GiveBack
    /\ UNCHANGED <<adapter, engineAborts, dbTx, savepoints, nextSavepoint, engineVars, begins, writes,
                   dbHistory>>

-----------------------------------------------------------------------------
(* SessionDatabase::commit and rollback *)

(* The session forgets the transaction, and its connection is given back.  *)
TransactionOver(s) ==
    /\ dbTx' = [dbTx EXCEPT ![s] = FALSE]
    /\ savepoints' = [savepoints EXCEPT ![s] = << >>]
    /\ mine' = [mine EXCEPT ![s] = << >>]
    /\ GiveBack

CommitSucceeds(s) ==
    /\ dbPc[s] = "idle" /\ dbTx[s] /\ EngineCanEnd(ConnOf(s))
    /\ EngineCommit(ConnOf(s))
    /\ acked' = acked \cup UNION Range(mine[s])
    /\ TransactionOver(s)
    /\ UNCHANGED <<adapter, engineAborts, dbPc, nextSavepoint, begins, writes, undone>>

(* An error keeps the session's transaction; PostgreSQL's is over.         *)
CommitFails(s) ==
    /\ dbPc[s] = "idle" /\ dbTx[s] /\ adapter = "postgres" /\ engineAborts
    /\ frames[ConnOf(s)] # << >> /\ ~aborted[ConnOf(s)]
    /\ frames' = [frames EXCEPT ![ConnOf(s)] = << >>]
    /\ UNCHANGED <<adapter, engineAborts, inSlot, dbWaiting, dbPc, dbTx, savepoints, nextSavepoint,
                   aborted, stored, begins, writes, dbHistory>>

RollbackSucceeds(s) ==
    /\ dbPc[s] = "idle" /\ dbTx[s] /\ EngineCanEnd(ConnOf(s))
    /\ EngineRollback(ConnOf(s))
    /\ undone' = undone \cup UNION Range(mine[s])
    /\ TransactionOver(s)
    /\ UNCHANGED <<adapter, engineAborts, dbPc, nextSavepoint, begins, writes, acked>>

(* Mutant: the connection is put back as it is.                            *)
DropWithoutRollback(c) == UNCHANGED engineVars

(* Drop of SqliteTransactionState; a dropped PostgreSQL or MySQL           *)
(* connection is rolled back by its server.                                *)
DropTransaction(c) == EngineRollback(c)

(* The request is over and its session is dropped; the next one is new.    *)
(* rollback_transaction may fail, the drop of the transaction does not.    *)
DropSession(s) ==
    /\ dbPc[s] = "idle" /\ (dbTx[s] \/ nextSavepoint[s] # 0)
    /\ nextSavepoint' = [nextSavepoint EXCEPT ![s] = 0]
    /\ IF dbTx[s]
       THEN /\ DropTransaction(ConnOf(s))
            /\ undone' = undone \cup UNION Range(mine[s])
            /\ TransactionOver(s)
       ELSE UNCHANGED <<engineVars, undone, dbTx, savepoints, mine, inSlot, dbWaiting>>
    /\ UNCHANGED <<adapter, engineAborts, dbPc, begins, writes, acked>>

-----------------------------------------------------------------------------
(* Savepoints *)

(* The counter advances even if the engine refuses.                        *)
Savepoint(s) ==
    LET n == nextSavepoint[s] + 1
    IN /\ dbPc[s] = "idle" /\ dbTx[s] /\ nextSavepoint[s] < MaxSavepoints
       /\ nextSavepoint' = [nextSavepoint EXCEPT ![s] = n]
       /\ \/ /\ EngineCanSave(ConnOf(s))
             /\ EngineSavepoint(ConnOf(s), n)
             /\ savepoints' = [savepoints EXCEPT ![s] = Append(@, n)]
             /\ mine' = [mine EXCEPT ![s] = Append(@, {})]
          \/ UNCHANGED <<engineVars, savepoints, mine>>
       /\ UNCHANGED <<adapter, engineAborts, inSlot, dbWaiting, dbPc, dbTx, begins, writes, acked, undone>>

(* Mutant: any savepoint may be completed.                                 *)
AnySavepoint(s, n) == n \in Range(savepoints[s])

(* finish_savepoint refuses all but the one created last.                  *)
MayFinish(s, n) == savepoints[s] # << >> /\ Last(savepoints[s]) = n

ReleaseSavepoint(s) == \E n \in 1 .. MaxSavepoints :
    LET top == Len(mine[s])
    IN /\ dbPc[s] = "idle" /\ dbTx[s] /\ MayFinish(s, n)
       /\ Named(frames[ConnOf(s)], n) /\ ~aborted[ConnOf(s)]
       /\ EngineRelease(ConnOf(s), n)
       /\ savepoints' = [savepoints EXCEPT ![s] = Front(@)]
       /\ mine' = [mine EXCEPT ![s] = [Front(mine[s]) EXCEPT ![top - 1] = @ \cup mine[s][top]]]
       /\ UNCHANGED <<adapter, engineAborts, inSlot, dbWaiting, dbPc, dbTx, nextSavepoint, begins,
                      writes, acked, undone>>

RollbackToSavepoint(s) == \E n \in 1 .. MaxSavepoints :
    /\ dbPc[s] = "idle" /\ dbTx[s] /\ MayFinish(s, n) /\ Named(frames[ConnOf(s)], n)
    /\ RollbackToAndRelease(ConnOf(s), n)
    /\ savepoints' = [savepoints EXCEPT ![s] = Front(@)]
    /\ mine' = [mine EXCEPT ![s] = Front(@)]
    /\ undone' = undone \cup Last(mine[s])
    /\ UNCHANGED <<adapter, engineAborts, inSlot, dbWaiting, dbPc, dbTx, nextSavepoint, begins,
                   writes, acked>>

-----------------------------------------------------------------------------
DatabaseNext == \E s \in DbSessions :
    \/ Sleep(s) \/ WakeSpuriously(s)
    \/ CallStatement(s) \/ RunOnSlot(s) \/ RunInTransaction(s)
    \/ CallBegin(s) \/ TakeConnection(s) \/ BeginSucceeds(s) \/ BeginFails(s)
    \/ CommitSucceeds(s) \/ CommitFails(s) \/ RollbackSucceeds(s) \/ DropSession(s)
    \/ Savepoint(s) \/ ReleaseSavepoint(s) \/ RollbackToSavepoint(s)

(* A thread that can go on does, and every request ends, which drops its   *)
(* session; nothing wakes a sleeper but a put.                             *)
DatabaseFairness == \A s \in DbSessions :
    /\ WF_dbVars(RunOnSlot(s)) /\ WF_dbVars(Sleep(s)) /\ WF_dbVars(TakeConnection(s))
    /\ WF_dbVars(BeginSucceeds(s) \/ BeginFails(s))
    /\ WF_dbVars(DropSession(s))

DatabaseSpec == DatabaseInit /\ [][DatabaseNext]_dbVars /\ DatabaseFairness

-----------------------------------------------------------------------------
(* Every variable has its type.                                            *)
DatabaseTypeOK ==
    /\ adapter \in DbAdapters /\ engineAborts \in BOOLEAN
    /\ inSlot \in BOOLEAN /\ dbWaiting \subseteq DbSessions
    /\ dbPc \in [DbSessions -> {"idle", "statement", "begin", "beginning"}]
    /\ dbTx \in [DbSessions -> BOOLEAN]
    /\ \A s \in DbSessions : savepoints[s] \in Seq(1 .. MaxSavepoints)
    /\ nextSavepoint \in [DbSessions -> 0 .. MaxSavepoints]
    /\ aborted \in [Conns -> BOOLEAN]
    /\ stored \subseteq 1 .. writes /\ acked \subseteq 1 .. writes /\ undone \subseteq 1 .. writes
    /\ begins \in 0 .. MaxBegins /\ writes \in 0 .. MaxWrites

(* Counted from the top, the frames fs of a connection are the savepoints  *)
(* saved of its session; the frame that begin opened is at the bottom.     *)
InStep(fs, saved) == \A i \in DOMAIN fs :
    LET k == Len(saved) - (Len(fs) - i)
    IN IF fs[i].name = Begun THEN i = 1 ELSE k \in DOMAIN saved /\ saved[k] = fs[i].name

(* SQLite's connection is in one place: in the slot or with the one        *)
(* session that began or is beginning a transaction.  In the slot it has   *)
(* no transaction open, however the last one ended, so nobody's statement  *)
(* joins a stranger's transaction.  The savepoints that the engine knows   *)
(* are the last ones of the session, in its order.                         *)
ConnectionsAccounted ==
    /\ adapter = "sqlite" =>
          /\ Cardinality({s \in DbSessions : dbTx[s] \/ dbPc[s] = "beginning"})
                = (IF inSlot THEN 0 ELSE 1)
          /\ inSlot => frames[SharedConn] = << >>
    /\ \A s \in DbSessions : dbTx[s] => InStep(frames[ConnOf(s)], savepoints[s])

(* commit, rollback, rollback to a savepoint and the drop of a session     *)
(* tell the truth through every nesting of savepoints, as long as the      *)
(* engine does not end a transaction on its own: what was answered as      *)
(* committed is stored, what was rolled back is not.                       *)
WorkTruthful == ~engineAborts => acked \subseteq stored /\ undone \cap stored = {}

(* Sessions do not meet in each other's transactions, and what they answer *)
(* about their own is true.                                                *)
TransactionsIsolated == ConnectionsAccounted /\ WorkTruthful

(* begin comes back with a Result (docs/wiki/web-and-data.html: "Every     *)
(* manual transaction word returns a Result").                             *)
BeginReturns == \A s \in DbSessions : (dbPc[s] = "begin") ~> (dbPc[s] # "begin")

=============================================================================
